----------------------------- MODULE PromiseProofs -----------------------------
(***************************************************************************)
(* What the payments contract owes - revenue, payments in dispute, accrued *)
(* platform fees, shares of settled splits - against what it holds.        *)
(***************************************************************************)
EXTENDS TradeProofs

-----------------------------------------------------------------------------
(* What is owed of one event in one token.                                 *)

\* The amount that the record in a slot sets aside for a dispute.
Aside(r, e, t) == IF Counts(r, e, t) /\ r.status = "Disputed" THEN r.amount ELSE 0
AllAside(p, e, t) == [i \in PaymentIds |-> Aside(p[i], e, t)]
SetAside(p, e, t) == SumFunction(AllAside(p, e, t))

\* The accrued platform fees and the settled split shares not yet paid.
Rest(e, t) == IF t = AcceptedToken THEN platformRevenue[e] + UnpaidSettlement(e) ELSE 0

Owed(e, t) == tokenRevenue[e][t] + SetAside(payments, e, t) + Rest(e, t)

LEMMA AsideTypes ==
  ASSUME NEW p \in Records, NEW e \in Events, NEW t \in Tokens
  PROVE  AllAside(p, e, t) \in [PaymentIds -> Int] /\ SetAside(p, e, t) \in Int
<1>1. ASSUME NEW i \in PaymentIds PROVE Aside(p[i], e, t) \in Int
  <2>1. CASE p[i] = None
    BY <2>1 DEF Aside, Counts
  <2>2. CASE p[i] # None
    <3>1. p[i] \in PaymentRecord
      BY <2>2 DEF Records
    <3>2. p[i].amount \in Int
      BY <3>1 DEF PaymentRecord
    <3>3. QED
      BY <3>2 DEF Aside
  <2>3. QED
    BY <2>1, <2>2
<1>2. AllAside(p, e, t) \in [PaymentIds -> Int]
  BY <1>1 DEF AllAside
<1>3. QED
  BY <1>2, FinitelyManyPayments, SumType DEF SetAside

\* One record changes: the sum changes by what it sets aside.
LEMMA AsideChanged ==
  ASSUME NEW p \in Records, NEW q \in Records, NEW i \in PaymentIds,
         \A j \in PaymentIds \ {i} : q[j] = p[j], NEW e \in Events, NEW t \in Tokens
  PROVE  SetAside(q, e, t) = SetAside(p, e, t) + (Aside(q[i], e, t) - Aside(p[i], e, t))
<1> DEFINE F == AllAside(p, e, t)
           G == AllAside(q, e, t)
<1>1. F \in [PaymentIds -> Int] /\ G \in [PaymentIds -> Int]
  BY AsideTypes
<1>2. \A j \in PaymentIds \ {i} : F[j] = G[j]
  BY DEF AllAside
<1>3. F[i] = Aside(p[i], e, t) /\ G[i] = Aside(q[i], e, t)
  BY DEF AllAside
<1> HIDE DEF F, G
<1>4. SumFunction(G) = SumFunction(F) + (G[i] - F[i])
  BY <1>1, <1>2, FinitelyManyPayments, SumChanged
<1>5. QED
  BY <1>3, <1>4 DEF F, G, SetAside

LEMMA AsideKept ==
  ASSUME NEW p, NEW q, NEW e, NEW t,
         \A i \in PaymentIds : Aside(q[i], e, t) = Aside(p[i], e, t)
  PROVE  SetAside(q, e, t) = SetAside(p, e, t)
<1>1. AllAside(q, e, t) = AllAside(p, e, t)
  BY DEF AllAside
<1>2. QED
  BY <1>1 DEF SetAside

\* What is in dispute of an event is the padded sum over all slots.
LEMMA DisputedIsAside ==
  ASSUME BooksInv, NEW e \in Events, NEW t \in Tokens
  PROVE  Disputed(e, t) = SetAside(payments, e, t)
<1> DEFINE R == {j \in PaymentsOf(e, t) : payments[j].status = "Disputed"}
           F == [i \in R |-> payments[i].amount]
           G == AllAside(payments, e, t)
<1>1. payments \in Records
  BY DEF BooksInv, DisputeInv, RecordsTypeOK, SaleTypeOK, Records
<1>2. /\ R \in SUBSET PaymentIds
      /\ \A i \in PaymentIds : i \in R <=> /\ Counts(payments[i], e, t)
                                           /\ payments[i].status = "Disputed"
  BY DEF PaymentsOf, Made, Counts
<1>3. F \in [R -> Int]
  <2>1. ASSUME NEW i \in R PROVE payments[i].amount \in Int
    <3>1. payments[i] \in PaymentRecord
      BY <1>1, <1>2 DEF Records, Counts
    <3>2. QED
      BY <3>1 DEF PaymentRecord
  <2>2. QED
    BY <2>1
<1>4. \A i \in PaymentIds : G[i] = IF i \in R THEN F[i] ELSE 0
  BY <1>2 DEF AllAside, Aside
<1>5. G \in [PaymentIds -> Int]
  BY <1>1, AsideTypes
<1>6. Disputed(e, t) = SumFunction(F)
  BY DEF Disputed
<1> HIDE DEF F, G, R
<1>7. SumFunction(F) = SumFunction(G)
  BY <1>2, <1>3, <1>4, <1>5, FinitelyManyPayments, SumPadded
<1>8. QED
  BY <1>6, <1>7 DEF G, SetAside

LEMMA UnpaidIsInt ==
  ASSUME MoneyTypeOK, NEW e \in Events
  PROVE  UnpaidSettlement(e) \in Int
<1>1. splitWithdrawn[e] \in [Users -> Int] /\ settlement[e] \in Nat \cup {None}
  BY DEF MoneyTypeOK
<1>2. SumFunction(splitWithdrawn[e]) \in Int
  BY <1>1, FiniteAssumption, SumType
<1>3. QED
  BY <1>1, <1>2 DEF UnpaidSettlement

LEMMA OwedTypes ==
  ASSUME BooksInv, NEW e \in Events, NEW t \in Tokens
  PROVE  /\ tokenRevenue[e][t] \in Int /\ SetAside(payments, e, t) \in Int
         /\ platformRevenue[e] \in Int /\ UnpaidSettlement(e) \in Int
         /\ Rest(e, t) \in Int /\ Owed(e, t) \in Int
<1>1. payments \in Records
  BY DEF BooksInv, DisputeInv, RecordsTypeOK, SaleTypeOK, Records
<1>2. tokenRevenue[e][t] \in Int /\ platformRevenue[e] \in Int
  BY DEF BooksInv, MoneyTypeOK
<1>3. SetAside(payments, e, t) \in Int
  BY <1>1, AsideTypes
<1>4. UnpaidSettlement(e) \in Int
  BY UnpaidIsInt DEF BooksInv
<1>5. Rest(e, t) \in Int
  BY <1>2, <1>4 DEF Rest
<1>6. QED
  BY <1>2, <1>3, <1>4, <1>5 DEF Owed


-----------------------------------------------------------------------------
(* What a call does to it.                                                 *)

\* Nothing is paid in or out, and what is owed stays the same.
Idle ==
  /\ UNCHANGED <<balance, totalVolume, totalRefunds, totalWithdrawn>>
  /\ \A e \in Events, t \in Tokens : Owed(e, t)' = Owed(e, t)

\* Nothing changes what is owed of the other events.
OthersOwed(e) == \A d \in Events \ {e}, t \in Tokens : Owed(d, t)' = Owed(d, t)

\* What is owed of one event changes with the balance.
OwedOn(e) ==
  /\ OthersOwed(e)
  /\ \A t \in Tokens : Owed(e, t)' = Owed(e, t) + (balance'[t] - balance[t])

LEMMA RestKept ==
  ASSUME NEW e, NEW t, platformRevenue'[e] = platformRevenue[e],
         settlement'[e] = settlement[e], splitWithdrawn'[e] = splitWithdrawn[e]
  PROVE  Rest(e, t)' = Rest(e, t)
BY DEF Rest, UnpaidSettlement

\* A call that moves no money, closes no dispute and raises none.
LEMMA NothingOwed ==
  ASSUME UNCHANGED <<bookVars, settlement, splitWithdrawn>>,
         \A i \in PaymentIds, e \in Events, t \in Tokens :
           Aside(payments'[i], e, t) = Aside(payments[i], e, t)
  PROVE  Idle
<1>1. ASSUME NEW e \in Events, NEW t \in Tokens PROVE Owed(e, t)' = Owed(e, t)
  <2>1. SetAside(payments', e, t) = SetAside(payments, e, t)
    BY AsideKept
  <2>2. Rest(e, t)' = Rest(e, t)
    BY RestKept DEF bookVars
  <2>3. QED
    BY <2>1, <2>2 DEF Owed, bookVars
<1>2. QED
  BY <1>1 DEF Idle, bookVars

\* Binding a receipt, or nothing at all, leaves what is set aside alone.
LEMMA AsideAfterBinding ==
  ASSUME BooksInv, NEW i \in PaymentIds, NEW c \in EmailCommitments, BindEmailCommitment(i, c)
  PROVE  Idle
<1>1. payments[i] # None /\ payments' = [payments EXCEPT ![i].zk_email_commitment = c]
  BY DEF BindEmailCommitment
<1>2. payments[i] \in PaymentRecord /\ payments \in Records
  BY <1>1, PaymentFields DEF BooksInv, DisputeInv, RecordsTypeOK, SaleTypeOK, Records
<1>3. \A j \in PaymentIds : Untouched(payments[j], payments'[j])
  BY <1>1, UntouchedByRewrite
<1>4. \A j \in PaymentIds : payments[j] # None => payments'[j].status = payments[j].status
  BY <1>1, <1>2 DEF Records, PaymentRecord
<1>5. \A j \in PaymentIds, e \in Events, t \in Tokens :
        Aside(payments'[j], e, t) = Aside(payments[j], e, t)
  BY <1>3, <1>4 DEF Aside, Counts, Untouched
<1>6. QED
  BY <1>5, NothingOwed DEF BindEmailCommitment, splitVars

\* A purchase owes what it brings in.
LEMMA OwedAfterPurchase ==
  ASSUME BooksInv, BooksInv', NEW p \in PaymentParams, CreatePayment(p)
  PROVE  OwedOn(p.event)
<1>1. PICK f \in Events, u \in Tokens, a \in Nat : f = p.event /\ u = p.token /\ a = p.amount
  BY RequestTypes
<1>2. PICK i \in NextId, r \in PaymentRecord :
        r = PurchaseRecord(p) /\ payments' = [payments EXCEPT ![i] = r]
  BY Purchases DEF BooksInv, DisputeInv
<1>3. /\ tokenRevenue' = [tokenRevenue EXCEPT ![f][u] = @ + a]
      /\ balance' = [balance EXCEPT ![u] = @ + a]
      /\ UNCHANGED <<platformRevenue, settlement, splitWithdrawn>>
  BY <1>1 DEF CreatePayment, splitVars
<1>4. payments \in Records /\ i \in PaymentIds /\ payments[i] = None /\ r.status = "Held"
  BY <1>2 DEF BooksInv, DisputeInv, RecordsTypeOK, SaleTypeOK, Records, NextId, PurchaseRecord
<1>5. \A j \in PaymentIds, e \in Events, t \in Tokens :
        Aside(payments'[j], e, t) = Aside(payments[j], e, t)
  BY <1>2, <1>4 DEF Aside, Counts, Records
<1>6. ASSUME NEW e \in Events, NEW t \in Tokens
      PROVE  Owed(e, t)' = Owed(e, t) + (IF e = f THEN balance'[t] - balance[t] ELSE 0)
  <2>1. SetAside(payments', e, t) = SetAside(payments, e, t)
    BY <1>5, AsideKept
  <2>2. Rest(e, t)' = Rest(e, t)
    BY <1>3, RestKept
  <2>3. tokenRevenue'[e][t] = tokenRevenue[e][t] + (IF e = f /\ t = u THEN a ELSE 0)
    BY <1>3, OwedTypes DEF BooksInv, MoneyTypeOK
  <2>4. balance'[t] - balance[t] = IF t = u THEN a ELSE 0
    BY <1>3 DEF BooksInv, MoneyTypeOK
  <2>5. QED
    BY <2>1, <2>2, <2>3, <2>4, OwedTypes DEF Owed
<1>7. QED
  BY <1>1, <1>6, OwedTypes DEF OwedOn, OthersOwed

\* A refund of revenue takes from what is owed what it pays.
LEMMA OwedAfterRefund ==
  ASSUME BooksInv, NEW i \in PaymentIds, NEW amount \in Int, NEW s \in {"Held", "Refunded"},
         RefundOf(i, amount, s), NEW f \in Events, f = payments[i].event
  PROVE  OwedOn(f)
<1>1. payments[i] # None /\ payments[i].status = "Held"
  BY DEF RefundOf, HasStatus
<1>2. PICK u \in Tokens : u = payments[i].token
  BY <1>1, PaymentFields DEF BooksInv, DisputeInv, RecordsTypeOK
<1>3. /\ tokenRevenue' = [tokenRevenue EXCEPT ![f][u] = @ - amount]
      /\ balance' = [balance EXCEPT ![u] = @ - amount]
      /\ UNCHANGED <<platformRevenue, settlement, splitWithdrawn>>
  BY <1>2 DEF RefundOf, RefundFromRevenue, BookRefund, SendOut, RefundFrame, splitVars
<1>4. payments \in Records /\ payments[i] \in PaymentRecord
  BY <1>1, PaymentFields DEF BooksInv, DisputeInv, RecordsTypeOK, SaleTypeOK, Records
<1>5. /\ \A j \in PaymentIds \ {i} : payments'[j] = payments[j]
      /\ payments'[i].status = s
  BY <1>4 DEF RefundOf, Refunded, Records, PaymentRecord
<1>6. \A j \in PaymentIds, e \in Events, t \in Tokens :
        Aside(payments'[j], e, t) = Aside(payments[j], e, t)
  BY <1>1, <1>5 DEF Aside
<1>7. ASSUME NEW e \in Events, NEW t \in Tokens
      PROVE  Owed(e, t)' = Owed(e, t) + (IF e = f THEN balance'[t] - balance[t] ELSE 0)
  <2>1. SetAside(payments', e, t) = SetAside(payments, e, t)
    BY <1>6, AsideKept
  <2>2. Rest(e, t)' = Rest(e, t)
    BY <1>3, RestKept
  <2>3. tokenRevenue'[e][t] = tokenRevenue[e][t] - (IF e = f /\ t = u THEN amount ELSE 0)
    BY <1>3, OwedTypes DEF BooksInv, MoneyTypeOK
  <2>4. balance'[t] - balance[t] = IF t = u THEN 0 - amount ELSE 0
    BY <1>3 DEF BooksInv, MoneyTypeOK
  <2>5. QED
    BY <2>1, <2>2, <2>3, <2>4, OwedTypes DEF Owed
<1>8. QED
  BY <1>7, OwedTypes DEF OwedOn, OthersOwed


\* A ruling for the attendee closes the dispute and pays what was not refunded
\* before: no more than the payment set aside, and less if part of it was.
OwedWithin(e) ==
  /\ OthersOwed(e)
  /\ \A t \in Tokens : /\ Owed(e, t)' \in Int
                       /\ Owed(e, t)' <= Owed(e, t) + (balance'[t] - balance[t])

LEMMA OwedAfterRuling ==
  ASSUME BooksInv, BooksInv', RefundInv, NEW i \in PaymentIds, ApproveRefund(i),
         NEW f \in Events, f = payments[i].event
  PROVE  /\ OwedWithin(f)
         /\ payments[i].refunded_amount = 0 => OwedOn(f)
<1>1. payments[i] # None /\ payments[i].status = "Disputed"
  BY DEF ApproveRefund, HasStatus
<1>2. PICK u \in Tokens, whole \in Nat, part \in Nat :
        u = payments[i].token /\ whole = payments[i].amount /\ part = payments[i].refunded_amount
  <2>1. i \in Made
    BY <1>1 DEF Made
  <2>2. payments[i].refunded_amount \in Nat
    BY <1>1, <2>1, PaymentFields DEF RefundInv, BooksInv, DisputeInv, RecordsTypeOK
  <2>3. QED
    BY <1>1, <2>2, PaymentFields DEF BooksInv, DisputeInv, RecordsTypeOK
<1>3. /\ balance' = [balance EXCEPT ![u] = @ - (whole - part)]
      /\ UNCHANGED <<tokenRevenue, platformRevenue, settlement, splitWithdrawn>>
  BY <1>2 DEF ApproveRefund, BookRefund, SendOut, splitVars
<1>4. /\ payments \in Records /\ payments' \in Records /\ payments[i] \in PaymentRecord
  BY <1>1, PaymentFields DEF BooksInv, DisputeInv, RecordsTypeOK, SaleTypeOK, Records
<1>5. /\ \A j \in PaymentIds \ {i} : payments'[j] = payments[j]
      /\ payments'[i].status = "Refunded"
  BY <1>4 DEF ApproveRefund, Refunded, Records, PaymentRecord
<1>6. ASSUME NEW e \in Events, NEW t \in Tokens
      PROVE  Owed(e, t)' = Owed(e, t) - (IF e = f /\ t = u THEN whole ELSE 0)
  <2>1. SetAside(payments', e, t) = SetAside(payments, e, t)
          + (Aside(payments'[i], e, t) - Aside(payments[i], e, t))
    BY <1>4, <1>5, AsideChanged
  <2>2. /\ Aside(payments'[i], e, t) = 0
        /\ Aside(payments[i], e, t) = IF e = f /\ t = u THEN whole ELSE 0
    BY <1>1, <1>2, <1>5 DEF Aside, Counts
  <2>3. Rest(e, t)' = Rest(e, t) /\ tokenRevenue'[e][t] = tokenRevenue[e][t]
    BY <1>3, RestKept
  <2>4. QED
    BY <2>1, <2>2, <2>3, OwedTypes DEF Owed
<1>7. \A t \in Tokens : balance'[t] - balance[t] = IF t = u THEN 0 - (whole - part) ELSE 0
  BY <1>3 DEF BooksInv, MoneyTypeOK
<1>8. OthersOwed(f)
  BY <1>6, OwedTypes DEF OthersOwed
<1>9. ASSUME NEW t \in Tokens
      PROVE  /\ Owed(f, t)' \in Int
             /\ Owed(f, t)' <= Owed(f, t) + (balance'[t] - balance[t])
             /\ part = 0 => Owed(f, t)' = Owed(f, t) + (balance'[t] - balance[t])
  BY <1>6, <1>7, OwedTypes
<1>10. QED
  BY <1>2, <1>8, <1>9 DEF OwedWithin, OwedOn

\* Raising a dispute sets aside what it takes from the revenue, and a ruling
\* against the attendee gives it back.
LEMMA OwedThroughDispute ==
  ASSUME BooksInv, BooksInv', NEW i \in PaymentIds, RaiseDispute(i) \/ RejectDispute(i)
  PROVE  Idle
<1>1. payments[i] # None
  BY DEF RaiseDispute, RejectDispute, HasStatus
<1>2. PICK f \in Events, u \in Tokens, a \in Nat :
        f = payments[i].event /\ u = payments[i].token /\ a = payments[i].amount
  BY <1>1, PaymentFields DEF BooksInv, DisputeInv, RecordsTypeOK
<1>3. /\ payments \in Records /\ payments' \in Records /\ payments[i] \in PaymentRecord
  BY <1>1, PaymentFields DEF BooksInv, DisputeInv, RecordsTypeOK, SaleTypeOK, Records
<1>4. UNCHANGED <<balance, totalVolume, totalRefunds, totalWithdrawn, platformRevenue,
                  settlement, splitWithdrawn>>
  BY DEF RaiseDispute, RejectDispute, splitVars
<1>5. PICK d \in {a, 0 - a} :
        /\ tokenRevenue' = [tokenRevenue EXCEPT ![f][u] = @ - d]
        /\ \A e \in Events, t \in Tokens :
             SetAside(payments', e, t) =
               SetAside(payments, e, t) + (IF e = f /\ t = u THEN d ELSE 0)
  <2>1. ASSUME NEW from \in {"Held", "Disputed"}, NEW to \in {"Held", "Disputed"}, from # to,
               payments[i].status = from, payments' = [payments EXCEPT ![i].status = to],
               NEW e \in Events, NEW t \in Tokens
        PROVE  SetAside(payments', e, t) = SetAside(payments, e, t)
                 + (IF e = f /\ t = u THEN IF to = "Disputed" THEN a ELSE 0 - a ELSE 0)
    <3>1. /\ \A j \in PaymentIds \ {i} : payments'[j] = payments[j]
          /\ payments'[i] = [payments[i] EXCEPT !.status = to]
      BY <1>3, <2>1 DEF Records
    <3>2. payments'[i] # None
      BY <1>1, <2>1, UntouchedByRewrite DEF Untouched
    <3>3. /\ payments'[i].event = f /\ payments'[i].token = u /\ payments'[i].amount = a
          /\ payments'[i].status = to
      BY <1>2, <1>3, <3>1 DEF PaymentRecord
    <3>4. SetAside(payments', e, t) = SetAside(payments, e, t)
            + (Aside(payments'[i], e, t) - Aside(payments[i], e, t))
      BY <1>3, <3>1, AsideChanged
    <3>5. /\ Aside(payments'[i], e, t) = IF e = f /\ t = u /\ to = "Disputed" THEN a ELSE 0
          /\ Aside(payments[i], e, t) = IF e = f /\ t = u /\ from = "Disputed" THEN a ELSE 0
      BY <1>1, <1>2, <2>1, <3>2, <3>3 DEF Aside, Counts
    <3>6. QED
      BY <2>1, <3>4, <3>5
  <2>2. CASE RaiseDispute(i)
    <3>1. /\ payments[i].status = "Held" /\ payments' = [payments EXCEPT ![i].status = "Disputed"]
          /\ tokenRevenue' = [tokenRevenue EXCEPT ![f][u] = @ - a]
      BY <1>2, <2>2 DEF RaiseDispute, HasStatus
    <3>2. \A e \in Events, t \in Tokens : SetAside(payments', e, t) =
            SetAside(payments, e, t) + (IF e = f /\ t = u THEN a ELSE 0)
      BY <2>1, <3>1
    <3>3. QED
      BY <3>1, <3>2
  <2>3. CASE RejectDispute(i)
    <3>1. /\ payments[i].status = "Disputed" /\ payments' = [payments EXCEPT ![i].status = "Held"]
          /\ tokenRevenue' = [tokenRevenue EXCEPT ![f][u] = @ + a]
      BY <1>2, <2>3 DEF RejectDispute, HasStatus
    <3>2. \A e \in Events, t \in Tokens : SetAside(payments', e, t) =
            SetAside(payments, e, t) + (IF e = f /\ t = u THEN 0 - a ELSE 0)
      BY <2>1, <3>1
    <3>3. tokenRevenue[f][u] + a = tokenRevenue[f][u] - (0 - a)
      BY OwedTypes
    <3>4. tokenRevenue' = [tokenRevenue EXCEPT ![f][u] = @ - (0 - a)]
      BY <3>1, <3>3 DEF BooksInv, MoneyTypeOK
    <3>5. QED
      BY <3>2, <3>4
  <2>4. QED
    BY <2>2, <2>3
<1>6. ASSUME NEW e \in Events, NEW t \in Tokens PROVE Owed(e, t)' = Owed(e, t)
  <2>1. tokenRevenue'[e][t] = tokenRevenue[e][t] - (IF e = f /\ t = u THEN d ELSE 0)
    BY <1>5, OwedTypes DEF BooksInv, MoneyTypeOK
  <2>2. Rest(e, t)' = Rest(e, t)
    BY <1>4, RestKept
  <2>3. d \in Int
    OBVIOUS
  <2>4. QED
    BY <1>5, <2>1, <2>2, <2>3, OwedTypes DEF Owed
<1>7. QED
  BY <1>4, <1>6 DEF Idle


-----------------------------------------------------------------------------
(* Payouts.                                                                *)

\* What a payout's release of timed-out disputes gives back to the revenue is
\* what it no longer sets aside.
LEMMA AsideReleased ==
  ASSUME BooksInv, BooksInv', NEW e \in Events, ReleaseTimedOut(e), NEW t \in Tokens
  PROVE  /\ \A d \in Events \ {e} : SetAside(payments', d, t) = SetAside(payments, d, t)
         /\ RevenueAfterTimeouts(e, t) + SetAside(payments', e, t)
              = tokenRevenue[e][t] + SetAside(payments, e, t)
<1> DEFINE T == {j \in Reinstated(e) : payments[j].token = t}
           F == [i \in T |-> payments[i].amount]
           H == [i \in PaymentIds |-> IF i \in T THEN payments[i].amount ELSE 0]
           A == AllAside(payments, e, t)
           B == AllAside(payments', e, t)
<1>1. payments \in Records /\ payments' \in Records
  BY DEF BooksInv, DisputeInv, RecordsTypeOK, SaleTypeOK, Records
<1>2. \A i \in Reinstated(e) : /\ i \in PaymentIds /\ payments[i] # None
                               /\ payments[i].status = "Disputed" /\ payments[i].event = e
                               /\ payments[i].amount \in Int
  <2> SUFFICES ASSUME NEW i \in Reinstated(e)
               PROVE  /\ i \in PaymentIds /\ payments[i] # None
                      /\ payments[i].status = "Disputed" /\ payments[i].event = e
                      /\ payments[i].amount \in Int
    OBVIOUS
  <2>1. /\ i \in eventDisputes[e] /\ payments[i] # None /\ payments[i].status = "Disputed"
    BY DEF Reinstated, TimedOut, HasStatus
  <2>2. i \in PaymentIds /\ payments[i].event = e
    BY <2>1 DEF BooksInv, DisputeInv, DisputesConsistent
  <2>3. QED
    BY <2>1, <2>2, PaymentFields DEF BooksInv, DisputeInv, RecordsTypeOK
<1>3. \A i \in PaymentIds : Untouched(payments[i], payments'[i])
  BY UntouchedByRelease
<1>4. \A i \in PaymentIds :
        payments[i] # None =>
          payments'[i].status = IF i \in Reinstated(e) THEN "Held" ELSE payments[i].status
  <2> SUFFICES ASSUME NEW i \in PaymentIds, payments[i] # None
               PROVE  payments'[i].status =
                        IF i \in Reinstated(e) THEN "Held" ELSE payments[i].status
    OBVIOUS
  <2>1. payments[i] \in PaymentRecord
    BY <1>1 DEF Records
  <2>2. QED
    BY <2>1 DEF ReleaseTimedOut, PaymentRecord
<1>5. ASSUME NEW d \in Events \ {e}
      PROVE  SetAside(payments', d, t) = SetAside(payments, d, t)
  <2>1. \A i \in PaymentIds : Aside(payments'[i], d, t) = Aside(payments[i], d, t)
    BY <1>2, <1>3, <1>4 DEF Aside, Counts, Untouched
  <2>2. QED
    BY <2>1, AsideKept
<1>6. A \in [PaymentIds -> Int] /\ B \in [PaymentIds -> Int]
  BY <1>1, AsideTypes
<1>7. T \in SUBSET PaymentIds /\ F \in [T -> Int] /\ H \in [PaymentIds -> Int]
  BY <1>2
<1>8. \A i \in PaymentIds : A[i] = B[i] + H[i]
  <2> SUFFICES ASSUME NEW i \in PaymentIds PROVE A[i] = B[i] + H[i]
    OBVIOUS
  <2>1. A[i] = Aside(payments[i], e, t) /\ B[i] = Aside(payments'[i], e, t)
    BY DEF AllAside
  <2>2. CASE i \in T
    <3>1. Aside(payments[i], e, t) = payments[i].amount /\ Aside(payments'[i], e, t) = 0
      BY <1>2, <1>4, <2>2 DEF Aside, Counts
    <3>2. QED
      BY <1>2, <2>1, <2>2, <3>1
  <2>3. CASE i \notin T
    <3>1. Aside(payments'[i], e, t) = Aside(payments[i], e, t)
      BY <1>2, <1>3, <1>4, <2>3 DEF Aside, Counts, Untouched
    <3>2. QED
      BY <1>6, <2>1, <2>3, <3>1
  <2>4. QED
    BY <2>2, <2>3
<1>9. \A i \in PaymentIds : H[i] = IF i \in T THEN F[i] ELSE 0
  OBVIOUS
<1>10. RevenueAfterTimeouts(e, t) = tokenRevenue[e][t] + SumFunction(F)
  BY DEF RevenueAfterTimeouts
<1> HIDE DEF A, B, F, H, T
<1>11. SumFunction(A) = SumFunction(B) + SumFunction(H)
  BY <1>6, <1>7, <1>8, FinitelyManyPayments, SumAdded
<1>12. SumFunction(F) = SumFunction(H)
  BY <1>7, <1>9, FinitelyManyPayments, SumPadded
<1>13. SumFunction(B) \in Int /\ SumFunction(H) \in Int /\ tokenRevenue[e][t] \in Int
  BY <1>6, <1>7, FinitelyManyPayments, SumType, OwedTypes
<1>14. RevenueAfterTimeouts(e, t) + SetAside(payments', e, t)
         = tokenRevenue[e][t] + SetAside(payments, e, t)
  BY <1>10, <1>11, <1>12, <1>13 DEF A, B, SetAside
<1>15. QED
  BY <1>5, <1>14

\* The revenue that a payout leaves in each token, the timed-out disputes back.
LEMMA RevenueLeftIn ==
  ASSUME BooksInv, NEW e \in Events, NEW paid, NEW left \in Int, SetRevenue(e, paid, left)
  PROVE  /\ \A d \in Events \ {e} : tokenRevenue'[d] = tokenRevenue[d]
         /\ \A t \in Tokens :
              tokenRevenue'[e][t] = IF t \in paid THEN left ELSE RevenueAfterTimeouts(e, t)
BY DEF SetRevenue, BooksInv, MoneyTypeOK

LEMMA OwedAfterTimeouts ==
  ASSUME BooksInv, BooksInv', NEW e \in Events, ProcessDisputeTimeouts(e)
  PROVE  Idle
<1>1. /\ ReleaseTimedOut(e)
      /\ tokenRevenue' = [tokenRevenue EXCEPT ![e] = [t \in Tokens |-> RevenueAfterTimeouts(e, t)]]
      /\ UNCHANGED <<balance, totalVolume, totalRefunds, totalWithdrawn, platformRevenue,
                     settlement, splitWithdrawn>>
  BY DEF ProcessDisputeTimeouts, splitVars
<1>2. ASSUME NEW d \in Events, NEW t \in Tokens PROVE Owed(d, t)' = Owed(d, t)
  <2>1. tokenRevenue'[d][t] = IF d = e THEN RevenueAfterTimeouts(e, t) ELSE tokenRevenue[d][t]
    BY <1>1 DEF BooksInv, MoneyTypeOK
  <2>2. Rest(d, t)' = Rest(d, t)
    BY <1>1, RestKept
  <2>3. tokenRevenue'[d][t] + SetAside(payments', d, t)
          = tokenRevenue[d][t] + SetAside(payments, d, t)
    BY <1>1, <2>1, AsideReleased
  <2>4. QED
    BY <2>2, <2>3 DEF Owed
<1>3. QED
  BY <1>1, <1>2 DEF Idle

\* What a payout takes from the revenue it pays or keeps as a fee.
LEMMA OwedAfterPayout ==
  ASSUME BooksInv, BooksInv', NEW e \in Events, NEW u \in Tokens, NEW total \in Int,
         NEW fee \in Nat, NEW left \in Int, PaidOut(e, u, total, fee, left),
         ~LateCancellation(e)
  PROVE  OwedOn(e)
<1>1. /\ left = RevenueAfterTimeouts(e, u) - total
      /\ fee # 0 => u = AcceptedToken
      /\ ReleaseTimedOut(e)
      /\ SetRevenue(e, {u}, left)
      /\ balance' = [balance EXCEPT ![u] = @ - (total - fee)]
      /\ platformRevenue' = [platformRevenue EXCEPT ![e] = @ + fee]
      /\ UNCHANGED <<settlement, splitWithdrawn>>
  BY DEF PaidOut, BookWithdrawal, SendOut, AccruePlatformFee, splitVars
<1>2. ASSUME NEW d \in Events \ {e}, NEW t \in Tokens PROVE Owed(d, t)' = Owed(d, t)
  <2>1. Rest(d, t)' = Rest(d, t)
    <3>1. platformRevenue'[d] = platformRevenue[d]
      BY <1>1 DEF BooksInv, MoneyTypeOK
    <3>2. QED
      BY <1>1, <3>1, RestKept
  <2>2. QED
    BY <1>1, <2>1, AsideReleased, RevenueLeftIn DEF Owed
<1>3. ASSUME NEW t \in Tokens
      PROVE  Owed(e, t)' = Owed(e, t) + (balance'[t] - balance[t])
  <2>1. RevenueAfterTimeouts(e, t) + SetAside(payments', e, t)
          = tokenRevenue[e][t] + SetAside(payments, e, t)
    BY <1>1, AsideReleased
  <2>2. tokenRevenue'[e][t] = RevenueAfterTimeouts(e, t) - (IF t = u THEN total ELSE 0)
    BY <1>1, RevenueLeftIn, RestoredRevenue
  <2>3. Rest(e, t)' = Rest(e, t) + (IF t = u THEN fee ELSE 0)
    <3>1. platformRevenue'[e] = platformRevenue[e] + fee
      BY <1>1 DEF BooksInv, MoneyTypeOK
    <3>2. UnpaidSettlement(e)' = UnpaidSettlement(e)
      BY <1>1 DEF UnpaidSettlement
    <3>3. QED
      BY <1>1, <3>1, <3>2, OwedTypes DEF Rest
  <2>4. balance'[t] - balance[t] = IF t = u THEN fee - total ELSE 0
    BY <1>1 DEF BooksInv, MoneyTypeOK
  <2>5. SetAside(payments', e, t) \in Int
    BY AsideTypes DEF BooksInv, DisputeInv, RecordsTypeOK, SaleTypeOK, Records
  <2>6. QED
    BY <2>1, <2>2, <2>3, <2>4, <2>5, OwedTypes, RestoredRevenue DEF Owed
<1>4. QED
  BY <1>2, <1>3 DEF OwedOn, OthersOwed

LEMMA OwedAfterDrain ==
  ASSUME BooksInv, BooksInv', NEW e \in Events, Drained(e)
  PROVE  OwedOn(e)
<1>1. /\ ReleaseTimedOut(e)
      /\ SetRevenue(e, Funded(e), 0)
      /\ balance' = [t \in Tokens |-> IF t \in Funded(e)
                       THEN balance[t] - RevenueAfterTimeouts(e, t) ELSE balance[t]]
      /\ UNCHANGED <<platformRevenue, settlement, splitWithdrawn>>
  BY DEF Drained, DrainAllTokens, splitVars
<1>2. \A d \in Events, t \in Tokens : Rest(d, t)' = Rest(d, t)
  BY <1>1, RestKept
<1>3. ASSUME NEW d \in Events \ {e}, NEW t \in Tokens PROVE Owed(d, t)' = Owed(d, t)
  BY <1>1, <1>2, AsideReleased, RevenueLeftIn DEF Owed
<1>4. ASSUME NEW t \in Tokens
      PROVE  Owed(e, t)' = Owed(e, t) + (balance'[t] - balance[t])
  <2>1. RevenueAfterTimeouts(e, t) + SetAside(payments', e, t)
          = tokenRevenue[e][t] + SetAside(payments, e, t)
    BY <1>1, AsideReleased
  <2>2. tokenRevenue'[e][t] = IF t \in Funded(e) THEN 0 ELSE RevenueAfterTimeouts(e, t)
    BY <1>1, RevenueLeftIn
  <2>3. balance'[t] - balance[t] = IF t \in Funded(e) THEN 0 - RevenueAfterTimeouts(e, t) ELSE 0
    BY <1>1, RestoredRevenue DEF BooksInv, MoneyTypeOK
  <2>4. SetAside(payments', e, t) \in Int
    BY AsideTypes DEF BooksInv, DisputeInv, RecordsTypeOK, SaleTypeOK, Records
  <2>5. QED
    BY <1>2, <2>1, <2>2, <2>3, <2>4, OwedTypes, RestoredRevenue DEF Owed
<1>5. QED
  BY <1>3, <1>4 DEF OwedOn, OthersOwed


\* The platform is paid the fees that were owed to it.
LEMMA OwedAfterPlatform ==
  ASSUME BooksInv, NEW e \in Events, WithdrawPlatformRevenue(e)
  PROVE  OwedOn(e)
<1> DEFINE fees == platformRevenue[e]
<1>1. /\ balance' = [balance EXCEPT ![AcceptedToken] = @ - fees]
      /\ platformRevenue' = [platformRevenue EXCEPT ![e] = 0]
      /\ UNCHANGED <<payments, tokenRevenue, settlement, splitWithdrawn>>
  BY DEF WithdrawPlatformRevenue, BookWithdrawal, SendOut, splitVars
<1>2. fees \in Int
  BY OwedTypes, ConstantsAssumption
<1>3. \A d \in Events : UnpaidSettlement(d)' = UnpaidSettlement(d)
  BY <1>1 DEF UnpaidSettlement
<1>4. \A d \in Events : platformRevenue'[d] = IF d = e THEN 0 ELSE platformRevenue[d]
  BY <1>1 DEF BooksInv, MoneyTypeOK
<1>5. ASSUME NEW d \in Events, NEW t \in Tokens
      PROVE  /\ Rest(d, t)' = Rest(d, t) - (IF d = e /\ t = AcceptedToken THEN fees ELSE 0)
             /\ tokenRevenue'[d][t] = tokenRevenue[d][t]
             /\ SetAside(payments', d, t) = SetAside(payments, d, t)
  BY <1>1, <1>3, <1>4, OwedTypes DEF Rest
<1>6. \A t \in Tokens :
        balance'[t] - balance[t] = IF t = AcceptedToken THEN 0 - fees ELSE 0
  BY <1>1, <1>2 DEF BooksInv, MoneyTypeOK
<1> HIDE DEF fees
<1>7. ASSUME NEW d \in Events, NEW t \in Tokens
      PROVE  Owed(d, t)' = Owed(d, t) + (IF d = e THEN balance'[t] - balance[t] ELSE 0)
  BY <1>2, <1>5, <1>6, OwedTypes DEF Owed
<1>8. QED
  BY <1>7, OwedTypes DEF OwedOn, OthersOwed

\* A recipient of a split is paid from what was settled, now or before: of the
\* settlement as much less is owed as the share comes to.
LEMMA UnpaidAfterShare ==
  ASSUME BooksInv, PaidInv, NEW e \in Events, NEW u \in Users, NEW share \in Int,
         splitWithdrawn[e][u] = 0, settlement'[e] \in Nat,
         splitWithdrawn' = [splitWithdrawn EXCEPT ![e][u] = share]
  PROVE  /\ settlement'[e] = settlement[e] =>
              UnpaidSettlement(e)' = UnpaidSettlement(e) - share
         /\ settlement[e] = None => UnpaidSettlement(e)' = settlement'[e] - share
<1> DEFINE w == splitWithdrawn[e]
           v == splitWithdrawn'[e]
<1>1. w \in [Users -> Int] /\ w[u] = 0
  BY DEF BooksInv, MoneyTypeOK
<1>2. v = [w EXCEPT ![u] = share]
  BY DEF BooksInv, MoneyTypeOK
<1>3. settlement'[e] # None
  BY ConstantsAssumption
<1>4. UnpaidSettlement(e)' = settlement'[e] - SumFunction(v)
  BY <1>3 DEF UnpaidSettlement
<1>5. settlement[e] # None => UnpaidSettlement(e) = settlement[e] - SumFunction(w)
  BY DEF UnpaidSettlement
<1>6. settlement[e] = None => \A x \in Users : w[x] = 0
  BY DEF PaidInv
<1> HIDE DEF w, v
<1>7. /\ v \in [Users -> Int] /\ v[u] = share
      /\ \A x \in Users \ {u} : w[x] = v[x]
  BY <1>1, <1>2
<1>8. SumFunction(v) = SumFunction(w) + (v[u] - w[u]) /\ SumFunction(w) \in Int
  BY <1>1, <1>7, FiniteAssumption, SumChanged, SumType
<1>9. settlement[e] = None => SumFunction(w) = 0
  BY <1>1, <1>6, FiniteAssumption, SumOfZeros
<1>10. QED
  BY <1>1, <1>3, <1>4, <1>5, <1>7, <1>8, <1>9

LEMMA OwedAfterShare ==
  ASSUME BooksInv, BooksInv', PaidInv, NEW e \in Events, NEW u \in Users, SharePaid(e, u),
         ~LateCancellation(e)
  PROVE  OwedOn(e)
<1> DEFINE share == RecipientShare(e, u, settlement'[e])
<1>1. settlement'[e] \in Nat
  BY SettlementTypes DEF SharePaid
<1>2. share \in Int
  BY <1>1, SharesAreIntegers DEF SharePaid
<1>3. /\ balance' = [balance EXCEPT ![AcceptedToken] = @ - share]
      /\ splitWithdrawn' = [splitWithdrawn EXCEPT ![e][u] = share]
      /\ splitWithdrawn[e][u] = 0
      /\ EnsureSplitSettled(e)
  BY DEF SharePaid, PayShare, BookWithdrawal, SendOut
<1> HIDE DEF share
<1>4. PICK total \in Int, fee \in Nat :
        /\ \A d \in Events \ {e}, t \in Tokens :
             /\ tokenRevenue'[d][t] = tokenRevenue[d][t]
             /\ SetAside(payments', d, t) = SetAside(payments, d, t)
             /\ platformRevenue'[d] = platformRevenue[d]
             /\ settlement'[d] = settlement[d]
        /\ \A t \in Tokens :
             tokenRevenue'[e][t] + SetAside(payments', e, t)
               = tokenRevenue[e][t] + SetAside(payments, e, t)
                   - (IF t = AcceptedToken THEN total ELSE 0)
        /\ platformRevenue'[e] = platformRevenue[e] + fee
        /\ UnpaidSettlement(e)' = UnpaidSettlement(e) + (total - fee) - share
  <2>1. CASE /\ settlement[e] # None
             /\ UNCHANGED <<settlement, payments, disputeVars, tokenRevenue, platformRevenue>>
    <3>1. UnpaidSettlement(e)' = UnpaidSettlement(e) - share
      BY <1>1, <1>2, <1>3, <2>1, UnpaidAfterShare
    <3>2. UnpaidSettlement(e)' = UnpaidSettlement(e) + (0 - 0) - share
      BY <1>2, <3>1, OwedTypes, ConstantsAssumption
    <3>3. \A t \in Tokens : tokenRevenue'[e][t] + SetAside(payments', e, t)
               = tokenRevenue[e][t] + SetAside(payments, e, t)
                   - (IF t = AcceptedToken THEN 0 ELSE 0)
      BY <2>1, OwedTypes
    <3>4. platformRevenue'[e] = platformRevenue[e] + 0
      BY <2>1, OwedTypes, ConstantsAssumption
    <3>5. QED
      BY <2>1, <3>2, <3>3, <3>4
  <2>2. ASSUME NEW total \in Int, NEW fee \in Nat, NEW left \in Int,
               Settled(e, total, fee, left)
        PROVE  /\ \A d \in Events \ {e}, t \in Tokens :
                    /\ tokenRevenue'[d][t] = tokenRevenue[d][t]
                    /\ SetAside(payments', d, t) = SetAside(payments, d, t)
                    /\ platformRevenue'[d] = platformRevenue[d]
                    /\ settlement'[d] = settlement[d]
               /\ \A t \in Tokens :
                    tokenRevenue'[e][t] + SetAside(payments', e, t)
                      = tokenRevenue[e][t] + SetAside(payments, e, t)
                          - (IF t = AcceptedToken THEN total ELSE 0)
               /\ platformRevenue'[e] = platformRevenue[e] + fee
               /\ UnpaidSettlement(e)' = UnpaidSettlement(e) + (total - fee) - share
    <3>1. /\ left = RevenueAfterTimeouts(e, AcceptedToken) - total
          /\ ReleaseTimedOut(e)
          /\ SetRevenue(e, {AcceptedToken}, left)
          /\ platformRevenue' = [platformRevenue EXCEPT ![e] = @ + fee]
          /\ settlement[e] = None /\ settlement' = [settlement EXCEPT ![e] = total - fee]
      BY <2>2 DEF Settled, AccruePlatformFee
    <3>2. /\ settlement'[e] = total - fee /\ platformRevenue'[e] = platformRevenue[e] + fee
          /\ \A d \in Events \ {e} : /\ platformRevenue'[d] = platformRevenue[d]
                                     /\ settlement'[d] = settlement[d]
      BY <3>1 DEF BooksInv, MoneyTypeOK
    <3>3. UnpaidSettlement(e)' = (total - fee) - share /\ UnpaidSettlement(e) = 0
      <4>1. UnpaidSettlement(e)' = settlement'[e] - share
        BY <1>1, <1>2, <1>3, <3>1, UnpaidAfterShare
      <4>2. UnpaidSettlement(e) = 0
        BY <3>1 DEF UnpaidSettlement
      <4>3. QED
        BY <3>2, <4>1, <4>2
    <3>4. UnpaidSettlement(e)' = UnpaidSettlement(e) + (total - fee) - share
      BY <1>2, <3>3
    <3>5. \A d \in Events \ {e}, t \in Tokens :
            /\ tokenRevenue'[d][t] = tokenRevenue[d][t]
            /\ SetAside(payments', d, t) = SetAside(payments, d, t)
      BY <3>1, AsideReleased, RevenueLeftIn
    <3>6. ASSUME NEW t \in Tokens
          PROVE  tokenRevenue'[e][t] + SetAside(payments', e, t)
                   = tokenRevenue[e][t] + SetAside(payments, e, t)
                       - (IF t = AcceptedToken THEN total ELSE 0)
      <4>1. RevenueAfterTimeouts(e, t) + SetAside(payments', e, t)
              = tokenRevenue[e][t] + SetAside(payments, e, t)
        BY <3>1, AsideReleased
      <4>2. tokenRevenue'[e][t] =
              RevenueAfterTimeouts(e, t) - (IF t = AcceptedToken THEN total ELSE 0)
        BY <3>1, RevenueLeftIn, RestoredRevenue
      <4>3. SetAside(payments', e, t) \in Int
        BY AsideTypes DEF BooksInv, DisputeInv, RecordsTypeOK, SaleTypeOK, Records
      <4>4. QED
        BY <4>1, <4>2, <4>3, OwedTypes, RestoredRevenue
    <3>7. QED
      BY <3>2, <3>4, <3>5, <3>6
  <2>3. QED
    BY <1>3, <2>1, <2>2, Settlements
<1>5. ASSUME NEW d \in Events \ {e}, NEW t \in Tokens PROVE Owed(d, t)' = Owed(d, t)
  <2>1. splitWithdrawn'[d] = splitWithdrawn[d]
    BY <1>3 DEF BooksInv, MoneyTypeOK
  <2>2. Rest(d, t)' = Rest(d, t)
    BY <1>4, <2>1, RestKept
  <2>3. QED
    BY <1>4, <2>2 DEF Owed
<1>6. ASSUME NEW t \in Tokens
      PROVE  Owed(e, t)' = Owed(e, t) + (balance'[t] - balance[t])
  <2>1. Rest(e, t)' = Rest(e, t) + (IF t = AcceptedToken THEN total - share ELSE 0)
    <3>1. platformRevenue[e] \in Int /\ UnpaidSettlement(e) \in Int
      BY OwedTypes
    <3>2. QED
      BY <1>2, <1>4, <3>1 DEF Rest
  <2>2. balance'[t] - balance[t] = IF t = AcceptedToken THEN 0 - share ELSE 0
    BY <1>2, <1>3 DEF BooksInv, MoneyTypeOK
  <2>3. SetAside(payments', e, t) \in Int /\ tokenRevenue'[e][t] \in Int
    BY AsideTypes DEF BooksInv, DisputeInv, RecordsTypeOK, SaleTypeOK, MoneyTypeOK, Records
  <2>4. QED
    BY <1>2, <1>4, <2>1, <2>2, <2>3, OwedTypes DEF Owed
<1>7. QED
  BY <1>5, <1>6 DEF OwedOn, OthersOwed


-----------------------------------------------------------------------------
(* Resales.                                                                *)

\* Two floors of one price, of rates that are no more than all of it.
LEMMA FloorsTogether ==
  ASSUME NEW price \in Nat, NEW a \in Nat, NEW b \in Nat, a + b <= 10000
  PROVE  Share(price, a) + Share(price, b) <= price
<1>1. IsFloor(Share(price, a), price, a) /\ IsFloor(Share(price, b), price, b)
  BY FlooredShares
<1> DEFINE x == Share(price, a)
           y == Share(price, b)
<1>2. /\ x \in Nat /\ 10000 * x <= price * a
      /\ y \in Nat /\ 10000 * y <= price * b
  BY <1>1 DEF IsFloor
<1> HIDE DEF x, y
<1>3. price * a + price * b = price * (a + b)
  OBVIOUS
<1>4. price * (a + b) <= price * 10000
  OBVIOUS
<1>5. price * a \in Nat /\ price * b \in Nat
  OBVIOUS
<1>6. 10000 * (x + y) <= 10000 * price
  BY <1>2, <1>3, <1>4, <1>5
<1>7. x + y <= price
  BY <1>2, <1>6
<1>8. QED
  BY <1>7 DEF x, y

\* No royalty and platform fee ever in force take more than a ticket's price.
FeesFit ==
  \A terms \in SyncedTerms, bps \in FeeRates \cup {InitialFee} :
    terms.resale_royalty_bps + bps <= 10000

\* The platform's rate is the one it started with or one the admin set.
RateInv == platformFeeBps \in FeeRates \cup {InitialFee}

LEMMA RatesAreNumbers == ASSUME NEW bps \in Bps PROVE bps \in Nat
BY DEF Bps

\* A resale then keeps of the price what it owes from now on.
LEMMA OwedAfterResale ==
  ASSUME BooksInv, SupplyInv, RateInv, FeesFit, NEW i \in PaymentIds, NEW u \in Users,
         BuyResaleTicket(i, u)
  PROVE  \E e \in Events : OwedOn(e)
<1>1. PICK e \in Events, price \in Nat, fee \in Nat, royalty \in Nat, kept \in Nat :
        /\ config[e] # None
        /\ fee = Share(price, platformFeeBps)
        /\ royalty = Share(price, config[e].terms.resale_royalty_bps)
        /\ kept = IF price - fee - royalty > 0 THEN fee + royalty ELSE price
        /\ Resold(e, fee, royalty, kept)
  BY Resales DEF BooksInv, DisputeInv
<1>2. PICK a \in Nat, b \in Nat :
        /\ a = platformFeeBps /\ b = config[e].terms.resale_royalty_bps /\ a + b <= 10000
  <2>1. config[e].terms \in SyncedTerms /\ config[e] \in EventConfig
    BY <1>1, ConfigCounters DEF SupplyInv, BooksInv, DisputeInv, RecordsTypeOK
  <2>2. config[e].terms.resale_royalty_bps \in Bps
    BY <2>1 DEF EventConfig, Terms
  <2>3. platformFeeBps \in Bps
    BY DEF BooksInv, DisputeInv, RecordsTypeOK, AdminTypeOK
  <2>4. config[e].terms.resale_royalty_bps + platformFeeBps <= 10000
    BY <2>1 DEF FeesFit, RateInv
  <2>5. platformFeeBps \in Nat /\ config[e].terms.resale_royalty_bps \in Nat
    BY <2>2, <2>3, RatesAreNumbers
  <2>6. platformFeeBps + config[e].terms.resale_royalty_bps <= 10000
    <3> DEFINE a == platformFeeBps
               b == config[e].terms.resale_royalty_bps
    <3>1. a \in Nat /\ b \in Nat /\ b + a <= 10000
      BY <2>4, <2>5
    <3> HIDE DEF a, b
    <3>2. a + b <= 10000
      BY <3>1
    <3>3. QED
      BY <3>2 DEF a, b
  <2>7. QED
    BY <2>5, <2>6
<1>3. fee + royalty <= price
  BY <1>1, <1>2, FloorsTogether
<1>4. kept = fee + royalty
  BY <1>1, <1>3
<1>5. /\ balance' = [balance EXCEPT ![AcceptedToken] = @ + kept]
      /\ platformRevenue' = [platformRevenue EXCEPT ![e] = @ + fee]
      /\ tokenRevenue' = [tokenRevenue EXCEPT ![e][AcceptedToken] = @ + royalty]
      /\ UNCHANGED <<payments, settlement, splitWithdrawn>>
  BY <1>1 DEF Resold, splitVars
<1>6. \A d \in Events : UnpaidSettlement(d)' = UnpaidSettlement(d)
  BY <1>5 DEF UnpaidSettlement
<1>7. ASSUME NEW d \in Events, NEW t \in Tokens
      PROVE  Owed(d, t)' = Owed(d, t) + (IF d = e THEN balance'[t] - balance[t] ELSE 0)
  <2>1. platformRevenue'[d] = platformRevenue[d] + (IF d = e THEN fee ELSE 0)
    BY <1>5, OwedTypes DEF BooksInv, MoneyTypeOK
  <2>2. Rest(d, t)' = Rest(d, t) + (IF d = e /\ t = AcceptedToken THEN fee ELSE 0)
    BY <1>6, <2>1, OwedTypes DEF Rest
  <2>3. tokenRevenue'[d][t] =
          tokenRevenue[d][t] + (IF d = e /\ t = AcceptedToken THEN royalty ELSE 0)
    BY <1>5, OwedTypes DEF BooksInv, MoneyTypeOK
  <2>4. balance'[t] - balance[t] = IF t = AcceptedToken THEN kept ELSE 0
    BY <1>5 DEF BooksInv, MoneyTypeOK
  <2>5. SetAside(payments', d, t) = SetAside(payments, d, t)
    BY <1>5
  <2>6. QED
    BY <1>4, <2>2, <2>3, <2>4, <2>5, OwedTypes DEF Owed
<1>8. OwedOn(e)
  BY <1>7, OwedTypes DEF OwedOn, OthersOwed
<1>9. QED
  BY <1>8

LEMMA RateSteps ==
  ASSUME [Next]_vars
  PROVE  UNCHANGED platformFeeBps \/ \E bps \in FeeRates : platformFeeBps' = bps
<1> DEFINE Kept == UNCHANGED platformFeeBps
<1>1. ASSUME NEW e \in Events, EventContractCall(e) PROVE Kept
  BY <1>1, Zenon DEF EventContractCall, SyncEventConfig, SyncEventPrivacy, SyncNewEvent, CancelEvent,
       PostponeEvent, SyncAndResume, AdministrationFrame, adminVars
<1>2. CASE AttendeeCall
  <2>1. ASSUME NEW p \in PaymentParams, CreatePayment(p) PROVE Kept
    BY <2>1, Zenon DEF CreatePayment, adminVars
  <2>2. ASSUME NEW i \in PaymentIds,
               \/ \E c \in EmailCommitments : BindEmailCommitment(i, c)
               \/ ClaimRefund(i) \/ RequestPostponementRefund(i) \/ RaiseDispute(i)
        PROVE  Kept
    BY <2>2, Zenon DEF BindEmailCommitment, ClaimRefund, RequestPostponementRefund, RaiseDispute,
                RefundFrame, adminVars
  <2>3. ASSUME NEW i \in PaymentIds,
               ResaleCall(i) \/ \E u \in Users : BuyResaleTicket(i, u)
        PROVE  Kept
    BY <2>3, Zenon DEF ResaleCall, ListTicketForResale, DelistTicket, BuyResaleTicket, adminVars
  <2>4. QED
    BY <1>2, <2>1, <2>2, <2>3, EntryPoints, Zenon DEF AttendeeCall, ResaleCall
<1>3. CASE AdminCall
  <2>1. /\ \A e \in Events, s \in AdminStatuses : SetEventStatus(e, s) => Kept
        /\ \A e \in Events, u \in Users, end \in EndTimes : SetEventEndTime(e, u, end) => Kept
        /\ \A e \in Events, d \in DelayExtensions : ExtendWithdrawalDelay(e, d) => Kept
        /\ \A p \in PauseSwitch : SetPaused(p) => Kept
        /\ \A t \in Tokens : AddSupportedToken(t) => Kept
    <3>1. \A e \in Events, s \in AdminStatuses : SetEventStatus(e, s) => Kept
      BY DEF SetEventStatus, adminVars
    <3>2. \A e \in Events, u \in Users, end \in EndTimes : SetEventEndTime(e, u, end) => Kept
      BY DEF SetEventEndTime, adminVars
    <3>3. \A e \in Events, d \in DelayExtensions : ExtendWithdrawalDelay(e, d) => Kept
      BY DEF ExtendWithdrawalDelay, adminVars
    <3>4. \A p \in PauseSwitch : SetPaused(p) => Kept
      BY DEF SetPaused
    <3>5. \A t \in Tokens : AddSupportedToken(t) => Kept
      BY DEF AddSupportedToken
    <3>6. QED
      BY <3>1, <3>2, <3>3, <3>4, <3>5
  <2>2. /\ \A i \in PaymentIds, asked \in RefundAmounts : AdminRefund(i, asked) => Kept
        /\ \A i \in PaymentIds : ApproveRefund(i) \/ RejectDispute(i) => Kept
    <3>1. \A i \in PaymentIds, asked \in RefundAmounts : AdminRefund(i, asked) => Kept
      <4>1. \A i \in PaymentIds, asked \in RefundAmounts : AdminRefund(i, asked) => RefundFrame
        BY DEF AdminRefund
      <4>2. RefundFrame => Kept
        BY DEF RefundFrame, adminVars
      <4>3. QED
        BY <4>1, <4>2
    <3>2. \A i \in PaymentIds : ApproveRefund(i) \/ RejectDispute(i) => Kept
      BY Zenon DEF ApproveRefund, RejectDispute, adminVars
    <3>3. QED
      BY <3>1, <3>2
  <2>3. ASSUME \/ \E e \in AdminPaidEvents : WithdrawRevenue(e)
               \/ \E e \in Events : WithdrawPlatformRevenue(e)
               \/ \E e \in Events, u \in Users :
                    ReleaseFlaggedShare(e, u) \/ ReassignFlaggedShare(e, u)
        PROVE  Kept
    BY <2>3, Zenon DEF WithdrawRevenue, WithdrawPlatformRevenue, ReleaseFlaggedShare,
                ReassignFlaggedShare, PayoutFrame, adminVars
  <2>4. ASSUME NEW bps \in FeeRates, SetPlatformFee(bps) PROVE platformFeeBps' = bps
    BY <2>4 DEF SetPlatformFee
  <2>5. QED
    BY <1>3, <2>1, <2>2, <2>3, <2>4, Zenon DEF AdminCall
<1>4. CASE PayoutCall
  BY <1>4, Zenon DEF PayoutCall, Withdraw, WithdrawAllTokens, ReleaseIfExpired, ProcessDisputeTimeouts,
              WithdrawToken, WithdrawSplit, FlagCohost, PayoutFrame, adminVars
<1>5. CASE Tick \/ UNCHANGED vars
  BY <1>5 DEF Tick, vars, adminVars
<1>6. QED
  BY <1>1, <1>2, <1>3, <1>4, <1>5 DEF Next

LEMMA RateInvariant == Spec => []RateInv
<1>1. Init => RateInv
  BY DEF Init, RateInv
<1>2. RateInv /\ [Next]_vars => RateInv'
  BY RateSteps DEF RateInv
<1>3. QED
  BY <1>1, <1>2, PTL DEF Spec


-----------------------------------------------------------------------------
(* Every step, and the promises it keeps.                                  *)

\* What a step does to what is owed.
OwedSteps ==
  \/ Idle
  \/ \E e \in Events : BookedOn(e) /\ OwedOn(e)
  \/ \E e \in Events : LateCancellation(e)
  \/ \E i \in PaymentIds : ApproveRefund(i)
  \/ \E i \in PaymentIds, u \in Users : BuyResaleTicket(i, u)

LEMMA OwedAfterEscrowCall ==
  ASSUME BooksInv, BooksInv', NEW e \in Events, EscrowCall(e)
  PROVE  Idle \/ (BookedOn(e) /\ OwedOn(e)) \/ LateCancellation(e)
<1>1. CASE ProcessDisputeTimeouts(e)
  BY <1>1, OwedAfterTimeouts
<1>2. ASSUME NEW t \in Tokens, NEW total \in Int, NEW fee \in Nat, NEW left \in Int,
             PaidOut(e, t, total, fee, left), ~LateCancellation(e)
      PROVE  BookedOn(e) /\ OwedOn(e)
  <2>1. OwedOn(e)
    BY <1>2, OwedAfterPayout
  <2>2. total - fee \in Int
    OBVIOUS
  <2>3. BookedOn(e)
    BY <1>2, <2>2, WithdrawalBooked DEF PaidOut, BooksInv
  <2>4. QED
    BY <2>1, <2>3
<1>3. CASE Drained(e)
  BY <1>3, DrainBooked, OwedAfterDrain
<1>4. CASE WithdrawPlatformRevenue(e)
  <2>1. platformRevenue[e] \in Int /\ AcceptedToken \in Tokens
    BY ConstantsAssumption DEF BooksInv, MoneyTypeOK
  <2>2. BookedOn(e)
    BY <1>4, <2>1, WithdrawalBooked DEF WithdrawPlatformRevenue, PayoutFrame, BooksInv
  <2>3. QED
    BY <1>4, <2>2, OwedAfterPlatform
<1>5. QED
  BY <1>1, <1>2, <1>3, <1>4, EscrowCalls

LEMMA OwedAfterSplitCall ==
  ASSUME BooksInv, BooksInv', PaidInv, NEW e \in Events, NEW u \in Users, SplitCall(e, u)
  PROVE  Idle \/ (BookedOn(e) /\ OwedOn(e)) \/ LateCancellation(e)
<1>1. CASE SharePaid(e, u)
  <2>1. settlement'[e] \in Int
    BY <1>1, SettlementTypes DEF SharePaid
  <2>2. RecipientShare(e, u, settlement'[e]) \in Int
    BY <1>1, <2>1, SharesAreIntegers DEF SharePaid
  <2>3. BookedOn(e)
    BY <1>1, <2>2, WithdrawalBooked, ConstantsAssumption DEF SharePaid, PayShare, BooksInv
  <2>4. QED
    BY <1>1, <2>3, OwedAfterShare
<1>2. CASE UNCHANGED <<payments, bookVars, settlement, splitWithdrawn>>
  BY <1>2, NothingOwed
<1>3. QED
  BY <1>1, <1>2, SplitCalls

LEMMA PromiseSteps ==
  ASSUME SalesContext, PaidInv, BooksInv', [Next]_vars
  PROVE  OwedSteps
<1>1. BooksInv
  BY DEF SalesContext
<1>2. CASE Quiet
  <2>1. UNCHANGED <<payments, bookVars, settlement, splitWithdrawn>>
    BY <1>2 DEF Quiet
  <2>2. Idle
    BY <2>1, NothingOwed
  <2>3. QED
    BY <2>2 DEF OwedSteps
<1>3. ASSUME NEW p \in PaymentParams, CreatePayment(p) PROVE OwedSteps
  <2>1. BookedOn(p.event) /\ OwedOn(p.event) /\ p.event \in Events
    BY <1>1, <1>3, PurchaseBooked, OwedAfterPurchase, RequestTypes
  <2>2. QED
    BY <2>1 DEF OwedSteps
<1>4. ASSUME NEW i \in PaymentIds, RefundCall(i) PROVE OwedSteps
  <2>1. PICK amount \in Int, s \in {"Held", "Refunded"} : RefundOf(i, amount, s)
    BY <1>1, <1>4, RefundCalls DEF BooksInv, DisputeInv
  <2>2. PICK f \in Events : f = payments[i].event /\ BookedOn(f)
    BY <1>1, <2>1, RefundBooked DEF RefundOf, HasStatus, RefundFromRevenue
  <2>3. OwedOn(f)
    BY <1>1, <2>1, <2>2, OwedAfterRefund
  <2>4. QED
    BY <2>2, <2>3 DEF OwedSteps
<1>5. ASSUME NEW i \in PaymentIds, RaiseDispute(i) \/ RejectDispute(i) PROVE OwedSteps
  <2>1. Idle
    BY <1>1, <1>5, OwedThroughDispute
  <2>2. QED
    BY <2>1 DEF OwedSteps
<1>6. ASSUME NEW i \in PaymentIds, NEW c \in EmailCommitments, BindEmailCommitment(i, c)
      PROVE  OwedSteps
  <2>1. Idle
    BY <1>1, <1>6, AsideAfterBinding
  <2>2. QED
    BY <2>1 DEF OwedSteps
<1>7. ASSUME NEW i \in PaymentIds, ResaleCall(i) PROVE OwedSteps
  <2>1. UNCHANGED <<payments, bookVars, splitVars>>
    BY <1>7 DEF ResaleCall, ListTicketForResale, DelistTicket
  <2>2. Idle
    BY <2>1, NothingOwed DEF splitVars
  <2>3. QED
    BY <2>2 DEF OwedSteps
<1>8. ASSUME NEW e \in Events, EscrowCall(e) PROVE OwedSteps
  BY <1>1, <1>8, OwedAfterEscrowCall DEF OwedSteps
<1>9. ASSUME NEW e \in Events, NEW u \in Users, SplitCall(e, u) PROVE OwedSteps
  BY <1>1, <1>9, OwedAfterSplitCall DEF OwedSteps
<1>10. ASSUME NEW i \in PaymentIds, ApproveRefund(i) PROVE OwedSteps
  BY <1>10 DEF OwedSteps
<1>11. ASSUME NEW i \in PaymentIds, NEW u \in Users, BuyResaleTicket(i, u) PROVE OwedSteps
  BY <1>11 DEF OwedSteps
<1>12. QED
  BY <1>2, <1>3, <1>4, <1>5, <1>6, <1>7, <1>8, <1>9, <1>10, <1>11, StepKinds

LEMMA RulingBooked ==
  ASSUME BooksInv, NEW i \in PaymentIds, ApproveRefund(i)
  PROVE  \E f \in Events : f = payments[i].event /\ BookedOn(f)
<1> DEFINE amount == payments[i].amount - payments[i].refunded_amount
<1>1. payments[i] # None /\ BookRefund(i, amount)
  BY DEF ApproveRefund, HasStatus
<1>2. amount \in Int
  BY <1>1, RefundAmountTypes DEF BooksInv, DisputeInv
<1> HIDE DEF amount
<1>3. QED
  BY <1>1, <1>2, RefundBooked


-----------------------------------------------------------------------------
(* What the contract holds covers what it owes.                            *)

AllOwed(t) == [e \in Events |-> Owed(e, t)]

\* Inductive, with the invariants of the other modules.
PromiseInv == \A t \in Tokens : SumFunction(AllOwed(t)) <= balance[t]

LEMMA OwedOnIsWithin ==
  ASSUME BooksInv, BooksInv', NEW e \in Events, OwedOn(e)
  PROVE  OwedWithin(e)
<1>1. ASSUME NEW t \in Tokens
      PROVE  /\ Owed(e, t)' \in Int
             /\ Owed(e, t)' <= Owed(e, t) + (balance'[t] - balance[t])
  <2>1. balance[t] \in Int /\ balance'[t] \in Int
    BY DEF BooksInv, MoneyTypeOK
  <2>2. Owed(e, t) \in Int
    BY OwedTypes
  <2>3. Owed(e, t)' = Owed(e, t) + (balance'[t] - balance[t])
    BY DEF OwedOn
  <2>4. QED
    BY <2>1, <2>2, <2>3
<1>2. QED
  BY <1>1 DEF OwedOn, OwedWithin

LEMMA PromiseKeptWithin ==
  ASSUME BooksInv, BooksInv', PromiseInv, NEW e \in Events, OwedWithin(e)
  PROVE  PromiseInv'
<1>1. ASSUME NEW t \in Tokens PROVE SumFunction(AllOwed(t))' <= balance'[t]
  <2> DEFINE F == [d \in Events |-> Owed(d, t)]
             G == [d \in Events |-> Owed(d, t)']
  <2>1. \A d \in Events : Owed(d, t) \in Int
    BY OwedTypes
  <2>2. F \in [Events -> Int]
    BY <2>1
  <2>3. \A d \in Events \ {e} : Owed(d, t)' = Owed(d, t)
    BY DEF OwedWithin, OthersOwed
  <2>4. Owed(e, t)' \in Int /\ Owed(e, t)' <= Owed(e, t) + (balance'[t] - balance[t])
    BY DEF OwedWithin
  <2>5. G \in [Events -> Int]
    BY <2>1, <2>3, <2>4
  <2>6. \A d \in Events \ {e} : F[d] = G[d]
    BY <2>3
  <2>7. F[e] = Owed(e, t) /\ G[e] = Owed(e, t)'
    OBVIOUS
  <2>8. SumFunction(AllOwed(t)) = SumFunction(F) /\ SumFunction(AllOwed(t))' = SumFunction(G)
    BY DEF AllOwed
  <2> HIDE DEF F, G
  <2>9. SumFunction(G) = SumFunction(F) + (G[e] - F[e])
    BY <2>2, <2>5, <2>6, FiniteAssumption, SumChanged
  <2>10. SumFunction(F) \in Int /\ balance[t] \in Int /\ balance'[t] \in Int
    BY <2>2, FiniteAssumption, SumType DEF BooksInv, MoneyTypeOK
  <2>11. SumFunction(F) <= balance[t]
    BY <2>8 DEF PromiseInv
  <2>12. Owed(e, t) \in Int
    BY <2>1
  <2>13. QED
    BY <2>4, <2>7, <2>8, <2>9, <2>10, <2>11, <2>12
<1>2. QED
  BY <1>1 DEF PromiseInv

LEMMA PromiseKeptIdle == ASSUME PromiseInv, Idle PROVE PromiseInv'
<1>1. ASSUME NEW t \in Tokens PROVE SumFunction(AllOwed(t))' <= balance'[t]
  <2>1. [e \in Events |-> Owed(e, t)'] = [e \in Events |-> Owed(e, t)]
    BY DEF Idle
  <2>2. AllOwed(t)' = AllOwed(t)
    BY <2>1 DEF AllOwed
  <2>3. balance'[t] = balance[t] /\ SumFunction(AllOwed(t)) <= balance[t]
    BY DEF Idle, PromiseInv
  <2>4. SumFunction(AllOwed(t))' = SumFunction(AllOwed(t))
    BY <2>2
  <2>5. QED
    BY <2>3, <2>4
<1>2. QED
  BY <1>1 DEF PromiseInv

LEMMA NothingOwedAtFirst ==
  ASSUME Init, NEW e \in Events, NEW t \in Tokens
  PROVE  Owed(e, t) = 0
<1>1. tokenRevenue[e][t] = 0 /\ platformRevenue[e] = 0 /\ settlement[e] = None
  BY DEF Init
<1>2. Rest(e, t) = 0
  BY <1>1 DEF Rest, UnpaidSettlement
<1> DEFINE F == AllAside(payments, e, t)
<1>3. F \in [PaymentIds -> Int] /\ \A i \in PaymentIds : F[i] = 0
  BY DEF Init, AllAside, Aside, Counts
<1>4. SetAside(payments, e, t) = SumFunction(F)
  BY DEF SetAside
<1> HIDE DEF F
<1>5. SumFunction(F) = 0
  BY <1>3, FinitelyManyPayments, SumOfZeros
<1>6. QED
  BY <1>1, <1>2, <1>4, <1>5 DEF Owed

\* No cancellation comes at or after the event's end, where withdraw pays a
\* pool that counts refunded payments and then zeroes the revenue.
NoLateCancellation == \A e \in Events : ~LateCancellation(e)

LEMMA PromiseStep ==
  ASSUME FeesFit, SalesContext, BooksInv', PaidInv, SupplyInv, RateInv, NoLateCancellation,
         PromiseInv, [Next]_vars
  PROVE  PromiseInv'
<1>1. BooksInv /\ RefundInv
  BY DEF SalesContext
<1>2. CASE Idle
  BY <1>2, PromiseKeptIdle
<1>3. ASSUME NEW e \in Events, OwedOn(e) PROVE PromiseInv'
  BY <1>1, <1>3, OwedOnIsWithin, PromiseKeptWithin
<1>4. ASSUME NEW i \in PaymentIds, ApproveRefund(i) PROVE PromiseInv'
  <2>1. PICK f \in Events : f = payments[i].event
    BY <1>1, <1>4, RulingBooked
  <2>2. OwedWithin(f)
    BY <1>1, <1>4, <2>1, OwedAfterRuling
  <2>3. QED
    BY <1>1, <2>2, PromiseKeptWithin
<1>5. ASSUME NEW i \in PaymentIds, NEW u \in Users, BuyResaleTicket(i, u) PROVE PromiseInv'
  <2>1. PICK e \in Events : OwedOn(e)
    BY <1>1, <1>5, OwedAfterResale
  <2>2. QED
    BY <1>3, <2>1
<1>6. QED
  BY <1>2, <1>3, <1>4, <1>5, PromiseSteps DEF OwedSteps, NoLateCancellation

\* What the contract owes - every event's revenue, the payments in dispute, the
\* accrued platform fees, the unpaid split shares - is never more than it
\* holds, through purchases, refunds, rulings, payouts, splits and resales, as
\* long as royalty and fee fit in a price and no event is cancelled late.
THEOREM PromisesStayCovered ==
  ASSUME FeesFit
  PROVE  Spec /\ []NoLateCancellation => []PromisesCovered
<1>1. Init => PromiseInv
  <2> SUFFICES ASSUME Init, NEW t \in Tokens PROVE SumFunction(AllOwed(t)) <= balance[t]
    BY DEF PromiseInv
  <2> DEFINE F == AllOwed(t)
  <2>1. F \in [Events -> Int] /\ \A e \in Events : F[e] = 0
    BY NothingOwedAtFirst DEF AllOwed
  <2> HIDE DEF F
  <2>2. SumFunction(F) = 0
    BY <2>1, FiniteAssumption, SumOfZeros
  <2>3. balance[t] = 0
    BY DEF Init
  <2>4. QED
    BY <2>2, <2>3 DEF F
<1>2. /\ SalesContext /\ PaidInv /\ SupplyInv /\ RateInv /\ SalesContext'
      /\ NoLateCancellation /\ PromiseInv /\ [Next]_vars
      => PromiseInv'
  BY PromiseStep DEF SalesContext
<1>3. SalesContext /\ PromiseInv => PromisesCovered
  <2> SUFFICES ASSUME SalesContext, PromiseInv PROVE PromisesCovered
    OBVIOUS
  <2>1. BooksInv
    BY DEF SalesContext
  <2>2. ASSUME NEW t \in Tokens
        PROVE  [e \in Events |->
                  tokenRevenue[e][t] + Disputed(e, t)
                    + (IF t = AcceptedToken
                       THEN platformRevenue[e] + UnpaidSettlement(e) ELSE 0)]
               = AllOwed(t)
    BY <2>1, DisputedIsAside DEF AllOwed, Owed, Rest
  <2>3. \A t \in Tokens : SumFunction(AllOwed(t)) <= balance[t]
    BY DEF PromiseInv
  <2>4. QED
    BY <2>2, <2>3 DEF PromisesCovered
<1>4. QED
  BY <1>1, <1>2, <1>3, SalesContextHolds, PaidInvariant, SupplyInvariant, RateInvariant, PTL
     DEF Spec

-----------------------------------------------------------------------------
(* The revenue counter is what the running totals leave.                   *)

\* No payment in dispute was partly refunded before.
WholeDisputes ==
  \A i \in Made : payments[i].status = "Disputed" => payments[i].refunded_amount = 0

MatchInv == \A e \in Events, t \in Tokens : Owed(e, t) = Net(e, t)

\* A call that moves the balance as the books say moves what is owed alike.
LEMMA MatchKept ==
  ASSUME BooksInv, BooksInv', MatchInv, NEW e \in Events, BookedOn(e), OwedOn(e)
  PROVE  MatchInv'
<1>1. ASSUME NEW d \in Events, NEW t \in Tokens PROVE Owed(d, t)' = Net(d, t)'
  <2>1. Owed(d, t) = Net(d, t) /\ Net(d, t) \in Int
    BY NetIsInt DEF MatchInv, BooksInv
  <2>2. CASE d # e
    <3>1. Owed(d, t)' = Owed(d, t)
      BY <2>2 DEF OwedOn, OthersOwed
    <3>2. Net(d, t)' = Net(d, t)
      BY <2>2 DEF BookedOn
    <3>3. QED
      BY <2>1, <3>1, <3>2
  <2>3. CASE d = e
    <3>1. Owed(e, t)' = Owed(e, t) + (balance'[t] - balance[t])
      BY DEF OwedOn
    <3>2. balance'[t] - balance[t] = Net(e, t)' - Net(e, t)
      BY DEF BookedOn
    <3>3. /\ totalVolume'[e][t] \in Int /\ totalRefunds'[e][t] \in Int
          /\ totalWithdrawn'[e][t] \in Int
      BY DEF BooksInv, MoneyTypeOK
    <3>4. Net(e, t)' \in Int
      BY <3>3 DEF Net
    <3>5. Owed(e, t)' = Net(e, t)'
      BY <2>1, <2>3, <3>1, <3>2, <3>4
    <3>6. QED
      BY <2>3, <3>5
  <2>4. QED
    BY <2>2, <2>3
<1>2. QED
  BY <1>1 DEF MatchInv

LEMMA MatchStep ==
  ASSUME ResalePrices = {}, SalesContext, BooksInv', PaidInv, BalanceInv, NoLateCancellation,
         WholeDisputes, MatchInv, [Next]_vars
  PROVE  MatchInv'
<1>1. BooksInv /\ RefundInv
  BY DEF SalesContext
<1>2. CASE Idle
  <2>1. ASSUME NEW e \in Events, NEW t \in Tokens PROVE Owed(e, t)' = Net(e, t)'
    <3>1. Net(e, t)' = Net(e, t)
      BY <1>2 DEF Idle, Net
    <3>2. Owed(e, t)' = Owed(e, t)
      BY <1>2 DEF Idle
    <3>3. QED
      BY <3>1, <3>2 DEF MatchInv
  <2>2. QED
    BY <2>1 DEF MatchInv
<1>3. ASSUME NEW e \in Events, BookedOn(e), OwedOn(e) PROVE MatchInv'
  BY <1>1, <1>3, MatchKept
<1>4. ASSUME NEW i \in PaymentIds, ApproveRefund(i) PROVE MatchInv'
  <2>1. PICK f \in Events : f = payments[i].event /\ BookedOn(f)
    BY <1>1, <1>4, RulingBooked
  <2>2. payments[i].refunded_amount = 0
    BY <1>4 DEF ApproveRefund, HasStatus, WholeDisputes, Made
  <2>3. OwedOn(f)
    BY <1>1, <1>4, <2>1, <2>2, OwedAfterRuling
  <2>4. QED
    BY <1>3, <2>1, <2>3
<1>5. ASSUME NEW i \in PaymentIds, NEW u \in Users, BuyResaleTicket(i, u) PROVE FALSE
  <2>1. resaleListing[i] # None
    BY <1>5 DEF BuyResaleTicket
  <2>2. QED
    BY <2>1 DEF BalanceInv
<1>6. QED
  BY <1>2, <1>3, <1>4, <1>5, PromiseSteps DEF OwedSteps, NoLateCancellation

\* Where nothing is resold, no event is cancelled late and no payment is partly
\* refunded before its dispute, the counter of an event's revenue, that purchases,
\* refunds, rulings, timeouts, payouts and splits all write, is exactly what
\* volume, refunds, payouts, disputes, fees and shares leave.
THEOREM RevenueStaysMatched ==
  ASSUME ResalePrices = {}
  PROVE  Spec /\ []NoLateCancellation /\ []WholeDisputes => []RevenueMatchesBooks
<1>1. Init => MatchInv
  <2> SUFFICES ASSUME Init, NEW e \in Events, NEW t \in Tokens PROVE Owed(e, t) = Net(e, t)
    BY DEF MatchInv
  <2>1. Owed(e, t) = 0
    BY NothingOwedAtFirst
  <2>2. Net(e, t) = 0
    BY DEF Init, Net
  <2>3. QED
    BY <2>1, <2>2
<1>2. /\ SalesContext /\ PaidInv /\ BalanceInv /\ SalesContext'
      /\ NoLateCancellation /\ WholeDisputes /\ MatchInv /\ [Next]_vars
      => MatchInv'
  BY MatchStep DEF SalesContext
<1>3. SalesContext /\ MatchInv => RevenueMatchesBooks
  <2> SUFFICES ASSUME SalesContext, MatchInv, NEW e \in Events, NEW t \in Tokens
               PROVE  tokenRevenue[e][t]
                        = totalVolume[e][t] - totalRefunds[e][t] - totalWithdrawn[e][t]
                            - Disputed(e, t)
                            - (IF t = AcceptedToken
                               THEN platformRevenue[e] + UnpaidSettlement(e) ELSE 0)
    BY DEF RevenueMatchesBooks
  <2>1. BooksInv
    BY DEF SalesContext
  <2>2. Owed(e, t) = Net(e, t) /\ Net(e, t) \in Int
    BY <2>1, NetIsInt DEF MatchInv, BooksInv
  <2>3. /\ tokenRevenue[e][t] \in Int /\ SetAside(payments, e, t) \in Int
        /\ Rest(e, t) \in Int
    BY <2>1, OwedTypes
  <2>4. Disputed(e, t) = SetAside(payments, e, t)
    BY <2>1, DisputedIsAside
  <2> DEFINE rest == IF t = AcceptedToken THEN platformRevenue[e] + UnpaidSettlement(e) ELSE 0
             net == totalVolume[e][t] - totalRefunds[e][t] - totalWithdrawn[e][t]
  <2>5. Rest(e, t) = rest /\ Net(e, t) = net
    BY DEF Rest, Net
  <2> HIDE DEF rest, net
  <2>6. tokenRevenue[e][t] = net - SetAside(payments, e, t) - rest
    BY <2>2, <2>3, <2>5 DEF Owed
  <2>7. tokenRevenue[e][t] = net - Disputed(e, t) - rest
    BY <2>4, <2>6
  <2>8. QED
    BY <2>7 DEF net, rest
<1>4. QED
  BY <1>1, <1>2, <1>3, SalesContextHolds, PaidInvariant, BalanceInvariant, PTL DEF Spec


-----------------------------------------------------------------------------
(* What a cancelled event keeps for its attendees.                         *)

\* What of an event's volume went to others than its payers, or waits for them.
Spent(e, t) == totalWithdrawn[e][t] + Rest(e, t)

\* The organizer's part of a cancelled event, in basis points.
OrganizerBps(e) ==
  IF config[e] = None \/ config[e].withdrawable_ratio_bps = None THEN 0
  ELSE config[e].withdrawable_ratio_bps

\* A cancelled event never spends more than the organizer's part of all it ever
\* sold for, and nothing at all before it is settled.  Inductive.
SpentInv ==
  \A e \in Events :
    /\ config[e] # None /\ config[e].cancel_ledger = None =>
         config[e].withdrawable_ratio_bps = None
    /\ status[e] = "Cancelled" =>
         \A t \in Tokens :
           /\ Spent(e, t) <= Share(totalVolume[e][t], OrganizerBps(e))
           /\ ~Latched(e) /\ settlement[e] = None => Spent(e, t) = 0

LEMMA SpentTypes ==
  ASSUME BooksInv, NEW e \in Events, NEW t \in Tokens
  PROVE  Spent(e, t) \in Int /\ totalWithdrawn[e][t] \in Int
<1>1. totalWithdrawn[e][t] \in Int
  BY DEF BooksInv, MoneyTypeOK
<1>2. QED
  BY <1>1, OwedTypes DEF Spent

LEMMA OrganizerPart ==
  ASSUME RecordsTypeOK, NEW e \in Events
  PROVE  /\ OrganizerBps(e) \in Nat /\ OrganizerBps(e) <= 10000
         /\ RefundRatio(e) = 10000 - OrganizerBps(e)
<1>1. CASE config[e] = None \/ config[e].withdrawable_ratio_bps = None
  BY <1>1 DEF OrganizerBps, RefundRatio
<1>2. CASE config[e] # None /\ config[e].withdrawable_ratio_bps # None
  <2>1. config[e] \in EventConfig
    BY <1>2, ConfigCounters DEF RecordsTypeOK
  <2>2. config[e].withdrawable_ratio_bps \in Bps \cup {None}
    BY <2>1 DEF EventConfig
  <2>3. PICK r \in Bps : r = config[e].withdrawable_ratio_bps
    BY <1>2, <2>2
  <2>4. OrganizerBps(e) = r /\ RefundRatio(e) = 10000 - r
    BY <1>2, <2>3 DEF OrganizerBps, RefundRatio
  <2>5. QED
    BY <2>4 DEF Bps
<1>3. QED
  BY <1>1, <1>2

\* The same rate of more is no less.
LEMMA ShareGrows ==
  ASSUME NEW a \in Nat, NEW b \in Nat, a <= b, NEW r \in Nat
  PROVE  /\ Share(a, r) <= Share(b, r)
         /\ Share(a, r) \in Nat /\ Share(b, r) \in Nat
<1> DEFINE m == a * r
           n == b * r
<1>1. m \in Nat /\ n \in Nat /\ m <= n
  OBVIOUS
<1>2. Share(a, r) = m \div 10000 /\ Share(b, r) = n \div 10000
  BY DEF Share
<1> HIDE DEF m, n
<1>3. m \div 10000 <= n \div 10000 /\ m \div 10000 \in Nat /\ n \div 10000 \in Nat
  BY <1>1
<1>4. QED
  BY <1>2, <1>3

\* What a step may do to what an event has spent: nothing, or settle it.
SpendsNothing(e) == \A t \in Tokens : Spent(e, t)' = Spent(e, t)

SpendsPart(e) ==
  /\ \A t \in Tokens : /\ Spent(e, t)' \in Int
                       /\ Spent(e, t)' <= Share(totalVolume[e][t], OrganizerBps(e))
  /\ Latched(e)' \/ settlement'[e] # None

\* An event that is not paid out.
NotPaidOut(e) ==
  /\ \A t \in Tokens : totalWithdrawn'[e][t] = totalWithdrawn[e][t]
  /\ platformRevenue'[e] = platformRevenue[e]
  /\ settlement'[e] = settlement[e] /\ splitWithdrawn'[e] = splitWithdrawn[e]

LEMMA NothingSpent == ASSUME NEW e, NotPaidOut(e) PROVE SpendsNothing(e)
BY RestKept DEF NotPaidOut, Spent, SpendsNothing

LEMMA NothingSpentAtAll ==
  ASSUME UNCHANGED <<totalWithdrawn, platformRevenue, settlement, splitWithdrawn>>, NEW e
  PROVE  NotPaidOut(e) /\ SpendsNothing(e)
BY NothingSpent DEF NotPaidOut

\* What an event sold for never shrinks.
LEMMA VolumeGrows ==
  ASSUME BooksInv, [Next]_vars, NEW e \in Events, NEW t \in Tokens
  PROVE  totalVolume[e][t] <= totalVolume'[e][t]
<1>1. totalVolume[e][t] \in Nat
  BY DEF BooksInv, MoneyTypeOK
<1>2. UNCHANGED totalVolume => totalVolume[e][t] <= totalVolume'[e][t]
  BY <1>1
<1>3. CASE Quiet
  BY <1>2, <1>3 DEF Quiet, bookVars
<1>4. ASSUME NEW p \in PaymentParams, CreatePayment(p)
      PROVE  totalVolume[e][t] <= totalVolume'[e][t]
  <2>1. PICK f \in Events, u \in Tokens, a \in Nat : f = p.event /\ u = p.token /\ a = p.amount
    BY RequestTypes
  <2>2. totalVolume' = [totalVolume EXCEPT ![f][u] = @ + a]
    BY <1>4, <2>1 DEF CreatePayment
  <2>3. totalVolume'[e][t] = totalVolume[e][t] + (IF e = f /\ t = u THEN a ELSE 0)
    BY <1>1, <2>2 DEF BooksInv, MoneyTypeOK
  <2>4. QED
    BY <1>1, <2>3
<1>5. ASSUME NEW i \in PaymentIds,
             \/ \E c \in EmailCommitments : BindEmailCommitment(i, c)
             \/ RaiseDispute(i) \/ RejectDispute(i) \/ ApproveRefund(i)
             \/ ResaleCall(i)
      PROVE  UNCHANGED totalVolume
  BY <1>5, Zenon DEF BindEmailCommitment, RaiseDispute, RejectDispute, ApproveRefund, BookRefund,
                     ResaleCall, ListTicketForResale, DelistTicket, bookVars
<1>6. ASSUME NEW i \in PaymentIds, RefundCall(i) PROVE UNCHANGED totalVolume
  BY <1>6, RefundCalls DEF RefundOf, RefundFromRevenue, BookRefund, BooksInv, DisputeInv
<1>7. ASSUME NEW i \in PaymentIds, NEW u \in Users, BuyResaleTicket(i, u)
      PROVE  UNCHANGED totalVolume
  BY <1>7, Resales DEF Resold, BooksInv, DisputeInv
<1>8. ASSUME NEW d \in Events, EscrowCall(d) PROVE UNCHANGED totalVolume
  BY <1>8, EscrowCalls DEF PaidOut, Drained, ProcessDisputeTimeouts, WithdrawPlatformRevenue,
                           PayoutFrame
<1>9. ASSUME NEW d \in Events, NEW u \in Users, SplitCall(d, u) PROVE UNCHANGED totalVolume
  BY <1>9, SplitCalls DEF SharePaid, bookVars
<1>10. QED
  BY <1>2, <1>3, <1>4, <1>5, <1>6, <1>7, <1>8, <1>9, StepKinds

LEMMA PartIsNat ==
  ASSUME BooksInv, NEW e \in Events, NEW t \in Tokens
  PROVE  Share(totalVolume[e][t], OrganizerBps(e)) \in Nat /\ totalVolume[e][t] \in Nat
<1>1. PICK v \in Nat, r \in Nat : v = totalVolume[e][t] /\ r = OrganizerBps(e)
  <2>1. OrganizerBps(e) \in Nat
    BY OrganizerPart DEF BooksInv, DisputeInv
  <2>2. totalVolume[e][t] \in Nat
    BY DEF BooksInv, MoneyTypeOK
  <2>3. QED
    BY <2>1, <2>2, Zenon
<1>2. Share(v, r) \in Nat
  BY FlooredShares DEF IsFloor
<1>3. QED
  BY <1>1, <1>2

\* The pool of a cancelled event without open disputes.
LEMMA CancelledTotal ==
  ASSUME NEW e \in Events, status[e] = "Cancelled", config[e] # None, PayoutUnlocked(e),
         OpenDisputes(e) = {}, totalVolume[e][AcceptedToken] \in Nat
  PROVE  TotalToWithdraw(e) = Share(totalVolume[e][AcceptedToken], OrganizerBps(e))
<1> DEFINE F == [i \in {j \in OpenDisputes(e) : payments[j].token = AcceptedToken} |->
                   payments[i].amount]
<1>1. DOMAIN F = {}
  OBVIOUS
<1>2. /\ CancellationOrganizerPool(e, AcceptedToken)
           = Share(totalVolume[e][AcceptedToken] - SumFunction(F),
                   config[e].withdrawable_ratio_bps)
      /\ TotalToWithdraw(e) = CancellationOrganizerPool(e, AcceptedToken)
  BY DEF CancellationOrganizerPool, TotalToWithdraw
<1>3. OrganizerBps(e) = config[e].withdrawable_ratio_bps
  BY DEF PayoutUnlocked, OrganizerBps
<1> HIDE DEF F
<1>4. SumFunction(F) = 0
  BY <1>1, SumOfEmpty
<1>5. totalVolume[e][AcceptedToken] - SumFunction(F) = totalVolume[e][AcceptedToken]
  BY <1>4
<1>6. QED
  BY <1>2, <1>3, <1>5

\* A settlement spends, of the accepted token, the pool of what was sold.
LEMMA SpentOnSettlement ==
  ASSUME BooksInv, NEW e \in Events, \A t \in Tokens : Spent(e, t) = 0,
         status[e] = "Cancelled", config[e] # None, PayoutUnlocked(e), OpenDisputes(e) = {},
         NEW total, total = TotalToWithdraw(e),
         \A t \in Tokens : Spent(e, t)' = Spent(e, t) + (IF t = AcceptedToken THEN total ELSE 0)
  PROVE  \A t \in Tokens : /\ Spent(e, t)' \in Int
                            /\ Spent(e, t)' <= Share(totalVolume[e][t], OrganizerBps(e))
<1> SUFFICES ASSUME NEW t \in Tokens
             PROVE  /\ Spent(e, t)' \in Int
                    /\ Spent(e, t)' <= Share(totalVolume[e][t], OrganizerBps(e))
  OBVIOUS
<1>1. /\ Share(totalVolume[e][t], OrganizerBps(e)) \in Nat
      /\ Share(totalVolume[e][AcceptedToken], OrganizerBps(e)) \in Nat
      /\ totalVolume[e][AcceptedToken] \in Nat
  BY PartIsNat, ConstantsAssumption
<1>2. total = Share(totalVolume[e][AcceptedToken], OrganizerBps(e))
  BY <1>1, CancelledTotal
<1>3. Spent(e, t)' = 0 + (IF t = AcceptedToken THEN total ELSE 0)
  OBVIOUS
<1>4. QED
  BY <1>1, <1>2, <1>3

\* Withdraw settles a cancelled event once, out of the organizer's part.
LEMMA SpentByWithdraw ==
  ASSUME BooksInv, NEW e \in Events, status[e] = "Cancelled", Withdraw(e),
         \A t \in Tokens : Spent(e, t) = 0
  PROVE  SpendsPart(e)
<1> DEFINE total == TotalToWithdraw(e)
           fee == Share(total, platformFeeBps)
<1>1. /\ config[e] # None /\ PayoutUnlocked(e) /\ OpenDisputes(e) = {} /\ total > 0
      /\ SendOut(AcceptedToken, total - fee)
      /\ totalWithdrawn' = [totalWithdrawn EXCEPT ![e][AcceptedToken] = @ + (total - fee)]
      /\ platformRevenue' = [platformRevenue EXCEPT ![e] = @ + fee]
      /\ Latch(e) /\ UNCHANGED <<settlement, splitWithdrawn>>
  BY DEF Withdraw, BookWithdrawal, AccruePlatformFee, splitVars
<1>2. total \in Int
  BY <1>1, SettledTotals
<1>3. fee \in Nat
  BY <1>1, <1>2, FeeBounds
<1>4. Latched(e)'
  <2>1. config[e] \in EventConfig
    BY <1>1, ConfigCounters DEF BooksInv, DisputeInv, RecordsTypeOK
  <2>2. config'[e] = [config[e] EXCEPT !.organizer_withdrawn = TRUE]
    BY <1>1 DEF Latch, BooksInv, DisputeInv, RecordsTypeOK, EventTypeOK
  <2>3. config'[e] \in EventConfig /\ config'[e].organizer_withdrawn
    BY <2>1, <2>2 DEF EventConfig
  <2>4. config'[e] # None
    BY <2>3, NoneAssumption
  <2>5. QED
    BY <2>3, <2>4 DEF Latched
<1>5. total = TotalToWithdraw(e)
  OBVIOUS
<1> HIDE DEF total, fee
<1>6. /\ platformRevenue'[e] = platformRevenue[e] + fee
      /\ \A t \in Tokens : totalWithdrawn'[e][t] =
           totalWithdrawn[e][t] + (IF t = AcceptedToken THEN total - fee ELSE 0)
  BY <1>1, <1>2, <1>3 DEF BooksInv, MoneyTypeOK
<1>7. UnpaidSettlement(e)' = UnpaidSettlement(e)
  BY <1>1 DEF UnpaidSettlement
<1>8. ASSUME NEW t \in Tokens
      PROVE  Spent(e, t)' = Spent(e, t) + (IF t = AcceptedToken THEN total ELSE 0)
  <2>1. Rest(e, t)' = Rest(e, t) + (IF t = AcceptedToken THEN fee ELSE 0)
    BY <1>3, <1>6, <1>7, OwedTypes DEF Rest
  <2>2. Rest(e, t) \in Int /\ totalWithdrawn[e][t] \in Int
    BY OwedTypes, SpentTypes
  <2>3. QED
    BY <1>2, <1>3, <1>6, <2>1, <2>2 DEF Spent
<1>9. QED
  BY <1>1, <1>4, <1>5, <1>8, SpentOnSettlement DEF SpendsPart

\* The platform's fees are spent once they are accrued: paying them is nothing new.
LEMMA SpentByPlatform ==
  ASSUME BooksInv, NEW e \in Events, WithdrawPlatformRevenue(e)
  PROVE  \A d \in Events : SpendsNothing(d)
<1> DEFINE fees == platformRevenue[e]
<1>1. /\ totalWithdrawn' = [totalWithdrawn EXCEPT ![e][AcceptedToken] = @ + fees]
      /\ platformRevenue' = [platformRevenue EXCEPT ![e] = 0]
      /\ UNCHANGED <<settlement, splitWithdrawn>>
  BY DEF WithdrawPlatformRevenue, BookWithdrawal, splitVars
<1>2. fees \in Int
  BY OwedTypes, ConstantsAssumption
<1>3. \A d \in Events : UnpaidSettlement(d)' = UnpaidSettlement(d)
  BY <1>1 DEF UnpaidSettlement
<1>4. \A d \in Events : platformRevenue'[d] = platformRevenue[d] - (IF d = e THEN fees ELSE 0)
  BY <1>1, <1>2 DEF BooksInv, MoneyTypeOK
<1>5. \A d \in Events, t \in Tokens : totalWithdrawn'[d][t] =
        totalWithdrawn[d][t] + (IF d = e /\ t = AcceptedToken THEN fees ELSE 0)
  BY <1>1, <1>2 DEF BooksInv, MoneyTypeOK
<1> HIDE DEF fees
<1>6. ASSUME NEW d \in Events, NEW t \in Tokens PROVE Spent(d, t)' = Spent(d, t)
  <2>1. Rest(d, t)' = Rest(d, t) - (IF d = e /\ t = AcceptedToken THEN fees ELSE 0)
    BY <1>2, <1>3, <1>4, OwedTypes DEF Rest
  <2>2. Rest(d, t) \in Int /\ totalWithdrawn[d][t] \in Int
    BY OwedTypes, SpentTypes
  <2>3. QED
    BY <1>2, <1>5, <2>1, <2>2 DEF Spent
<1>7. QED
  BY <1>6 DEF SpendsNothing

\* A call about one event pays out no other, and so spends nothing of it.
LEMMA OthersNotPaid ==
  ASSUME BooksInv, NEW d \in Events, NEW e \in Events \ {d}
  PROVE  /\ EscrowCall(d) => NotPaidOut(e)
         /\ \A u \in Users : SplitCall(d, u) => NotPaidOut(e)
<1>1. ASSUME NEW t \in Tokens, NEW amount, BookWithdrawal(d, t, amount)
      PROVE  totalWithdrawn'[e] = totalWithdrawn[e]
  BY <1>1 DEF BookWithdrawal, BooksInv, MoneyTypeOK
<1>2. ASSUME NEW fee, AccruePlatformFee(d, fee) PROVE platformRevenue'[e] = platformRevenue[e]
  BY <1>2 DEF AccruePlatformFee, BooksInv, MoneyTypeOK
<1>3. ASSUME EscrowCall(d) PROVE NotPaidOut(e)
  <2>1. CASE ProcessDisputeTimeouts(d)
    BY <2>1, NothingSpentAtAll DEF ProcessDisputeTimeouts, splitVars
  <2>2. ASSUME NEW t \in Tokens, NEW total \in Int, NEW fee \in Nat, NEW left \in Int,
               PaidOut(d, t, total, fee, left)
        PROVE  NotPaidOut(e)
    BY <1>1, <1>2, <2>2 DEF PaidOut, splitVars, NotPaidOut
  <2>3. CASE Drained(d)
    <3>1. totalWithdrawn'[e] = totalWithdrawn[e]
      BY <2>3 DEF Drained, DrainAllTokens, BooksInv, MoneyTypeOK
    <3>2. QED
      BY <2>3, <3>1 DEF Drained, splitVars, NotPaidOut
  <2>4. CASE WithdrawPlatformRevenue(d)
    <3>1. BookWithdrawal(d, AcceptedToken, platformRevenue[d])
      BY <2>4 DEF WithdrawPlatformRevenue
    <3>2. totalWithdrawn'[e] = totalWithdrawn[e]
      BY <1>1, <3>1, ConstantsAssumption
    <3>3. platformRevenue'[e] = platformRevenue[e] /\ UNCHANGED <<settlement, splitWithdrawn>>
      BY <2>4 DEF WithdrawPlatformRevenue, BooksInv, MoneyTypeOK, splitVars
    <3>4. QED
      BY <3>2, <3>3 DEF NotPaidOut
  <2>5. QED
    BY <1>3, <2>1, <2>2, <2>3, <2>4, EscrowCalls
<1>4. ASSUME NEW u \in Users, SplitCall(d, u) PROVE NotPaidOut(e)
  <2>1. CASE SharePaid(d, u)
    <3>1. /\ EnsureSplitSettled(d)
          /\ splitWithdrawn' =
               [splitWithdrawn EXCEPT ![d][u] = RecipientShare(d, u, settlement'[d])]
          /\ BookWithdrawal(d, AcceptedToken, RecipientShare(d, u, settlement'[d]))
      BY <2>1 DEF SharePaid, PayShare
    <3>2. totalWithdrawn'[e] = totalWithdrawn[e] /\ splitWithdrawn'[e] = splitWithdrawn[e]
      BY <1>1, <3>1, ConstantsAssumption DEF BooksInv, MoneyTypeOK
    <3>3. settlement'[e] = settlement[e] /\ platformRevenue'[e] = platformRevenue[e]
      <4>1. ASSUME NEW total \in Int, NEW fee \in Nat, NEW left \in Int,
                   Settled(d, total, fee, left)
            PROVE  settlement'[e] = settlement[e] /\ platformRevenue'[e] = platformRevenue[e]
        BY <1>2, <4>1 DEF Settled, BooksInv, MoneyTypeOK
      <4>2. QED
        BY <3>1, <4>1, Settlements
    <3>4. QED
      BY <3>2, <3>3 DEF NotPaidOut
  <2>2. CASE UNCHANGED <<payments, bookVars, settlement, splitWithdrawn>>
    BY <2>2, NothingSpentAtAll DEF bookVars
  <2>3. QED
    BY <1>4, <2>1, <2>2, SplitCalls
<1>5. QED
  BY <1>3, <1>4

LEMMA OthersSpendNothing ==
  ASSUME BooksInv, NEW d \in Events, NEW e \in Events \ {d}
  PROVE  /\ EscrowCall(d) => SpendsNothing(e)
         /\ \A u \in Users : SplitCall(d, u) => SpendsNothing(e)
BY OthersNotPaid, NothingSpent

\* The first recipient that comes has the event settled out of the organizer's
\* part; those after it take what the settlement already spent.
LEMMA SpentByShare ==
  ASSUME BooksInv, PaidInv, SettleInv, NEW e \in Events, status[e] = "Cancelled",
         ~Latched(e) /\ settlement[e] = None => \A t \in Tokens : Spent(e, t) = 0,
         NEW u \in Users, SharePaid(e, u)
  PROVE  SpendsNothing(e) \/ SpendsPart(e)
<1> DEFINE share == RecipientShare(e, u, settlement'[e])
<1>1. settlement'[e] \in Nat
  BY SettlementTypes DEF SharePaid
<1>2. share \in Int
  BY <1>1, SharesAreIntegers DEF SharePaid
<1>3. /\ totalWithdrawn' = [totalWithdrawn EXCEPT ![e][AcceptedToken] = @ + share]
      /\ splitWithdrawn' = [splitWithdrawn EXCEPT ![e][u] = share]
      /\ splitWithdrawn[e][u] = 0
      /\ EnsureSplitSettled(e)
  BY DEF SharePaid, PayShare, BookWithdrawal
<1> HIDE DEF share
<1>4. \A t \in Tokens : totalWithdrawn'[e][t] =
        totalWithdrawn[e][t] + (IF t = AcceptedToken THEN share ELSE 0)
  BY <1>2, <1>3 DEF BooksInv, MoneyTypeOK
<1>5. CASE settlement[e] # None
  <2>1. settlement'[e] = settlement[e] /\ platformRevenue'[e] = platformRevenue[e]
    BY <1>3, <1>5 DEF EnsureSplitSettled
  <2>2. UnpaidSettlement(e)' = UnpaidSettlement(e) - share
    BY <1>1, <1>2, <1>3, <2>1, UnpaidAfterShare
  <2>3. ASSUME NEW t \in Tokens PROVE Spent(e, t)' = Spent(e, t)
    <3>1. Rest(e, t)' = Rest(e, t) - (IF t = AcceptedToken THEN share ELSE 0)
      BY <1>2, <2>1, <2>2, OwedTypes DEF Rest
    <3>2. Rest(e, t) \in Int /\ totalWithdrawn[e][t] \in Int
      BY OwedTypes, SpentTypes
    <3>3. QED
      BY <1>2, <1>4, <3>1, <3>2 DEF Spent
  <2>4. QED
    BY <2>3 DEF SpendsNothing
<1>6. CASE settlement[e] = None
  <2> DEFINE total == TotalToWithdraw(e)
             fee == Share(total, platformFeeBps)
  <2>1. /\ config[e] # None /\ PayoutUnlocked(e) /\ OpenDisputes(e) = {} /\ total > 0
        /\ platformRevenue' = [platformRevenue EXCEPT ![e] = @ + fee]
        /\ settlement' = [settlement EXCEPT ![e] = total - fee]
    BY <1>3, <1>6 DEF EnsureSplitSettled, SettleSplit, AccruePlatformFee
  <2>2. total \in Int
    BY <2>1, SettledTotals
  <2>3. fee \in Nat
    BY <2>1, <2>2, FeeBounds
  <2>4. total = TotalToWithdraw(e)
    OBVIOUS
  <2> HIDE DEF total, fee
  <2>5. platformRevenue'[e] = platformRevenue[e] + fee /\ settlement'[e] = total - fee
    BY <2>1, <2>2, <2>3 DEF BooksInv, MoneyTypeOK
  <2>6. UnpaidSettlement(e)' = (total - fee) - share /\ UnpaidSettlement(e) = 0
    <3>1. UnpaidSettlement(e)' = settlement'[e] - share
      BY <1>1, <1>2, <1>3, <1>6, UnpaidAfterShare
    <3>2. UnpaidSettlement(e) = 0
      BY <1>6 DEF UnpaidSettlement
    <3>3. QED
      BY <2>5, <3>1, <3>2
  <2>7. ASSUME NEW t \in Tokens
        PROVE  Spent(e, t)' = Spent(e, t) + (IF t = AcceptedToken THEN total ELSE 0)
    <3>1. platformRevenue[e] \in Int
      BY OwedTypes, ConstantsAssumption
    <3>2. Rest(e, t)' = Rest(e, t) + (IF t = AcceptedToken THEN total - share ELSE 0)
      BY <1>2, <2>2, <2>3, <2>5, <2>6, <3>1 DEF Rest
    <3>3. Rest(e, t) \in Int /\ totalWithdrawn[e][t] \in Int
      BY OwedTypes, SpentTypes
    <3>4. QED
      BY <1>2, <1>4, <2>2, <3>2, <3>3 DEF Spent
  <2>8. ~Latched(e)
    <3>1. splits[e] # <<>>
      <4>1. PICK k \in DOMAIN splits[e] : splits[e][k].recipient = u
        BY DEF SharePaid, Recipients
      <4>2. QED
        BY <4>1
    <3>2. QED
      BY <3>1 DEF SettleInv
  <2>9. \A t \in Tokens : /\ Spent(e, t)' \in Int
                          /\ Spent(e, t)' <= Share(totalVolume[e][t], OrganizerBps(e))
    BY <1>6, <2>1, <2>4, <2>7, <2>8, SpentOnSettlement
  <2>10. settlement'[e] # None
    BY <1>1, ConstantsAssumption
  <2>11. QED
    BY <2>9, <2>10 DEF SpendsPart
<1>7. QED
  BY <1>5, <1>6

\* The payouts that ignore the cancellation are not made: withdraw_revenue by
\* the admin, and the release of an escrow the admin gave an end time.
LeftToCancellation ==
  \A e \in Events : status[e] = "Cancelled" => e \notin AdminPaidEvents /\ escrowMeta[e] = None

\* What a step spends of a cancelled event.
LEMMA SpendingSteps ==
  ASSUME ResalePrices = {}, BooksInv, PaidInv, SettleInv, BalanceInv, LeftToCancellation,
         [Next]_vars, NEW e \in Events, status[e] = "Cancelled",
         ~Latched(e) /\ settlement[e] = None => \A t \in Tokens : Spent(e, t) = 0
  PROVE  SpendsNothing(e) \/ SpendsPart(e)
<1>1. CASE Quiet
  BY <1>1, NothingSpentAtAll DEF Quiet, bookVars
<1>2. ASSUME NEW p \in PaymentParams, CreatePayment(p) PROVE SpendsNothing(e)
  BY <1>2, NothingSpentAtAll DEF CreatePayment, splitVars
<1>3. ASSUME NEW i \in PaymentIds,
             \/ \E c \in EmailCommitments : BindEmailCommitment(i, c)
             \/ RaiseDispute(i) \/ RejectDispute(i) \/ ApproveRefund(i)
             \/ ResaleCall(i)
      PROVE  SpendsNothing(e)
  <2>1. UNCHANGED <<totalWithdrawn, platformRevenue, settlement, splitWithdrawn>>
    BY <1>3, Zenon DEF BindEmailCommitment, RaiseDispute, RejectDispute, ApproveRefund,
                       BookRefund, ResaleCall, ListTicketForResale, DelistTicket, bookVars,
                       splitVars
  <2>2. QED
    BY <2>1, NothingSpentAtAll
<1>4. ASSUME NEW i \in PaymentIds, RefundCall(i) PROVE SpendsNothing(e)
  <2>1. PICK amount \in Int, s \in {"Held", "Refunded"} : RefundOf(i, amount, s)
    BY <1>4, RefundCalls DEF BooksInv, DisputeInv
  <2>2. UNCHANGED <<totalWithdrawn, platformRevenue, settlement, splitWithdrawn>>
    BY <2>1 DEF RefundOf, RefundFromRevenue, BookRefund, RefundFrame, splitVars
  <2>3. QED
    BY <2>2, NothingSpentAtAll
<1>5. ASSUME NEW i \in PaymentIds, NEW u \in Users, BuyResaleTicket(i, u) PROVE FALSE
  <2>1. resaleListing[i] # None
    BY <1>5 DEF BuyResaleTicket
  <2>2. QED
    BY <2>1 DEF BalanceInv
<1>6. ASSUME NEW d \in Events, EscrowCall(d) PROVE SpendsNothing(e) \/ SpendsPart(e)
  <2>1. CASE d # e
    BY <1>6, <2>1, OthersSpendNothing
  <2>2. CASE d = e
    <3>1. CASE ProcessDisputeTimeouts(e)
      BY <3>1, NothingSpentAtAll DEF ProcessDisputeTimeouts, splitVars
    <3>2. CASE Withdraw(e)
      <4>1. settlement[e] = None /\ ~Latched(e)
        BY <3>2 DEF Withdraw, NoSplits, SettleInv, Latched
      <4>2. QED
        BY <3>2, <4>1, SpentByWithdraw
    <3>3. CASE WithdrawPlatformRevenue(e)
      BY <3>3, SpentByPlatform
    <3>4. ASSUME \/ e \in AdminPaidEvents /\ WithdrawRevenue(e)
                 \/ (\E t \in Tokens : WithdrawToken(e, t)) \/ WithdrawAllTokens(e)
                 \/ ReleaseIfExpired(e)
          PROVE  FALSE
      BY <3>4 DEF LeftToCancellation, WithdrawToken, WithdrawAllTokens, ReleaseIfExpired
    <3>5. QED
      BY <1>6, <2>2, <3>1, <3>2, <3>3, <3>4 DEF EscrowCall
  <2>3. QED
    BY <2>1, <2>2
<1>7. ASSUME NEW d \in Events, NEW u \in Users, SplitCall(d, u)
      PROVE  SpendsNothing(e) \/ SpendsPart(e)
  <2>1. CASE d # e
    BY <1>7, <2>1, OthersSpendNothing
  <2>2. CASE d = e
    <3>1. CASE SharePaid(e, u)
      BY <3>1, SpentByShare
    <3>2. CASE UNCHANGED <<payments, bookVars, settlement, splitWithdrawn>>
      BY <3>2, NothingSpentAtAll DEF bookVars
    <3>3. QED
      BY <1>7, <2>2, <3>1, <3>2, SplitCalls
  <2>3. QED
    BY <2>1, <2>2
<1>8. QED
  BY <1>1, <1>2, <1>3, <1>4, <1>5, <1>6, <1>7, StepKinds

\* The organizer's part is set once, by the cancellation.
LEMMA PartSetOnce ==
  ASSUME BooksInv, BooksInv', [Next]_vars, NEW e \in Events,
         config[e] # None /\ config[e].cancel_ledger = None =>
           config[e].withdrawable_ratio_bps = None
  PROVE  /\ OrganizerBps(e)' \in Nat
         /\ OrganizerBps(e)' = OrganizerBps(e) \/ OrganizerBps(e) = 0
         /\ config'[e] # None /\ config'[e].cancel_ledger = None =>
              config'[e].withdrawable_ratio_bps = None
<1>1. RecordsTypeOK /\ config' \in [Events -> EventConfig \cup {None}]
  BY DEF BooksInv, DisputeInv, RecordsTypeOK, EventTypeOK
<1>2. OrganizerBps(e)' \in Nat
  <2>1. CASE config'[e] = None \/ config'[e].withdrawable_ratio_bps = None
    BY <2>1 DEF OrganizerBps
  <2>2. CASE config'[e] # None /\ config'[e].withdrawable_ratio_bps # None
    <3>1. config'[e] \in EventConfig
      BY <1>1, <2>2
    <3>2. config'[e].withdrawable_ratio_bps \in Bps \cup {None}
      BY <3>1 DEF EventConfig
    <3>3. PICK r \in Bps : r = config'[e].withdrawable_ratio_bps
      BY <2>2, <3>2
    <3>4. OrganizerBps(e)' = r
      BY <2>2, <3>3 DEF OrganizerBps
    <3>5. QED
      BY <3>4, RatesAreNumbers
  <2>3. QED
    BY <2>1, <2>2
<1>3. CASE config[e] = None
  <2>1. OrganizerBps(e) = 0
    BY <1>3 DEF OrganizerBps
  <2>2. config'[e] = None \/ \E terms \in SyncedTerms : config'[e] = NewConfig(terms)
    BY <1>1, <1>3, ConfigFates DEF ConfigFate, Created
  <2>3. config'[e] # None => config'[e].withdrawable_ratio_bps = None
    <3>1. \A terms : NewConfig(terms).withdrawable_ratio_bps = None
      BY DEF NewConfig
    <3>2. QED
      BY <2>2, <3>1
  <2>4. QED
    BY <1>2, <2>1, <2>3
<1>4. CASE config[e] # None
  <2>1. /\ config'[e] # None
        /\ config[e].cancel_ledger # None =>
             /\ config'[e].cancel_ledger = config[e].cancel_ledger
             /\ config'[e].withdrawable_ratio_bps = config[e].withdrawable_ratio_bps
        /\ \/ config'[e].cancel_ledger # None
           \/ config'[e].withdrawable_ratio_bps = config[e].withdrawable_ratio_bps
    BY <1>1, <1>4, ConfigEvolves
  <2>2. CASE config[e].cancel_ledger # None
    <3>1. OrganizerBps(e)' = OrganizerBps(e)
      BY <1>4, <2>1, <2>2 DEF OrganizerBps
    <3>2. QED
      BY <1>2, <2>1, <2>2, <3>1
  <2>3. CASE config[e].cancel_ledger = None
    <3>1. config[e].withdrawable_ratio_bps = None
      BY <1>4, <2>3
    <3>2. OrganizerBps(e) = 0
      BY <3>1 DEF OrganizerBps
    <3>3. QED
      BY <1>2, <2>1, <3>1, <3>2
  <2>4. QED
    BY <2>2, <2>3
<1>5. QED
  BY <1>3, <1>4

LEMMA PartsCompared ==
  ASSUME NEW v \in Nat, NEW w \in Nat, v <= w, NEW r \in Nat, NEW q \in Nat, q = r \/ r = 0
  PROVE  Share(v, r) \in Nat /\ Share(w, q) \in Nat /\ Share(v, r) <= Share(w, q)
<1>1. Share(v, r) \in Nat /\ Share(w, q) \in Nat
  <2>1. IsFloor(Share(v, r), v, r) /\ IsFloor(Share(w, q), w, q)
    BY FlooredShares
  <2>2. QED
    BY <2>1 DEF IsFloor
<1>2. CASE q = r
  <2>1. Share(v, r) <= Share(w, r)
    BY ShareGrows
  <2>2. QED
    BY <1>1, <1>2, <2>1
<1>3. CASE r = 0
  <2>1. v * 0 = 0 /\ 0 \div 10000 = 0
    OBVIOUS
  <2>2. Share(v, r) = 0
    BY <1>3, <2>1 DEF Share
  <2>3. QED
    BY <1>1, <2>2
<1>4. QED
  BY <1>2, <1>3

\* So what the organizer may take of an event's sales never shrinks.
LEMMA PartGrows ==
  ASSUME BooksInv, BooksInv', [Next]_vars, NEW e \in Events, NEW t \in Tokens,
         config[e] # None /\ config[e].cancel_ledger = None =>
           config[e].withdrawable_ratio_bps = None
  PROVE  /\ Share(totalVolume[e][t], OrganizerBps(e)) \in Nat
         /\ Share(totalVolume'[e][t], OrganizerBps(e)') \in Nat
         /\ Share(totalVolume[e][t], OrganizerBps(e))
              <= Share(totalVolume'[e][t], OrganizerBps(e)')
<1>1. totalVolume[e][t] \in Nat /\ totalVolume'[e][t] \in Nat
  BY DEF BooksInv, MoneyTypeOK
<1>2. OrganizerBps(e) \in Nat
  BY OrganizerPart DEF BooksInv, DisputeInv
<1>3. /\ OrganizerBps(e)' \in Nat
      /\ OrganizerBps(e)' = OrganizerBps(e) \/ OrganizerBps(e) = 0
  BY PartSetOnce
<1>4. totalVolume[e][t] <= totalVolume'[e][t]
  BY VolumeGrows
<1>5. PICK v \in Nat, w \in Nat, r \in Nat, q \in Nat :
        /\ v = totalVolume[e][t] /\ w = totalVolume'[e][t]
        /\ r = OrganizerBps(e) /\ q = OrganizerBps(e)'
  BY <1>1, <1>2, <1>3, Zenon
<1>6. v <= w /\ (q = r \/ r = 0)
  BY <1>3, <1>4, <1>5
<1>7. Share(v, r) \in Nat /\ Share(w, q) \in Nat /\ Share(v, r) <= Share(w, q)
  BY <1>6, PartsCompared
<1>8. QED
  BY <1>5, <1>7

\* An event that gets cancelled was not paid out before, and owes no fee.
UnpaidWhenCancelled ==
  \A e \in Events :
    status[e] # "Cancelled" /\ status'[e] = "Cancelled" =>
      /\ \A t \in Tokens : totalWithdrawn'[e][t] = 0
      /\ platformRevenue'[e] = 0 /\ settlement'[e] = None

LEMMA SpentStep ==
  ASSUME ResalePrices = {}, BooksInv, BooksInv', PaidInv, SettleInv, BalanceInv,
         LeftToCancellation, UnpaidWhenCancelled, SpentInv, [Next]_vars
  PROVE  SpentInv'
<1> SUFFICES ASSUME NEW e \in Events
             PROVE  /\ config'[e] # None /\ config'[e].cancel_ledger = None =>
                         config'[e].withdrawable_ratio_bps = None
                    /\ status'[e] = "Cancelled" =>
                         \A t \in Tokens :
                           /\ Spent(e, t)' <= Share(totalVolume'[e][t], OrganizerBps(e)')
                           /\ ~Latched(e)' /\ settlement'[e] = None => Spent(e, t)' = 0
  BY DEF SpentInv
<1>1. config[e] # None /\ config[e].cancel_ledger = None =>
        config[e].withdrawable_ratio_bps = None
  BY DEF SpentInv
<1>2. config'[e] # None /\ config'[e].cancel_ledger = None =>
        config'[e].withdrawable_ratio_bps = None
  BY <1>1, PartSetOnce
<1>3. ASSUME NEW t \in Tokens
      PROVE  /\ Share(totalVolume[e][t], OrganizerBps(e)) \in Nat
             /\ Share(totalVolume'[e][t], OrganizerBps(e)') \in Nat
             /\ Share(totalVolume[e][t], OrganizerBps(e))
                  <= Share(totalVolume'[e][t], OrganizerBps(e)')
  BY <1>1, PartGrows
<1>4. ASSUME status[e] # "Cancelled", status'[e] = "Cancelled", NEW t \in Tokens
      PROVE  Spent(e, t)' = 0
  <2>1. totalWithdrawn'[e][t] = 0 /\ platformRevenue'[e] = 0 /\ settlement'[e] = None
    BY <1>4 DEF UnpaidWhenCancelled
  <2>2. Rest(e, t)' = 0
    BY <2>1 DEF Rest, UnpaidSettlement
  <2>3. QED
    BY <2>1, <2>2 DEF Spent
<1>5. CASE status[e] # "Cancelled"
  BY <1>2, <1>3, <1>4, <1>5
<1>6. ASSUME status[e] = "Cancelled", NEW t \in Tokens
      PROVE  /\ Spent(e, t)' <= Share(totalVolume'[e][t], OrganizerBps(e)')
             /\ ~Latched(e)' /\ settlement'[e] = None => Spent(e, t)' = 0
  <2>1. /\ Spent(e, t) <= Share(totalVolume[e][t], OrganizerBps(e))
        /\ ~Latched(e) /\ settlement[e] = None => \A u \in Tokens : Spent(e, u) = 0
    BY <1>6 DEF SpentInv
  <2>2. SpendsNothing(e) \/ SpendsPart(e)
    BY <1>6, <2>1, SpendingSteps
  <2>3. CASE SpendsNothing(e)
    <3>1. Spent(e, t)' = Spent(e, t) /\ Spent(e, t) \in Int
      BY <2>3, SpentTypes DEF SpendsNothing
    <3>2. ~Latched(e)' /\ settlement'[e] = None => ~Latched(e) /\ settlement[e] = None
      <4>1. settlement[e] # None => settlement'[e] = settlement[e]
        BY SettlementSteps
      <4>2. Latched(e) => Latched(e)'
        BY ConfigEvolves DEF Latched, BooksInv, DisputeInv
      <4>3. QED
        BY <4>1, <4>2
    <3>3. QED
      BY <1>3, <2>1, <3>1, <3>2
  <2>4. CASE SpendsPart(e)
    <3>1. /\ Spent(e, t)' \in Int
          /\ Spent(e, t)' <= Share(totalVolume[e][t], OrganizerBps(e))
          /\ Latched(e)' \/ settlement'[e] # None
      BY <2>4 DEF SpendsPart
    <3>2. QED
      BY <1>3, <3>1
  <2>5. QED
    BY <2>2, <2>3, <2>4
<1>7. QED
  BY <1>2, <1>5, <1>6

\* What waits to be paid out is no debt.
LEMMA RestIsNat ==
  ASSUME BooksInv, SplitPaidExactly, NEW e \in Events, NEW t \in Tokens
  PROVE  Rest(e, t) \in Nat
<1> DEFINE paid == SumFunction(splitWithdrawn[e])
<1>1. splitWithdrawn[e] \in [Users -> Nat] /\ settlement[e] \in Nat \cup {None}
  BY DEF BooksInv, MoneyTypeOK
<1>2. paid \in Nat
  BY <1>1, FiniteAssumption, SumOfNaturals
<1>3. paid > 0 => settlement[e] # None /\ paid <= settlement[e]
  BY DEF SplitPaidExactly
<1>4. UnpaidSettlement(e) = IF settlement[e] = None THEN 0 ELSE settlement[e] - paid
  BY DEF UnpaidSettlement
<1> HIDE DEF paid
<1>5. UnpaidSettlement(e) \in Nat
  BY <1>1, <1>2, <1>3, <1>4
<1>6. platformRevenue[e] \in Nat
  BY DEF BooksInv, MoneyTypeOK
<1>7. QED
  BY <1>5, <1>6 DEF Rest

\* What the cancellation leaves of each payment of an event, and what of it its
\* payer may still claim.
Due(r, e, t) == IF Counts(r, e, t) THEN Share(r.amount, RefundRatio(e)) ELSE 0

Claimable(e, t) ==
  {j \in PaymentsOf(e, t) : /\ HasStatus(j, "Held")
                            /\ payments[j].payer # None
                            /\ CancelledRemainder(j) > 0}

LEMMA DueIsNat ==
  ASSUME BooksInv, NEW e \in Events, NEW t \in Tokens, NEW i \in PaymentIds
  PROVE  Due(payments[i], e, t) \in Nat
<1>1. CASE ~Counts(payments[i], e, t)
  BY <1>1 DEF Due
<1>2. CASE Counts(payments[i], e, t)
  <2>1. payments[i].amount \in Nat
    BY <1>2, PaymentFields DEF Counts, BooksInv, DisputeInv, RecordsTypeOK
  <2>2. RefundRatio(e) \in Nat
    BY OrganizerPart DEF BooksInv, DisputeInv
  <2>3. PICK a \in Nat, r \in Nat : a = payments[i].amount /\ r = RefundRatio(e)
    BY <2>1, <2>2, Zenon
  <2>4. Share(a, r) \in Nat
    BY FlooredShares DEF IsFloor
  <2>5. QED
    BY <1>2, <2>3, <2>4 DEF Due
<1>3. QED
  BY <1>1, <1>2

\* The parts of all payments are no more than the refundable part of all sales.
LEMMA DuesWithinVolume ==
  ASSUME BooksInv, TotalsInv, NEW e \in Events, NEW t \in Tokens
  PROVE  10000 * SumFunction([i \in PaymentIds |-> Due(payments[i], e, t)])
           <= totalVolume[e][t] * RefundRatio(e)
<1> DEFINE A == AllBrought(payments, e, t)
           S == [i \in PaymentIds |-> Due(payments[i], e, t)]
           T == [i \in PaymentIds |-> 10000 * S[i]]
           U == [i \in PaymentIds |-> RefundRatio(e) * A[i]]
<1>1. RefundRatio(e) \in Nat
  BY OrganizerPart DEF BooksInv, DisputeInv
<1>2. payments \in Records
  BY DEF BooksInv, DisputeInv, RecordsTypeOK, SaleTypeOK, Records
<1>3. ASSUME NEW i \in PaymentIds
      PROVE  /\ S[i] \in Nat /\ A[i] \in Nat
             /\ 10000 * S[i] <= RefundRatio(e) * A[i]
  <2>1. S[i] = Due(payments[i], e, t) /\ A[i] = Brought(payments[i], e, t)
    BY DEF AllBrought
  <2>2. CASE Counts(payments[i], e, t)
    <3>1. PICK a \in Nat, r \in Nat : a = payments[i].amount /\ r = RefundRatio(e)
      <4>1. payments[i].amount \in Nat
        BY <2>2, PaymentFields DEF Counts, BooksInv, DisputeInv, RecordsTypeOK
      <4>2. QED
        BY <1>1, <4>1, Zenon
    <3>2. S[i] = Share(a, r) /\ A[i] = a
      BY <2>1, <2>2, <3>1 DEF Due, Brought
    <3>3. IsFloor(Share(a, r), a, r)
      BY FlooredShares
    <3>4. Share(a, r) \in Nat /\ 10000 * Share(a, r) <= a * r /\ a * r = r * a
      BY <3>3 DEF IsFloor
    <3>5. QED
      BY <3>1, <3>2, <3>4
  <2>3. CASE ~Counts(payments[i], e, t)
    <3>1. S[i] = 0 /\ A[i] = 0
      BY <2>1, <2>3 DEF Due, Brought
    <3>2. RefundRatio(e) * 0 = 0
      BY <1>1
    <3>3. QED
      BY <3>1, <3>2
  <2>4. QED
    BY <2>2, <2>3
<1>4. totalVolume[e][t] = SumFunction(A)
  BY DEF TotalsInv
<1>5. /\ \A i \in PaymentIds : T[i] = 10000 * S[i]
      /\ \A i \in PaymentIds : U[i] = RefundRatio(e) * A[i]
  OBVIOUS
<1>6. S \in [PaymentIds -> Nat] /\ A \in [PaymentIds -> Nat]
  BY <1>3 DEF AllBrought
<1> HIDE DEF A
<1>7. T \in [PaymentIds -> Int] /\ U \in [PaymentIds -> Int]
  <2>1. \A i \in PaymentIds : 10000 * S[i] \in Int /\ RefundRatio(e) * A[i] \in Int
    BY <1>1, <1>3
  <2>2. QED
    BY <2>1
<1> HIDE DEF S, T, U
<1>8. S \in [PaymentIds -> Int] /\ A \in [PaymentIds -> Int]
  BY <1>6
<1>9. SumFunction(T) = 10000 * SumFunction(S)
  BY <1>5, <1>7, <1>8, FinitelyManyPayments, SumScaled
<1>10. SumFunction(U) = RefundRatio(e) * SumFunction(A)
  BY <1>1, <1>5, <1>7, <1>8, FinitelyManyPayments, SumScaled
<1>11. \A i \in PaymentIds : T[i] <= U[i]
  BY <1>3, <1>5
<1>12. SumFunction(T) <= SumFunction(U)
  BY <1>7, <1>11, FinitelyManyPayments, SumMonotone
<1>13. SumFunction(A) \in Int
  BY <1>8, FinitelyManyPayments, SumType
<1>14. RefundRatio(e) * SumFunction(A) = SumFunction(A) * RefundRatio(e)
  BY <1>1, <1>13
<1>15. QED
  BY <1>4, <1>9, <1>10, <1>12, <1>14 DEF S

\* What may still be claimed, and what was given back, fit in those parts, if no
\* payment got more than its own back.
LEMMA ClaimsWithinDues ==
  ASSUME BooksInv, TotalsInv, NEW e \in Events, NEW t \in Tokens,
         \A i \in PaymentsOf(e, t) :
           payments[i].refunded_amount <= Share(payments[i].amount, RefundRatio(e))
  PROVE  /\ ClaimableBy(e, t) \in Int
         /\ ClaimableBy(e, t) + totalRefunds[e][t]
              <= SumFunction([i \in PaymentIds |-> Due(payments[i], e, t)])
<1> DEFINE R == Claimable(e, t)
           F == [i \in R |-> CancelledRemainder(i)]
           C == [i \in PaymentIds |-> IF i \in R THEN CancelledRemainder(i) ELSE 0]
           G == AllGaveBack(payments, e, t)
           H == [i \in PaymentIds |-> C[i] + G[i]]
           S == [i \in PaymentIds |-> Due(payments[i], e, t)]
<1>1. payments \in Records
  BY DEF BooksInv, DisputeInv, RecordsTypeOK, SaleTypeOK, Records
<1>2. R \in SUBSET PaymentIds /\ \A i \in R : i \in PaymentsOf(e, t) /\ Counts(payments[i], e, t)
  BY DEF Claimable, PaymentsOf, Made, Counts
<1>3. \A i \in R : CancelledRemainder(i) \in Int
  BY <1>2, RefundableTypes DEF Counts, BooksInv, DisputeInv
<1>4. G \in [PaymentIds -> Int]
  BY <1>1, LedgerTypes
<1>5. S \in [PaymentIds -> Int]
  <2>1. \A i \in PaymentIds : Due(payments[i], e, t) \in Nat
    BY DueIsNat
  <2>2. QED
    BY <2>1
<1>6. F \in [R -> Int] /\ C \in [PaymentIds -> Int]
  BY <1>2, <1>3
<1>7. \A i \in PaymentIds : C[i] = IF i \in R THEN F[i] ELSE 0
  OBVIOUS
<1>8. ASSUME NEW i \in PaymentIds PROVE C[i] + G[i] <= S[i]
  <2>1. /\ C[i] = IF i \in R THEN CancelledRemainder(i) ELSE 0
        /\ G[i] = GaveBack(payments[i], e, t) /\ S[i] = Due(payments[i], e, t)
    BY DEF AllGaveBack
  <2>2. CASE ~Counts(payments[i], e, t)
    <3>1. C[i] = 0 /\ G[i] = 0 /\ S[i] = 0
      BY <1>2, <2>1, <2>2 DEF GaveBack, Due
    <3>2. QED
      BY <3>1
  <2>3. CASE Counts(payments[i], e, t)
    <3>1. i \in PaymentsOf(e, t) /\ payments[i].event = e
      BY <2>3 DEF PaymentsOf, Made, Counts
    <3>2. PICK a \in Int, g \in Int :
            a = Share(payments[i].amount, RefundRatio(e)) /\ g = payments[i].refunded_amount
      <4>1. S[i] = Share(payments[i].amount, RefundRatio(e)) /\ S[i] \in Int
        BY <1>5, <2>1, <2>3 DEF Due
      <4>2. payments[i].refunded_amount \in Int
        BY <2>3, PaymentFields DEF Counts, BooksInv, DisputeInv, RecordsTypeOK
      <4>3. QED
        BY <4>1, <4>2
    <3>3. G[i] = g /\ S[i] = a /\ g <= a /\ CancelledRemainder(i) = a - g
      BY <2>1, <2>3, <3>1, <3>2 DEF GaveBack, Due, CancelledRemainder
    <3>4. QED
      BY <2>1, <3>2, <3>3
  <2>4. QED
    BY <2>2, <2>3
<1>9. \A i \in PaymentIds : H[i] = C[i] + G[i]
  OBVIOUS
<1>10. H \in [PaymentIds -> Int]
  BY <1>4, <1>6
<1>11. totalRefunds[e][t] = SumFunction(G)
  BY DEF TotalsInv
<1>12. ClaimableBy(e, t) = SumFunction(F)
  BY DEF ClaimableBy, Claimable
<1> HIDE DEF R, F, C, G, H, S
<1>13. SumFunction(F) = SumFunction(C)
  BY <1>2, <1>6, <1>7, FinitelyManyPayments, SumPadded
<1>14. SumFunction(H) = SumFunction(C) + SumFunction(G)
  BY <1>4, <1>6, <1>9, <1>10, FinitelyManyPayments, SumAdded
<1>15. \A i \in PaymentIds : H[i] <= S[i]
  BY <1>8, <1>9
<1>16. SumFunction(H) <= SumFunction(S)
  BY <1>5, <1>10, <1>15, FinitelyManyPayments, SumMonotone
<1>17. SumFunction(C) \in Int
  BY <1>6, FinitelyManyPayments, SumType
<1>18. QED
  BY <1>11, <1>12, <1>13, <1>14, <1>16, <1>17 DEF S

\* Three floors of the same sales: the organizer's part and the attendees'
\* parts fit in what was sold.
LEMMA PartsFit ==
  ASSUME NEW V \in Nat, NEW O \in Nat, NEW P \in Nat, NEW D \in Nat,
         10000 * P <= V * O, 10000 * D <= V * (10000 - O), O <= 10000
  PROVE  P + D <= V
<1>1. V * (10000 - O) = 10000 * V - V * O
  OBVIOUS
<1>2. PICK m \in Nat : m = V * O
  OBVIOUS
<1>3. 10000 * P <= m /\ 10000 * D <= 10000 * V - m
  BY <1>1, <1>2
<1>4. QED
  BY <1>3

\* Then what remains of the sales covers every claim that is still open.
LEMMA SpentLeavesClaims ==
  ASSUME BooksInv, TotalsInv, SplitPaidExactly, SpentInv
  PROVE  AttendeeShareCovered
<1> SUFFICES ASSUME NEW e \in Events, NEW t \in Tokens, status[e] = "Cancelled",
                    \A i \in PaymentsOf(e, t) :
                      payments[i].refunded_amount <= Share(payments[i].amount, RefundRatio(e))
             PROVE  totalVolume[e][t] - totalRefunds[e][t] - totalWithdrawn[e][t]
                      >= ClaimableBy(e, t)
  BY DEF AttendeeShareCovered
<1> DEFINE S == [i \in PaymentIds |-> Due(payments[i], e, t)]
<1>0. /\ OrganizerBps(e) \in Nat /\ OrganizerBps(e) <= 10000
      /\ RefundRatio(e) = 10000 - OrganizerBps(e)
  BY OrganizerPart DEF BooksInv, DisputeInv
<1>1. PICK O \in Nat : O = OrganizerBps(e)
  <2>1. OrganizerBps(e) \in Nat
    BY <1>0
  <2>2. QED
    BY <2>1, Zenon
<1>2. PICK V \in Nat : V = totalVolume[e][t]
  BY PartIsNat, Zenon
<1>3. PICK P \in Nat : P = Share(V, O)
  <2>1. Share(V, O) \in Nat
    BY FlooredShares DEF IsFloor
  <2>2. QED
    BY <2>1, Zenon
<1>4. PICK D \in Nat : D = SumFunction(S)
  <2>1. S \in [PaymentIds -> Nat]
    <3>1. \A i \in PaymentIds : Due(payments[i], e, t) \in Nat
      BY DueIsNat
    <3>2. QED
      BY <3>1
  <2> HIDE DEF S
  <2>2. SumFunction(S) \in Nat
    BY <2>1, FinitelyManyPayments, SumOfNaturals
  <2>3. QED
    BY <2>2, Zenon
<1>5. 10000 * D <= V * (10000 - O)
  <2>1. 10000 * SumFunction(S) <= totalVolume[e][t] * RefundRatio(e)
    BY DuesWithinVolume
  <2> HIDE DEF S
  <2>2. QED
    BY <1>0, <1>1, <1>2, <1>4, <2>1
<1>6. ClaimableBy(e, t) \in Int /\ ClaimableBy(e, t) + totalRefunds[e][t] <= D
  <2>1. /\ ClaimableBy(e, t) \in Int
        /\ ClaimableBy(e, t) + totalRefunds[e][t] <= SumFunction(S)
    BY ClaimsWithinDues
  <2> HIDE DEF S
  <2>2. QED
    BY <1>4, <2>1
<1> HIDE DEF S
<1>7. P + D <= V
  <2>1. IsFloor(Share(V, O), V, O)
    BY FlooredShares
  <2>2. 10000 * P <= V * O
    BY <1>3, <2>1 DEF IsFloor
  <2>3. QED
    BY <1>0, <1>1, <1>5, <2>2, PartsFit
<1>8. Spent(e, t) <= Share(totalVolume[e][t], OrganizerBps(e))
  BY DEF SpentInv
<1>9. Spent(e, t) <= P
  BY <1>1, <1>2, <1>3, <1>8
<1>10. totalWithdrawn[e][t] <= Spent(e, t)
  <2>1. Rest(e, t) \in Nat /\ totalWithdrawn[e][t] \in Int
    BY RestIsNat, SpentTypes
  <2>2. QED
    BY <2>1 DEF Spent
<1>11. /\ totalWithdrawn[e][t] \in Int /\ totalRefunds[e][t] \in Int
       /\ Spent(e, t) \in Int
  <2>1. totalRefunds[e][t] \in Int
    BY DEF BooksInv, MoneyTypeOK
  <2>2. QED
    BY <2>1, SpentTypes
<1>12. QED
  BY <1>2, <1>6, <1>7, <1>9, <1>10, <1>11

\* Where no ticket was resold, and a cancelled event is paid out along the
\* cancellation only (cancellation_payouts and the organizer's part set by
\* cancel_event), so neither by withdraw_revenue nor by release_if_expired,
\* and was not paid out before: whatever the order of the organizer's payout and
\* of the refunds, and whatever the roundings of the shares, the books of a
\* cancelled event cover what its attendees may still claim.
THEOREM AttendeesStayCovered ==
  ASSUME ResalePrices = {}
  PROVE  Spec /\ []LeftToCancellation /\ [][UnpaidWhenCancelled]_vars
           => []AttendeeShareCovered
<1>1. Init => SpentInv
  BY NoneAssumption DEF Init, SpentInv, Statuses
<1>2. BooksInv /\ BooksInv' /\ PaidInv /\ SettleInv /\ BalanceInv /\ LeftToCancellation
        /\ SpentInv /\ [UnpaidWhenCancelled]_vars /\ [Next]_vars => SpentInv'
  <2> SUFFICES ASSUME BooksInv, BooksInv', PaidInv, SettleInv, BalanceInv,
                      LeftToCancellation, SpentInv, [UnpaidWhenCancelled]_vars, [Next]_vars
               PROVE  SpentInv'
    OBVIOUS
  <2>1. UnpaidWhenCancelled
    <3>1. UNCHANGED vars => UNCHANGED status
      BY DEF vars, eventVars
    <3>2. UNCHANGED status => UnpaidWhenCancelled
      BY DEF UnpaidWhenCancelled
    <3>3. QED
      BY <3>1, <3>2
  <2>2. QED
    BY <2>1, SpentStep
<1>3. BooksInv /\ TotalsInv /\ SplitPaidExactly /\ SpentInv => AttendeeShareCovered
  BY SpentLeavesClaims
<1>4. SalesContext => BooksInv
  BY DEF SalesContext
<1>5. QED
  BY <1>1, <1>2, <1>3, <1>4, SalesContextHolds, PaidInvariant, SettleInvariant,
     BalanceInvariant, TotalsInvariant, SharesPaidExactly, PTL DEF Spec

-----------------------------------------------------------------------------
(* Where the admin leaves payouts to the cancellation.                     *)

\* The admin sets no status, gives no escrow an end time and pays nothing out
\* by withdraw_revenue.
AdminStaysOut == AdminStatuses = {} /\ EndTimes = {} /\ AdminPaidEvents = {}

\* Then an event is never Completed nor released on time, stays cancelled once it
\* is, and is not paid out before.
UnpaidInv ==
  \A e \in Events :
    /\ status[e] # "Completed" /\ escrowMeta[e] = None
    /\ status[e] = "Cancelled" => config[e] # None /\ config[e].cancel_ledger # None
    /\ status[e] # "Cancelled" =>
         /\ \A t \in Tokens : totalWithdrawn[e][t] = 0
         /\ platformRevenue[e] = 0 /\ settlement[e] = None

\* What a step may do to the status and the escrow's metadata of an event.
StatusFate(e) ==
  /\ escrowMeta'[e] = escrowMeta[e]
  /\ \/ status'[e] = status[e]
     \/ OpenToEventContract(e) /\ status'[e] = "Postponed"
     \/ /\ OpenToEventContract(e) /\ status'[e] = "Cancelled"
        /\ config[e] # None /\ config'[e].cancel_ledger # None
     \/ status[e] = "Postponed" /\ status'[e] = "Active"

LEMMA EventContractStatus ==
  ASSUME RecordsTypeOK, NEW d \in Events, EventContractCall(d), NEW e \in Events
  PROVE  StatusFate(e)
<1>1. ASSUME UNCHANGED <<status, escrowMeta>> PROVE StatusFate(e)
  BY <1>1 DEF StatusFate
<1>2. ASSUME \/ \E terms \in SyncedTerms : SyncEventConfig(d, terms)
             \/ \E rules \in PrivacyConfigs : SyncEventPrivacy(d, rules)
             \/ \E terms \in SyncedTerms, rows \in SplitTables : SyncNewEvent(d, terms, rows)
      PROVE  StatusFate(e)
  BY <1>1, <1>2 DEF SyncEventConfig, SyncEventPrivacy, SyncNewEvent
<1>3. ASSUME OpenToEventContract(d), CancelEvent(d) PROVE StatusFate(e)
  <2>1. /\ config[d] # None /\ UNCHANGED escrowMeta
        /\ status' = [status EXCEPT ![d] = "Cancelled"]
        /\ config' = [config EXCEPT
             ![d].cancel_ledger = now,
             ![d].withdrawable_ratio_bps = CancellationRatio(config[d].terms)]
    BY <1>3 DEF CancelEvent
  <2>2. status'[e] = IF e = d THEN "Cancelled" ELSE status[e]
    BY <2>1 DEF RecordsTypeOK, EventTypeOK
  <2>3. config'[d].cancel_ledger # None
    <3>1. config[d] \in EventConfig
      BY <2>1, ConfigCounters DEF RecordsTypeOK
    <3>2. config'[d] = [config[d] EXCEPT !.cancel_ledger = now,
                          !.withdrawable_ratio_bps = CancellationRatio(config[d].terms)]
      BY <2>1 DEF RecordsTypeOK, EventTypeOK
    <3>3. now # None
      BY ConstantsAssumption DEF RecordsTypeOK, AdminTypeOK
    <3>4. QED
      BY <3>1, <3>2, <3>3 DEF EventConfig
  <2>4. QED
    BY <1>3, <2>1, <2>2, <2>3 DEF StatusFate
<1>4. ASSUME NEW x \in Deadlines, OpenToEventContract(d), PostponeEvent(d, x)
      PROVE  StatusFate(e)
  BY <1>4 DEF PostponeEvent, StatusFate, RecordsTypeOK, EventTypeOK
<1>5. ASSUME NEW terms \in SyncedTerms, SyncAndResume(d, terms) PROVE StatusFate(e)
  BY <1>5 DEF SyncAndResume, Reactivate, StatusFate, RecordsTypeOK, EventTypeOK
<1>6. QED
  BY <1>2, <1>3, <1>4, <1>5, Zenon DEF EventContractCall

LEMMA StatusFates ==
  ASSUME RecordsTypeOK, AdminStaysOut, \A d \in Events : escrowMeta[d] = None, [Next]_vars,
         NEW e \in Events
  PROVE  StatusFate(e)
<1>1. ASSUME UNCHANGED <<status, escrowMeta>> PROVE StatusFate(e)
  BY <1>1 DEF StatusFate
<1>2. CASE Tick \/ UNCHANGED vars
  BY <1>1, <1>2 DEF Tick, vars, eventVars
<1>3. ASSUME \/ \E d \in Events, s \in AdminStatuses : SetEventStatus(d, s)
             \/ \E d \in Events, u \in Users, end \in EndTimes : SetEventEndTime(d, u, end)
      PROVE  FALSE
  BY <1>3 DEF AdminStaysOut
<1>4. ASSUME \/ \E d \in Events, n \in DelayExtensions : ExtendWithdrawalDelay(d, n)
             \/ \E bps \in FeeRates : SetPlatformFee(bps)
             \/ \E s \in PauseSwitch : SetPaused(s)
             \/ \E t \in Tokens : AddSupportedToken(t)
      PROVE  StatusFate(e)
  BY <1>1, <1>4 DEF ExtendWithdrawalDelay, SetPlatformFee, SetPaused, AddSupportedToken, eventVars
<1>5. ASSUME NEW i \in PaymentIds, RefundCall(i) PROVE StatusFate(e)
  <2>1. PICK amount \in Int, s \in {"Held", "Refunded"} : RefundOf(i, amount, s)
    BY <1>5, RefundCalls
  <2>2. QED
    BY <1>1, <2>1 DEF RefundOf, RefundFrame, eventVars
<1>6. ASSUME NEW i \in PaymentIds,
             \/ ApproveRefund(i) \/ RejectDispute(i) \/ RaiseDispute(i) \/ ResaleCall(i)
             \/ \E c \in EmailCommitments : BindEmailCommitment(i, c)
             \/ \E u \in Users : BuyResaleTicket(i, u)
      PROVE  StatusFate(e)
  BY <1>1, <1>6, ZenonT(30) DEF ApproveRefund, RejectDispute, RaiseDispute, ResaleCall,
       ListTicketForResale, DelistTicket, BindEmailCommitment, BuyResaleTicket, eventVars
<1>7. ASSUME NEW p \in PaymentParams, CreatePayment(p) PROVE StatusFate(e)
  BY <1>1, <1>7 DEF CreatePayment
<1>8. ASSUME NEW d \in Events, EscrowCall(d) PROVE StatusFate(e)
  <2>1. ~ReleaseIfExpired(d)
    BY <1>8 DEF ReleaseIfExpired
  <2>2. UNCHANGED <<status, escrowMeta>>
    BY <1>8, <2>1, Zenon DEF EscrowCall, ProcessDisputeTimeouts, Withdraw, WithdrawRevenue,
       WithdrawToken, WithdrawAllTokens, WithdrawPlatformRevenue, PayoutFrame, eventVars
  <2>3. QED
    BY <1>1, <2>2
<1>9. ASSUME NEW d \in Events, NEW u \in Users, SplitCall(d, u) PROVE StatusFate(e)
  BY <1>1, <1>9 DEF SplitCall, WithdrawSplit, ReassignFlaggedShare, FlagCohost,
                    ReleaseFlaggedShare, PayoutFrame, eventVars
<1>10. CASE AdminCall
  BY <1>3, <1>4, <1>5, <1>6, <1>8, <1>9, <1>10, ConstantsAssumption, Zenon
     DEF AdminCall, RefundCall, EscrowCall, SplitCall
<1>11. CASE AttendeeCall
  BY <1>5, <1>6, <1>7, <1>11, EntryPoints, Zenon DEF AttendeeCall, RefundCall, ResaleCall
<1>12. CASE PayoutCall
  BY <1>8, <1>9, <1>12, Zenon DEF PayoutCall, EscrowCall, SplitCall
<1>13. QED
  BY <1>2, <1>10, <1>11, <1>12, EventContractStatus DEF Next

\* No call pays an event out before its cancellation.
LEMMA NothingBeforeCancellation ==
  ASSUME BooksInv, BalanceInv, ResalePrices = {}, AdminStaysOut, UnpaidInv, [Next]_vars,
         NEW e \in Events, status[e] # "Cancelled"
  PROVE  NotPaidOut(e)
<1>1. /\ platformRevenue[e] = 0 /\ settlement[e] = None /\ escrowMeta[e] = None
      /\ status[e] # "Completed"
  BY DEF UnpaidInv
<1>2. ~PayoutUnlocked(e)
  BY <1>1 DEF PayoutUnlocked
<1>3. ASSUME UNCHANGED <<totalWithdrawn, platformRevenue, settlement, splitWithdrawn>>
      PROVE  NotPaidOut(e)
  BY <1>3 DEF NotPaidOut
<1>4. CASE Quiet
  BY <1>3, <1>4 DEF Quiet, bookVars
<1>5. ASSUME NEW p \in PaymentParams, CreatePayment(p) PROVE NotPaidOut(e)
  BY <1>3, <1>5 DEF CreatePayment, splitVars
<1>6. ASSUME NEW i \in PaymentIds,
             \/ \E c \in EmailCommitments : BindEmailCommitment(i, c)
             \/ RaiseDispute(i) \/ RejectDispute(i) \/ ApproveRefund(i)
             \/ ResaleCall(i)
      PROVE  NotPaidOut(e)
  <2>1. UNCHANGED <<totalWithdrawn, platformRevenue, settlement, splitWithdrawn>>
    BY <1>6, Zenon DEF BindEmailCommitment, RaiseDispute, RejectDispute, ApproveRefund,
                       BookRefund, ResaleCall, ListTicketForResale, DelistTicket, bookVars,
                       splitVars
  <2>2. QED
    BY <1>3, <2>1
<1>7. ASSUME NEW i \in PaymentIds, RefundCall(i) PROVE NotPaidOut(e)
  <2>1. PICK amount \in Int, s \in {"Held", "Refunded"} : RefundOf(i, amount, s)
    BY <1>7, RefundCalls DEF BooksInv, DisputeInv
  <2>2. UNCHANGED <<totalWithdrawn, platformRevenue, settlement, splitWithdrawn>>
    BY <2>1 DEF RefundOf, RefundFromRevenue, BookRefund, RefundFrame, splitVars
  <2>3. QED
    BY <1>3, <2>2
<1>8. ASSUME NEW i \in PaymentIds, NEW u \in Users, BuyResaleTicket(i, u) PROVE FALSE
  BY <1>8 DEF BuyResaleTicket, BalanceInv
<1>9. ASSUME NEW d \in Events, EscrowCall(d) PROVE NotPaidOut(e)
  <2>1. CASE d # e
    BY <1>9, <2>1, OthersNotPaid
  <2>2. CASE d = e
    <3>1. CASE ProcessDisputeTimeouts(e)
      BY <1>3, <3>1 DEF ProcessDisputeTimeouts, splitVars
    <3>2. ~Withdraw(e)
      BY <1>2 DEF Withdraw
    <3>3. ~(e \in AdminPaidEvents /\ WithdrawRevenue(e))
      BY DEF AdminStaysOut
    <3>4. /\ \A t \in Tokens : ~WithdrawToken(e, t)
          /\ ~WithdrawAllTokens(e) /\ ~ReleaseIfExpired(e)
      BY <1>1 DEF WithdrawToken, WithdrawAllTokens, ReleaseIfExpired
    <3>5. ~WithdrawPlatformRevenue(e)
      BY <1>1 DEF WithdrawPlatformRevenue
    <3>6. QED
      BY <1>9, <2>2, <3>1, <3>2, <3>3, <3>4, <3>5 DEF EscrowCall
  <2>3. QED
    BY <2>1, <2>2
<1>10. ASSUME NEW d \in Events, NEW u \in Users, SplitCall(d, u) PROVE NotPaidOut(e)
  <2>1. CASE d # e
    BY <1>10, <2>1, OthersNotPaid
  <2>2. CASE d = e
    <3>1. ~SharePaid(e, u)
      BY <1>1, <1>2 DEF SharePaid, EnsureSplitSettled, SettleSplit
    <3>2. UNCHANGED <<bookVars, settlement, splitWithdrawn>>
      BY <1>10, <2>2, <3>1, SplitCalls
    <3>3. QED
      BY <1>3, <3>2 DEF bookVars
  <2>3. QED
    BY <2>1, <2>2
<1>11. QED
  BY <1>4, <1>5, <1>6, <1>7, <1>8, <1>9, <1>10, StepKinds

LEMMA UnpaidStep ==
  ASSUME BooksInv, BalanceInv, ResalePrices = {}, AdminStaysOut, UnpaidInv, [Next]_vars
  PROVE  UnpaidInv' /\ UnpaidWhenCancelled
<1>1. ASSUME NEW e \in Events
      PROVE  /\ status'[e] # "Completed" /\ escrowMeta'[e] = None
             /\ status'[e] = "Cancelled" => config'[e] # None /\ config'[e].cancel_ledger # None
             /\ status[e] = "Cancelled" => status'[e] = "Cancelled"
  <2>1. StatusFate(e)
    BY StatusFates DEF UnpaidInv, BooksInv, DisputeInv
  <2>2. /\ config[e] # None => config'[e] # None
        /\ config[e] # None /\ config[e].cancel_ledger # None =>
             config'[e].cancel_ledger = config[e].cancel_ledger
    BY ConfigEvolves DEF BooksInv, DisputeInv
  <2>3. /\ status[e] # "Completed" /\ escrowMeta[e] = None
        /\ status[e] = "Cancelled" => config[e] # None /\ config[e].cancel_ledger # None
    BY DEF UnpaidInv
  <2>4. status[e] = "Cancelled" => ~OpenToEventContract(e)
    BY <2>3 DEF OpenToEventContract
  <2>5. QED
    BY <2>1, <2>2, <2>3, <2>4 DEF StatusFate
<1>2. ASSUME NEW e \in Events, status[e] # "Cancelled"
      PROVE  /\ \A t \in Tokens : totalWithdrawn'[e][t] = 0
             /\ platformRevenue'[e] = 0 /\ settlement'[e] = None
  <2>1. NotPaidOut(e)
    BY <1>2, NothingBeforeCancellation
  <2>2. QED
    BY <1>2, <2>1 DEF UnpaidInv, NotPaidOut
<1>3. UnpaidInv'
  BY <1>1, <1>2 DEF UnpaidInv
<1>4. UnpaidWhenCancelled
  BY <1>2 DEF UnpaidWhenCancelled
<1>5. QED
  BY <1>3, <1>4

\* As long as the admin leaves payouts to the organizer and their cancellation,
\* and nothing is resold, a cancelled event covers its attendees, with no
\* further condition on what happens: neither status nor deadline lets withdraw,
\* withdraw_token or withdraw_split pay before the cancellation.
THEOREM CancellationsStayCovered ==
  ASSUME ResalePrices = {}, AdminStaysOut
  PROVE  Spec => []AttendeeShareCovered
<1>1. Init => UnpaidInv
  BY NoneAssumption DEF Init, UnpaidInv, Statuses
<1>2. BooksInv /\ BalanceInv /\ UnpaidInv /\ [Next]_vars => UnpaidInv' /\ UnpaidWhenCancelled
  BY UnpaidStep
<1>3. BooksInv /\ BalanceInv /\ UnpaidInv /\ [Next]_vars => [UnpaidWhenCancelled]_vars
  BY <1>2
<1>4. UnpaidInv => LeftToCancellation
  BY DEF UnpaidInv, LeftToCancellation, AdminStaysOut
<1>5. SalesContext => BooksInv
  BY DEF SalesContext
<1>6. QED
  BY <1>1, <1>2, <1>3, <1>4, <1>5, SalesContextHolds, BalanceInvariant, AttendeesStayCovered,
     PTL DEF Spec
=============================================================================
