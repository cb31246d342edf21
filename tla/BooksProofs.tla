------------------------------ MODULE BooksProofs ------------------------------
(***************************************************************************)
(* The running totals, the revenue counters and the balance of the         *)
(* payments contract after any history of calls: what a call may do to     *)
(* them, and what their sums over payments and events come to.             *)
(***************************************************************************)
EXTENDS PaymentsProofs, Sums

-----------------------------------------------------------------------------
(* The kinds of calls.                                                     *)

\* A call that concerns neither a purchase nor money.
Quiet == UNCHANGED <<saleVars, payments, ticketVars, disputeVars, bookVars,
                     settlement, splitWithdrawn, splitFlagged>>

\* The calls about one payment, and those about the escrow of one event.
RefundCall(i) ==
  \/ \E asked \in RefundAmounts : AdminRefund(i, asked)
  \/ ClaimRefund(i) \/ RequestPostponementRefund(i)

ResaleCall(i) ==
  \/ \E price \in ResalePrices : ListTicketForResale(i, price)
  \/ DelistTicket(i)

EscrowCall(e) ==
  \/ ProcessDisputeTimeouts(e)
  \/ Withdraw(e) \/ (e \in AdminPaidEvents /\ WithdrawRevenue(e))
  \/ (\E t \in Tokens : WithdrawToken(e, t)) \/ WithdrawAllTokens(e)
  \/ ReleaseIfExpired(e) \/ WithdrawPlatformRevenue(e)

SplitCall(e, u) ==
  \/ WithdrawSplit(e, u) \/ ReassignFlaggedShare(e, u)
  \/ FlagCohost(e, u) \/ ReleaseFlaggedShare(e, u)

LEMMA AdministrationIsFramed ==
  /\ \A e \in Events : EventContractCall(e) => AdministrationFrame
  /\ \A e \in Events, s \in AdminStatuses : SetEventStatus(e, s) => AdministrationFrame
  /\ \A e \in Events, u \in Users, end \in EndTimes :
       SetEventEndTime(e, u, end) => AdministrationFrame
  /\ \A e \in Events, d \in DelayExtensions :
       ExtendWithdrawalDelay(e, d) => AdministrationFrame
  /\ \A bps \in FeeRates : SetPlatformFee(bps) => AdministrationFrame
  /\ \A p \in PauseSwitch : SetPaused(p) => AdministrationFrame
  /\ \A t \in Tokens : AddSupportedToken(t) => AdministrationFrame
BY Zenon
   DEF EventContractCall, SyncEventConfig, SyncEventPrivacy, SyncNewEvent, CancelEvent,
       PostponeEvent, SyncAndResume, SetEventStatus, SetEventEndTime,
       ExtendWithdrawalDelay, SetPlatformFee, SetPaused, AddSupportedToken

\* Every step is quiet or is one of these calls.
LEMMA StepKinds ==
  ASSUME [Next]_vars
  PROVE  \/ Quiet
         \/ \E p \in PaymentParams : CreatePayment(p)
         \/ \E i \in PaymentIds :
              \/ \E c \in EmailCommitments : BindEmailCommitment(i, c)
              \/ RefundCall(i) \/ ApproveRefund(i)
              \/ RaiseDispute(i) \/ RejectDispute(i)
              \/ ResaleCall(i) \/ \E u \in Users : BuyResaleTicket(i, u)
         \/ \E e \in Events : EscrowCall(e)
         \/ \E e \in Events, u \in Users : SplitCall(e, u)
<1>1. AdministrationFrame => Quiet
  BY DEF AdministrationFrame, Quiet
<1>2. CASE Tick
  BY <1>2 DEF Tick, Quiet, splitVars
<1>3. ASSUME NEW e \in Events, EventContractCall(e) PROVE Quiet
  BY <1>1, <1>3, AdministrationIsFramed
<1>4. CASE AdminCall
  BY <1>1, <1>4, AdministrationIsFramed, ConstantsAssumption, Zenon
     DEF AdminCall, RefundCall, EscrowCall, SplitCall
<1>5. CASE AttendeeCall
  BY <1>5, EntryPoints, Zenon DEF AttendeeCall, RefundCall, ResaleCall
<1>6. CASE PayoutCall
  BY <1>6, Zenon DEF PayoutCall, EscrowCall, SplitCall
<1>7. CASE UNCHANGED vars
  BY <1>7 DEF vars, Quiet, splitVars
<1>8. QED
  BY <1>2, <1>3, <1>4, <1>5, <1>6, <1>7 DEF Next

-----------------------------------------------------------------------------
(* The amounts a call moves.                                               *)

LEMMA FinitelyManyPayments == IsFiniteSet(PaymentIds)
BY ConstantsAssumption, FS_Interval DEF PaymentIds

\* The sum of the amounts of payments is a natural number.
LEMMA AmountsAddUp ==
  ASSUME SaleTypeOK, NEW T \in SUBSET PaymentIds, \A i \in T : payments[i] # None
  PROVE  /\ SumFunction([i \in T |-> payments[i].amount]) \in Nat
         /\ \A i \in T : payments[i].amount <= SumFunction([j \in T |-> payments[j].amount])
<1> DEFINE F == [i \in T |-> payments[i].amount]
<1>1. F \in [T -> Nat]
  BY PaymentFields
<1>2. IsFiniteSet(T)
  BY FinitelyManyPayments, FS_Subset
<1>3. \A i \in T : F[i] = payments[i].amount
  OBVIOUS
<1> HIDE DEF F
<1>4. SumFunction(F) \in Nat /\ \A i \in T : F[i] <= SumFunction(F)
  BY <1>1, <1>2, SumOfNaturals
<1>5. QED
  BY <1>3, <1>4 DEF F

\* What the books hold, once the records are typed and the disputes agree.
BooksInv == DisputeInv /\ MoneyTypeOK

\* Releasing the disputes that timed out restores revenue.
LEMMA RestoredRevenue ==
  ASSUME BooksInv, NEW e \in Events, NEW t \in Tokens
  PROVE  /\ RevenueAfterTimeouts(e, t) \in Int
         /\ tokenRevenue[e][t] <= RevenueAfterTimeouts(e, t)
<1> DEFINE T == {j \in Reinstated(e) : payments[j].token = t}
<1>1. T \in SUBSET PaymentIds /\ \A i \in T : payments[i] # None
  BY DEF Reinstated, TimedOut, HasStatus, BooksInv, DisputeInv, RecordsTypeOK, DisputeTypeOK
<1>2. SumFunction([i \in T |-> payments[i].amount]) \in Nat
  BY <1>1, AmountsAddUp DEF BooksInv, DisputeInv, RecordsTypeOK
<1>3. tokenRevenue[e][t] \in Int
  BY DEF BooksInv, MoneyTypeOK
<1>4. QED
  BY <1>2, <1>3 DEF RevenueAfterTimeouts

\* A share of any integer is an integer.
LEMMA ShareIsInt == ASSUME NEW a \in Int, NEW r \in Bps PROVE Share(a, r) \in Int
<1>1. a * r \in Int
  BY DEF Bps
<1>2. QED
  BY <1>1 DEF Share

\* The platform's fee on what is paid out is part of it.
LEMMA FeeBounds ==
  ASSUME BooksInv, NEW total \in Int, total > 0
  PROVE  /\ Share(total, platformFeeBps) \in Nat
         /\ total - Share(total, platformFeeBps) \in Nat
<1>1. platformFeeBps \in Bps /\ total \in Nat
  BY DEF BooksInv, DisputeInv, RecordsTypeOK, AdminTypeOK
<1>2. Share(total, platformFeeBps) \in Nat /\ Share(total, platformFeeBps) <= total
  BY <1>1, ShareBounds
<1>3. QED
  BY <1>2

\* What a settlement may distribute is an integer.
LEMMA SettledTotals ==
  ASSUME BooksInv, NEW e \in Events, config[e] # None, PayoutUnlocked(e)
  PROVE  TotalToWithdraw(e) \in Int
<1>1. CASE status[e] = "Cancelled"
  <2> DEFINE T == {j \in OpenDisputes(e) : payments[j].token = AcceptedToken}
  <2>1. T \in SUBSET PaymentIds /\ \A i \in T : payments[i] # None
    BY DEF OpenDisputes, HasStatus, BooksInv, DisputeInv, DisputesConsistent, RecordsTypeOK,
           DisputeTypeOK
  <2>2. SumFunction([i \in T |-> payments[i].amount]) \in Int
    BY <2>1, AmountsAddUp DEF BooksInv, DisputeInv, RecordsTypeOK
  <2>3. totalVolume[e][AcceptedToken] \in Int
    BY ConstantsAssumption DEF BooksInv, MoneyTypeOK
  <2>4. config[e].withdrawable_ratio_bps \in Bps
    <3>1. config[e] \in EventConfig
      BY ConfigCounters DEF BooksInv, DisputeInv, RecordsTypeOK
    <3>2. config[e].withdrawable_ratio_bps # None
      BY <1>1 DEF PayoutUnlocked
    <3>3. QED
      BY <3>1, <3>2 DEF EventConfig
  <2>5. totalVolume[e][AcceptedToken] - SumFunction([i \in T |-> payments[i].amount]) \in Int
    BY <2>2, <2>3
  <2>6. CancellationOrganizerPool(e, AcceptedToken) \in Int
    BY <2>4, <2>5, ShareIsInt DEF CancellationOrganizerPool
  <2>7. QED
    BY <1>1, <2>6 DEF TotalToWithdraw
<1>2. CASE status[e] # "Cancelled"
  BY <1>2, RestoredRevenue, ConstantsAssumption DEF TotalToWithdraw
<1>3. QED
  BY <1>1, <1>2

\* Of a net settlement, every recipient's share is an integer.
LEMMA SharesAreIntegers ==
  ASSUME BooksInv, NEW e \in Events, NEW u \in Recipients(e), NEW net \in Int
  PROVE  RecipientShare(e, u, net) \in Int
<1>1. splits[e] \in Seq(SplitRow)
  BY DEF BooksInv, DisputeInv, RecordsTypeOK, SplitTypeOK
<1>2. \A k \in DOMAIN splits[e] : Share(net, splits[e][k].basis_points) \in Int
  <2> SUFFICES ASSUME NEW k \in DOMAIN splits[e]
               PROVE  Share(net, splits[e][k].basis_points) \in Int
    OBVIOUS
  <2> DEFINE bp == splits[e][k].basis_points
  <2>1. bp \in Nat
    <3>1. splits[e][k] \in SplitRow
      BY <1>1, ElementOfSeq
    <3>2. QED
      BY <3>1 DEF SplitRow
  <2> HIDE DEF bp
  <2>2. net * bp \in Int
    BY <2>1
  <2>3. (net * bp) \div 10000 \in Int
    BY <2>2
  <2>4. QED
    BY <2>3 DEF Share, bp
<1>3. CASE u = Primary(e)
  <2> DEFINE K == 2..Len(splits[e])
             F == [k \in K |-> Share(net, splits[e][k].basis_points)]
  <2>1. K \subseteq DOMAIN splits[e] /\ IsFiniteSet(K)
    <3>1. DOMAIN splits[e] = 1..Len(splits[e]) /\ Len(splits[e]) \in Nat
      BY <1>1
    <3>2. QED
      BY <3>1, FS_Interval
  <2>2. F \in [K -> Int]
    BY <1>2, <2>1
  <2>3. RecipientShare(e, u, net) = net - SumFunction(F)
    BY <1>3 DEF RecipientShare
  <2> HIDE DEF F, K
  <2>4. SumFunction(F) \in Int
    BY <2>1, <2>2, SumType
  <2>5. QED
    BY <2>3, <2>4
<1>4. CASE u # Primary(e)
  <2> DEFINE k == CHOOSE j \in DOMAIN splits[e] : splits[e][j].recipient = u
  <2>1. k \in DOMAIN splits[e]
    BY DEF Recipients
  <2>2. RecipientShare(e, u, net) = Share(net, splits[e][k].basis_points)
    BY <1>4 DEF RecipientShare
  <2> HIDE DEF k
  <2>3. QED
    BY <1>2, <2>1, <2>2
<1>5. QED
  BY <1>3, <1>4

-----------------------------------------------------------------------------
(* Types of the money.                                                     *)

\* One entry of a table of events and tokens grows.
LEMMA TableTypes ==
  ASSUME NEW f, NEW e \in Events, NEW t \in Tokens, NEW amount
  PROVE  /\ f \in [Events -> [Tokens -> Nat]] /\ amount \in Nat =>
              [f EXCEPT ![e][t] = @ + amount] \in [Events -> [Tokens -> Nat]]
         /\ f \in [Events -> [Tokens -> Int]] /\ amount \in Int =>
              /\ [f EXCEPT ![e][t] = @ + amount] \in [Events -> [Tokens -> Int]]
              /\ [f EXCEPT ![e][t] = @ - amount] \in [Events -> [Tokens -> Int]]
OBVIOUS

LEMMA SendOutTypes ==
  ASSUME balance \in [Tokens -> Nat], NEW t \in Tokens, NEW amount \in Int,
         SendOut(t, amount)
  PROVE  amount \in Nat /\ balance' \in [Tokens -> Nat]
<1>1. amount \in Nat /\ balance[t] \in Nat /\ amount <= balance[t]
  BY DEF SendOut
<1>2. balance[t] - amount \in Nat
  BY <1>1
<1>3. QED
  BY <1>1, <1>2 DEF SendOut

\* Money that goes out is booked, and both books stay counts of money.
LEMMA WithdrawalTypes ==
  ASSUME MoneyTypeOK, NEW e \in Events, NEW t \in Tokens, NEW amount \in Int,
         BookWithdrawal(e, t, amount)
  PROVE  /\ amount \in Nat
         /\ balance' \in [Tokens -> Nat]
         /\ totalWithdrawn' \in [Events -> [Tokens -> Nat]]
<1>1. amount \in Nat /\ balance' \in [Tokens -> Nat]
  BY SendOutTypes DEF MoneyTypeOK, BookWithdrawal
<1>2. QED
  BY <1>1, TableTypes DEF MoneyTypeOK, BookWithdrawal

LEMMA RefundBookTypes ==
  ASSUME BooksInv, NEW i \in PaymentIds, payments[i] # None, NEW amount \in Int,
         BookRefund(i, amount)
  PROVE  /\ amount \in Nat
         /\ balance' \in [Tokens -> Nat]
         /\ totalRefunds' \in [Events -> [Tokens -> Nat]]
         /\ UNCHANGED <<totalVolume, totalWithdrawn, eventTokens, platformRevenue>>
<1>1. payments[i].event \in Events /\ payments[i].token \in Tokens
  BY PaymentFields DEF BooksInv, DisputeInv, RecordsTypeOK
<1>2. amount \in Nat /\ balance' \in [Tokens -> Nat]
  BY <1>1, SendOutTypes DEF BooksInv, MoneyTypeOK, BookRefund
<1>3. QED
  BY <1>1, <1>2, TableTypes DEF BooksInv, MoneyTypeOK, BookRefund

LEMMA RevenueRewritten ==
  ASSUME BooksInv, NEW e \in Events, NEW paid, NEW left \in Int, SetRevenue(e, paid, left)
  PROVE  tokenRevenue' \in [Events -> [Tokens -> Int]]
<1>1. \A t \in Tokens : RevenueAfterTimeouts(e, t) \in Int
  BY RestoredRevenue
<1>2. [t \in Tokens |-> IF t \in paid THEN left ELSE RevenueAfterTimeouts(e, t)]
        \in [Tokens -> Int]
  BY <1>1
<1>3. QED
  BY <1>2 DEF SetRevenue, BooksInv, MoneyTypeOK

\* What a settlement leaves of the revenue.
LEMMA LeftIsInt ==
  ASSUME BooksInv, NEW e \in Events, NEW total \in Int
  PROVE  RevenueLeft(e, total) \in Int
<1>1. RevenueAfterTimeouts(e, AcceptedToken) \in Int
  BY RestoredRevenue, ConstantsAssumption
<1>2. QED
  BY <1>1 DEF RevenueLeft

LEMMA MoneyUntouched ==
  MoneyTypeOK /\ UNCHANGED <<bookVars, settlement, splitWithdrawn>> => MoneyTypeOK'
BY DEF MoneyTypeOK, bookVars

LEMMA PurchaseMoney ==
  ASSUME BooksInv, NEW p \in PaymentParams, CreatePayment(p)
  PROVE  MoneyTypeOK'
<1> DEFINE e == p.event
           t == p.token
           a == p.amount
<1>1. e \in Events /\ t \in Tokens /\ a \in Nat
  BY RequestTypes
<1>2. /\ balance' = [balance EXCEPT ![t] = @ + a]
      /\ tokenRevenue' = [tokenRevenue EXCEPT ![e][t] = @ + a]
      /\ totalVolume' = [totalVolume EXCEPT ![e][t] = @ + a]
      /\ eventTokens' = [eventTokens EXCEPT ![e] = @ \cup {t}]
      /\ UNCHANGED <<totalRefunds, totalWithdrawn, platformRevenue, settlement, splitWithdrawn>>
  BY DEF CreatePayment, splitVars
<1> HIDE DEF e, t, a
<1>3. /\ tokenRevenue' \in [Events -> [Tokens -> Int]]
      /\ totalVolume' \in [Events -> [Tokens -> Nat]]
  BY <1>1, <1>2, TableTypes DEF BooksInv, MoneyTypeOK
<1>4. balance' \in [Tokens -> Nat] /\ eventTokens' \in [Events -> SUBSET Tokens]
  BY <1>1, <1>2 DEF BooksInv, MoneyTypeOK
<1>5. QED
  BY <1>2, <1>3, <1>4 DEF BooksInv, MoneyTypeOK

\* Refunds of every kind, whether the amount still counts as revenue or not.
LEMMA RefundMoney ==
  ASSUME BooksInv, NEW i \in PaymentIds, payments[i] # None, NEW amount \in Int,
         UNCHANGED splitVars
  PROVE  /\ RefundFromRevenue(i, amount) => MoneyTypeOK'
         /\ BookRefund(i, amount) /\ UNCHANGED tokenRevenue => MoneyTypeOK'
<1>1. payments[i].event \in Events /\ payments[i].token \in Tokens
  BY PaymentFields DEF BooksInv, DisputeInv, RecordsTypeOK
<1>2. ASSUME BookRefund(i, amount), tokenRevenue' \in [Events -> [Tokens -> Int]]
      PROVE  MoneyTypeOK'
  BY <1>2, RefundBookTypes DEF BooksInv, MoneyTypeOK, splitVars
<1>3. ASSUME RefundFromRevenue(i, amount) PROVE MoneyTypeOK'
  <2>1. tokenRevenue' \in [Events -> [Tokens -> Int]]
    BY <1>1, <1>3, TableTypes DEF RefundFromRevenue, BooksInv, MoneyTypeOK
  <2>2. QED
    BY <1>2, <1>3, <2>1 DEF RefundFromRevenue
<1>4. ASSUME BookRefund(i, amount), UNCHANGED tokenRevenue PROVE MoneyTypeOK'
  <2>1. tokenRevenue' \in [Events -> [Tokens -> Int]]
    BY <1>4 DEF BooksInv, MoneyTypeOK
  <2>2. QED
    BY <1>2, <1>4, <2>1
<1>5. QED
  BY <1>3, <1>4

-----------------------------------------------------------------------------
(* What the calls about money have in common.                              *)

\* A refund that is no ruling: an integer amount of a payment that is Held.
RefundOf(i, amount, s) ==
  /\ HasStatus(i, "Held")
  /\ Refunded(i, amount, s)
  /\ RefundFromRevenue(i, amount)
  /\ RefundFrame

LEMMA RefundCalls ==
  ASSUME RecordsTypeOK, NEW i \in PaymentIds, RefundCall(i)
  PROVE  \E amount \in Int, s \in {"Held", "Refunded"} : RefundOf(i, amount, s)
<1>1. ASSUME NEW asked \in RefundAmounts, AdminRefund(i, asked)
      PROVE  \E amount \in Int, s \in {"Held", "Refunded"} : RefundOf(i, amount, s)
  <2> DEFINE max == IF status[payments[i].event] = "Cancelled" THEN CancelledRemainder(i)
                    ELSE payments[i].amount - payments[i].refunded_amount
             amount == IF asked = None THEN max ELSE asked
             s == IF payments[i].refunded_amount + amount = payments[i].amount
                  THEN "Refunded" ELSE "Held"
  <2>1. RefundOf(i, amount, s)
    BY <1>1 DEF AdminRefund, RefundOf
  <2>2. amount \in Int
    BY <2>1, RefundAmountTypes DEF RefundOf, HasStatus
  <2>3. s \in {"Held", "Refunded"}
    OBVIOUS
  <2> HIDE DEF amount, s
  <2>4. QED
    BY <2>1, <2>2, <2>3
<1>2. ASSUME ClaimRefund(i)
      PROVE  \E amount \in Int, s \in {"Held", "Refunded"} : RefundOf(i, amount, s)
  <2>1. RefundOf(i, CancelledRemainder(i), "Refunded")
    BY <1>2 DEF ClaimRefund, RefundOf
  <2>2. CancelledRemainder(i) \in Int
    BY <2>1, RefundableTypes DEF RefundOf, HasStatus
  <2>3. QED
    BY <2>1, <2>2
<1>3. ASSUME RequestPostponementRefund(i)
      PROVE  \E amount \in Int, s \in {"Held", "Refunded"} : RefundOf(i, amount, s)
  <2> DEFINE amount == payments[i].amount - payments[i].refunded_amount
  <2>1. RefundOf(i, amount, "Refunded")
    BY <1>3 DEF RequestPostponementRefund, RefundOf
  <2>2. amount \in Int
    BY <2>1, RefundAmountTypes DEF RefundOf, HasStatus
  <2> HIDE DEF amount
  <2>3. QED
    BY <2>1, <2>2
<1>4. QED
  BY <1>1, <1>2, <1>3 DEF RefundCall

\* Only a cancellation at or after the end gives the organizer everything.
LateCancellation(e) ==
  /\ status[e] = "Cancelled"
  /\ config[e] # None /\ config[e].withdrawable_ratio_bps = 10000

\* A payout of `total` in one token, fee included, that leaves `left` revenue:
\* what it leaves is what it does not pay, unless a late cancellation zeroes
\* the revenue whatever the pool came to.
PaidOut(e, t, total, fee, left) ==
  /\ status[e] # "Postponed"
  /\ fee # 0 => t = AcceptedToken
  /\ left = RevenueAfterTimeouts(e, t) - total \/ LateCancellation(e)
  /\ ReleaseTimedOut(e)
  /\ BookWithdrawal(e, t, total - fee)
  /\ AccruePlatformFee(e, fee)
  /\ SetRevenue(e, {t}, left)
  /\ UNCHANGED <<totalVolume, totalRefunds, eventTokens, splitVars>>

Drained(e) ==
  /\ status[e] # "Postponed"
  /\ ReleaseTimedOut(e)
  /\ DrainAllTokens(e)
  /\ UNCHANGED <<totalVolume, totalRefunds, eventTokens, platformRevenue, splitVars>>

\* The revenue a settlement leaves, and who may ask for one.
LEMMA SettlementLeaves ==
  ASSUME BooksInv, NEW e \in Events, config[e] # None, PayoutUnlocked(e), NEW total,
         total = TotalToWithdraw(e)
  PROVE  /\ status[e] # "Postponed"
         /\ \/ RevenueLeft(e, total) = RevenueAfterTimeouts(e, AcceptedToken) - total
            \/ LateCancellation(e)
<1>1. RevenueAfterTimeouts(e, AcceptedToken) \in Int
  BY RestoredRevenue, ConstantsAssumption
<1>2. CASE status[e] = "Cancelled"
  BY <1>2 DEF RevenueLeft, WithdrawableRatio, LateCancellation
<1>3. CASE status[e] # "Cancelled"
  <2>1. total = RevenueAfterTimeouts(e, AcceptedToken) /\ RevenueLeft(e, total) = 0
    BY <1>3 DEF TotalToWithdraw, RevenueLeft, WithdrawableRatio
  <2>2. status[e] # "Postponed"
    BY <1>3 DEF PayoutUnlocked
  <2>3. QED
    BY <1>1, <2>1, <2>2
<1>4. QED
  BY <1>2, <1>3

LEMMA EscrowCalls ==
  ASSUME BooksInv, NEW e \in Events, EscrowCall(e)
  PROVE  \/ ProcessDisputeTimeouts(e)
         \/ \E t \in Tokens, total \in Int, fee \in Nat, left \in Int :
              PaidOut(e, t, total, fee, left)
         \/ Drained(e)
         \/ WithdrawPlatformRevenue(e)
<1> USE ConstantsAssumption
<1>1. ASSUME Withdraw(e)
      PROVE  \E t \in Tokens, total \in Int, fee \in Nat, left \in Int :
               PaidOut(e, t, total, fee, left)
  <2> DEFINE total == TotalToWithdraw(e)
             fee == Share(total, platformFeeBps)
             left == RevenueLeft(e, total)
  <2>1. config[e] # None /\ PayoutUnlocked(e) /\ total > 0
    BY <1>1 DEF Withdraw
  <2>2. total \in Int
    BY <2>1, SettledTotals
  <2>3. fee \in Nat
    BY <2>1, <2>2, FeeBounds
  <2>4. left \in Int
    BY <2>2, LeftIsInt
  <2>5. /\ status[e] # "Postponed"
        /\ left = RevenueAfterTimeouts(e, AcceptedToken) - total \/ LateCancellation(e)
    BY <2>1, SettlementLeaves
  <2>6. PaidOut(e, AcceptedToken, total, fee, left)
    BY <1>1, <2>5 DEF Withdraw, PaidOut, PayoutFrame
  <2> HIDE DEF total, fee, left
  <2>7. QED
    BY <2>2, <2>3, <2>4, <2>6
<1>2. ASSUME WithdrawRevenue(e)
      PROVE  \E t \in Tokens, total \in Int, fee \in Nat, left \in Int :
               PaidOut(e, t, total, fee, left)
  <2> DEFINE total == RevenueAfterTimeouts(e, AcceptedToken)
             fee == Share(total, platformFeeBps)
  <2>1. total > 0
    BY <1>2 DEF WithdrawRevenue
  <2>2. total \in Int
    BY RestoredRevenue
  <2>3. fee \in Nat
    BY <2>1, <2>2, FeeBounds
  <2>4. status[e] # "Postponed" /\ 0 = RevenueAfterTimeouts(e, AcceptedToken) - total
    BY <1>2, <2>2 DEF WithdrawRevenue, NotPostponed
  <2>5. PaidOut(e, AcceptedToken, total, fee, 0)
    BY <1>2, <2>4 DEF WithdrawRevenue, PaidOut, PayoutFrame
  <2> HIDE DEF total, fee
  <2>6. QED
    BY <2>2, <2>3, <2>5
<1>3. ASSUME NEW t \in Tokens, WithdrawToken(e, t)
      PROVE  \E total \in Int, fee \in Nat, left \in Int : PaidOut(e, t, total, fee, left)
  <2> DEFINE total == RevenueAfterTimeouts(e, t)
  <2>1. total \in Int
    BY RestoredRevenue
  <2>2. 0 = RevenueAfterTimeouts(e, t) - total /\ total - 0 = RevenueAfterTimeouts(e, t)
    BY <2>1
  <2>3. AccruePlatformFee(e, 0)
    BY <1>3 DEF WithdrawToken, AccruePlatformFee, BooksInv, MoneyTypeOK
  <2>4. /\ status[e] # "Postponed" /\ ReleaseTimedOut(e)
        /\ BookWithdrawal(e, t, total - 0) /\ SetRevenue(e, {t}, 0)
        /\ UNCHANGED <<totalVolume, totalRefunds, eventTokens, splitVars>>
    BY <1>3, <2>2 DEF WithdrawToken, PayoutFrame
  <2>5. PaidOut(e, t, total, 0, 0)
    BY <2>2, <2>3, <2>4 DEF PaidOut
  <2> HIDE DEF total
  <2>6. QED
    BY <2>1, <2>5
<1>4. WithdrawAllTokens(e) \/ ReleaseIfExpired(e) => Drained(e)
  BY DEF WithdrawAllTokens, ReleaseIfExpired, Drained, PayoutFrame, NotPostponed
<1>5. QED
  BY <1>1, <1>2, <1>3, <1>4 DEF EscrowCall

\* A settlement is frozen once, as a payout of the accepted token whose net
\* amount stays in the contract until the recipients come for it.
Settled(e, total, fee, left) ==
  /\ status[e] # "Postponed"
  /\ left = RevenueAfterTimeouts(e, AcceptedToken) - total \/ LateCancellation(e)
  /\ total - fee > 0
  /\ ReleaseTimedOut(e)
  /\ AccruePlatformFee(e, fee)
  /\ SetRevenue(e, {AcceptedToken}, left)
  /\ settlement[e] = None
  /\ settlement' = [settlement EXCEPT ![e] = total - fee]

LEMMA Settlements ==
  ASSUME BooksInv, NEW e \in Events, EnsureSplitSettled(e)
  PROVE  \/ /\ settlement[e] # None
            /\ UNCHANGED <<settlement, payments, disputeVars, tokenRevenue, platformRevenue>>
         \/ \E total \in Int, fee \in Nat, left \in Int : Settled(e, total, fee, left)
<1>1. CASE settlement[e] # None
  BY <1>1 DEF EnsureSplitSettled
<1>2. CASE settlement[e] = None
  <2> DEFINE total == TotalToWithdraw(e)
             fee == Share(total, platformFeeBps)
             left == RevenueLeft(e, total)
  <2>1. /\ config[e] # None /\ PayoutUnlocked(e) /\ total > 0 /\ total - fee > 0
        /\ SettleSplit(e)
    BY <1>2 DEF EnsureSplitSettled, SettleSplit
  <2>2. total \in Int
    BY <2>1, SettledTotals
  <2>3. fee \in Nat /\ left \in Int
    BY <2>1, <2>2, FeeBounds, LeftIsInt
  <2>4. /\ status[e] # "Postponed"
        /\ left = RevenueAfterTimeouts(e, AcceptedToken) - total \/ LateCancellation(e)
    BY <2>1, SettlementLeaves
  <2>5. Settled(e, total, fee, left)
    BY <1>2, <2>1, <2>4 DEF SettleSplit, Settled
  <2> HIDE DEF total, fee, left
  <2>6. QED
    BY <2>2, <2>3, <2>5
<1>3. QED
  BY <1>1, <1>2

\* A recipient is paid its share of the settlement, made now or before.
SharePaid(e, u) ==
  /\ u \in Recipients(e)
  /\ splitWithdrawn[e][u] = 0
  /\ EnsureSplitSettled(e)
  /\ PayShare(e, u)
  /\ UNCHANGED <<totalVolume, totalRefunds, eventTokens, splits>>

LEMMA SplitCalls ==
  ASSUME NEW e \in Events, NEW u \in Users, SplitCall(e, u)
  PROVE  \/ SharePaid(e, u)
         \/ UNCHANGED <<payments, disputeVars, bookVars, splits, settlement, splitWithdrawn>>
BY DEF SplitCall, WithdrawSplit, ReassignFlaggedShare, FlagCohost, ReleaseFlaggedShare,
       SharePaid, PayoutFrame

-----------------------------------------------------------------------------
(* Every call keeps the types of the money.                                *)

LEMMA PayoutMoney ==
  ASSUME BooksInv, NEW e \in Events, NEW t \in Tokens, NEW total \in Int, NEW fee \in Nat,
         NEW left \in Int, PaidOut(e, t, total, fee, left)
  PROVE  MoneyTypeOK'
<1>1. total - fee \in Int
  OBVIOUS
<1>2. balance' \in [Tokens -> Nat] /\ totalWithdrawn' \in [Events -> [Tokens -> Nat]]
  BY <1>1, WithdrawalTypes DEF PaidOut, BooksInv
<1>3. tokenRevenue' \in [Events -> [Tokens -> Int]]
  BY RevenueRewritten DEF PaidOut
<1>4. platformRevenue' \in [Events -> Nat]
  BY DEF PaidOut, AccruePlatformFee, BooksInv, MoneyTypeOK
<1>5. QED
  BY <1>2, <1>3, <1>4 DEF PaidOut, splitVars, BooksInv, MoneyTypeOK

LEMMA DrainMoney ==
  ASSUME BooksInv, NEW e \in Events, Drained(e)
  PROVE  MoneyTypeOK'
<1>1. \A t \in Funded(e) : /\ RevenueAfterTimeouts(e, t) \in Nat
                           /\ RevenueAfterTimeouts(e, t) <= balance[t]
  <2> SUFFICES ASSUME NEW t \in Funded(e)
               PROVE  /\ RevenueAfterTimeouts(e, t) \in Nat
                      /\ RevenueAfterTimeouts(e, t) <= balance[t]
    OBVIOUS
  <2>1. t \in Tokens /\ RevenueAfterTimeouts(e, t) > 0
    BY DEF Funded, BooksInv, MoneyTypeOK
  <2>2. RevenueAfterTimeouts(e, t) \in Int
    BY <2>1, RestoredRevenue
  <2>3. RevenueAfterTimeouts(e, t) <= balance[t]
    BY DEF Drained, DrainAllTokens
  <2>4. QED
    BY <2>1, <2>2, <2>3
<1>2. balance' \in [Tokens -> Nat]
  <2>1. \A t \in Funded(e) : t \in Tokens => balance[t] - RevenueAfterTimeouts(e, t) \in Nat
    <3> SUFFICES ASSUME NEW t \in Funded(e), t \in Tokens
                 PROVE  balance[t] - RevenueAfterTimeouts(e, t) \in Nat
      OBVIOUS
    <3>1. balance[t] \in Nat
      BY DEF BooksInv, MoneyTypeOK
    <3>2. QED
      BY <1>1, <3>1
  <2>2. QED
    BY <2>1 DEF Drained, DrainAllTokens, BooksInv, MoneyTypeOK
<1>3. totalWithdrawn' \in [Events -> [Tokens -> Nat]]
  <2> DEFINE row == [t \in Tokens |-> IF t \in Funded(e)
                       THEN totalWithdrawn[e][t] + RevenueAfterTimeouts(e, t)
                       ELSE totalWithdrawn[e][t]]
  <2>1. totalWithdrawn[e] \in [Tokens -> Nat]
    BY DEF BooksInv, MoneyTypeOK
  <2>2. \A t \in Tokens : t \in Funded(e) =>
          totalWithdrawn[e][t] + RevenueAfterTimeouts(e, t) \in Nat
    BY <1>1, <2>1
  <2>3. row \in [Tokens -> Nat]
    BY <2>1, <2>2
  <2>4. totalWithdrawn' = [totalWithdrawn EXCEPT ![e] = row]
    BY DEF Drained, DrainAllTokens
  <2> HIDE DEF row
  <2>5. QED
    BY <2>3, <2>4 DEF BooksInv, MoneyTypeOK
<1>4. tokenRevenue' \in [Events -> [Tokens -> Int]]
  BY RevenueRewritten DEF Drained, DrainAllTokens
<1>5. QED
  BY <1>2, <1>3, <1>4 DEF Drained, splitVars, BooksInv, MoneyTypeOK

LEMMA EscrowMoney ==
  ASSUME BooksInv, NEW e \in Events, EscrowCall(e)
  PROVE  MoneyTypeOK'
<1>1. CASE ProcessDisputeTimeouts(e)
  <2>1. [t \in Tokens |-> RevenueAfterTimeouts(e, t)] \in [Tokens -> Int]
    BY RestoredRevenue
  <2>2. tokenRevenue' \in [Events -> [Tokens -> Int]]
    BY <1>1, <2>1 DEF ProcessDisputeTimeouts, BooksInv, MoneyTypeOK
  <2>3. QED
    BY <1>1, <2>2 DEF ProcessDisputeTimeouts, splitVars, BooksInv, MoneyTypeOK
<1>2. CASE WithdrawPlatformRevenue(e)
  <2>1. BookWithdrawal(e, AcceptedToken, platformRevenue[e])
    BY <1>2 DEF WithdrawPlatformRevenue
  <2>2. platformRevenue[e] \in Int /\ AcceptedToken \in Tokens /\ MoneyTypeOK
    BY ConstantsAssumption DEF BooksInv, MoneyTypeOK
  <2>3. balance' \in [Tokens -> Nat] /\ totalWithdrawn' \in [Events -> [Tokens -> Nat]]
    BY <2>1, <2>2, WithdrawalTypes
  <2>4. platformRevenue' \in [Events -> Nat]
    BY <1>2 DEF WithdrawPlatformRevenue, BooksInv, MoneyTypeOK
  <2>5. QED
    BY <1>2, <2>3, <2>4
       DEF WithdrawPlatformRevenue, PayoutFrame, splitVars, BooksInv, MoneyTypeOK
<1>3. QED
  BY <1>1, <1>2, EscrowCalls, PayoutMoney, DrainMoney

LEMMA SettlementTypes ==
  ASSUME BooksInv, NEW e \in Events, EnsureSplitSettled(e)
  PROVE  /\ settlement' \in [Events -> Nat \cup {None}]
         /\ settlement'[e] \in Nat
         /\ tokenRevenue' \in [Events -> [Tokens -> Int]]
         /\ platformRevenue' \in [Events -> Nat]
<1>1. CASE settlement[e] # None /\ UNCHANGED <<settlement, tokenRevenue, platformRevenue>>
  BY <1>1 DEF BooksInv, MoneyTypeOK
<1>2. ASSUME NEW total \in Int, NEW fee \in Nat, NEW left \in Int,
             Settled(e, total, fee, left)
      PROVE  /\ settlement' \in [Events -> Nat \cup {None}]
             /\ settlement'[e] \in Nat
             /\ tokenRevenue' \in [Events -> [Tokens -> Int]]
             /\ platformRevenue' \in [Events -> Nat]
  <2>1. tokenRevenue' \in [Events -> [Tokens -> Int]]
    BY <1>2, RevenueRewritten DEF Settled
  <2>2. total - fee \in Nat
    BY <1>2 DEF Settled
  <2>3. settlement' \in [Events -> Nat \cup {None}] /\ settlement'[e] \in Nat
    BY <1>2, <2>2 DEF Settled, BooksInv, MoneyTypeOK
  <2>4. platformRevenue' \in [Events -> Nat]
    BY <1>2 DEF Settled, AccruePlatformFee, BooksInv, MoneyTypeOK
  <2>5. QED
    BY <2>1, <2>3, <2>4
<1>3. QED
  BY <1>1, <1>2, Settlements

LEMMA SplitMoney ==
  ASSUME BooksInv, NEW e \in Events, NEW u \in Users, SharePaid(e, u)
  PROVE  MoneyTypeOK'
<1>1. /\ settlement' \in [Events -> Nat \cup {None}]
      /\ settlement'[e] \in Nat
      /\ tokenRevenue' \in [Events -> [Tokens -> Int]]
      /\ platformRevenue' \in [Events -> Nat]
  BY SettlementTypes DEF SharePaid
<1> DEFINE share == RecipientShare(e, u, settlement'[e])
<1>2. /\ share > 0 /\ BookWithdrawal(e, AcceptedToken, share)
      /\ splitWithdrawn' = [splitWithdrawn EXCEPT ![e][u] = share]
  BY DEF SharePaid, PayShare
<1>3. share \in Int
  BY <1>1, SharesAreIntegers DEF SharePaid
<1> HIDE DEF share
<1>4. /\ share \in Nat
      /\ balance' \in [Tokens -> Nat]
      /\ totalWithdrawn' \in [Events -> [Tokens -> Nat]]
  BY <1>2, <1>3, WithdrawalTypes, ConstantsAssumption DEF BooksInv
<1>5. splitWithdrawn' \in [Events -> [Users -> Nat]]
  BY <1>2, <1>4 DEF BooksInv, MoneyTypeOK
<1>6. QED
  BY <1>1, <1>4, <1>5 DEF SharePaid, BooksInv, MoneyTypeOK

\* What a resale takes: the fee and the royalty, of which the contract keeps
\* what it does not hand to the seller.
Resold(e, fee, royalty, kept) ==
  /\ balance' = [balance EXCEPT ![AcceptedToken] = @ + kept]
  /\ platformRevenue' = [platformRevenue EXCEPT ![e] = @ + fee]
  /\ tokenRevenue' = [tokenRevenue EXCEPT ![e][AcceptedToken] = @ + royalty]
  /\ UNCHANGED <<payments, disputeVars, totalVolume, totalRefunds, totalWithdrawn,
                 eventTokens, splitVars>>

\* The price of a resale, of which a free or a negative one is no price at all.
LEMMA Resales ==
  ASSUME RecordsTypeOK, NEW i \in PaymentIds, NEW buyer \in Users, BuyResaleTicket(i, buyer)
  PROVE  \E e \in Events, price, fee, royalty, kept \in Nat :
           /\ config[e] # None
           /\ fee = Share(price, platformFeeBps)
           /\ royalty = Share(price, config[e].terms.resale_royalty_bps)
           /\ kept = IF price - fee - royalty > 0 THEN fee + royalty ELSE price
           /\ Resold(e, fee, royalty, kept)
<1> DEFINE e == payments[i].event
           asked == resaleListing[i].price
           price == IF asked > 0 THEN asked ELSE 0
           royaltyBps == config[e].terms.resale_royalty_bps
           fee == Share(price, platformFeeBps)
           royalty == Share(price, royaltyBps)
           kept == IF price - fee - royalty > 0 THEN fee + royalty ELSE price
           feeTaken == IF asked > 0 THEN Share(asked, platformFeeBps) ELSE 0
           royaltyTaken == IF asked > 0 THEN Share(asked, royaltyBps) ELSE 0
           proceeds == SellerProceeds(asked, feeTaken, royaltyTaken)
           keptBack == IF asked <= 0 THEN 0
                       ELSE IF proceeds > 0 THEN asked - proceeds ELSE asked
<1>1. /\ resaleListing[i] # None /\ config[e] # None /\ e \in Events
  BY PaymentFields DEF BuyResaleTicket, RecordsTypeOK
<1>2. asked \in Int /\ platformFeeBps \in Bps /\ royaltyBps \in Bps
  <2>1. resaleListing[i] \in ResaleListing /\ config[e] \in EventConfig
    BY <1>1, ConfigCounters DEF RecordsTypeOK, TicketTypeOK
  <2>2. QED
    BY <2>1 DEF ResaleListing, EventConfig, Terms, RecordsTypeOK, AdminTypeOK
<1>3. /\ balance' = [balance EXCEPT ![AcceptedToken] = @ + keptBack]
      /\ platformRevenue' = [platformRevenue EXCEPT ![e] = @ + feeTaken]
      /\ tokenRevenue' = [tokenRevenue EXCEPT ![e][AcceptedToken] = @ + royaltyTaken]
      /\ UNCHANGED <<payments, disputeVars, totalVolume, totalRefunds, totalWithdrawn,
                     eventTokens, splitVars>>
  BY DEF BuyResaleTicket
<1> HIDE DEF e, asked, royaltyBps
<1>4. price \in Nat
  BY <1>2
<1>5. ASSUME NEW bps \in Bps
      PROVE  /\ Share(price, bps) \in Nat
             /\ Share(price, bps) = IF asked > 0 THEN Share(asked, bps) ELSE 0
  <2>1. Share(price, bps) \in Nat /\ Share(price, bps) <= price
    BY <1>4, ShareBounds
  <2>2. QED
    BY <1>2, <1>4, <2>1
<1>6. fee \in Nat /\ royalty \in Nat /\ fee = feeTaken /\ royalty = royaltyTaken
  BY <1>2, <1>5
<1>7. kept \in Nat /\ kept = keptBack
  <2> HIDE DEF fee, royalty, feeTaken, royaltyTaken
  <2>1. QED
    BY <1>2, <1>4, <1>6 DEF SellerProceeds
<1>8. Resold(e, fee, royalty, kept)
  BY <1>3, <1>6, <1>7 DEF Resold
<1>9. /\ fee = Share(price, platformFeeBps)
      /\ royalty = Share(price, config[e].terms.resale_royalty_bps)
      /\ kept = IF price - fee - royalty > 0 THEN fee + royalty ELSE price
  BY DEF royaltyBps
<1> HIDE DEF price, fee, royalty, kept
<1>10. QED
  BY <1>1, <1>4, <1>6, <1>7, <1>8, <1>9

LEMMA ResaleMoney ==
  ASSUME BooksInv, NEW e \in Events, NEW fee \in Nat, NEW royalty \in Nat, NEW kept \in Nat,
         Resold(e, fee, royalty, kept)
  PROVE  MoneyTypeOK'
<1>1. tokenRevenue' \in [Events -> [Tokens -> Int]]
  BY TableTypes, ConstantsAssumption, SMTT(30) DEF Resold, BooksInv, MoneyTypeOK
<1>2. balance' \in [Tokens -> Nat] /\ platformRevenue' \in [Events -> Nat]
  BY ConstantsAssumption DEF Resold, BooksInv, MoneyTypeOK
<1>3. QED
  BY <1>1, <1>2 DEF Resold, splitVars, BooksInv, MoneyTypeOK

LEMMA RulingMoney ==
  ASSUME BooksInv, NEW i \in PaymentIds
  PROVE  /\ ApproveRefund(i) => MoneyTypeOK'
         /\ RaiseDispute(i) => MoneyTypeOK'
         /\ RejectDispute(i) => MoneyTypeOK'
<1>1. ASSUME ApproveRefund(i) PROVE MoneyTypeOK'
  <2> DEFINE amount == payments[i].amount - payments[i].refunded_amount
  <2>1. /\ payments[i] # None /\ BookRefund(i, amount) /\ UNCHANGED tokenRevenue
        /\ UNCHANGED splitVars
    BY <1>1 DEF ApproveRefund, HasStatus
  <2>2. amount \in Int
    BY <2>1, RefundAmountTypes DEF BooksInv, DisputeInv
  <2> HIDE DEF amount
  <2>3. QED
    BY <2>1, <2>2, RefundMoney
<1>2. ASSUME payments[i] # None,
             \/ tokenRevenue' = [tokenRevenue EXCEPT
                  ![payments[i].event][payments[i].token] = @ + payments[i].amount]
             \/ tokenRevenue' = [tokenRevenue EXCEPT
                  ![payments[i].event][payments[i].token] = @ - payments[i].amount],
             UNCHANGED <<totalVolume, totalRefunds, totalWithdrawn, eventTokens,
                         platformRevenue, balance, splitVars>>
      PROVE  MoneyTypeOK'
  <2>1. /\ payments[i].event \in Events /\ payments[i].token \in Tokens
        /\ payments[i].amount \in Int
    BY <1>2, PaymentFields DEF BooksInv, DisputeInv, RecordsTypeOK
  <2> DEFINE e == payments[i].event
             t == payments[i].token
             a == payments[i].amount
  <2>2. \/ tokenRevenue' = [tokenRevenue EXCEPT ![e][t] = @ + a]
        \/ tokenRevenue' = [tokenRevenue EXCEPT ![e][t] = @ - a]
    BY <1>2
  <2> HIDE DEF e, t, a
  <2>3. e \in Events /\ t \in Tokens /\ a \in Int
    BY <2>1 DEF e, t, a
  <2>4. /\ [tokenRevenue EXCEPT ![e][t] = @ + a] \in [Events -> [Tokens -> Int]]
        /\ [tokenRevenue EXCEPT ![e][t] = @ - a] \in [Events -> [Tokens -> Int]]
    BY <2>3, TableTypes DEF BooksInv, MoneyTypeOK
  <2>5. tokenRevenue' \in [Events -> [Tokens -> Int]]
    BY <2>2, <2>4
  <2>6. QED
    BY <1>2, <2>5 DEF splitVars, BooksInv, MoneyTypeOK
<1>3. RaiseDispute(i) => MoneyTypeOK'
  BY <1>2 DEF RaiseDispute, HasStatus
<1>4. RejectDispute(i) => MoneyTypeOK'
  BY <1>2 DEF RejectDispute, HasStatus
<1>5. QED
  BY <1>1, <1>3, <1>4

LEMMA NextMoney == BooksInv /\ [Next]_vars => MoneyTypeOK'
<1> SUFFICES ASSUME BooksInv, [Next]_vars PROVE MoneyTypeOK'
  OBVIOUS
<1>1. ASSUME UNCHANGED <<bookVars, settlement, splitWithdrawn>> PROVE MoneyTypeOK'
  BY <1>1, MoneyUntouched DEF BooksInv
<1>2. CASE Quiet
  BY <1>1, <1>2 DEF Quiet
<1>3. ASSUME NEW i \in PaymentIds, RefundCall(i) PROVE MoneyTypeOK'
  <2>1. PICK amount \in Int, s \in {"Held", "Refunded"} : RefundOf(i, amount, s)
    BY <1>3, RefundCalls DEF BooksInv, DisputeInv
  <2>2. QED
    BY <2>1, RefundMoney DEF RefundOf, HasStatus, RefundFrame
<1>4. ASSUME NEW i \in PaymentIds, NEW c \in EmailCommitments, BindEmailCommitment(i, c)
      PROVE  MoneyTypeOK'
  BY <1>1, <1>4 DEF BindEmailCommitment, splitVars
<1>5. ASSUME NEW i \in PaymentIds, ResaleCall(i) PROVE MoneyTypeOK'
  BY <1>1, <1>5 DEF ResaleCall, ListTicketForResale, DelistTicket, splitVars
<1>6. ASSUME NEW i \in PaymentIds, NEW u \in Users, BuyResaleTicket(i, u) PROVE MoneyTypeOK'
  BY <1>6, Resales, ResaleMoney DEF BooksInv, DisputeInv
<1>7. ASSUME NEW e \in Events, NEW u \in Users, SplitCall(e, u) PROVE MoneyTypeOK'
  BY <1>1, <1>7, SplitCalls, SplitMoney
<1>8. QED
  BY <1>2, <1>3, <1>4, <1>5, <1>6, <1>7, StepKinds, PurchaseMoney, RulingMoney, EscrowMoney

LEMMA BooksInvariant == Spec => []BooksInv
<1>1. Init => MoneyTypeOK
  BY ConstantsAssumption DEF Init, MoneyTypeOK
<1>2. BooksInv /\ [Next]_vars => MoneyTypeOK'
  BY NextMoney
<1>3. QED
  BY <1>1, <1>2, TypeCorrect, DisputesStayConsistent, PTL DEF Spec, BooksInv, DisputeInv

\* No history of sales, resales, refunds, disputes and payouts makes a running
\* total, an accrued fee, a settlement, a paid share or the balance negative,
\* and every record keeps its type.
THEOREM PaymentsTypeCorrect == Spec => []TypeOK
<1>1. BooksInv => TypeOK
  BY DEF BooksInv, DisputeInv, TypeOK
<1>2. QED
  BY <1>1, BooksInvariant, PTL

-----------------------------------------------------------------------------
(* The balance.                                                            *)

\* What the books say the contract holds for one event.
Net(e, t) == totalVolume[e][t] - totalRefunds[e][t] - totalWithdrawn[e][t]

\* A call that books on event e, in its token, all it moves in or out.
BookedOn(e) ==
  \A t \in Tokens :
    /\ \A d \in Events \ {e} : Net(d, t)' = Net(d, t)
    /\ balance'[t] - balance[t] = Net(e, t)' - Net(e, t)

LEMMA NetIsInt == ASSUME MoneyTypeOK, NEW e \in Events, NEW t \in Tokens PROVE Net(e, t) \in Int
<1>1. totalVolume[e][t] \in Int /\ totalRefunds[e][t] \in Int /\ totalWithdrawn[e][t] \in Int
  BY DEF MoneyTypeOK
<1>2. QED
  BY <1>1 DEF Net

\* The books of all events change by what those of one event do.
LEMMA BooksOfOneEvent ==
  ASSUME MoneyTypeOK, MoneyTypeOK', NEW e \in Events, BookedOn(e), NEW t \in Tokens
  PROVE  BooksNet(t)' - BooksNet(t) = balance'[t] - balance[t] /\ BooksNet(t) \in Int
<1> DEFINE F == [d \in Events |-> Net(d, t)]
           G == [d \in Events |-> Net(d, t)']
<1>1. F \in [Events -> Int]
  BY NetIsInt
<1>2. G \in [Events -> Int]
  <2>1. \A d \in Events : /\ totalVolume'[d][t] \in Int /\ totalRefunds'[d][t] \in Int
                           /\ totalWithdrawn'[d][t] \in Int
    BY DEF MoneyTypeOK
  <2>2. \A d \in Events : Net(d, t)' \in Int
    BY <2>1 DEF Net
  <2>3. QED
    BY <2>2
<1>3. BooksNet(t) = SumFunction(F) /\ BooksNet(t)' = SumFunction(G)
  BY DEF BooksNet, Net
<1>4. \A d \in Events \ {e} : F[d] = G[d]
  BY DEF BookedOn
<1>5. G[e] - F[e] = balance'[t] - balance[t]
  BY DEF BookedOn
<1> HIDE DEF F, G
<1>6. SumFunction(G) = SumFunction(F) + (G[e] - F[e]) /\ SumFunction(F) \in Int
  BY <1>1, <1>2, <1>4, FiniteAssumption, SumChanged, SumType
<1>7. G[e] - F[e] \in Int
  BY <1>1, <1>2
<1>8. QED
  BY <1>3, <1>5, <1>6, <1>7

LEMMA PurchaseBooked ==
  ASSUME BooksInv, NEW p \in PaymentParams, CreatePayment(p)
  PROVE  BookedOn(p.event)
<1> DEFINE e == p.event
           t == p.token
           a == p.amount
<1>1. e \in Events /\ t \in Tokens /\ a \in Nat
  BY RequestTypes
<1>2. /\ balance' = [balance EXCEPT ![t] = @ + a]
      /\ totalVolume' = [totalVolume EXCEPT ![e][t] = @ + a]
      /\ UNCHANGED <<totalRefunds, totalWithdrawn>>
  BY DEF CreatePayment
<1> HIDE DEF e, t, a
<1>3. ASSUME NEW s \in Tokens
      PROVE  /\ \A d \in Events \ {e} : Net(d, s)' = Net(d, s)
             /\ balance'[s] - balance[s] = Net(e, s)' - Net(e, s)
  <2>1. \A d \in Events \ {e} : Net(d, s)' = Net(d, s)
    BY <1>2 DEF Net, BooksInv, MoneyTypeOK
  <2>2. /\ balance[s] \in Int /\ totalVolume[e][s] \in Int /\ totalRefunds[e][s] \in Int
        /\ totalWithdrawn[e][s] \in Int
    BY <1>1 DEF BooksInv, MoneyTypeOK
  <2>3. /\ balance'[s] = IF s = t THEN balance[s] + a ELSE balance[s]
        /\ totalVolume'[e][s] = IF s = t THEN totalVolume[e][s] + a ELSE totalVolume[e][s]
    BY <1>1, <1>2 DEF BooksInv, MoneyTypeOK
  <2>4. QED
    BY <1>1, <1>2, <2>1, <2>2, <2>3 DEF Net
<1>4. QED
  BY <1>3 DEF BookedOn, e

LEMMA RefundBooked ==
  ASSUME BooksInv, NEW i \in PaymentIds, payments[i] # None, NEW amount \in Int,
         BookRefund(i, amount)
  PROVE  \E e \in Events : e = payments[i].event /\ BookedOn(e)
<1>1. PICK e \in Events, t \in Tokens : e = payments[i].event /\ t = payments[i].token
  BY PaymentFields DEF BooksInv, DisputeInv, RecordsTypeOK
<1>2. /\ balance' = [balance EXCEPT ![t] = @ - amount]
      /\ totalRefunds' = [totalRefunds EXCEPT ![e][t] = @ + amount]
      /\ UNCHANGED <<totalVolume, totalWithdrawn>>
  BY <1>1 DEF BookRefund, SendOut
<1>3. ASSUME NEW s \in Tokens
      PROVE  /\ \A d \in Events \ {e} : Net(d, s)' = Net(d, s)
             /\ balance'[s] - balance[s] = Net(e, s)' - Net(e, s)
  <2>1. \A d \in Events \ {e} : Net(d, s)' = Net(d, s)
    BY <1>2 DEF Net, BooksInv, MoneyTypeOK
  <2>2. /\ balance[s] \in Int /\ totalVolume[e][s] \in Int /\ totalRefunds[e][s] \in Int
        /\ totalWithdrawn[e][s] \in Int
    BY DEF BooksInv, MoneyTypeOK
  <2>3. /\ balance'[s] = IF s = t THEN balance[s] - amount ELSE balance[s]
        /\ totalRefunds'[e][s] =
             IF s = t THEN totalRefunds[e][s] + amount ELSE totalRefunds[e][s]
    BY <1>2 DEF BooksInv, MoneyTypeOK
  <2>4. QED
    BY <1>2, <2>1, <2>2, <2>3 DEF Net
<1>4. BookedOn(e)
  BY <1>3 DEF BookedOn
<1>5. QED
  BY <1>1, <1>4

LEMMA WithdrawalBooked ==
  ASSUME MoneyTypeOK, NEW e \in Events, NEW t \in Tokens, NEW amount \in Int,
         BookWithdrawal(e, t, amount), UNCHANGED <<totalVolume, totalRefunds>>
  PROVE  BookedOn(e)
<1>1. ASSUME NEW s \in Tokens
      PROVE  /\ \A d \in Events \ {e} : Net(d, s)' = Net(d, s)
             /\ balance'[s] - balance[s] = Net(e, s)' - Net(e, s)
  <2>1. \A d \in Events \ {e} : Net(d, s)' = Net(d, s)
    BY DEF BookWithdrawal, Net, MoneyTypeOK
  <2>2. /\ balance[s] \in Int /\ totalVolume[e][s] \in Int /\ totalRefunds[e][s] \in Int
        /\ totalWithdrawn[e][s] \in Int
    BY DEF MoneyTypeOK
  <2>3. /\ balance'[s] = IF s = t THEN balance[s] - amount ELSE balance[s]
        /\ totalWithdrawn'[e][s] =
             IF s = t THEN totalWithdrawn[e][s] + amount ELSE totalWithdrawn[e][s]
    BY DEF BookWithdrawal, SendOut, MoneyTypeOK
  <2>4. QED
    BY <2>1, <2>2, <2>3 DEF Net
<1>2. QED
  BY <1>1 DEF BookedOn

LEMMA DrainBooked ==
  ASSUME BooksInv, NEW e \in Events, Drained(e)
  PROVE  BookedOn(e)
<1>1. ASSUME NEW s \in Tokens
      PROVE  /\ \A d \in Events \ {e} : Net(d, s)' = Net(d, s)
             /\ balance'[s] - balance[s] = Net(e, s)' - Net(e, s)
  <2> DEFINE amount == RevenueAfterTimeouts(e, s)
  <2>1. \A d \in Events \ {e} : Net(d, s)' = Net(d, s)
    BY DEF Drained, DrainAllTokens, Net, BooksInv, MoneyTypeOK
  <2>2. /\ balance[s] \in Int /\ totalVolume[e][s] \in Int /\ totalRefunds[e][s] \in Int
        /\ totalWithdrawn[e][s] \in Int /\ amount \in Int
    BY RestoredRevenue DEF BooksInv, MoneyTypeOK
  <2>3. /\ balance'[s] = IF s \in Funded(e) THEN balance[s] - amount ELSE balance[s]
        /\ totalWithdrawn'[e][s] =
             IF s \in Funded(e) THEN totalWithdrawn[e][s] + amount ELSE totalWithdrawn[e][s]
        /\ UNCHANGED <<totalVolume, totalRefunds>>
    BY DEF Drained, DrainAllTokens, BooksInv, MoneyTypeOK
  <2> HIDE DEF amount
  <2>4. QED
    BY <2>1, <2>2, <2>3 DEF Net
<1>2. QED
  BY <1>1 DEF BookedOn

\* Every call but a resale books what it moves, on one event.
LEMMA TransfersBooked ==
  ASSUME BooksInv, [Next]_vars
  PROVE  \/ UNCHANGED <<balance, totalVolume, totalRefunds, totalWithdrawn>>
         \/ \E e \in Events : BookedOn(e)
         \/ \E i \in PaymentIds, u \in Users : BuyResaleTicket(i, u)
<1> DEFINE Unmoved == UNCHANGED <<balance, totalVolume, totalRefunds, totalWithdrawn>>
<1>1. CASE Quiet
  BY <1>1 DEF Quiet, bookVars
<1>2. ASSUME NEW p \in PaymentParams, CreatePayment(p) PROVE \E e \in Events : BookedOn(e)
  BY <1>2, PurchaseBooked, RequestTypes
<1>3. ASSUME NEW i \in PaymentIds, RefundCall(i) PROVE \E e \in Events : BookedOn(e)
  <2>1. PICK amount \in Int, s \in {"Held", "Refunded"} : RefundOf(i, amount, s)
    BY <1>3, RefundCalls DEF BooksInv, DisputeInv
  <2>2. QED
    BY <2>1, RefundBooked DEF RefundOf, HasStatus, RefundFromRevenue
<1>4. ASSUME NEW i \in PaymentIds, ApproveRefund(i) PROVE \E e \in Events : BookedOn(e)
  <2> DEFINE amount == payments[i].amount - payments[i].refunded_amount
  <2>1. payments[i] # None /\ BookRefund(i, amount)
    BY <1>4 DEF ApproveRefund, HasStatus
  <2>2. amount \in Int
    BY <2>1, RefundAmountTypes DEF BooksInv, DisputeInv
  <2> HIDE DEF amount
  <2>3. QED
    BY <2>1, <2>2, RefundBooked
<1>5. ASSUME NEW i \in PaymentIds,
             \/ \E c \in EmailCommitments : BindEmailCommitment(i, c)
             \/ RaiseDispute(i) \/ RejectDispute(i) \/ ResaleCall(i)
      PROVE  Unmoved
  BY <1>5 DEF BindEmailCommitment, RaiseDispute, RejectDispute, ResaleCall,
              ListTicketForResale, DelistTicket, bookVars
<1>6. ASSUME NEW e \in Events, EscrowCall(e) PROVE Unmoved \/ BookedOn(e)
  <2>1. CASE ProcessDisputeTimeouts(e)
    BY <2>1 DEF ProcessDisputeTimeouts
  <2>2. ASSUME NEW t \in Tokens, NEW total \in Int, NEW fee \in Nat, NEW left \in Int,
               PaidOut(e, t, total, fee, left)
        PROVE  BookedOn(e)
    <3>1. total - fee \in Int
      OBVIOUS
    <3>2. QED
      BY <2>2, <3>1, WithdrawalBooked DEF PaidOut, BooksInv
  <2>3. ASSUME WithdrawPlatformRevenue(e) PROVE BookedOn(e)
    <3>1. platformRevenue[e] \in Int /\ AcceptedToken \in Tokens
      BY ConstantsAssumption DEF BooksInv, MoneyTypeOK
    <3>2. QED
      BY <2>3, <3>1, WithdrawalBooked DEF WithdrawPlatformRevenue, PayoutFrame, BooksInv
  <2>4. QED
    BY <1>6, <2>1, <2>2, <2>3, EscrowCalls, DrainBooked
<1>7. ASSUME NEW e \in Events, NEW u \in Users, SplitCall(e, u) PROVE Unmoved \/ BookedOn(e)
  <2>1. ASSUME SharePaid(e, u) PROVE BookedOn(e)
    <3>1. settlement'[e] \in Int
      BY <2>1, SettlementTypes DEF SharePaid
    <3>2. RecipientShare(e, u, settlement'[e]) \in Int
      BY <2>1, <3>1, SharesAreIntegers DEF SharePaid
    <3>3. QED
      BY <2>1, <3>2, WithdrawalBooked, ConstantsAssumption DEF SharePaid, PayShare, BooksInv
  <2>2. QED
    BY <1>7, <2>1, SplitCalls DEF bookVars
<1>8. QED
  BY <1>1, <1>2, <1>3, <1>4, <1>5, <1>6, <1>7, StepKinds

\* What a call may do to the listings, when it is no purchase of a listed ticket.
LEMMA ListingSteps ==
  ASSUME RecordsTypeOK, [Next]_vars
  PROVE  \/ UNCHANGED ticketVars
         \/ \E p \in PaymentParams : CreatePayment(p)
         \/ \E i \in PaymentIds : ResaleCall(i)
         \/ \E i \in PaymentIds, u \in Users : BuyResaleTicket(i, u)
<1>1. CASE Quiet
  BY <1>1 DEF Quiet
<1>2. ASSUME NEW i \in PaymentIds,
             \/ \E c \in EmailCommitments : BindEmailCommitment(i, c)
             \/ RefundCall(i) \/ ApproveRefund(i) \/ RaiseDispute(i) \/ RejectDispute(i)
      PROVE  UNCHANGED ticketVars
  <2>1. RefundCall(i) => UNCHANGED ticketVars
    BY RefundCalls DEF RefundOf, RefundFrame
  <2>2. QED
    BY <1>2, <2>1 DEF BindEmailCommitment, ApproveRefund, RaiseDispute, RejectDispute
<1>3. ASSUME NEW e \in Events, EscrowCall(e) PROVE UNCHANGED ticketVars
  BY <1>3, Zenon DEF EscrowCall, ProcessDisputeTimeouts, Withdraw, WithdrawRevenue, WithdrawToken,
              WithdrawAllTokens, ReleaseIfExpired, WithdrawPlatformRevenue, PayoutFrame
<1>4. ASSUME NEW e \in Events, NEW u \in Users, SplitCall(e, u) PROVE UNCHANGED ticketVars
  BY <1>4, Zenon DEF SplitCall, WithdrawSplit, ReassignFlaggedShare, FlagCohost, ReleaseFlaggedShare,
              PayoutFrame
<1>5. QED
  BY <1>1, <1>2, <1>3, <1>4, StepKinds

\* The contract never holds less of a token than the books of all events say,
\* and no more either as long as nothing is listed for resale.
BalanceInv ==
  /\ \A t \in Tokens : /\ BooksNet(t) <= balance[t]
                       /\ ResalePrices = {} => BooksNet(t) = balance[t]
  /\ ResalePrices = {} => \A i \in PaymentIds : resaleListing[i] = None

LEMMA BooksNetIsInt == ASSUME MoneyTypeOK, NEW t \in Tokens PROVE BooksNet(t) \in Int
<1> DEFINE F == [e \in Events |-> Net(e, t)]
<1>1. F \in [Events -> Int]
  BY NetIsInt
<1>2. BooksNet(t) = SumFunction(F)
  BY DEF BooksNet, Net
<1> HIDE DEF F
<1>3. QED
  BY <1>1, <1>2, FiniteAssumption, SumType

LEMMA BalanceInvariant == Spec => []BalanceInv
<1>1. Init => BalanceInv
  <2> SUFFICES ASSUME Init PROVE BalanceInv
    OBVIOUS
  <2>1. ASSUME NEW t \in Tokens PROVE BooksNet(t) = balance[t] /\ balance[t] = 0
    <3> DEFINE F == [e \in Events |-> Net(e, t)]
    <3>1. \A e \in Events : Net(e, t) = 0
      BY DEF Init, Net
    <3>2. F \in [Events -> Int] /\ \A e \in Events : F[e] = 0
      BY <3>1
    <3>3. BooksNet(t) = SumFunction(F)
      BY DEF BooksNet, Net
    <3> HIDE DEF F
    <3>4. SumFunction(F) = 0
      BY <3>2, FiniteAssumption, SumOfZeros
    <3>5. QED
      BY <3>3, <3>4 DEF Init
  <2>2. \A i \in PaymentIds : resaleListing[i] = None
    BY DEF Init
  <2>3. QED
    BY <2>1, <2>2 DEF BalanceInv
<1>2. BooksInv /\ BooksInv' /\ BalanceInv /\ [Next]_vars => BalanceInv'
  <2> SUFFICES ASSUME BooksInv, BooksInv', BalanceInv, [Next]_vars PROVE BalanceInv'
    OBVIOUS
  <2>1. ASSUME NEW t \in Tokens
        PROVE  /\ BooksNet(t)' <= balance'[t]
               /\ ResalePrices = {} => BooksNet(t)' = balance'[t]
    <3>1. /\ BooksNet(t) \in Int /\ balance[t] \in Int /\ balance'[t] \in Int
          /\ BooksNet(t) <= balance[t]
          /\ ResalePrices = {} => BooksNet(t) = balance[t]
      BY BooksNetIsInt DEF BooksInv, MoneyTypeOK, BalanceInv
    <3>2. CASE UNCHANGED <<balance, totalVolume, totalRefunds, totalWithdrawn>>
      <4>1. BooksNet(t)' = BooksNet(t) /\ balance'[t] = balance[t]
        BY <3>2 DEF BooksNet
      <4>2. QED
        BY <3>1, <4>1
    <3>3. ASSUME NEW e \in Events, BookedOn(e)
          PROVE  /\ BooksNet(t)' <= balance'[t]
                 /\ ResalePrices = {} => BooksNet(t)' = balance'[t]
      <4>1. BooksNet(t)' - BooksNet(t) = balance'[t] - balance[t]
        BY <3>3, BooksOfOneEvent DEF BooksInv
      <4>2. BooksNet(t)' \in Int
        <5>1. BooksNet(t)' = SumFunction([d \in Events |-> Net(d, t)'])
          BY DEF BooksNet, Net
        <5>2. \A d \in Events : /\ totalVolume'[d][t] \in Int /\ totalRefunds'[d][t] \in Int
                                 /\ totalWithdrawn'[d][t] \in Int
          BY DEF BooksInv, MoneyTypeOK
        <5>3. \A d \in Events : Net(d, t)' \in Int
          BY <5>2 DEF Net
        <5> DEFINE G == [d \in Events |-> Net(d, t)']
        <5>4. G \in [Events -> Int]
          BY <5>3
        <5>5. BooksNet(t)' = SumFunction(G)
          BY <5>1
        <5> HIDE DEF G
        <5>6. QED
          BY <5>4, <5>5, FiniteAssumption, SumType
      <4>3. QED
        BY <3>1, <4>1, <4>2
    <3>4. ASSUME NEW i \in PaymentIds, NEW u \in Users, BuyResaleTicket(i, u)
          PROVE  /\ BooksNet(t)' <= balance'[t]
                 /\ ResalePrices = {} => BooksNet(t)' = balance'[t]
      <4>1. ResalePrices # {}
        BY <3>4 DEF BuyResaleTicket, BalanceInv
      <4>2. PICK e \in Events, fee \in Nat, royalty \in Nat, kept \in Nat :
              Resold(e, fee, royalty, kept)
        BY <3>4, Resales DEF BooksInv, DisputeInv
      <4>3. BooksNet(t)' = BooksNet(t)
        BY <4>2 DEF Resold, BooksNet
      <4>4. balance'[t] = IF t = AcceptedToken THEN balance[t] + kept ELSE balance[t]
        BY <4>2, ConstantsAssumption DEF Resold, BooksInv, MoneyTypeOK
      <4>5. QED
        BY <3>1, <4>1, <4>3, <4>4
    <3>5. QED
      BY <3>2, <3>3, <3>4, TransfersBooked
  <2>2. ASSUME ResalePrices = {}, NEW i \in PaymentIds PROVE resaleListing'[i] = None
    <3>1. resaleListing[i] = None
      BY <2>2 DEF BalanceInv
    <3>2. ASSUME UNCHANGED ticketVars PROVE resaleListing'[i] = None
      BY <3>1, <3>2 DEF ticketVars
    <3>3. ASSUME NEW p \in PaymentParams, CreatePayment(p) PROVE resaleListing'[i] = None
      BY <3>1, <3>3 DEF CreatePayment
    <3>4. ASSUME NEW j \in PaymentIds, ResaleCall(j) PROVE resaleListing'[i] = None
      BY <2>2, <3>1, <3>4 DEF ResaleCall, DelistTicket, BooksInv, DisputeInv, RecordsTypeOK,
                              TicketTypeOK
    <3>5. ASSUME NEW j \in PaymentIds, NEW u \in Users, BuyResaleTicket(j, u)
          PROVE  resaleListing'[i] = None
      BY <3>1, <3>5 DEF BuyResaleTicket, TransferTicket, BooksInv, DisputeInv, RecordsTypeOK,
                        TicketTypeOK
    <3>6. QED
      BY <3>2, <3>3, <3>4, <3>5, ListingSteps DEF BooksInv, DisputeInv
  <2>3. QED
    BY <2>1, <2>2 DEF BalanceInv
<1>3. QED
  BY <1>1, <1>2, BooksInvariant, PTL DEF Spec

\* As long as nothing was ever offered for resale, the contract holds of each
\* token exactly what the running totals of all events say: every transfer of
\* every handler is booked once, on one event, in its token, and stays booked.
THEOREM BalanceIsBooked ==
  ASSUME ResalePrices = {}
  PROVE  Spec => []BalanceMatchesBooks
<1>1. BooksInv /\ BalanceInv => BalanceMatchesBooks
  BY DEF BalanceInv, BalanceMatchesBooks
<1>2. QED
  BY <1>1, BooksInvariant, BalanceInvariant, PTL

-----------------------------------------------------------------------------
(* The running totals against the records.                                 *)

\* What the record in a slot brought in, and gave back, for an event in a token.
Counts(r, e, t) == r # None /\ r.event = e /\ r.token = t
Brought(r, e, t) == IF Counts(r, e, t) THEN r.amount ELSE 0
GaveBack(r, e, t) == IF Counts(r, e, t) THEN r.refunded_amount ELSE 0

AllBrought(p, e, t) == [i \in PaymentIds |-> Brought(p[i], e, t)]
AllGaveBack(p, e, t) == [i \in PaymentIds |-> GaveBack(p[i], e, t)]

\* Inductive, where TotalsMatchPayments sums over sets that grow.
TotalsInv ==
  \A e \in Events, t \in Tokens :
    /\ totalVolume[e][t] = SumFunction(AllBrought(payments, e, t))
    /\ totalRefunds[e][t] = SumFunction(AllGaveBack(payments, e, t))
    /\ \A i \in PaymentIds : Counts(payments[i], e, t) => t \in eventTokens[e]

Records == [PaymentIds -> PaymentRecord \cup {None}]

LEMMA LedgerTypes ==
  ASSUME NEW p \in Records, NEW e \in Events, NEW t \in Tokens
  PROVE  /\ AllBrought(p, e, t) \in [PaymentIds -> Int]
         /\ AllGaveBack(p, e, t) \in [PaymentIds -> Int]
<1>1. ASSUME NEW i \in PaymentIds
      PROVE  Brought(p[i], e, t) \in Int /\ GaveBack(p[i], e, t) \in Int
  <2>1. CASE p[i] = None
    BY <2>1 DEF Brought, GaveBack, Counts
  <2>2. CASE p[i] # None
    <3>1. p[i] \in PaymentRecord
      BY <2>2 DEF Records
    <3>2. p[i].amount \in Int /\ p[i].refunded_amount \in Int
      BY <3>1 DEF PaymentRecord
    <3>3. QED
      BY <3>2 DEF Brought, GaveBack
  <2>3. QED
    BY <2>1, <2>2
<1>2. QED
  BY <1>1 DEF AllBrought, AllGaveBack

\* One record changes: the sums change by what it brings and gives back.
LEMMA LedgerChanged ==
  ASSUME NEW p \in Records, NEW q \in Records, NEW i \in PaymentIds,
         \A j \in PaymentIds \ {i} : q[j] = p[j], NEW e \in Events, NEW t \in Tokens
  PROVE  /\ SumFunction(AllBrought(q, e, t)) = SumFunction(AllBrought(p, e, t))
              + (Brought(q[i], e, t) - Brought(p[i], e, t))
         /\ SumFunction(AllGaveBack(q, e, t)) = SumFunction(AllGaveBack(p, e, t))
              + (GaveBack(q[i], e, t) - GaveBack(p[i], e, t))
<1> DEFINE F == AllBrought(p, e, t)
           G == AllBrought(q, e, t)
           H == AllGaveBack(p, e, t)
           K == AllGaveBack(q, e, t)
<1>1. /\ F \in [PaymentIds -> Int] /\ G \in [PaymentIds -> Int]
      /\ H \in [PaymentIds -> Int] /\ K \in [PaymentIds -> Int]
  BY LedgerTypes
<1>2. \A j \in PaymentIds \ {i} : F[j] = G[j] /\ H[j] = K[j]
  BY DEF AllBrought, AllGaveBack
<1>3. /\ F[i] = Brought(p[i], e, t) /\ G[i] = Brought(q[i], e, t)
      /\ H[i] = GaveBack(p[i], e, t) /\ K[i] = GaveBack(q[i], e, t)
  BY DEF AllBrought, AllGaveBack
<1> HIDE DEF F, G, H, K
<1>4. SumFunction(G) = SumFunction(F) + (G[i] - F[i])
  BY <1>1, <1>2, FinitelyManyPayments, SumChanged
<1>5. SumFunction(K) = SumFunction(H) + (K[i] - H[i])
  BY <1>1, <1>2, FinitelyManyPayments, SumChanged
<1>6. QED
  BY <1>3, <1>4, <1>5 DEF F, G, H, K

\* A call that makes no payment and refunds none.
Untouched(r, s) ==
  /\ r = None <=> s = None
  /\ r # None => /\ s.event = r.event /\ s.token = r.token
                 /\ s.amount = r.amount /\ s.refunded_amount = r.refunded_amount

LEMMA TotalsUntouched ==
  ASSUME BooksInv, TotalsInv, UNCHANGED <<totalVolume, totalRefunds, eventTokens>>,
         \A i \in PaymentIds : Untouched(payments[i], payments'[i])
  PROVE  TotalsInv'
<1> SUFFICES ASSUME NEW e \in Events, NEW t \in Tokens
             PROVE  /\ totalVolume'[e][t] = SumFunction(AllBrought(payments', e, t))
                    /\ totalRefunds'[e][t] = SumFunction(AllGaveBack(payments', e, t))
                    /\ \A i \in PaymentIds : Counts(payments'[i], e, t) => t \in eventTokens'[e]
  BY DEF TotalsInv
<1>1. \A i \in PaymentIds : /\ Brought(payments'[i], e, t) = Brought(payments[i], e, t)
                            /\ GaveBack(payments'[i], e, t) = GaveBack(payments[i], e, t)
                            /\ Counts(payments'[i], e, t) <=> Counts(payments[i], e, t)
  BY DEF Untouched, Brought, GaveBack, Counts
<1>2. /\ AllBrought(payments', e, t) = AllBrought(payments, e, t)
      /\ AllGaveBack(payments', e, t) = AllGaveBack(payments, e, t)
  BY <1>1 DEF AllBrought, AllGaveBack
<1>3. QED
  BY <1>1, <1>2 DEF TotalsInv

LEMMA UntouchedByRelease ==
  ASSUME BooksInv, NEW e \in Events, ReleaseTimedOut(e)
  PROVE  \A i \in PaymentIds : Untouched(payments[i], payments'[i])
<1> SUFFICES ASSUME NEW i \in PaymentIds PROVE Untouched(payments[i], payments'[i])
  OBVIOUS
<1>1. CASE i \in Reinstated(e)
  <2>1. payments[i] # None /\ payments[i] \in PaymentRecord
    BY <1>1, PaymentFields DEF Reinstated, HasStatus, BooksInv, DisputeInv, RecordsTypeOK
  <2>2. payments'[i] = [payments[i] EXCEPT !.status = "Held"]
    BY <1>1 DEF ReleaseTimedOut
  <2>3. payments'[i] \in PaymentRecord
    BY <2>1, <2>2 DEF PaymentRecord
  <2>4. payments'[i] # None
    BY <2>3, NoneAssumption
  <2>5. QED
    BY <2>1, <2>2, <2>4 DEF Untouched, PaymentRecord
<1>2. CASE i \notin Reinstated(e)
  BY <1>2 DEF ReleaseTimedOut, Untouched
<1>3. QED
  BY <1>1, <1>2

\* One record is rewritten in a field that is no part of the ledger.
LEMMA UntouchedByRewrite ==
  ASSUME BooksInv, NEW i \in PaymentIds, payments[i] # None,
         \/ \E s \in {"Held", "Disputed"} : payments' = [payments EXCEPT ![i].status = s]
         \/ \E c \in EmailCommitments :
              payments' = [payments EXCEPT ![i].zk_email_commitment = c]
  PROVE  \A j \in PaymentIds : Untouched(payments[j], payments'[j])
<1>1. payments \in Records /\ payments[i] \in PaymentRecord
  BY PaymentFields DEF BooksInv, DisputeInv, RecordsTypeOK, SaleTypeOK, Records
<1>2. \A j \in PaymentIds \ {i} : payments'[j] = payments[j]
  BY <1>1 DEF Records
<1>3. \/ \E s \in {"Held", "Disputed"} : payments'[i] = [payments[i] EXCEPT !.status = s]
      \/ \E c \in EmailCommitments :
           payments'[i] = [payments[i] EXCEPT !.zk_email_commitment = c]
  BY <1>1 DEF Records
<1>4. payments'[i] \in PaymentRecord
  BY <1>1, <1>3 DEF PaymentRecord
<1>5. payments'[i] # None
  BY <1>4, NoneAssumption
<1>6. Untouched(payments[i], payments'[i])
  BY <1>1, <1>3, <1>5 DEF Untouched, PaymentRecord
<1>7. QED
  BY <1>2, <1>6 DEF Untouched

\* What a purchase records.
PurchaseRecord(p) ==
  [event |-> p.event, payer |-> IF p.level = "Standard" THEN p.payer ELSE None,
   amount |-> p.amount, refunded_amount |-> 0, token |-> p.token, status |-> "Held",
   level |-> p.level, nullifier_commitment |-> p.nullifier,
   zk_email_commitment |-> p.commitment]

LEMMA Purchases ==
  ASSUME RecordsTypeOK, NEW p \in PaymentParams, CreatePayment(p)
  PROVE  \E i \in NextId, r \in PaymentRecord :
           /\ r = PurchaseRecord(p)
           /\ payments' = [payments EXCEPT ![i] = r]
           /\ owner' = [owner EXCEPT ![i] = r.payer]
           /\ ownerTickets' = IF r.payer = None THEN ownerTickets
                              ELSE AddOwnerTicket(ownerTickets, r.payer, i)
<1>1. PurchaseRecord(p) \in PaymentRecord
  BY RequestTypes DEF PaymentRecord, PurchaseRecord
<1>2. PurchaseRecord(p).payer = IF p.level = "Standard" THEN p.payer ELSE None
  BY DEF PurchaseRecord
<1>3. PICK i \in NextId :
        /\ payments' = [payments EXCEPT ![i] = PurchaseRecord(p)]
        /\ owner' = [owner EXCEPT ![i] = IF p.level = "Standard" THEN p.payer ELSE None]
        /\ ownerTickets' =
             IF (IF p.level = "Standard" THEN p.payer ELSE None) = None THEN ownerTickets
             ELSE AddOwnerTicket(ownerTickets,
                                 IF p.level = "Standard" THEN p.payer ELSE None, i)
  BY Zenon DEF CreatePayment, PurchaseRecord
<1>4. QED
  BY <1>1, <1>2, <1>3, Zenon

LEMMA TotalsAfterPurchase ==
  ASSUME BooksInv, BooksInv', TotalsInv, NEW p \in PaymentParams, CreatePayment(p)
  PROVE  TotalsInv'
<1>1. p.event \in Events /\ p.token \in Tokens /\ p.amount \in Nat
  BY RequestTypes
<1>2. PICK i \in NextId, r \in PaymentRecord :
        r = PurchaseRecord(p) /\ payments' = [payments EXCEPT ![i] = r]
  BY Purchases DEF BooksInv, DisputeInv
<1>3. /\ totalVolume' = [totalVolume EXCEPT ![p.event][p.token] = @ + p.amount]
      /\ eventTokens' = [eventTokens EXCEPT ![p.event] = @ \cup {p.token}]
      /\ UNCHANGED totalRefunds
  BY DEF CreatePayment
<1>4. payments \in Records /\ payments' \in Records
  BY DEF BooksInv, DisputeInv, RecordsTypeOK, SaleTypeOK, Records
<1>5. i \in PaymentIds /\ payments[i] = None /\ payments'[i] = r
      /\ \A j \in PaymentIds \ {i} : payments'[j] = payments[j]
  BY <1>2, <1>4 DEF NextId, Records
<1>6. /\ r # None /\ r.event = p.event /\ r.token = p.token
      /\ r.amount = p.amount /\ r.refunded_amount = 0
  BY <1>2, NoneAssumption DEF PurchaseRecord
<1> SUFFICES ASSUME NEW e \in Events, NEW t \in Tokens
             PROVE  /\ totalVolume'[e][t] = SumFunction(AllBrought(payments', e, t))
                    /\ totalRefunds'[e][t] = SumFunction(AllGaveBack(payments', e, t))
                    /\ \A j \in PaymentIds : Counts(payments'[j], e, t) => t \in eventTokens'[e]
  BY DEF TotalsInv
<1>7. /\ totalVolume[e][t] = SumFunction(AllBrought(payments, e, t))
      /\ totalRefunds[e][t] = SumFunction(AllGaveBack(payments, e, t))
      /\ totalVolume[e][t] \in Int /\ totalRefunds[e][t] \in Int
  BY DEF TotalsInv, BooksInv, MoneyTypeOK
<1>8. /\ SumFunction(AllBrought(payments', e, t)) = SumFunction(AllBrought(payments, e, t))
           + (Brought(payments'[i], e, t) - Brought(payments[i], e, t))
      /\ SumFunction(AllGaveBack(payments', e, t)) = SumFunction(AllGaveBack(payments, e, t))
           + (GaveBack(payments'[i], e, t) - GaveBack(payments[i], e, t))
  BY <1>4, <1>5, LedgerChanged
<1>9. /\ Brought(payments[i], e, t) = 0 /\ GaveBack(payments[i], e, t) = 0
      /\ GaveBack(payments'[i], e, t) = 0
      /\ Brought(payments'[i], e, t) = IF p.event = e /\ p.token = t THEN p.amount ELSE 0
  BY <1>2, <1>5, <1>6 DEF Brought, GaveBack, Counts
<1>10. /\ totalVolume'[e][t] = IF p.event = e /\ p.token = t
                               THEN totalVolume[e][t] + p.amount ELSE totalVolume[e][t]
       /\ totalRefunds'[e][t] = totalRefunds[e][t]
  BY <1>1, <1>3 DEF BooksInv, MoneyTypeOK
<1>11. \A j \in PaymentIds : Counts(payments'[j], e, t) => t \in eventTokens'[e]
  <2>1. eventTokens[e] \subseteq eventTokens'[e]
    BY <1>3 DEF BooksInv, MoneyTypeOK
  <2>2. p.event = e /\ p.token = t => t \in eventTokens'[e]
    BY <1>1, <1>3 DEF BooksInv, MoneyTypeOK
  <2>3. \A j \in PaymentIds \ {i} : Counts(payments'[j], e, t) => t \in eventTokens'[e]
    BY <1>5, <2>1 DEF TotalsInv
  <2>4. Counts(payments'[i], e, t) => t \in eventTokens'[e]
    BY <1>5, <1>6, <2>2 DEF Counts
  <2>5. QED
    BY <2>3, <2>4
<1>12. QED
  BY <1>1, <1>7, <1>8, <1>9, <1>10, <1>11

LEMMA TotalsAfterRefund ==
  ASSUME BooksInv, BooksInv', TotalsInv, NEW i \in PaymentIds, payments[i] # None,
         NEW amount \in Int, NEW s \in {"Held", "Refunded"}, Refunded(i, amount, s), BookRefund(i, amount)
  PROVE  TotalsInv'
<1>1. PICK d \in Events, u \in Tokens : d = payments[i].event /\ u = payments[i].token
  BY PaymentFields DEF BooksInv, DisputeInv, RecordsTypeOK
<1>2. /\ totalRefunds' = [totalRefunds EXCEPT ![d][u] = @ + amount]
      /\ UNCHANGED <<totalVolume, eventTokens>>
  BY <1>1 DEF BookRefund
<1>3. payments \in Records /\ payments' \in Records
  BY DEF BooksInv, DisputeInv, RecordsTypeOK, SaleTypeOK, Records
<1>4. payments[i] \in PaymentRecord /\ payments[i].refunded_amount \in Int
  BY PaymentFields DEF BooksInv, DisputeInv, RecordsTypeOK
<1>5. \A j \in PaymentIds \ {i} : payments'[j] = payments[j]
  BY <1>3 DEF Refunded, Records
<1>6. /\ payments'[i].event = d /\ payments'[i].token = u
      /\ payments'[i].amount = payments[i].amount
      /\ payments'[i].refunded_amount = payments[i].refunded_amount + amount
  BY <1>1, <1>3, <1>4 DEF Refunded, Records, PaymentRecord
<1>7. payments'[i] # None
  <2> DEFINE total == payments[i].refunded_amount + amount
             r == [payments[i] EXCEPT !.refunded_amount = total, !.status = s]
  <2>1. payments' = [payments EXCEPT ![i] = r]
    BY <1>3, <1>4 DEF Refunded, Records, PaymentRecord
  <2>2. payments'[i] \in PaymentRecord
    <3>1. total \in Int
      BY <1>4
    <3> HIDE DEF total
    <3>2. r \in PaymentRecord
      BY <1>4, <3>1 DEF PaymentRecord
    <3> HIDE DEF r
    <3>3. payments'[i] = r
      BY <1>3, <2>1 DEF Records
    <3>4. QED
      BY <3>2, <3>3
  <2>3. QED
    BY <2>2, NoneAssumption
<1> SUFFICES ASSUME NEW e \in Events, NEW t \in Tokens
             PROVE  /\ totalVolume'[e][t] = SumFunction(AllBrought(payments', e, t))
                    /\ totalRefunds'[e][t] = SumFunction(AllGaveBack(payments', e, t))
                    /\ \A j \in PaymentIds : Counts(payments'[j], e, t) => t \in eventTokens'[e]
  BY DEF TotalsInv
<1>8. /\ totalVolume[e][t] = SumFunction(AllBrought(payments, e, t))
      /\ totalRefunds[e][t] = SumFunction(AllGaveBack(payments, e, t))
      /\ totalVolume[e][t] \in Int /\ totalRefunds[e][t] \in Int
  BY DEF TotalsInv, BooksInv, MoneyTypeOK
<1>9. /\ SumFunction(AllBrought(payments', e, t)) = SumFunction(AllBrought(payments, e, t))
           + (Brought(payments'[i], e, t) - Brought(payments[i], e, t))
      /\ SumFunction(AllGaveBack(payments', e, t)) = SumFunction(AllGaveBack(payments, e, t))
           + (GaveBack(payments'[i], e, t) - GaveBack(payments[i], e, t))
  BY <1>3, <1>5, LedgerChanged
<1>10. /\ Brought(payments'[i], e, t) = Brought(payments[i], e, t)
       /\ Brought(payments[i], e, t) \in Int
       /\ GaveBack(payments'[i], e, t) - GaveBack(payments[i], e, t)
            = IF d = e /\ u = t THEN amount ELSE 0
       /\ Counts(payments'[i], e, t) <=> Counts(payments[i], e, t)
  <2>1. payments[i].amount \in Int
    BY <1>4 DEF PaymentRecord
  <2>2. QED
    BY <1>1, <1>4, <1>6, <1>7, <2>1 DEF Brought, GaveBack, Counts
<1>11. /\ totalRefunds'[e][t] = IF d = e /\ u = t
                                THEN totalRefunds[e][t] + amount ELSE totalRefunds[e][t]
       /\ totalVolume'[e][t] = totalVolume[e][t] /\ eventTokens'[e] = eventTokens[e]
  BY <1>2 DEF BooksInv, MoneyTypeOK
<1>12. \A j \in PaymentIds : Counts(payments'[j], e, t) => t \in eventTokens'[e]
  BY <1>5, <1>10, <1>11 DEF TotalsInv
<1>13. QED
  BY <1>8, <1>9, <1>10, <1>11, <1>12

LEMMA TotalsInvariant == Spec => []TotalsInv
<1>1. Init => TotalsInv
  <2> SUFFICES ASSUME Init, NEW e \in Events, NEW t \in Tokens
               PROVE  /\ totalVolume[e][t] = SumFunction(AllBrought(payments, e, t))
                      /\ totalRefunds[e][t] = SumFunction(AllGaveBack(payments, e, t))
                      /\ \A i \in PaymentIds : Counts(payments[i], e, t) => t \in eventTokens[e]
    BY DEF TotalsInv
  <2> DEFINE F == AllBrought(payments, e, t)
             G == AllGaveBack(payments, e, t)
  <2>1. \A i \in PaymentIds : payments[i] = None
    BY DEF Init
  <2>2. F \in [PaymentIds -> Int] /\ \A i \in PaymentIds : F[i] = 0
    BY <2>1 DEF AllBrought, Brought, Counts
  <2>3. G \in [PaymentIds -> Int] /\ \A i \in PaymentIds : G[i] = 0
    BY <2>1 DEF AllGaveBack, GaveBack, Counts
  <2> HIDE DEF F, G
  <2>4. SumFunction(F) = 0 /\ SumFunction(G) = 0
    BY <2>2, <2>3, FinitelyManyPayments, SumOfZeros
  <2>5. totalVolume[e][t] = 0 /\ totalRefunds[e][t] = 0
    BY DEF Init
  <2>6. QED
    BY <2>1, <2>4, <2>5 DEF F, G, Counts
<1>2. BooksInv /\ BooksInv' /\ TotalsInv /\ [Next]_vars => TotalsInv'
  <2> SUFFICES ASSUME BooksInv, BooksInv', TotalsInv, [Next]_vars PROVE TotalsInv'
    OBVIOUS
  <2>1. ASSUME UNCHANGED <<totalVolume, totalRefunds, eventTokens>>, UNCHANGED payments
        PROVE  TotalsInv'
    BY <2>1, TotalsUntouched DEF Untouched
  <2>2. ASSUME NEW e \in Events, UNCHANGED <<totalVolume, totalRefunds, eventTokens>>,
               ReleaseTimedOut(e)
        PROVE  TotalsInv'
    BY <2>2, TotalsUntouched, UntouchedByRelease
  <2>3. CASE Quiet
    BY <2>1, <2>3 DEF Quiet, bookVars
  <2>4. ASSUME NEW i \in PaymentIds, RefundCall(i) PROVE TotalsInv'
    <3>1. PICK amount \in Int, s \in {"Held", "Refunded"} : RefundOf(i, amount, s)
      BY <2>4, RefundCalls DEF BooksInv, DisputeInv
    <3>2. QED
      BY <3>1, TotalsAfterRefund DEF RefundOf, HasStatus, RefundFromRevenue
  <2>5. ASSUME NEW i \in PaymentIds, ApproveRefund(i) PROVE TotalsInv'
    <3> DEFINE amount == payments[i].amount - payments[i].refunded_amount
    <3>1. payments[i] # None /\ Refunded(i, amount, "Refunded") /\ BookRefund(i, amount)
      BY <2>5 DEF ApproveRefund, HasStatus
    <3>2. amount \in Int
      BY <3>1, RefundAmountTypes DEF BooksInv, DisputeInv
    <3> HIDE DEF amount
    <3>3. QED
      BY <3>1, <3>2, TotalsAfterRefund
  <2>6. ASSUME NEW i \in PaymentIds,
               \/ \E c \in EmailCommitments : BindEmailCommitment(i, c)
               \/ RaiseDispute(i) \/ RejectDispute(i)
        PROVE  TotalsInv'
    <3>1. /\ payments[i] # None
          /\ \/ \E s \in {"Held", "Disputed"} : payments' = [payments EXCEPT ![i].status = s]
             \/ \E c \in EmailCommitments :
                  payments' = [payments EXCEPT ![i].zk_email_commitment = c]
          /\ UNCHANGED <<totalVolume, totalRefunds, eventTokens>>
      BY <2>6 DEF BindEmailCommitment, RaiseDispute, RejectDispute, HasStatus, bookVars
    <3>2. QED
      BY <3>1, UntouchedByRewrite, TotalsUntouched
  <2>7. ASSUME NEW i \in PaymentIds, ResaleCall(i) PROVE TotalsInv'
    BY <2>1, <2>7 DEF ResaleCall, ListTicketForResale, DelistTicket, bookVars
  <2>8. ASSUME NEW i \in PaymentIds, NEW u \in Users, BuyResaleTicket(i, u) PROVE TotalsInv'
    BY <2>1, <2>8 DEF BuyResaleTicket
  <2>9. ASSUME NEW e \in Events, EscrowCall(e) PROVE TotalsInv'
    <3>1. CASE ProcessDisputeTimeouts(e)
      BY <2>2, <3>1 DEF ProcessDisputeTimeouts
    <3>2. ASSUME NEW t, NEW total, NEW fee, NEW left, PaidOut(e, t, total, fee, left)
          PROVE  TotalsInv'
      BY <2>2, <3>2 DEF PaidOut
    <3>3. CASE Drained(e)
      BY <2>2, <3>3 DEF Drained
    <3>4. CASE WithdrawPlatformRevenue(e)
      BY <2>1, <3>4 DEF WithdrawPlatformRevenue, PayoutFrame
    <3>5. QED
      BY <2>9, <3>1, <3>2, <3>3, <3>4, EscrowCalls
  <2>10. ASSUME NEW e \in Events, NEW u \in Users, SplitCall(e, u) PROVE TotalsInv'
    <3>1. CASE SharePaid(e, u)
      <4>1. /\ EnsureSplitSettled(e)
            /\ UNCHANGED <<totalVolume, totalRefunds, eventTokens>>
        BY <3>1 DEF SharePaid
      <4>2. UNCHANGED payments \/ ReleaseTimedOut(e)
        BY <4>1, Settlements DEF Settled
      <4>3. QED
        BY <2>1, <2>2, <4>1, <4>2
    <3>2. CASE UNCHANGED <<payments, disputeVars, bookVars, splits, settlement, splitWithdrawn>>
      BY <2>1, <3>2 DEF bookVars
    <3>3. QED
      BY <2>10, <3>1, <3>2, SplitCalls
  <2>11. QED
    BY <2>3, <2>4, <2>5, <2>6, <2>7, <2>8, <2>9, <2>10, StepKinds, TotalsAfterPurchase
<1>3. QED
  BY <1>1, <1>2, BooksInvariant, PTL DEF Spec

\* A sum over the payments of an event is the padded sum over all slots.
LEMMA TotalsAgree == BooksInv /\ TotalsInv => TotalsMatchPayments
<1> SUFFICES ASSUME BooksInv, TotalsInv, NEW e \in Events, NEW t \in Tokens
             PROVE  /\ totalVolume[e][t] =
                         SumFunction([i \in PaymentsOf(e, t) |-> payments[i].amount])
                    /\ totalRefunds[e][t] =
                         SumFunction([i \in PaymentsOf(e, t) |-> payments[i].refunded_amount])
                    /\ PaymentsOf(e, t) # {} => t \in eventTokens[e]
  BY DEF TotalsMatchPayments
<1>1. payments \in Records
  BY DEF BooksInv, DisputeInv, RecordsTypeOK, SaleTypeOK, Records
<1> DEFINE R == PaymentsOf(e, t)
           F == [i \in R |-> payments[i].amount]
           G == [i \in R |-> payments[i].refunded_amount]
<1>2. R \in SUBSET PaymentIds /\ \A i \in PaymentIds : i \in R <=> Counts(payments[i], e, t)
  BY DEF PaymentsOf, Made, Counts
<1>3. F \in [R -> Int] /\ G \in [R -> Int]
  <2>1. ASSUME NEW i \in R PROVE payments[i].amount \in Int /\ payments[i].refunded_amount \in Int
    <3>1. payments[i] \in PaymentRecord
      BY <1>1, <1>2 DEF Records, Counts
    <3>2. QED
      BY <3>1 DEF PaymentRecord
  <2>2. QED
    BY <2>1
<1>4. /\ \A i \in PaymentIds :
           AllBrought(payments, e, t)[i] = IF i \in R THEN F[i] ELSE 0
      /\ \A i \in PaymentIds :
           AllGaveBack(payments, e, t)[i] = IF i \in R THEN G[i] ELSE 0
  BY <1>2 DEF AllBrought, AllGaveBack, Brought, GaveBack
<1>5. /\ AllBrought(payments, e, t) \in [PaymentIds -> Int]
      /\ AllGaveBack(payments, e, t) \in [PaymentIds -> Int]
  BY <1>1, LedgerTypes
<1> HIDE DEF F, G, R
<1>6. SumFunction(F) = SumFunction(AllBrought(payments, e, t))
  BY <1>2, <1>3, <1>4, <1>5, FinitelyManyPayments, SumPadded
<1>7. SumFunction(G) = SumFunction(AllGaveBack(payments, e, t))
  BY <1>2, <1>3, <1>4, <1>5, FinitelyManyPayments, SumPadded
<1>8. R # {} => t \in eventTokens[e]
  BY <1>2 DEF TotalsInv
<1>9. QED
  BY <1>6, <1>7, <1>8 DEF TotalsInv, F, G, R

\* The totals that every payout checks the balance against are, after any
\* history, the sums of the payment records.
THEOREM TotalsStayExact == Spec => []TotalsMatchPayments
<1>1. QED
  BY TotalsAgree, TotalsInvariant, BooksInvariant, PTL

-----------------------------------------------------------------------------
(* The freeze of a postponed event.                                        *)

\* The revenue of event e in token t does not shrink.
Keeps(e, t) ==
  tokenRevenue'[e][t] >= tokenRevenue[e][t] /\ totalRefunds'[e][t] >= totalRefunds[e][t]

\* It shrinks by a refund to an attendee.
GivesBack(e, t) ==
  \E amount \in Nat : /\ tokenRevenue'[e][t] = tokenRevenue[e][t] - amount
                      /\ totalRefunds'[e][t] = totalRefunds[e][t] + amount

\* It shrinks by the payment a dispute is raised about.
SetsAside(e, t) ==
  \E i \in PaymentsOf(e, t) :
    /\ dispute[i] = None /\ dispute'[i] # None
    /\ tokenRevenue'[e][t] = tokenRevenue[e][t] - payments[i].amount
    /\ totalRefunds'[e][t] = totalRefunds[e][t]

LEMMA FrozenRevenue ==
  ASSUME BooksInv, [Next]_vars, NEW e \in Events, NEW t \in Tokens, status[e] = "Postponed"
  PROVE  Keeps(e, t) \/ GivesBack(e, t) \/ SetsAside(e, t)
<1>1. tokenRevenue[e][t] \in Int /\ totalRefunds[e][t] \in Int
  BY DEF BooksInv, MoneyTypeOK
<1>2. ASSUME tokenRevenue'[e][t] = tokenRevenue[e][t], UNCHANGED totalRefunds
      PROVE  Keeps(e, t)
  BY <1>1, <1>2 DEF Keeps
<1>3. CASE Quiet
  BY <1>2, <1>3 DEF Quiet, bookVars
<1>4. ASSUME NEW p \in PaymentParams, CreatePayment(p) PROVE Keeps(e, t)
  <2>1. p.amount \in Nat
    BY RequestTypes
  <2>2. /\ tokenRevenue' = [tokenRevenue EXCEPT ![p.event][p.token] = @ + p.amount]
        /\ UNCHANGED totalRefunds
    BY <1>4 DEF CreatePayment
  <2>3. tokenRevenue'[e][t] = IF p.event = e /\ p.token = t
                              THEN tokenRevenue[e][t] + p.amount ELSE tokenRevenue[e][t]
    BY <2>2 DEF BooksInv, MoneyTypeOK
  <2>4. QED
    BY <1>1, <2>1, <2>2, <2>3 DEF Keeps
<1>5. ASSUME NEW i \in PaymentIds, payments[i] # None, NEW amount \in Int, BookRefund(i, amount)
      PROVE  /\ amount \in Nat
             /\ totalRefunds'[e][t] = IF payments[i].event = e /\ payments[i].token = t
                                      THEN totalRefunds[e][t] + amount ELSE totalRefunds[e][t]
  <2>1. totalRefunds' = [totalRefunds EXCEPT ![payments[i].event][payments[i].token] = @ + amount]
    BY <1>5 DEF BookRefund
  <2>2. QED
    BY <1>5, <2>1, RefundBookTypes DEF BooksInv, MoneyTypeOK
<1>6. ASSUME NEW i \in PaymentIds, RefundCall(i) PROVE GivesBack(e, t)
  <2>1. PICK amount \in Int, s \in {"Held", "Refunded"} : RefundOf(i, amount, s)
    BY <1>6, RefundCalls DEF BooksInv, DisputeInv
  <2>2. /\ payments[i] # None /\ BookRefund(i, amount)
        /\ tokenRevenue' = [tokenRevenue EXCEPT
             ![payments[i].event][payments[i].token] = @ - amount]
    BY <2>1 DEF RefundOf, HasStatus, RefundFromRevenue
  <2>3. tokenRevenue'[e][t] = IF payments[i].event = e /\ payments[i].token = t
                              THEN tokenRevenue[e][t] - amount ELSE tokenRevenue[e][t]
    BY <2>2 DEF BooksInv, MoneyTypeOK
  <2> DEFINE given == IF payments[i].event = e /\ payments[i].token = t THEN amount ELSE 0
  <2>4. given \in Nat
    BY <1>5, <2>2
  <2>5. /\ tokenRevenue'[e][t] = tokenRevenue[e][t] - given
        /\ totalRefunds'[e][t] = totalRefunds[e][t] + given
    BY <1>1, <1>5, <2>2, <2>3
  <2> HIDE DEF given
  <2>6. QED
    BY <2>4, <2>5 DEF GivesBack
<1>7. ASSUME NEW i \in PaymentIds, ApproveRefund(i) PROVE Keeps(e, t)
  <2> DEFINE amount == payments[i].amount - payments[i].refunded_amount
  <2>1. payments[i] # None /\ BookRefund(i, amount) /\ UNCHANGED tokenRevenue
    BY <1>7 DEF ApproveRefund, HasStatus
  <2>2. amount \in Int
    BY <2>1, RefundAmountTypes DEF BooksInv, DisputeInv
  <2> HIDE DEF amount
  <2>3. QED
    BY <1>1, <1>5, <2>1, <2>2 DEF Keeps
<1>8. ASSUME NEW i \in PaymentIds, payments[i] # None
      PROVE  payments[i].event \in Events /\ payments[i].token \in Tokens
               /\ payments[i].amount \in Nat
  BY <1>8, PaymentFields DEF BooksInv, DisputeInv, RecordsTypeOK
<1>9. ASSUME NEW i \in PaymentIds, RaiseDispute(i) PROVE Keeps(e, t) \/ SetsAside(e, t)
  <2>1. /\ payments[i] # None /\ dispute[i] = None /\ UNCHANGED totalRefunds
        /\ dispute' = [dispute EXCEPT ![i] = now]
        /\ tokenRevenue' = [tokenRevenue EXCEPT
             ![payments[i].event][payments[i].token] = @ - payments[i].amount]
    BY <1>9 DEF RaiseDispute, HasStatus
  <2>2. dispute'[i] # None
    BY <2>1, ConstantsAssumption
       DEF BooksInv, DisputeInv, RecordsTypeOK, DisputeTypeOK, AdminTypeOK
  <2>3. CASE payments[i].event = e /\ payments[i].token = t
    <3>1. i \in PaymentsOf(e, t)
      BY <2>1, <2>3 DEF PaymentsOf, Made
    <3>2. tokenRevenue'[e][t] = tokenRevenue[e][t] - payments[i].amount
      BY <2>1, <2>3 DEF BooksInv, MoneyTypeOK
    <3>3. QED
      BY <2>1, <2>2, <3>1, <3>2 DEF SetsAside
  <2>4. CASE ~ (payments[i].event = e /\ payments[i].token = t)
    <3>1. tokenRevenue'[e][t] = tokenRevenue[e][t]
      BY <2>1, <2>4 DEF BooksInv, MoneyTypeOK
    <3>2. QED
      BY <1>2, <2>1, <3>1
  <2>5. QED
    BY <2>3, <2>4
<1>10. ASSUME NEW i \in PaymentIds, RejectDispute(i) PROVE Keeps(e, t)
  <2>1. /\ payments[i] # None /\ UNCHANGED totalRefunds
        /\ tokenRevenue' = [tokenRevenue EXCEPT
             ![payments[i].event][payments[i].token] = @ + payments[i].amount]
    BY <1>10 DEF RejectDispute, HasStatus
  <2>2. tokenRevenue'[e][t] = IF payments[i].event = e /\ payments[i].token = t
                              THEN tokenRevenue[e][t] + payments[i].amount
                              ELSE tokenRevenue[e][t]
    BY <2>1 DEF BooksInv, MoneyTypeOK
  <2>3. QED
    BY <1>1, <1>8, <2>1, <2>2 DEF Keeps
<1>11. ASSUME NEW i \in PaymentIds,
              (\E c \in EmailCommitments : BindEmailCommitment(i, c)) \/ ResaleCall(i)
       PROVE  Keeps(e, t)
  BY <1>2, <1>11 DEF BindEmailCommitment, ResaleCall, ListTicketForResale, DelistTicket, bookVars
<1>12. ASSUME NEW i \in PaymentIds, NEW u \in Users, BuyResaleTicket(i, u) PROVE Keeps(e, t)
  <2>1. PICK d \in Events, fee \in Nat, royalty \in Nat, kept \in Nat :
          Resold(d, fee, royalty, kept)
    BY <1>12, Resales DEF BooksInv, DisputeInv
  <2>2. tokenRevenue'[e][t] = IF d = e /\ t = AcceptedToken
                              THEN tokenRevenue[e][t] + royalty ELSE tokenRevenue[e][t]
    BY <2>1 DEF Resold, BooksInv, MoneyTypeOK
  <2>3. QED
    BY <1>1, <2>1, <2>2 DEF Resold, Keeps
<1>13. ASSUME NEW d \in Events, status[d] # "Postponed", NEW paid, NEW left,
              SetRevenue(d, paid, left), UNCHANGED totalRefunds
       PROVE  Keeps(e, t)
  <2>1. tokenRevenue'[e] = tokenRevenue[e]
    BY <1>13 DEF SetRevenue, BooksInv, MoneyTypeOK
  <2>2. QED
    BY <1>2, <1>13, <2>1
<1>14. ASSUME NEW d \in Events, EscrowCall(d) PROVE Keeps(e, t)
  <2>1. CASE ProcessDisputeTimeouts(d)
    <3>1. /\ tokenRevenue' = [tokenRevenue EXCEPT ![d] =
               [s \in Tokens |-> RevenueAfterTimeouts(d, s)]]
          /\ UNCHANGED totalRefunds
      BY <2>1 DEF ProcessDisputeTimeouts
    <3>2. tokenRevenue'[e][t] = IF d = e THEN RevenueAfterTimeouts(e, t) ELSE tokenRevenue[e][t]
      BY <3>1 DEF BooksInv, MoneyTypeOK
    <3>3. QED
      BY <1>1, <3>1, <3>2, RestoredRevenue DEF Keeps
  <2>2. ASSUME NEW s, NEW total, NEW fee, NEW left, PaidOut(d, s, total, fee, left)
        PROVE  Keeps(e, t)
    BY <1>13, <2>2 DEF PaidOut
  <2>3. CASE Drained(d)
    BY <1>13, <2>3 DEF Drained, DrainAllTokens
  <2>4. CASE WithdrawPlatformRevenue(d)
    BY <1>2, <2>4 DEF WithdrawPlatformRevenue, PayoutFrame
  <2>5. QED
    BY <1>14, <2>1, <2>2, <2>3, <2>4, EscrowCalls
<1>15. ASSUME NEW d \in Events, NEW u \in Users, SplitCall(d, u) PROVE Keeps(e, t)
  <2>1. CASE SharePaid(d, u)
    <3>1. EnsureSplitSettled(d) /\ UNCHANGED totalRefunds
      BY <2>1 DEF SharePaid
    <3>2. \/ UNCHANGED tokenRevenue
          \/ \E left : status[d] # "Postponed" /\ SetRevenue(d, {AcceptedToken}, left)
      BY <3>1, Settlements DEF Settled
    <3>3. QED
      BY <1>2, <1>13, <3>1, <3>2
  <2>2. CASE UNCHANGED <<payments, disputeVars, bookVars, splits, settlement, splitWithdrawn>>
    BY <1>2, <2>2 DEF bookVars
  <2>3. QED
    BY <1>15, <2>1, <2>2, SplitCalls
<1>16. QED
  BY <1>3, <1>4, <1>6, <1>7, <1>9, <1>10, <1>11, <1>12, <1>14, <1>15, StepKinds

\* While an event is Postponed no call pays anything out of its escrow: what
\* leaves its revenue went back to an attendee or is set aside in a dispute.
THEOREM EscrowStaysFrozen == Spec => EscrowFrozenWhilePostponed
<1>1. ASSUME BooksInv, BooksInv', [Next]_vars, NEW e \in Events, NEW t \in Tokens,
             status[e] = "Postponed"
      PROVE  tokenRevenue[e][t] - tokenRevenue'[e][t]
               <= (totalRefunds'[e][t] - totalRefunds[e][t])
                  + SumFunction([i \in {j \in PaymentsOf(e, t) :
                                          dispute[j] = None /\ dispute'[j] # None} |->
                                   payments[i].amount])
  <2> DEFINE T == {j \in PaymentsOf(e, t) : dispute[j] = None /\ dispute'[j] # None}
             aside == SumFunction([i \in T |-> payments[i].amount])
  <2>1. T \in SUBSET PaymentIds /\ \A i \in T : payments[i] # None
    BY DEF PaymentsOf, Made
  <2>2. aside \in Nat /\ \A i \in T : payments[i].amount <= aside
    BY <1>1, <2>1, AmountsAddUp DEF BooksInv, DisputeInv, RecordsTypeOK
  <2>3. \A i \in T : payments[i].amount \in Nat
    BY <1>1, <2>1, PaymentFields DEF BooksInv, DisputeInv, RecordsTypeOK
  <2>4. /\ tokenRevenue[e][t] \in Int /\ totalRefunds[e][t] \in Int
        /\ tokenRevenue'[e][t] \in Int /\ totalRefunds'[e][t] \in Int
    BY <1>1 DEF BooksInv, MoneyTypeOK
  <2>5. SetsAside(e, t) =>
          \E i \in T : /\ tokenRevenue'[e][t] = tokenRevenue[e][t] - payments[i].amount
                       /\ totalRefunds'[e][t] = totalRefunds[e][t]
    BY DEF SetsAside
  <2>6. Keeps(e, t) \/ GivesBack(e, t) \/ SetsAside(e, t)
    BY <1>1, FrozenRevenue
  <2> HIDE DEF aside, T
  <2>7. tokenRevenue[e][t] - tokenRevenue'[e][t]
          <= (totalRefunds'[e][t] - totalRefunds[e][t]) + aside
    BY <2>2, <2>3, <2>4, <2>5, <2>6 DEF Keeps, GivesBack
  <2>8. QED
    BY <2>7 DEF aside, T
<1>2. BooksInv /\ BooksInv' /\ [Next]_vars =>
        [\A e \in Events, t \in Tokens :
           (status[e] = "Postponed" /\ status'[e] = "Postponed") =>
             tokenRevenue[e][t] - tokenRevenue'[e][t]
               <= (totalRefunds'[e][t] - totalRefunds[e][t])
                  + SumFunction([i \in {j \in PaymentsOf(e, t) :
                                          dispute[j] = None /\ dispute'[j] # None} |->
                                   payments[i].amount])]_vars
  BY <1>1
<1>3. QED
  BY <1>2, BooksInvariant, PTL DEF Spec, EscrowFrozenWhilePostponed
=============================================================================
