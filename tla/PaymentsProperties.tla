-------------------------- MODULE PaymentsProperties --------------------------
(***************************************************************************)
(* What must hold of the payments contract, whatever the order of calls.   *)
(***************************************************************************)
EXTENDS Payments

Made == {i \in PaymentIds : payments[i] # None}
PaymentsOf(e, t) == {i \in Made : payments[i].event = e /\ payments[i].token = t}

-----------------------------------------------------------------------------
(* Disputes.                                                               *)

\* A dispute record, the Disputed status and the event's list of disputes are
\* three stores that seven handlers write separately; they always agree, so
\* that no dispute blocks withdraw for ever and none is forgotten by it.
DisputesConsistent ==
  /\ \A i \in PaymentIds : dispute[i] # None <=> HasStatus(i, "Disputed")
  /\ \A e \in Events :
       eventDisputes[e] = {i \in PaymentIds :
                             dispute[i] # None /\ payments[i].event = e}

\* A dispute never outlives the attention of its parties: even if the admin
\* never rules on it, and even while the contract is paused, the funds it
\* froze are released after the timeout by anyone's call.
DisputesEnd == \A i \in PaymentIds : dispute[i] # None ~> dispute[i] = None

-----------------------------------------------------------------------------
(* Refunds.                                                                *)

\* Over partial refunds, claims, postponement refunds and disputes, in any
\* order, no payment gives back more than was paid, and a payment that stores
\* no payer (Private, Anonymous) gives back nothing on chain.
RefundsBounded ==
  \A i \in Made :
    /\ 0 <= payments[i].refunded_amount
    /\ payments[i].refunded_amount <= payments[i].amount
    /\ payments[i].level # "Standard" => payments[i].refunded_amount = 0

\* Once Refunded, a payment is never disputed, refunded or released again, and
\* takes no receipt commitment: no later call changes its record.
RefundedIsFinal ==
  [][\A i \in PaymentIds : HasStatus(i, "Refunded") => payments'[i] = payments[i]]_vars

\* What a payment is - event, payer, price, token, privacy - never changes,
\* and a receipt commitment, once bound, is never replaced.
PaymentIdentityFixed ==
  [][\A i \in Made :
       /\ payments'[i] # None
       /\ \A f \in {"event", "payer", "amount", "token", "level",
                    "nullifier_commitment"} : payments'[i][f] = payments[i][f]
       /\ payments[i].zk_email_commitment # None =>
            payments'[i].zk_email_commitment = payments[i].zk_email_commitment]_vars

-----------------------------------------------------------------------------
(* The books.                                                              *)

\* The running totals that validate_revenue_invariant reads are the sums of
\* the payment records, although nothing ever recomputes them.
TotalsMatchPayments ==
  \A e \in Events, t \in Tokens :
    /\ totalVolume[e][t] = SumFunction([i \in PaymentsOf(e, t) |-> payments[i].amount])
    /\ totalRefunds[e][t] =
         SumFunction([i \in PaymentsOf(e, t) |-> payments[i].refunded_amount])
    /\ PaymentsOf(e, t) # {} => t \in eventTokens[e]

BooksNet(t) ==
  SumFunction([e \in Events |->
    totalVolume[e][t] - totalRefunds[e][t] - totalWithdrawn[e][t]])

\* Without resales the contract holds of each token exactly what the books of
\* all events say: every transfer is booked once, on one event, in its token.
BalanceMatchesBooks == \A t \in Tokens : balance[t] = BooksNet(t)

\* A settled split's net amount that no recipient was paid yet.
UnpaidSettlement(e) ==
  IF settlement[e] = None THEN 0
  ELSE settlement[e] - SumFunction(splitWithdrawn[e])

\* What is in dispute of event e in token t.
Disputed(e, t) ==
  SumFunction([i \in {j \in PaymentsOf(e, t) : payments[j].status = "Disputed"} |->
                 payments[i].amount])

\* The revenue counter of an event is what its volume leaves after refunds,
\* payouts, accrued fees, unpaid split shares and disputed payments.
RevenueMatchesBooks ==
  \A e \in Events, t \in Tokens :
    tokenRevenue[e][t]
      = totalVolume[e][t] - totalRefunds[e][t] - totalWithdrawn[e][t]
          - Disputed(e, t)
          - (IF t = AcceptedToken THEN platformRevenue[e] + UnpaidSettlement(e) ELSE 0)

\* Resale fees and royalties enter no running total; with them too, the
\* contract holds all it still owes: the revenue of every event, the payments
\* in dispute, the accrued platform fees and the unpaid split shares.
PromisesCovered ==
  \A t \in Tokens :
    SumFunction([e \in Events |->
      tokenRevenue[e][t] + Disputed(e, t)
        + (IF t = AcceptedToken THEN platformRevenue[e] + UnpaidSettlement(e) ELSE 0)])
    <= balance[t]

\* No event is paid out beyond its own volume at the expense of the others:
\* the books of every single event stay covered by what the event brought in.
EventsStaySolvent ==
  \A e \in Events, t \in Tokens :
    totalVolume[e][t] - totalRefunds[e][t] - totalWithdrawn[e][t] >= 0

-----------------------------------------------------------------------------
(* Payouts.                                                                *)

\* withdraw, withdraw_revenue and the split settlement settle an event at most
\* once between them: after that the event's latch stays, its split settlement
\* stays, and no further platform fee is taken from its escrow, even when later
\* sales refund it or the event contract syncs its terms again.
SettledOnce ==
  [][\A e \in Events :
       /\ Latched(e) => Latched(e)'
       /\ settlement[e] # None => settlement'[e] = settlement[e]
       /\ (Latched(e) \/ settlement[e] # None) =>
            \/ platformRevenue'[e] <= platformRevenue[e]
            \/ resaleListing' # resaleListing]_vars

\* While an event is Postponed its escrow only shrinks by refunds to its
\* attendees and by the disputes they raise.
EscrowFrozenWhilePostponed ==
  [][\A e \in Events, t \in Tokens :
       (status[e] = "Postponed" /\ status'[e] = "Postponed") =>
         tokenRevenue[e][t] - tokenRevenue'[e][t]
           <= (totalRefunds'[e][t] - totalRefunds[e][t])
              + SumFunction([i \in {j \in PaymentsOf(e, t) :
                                      dispute[j] = None /\ dispute'[j] # None} |->
                               payments[i].amount])]_vars

\* Withdrawals of every kind are frozen while an event is Postponed.
NoWithdrawalWhilePostponed ==
  [][\A e \in Events, t \in Tokens :
       status[e] = "Postponed" => totalWithdrawn'[e][t] = totalWithdrawn[e][t]]_vars

\* What the attendees of a cancelled event may still claim.
ClaimableBy(e, t) ==
  SumFunction([i \in {j \in PaymentsOf(e, t) :
                        /\ HasStatus(j, "Held")
                        /\ payments[j].payer # None
                        /\ CancelledRemainder(j) > 0} |-> CancelledRemainder(i)])

\* However the organizer's withdrawal and the attendees' claims interleave, a
\* cancelled event keeps the remainder its attendees may still claim.
AttendeeShareStaysEscrowed ==
  \A e \in Events, t \in Tokens :
    status[e] = "Cancelled" =>
      totalVolume[e][t] - totalRefunds[e][t] - totalWithdrawn[e][t]
        >= ClaimableBy(e, t)

\* The same, of an event whose attendees got back, before it was cancelled or
\* through disputes, no more than the cancellation leaves them: then the
\* organizer's pool never reaches into what the others may still claim.
AttendeeShareCovered ==
  \A e \in Events, t \in Tokens :
    (/\ status[e] = "Cancelled"
     /\ \A i \in PaymentsOf(e, t) :
          payments[i].refunded_amount <= Share(payments[i].amount, RefundRatio(e)))
    => totalVolume[e][t] - totalRefunds[e][t] - totalWithdrawn[e][t]
         >= ClaimableBy(e, t)

\* A Postponed event can still be cancelled outright, on the full-refund path.
PostponedCancelRefundsInFull ==
  [][\A e \in Events :
       (status[e] = "Postponed" /\ status'[e] = "Cancelled") =>
         config'[e].withdrawable_ratio_bps = 0]_vars

\* The recipients of a split are paid no more than the settlement between
\* them, and exactly the settlement once all are paid: no dust is stranded,
\* whatever the order of withdrawals, flags and reassignments.
SplitPaidExactly ==
  \A e \in Events :
    LET paid == SumFunction(splitWithdrawn[e]) IN
    /\ paid > 0 => settlement[e] # None /\ paid <= settlement[e]
    /\ (splits[e] # <<>> /\ \A u \in Recipients(e) : splitWithdrawn[e][u] > 0) =>
         paid = settlement[e]

\* A flagged share stays in escrow: no recipient is flagged and paid at once.
FlaggedShareFrozen ==
  \A e \in Events, u \in Users : splitFlagged[e][u] => splitWithdrawn[e][u] = 0

-----------------------------------------------------------------------------
(* Purchases and tickets.                                                  *)

\* Every payment used up a request of its own - the key that is looked up is
\* the key that is stored, for each privacy level - and no nullifier
\* commitment was spent twice.
RequestsUsedOnce ==
  /\ Cardinality(usedNonces) = Cardinality(Made)
  /\ \A i, j \in Made :
       (payments[i].nullifier_commitment # None
          /\ payments[i].nullifier_commitment = payments[j].nullifier_commitment)
       => i = j

\* A synced event never sells more than its supply, and its count of sales
\* counts every payment made since, refunded ones included.
SupplyRespected ==
  \A e \in Events :
    config[e] # None =>
      LET c == config[e]
          sold == Cardinality({i \in Made : payments[i].event = e})
      IN /\ c.sold_count <= sold
         /\ c.terms.max_supply > 0 => c.sold_count <= c.terms.max_supply

\* Through purchases and resales, the owner index lists each ticket exactly
\* once, under the owner the ticket names.
OwnerIndexMatchesTickets ==
  /\ \A i \in PaymentIds, u \in Users :
       owner[i] = u <=> \E k \in DOMAIN ownerTickets[u] : ownerTickets[u][k] = i
  /\ \A u \in Users : \A j, k \in DOMAIN ownerTickets[u] :
       ownerTickets[u][j] = ownerTickets[u][k] => j = k

\* A listing is always by the present owner: the ownership check of
\* buy_resale_ticket never fails on a stale listing.
ListingsByOwner ==
  \A i \in PaymentIds :
    resaleListing[i] # None => resaleListing[i].seller = owner[i]
=============================================================================
