-------------------------------- MODULE Refunds --------------------------------
(***************************************************************************)
(* The ways a payment goes back to its payer - the admin's refund, the     *)
(* claim after a cancellation, the choice after a postponement, an         *)
(* approved dispute - and the life of a dispute, including its release by  *)
(* timeout, which every payout also performs.                              *)
(***************************************************************************)
EXTENDS PaymentsState

-----------------------------------------------------------------------------
(* Disputes that timed out.                                                *)

\* The tickets of event e whose dispute nobody resolved in time.
TimedOut(e) ==
  {i \in eventDisputes[e] :
     dispute[i] # None /\ now >= dispute[i] + DISPUTE_TIMEOUT_LEDGERS}

\* The list process_timed_out_disputes leaves: it is rewritten only when some
\* dispute timed out, and then keeps those that still have a record.
OpenDisputes(e) ==
  IF TimedOut(e) = {} THEN eventDisputes[e]
  ELSE {i \in eventDisputes[e] : dispute[i] # None} \ TimedOut(e)

\* The payments that go back to Held.
Reinstated(e) == {i \in TimedOut(e) : HasStatus(i, "Disputed")}

\* The revenue of event e in token t once its timed-out disputes are released.
RevenueAfterTimeouts(e, t) ==
  tokenRevenue[e][t]
    + SumFunction([i \in {j \in Reinstated(e) : payments[j].token = t} |->
                     payments[i].amount])

\* Mutant: the dispute leaves the event's list but keeps its record.
ReleaseListOnly(e) ==
  /\ eventDisputes' = [eventDisputes EXCEPT ![e] = OpenDisputes(e)]
  /\ UNCHANGED <<payments, dispute>>

\* process_timed_out_disputes, apart from the revenue it restores.
ReleaseTimedOut(e) ==
  /\ payments' = [i \in PaymentIds |->
                    IF i \in Reinstated(e)
                    THEN [payments[i] EXCEPT !.status = "Held"] ELSE payments[i]]
  /\ dispute' = [i \in PaymentIds |-> IF i \in TimedOut(e) THEN None ELSE dispute[i]]
  /\ eventDisputes' = [eventDisputes EXCEPT ![e] = OpenDisputes(e)]

\* validate_revenue_invariant: the one event's books against the whole balance.
RevenueInvariant(e) ==
  \A t \in eventTokens[e] :
    balance[t] >= totalVolume[e][t] - totalRefunds[e][t] - totalWithdrawn[e][t]

\* process_dispute_timeouts: anyone, and not stopped by a pause.
ProcessDisputeTimeouts(e) ==
  /\ TimedOut(e) # {}
  /\ ReleaseTimedOut(e)
  /\ tokenRevenue' = [tokenRevenue EXCEPT ![e] =
                        [t \in Tokens |-> RevenueAfterTimeouts(e, t)]]
  /\ UNCHANGED <<now, adminVars, eventVars, saleVars, ticketVars, totalVolume,
                 totalRefunds, totalWithdrawn, eventTokens, platformRevenue,
                 balance, splitVars>>

-----------------------------------------------------------------------------
(* Refunds.                                                                *)

\* The share of a cancelled event's payments that is refundable.
RefundRatio(e) ==
  IF config[e] = None \/ config[e].withdrawable_ratio_bps = None THEN 10000
  ELSE 10000 - config[e].withdrawable_ratio_bps

\* Mutant: what was already refunded is forgotten.
CancelledShare(i) == Share(payments[i].amount, RefundRatio(payments[i].event))

\* What remains refundable of payment i when its event is cancelled.
CancelledRemainder(i) ==
  Share(payments[i].amount, RefundRatio(payments[i].event))
    - payments[i].refunded_amount

\* Mutant: the refund is not booked.
SendRefund(i, amount) ==
  /\ SendOut(payments[i].token, amount)
  /\ UNCHANGED <<totalRefunds, totalVolume, totalWithdrawn, eventTokens,
                 platformRevenue>>

\* Money of payment i goes out and is booked as refunded.
BookRefund(i, amount) ==
  LET e == payments[i].event
      t == payments[i].token
  IN /\ SendOut(t, amount)
     /\ totalRefunds' = [totalRefunds EXCEPT ![e][t] = @ + amount]
     /\ UNCHANGED <<totalVolume, totalWithdrawn, eventTokens, platformRevenue>>

\* BookRefund for a payment whose amount is still counted as revenue.
RefundFromRevenue(i, amount) ==
  /\ BookRefund(i, amount)
  /\ tokenRevenue' = [tokenRevenue EXCEPT
       ![payments[i].event][payments[i].token] = @ - amount]

\* The record of payment i after a refund that leaves it with status s.
Refunded(i, amount, s) ==
  payments' = [payments EXCEPT
    ![i].refunded_amount = @ + amount, ![i].status = s]

\* A refund of a payment that is no dispute's subject leaves all this alone.
RefundFrame == UNCHANGED <<now, adminVars, eventVars, saleVars, ticketVars,
                           disputeVars, splitVars>>

\* refund, by the admin: the amount asked for, or all that is refundable.
AdminRefund(i, asked) ==
  LET e == payments[i].event
      max == IF status[e] = "Cancelled" THEN CancelledRemainder(i)
             ELSE payments[i].amount - payments[i].refunded_amount
      amount == IF asked = None THEN max ELSE asked
      total == payments[i].refunded_amount + amount
  IN
  /\ ~paused
  /\ HasStatus(i, "Held")
  /\ payments[i].level = "Standard"
  /\ ~ /\ config[e] # None
       /\ config[e].organizer_withdrawn
       /\ config[e].withdrawable_ratio_bps \in {None, 10000}
  /\ escrowMeta[e] # None => ~escrowMeta[e].auto_released
  /\ 0 < amount /\ amount <= max
  /\ Refunded(i, amount, IF total = payments[i].amount THEN "Refunded" ELSE "Held")
  /\ RefundFromRevenue(i, amount)
  /\ RefundFrame

\* claim_refund, by the payer of a cancelled event; not stopped by a pause.
ClaimRefund(i) ==
  /\ HasStatus(i, "Held")
  /\ payments[i].payer # None
  /\ status[payments[i].event] = "Cancelled"
  /\ CancelledRemainder(i) > 0
  /\ Refunded(i, CancelledRemainder(i), "Refunded")
  /\ RefundFromRevenue(i, CancelledRemainder(i))
  /\ RefundFrame

\* request_postponement_refund, by the owner of ticket i through the event
\* contract: the money goes to the payer, whoever owns the ticket by then.
RequestPostponementRefund(i) ==
  LET e == payments[i].event
      amount == payments[i].amount - payments[i].refunded_amount
  IN
  /\ ~paused
  /\ HasStatus(i, "Held")
  /\ owner[i] # None
  /\ payments[i].payer # None
  /\ status[e] = "Postponed"
  /\ postponeDeadline[e] # None
  /\ now <= postponeDeadline[e]
  /\ amount > 0
  /\ Refunded(i, amount, "Refunded")
  /\ RefundFromRevenue(i, amount)
  /\ RefundFrame

-----------------------------------------------------------------------------
(* The life of a dispute.                                                  *)

\* raise_dispute, by whoever can authorise for ticket i at its privacy level.
\* The whole amount leaves the revenue, whatever was already refunded.
RaiseDispute(i) ==
  LET e == payments[i].event
      end == config[e].terms.event_end_ledger
  IN
  /\ ~paused
  /\ HasStatus(i, "Held")
  /\ payments[i].level = "Standard" => owner[i] # None
  /\ config[e] # None
  /\ end <= now /\ now < end + ATTENDEE_DISPUTE_WINDOW_LEDGERS
  /\ dispute[i] = None
  /\ payments' = [payments EXCEPT ![i].status = "Disputed"]
  /\ dispute' = [dispute EXCEPT ![i] = now]
  /\ eventDisputes' = [eventDisputes EXCEPT ![e] = @ \cup {i}]
  /\ tokenRevenue' =
       [tokenRevenue EXCEPT ![e][payments[i].token] = @ - payments[i].amount]
  /\ UNCHANGED <<now, adminVars, eventVars, saleVars, ticketVars, totalVolume,
                 totalRefunds, totalWithdrawn, eventTokens, platformRevenue,
                 balance, splitVars>>

\* Mutant: the event's list still names the dispute.
CloseRecordOnly(i) ==
  /\ dispute' = [dispute EXCEPT ![i] = None]
  /\ UNCHANGED eventDisputes

\* The dispute of ticket i is taken off its record and its event's list.
CloseDispute(i) ==
  /\ dispute' = [dispute EXCEPT ![i] = None]
  /\ eventDisputes' = [eventDisputes EXCEPT ![payments[i].event] = @ \ {i}]

\* approve_refund, by the admin before the dispute times out; a payment that
\* stores no payer cannot be refunded on chain.
ApproveRefund(i) ==
  LET amount == payments[i].amount - payments[i].refunded_amount IN
  /\ ~paused
  /\ dispute[i] # None
  /\ now < dispute[i] + DISPUTE_TIMEOUT_LEDGERS
  /\ HasStatus(i, "Disputed")
  /\ payments[i].payer # None
  /\ Refunded(i, amount, "Refunded")
  /\ BookRefund(i, amount)
  /\ CloseDispute(i)
  /\ UNCHANGED <<now, adminVars, eventVars, saleVars, ticketVars, tokenRevenue,
                 splitVars>>

\* reject_dispute, by the admin at any time.
RejectDispute(i) ==
  /\ ~paused
  /\ dispute[i] # None
  /\ HasStatus(i, "Disputed")
  /\ payments' = [payments EXCEPT ![i].status = "Held"]
  /\ tokenRevenue' = [tokenRevenue EXCEPT
       ![payments[i].event][payments[i].token] = @ + payments[i].amount]
  /\ CloseDispute(i)
  /\ UNCHANGED <<now, adminVars, eventVars, saleVars, ticketVars, totalVolume,
                 totalRefunds, totalWithdrawn, eventTokens, platformRevenue,
                 balance, splitVars>>
=============================================================================
