------------------------------ MODULE MCBoxOffice ------------------------------
(***************************************************************************)
(* The three contracts together, for TLC: one event with a tier of two     *)
(* paid seats, which may become free and to which a free tier may then be  *)
(* added, its organizer and an attendee.  Sales, postponement, refunds,    *)
(* cancellation and payouts interleave without restriction; of the things  *)
(* Detours lists, a behaviour goes on from at most one at a time.          *)
(***************************************************************************)
EXTENDS BoxOffice

CONSTANTS org, amy, e1, n1, c1

PaidTier == [price |-> 10, capacity |-> 2]
FreeTier == [price |-> 0, capacity |-> 1]

Concert ==
  [organizer |-> org,
   details |-> [max_tickets_per_user |-> 2, resale_royalty_bps |-> 0,
                max_resale_price |-> None, allow_anonymous |-> TRUE,
                requires_verification |-> TRUE],
   initial_tiers |-> <<PaidTier>>, privacy_level |-> "Standard",
   event_start_ledger |-> 0, event_end_ledger |-> 1,
   withdrawal_delay_ledgers |-> 0, revenue_splits |-> <<>>]

\* One whose revenue the organizer shares with a co-host.
SharedConcert ==
  [Concert EXCEPT
     !.revenue_splits = <<[recipient |-> org, basis_points |-> 5000],
                          [recipient |-> amy, basis_points |-> 5000]>>]

MCOffers == {Concert, SharedConcert}
JustConcert == {Concert}

MCChanges == {[Concert.details EXCEPT !.max_tickets_per_user = 0]}

MCTiers == {FreeTier}

MCClaims == {[nullifier |-> n1, ticket_commitment |-> c1, expiry_ledger |-> 1]}

MCMints == {[organizer |-> org, owner |-> amy, count |-> 1]}
-----------------------------------------------------------------------------
(* A bound on the states to go on from.                                    *)

\* Somebody attends the event without holding a valid ticket, or the reverse.
TicketsMoved ==
  \E u \in Users :
    (u \in registered[e1])
      # (\E j \in DOMAIN walletTickets[u] : Tix!IsValid(walletTickets[u][j]))

Count(b) == IF b THEN 1 ELSE 0

\* How much a state shows of what is off or unused in a plain sale.
Detours ==
  Count(paused) + Count(verifierSet) + Count(zkEnabled[e1])
  + Count(event[e1] # None /\ event[e1].terms.max_tickets_per_user = 0)
  + Count(event[e1] # None /\ event[e1].revenue_splits # <<>>)
  + Count(~AgreeOnStatus(e1))
  + Count(SeatsWithoutTicket(e1) # 0 \/ Uncovered(e1) # 0)
  + Count(\E u \in Users : reservation[e1][u] # None)
  + Count(\/ recoveryKey # {}
          \/ \E i \in Tix!TicketIds : ticket[i] # None /\ ticket[i].status = "Used"
          \/ TicketsMoved)

OneDetour == Detours <= 1
=============================================================================
