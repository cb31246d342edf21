------------------------------ MODULE MCPayments ------------------------------
(***************************************************************************)
(* Values of the constants for the model-checked instances of the payments *)
(* contract.                                                               *)
(***************************************************************************)
EXTENDS PaymentsProperties

CONSTANTS org, amy, bob   \* an organizer and two attendees

\* An event of ledgers 1 to 3 with room for all buyers.
ShortEvent ==
  [organizer |-> org, max_tickets_per_user |-> 0, max_supply |-> 0,
   event_start_ledger |-> 1, event_end_ledger |-> 3,
   withdrawal_delay_ledgers |-> 1, resale_royalty_bps |-> 1000,
   max_resale_price |-> None]

TermsShort == {ShortEvent}

\* An event of ledgers 1 and 2, put off by a ledger when it was postponed: its
\* first disputes time out while it is paid out.
TermsMoved == {[ShortEvent EXCEPT !.event_end_ledger = end] : end \in {2, 3}}

\* An event that is over when it starts: every timing rule is about ledger 0.
TermsInstant ==
  {[ShortEvent EXCEPT !.event_start_ledger = 0, !.event_end_ledger = 0,
                      !.withdrawal_delay_ledgers = 0]}

\* One seat, one ticket a user, a resale price cap; a sale before the event is
\* synced does not count.
TermsCapped ==
  {[ShortEvent EXCEPT !.max_supply = 1, !.max_tickets_per_user = 1,
                      !.max_resale_price = 20]}

\* The organizer and two co-hosts, with shares that leave dust; and rows that
\* must be refused: a wrong primary, a sum that is short.
Thirds ==
  {<<[recipient |-> org, basis_points |-> 3334],
     [recipient |-> amy, basis_points |-> 3333],
     [recipient |-> bob, basis_points |-> 3333]>>,
   <<[recipient |-> amy, basis_points |-> 10000]>>,
   <<[recipient |-> org, basis_points |-> 9999]>>}

NoSplitTables == {}

\* The default privacy rules and the strictest ones.
StrictPrivacy == {[allow_anonymous |-> FALSE, requires_verification |-> TRUE]}

JustNone == {None}
AllOrFour == {None, 4}
=============================================================================
