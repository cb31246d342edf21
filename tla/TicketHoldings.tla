---------------------------- MODULE TicketHoldings ----------------------------
(***************************************************************************)
(* What the ticket registry promises its callers: every issued ticket is   *)
(* held by exactly one address until it is used or cancelled, and is then  *)
(* out of circulation for ever.  How a wallet's tickets are looked up is   *)
(* the business of TicketRegistry, which implements this.                  *)
(***************************************************************************)
CONSTANTS
  Users,       \* addresses that may hold a ticket
  TicketIds    \* ids of tickets

VARIABLES
  held,        \* the tickets each address gets to see as its own
  circulation  \* "unissued", "Valid", "Used" or "Cancelled" for each ticket

Init ==
  /\ held = [u \in Users |-> {}]
  /\ circulation = [i \in TicketIds |-> "unissued"]

\* New tickets, one or a batch, reach their first holder.
Issue(u, new) ==
  /\ new # {} /\ \A i \in new : circulation[i] = "unissued"
  /\ held' = [held EXCEPT ![u] = @ \cup new]
  /\ circulation' = [i \in TicketIds |-> IF i \in new THEN "Valid" ELSE circulation[i]]

\* A valid ticket changes hands: it leaves one holder and reaches another.
HandOver(i, from, to) ==
  /\ circulation[i] = "Valid" /\ i \in held[from] /\ from # to
  /\ held' = [held EXCEPT ![from] = @ \ {i}, ![to] = @ \cup {i}]
  /\ UNCHANGED circulation

\* A valid ticket is used at the door or given up; its holder keeps it.
Retire(i, final) ==
  /\ circulation[i] = "Valid"
  /\ circulation' = [circulation EXCEPT ![i] = final]
  /\ UNCHANGED held

Next ==
  \/ \E u \in Users, new \in SUBSET TicketIds : Issue(u, new)
  \/ \E i \in TicketIds, from, to \in Users : HandOver(i, from, to)
  \/ \E i \in TicketIds, final \in {"Used", "Cancelled"} : Retire(i, final)

Spec == Init /\ [][Next]_<<held, circulation>>
=============================================================================
