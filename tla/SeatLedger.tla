------------------------------- MODULE SeatLedger -------------------------------
(***************************************************************************)
(* What the event contract promises about seats, without the counters it   *)
(* keeps: a seat is sold, held by one named user until the hold expires,   *)
(* or free, and nobody else's call takes a seat that is held.              *)
(***************************************************************************)
EXTENDS Integers, Sequences, FiniteSets

CONSTANTS
  Users,
  Events,
  None,
  HoldTime  \* how long a hold lasts

VARIABLES
  now,
  capacity,  \* seats of each tier of each event
  sold,      \* how many of them are sold
  hold,      \* the tier and the last ledger of each user's hold, or None
  guests     \* who is registered for each event

ledger == <<now, capacity, sold, hold, guests>>

Holders(e, k) == {u \in Users : hold[e][u] # None /\ hold[e][u].tier = k}

\* n more seats of the tier are neither sold nor held.
Free(e, k, n) == sold[e][k] + Cardinality(Holders(e, k)) + n <= capacity[e][k]

Lapsed(e, u) == hold[e][u] # None /\ hold[e][u].expires_at <= now

Init ==
  /\ now = 0
  /\ capacity = [e \in Events |-> <<>>]
  /\ sold = [e \in Events |-> <<>>]
  /\ hold = [e \in Events |-> [u \in Users |-> None]]
  /\ guests = [e \in Events |-> {}]

Tick == now' = now + 1 /\ UNCHANGED <<capacity, sold, hold, guests>>

\* The seats of an event change only while all of them are free.
Plan(e) ==
  /\ \A k \in DOMAIN sold[e] : sold[e][k] = 0
  /\ \A u \in Users : hold[e][u] = None
  /\ capacity' \in [Events -> Seq(Nat)]
  /\ \A f \in Events \ {e} : capacity'[f] = capacity[f]
  /\ sold' = [sold EXCEPT ![e] = [k \in DOMAIN capacity'[e] |-> 0]]
  /\ UNCHANGED <<now, hold, guests>>

\* The seat comes from the free ones, or is the one whose hold has lapsed.
Hold(e, u, k) ==
  /\ u \notin guests[e]
  /\ hold[e][u] = None \/ Lapsed(e, u)
  /\ k \in DOMAIN capacity[e]
  /\ Free(e, k, IF u \in Holders(e, k) THEN 0 ELSE 1)
  /\ hold' = [hold EXCEPT ![e][u] = [tier |-> k, expires_at |-> now + HoldTime]]
  /\ UNCHANGED <<now, capacity, sold, guests>>

Release(e, u) ==
  /\ Lapsed(e, u)
  /\ hold' = [hold EXCEPT ![e][u] = None]
  /\ UNCHANGED <<now, capacity, sold, guests>>

\* A buyer uses up its own hold, and no other.
Sell(e, u, k) ==
  /\ hold[e][u] # None => u \in Holders(e, k) /\ hold[e][u].expires_at >= now
  /\ k \in DOMAIN capacity[e]
  /\ \E n \in 1..capacity[e][k] :
       /\ Free(e, k, IF u \in Holders(e, k) THEN n - 1 ELSE n)
       /\ sold' = [sold EXCEPT ![e][k] = @ + n]
  /\ hold' = [hold EXCEPT ![e][u] = None]
  /\ guests' = [guests EXCEPT ![e] = @ \cup {u}]
  /\ UNCHANGED <<now, capacity>>

\* A seat taken with a proof leaves no name.
SellUnnamed(e, k) ==
  /\ k \in DOMAIN capacity[e]
  /\ Free(e, k, 1)
  /\ sold' = [sold EXCEPT ![e][k] = @ + 1]
  /\ UNCHANGED <<now, capacity, hold, guests>>

\* A guest may leave; the seat stays sold.
Leave(e, u) ==
  /\ guests' = [guests EXCEPT ![e] = @ \ {u}]
  /\ UNCHANGED <<now, capacity, sold, hold>>

Next ==
  \/ Tick
  \/ \E e \in Events :
       \/ Plan(e)
       \/ \E u \in Users : Release(e, u) \/ Leave(e, u)
       \/ \E k \in DOMAIN capacity[e] :
            \/ SellUnnamed(e, k)
            \/ \E u \in Users : Hold(e, u, k) \/ Sell(e, u, k)

Spec == Init /\ [][Next]_ledger
=============================================================================
