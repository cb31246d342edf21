----------------------------- MODULE RevenueSplits -----------------------------
(***************************************************************************)
(* The validation of a revenue split that the event contract and the       *)
(* payments contract share (contracts/common-utils).                       *)
(***************************************************************************)
EXTENDS Integers, Sequences, FiniteSetsExt

\* A split an event of this organizer may have: at most five rows, the
\* organizer first, nobody twice, no empty row, all of the revenue.
ValidSplits(rows, organizer) ==
  /\ Len(rows) \in 1..5
  /\ rows[1].recipient = organizer
  /\ \A j, k \in DOMAIN rows : rows[j].recipient = rows[k].recipient => j = k
  /\ \A k \in DOMAIN rows : rows[k].basis_points > 0
  /\ SumFunction([k \in DOMAIN rows |-> rows[k].basis_points]) = 10000
=============================================================================
