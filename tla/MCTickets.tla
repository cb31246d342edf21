------------------------------ MODULE MCTickets ------------------------------
(***************************************************************************)
(* The model-checked instance of the ticket registry.  Users are           *)
(* interchangeable, and so are events: no definition names one.            *)
(***************************************************************************)
EXTENDS TicketRegistry, TLC

Interchangeable == Permutations(Users) \cup Permutations(Events)
=============================================================================
