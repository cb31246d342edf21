---------------------------- MODULE TicketRegistry ----------------------------
(***************************************************************************)
(* The ticket contract (contracts/ticket): minting, transfer, use,         *)
(* cancellation and recovery of tickets, and the indexes by owner and by   *)
(* event.  Calls are serial and a failing call leaves no trace, as in      *)
(* PaymentsState: every action below is a call that returned Ok.           *)
(*                                                                         *)
(* An owner's OwnerTicketIndex entries and OwnerTicketsCount are one       *)
(* sequence, slot k of the code being position k + 1; so are an event's.   *)
(* is_transferable, which nothing ever clears, is left out.                *)
(***************************************************************************)
EXTENDS Integers, Sequences

CONSTANTS
  Users,       \* addresses that may organise events or hold tickets
  Events,      \* event ids
  None,        \* an absent entry
  MaxTickets,  \* bound: tickets ever minted
  MaxBatch     \* bound: tickets minted by one batch call, 100 in the code

TicketIds == 1..MaxTickets

Ticket ==
  [event_id: Events, organizer: Users, owner: Users,
   status: {"Valid", "Used", "Cancelled"}, is_used: BOOLEAN]

ASSUME BoundsAssumption == MaxTickets \in Nat /\ MaxBatch \in Nat
ASSUME NoneAssumption == None \notin Ticket

VARIABLES
  initialized,           \* Admin and PaymentsContract are set
  eventContractSet,      \* EventContract is set
  nextTicketId,          \* NextTicketId
  ticket,                \* Ticket of each id, or None
  ownerTicket,           \* OwnerTicket: position in the owner's list, 0 if absent
  ownerTickets,          \* OwnerTicketIndex and OwnerTicketsCount
  eventTickets,          \* EventTicketIndex and EventTicketsCount
  recoveryKey,           \* tickets with a RecoveryKey
  attendanceCredential   \* tickets with an AttendanceCredential

linkVars == <<initialized, eventContractSet>>
indexVars == <<ownerTicket, ownerTickets>>
vars == <<linkVars, nextTicketId, ticket, indexVars, eventTickets, recoveryKey,
          attendanceCredential>>

\* Mutant: read_next_ticket_id starts the counter at 0.
ZerothTicketId == 0

\* What read_next_ticket_id returns before the first write.
FirstTicketId == 1

Init ==
  /\ initialized = FALSE
  /\ eventContractSet = FALSE
  /\ nextTicketId = FirstTicketId
  /\ ticket = [i \in TicketIds |-> None]
  /\ ownerTicket = [u \in Users |-> [i \in TicketIds |-> 0]]
  /\ ownerTickets = [u \in Users |-> <<>>]
  /\ eventTickets = [e \in Events |-> <<>>]
  /\ recoveryKey = {}
  /\ attendanceCredential = {}

-----------------------------------------------------------------------------
(* Links to the other contracts.  set_payments_contract only replaces an   *)
(* address by another and leaves no trace here.                            *)

Initialize ==
  /\ ~initialized
  /\ initialized' = TRUE
  /\ UNCHANGED <<eventContractSet, nextTicketId, ticket, indexVars, eventTickets,
                 recoveryKey, attendanceCredential>>

SetEventContract ==
  /\ initialized
  /\ eventContractSet' = TRUE
  /\ UNCHANGED <<initialized, nextTicketId, ticket, indexVars, eventTickets,
                 recoveryKey, attendanceCredential>>

-----------------------------------------------------------------------------
(* Minting.  Whoever must authorise it - the event contract, the payments  *)
(* contract or the organizer, the first that is set - does.                *)

\* The ids a call that mints n tickets takes from the counter.
NewIds(n) == nextTicketId..(nextTicketId + n - 1)

\* add_owner_ticket and add_event_ticket, n times in a row.
MintTickets(e, organizer, u, n) ==
  LET new == NewIds(n)
      appended == [k \in 1..n |-> nextTicketId + k - 1]
  IN
  /\ new \subseteq TicketIds
  /\ ticket' = [i \in TicketIds |->
       IF i \in new
       THEN [event_id |-> e, organizer |-> organizer, owner |-> u,
             status |-> "Valid", is_used |-> FALSE]
       ELSE ticket[i]]
  /\ ownerTicket' = [ownerTicket EXCEPT ![u] = [i \in TicketIds |->
       IF i \in new THEN Len(ownerTickets[u]) + i - nextTicketId + 1
       ELSE ownerTicket[u][i]]]
  /\ ownerTickets' = [ownerTickets EXCEPT ![u] = @ \o appended]
  /\ eventTickets' = [eventTickets EXCEPT ![e] = @ \o appended]
  /\ nextTicketId' = nextTicketId + n
  /\ UNCHANGED <<linkVars, recoveryKey, attendanceCredential>>

MintTicket(e, organizer, u) == MintTickets(e, organizer, u, 1)

BatchMintTicket(e, organizer, u) ==
  \E n \in 1..MaxBatch : MintTickets(e, organizer, u, n)

-----------------------------------------------------------------------------
(* Changing hands.                                                         *)

\* The ticket is neither used nor cancelled; the code asks for both flags.
IsValid(i) == ticket[i] # None /\ ~ticket[i].is_used /\ ticket[i].status = "Valid"

\* Mutant: the moved ticket keeps the position it had.
WithoutMovedPosition(positions, list, i) == [positions EXCEPT ![i] = 0]

\* The positions once i is removed: the last ticket is told its new one.
PositionsWithout(positions, list, i) ==
  LET at == positions[i]
      last == Len(list)
  IN [positions EXCEPT ![list[last]] = at, ![i] = 0]

\* Mutant: the last slot is dropped and its ticket is not moved.
ListCutShort(list, at) == SubSeq(list, 1, Len(list) - 1)

\* The list once position `at` is removed: the last ticket moves into it.
ListWithout(list, at) ==
  LET last == Len(list)
  IN [k \in 1..(last - 1) |-> IF k = at THEN list[last] ELSE list[k]]

\* remove_owner_ticket(from) and then add_owner_ticket(to).
MoveInIndex(i, from, to) ==
  LET present == ownerTicket[from][i] > 0 /\ Len(ownerTickets[from]) > 0
      positions == IF present
                   THEN [ownerTicket EXCEPT ![from] =
                           PositionsWithout(@, ownerTickets[from], i)]
                   ELSE [ownerTicket EXCEPT ![from][i] = 0]
      lists == IF present
               THEN [ownerTickets EXCEPT ![from] =
                       ListWithout(@, ownerTicket[from][i])]
               ELSE ownerTickets
  IN
  /\ ownerTicket' = [positions EXCEPT ![to][i] = Len(lists[to]) + 1]
  /\ ownerTickets' = [lists EXCEPT ![to] = Append(@, i)]

SetOwner(i, to) ==
  /\ ticket' = [ticket EXCEPT ![i].owner = to]
  /\ MoveInIndex(i, ticket[i].owner, to)

TransferTicket(i, to) ==
  /\ IsValid(i)
  /\ to # ticket[i].owner
  /\ SetOwner(i, to)
  /\ UNCHANGED <<linkVars, nextTicketId, eventTickets, recoveryKey,
                 attendanceCredential>>

\* The payments contract moves a resold ticket, to its owner too if asked.
AdminTransferTicket(i, to) ==
  /\ initialized
  /\ IsValid(i)
  /\ SetOwner(i, to)
  /\ UNCHANGED <<linkVars, nextTicketId, eventTickets, recoveryKey,
                 attendanceCredential>>

SetRecoveryKey(i) ==
  /\ IsValid(i)
  /\ recoveryKey' = recoveryKey \cup {i}
  /\ UNCHANGED <<linkVars, nextTicketId, ticket, indexVars, eventTickets,
                 attendanceCredential>>

\* The key's holder signs for any new owner; the key is spent.
RecoverTicket(i, to) ==
  /\ IsValid(i)
  /\ i \in recoveryKey
  /\ SetOwner(i, to)
  /\ recoveryKey' = recoveryKey \ {i}
  /\ UNCHANGED <<linkVars, nextTicketId, eventTickets, attendanceCredential>>

-----------------------------------------------------------------------------
(* The end of a ticket.                                                    *)

UseTicket(i) ==
  /\ IsValid(i)
  /\ ticket' = [ticket EXCEPT ![i].is_used = TRUE, ![i].status = "Used"]
  /\ attendanceCredential' = attendanceCredential \cup {i}
  /\ UNCHANGED <<linkVars, nextTicketId, indexVars, eventTickets, recoveryKey>>

\* Mutant: a ticket that was used can still be cancelled.
CancelUsedTicket(i) ==
  /\ ticket[i] # None
  /\ ticket[i].status # "Cancelled"
  /\ ticket' = [ticket EXCEPT ![i].status = "Cancelled"]
  /\ UNCHANGED <<linkVars, nextTicketId, indexVars, eventTickets, recoveryKey,
                 attendanceCredential>>

CancelTicket(i) ==
  /\ IsValid(i)
  /\ ticket' = [ticket EXCEPT ![i].status = "Cancelled"]
  /\ UNCHANGED <<linkVars, nextTicketId, indexVars, eventTickets, recoveryKey,
                 attendanceCredential>>

-----------------------------------------------------------------------------
Next ==
  \/ Initialize
  \/ SetEventContract
  \/ \E e \in Events, organizer, u \in Users :
       MintTicket(e, organizer, u) \/ BatchMintTicket(e, organizer, u)
  \/ \E i \in TicketIds, to \in Users :
       TransferTicket(i, to) \/ AdminTransferTicket(i, to) \/ RecoverTicket(i, to)
  \/ \E i \in TicketIds : SetRecoveryKey(i) \/ UseTicket(i) \/ CancelTicket(i)

Spec == Init /\ [][Next]_vars

-----------------------------------------------------------------------------
(* What must hold.                                                         *)

\* Every stored entry is well formed.
TypeOK ==
  /\ initialized \in BOOLEAN
  /\ eventContractSet \in BOOLEAN
  /\ nextTicketId \in 1..(MaxTickets + 1)
  /\ ticket \in [TicketIds -> Ticket \cup {None}]
  /\ ownerTicket \in [Users -> [TicketIds -> Nat]]
  /\ ownerTickets \in [Users -> Seq(TicketIds)]
  /\ eventTickets \in [Events -> Seq(TicketIds)]
  /\ recoveryKey \in SUBSET TicketIds
  /\ attendanceCredential \in SUBSET TicketIds

\* A position entry points at the ticket's slot, and every slot is pointed at.
PointsInto(positions, list) ==
  /\ \A i \in TicketIds :
       positions[i] > 0 => positions[i] <= Len(list) /\ list[positions[i]] = i
  /\ \A k \in 1..Len(list) : positions[list[k]] = k

\* The ticket is u's.
IsOwner(u, i) == ticket[i] # None /\ ticket[i].owner = u

\* The three writes of a change of hands - the ticket, the position entry, the
\* owner's list - agree, and only the owner of a ticket has an entry for it.
OwnerIndexConsistent ==
  \A u \in Users :
    /\ PointsInto(ownerTicket[u], ownerTickets[u])
    /\ \A i \in TicketIds : ownerTicket[u][i] > 0 <=> IsOwner(u, i)

\* The flag, the status and the attendance credential of a ticket, three
\* separate entries, never contradict each other: attendance is provable for
\* the tickets used at the door and for no other.
AttendanceConsistent ==
  \A i \in TicketIds :
    LET used == ticket[i] # None /\ ticket[i].status = "Used"
    IN /\ i \in attendanceCredential <=> used
       /\ ticket[i] # None => (ticket[i].is_used <=> used)

\* What get_tickets_by_owner returns of an owner, and the status of each ticket.
HeldBy(u) == {ownerTickets[u][k] : k \in 1..Len(ownerTickets[u])}

heldBar == [u \in Users |-> HeldBy(u)]
circulationBar ==
  [i \in TicketIds |-> IF ticket[i] = None THEN "unissued" ELSE ticket[i].status]

Holdings == INSTANCE TicketHoldings WITH
  held <- heldBar, circulation <- circulationBar

\* The registry keeps the promise of TicketHoldings: through every transfer,
\* sale and recovery the index walk of get_tickets_by_owner shows each ticket
\* to its one holder, and used or cancelled tickets move no more.
KeepsHoldings == Holdings!Spec
=============================================================================
