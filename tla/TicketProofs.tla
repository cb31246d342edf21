----------------------------- MODULE TicketProofs -----------------------------
(***************************************************************************)
(* Proofs about the ticket registry, for any number of users, events and   *)
(* tickets.  The inductive invariant adds to the checked ones that ids not *)
(* yet handed out have no ticket.  The index part rests on two lemmas      *)
(* about one owner's entries: what removing a ticket does, and adding one. *)
(***************************************************************************)
EXTENDS TicketRegistry, TLAPS

Fresh == \A i \in TicketIds : i >= nextTicketId => ticket[i] = None

RegistryInv == TypeOK /\ Fresh /\ OwnerIndexConsistent /\ AttendanceConsistent

\* Removing a listed ticket moves the last one and keeps entries and list in step.
LEMMA RemovalConsistent ==
  ASSUME NEW positions \in [TicketIds -> Nat], NEW list \in Seq(TicketIds),
         PointsInto(positions, list), NEW i \in TicketIds, positions[i] > 0
  PROVE  /\ PositionsWithout(positions, list, i) \in [TicketIds -> Nat]
         /\ ListWithout(list, positions[i]) \in Seq(TicketIds)
         /\ PointsInto(PositionsWithout(positions, list, i),
                       ListWithout(list, positions[i]))
         /\ PositionsWithout(positions, list, i)[i] = 0
         /\ \A j \in TicketIds \ {i} :
              PositionsWithout(positions, list, i)[j] > 0 <=> positions[j] > 0
<1> DEFINE at == positions[i]
           last == Len(list)
           moved == list[last]
           shorter == ListWithout(list, at)
           updated == PositionsWithout(positions, list, i)
<1>1. /\ at \in 1..last /\ last \in Nat /\ list[at] = i
      /\ moved \in TicketIds /\ moved = list[last] /\ positions[moved] = last
  BY DEF PointsInto
<1>2. updated \in [TicketIds -> Nat] /\ updated[i] = 0
  BY <1>1 DEF PositionsWithout
<1>3. \A j \in TicketIds \ {i} : updated[j] = IF j = moved THEN at ELSE positions[j]
  BY <1>1 DEF PositionsWithout
<1>4. /\ shorter \in Seq(TicketIds) /\ Len(shorter) = last - 1 /\ last \in Nat
      /\ \A k \in 1..(last - 1) : shorter[k] = IF k = at THEN moved ELSE list[k]
  BY <1>1 DEF ListWithout
<1> HIDE DEF updated, shorter, moved
<1>5. ASSUME NEW j \in TicketIds, updated[j] > 0
      PROVE  updated[j] <= Len(shorter) /\ shorter[updated[j]] = j
  <2>1. j # i
    BY <1>2, <1>5
  <2>2. CASE j = moved
    BY <2>1, <2>2, <1>1, <1>3, <1>4
  <2>3. CASE j # moved
    <3>1. positions[j] > 0 /\ positions[j] <= last /\ list[positions[j]] = j
      BY <2>1, <2>3, <1>3, <1>5 DEF PointsInto
    <3>2. positions[j] # at /\ positions[j] # last
      BY <3>1, <2>1, <2>3, <1>1
    <3>3. updated[j] = positions[j] /\ positions[j] \in 1..(last - 1)
      BY <3>1, <3>2, <2>1, <2>3, <1>1, <1>3
    <3> QED
      BY <3>1, <3>2, <3>3, <1>4, SMTT(30)
  <2> QED
    BY <2>2, <2>3
<1>6. ASSUME NEW k \in 1..(last - 1)
      PROVE  updated[shorter[k]] = k
  <2>1. k \in 1..last /\ k # last
    BY <1>4
  <2>2. CASE k = at
    BY <2>1, <2>2, <1>1, <1>3, <1>4
  <2>3. CASE k # at
    <3>1. list[k] \in TicketIds /\ positions[list[k]] = k
      BY <2>1 DEF PointsInto
    <3>2. list[k] # i /\ list[k] # moved
      BY <3>1, <2>1, <2>3, <1>1
    <3> QED
      BY <3>1, <3>2, <2>1, <2>3, <1>3, <1>4
  <2> QED
    BY <2>2, <2>3
<1>7. PointsInto(updated, shorter)
  BY <1>4, <1>5, <1>6 DEF PointsInto
<1>8. \A j \in TicketIds \ {i} : updated[j] > 0 <=> positions[j] > 0
  BY <1>1, <1>3
<1> QED
  BY <1>2, <1>4, <1>7, <1>8 DEF updated, shorter

\* Adding an unlisted ticket at the end keeps entries and list in step.
LEMMA AdditionConsistent ==
  ASSUME NEW positions \in [TicketIds -> Nat], NEW list \in Seq(TicketIds),
         PointsInto(positions, list), NEW i \in TicketIds, positions[i] = 0
  PROVE  /\ [positions EXCEPT ![i] = Len(list) + 1] \in [TicketIds -> Nat]
         /\ Append(list, i) \in Seq(TicketIds)
         /\ PointsInto([positions EXCEPT ![i] = Len(list) + 1], Append(list, i))
<1> DEFINE longer == Append(list, i)
           updated == [positions EXCEPT ![i] = Len(list) + 1]
<1>1. /\ updated \in [TicketIds -> Nat] /\ longer \in Seq(TicketIds)
      /\ Len(longer) = Len(list) + 1 /\ longer[Len(list) + 1] = i
      /\ \A k \in 1..Len(list) : longer[k] = list[k]
  OBVIOUS
<1>2. ASSUME NEW j \in TicketIds, updated[j] > 0
      PROVE  updated[j] <= Len(longer) /\ longer[updated[j]] = j
  BY <1>1, <1>2 DEF PointsInto
<1>3. ASSUME NEW k \in 1..Len(longer)
      PROVE  updated[longer[k]] = k
  <2>1. CASE k = Len(list) + 1
    BY <1>1, <2>1
  <2>2. CASE k \in 1..Len(list)
    <3>1. list[k] \in TicketIds /\ positions[list[k]] = k /\ k # 0
      BY <2>2 DEF PointsInto
    <3> QED
      BY <3>1, <2>2, <1>1
  <2> QED
    BY <1>1, <2>1, <2>2
<1> QED
  BY <1>1, <1>2, <1>3 DEF PointsInto

-----------------------------------------------------------------------------
(* Changing hands and minting keep the index in step.                      *)

\* remove_owner_ticket and add_owner_ticket, one after the other.
LEMMA SetOwnerConsistent ==
  ASSUME RegistryInv, NEW i \in TicketIds, ticket[i] # None, NEW to \in Users,
         SetOwner(i, to)
  PROVE  /\ ticket' \in [TicketIds -> Ticket \cup {None}]
         /\ ownerTicket' \in [Users -> [TicketIds -> Nat]]
         /\ ownerTickets' \in [Users -> Seq(TicketIds)]
         /\ OwnerIndexConsistent'
         /\ \A u \in Users, j \in TicketIds :
              IsOwner(u, j)' <=> IF j = i THEN u = to ELSE IsOwner(u, j)
<1> DEFINE from == ticket[i].owner
           positions == [ownerTicket EXCEPT ![from] =
                           PositionsWithout(@, ownerTickets[from], i)]
           lists == [ownerTickets EXCEPT ![from] =
                       ListWithout(@, ownerTicket[from][i])]
<1>1. /\ ticket[i] \in Ticket /\ from \in Users
      /\ ticket \in [TicketIds -> Ticket \cup {None}]
      /\ ownerTicket \in [Users -> [TicketIds -> Nat]]
      /\ ownerTickets \in [Users -> Seq(TicketIds)]
  BY DEF RegistryInv, TypeOK, Ticket
<1>2. \A u \in Users :
        /\ PointsInto(ownerTicket[u], ownerTickets[u])
        /\ \A j \in TicketIds : ownerTicket[u][j] > 0 <=> IsOwner(u, j)
  BY DEF RegistryInv, OwnerIndexConsistent
<1>3. ownerTicket[from][i] > 0 /\ Len(ownerTickets[from]) > 0
  <2>1. ownerTicket[from][i] > 0
    BY <1>1, <1>2 DEF IsOwner
  <2>2. ownerTicket[from][i] <= Len(ownerTickets[from])
    BY <2>1, <1>1, <1>2 DEF PointsInto
  <2>3. ownerTicket[from][i] \in Nat /\ Len(ownerTickets[from]) \in Nat
    BY <1>1
  <2> QED
    BY <2>1, <2>2, <2>3
<1>4. /\ ownerTicket' = [positions EXCEPT ![to][i] = Len(lists[to]) + 1]
      /\ ownerTickets' = [lists EXCEPT ![to] = Append(@, i)]
      /\ ticket' = [ticket EXCEPT ![i].owner = to]
  BY <1>3 DEF SetOwner, MoveInIndex
<1>5. /\ PositionsWithout(ownerTicket[from], ownerTickets[from], i)
           \in [TicketIds -> Nat]
      /\ ListWithout(ownerTickets[from], ownerTicket[from][i]) \in Seq(TicketIds)
      /\ PointsInto(PositionsWithout(ownerTicket[from], ownerTickets[from], i),
                    ListWithout(ownerTickets[from], ownerTicket[from][i]))
      /\ PositionsWithout(ownerTicket[from], ownerTickets[from], i)[i] = 0
      /\ \A j \in TicketIds \ {i} :
           PositionsWithout(ownerTicket[from], ownerTickets[from], i)[j] > 0
             <=> ownerTicket[from][j] > 0
  <2>1. ownerTicket[from] \in [TicketIds -> Nat] /\ ownerTickets[from] \in Seq(TicketIds)
        /\ PointsInto(ownerTicket[from], ownerTickets[from])
    BY <1>1, <1>2
  <2> QED
    BY <2>1, <1>3, RemovalConsistent
<1>6. /\ positions \in [Users -> [TicketIds -> Nat]]
      /\ lists \in [Users -> Seq(TicketIds)]
  BY <1>1, <1>5
<1>7. \A u \in Users :
        /\ PointsInto(positions[u], lists[u])
        /\ positions[u][i] = 0
        /\ \A j \in TicketIds \ {i} : positions[u][j] > 0 <=> ownerTicket[u][j] > 0
  <2> SUFFICES ASSUME NEW u \in Users
               PROVE  /\ PointsInto(positions[u], lists[u])
                      /\ positions[u][i] = 0
                      /\ \A j \in TicketIds \ {i} :
                           positions[u][j] > 0 <=> ownerTicket[u][j] > 0
    OBVIOUS
  <2>1. CASE u = from
    <3>1. /\ positions[u] = PositionsWithout(ownerTicket[from], ownerTickets[from], i)
          /\ lists[u] = ListWithout(ownerTickets[from], ownerTicket[from][i])
      BY <2>1, <1>1
    <3> QED
      BY <3>1, <2>1, <1>5
  <2>2. CASE u # from
    <3>1. positions[u] = ownerTicket[u] /\ lists[u] = ownerTickets[u]
      BY <2>2, <1>1
    <3>2. ~IsOwner(u, i) /\ ownerTicket[u][i] \in Nat
      BY <2>2, <1>1 DEF IsOwner
    <3> QED
      BY <3>1, <3>2, <1>2
  <2> QED
    BY <2>1, <2>2
<1> HIDE DEF positions, lists
<1>8. /\ [positions[to] EXCEPT ![i] = Len(lists[to]) + 1] \in [TicketIds -> Nat]
      /\ Append(lists[to], i) \in Seq(TicketIds)
      /\ PointsInto([positions[to] EXCEPT ![i] = Len(lists[to]) + 1],
                    Append(lists[to], i))
  <2>1. /\ positions[to] \in [TicketIds -> Nat] /\ lists[to] \in Seq(TicketIds)
        /\ PointsInto(positions[to], lists[to]) /\ positions[to][i] = 0
    BY <1>6, <1>7
  <2> QED
    BY <2>1, AdditionConsistent
<1>9. \A u \in Users :
        /\ ownerTicket'[u] = IF u = to THEN [positions[u] EXCEPT ![i] = Len(lists[u]) + 1]
                                       ELSE positions[u]
        /\ ownerTickets'[u] = IF u = to THEN Append(lists[u], i) ELSE lists[u]
  BY <1>4, <1>6
<1>10. /\ ownerTicket' \in [Users -> [TicketIds -> Nat]]
       /\ ownerTickets' \in [Users -> Seq(TicketIds)]
  <2>1. /\ ownerTicket' = [positions EXCEPT ![to] =
                             [positions[to] EXCEPT ![i] = Len(lists[to]) + 1]]
        /\ ownerTickets' = [lists EXCEPT ![to] = Append(lists[to], i)]
    BY <1>4, <1>6
  <2> QED
    BY <2>1, <1>6, <1>8
<1>11. ticket' \in [TicketIds -> Ticket \cup {None}]
  <2>1. [ticket[i] EXCEPT !.owner = to] \in Ticket
    BY <1>1 DEF Ticket
  <2>2. ticket' = [ticket EXCEPT ![i] = [ticket[i] EXCEPT !.owner = to]]
    BY <1>1, <1>4
  <2> QED
    BY <2>1, <2>2, <1>1
<1>12. \A u \in Users, j \in TicketIds :
         IsOwner(u, j)' <=> IF j = i THEN u = to ELSE IsOwner(u, j)
  <2>1. ticket'[i] = [ticket[i] EXCEPT !.owner = to] /\ ticket'[i] # None
        /\ ticket'[i].owner = to
    <3>1. [ticket[i] EXCEPT !.owner = to] \in Ticket
          /\ [ticket[i] EXCEPT !.owner = to].owner = to
      BY <1>1 DEF Ticket
    <3> QED
      BY <3>1, <1>1, <1>4, NoneAssumption
  <2>2. \A j \in TicketIds \ {i} : ticket'[j] = ticket[j]
    BY <1>1, <1>4
  <2> QED
    BY <2>1, <2>2 DEF IsOwner
<1>13. ASSUME NEW u \in Users
       PROVE  /\ PointsInto(ownerTicket[u], ownerTickets[u])'
              /\ \A j \in TicketIds : (ownerTicket[u][j] > 0)' <=> IsOwner(u, j)'
  <2>1. CASE u = to
    <3>1. PointsInto(ownerTicket[u], ownerTickets[u])'
      BY <2>1, <1>8, <1>9 DEF PointsInto
    <3>2. ownerTicket'[u][i] > 0
      <4>1. Len(lists[u]) \in Nat
        BY <1>6
      <4>2. ownerTicket'[u][i] = Len(lists[u]) + 1
        <5>1. positions[u] \in [TicketIds -> Nat]
          BY <1>6
        <5> QED
          BY <5>1, <2>1, <1>9
      <4> QED
        BY <4>1, <4>2
    <3>3. \A j \in TicketIds \ {i} : ownerTicket'[u][j] = positions[u][j]
      BY <2>1, <1>6, <1>9
    <3> QED
      BY <3>1, <3>2, <3>3, <2>1, <1>2, <1>7, <1>12
  <2>2. CASE u # to
    <3>1. ownerTicket'[u] = positions[u] /\ ownerTickets'[u] = lists[u]
      BY <2>2, <1>9
    <3>2. PointsInto(ownerTicket[u], ownerTickets[u])'
      BY <3>1, <1>7 DEF PointsInto
    <3> QED
      BY <3>1, <3>2, <2>2, <1>2, <1>7, <1>12
  <2> QED
    BY <2>1, <2>2
<1>14. OwnerIndexConsistent'
  BY <1>13 DEF OwnerIndexConsistent
<1> QED
  BY <1>10, <1>11, <1>12, <1>14

\* A mint of n tickets lists them, in order, after those their owner has.
LEMMA MintConsistent ==
  ASSUME RegistryInv, NEW e \in Events, NEW organizer \in Users, NEW u \in Users,
         NEW n \in Nat, n > 0, MintTickets(e, organizer, u, n)
  PROVE  /\ RegistryInv'
         /\ \A i \in NewIds(n) : ticket[i] = None
         /\ \A v \in Users, i \in TicketIds :
              IsOwner(v, i)' <=> IF i \in NewIds(n) THEN v = u ELSE IsOwner(v, i)
<1> DEFINE new == NewIds(n)
           appended == [k \in 1..n |-> nextTicketId + k - 1]
           minted == [event_id |-> e, organizer |-> organizer, owner |-> u,
                      status |-> "Valid", is_used |-> FALSE]
           size == Len(ownerTickets[u])
<1>1. /\ nextTicketId \in Nat /\ nextTicketId > 0 /\ MaxTickets \in Nat
      /\ ticket \in [TicketIds -> Ticket \cup {None}]
      /\ ownerTicket \in [Users -> [TicketIds -> Nat]]
      /\ ownerTickets \in [Users -> Seq(TicketIds)]
      /\ eventTickets \in [Events -> Seq(TicketIds)]
      /\ ownerTickets[u] \in Seq(TicketIds) /\ size \in Nat
      /\ ownerTicket[u] \in [TicketIds -> Nat]
  BY BoundsAssumption DEF RegistryInv, TypeOK
<1>2. /\ new \subseteq TicketIds
      /\ ticket' = [i \in TicketIds |-> IF i \in new THEN minted ELSE ticket[i]]
      /\ ownerTicket' = [ownerTicket EXCEPT ![u] = [i \in TicketIds |->
           IF i \in new THEN size + i - nextTicketId + 1 ELSE ownerTicket[u][i]]]
      /\ ownerTickets' = [ownerTickets EXCEPT ![u] = @ \o appended]
      /\ eventTickets' = [eventTickets EXCEPT ![e] = @ \o appended]
      /\ nextTicketId' = nextTicketId + n
      /\ UNCHANGED <<linkVars, recoveryKey, attendanceCredential>>
  BY DEF MintTickets
<1>3. minted \in Ticket /\ minted # None
  <2>1. minted \in Ticket
    BY DEF Ticket
  <2> HIDE DEF minted
  <2> QED
    BY <2>1, NoneAssumption
<1>4. appended \in Seq(TicketIds) /\ Len(appended) = n
  <2>1. \A k \in 1..n : nextTicketId + k - 1 \in new
    BY <1>1 DEF NewIds
  <2> QED
    BY <2>1, <1>2
<1>5. \A i \in new : ticket[i] = None /\ \A v \in Users : ownerTicket[v][i] = 0
  <2>1. \A i \in new : ticket[i] = None
    BY <1>1, <1>2 DEF NewIds, RegistryInv, Fresh
  <2>2. \A i \in new, v \in Users : ~(ownerTicket[v][i] > 0)
    BY <2>1, <1>2 DEF RegistryInv, OwnerIndexConsistent, IsOwner
  <2>3. \A i \in new, v \in Users : ownerTicket[v][i] \in Nat
    BY <1>1, <1>2
  <2> QED
    BY <2>1, <2>2, <2>3
<1>6. TypeOK'
  <2>1. ticket' \in [TicketIds -> Ticket \cup {None}]
    BY <1>1, <1>2, <1>3
  <2>2. ownerTicket' \in [Users -> [TicketIds -> Nat]]
    <3>1. \A i \in new : size + i - nextTicketId + 1 \in Nat
      BY <1>1 DEF NewIds
    <3>2. [i \in TicketIds |-> IF i \in new THEN size + i - nextTicketId + 1
                              ELSE ownerTicket[u][i]] \in [TicketIds -> Nat]
      BY <3>1, <1>1
    <3> QED
      BY <3>2, <1>1, <1>2
  <2>3. ownerTickets' \in [Users -> Seq(TicketIds)]
    <3>1. ownerTickets[u] \o appended \in Seq(TicketIds)
      BY <1>1, <1>4
    <3> QED
      BY <3>1, <1>1, <1>2
  <2>4. eventTickets' \in [Events -> Seq(TicketIds)]
    <3>1. eventTickets[e] \o appended \in Seq(TicketIds)
      BY <1>1, <1>4
    <3> QED
      BY <3>1, <1>1, <1>2
  <2>5. nextTicketId' \in 1..(MaxTickets + 1)
    <3>1. nextTicketId + n - 1 \in new
      BY <1>1 DEF NewIds
    <3> QED
      BY <3>1, <1>1, <1>2 DEF TicketIds
  <2> QED
    BY <2>1, <2>2, <2>3, <2>4, <2>5, <1>2 DEF RegistryInv, TypeOK, linkVars
<1>7. Fresh'
  BY <1>1, <1>2 DEF Fresh, RegistryInv, NewIds, TicketIds
<1>8. \A v \in Users, i \in TicketIds :
        IsOwner(v, i)' <=> IF i \in new THEN v = u ELSE IsOwner(v, i)
  BY <1>2, <1>3 DEF IsOwner
<1> DEFINE longer == ownerTickets[u] \o appended
<1>9. /\ Len(longer) = size + n
      /\ \A k \in 1..size : longer[k] = ownerTickets[u][k]
      /\ \A k \in 1..n : longer[size + k] = nextTicketId + k - 1
  <2>1. Len(longer) = size + n
    BY <1>1, <1>4
  <2>2. \A k \in 1..size : longer[k] = ownerTickets[u][k]
    BY <1>1, <1>4
  <2>3. ASSUME NEW k \in 1..n PROVE longer[size + k] = nextTicketId + k - 1
    <3>1. longer[size + k] = appended[k]
      BY <1>1, <1>4
    <3> QED
      BY <3>1
  <2> QED
    BY <2>1, <2>2, <2>3
<1>10. /\ ownerTickets'[u] = longer
       /\ \A i \in new : ownerTicket'[u][i] = size + i - nextTicketId + 1
       /\ \A i \in TicketIds \ new : ownerTicket'[u][i] = ownerTicket[u][i]
  BY <1>1, <1>2
<1>11. /\ \A i \in TicketIds : ownerTicket[u][i] > 0 =>
             ownerTicket[u][i] <= size /\ ownerTickets[u][ownerTicket[u][i]] = i
       /\ \A k \in 1..size : ownerTicket[u][ownerTickets[u][k]] = k
       /\ \A i \in TicketIds : ownerTicket[u][i] > 0 <=> IsOwner(u, i)
  BY DEF RegistryInv, OwnerIndexConsistent, PointsInto
<1> HIDE DEF longer, size, appended, minted
<1>12. ASSUME NEW i \in TicketIds, ownerTicket'[u][i] > 0
       PROVE  /\ ownerTicket'[u][i] <= size + n
              /\ longer[ownerTicket'[u][i]] = i
  <2>1. CASE i \in new
    <3> DEFINE k == i - nextTicketId + 1
    <3>1. k \in 1..n /\ ownerTicket'[u][i] = size + k
      BY <2>1, <1>1, <1>10 DEF NewIds
    <3>2. longer[size + k] = nextTicketId + k - 1
      BY <3>1, <1>9
    <3>3. nextTicketId + k - 1 = i /\ size + k <= size + n
      BY <3>1, <1>1 DEF TicketIds
    <3> QED
      BY <3>1, <3>2, <3>3
  <2>2. CASE i \notin new
    <3>1. ownerTicket'[u][i] = ownerTicket[u][i] /\ ownerTicket[u][i] \in Nat
      BY <2>2, <1>1, <1>10
    <3>2. ownerTicket[u][i] \in 1..size /\ ownerTickets[u][ownerTicket[u][i]] = i
      BY <3>1, <1>11, <1>12, <1>1
    <3> QED
      BY <3>1, <3>2, <1>1, <1>9
  <2> QED
    BY <2>1, <2>2
<1>13. ASSUME NEW k \in 1..(size + n)
       PROVE  ownerTicket'[u][longer[k]] = k
  <2>1. CASE k \in 1..size
    <3>1. ownerTickets[u][k] \in TicketIds
      BY <2>1, <1>1 DEF size
    <3>2. ownerTicket[u][ownerTickets[u][k]] = k
      BY <2>1, <1>11
    <3>3. ownerTickets[u][k] \notin new
      BY <3>2, <2>1, <1>1, <1>5
    <3> QED
      BY <3>1, <3>2, <3>3, <2>1, <1>9, <1>10
  <2>2. CASE k \notin 1..size
    <3> DEFINE d == k - size
    <3>1. d \in 1..n /\ k = size + d
      BY <2>2, <1>1
    <3>2. longer[k] = nextTicketId + d - 1
      BY <3>1, <1>9
    <3>3. longer[k] \in new
      BY <3>1, <3>2, <1>1 DEF NewIds
    <3> QED
      BY <3>1, <3>2, <3>3, <1>1, <1>10
  <2> QED
    BY <2>1, <2>2
<1>14. ASSUME NEW v \in Users
       PROVE  /\ PointsInto(ownerTicket[v], ownerTickets[v])'
              /\ \A i \in TicketIds : (ownerTicket[v][i] > 0)' <=> IsOwner(v, i)'
  <2>1. CASE v = u
    <3>1. PointsInto(ownerTicket'[u], ownerTickets'[u])
      BY <1>9, <1>10, <1>12, <1>13 DEF PointsInto
    <3>2. ASSUME NEW i \in TicketIds
          PROVE  ownerTicket'[u][i] > 0 <=> IsOwner(u, i)'
      <4>1. CASE i \in new
        <5>1. ownerTicket'[u][i] > 0
          BY <4>1, <1>1, <1>10 DEF NewIds
        <5> QED
          BY <5>1, <4>1, <1>8
      <4>2. CASE i \notin new
        BY <4>2, <1>8, <1>10, <1>11
      <4> QED
        BY <4>1, <4>2
    <3> QED
      BY <3>1, <3>2, <2>1 DEF PointsInto
  <2>2. CASE v # u
    <3>1. ownerTicket'[v] = ownerTicket[v] /\ ownerTickets'[v] = ownerTickets[v]
      BY <2>2, <1>1, <1>2
    <3>2. PointsInto(ownerTicket[v], ownerTickets[v])
          /\ \A i \in TicketIds : ownerTicket[v][i] > 0 <=> IsOwner(v, i)
      BY DEF RegistryInv, OwnerIndexConsistent
    <3>3. \A i \in new : ~(ownerTicket[v][i] > 0)
      BY <1>5
    <3> QED
      BY <3>1, <3>2, <3>3, <2>2, <1>2, <1>8 DEF PointsInto
  <2> QED
    BY <2>1, <2>2
<1>15. OwnerIndexConsistent'
  BY <1>14 DEF OwnerIndexConsistent
<1>16. AttendanceConsistent'
  BY <1>2, <1>5 DEF RegistryInv, AttendanceConsistent, minted
<1> QED
  BY <1>5, <1>6, <1>7, <1>8, <1>15, <1>16 DEF RegistryInv

-----------------------------------------------------------------------------
(* The invariant.                                                          *)

LEMMA RegistryInvInit == Init => RegistryInv
<1> SUFFICES ASSUME Init
             PROVE  RegistryInv
  OBVIOUS
<1>1. \A u \in Users : /\ ownerTicket[u] = [i \in TicketIds |-> 0]
                       /\ ownerTickets[u] = <<>> /\ Len(ownerTickets[u]) = 0
  BY DEF Init
<1>2. TypeOK
  <2>1. nextTicketId \in 1..(MaxTickets + 1)
    BY BoundsAssumption DEF Init, FirstTicketId
  <2>2. /\ ticket \in [TicketIds -> Ticket \cup {None}]
        /\ ownerTicket \in [Users -> [TicketIds -> Nat]]
    BY DEF Init
  <2>3. /\ ownerTickets \in [Users -> Seq(TicketIds)]
        /\ eventTickets \in [Events -> Seq(TicketIds)]
    BY DEF Init
  <2> QED
    BY <2>1, <2>2, <2>3 DEF Init, TypeOK
<1>3. Fresh /\ AttendanceConsistent
  BY DEF Init, Fresh, AttendanceConsistent
<1>4. OwnerIndexConsistent
  <2>1. ASSUME NEW u \in Users
        PROVE  PointsInto(ownerTicket[u], ownerTickets[u])
    <3>1. \A i \in TicketIds : ~(ownerTicket[u][i] > 0)
      BY <1>1
    <3>2. 1..Len(ownerTickets[u]) = {}
      BY <1>1
    <3> QED
      BY <3>1, <3>2 DEF PointsInto
  <2>2. ASSUME NEW u \in Users, NEW i \in TicketIds
        PROVE  ~(ownerTicket[u][i] > 0) /\ ~IsOwner(u, i)
    <3>1. ticket[i] = None
      BY DEF Init
    <3> QED
      BY <3>1, <1>1 DEF IsOwner
  <2> QED
    BY <2>1, <2>2 DEF OwnerIndexConsistent
<1> QED
  BY <1>2, <1>3, <1>4 DEF RegistryInv

\* A change of hands of a valid ticket that writes nothing but ticket, index
\* and recovery keys.
LEMMA HandOverPreserves ==
  ASSUME RegistryInv, NEW i \in TicketIds, NEW to \in Users, IsValid(i),
         SetOwner(i, to), recoveryKey' \in SUBSET TicketIds,
         UNCHANGED <<linkVars, nextTicketId, eventTickets, attendanceCredential>>
  PROVE  RegistryInv'
<1>1. ticket[i] # None /\ ticket[i] \in Ticket
  BY DEF IsValid, RegistryInv, TypeOK
<1>2. /\ ticket' \in [TicketIds -> Ticket \cup {None}]
      /\ ownerTicket' \in [Users -> [TicketIds -> Nat]]
      /\ ownerTickets' \in [Users -> Seq(TicketIds)]
      /\ OwnerIndexConsistent'
  BY <1>1, SetOwnerConsistent
<1>3. TypeOK'
  BY <1>2 DEF RegistryInv, TypeOK, linkVars
<1>4. /\ ticket'[i] \in Ticket /\ ticket'[i].status = ticket[i].status
      /\ ticket'[i].is_used = ticket[i].is_used
      /\ \A j \in TicketIds \ {i} : ticket'[j] = ticket[j]
  <2>1. /\ [ticket[i] EXCEPT !.owner = to] \in Ticket
        /\ [ticket[i] EXCEPT !.owner = to].status = ticket[i].status
        /\ [ticket[i] EXCEPT !.owner = to].is_used = ticket[i].is_used
    BY <1>1 DEF Ticket
  <2> QED
    BY <2>1 DEF SetOwner, RegistryInv, TypeOK
<1>5. ticket'[i] # None
  BY <1>4, NoneAssumption
<1>6. Fresh'
  BY <1>1, <1>4 DEF RegistryInv, Fresh
<1>7. AttendanceConsistent'
  BY <1>1, <1>4, <1>5 DEF RegistryInv, AttendanceConsistent
<1> QED
  BY <1>2, <1>3, <1>6, <1>7 DEF RegistryInv

\* Using or cancelling a ticket leaves its owner and the index alone.
LEMMA RetirePreserves ==
  ASSUME RegistryInv, NEW i \in TicketIds, IsValid(i),
         UNCHANGED <<linkVars, nextTicketId, indexVars, eventTickets, recoveryKey>>,
         \/ /\ ticket' = [ticket EXCEPT ![i].is_used = TRUE, ![i].status = "Used"]
            /\ attendanceCredential' = attendanceCredential \cup {i}
         \/ /\ ticket' = [ticket EXCEPT ![i].status = "Cancelled"]
            /\ attendanceCredential' = attendanceCredential
  PROVE  RegistryInv' /\ \A u \in Users, j \in TicketIds : IsOwner(u, j)' <=> IsOwner(u, j)
<1>1. ticket[i] # None /\ ticket[i] \in Ticket /\ ticket[i].is_used = FALSE
      /\ ticket \in [TicketIds -> Ticket \cup {None}]
  BY DEF IsValid, RegistryInv, TypeOK, Ticket
<1>2. /\ ticket' \in [TicketIds -> Ticket \cup {None}]
      /\ ticket'[i] \in Ticket /\ ticket'[i].owner = ticket[i].owner
      /\ \A j \in TicketIds \ {i} : ticket'[j] = ticket[j]
  <2>1. CASE ticket' = [ticket EXCEPT ![i].is_used = TRUE, ![i].status = "Used"]
    <3> DEFINE used == [ticket[i] EXCEPT !.is_used = TRUE, !.status = "Used"]
    <3>1. used \in Ticket /\ used.owner = ticket[i].owner
      BY <1>1 DEF Ticket
    <3>2. ticket' = [ticket EXCEPT ![i] = used]
      BY <1>1, <2>1
    <3> HIDE DEF used
    <3> QED
      BY <3>1, <3>2, <1>1
  <2>2. CASE ticket' = [ticket EXCEPT ![i].status = "Cancelled"]
    <3> DEFINE cancelled == [ticket[i] EXCEPT !.status = "Cancelled"]
    <3>1. cancelled \in Ticket /\ cancelled.owner = ticket[i].owner
      BY <1>1 DEF Ticket
    <3>2. ticket' = [ticket EXCEPT ![i] = cancelled]
      BY <1>1, <2>2
    <3> HIDE DEF cancelled
    <3> QED
      BY <3>1, <3>2, <1>1
  <2> QED
    BY <2>1, <2>2
<1>3. ticket'[i] # None
  BY <1>2, NoneAssumption
<1>4. \A u \in Users, j \in TicketIds : IsOwner(u, j)' <=> IsOwner(u, j)
  BY <1>1, <1>2, <1>3 DEF IsOwner
<1>5. TypeOK' /\ Fresh'
  BY <1>1, <1>2 DEF RegistryInv, TypeOK, Fresh, linkVars, indexVars
<1>6. OwnerIndexConsistent'
  BY <1>4 DEF RegistryInv, OwnerIndexConsistent, PointsInto, indexVars
<1>7. AttendanceConsistent'
  BY <1>1, <1>2, <1>3 DEF RegistryInv, AttendanceConsistent, Ticket
<1> QED
  BY <1>4, <1>5, <1>6, <1>7 DEF RegistryInv

LEMMA RegistryInvNext == RegistryInv /\ [Next]_vars => RegistryInv'
<1> SUFFICES ASSUME RegistryInv, [Next]_vars
             PROVE  RegistryInv'
  OBVIOUS
<1>1. CASE Initialize \/ SetEventContract
  <2>1. /\ UNCHANGED <<nextTicketId, ticket, ownerTicket, ownerTickets, eventTickets,
                      recoveryKey, attendanceCredential>>
        /\ initialized' \in BOOLEAN /\ eventContractSet' \in BOOLEAN
    BY <1>1 DEF Initialize, SetEventContract, RegistryInv, TypeOK, indexVars
  <2> QED
    BY <2>1 DEF RegistryInv, TypeOK, Fresh, OwnerIndexConsistent, PointsInto, IsOwner,
                AttendanceConsistent
<1>2. ASSUME NEW e \in Events, NEW organizer \in Users, NEW u \in Users,
             MintTicket(e, organizer, u) \/ BatchMintTicket(e, organizer, u)
      PROVE  RegistryInv'
  <2>1. PICK n \in Nat : n > 0 /\ MintTickets(e, organizer, u, n)
    BY <1>2, BoundsAssumption DEF MintTicket, BatchMintTicket
  <2> QED
    BY <2>1, MintConsistent
<1>3. ASSUME NEW i \in TicketIds, NEW to \in Users,
             TransferTicket(i, to) \/ AdminTransferTicket(i, to) \/ RecoverTicket(i, to)
      PROVE  RegistryInv'
  BY <1>3, HandOverPreserves
  DEF TransferTicket, AdminTransferTicket, RecoverTicket, RegistryInv, TypeOK
<1>4. ASSUME NEW i \in TicketIds, SetRecoveryKey(i)
      PROVE  RegistryInv'
  BY <1>4 DEF SetRecoveryKey, RegistryInv, TypeOK, Fresh, OwnerIndexConsistent,
              PointsInto, IsOwner, AttendanceConsistent, indexVars, linkVars
<1>5. ASSUME NEW i \in TicketIds, UseTicket(i) \/ CancelTicket(i)
      PROVE  RegistryInv'
  BY <1>5, RetirePreserves DEF UseTicket, CancelTicket
<1>6. CASE UNCHANGED vars
  BY <1>6 DEF vars, RegistryInv, TypeOK, Fresh, OwnerIndexConsistent, PointsInto,
              IsOwner, AttendanceConsistent, indexVars, linkVars
<1> QED
  BY <1>1, <1>2, <1>3, <1>4, <1>5, <1>6 DEF Next

LEMMA RegistryInvAlways == Spec => []RegistryInv
  BY RegistryInvInit, RegistryInvNext, PTL DEF Spec

\* Every record the ticket contract stores is well formed, the counter of ids
\* stays in range, and the owners' lists hold tickets and nothing else.
THEOREM RegistryTypeCorrect == Spec => []TypeOK
<1>1. RegistryInv => TypeOK
  BY DEF RegistryInv
<1> QED
  BY <1>1, RegistryInvAlways, PTL

\* Ticket, position entry and owner's list agree after any sequence of mints,
\* transfers, resales and recoveries.
THEOREM OwnerIndexStaysConsistent == Spec => []OwnerIndexConsistent
<1>1. RegistryInv => OwnerIndexConsistent
  BY DEF RegistryInv
<1> QED
  BY <1>1, RegistryInvAlways, PTL

\* An attendance credential exists for the tickets used at the door, and for
\* no other.
THEOREM AttendanceStaysConsistent == Spec => []AttendanceConsistent
<1>1. RegistryInv => AttendanceConsistent
  BY DEF RegistryInv
<1> QED
  BY <1>1, RegistryInvAlways, PTL

-----------------------------------------------------------------------------
(* The refinement.  With the invariant, walking an owner's list finds      *)
(* exactly the tickets that name the owner, so that the steps of           *)
(* TicketHoldings can be followed on the tickets themselves.               *)

Owned(u) == {i \in TicketIds : IsOwner(u, i)}

LEMMA ListShowsOwned ==
  ASSUME RegistryInv, NEW u \in Users
  PROVE  HeldBy(u) = Owned(u)
<1>1. /\ ownerTickets[u] \in Seq(TicketIds)
      /\ ownerTicket[u] \in [TicketIds -> Nat]
      /\ PointsInto(ownerTicket[u], ownerTickets[u])
      /\ \A i \in TicketIds : ownerTicket[u][i] > 0 <=> IsOwner(u, i)
  BY DEF RegistryInv, TypeOK, OwnerIndexConsistent
<1>2. ASSUME NEW k \in 1..Len(ownerTickets[u])
      PROVE  ownerTickets[u][k] \in Owned(u)
  <2>1. ownerTickets[u][k] \in TicketIds /\ ownerTicket[u][ownerTickets[u][k]] = k /\ k > 0
    BY <1>1 DEF PointsInto
  <2> QED
    BY <2>1, <1>1 DEF Owned
<1>3. ASSUME NEW i \in Owned(u)
      PROVE  \E k \in 1..Len(ownerTickets[u]) : ownerTickets[u][k] = i
  <2>1. i \in TicketIds /\ ownerTicket[u][i] > 0 /\ ownerTicket[u][i] \in Nat
    BY <1>1, <1>3 DEF Owned
  <2>2. ownerTicket[u][i] <= Len(ownerTickets[u])
        /\ ownerTickets[u][ownerTicket[u][i]] = i
    BY <2>1, <1>1 DEF PointsInto
  <2>3. ownerTicket[u][i] \in 1..Len(ownerTickets[u])
    BY <2>1, <2>2, <1>1
  <2> QED
    BY <2>2, <2>3
<1> QED
  BY <1>2, <1>3 DEF HeldBy

OwnedBar == [u \in Users |-> Owned(u)]

LEMMA HeldIsOwned == RegistryInv => heldBar = OwnedBar
<1> SUFFICES ASSUME RegistryInv PROVE heldBar = OwnedBar
  OBVIOUS
<1>1. \A u \in Users : HeldBy(u) = Owned(u)
  BY ListShowsOwned
<1>2. heldBar = [u \in Users |-> HeldBy(u)]
  BY Zenon DEF heldBar
<1>3. [u \in Users |-> HeldBy(u)] = [u \in Users |-> Owned(u)]
  BY <1>1, Zenon
<1> QED
  BY <1>2, <1>3, Zenon DEF OwnedBar

LEMMA HeldIsOwnedNext == RegistryInv' => (heldBar = OwnedBar)'
  BY HeldIsOwned, PTL

LEMMA HoldingsInit == Init => Holdings!Init
<1> SUFFICES ASSUME Init
             PROVE  Holdings!Init
  OBVIOUS
<1>1. RegistryInv /\ \A i \in TicketIds : ticket[i] = None
  BY RegistryInvInit DEF Init
<1>2. heldBar = [u \in Users |-> {}]
  BY <1>1, HeldIsOwned DEF OwnedBar, Owned, IsOwner
<1> QED
  BY <1>1, <1>2 DEF Holdings!Init, circulationBar

\* A mint issues its ids to their first holder.
LEMMA MintIssues ==
  ASSUME RegistryInv, RegistryInv', NEW e \in Events, NEW organizer \in Users,
         NEW u \in Users, NEW n \in Nat, n > 0, MintTickets(e, organizer, u, n)
  PROVE  Holdings!Issue(u, NewIds(n))
<1> DEFINE new == NewIds(n)
<1>1. new \subseteq TicketIds /\ new # {}
  <2>1. nextTicketId \in new
    BY DEF NewIds, RegistryInv, TypeOK
  <2> QED
    BY <2>1 DEF MintTickets
<1>2. /\ \A i \in new : ticket[i] = None
      /\ \A v \in Users, i \in TicketIds :
           IsOwner(v, i)' <=> IF i \in new THEN v = u ELSE IsOwner(v, i)
  BY MintConsistent
<1>3. /\ \A i \in new : ticket'[i] # None /\ ticket'[i].status = "Valid"
      /\ \A i \in TicketIds \ new : ticket'[i] = ticket[i]
  <2>1. \A i \in new : ticket'[i] # None
    BY <1>1, <1>2 DEF IsOwner
  <2>2. ticket' = [i \in TicketIds |->
          IF i \in new
          THEN [event_id |-> e, organizer |-> organizer, owner |-> u,
                status |-> "Valid", is_used |-> FALSE]
          ELSE ticket[i]]
    BY DEF MintTickets
  <2> HIDE DEF new
  <2>3. \A i \in new : ticket'[i].status = "Valid"
    BY <2>2, <1>1
  <2> QED
    BY <2>1, <2>2, <2>3
<1>4. heldBar = [v \in Users |-> Owned(v)] /\ heldBar' = [v \in Users |-> Owned(v)']
  BY HeldIsOwned, HeldIsOwnedNext DEF OwnedBar
<1>5. \A v \in Users : Owned(v)' = IF v = u THEN Owned(v) \cup new ELSE Owned(v)
  BY <1>1, <1>2 DEF Owned, IsOwner
<1>6. heldBar' = [heldBar EXCEPT ![u] = @ \cup new]
  BY <1>4, <1>5
<1>7. circulationBar' = [i \in TicketIds |-> IF i \in new THEN "Valid" ELSE circulationBar[i]]
  BY <1>3 DEF circulationBar
<1> QED
  BY <1>1, <1>2, <1>6, <1>7 DEF Holdings!Issue, circulationBar

\* A change of hands of a valid ticket hands it over, or keeps it where it is.
LEMMA SetOwnerHandsOver ==
  ASSUME RegistryInv, RegistryInv', NEW i \in TicketIds, NEW to \in Users,
         IsValid(i), SetOwner(i, to)
  PROVE  \/ Holdings!HandOver(i, ticket[i].owner, to)
         \/ UNCHANGED <<heldBar, circulationBar>>
<1> DEFINE from == ticket[i].owner
<1>1. /\ ticket[i] # None /\ ticket[i] \in Ticket /\ from \in Users
      /\ ticket[i].status = "Valid"
      /\ ticket \in [TicketIds -> Ticket \cup {None}]
      /\ ticket' \in [TicketIds -> Ticket \cup {None}]
  BY DEF IsValid, RegistryInv, TypeOK, Ticket
<1>2. \A u \in Users, j \in TicketIds :
        IsOwner(u, j)' <=> IF j = i THEN u = to ELSE IsOwner(u, j)
  BY <1>1, SetOwnerConsistent
<1>3. /\ ticket'[i] # None /\ ticket'[i].status = ticket[i].status
      /\ \A j \in TicketIds \ {i} : ticket'[j] = ticket[j]
  <2>1. ticket'[i] # None
    BY <1>2 DEF IsOwner
  <2>2. ticket' = [ticket EXCEPT ![i] = [ticket[i] EXCEPT !.owner = to]]
    BY <1>1 DEF SetOwner
  <2>3. [ticket[i] EXCEPT !.owner = to].status = ticket[i].status
    BY <1>1 DEF Ticket
  <2> QED
    BY <2>1, <2>2, <2>3, <1>1
<1>4. circulationBar' = circulationBar /\ circulationBar[i] = "Valid"
  BY <1>1, <1>3 DEF circulationBar
<1>5. heldBar = [v \in Users |-> Owned(v)] /\ heldBar' = [v \in Users |-> Owned(v)']
  BY HeldIsOwned, HeldIsOwnedNext DEF OwnedBar
<1>6. \A u \in Users, j \in TicketIds : j \in Owned(u)' <=> IsOwner(u, j)'
  BY DEF Owned
<1>7. \A u \in Users : Owned(u)' = IF u = to THEN Owned(u) \cup {i} ELSE Owned(u) \ {i}
  BY <1>2, <1>6 DEF Owned
<1>8. \A u \in Users : i \in Owned(u) <=> u = from
  BY <1>1 DEF Owned, IsOwner
<1>9. CASE from = to
  <2>1. \A u \in Users : Owned(u)' = Owned(u)
    BY <1>7, <1>8, <1>9
  <2> QED
    BY <2>1, <1>4, <1>5
<1>10. CASE from # to
  <2>1. heldBar' = [heldBar EXCEPT ![from] = @ \ {i}, ![to] = @ \cup {i}]
    <3>1. \A u \in Users : Owned(u)' = IF u = to THEN Owned(u) \cup {i}
                                      ELSE IF u = from THEN Owned(u) \ {i}
                                      ELSE Owned(u)
      <4>1. ASSUME NEW u \in Users, u # to, u # from PROVE Owned(u)' = Owned(u)
        <5>1. i \notin Owned(u) /\ Owned(u)' = Owned(u) \ {i}
          BY <4>1, <1>7, <1>8
        <5> QED
          BY <5>1
      <4> QED
        BY <4>1, <1>7
    <3> QED
      BY <3>1, <1>1, <1>5, <1>10
  <2>2. i \in heldBar[from]
    BY <1>1, <1>5, <1>8
  <2> QED
    BY <2>1, <2>2, <1>4, <1>10 DEF Holdings!HandOver
<1> QED
  BY <1>9, <1>10

\* Using or cancelling a ticket retires it.
LEMMA RetireRetires ==
  ASSUME RegistryInv, RegistryInv', NEW i \in TicketIds, UseTicket(i) \/ CancelTicket(i)
  PROVE  \E final \in {"Used", "Cancelled"} : Holdings!Retire(i, final)
<1>1. IsValid(i) /\ ticket[i] # None /\ ticket[i] \in Ticket
      /\ ticket[i].status = "Valid" /\ ticket \in [TicketIds -> Ticket \cup {None}]
  BY DEF UseTicket, CancelTicket, IsValid, RegistryInv, TypeOK
<1>2. \A u \in Users, j \in TicketIds : IsOwner(u, j)' <=> IsOwner(u, j)
  BY <1>1, RetirePreserves DEF UseTicket, CancelTicket
<1>3. heldBar' = heldBar
  <2>1. heldBar = OwnedBar /\ heldBar' = OwnedBar'
    BY HeldIsOwned, HeldIsOwnedNext
  <2>2. \A u \in Users : Owned(u)' = Owned(u)
    BY <1>2 DEF Owned
  <2> QED
    BY <2>1, <2>2 DEF OwnedBar
<1>4. \E final \in {"Used", "Cancelled"} :
        /\ ticket'[i] # None /\ ticket'[i].status = final
        /\ \A j \in TicketIds \ {i} : ticket'[j] = ticket[j]
  <2>1. IsOwner(ticket[i].owner, i) /\ ticket[i].owner \in Users
    BY <1>1 DEF IsOwner, Ticket
  <2>2. ticket'[i] # None
    BY <2>1, <1>2 DEF IsOwner
  <2>3. CASE UseTicket(i)
    <3>1. ticket' = [ticket EXCEPT ![i] =
            [ticket[i] EXCEPT !.is_used = TRUE, !.status = "Used"]]
      BY <2>3, <1>1 DEF UseTicket
    <3>2. [ticket[i] EXCEPT !.is_used = TRUE, !.status = "Used"].status = "Used"
      BY <1>1 DEF Ticket
    <3> QED
      BY <3>1, <3>2, <2>2, <1>1
  <2>4. CASE CancelTicket(i)
    <3>1. ticket' = [ticket EXCEPT ![i] = [ticket[i] EXCEPT !.status = "Cancelled"]]
      BY <2>4, <1>1 DEF CancelTicket
    <3>2. [ticket[i] EXCEPT !.status = "Cancelled"].status = "Cancelled"
      BY <1>1 DEF Ticket
    <3> QED
      BY <3>1, <3>2, <2>2, <1>1
  <2> QED
    BY <2>3, <2>4
<1>5. PICK final \in {"Used", "Cancelled"} :
        /\ ticket'[i] # None /\ ticket'[i].status = final
        /\ \A j \in TicketIds \ {i} : ticket'[j] = ticket[j]
  BY <1>4
<1>6. circulationBar[i] = "Valid" /\ circulationBar' = [circulationBar EXCEPT ![i] = final]
  BY <1>1, <1>5 DEF circulationBar
<1> QED
  BY <1>3, <1>5, <1>6 DEF Holdings!Retire

\* Every call is a step of TicketHoldings or changes nothing it speaks of.
LEMMA HoldingsNext ==
  RegistryInv /\ RegistryInv' /\ [Next]_vars
    => [Holdings!Next]_<<heldBar, circulationBar>>
<1> SUFFICES ASSUME RegistryInv, RegistryInv', [Next]_vars
             PROVE  Holdings!Next \/ UNCHANGED <<heldBar, circulationBar>>
  OBVIOUS
<1>1. ASSUME NEW e \in Events, NEW organizer \in Users, NEW u \in Users,
             MintTicket(e, organizer, u) \/ BatchMintTicket(e, organizer, u)
      PROVE  Holdings!Next
  <2>1. PICK n \in Nat : n > 0 /\ MintTickets(e, organizer, u, n)
    BY <1>1, BoundsAssumption DEF MintTicket, BatchMintTicket
  <2>2. Holdings!Issue(u, NewIds(n)) /\ NewIds(n) \in SUBSET TicketIds
    BY <2>1, MintIssues DEF MintTickets
  <2> QED
    BY <2>2 DEF Holdings!Next
<1>2. ASSUME NEW i \in TicketIds, NEW to \in Users,
             TransferTicket(i, to) \/ AdminTransferTicket(i, to) \/ RecoverTicket(i, to)
      PROVE  Holdings!Next \/ UNCHANGED <<heldBar, circulationBar>>
  <2>1. IsValid(i) /\ SetOwner(i, to)
    BY <1>2 DEF TransferTicket, AdminTransferTicket, RecoverTicket
  <2>2. ticket[i].owner \in Users
    BY <2>1 DEF IsValid, RegistryInv, TypeOK, Ticket
  <2>3. \/ Holdings!HandOver(i, ticket[i].owner, to)
        \/ UNCHANGED <<heldBar, circulationBar>>
    BY <2>1, SetOwnerHandsOver
  <2> QED
    BY <2>2, <2>3 DEF Holdings!Next
<1>3. ASSUME NEW i \in TicketIds, UseTicket(i) \/ CancelTicket(i)
      PROVE  Holdings!Next
  BY <1>3, RetireRetires DEF Holdings!Next
<1>4. ASSUME \/ Initialize \/ SetEventContract \/ UNCHANGED vars
             \/ \E i \in TicketIds : SetRecoveryKey(i)
      PROVE  UNCHANGED <<heldBar, circulationBar>>
  <2>1. UNCHANGED <<ticket, ownerTickets>>
    BY <1>4 DEF Initialize, SetEventContract, SetRecoveryKey, vars, indexVars
  <2> QED
    BY <2>1 DEF heldBar, HeldBy, circulationBar
<1> QED
  BY <1>1, <1>2, <1>3, <1>4 DEF Next

\* The registry implements TicketHoldings: what an owner's list shows is what
\* the owner holds, and used or cancelled tickets stay out of circulation.
THEOREM RegistryKeepsHoldings == Spec => KeepsHoldings
<1>1. Init => Holdings!Init
  BY HoldingsInit
<1>2. RegistryInv /\ RegistryInv' /\ [Next]_vars
        => [Holdings!Next]_<<heldBar, circulationBar>>
  BY HoldingsNext
<1> QED
  BY <1>1, <1>2, RegistryInvAlways, PTL DEF Spec, KeepsHoldings, Holdings!Spec
=============================================================================
