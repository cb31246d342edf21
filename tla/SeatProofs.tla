------------------------------ MODULE SeatProofs ------------------------------
(***************************************************************************)
(* Proofs about the event contract, for any number of users, events and    *)
(* tiers, any offers and bounds: its invariants, and that every step of it *)
(* is a step of the ledger of seats or leaves the ledger alone.            *)
(***************************************************************************)
EXTENDS EventContract, Sums

-----------------------------------------------------------------------------
(* Every stored record stays well formed.                                  *)

LEMMA TypeInit == Init => TypeOK
<1> SUFFICES ASSUME Init PROVE TypeOK
  OBVIOUS
<1>1. /\ reservation \in [Events -> [Users -> Reservation \cup {None}]]
      /\ claimSettings \in [Events -> ClaimSettings]
      /\ anonSettings \in [Events -> AnonClaimSettings]
      /\ anonWindow \in [Events -> [window_index: Nat, count: Nat]]
      /\ claimed \in [Events -> [Nullifiers -> Commitments \cup {None}]]
  BY DEF Init, ClaimSettings, AnonClaimSettings
<1>2. /\ postponeCount \in [Events -> 0..MAX_POSTPONEMENTS]
      /\ freeClaims \in [Events -> [Users -> Nat]]
      /\ lastFreeClaim \in [Events -> [Users -> Nat]]
      /\ tiers \in [Events -> Seq(Tier)] /\ attendees \in [Events -> Seq(Users)]
  BY EventConstants DEF Init
<1> QED
  BY <1>1, <1>2 DEF Init, TypeOK, Privacy

\* A tier may be replaced by another.
LEMMA TierReplaced ==
  ASSUME TypeOK, NEW e \in Events, NEW k \in DOMAIN tiers[e], NEW t \in Tier
  PROVE  /\ [tiers[e] EXCEPT ![k] = t] \in Seq(Tier)
         /\ [tiers EXCEPT ![e][k] = t] \in [Events -> Seq(Tier)]
         /\ DOMAIN [tiers[e] EXCEPT ![k] = t] = DOMAIN tiers[e]
<1>1. tiers[e] \in Seq(Tier) /\ tiers \in [Events -> Seq(Tier)]
  BY DEF TypeOK
<1>2. [tiers[e] EXCEPT ![k] = t] \in Seq(Tier)
  BY <1>1
<1> QED
  BY <1>1, <1>2

LEMMA TierTyped ==
  ASSUME TypeOK, NEW e \in Events, NEW k \in DOMAIN tiers[e]
  PROVE  /\ tiers[e][k] \in Tier
         /\ Unreserve(tiers[e][k]) \in Tier
<1>1. tiers[e] \in Seq(Tier) /\ tiers[e][k] \in Tier
  BY DEF TypeOK
<1>2. Unreserve(tiers[e][k]) =
        [tiers[e][k] EXCEPT !.reserved =
           IF tiers[e][k].reserved > 0 THEN tiers[e][k].reserved - 1 ELSE 0]
  BY DEF Unreserve
<1>3. (IF tiers[e][k].reserved > 0 THEN tiers[e][k].reserved - 1 ELSE 0) \in Nat
  BY <1>1 DEF Tier
<1> QED
  BY <1>1, <1>2, <1>3 DEF Tier

LEMMA EventTyped ==
  ASSUME TypeOK, NEW e \in Events, event[e] # None
  PROVE  event[e] \in EventRecord /\ event[e].terms \in EventTerms
BY DEF TypeOK, EventRecord

\* A new status leaves the rest of the event alone.
LEMMA StatusSet ==
  ASSUME TypeOK, NEW e \in Events, event[e] # None,
         NEW s \in EventStatus, SetStatus(e, s)
  PROVE  /\ event' \in [Events -> EventRecord \cup {None}]
         /\ event'[e] # None /\ event'[e].status = s /\ event'[e].terms = event[e].terms
         /\ \A f \in Events \ {e} : event'[f] = event[f]
<1>1. event[e] \in EventRecord /\ event \in [Events -> EventRecord \cup {None}]
  BY EventTyped DEF TypeOK
<1>2. /\ [event[e] EXCEPT !.status = s] \in EventRecord
      /\ [event[e] EXCEPT !.status = s].status = s
      /\ [event[e] EXCEPT !.status = s].terms = event[e].terms
  BY <1>1 DEF EventRecord
<1>3. event' = [event EXCEPT ![e] = [event[e] EXCEPT !.status = s]]
  BY <1>1 DEF SetStatus
<1> QED
  BY <1>1, <1>2, <1>3, EventNone

\* A new supply leaves the rest of the event alone.
LEMMA SupplySet ==
  ASSUME TypeOK, NEW e \in Events, event[e] # None,
         NEW supply \in Nat, SetSupply(e, supply)
  PROVE  /\ event' \in [Events -> EventRecord \cup {None}]
         /\ event'[e] # None /\ event'[e].status = event[e].status
         /\ event'[e].terms = [event[e].terms EXCEPT !.max_supply = supply]
         /\ \A f \in Events \ {e} : event'[f] = event[f]
<1> DEFINE terms == [event[e].terms EXCEPT !.max_supply = supply]
           record == [event[e] EXCEPT !.terms = terms]
<1>1. event[e] \in EventRecord /\ event \in [Events -> EventRecord \cup {None}]
  BY EventTyped DEF TypeOK
<1>2. terms \in EventTerms
  BY EventTyped DEF EventTerms
<1>3. event' = [event EXCEPT ![e] = record]
  BY <1>1 DEF SetSupply
<1> HIDE DEF terms
<1>4. record \in EventRecord /\ record.status = event[e].status /\ record.terms = terms
  BY <1>1, <1>2 DEF EventRecord
<1> HIDE DEF record
<1>5. /\ event' \in [Events -> EventRecord \cup {None}]
      /\ event'[e] = record /\ \A f \in Events \ {e} : event'[f] = event[f]
  BY <1>1, <1>3, <1>4
<1> QED
  BY <1>4, <1>5, EventNone DEF terms

\* Storing the record of one event leaves the others alone.
LEMMA RecordSet ==
  ASSUME TypeOK, NEW e \in Events, NEW record \in EventRecord,
         event' = [event EXCEPT ![e] = record]
  PROVE  /\ event' \in [Events -> EventRecord \cup {None}]
         /\ event'[e] = record /\ event'[e] # None
         /\ \A f \in Events \ {e} : event'[f] = event[f]
<1>1. event \in [Events -> EventRecord \cup {None}]
  BY DEF TypeOK
<1> QED
  BY <1>1, EventNone

LEMMA EventChanged ==
  ASSUME TypeOK, NEW e \in Events, NEW change \in DetailChanges,
         UpdateEventDetails(e, change)
  PROVE  /\ event' \in [Events -> EventRecord \cup {None}]
         /\ event'[e] # None /\ event'[e].status = event[e].status
         /\ event'[e].terms.event_start_ledger = event[e].terms.event_start_ledger
         /\ event'[e].terms.event_end_ledger = event[e].terms.event_end_ledger
         /\ event'[e].terms.max_supply = event[e].terms.max_supply
         /\ \A f \in Events \ {e} : event'[f] = event[f]
<1> DEFINE terms == Changed(event[e].terms, change)
           record == [event[e] EXCEPT
                       !.terms = terms,
                       !.allow_anonymous = change.allow_anonymous,
                       !.requires_verification = change.requires_verification]
<1>1. /\ change \in Details /\ event[e] \in EventRecord
      /\ event[e].terms \in EventTerms
  BY EventConstants, EventTyped DEF UpdateEventDetails, InStatus
<1>2. event' = [event EXCEPT ![e] = record]
  BY DEF UpdateEventDetails
<1>3. /\ terms \in EventTerms
      /\ terms.event_start_ledger = event[e].terms.event_start_ledger
      /\ terms.event_end_ledger = event[e].terms.event_end_ledger
      /\ terms.max_supply = event[e].terms.max_supply
  BY <1>1 DEF Changed, EventTerms, Details
<1> HIDE DEF terms
<1>4. record \in EventRecord /\ record.status = event[e].status /\ record.terms = terms
  BY <1>1, <1>3 DEF EventRecord, Details
<1> HIDE DEF record
<1> QED
  BY <1>2, <1>3, <1>4, RecordSet

LEMMA EventMoved ==
  ASSUME TypeOK, PostponementTracked, NEW e \in Events, FinalizePostponement(e)
  PROVE  /\ event' \in [Events -> EventRecord \cup {None}]
         /\ event'[e] # None /\ event'[e].status = "Active"
         /\ event'[e].terms.event_start_ledger <= event'[e].terms.event_end_ledger
         /\ event'[e].terms.max_supply = event[e].terms.max_supply
         /\ \A f \in Events \ {e} : event'[f] = event[f]
<1> DEFINE terms == Moved(event[e].terms, postponement[e].new_date_ledger)
           record == [event[e] EXCEPT !.status = "Active", !.terms = terms]
<1>1. /\ event[e] \in EventRecord /\ event[e].terms \in EventTerms
      /\ event[e].terms.event_start_ledger <= event[e].terms.event_end_ledger
      /\ postponement[e] \in PostponementInfo
  BY EventTyped DEF FinalizePostponement, InStatus, TypeOK, PostponementTracked
<1>2. /\ terms \in EventTerms /\ terms.event_start_ledger <= terms.event_end_ledger
      /\ terms.max_supply = event[e].terms.max_supply
  <2> DEFINE start == postponement[e].new_date_ledger
             end == start + (event[e].terms.event_end_ledger
                               - event[e].terms.event_start_ledger)
  <2>1. start \in Nat /\ end \in Nat /\ start <= end
    BY <1>1 DEF EventTerms, PostponementInfo
  <2>2. terms = [event[e].terms EXCEPT !.event_start_ledger = start,
                                       !.event_end_ledger = end]
    BY DEF Moved
  <2> HIDE DEF start, end, terms
  <2> QED
    BY <1>1, <2>1, <2>2 DEF EventTerms
<1>3. event' = [event EXCEPT ![e] = record]
  BY DEF FinalizePostponement
<1> HIDE DEF terms
<1>4. record \in EventRecord /\ record.status = "Active" /\ record.terms = terms
  BY <1>1, <1>2 DEF EventRecord, EventStatus
<1> HIDE DEF record
<1> QED
  BY <1>2, <1>3, <1>4, RecordSet

\* The calls of the organizer.
LEMMA TypeOrganizer ==
  ASSUME TypeOK, PostponementTracked, NEW e \in Events, OrganizerCall(e)
  PROVE  TypeOK'
<1> USE DEF linkVars, termVars, postponeVars, listVars, ruleVars, freeClaimVars, proofVars
<1>1. ASSUME NEW offer \in Offers, CreateEvent(e, offer)
      PROVE  TypeOK'
  <2>1. /\ offer \in CreateEventParams
        /\ offer.details \in Details
        /\ Supply(offer.initial_tiers) \in Nat
    BY <1>1, EventConstants DEF CreateEvent, CreateEventParams
  <2>2. TermsOf(offer) \in EventTerms
    BY <2>1 DEF TermsOf, EventTerms, CreateEventParams, Details
  <2>3. event' \in [Events -> EventRecord \cup {None}]
    <3>1. [terms |-> TermsOf(offer), status |-> "Upcoming",
           allow_anonymous |-> offer.details.allow_anonymous,
           requires_verification |-> offer.details.requires_verification,
           revenue_splits |-> offer.revenue_splits] \in EventRecord
      BY <2>1, <2>2 DEF EventRecord, EventStatus, CreateEventParams, Details
    <3> QED
      BY <1>1, <3>1 DEF CreateEvent, TypeOK
  <2>4. \A k \in 1..Len(offer.initial_tiers) : NewTier(offer.initial_tiers[k]) \in Tier
    <3>1. offer.initial_tiers \in Seq(TierParams)
      BY <2>1 DEF CreateEventParams
    <3>2. \A t \in TierParams : NewTier(t) \in Tier
      BY DEF TierParams, NewTier, Tier
    <3> QED
      BY <3>1, <3>2
  <2>5. tiers' \in [Events -> Seq(Tier)]
    <3>1. [k \in 1..Len(offer.initial_tiers) |-> NewTier(offer.initial_tiers[k])] \in Seq(Tier)
      BY <2>1, <2>4 DEF CreateEventParams
    <3> QED
      BY <1>1, <3>1 DEF CreateEvent, TypeOK
  <2>6. eventPrivacy' \in [Events -> Privacy]
    BY <1>1, <2>1 DEF CreateEvent, CreateEventParams, TypeOK
  <2> QED
    BY <1>1, <2>3, <2>5, <2>6 DEF CreateEvent, TypeOK
<1>2. ASSUME NEW change \in DetailChanges, UpdateEventDetails(e, change)
      PROVE  TypeOK'
  <2>1. event' \in [Events -> EventRecord \cup {None}]
    BY <1>2, EventChanged
  <2> QED
    BY <1>2, <2>1 DEF UpdateEventDetails, TypeOK
<1>3. ASSUME NEW t \in TierOffers, AddTicketTier(e, t)
      PROVE  TypeOK'
  <2>1. t \in TierParams /\ NewTier(t) \in Tier
    BY EventConstants DEF TierParams, NewTier, Tier
  <2>2. event[e] # None /\ event[e].terms \in EventTerms
    BY <1>3, EventTyped DEF AddTicketTier, InStatus
  <2>3. event' \in [Events -> EventRecord \cup {None}]
    <3>1. \E supply \in Nat : SetSupply(e, supply)
      BY <1>3, <2>1, <2>2 DEF AddTicketTier, EventTerms, TierParams
    <3> QED
      BY <2>2, <3>1, SupplySet
  <2>4. tiers' \in [Events -> Seq(Tier)]
    BY <1>3, <2>1 DEF AddTicketTier, TypeOK
  <2> QED
    BY <1>3, <2>3, <2>4 DEF AddTicketTier, TypeOK
<1>4. ASSUME NEW t \in TierOffers, NEW k \in DOMAIN tiers[e], UpdateTier(e, k, t)
      PROVE  TypeOK'
  <2>1. t \in TierParams /\ tiers[e][k] \in Tier
    BY EventConstants, TierTyped
  <2>2. event[e] # None /\ event[e].terms \in EventTerms /\ soldCount[e] \in Nat
    BY <1>4, EventTyped DEF UpdateTier, InStatus, TypeOK
  <2>3. event' \in [Events -> EventRecord \cup {None}]
    <3>1. \E supply \in Nat : SetSupply(e, supply)
      BY <1>4, <2>2, EventConstants DEF UpdateTier
    <3> QED
      BY <2>2, <3>1, SupplySet
  <2>4. tiers' \in [Events -> Seq(Tier)]
    <3>1. [tiers[e][k] EXCEPT !.price = t.price, !.capacity = t.capacity] \in Tier
      BY <2>1 DEF Tier, TierParams
    <3>2. tiers' = [tiers EXCEPT ![e][k] =
                     [tiers[e][k] EXCEPT !.price = t.price, !.capacity = t.capacity]]
      BY <1>4 DEF UpdateTier, TypeOK
    <3> QED
      BY <3>1, <3>2, TierReplaced
  <2> QED
    BY <1>4, <2>3, <2>4 DEF UpdateTier, TypeOK
<1>5. ASSUME UpdateEventStatus(e) \/ CancelEvent(e)
      PROVE  TypeOK'
  <2>1. PICK s \in EventStatus : event[e] # None /\ SetStatus(e, s)
    BY <1>5 DEF UpdateEventStatus, CancelEvent, EventStatus, InStatus
  <2>2. event' \in [Events -> EventRecord \cup {None}]
    BY <2>1, StatusSet
  <2> QED
    BY <1>5, <2>2 DEF UpdateEventStatus, CancelEvent, TypeOK
<1>6. ASSUME NEW date \in NewDates, NEW window \in ChoiceWindows,
             PostponeEvent(e, date, window)
      PROVE  TypeOK'
  <2>1. event' \in [Events -> EventRecord \cup {None}]
    BY <1>6, StatusSet DEF PostponeEvent, InStatus, EventStatus
  <2>2. postponeCount' \in [Events -> 0..MAX_POSTPONEMENTS]
    BY <1>6, EventConstants DEF PostponeEvent, MayPostpone, TypeOK
  <2>3. postponement' \in [Events -> PostponementInfo \cup {None}]
    <3>1. [new_date_ledger |-> date, choice_deadline_ledger |-> now + window]
             \in PostponementInfo
      BY EventConstants DEF PostponementInfo, TypeOK
    <3> QED
      BY <1>6, <3>1 DEF PostponeEvent, TypeOK
  <2> QED
    BY <1>6, <2>1, <2>2, <2>3 DEF PostponeEvent, TypeOK
<1>7. ASSUME FinalizePostponement(e)
      PROVE  TypeOK'
  <2>1. event' \in [Events -> EventRecord \cup {None}]
    BY <1>7, EventMoved
  <2> QED
    BY <1>7, <2>1 DEF FinalizePostponement, TypeOK
<1>8. ASSUME NEW level \in PrivacyLevels, SetEventPrivacy(e, level)
      PROVE  TypeOK'
  BY <1>8, EventConstants DEF SetEventPrivacy, TypeOK
<1>9. ASSUME NEW settings \in ClaimRules, SetClaimSettings(e, settings)
      PROVE  TypeOK'
  BY <1>9, EventConstants DEF SetClaimSettings, TypeOK
<1>10. ASSUME NEW settings \in AnonRules, SetAnonClaimSettings(e, settings)
       PROVE  TypeOK'
  BY <1>10, EventConstants DEF SetAnonClaimSettings, TypeOK
<1>11. ASSUME NEW enabled \in ZkSwitch, SetZkConfig(e, enabled)
       PROVE  TypeOK'
  BY <1>11, EventConstants DEF SetZkConfig, TypeOK
<1> QED
  BY <1>1, <1>2, <1>3, <1>4, <1>5, <1>6, <1>7, <1>8, <1>9, <1>10, <1>11
     DEF OrganizerCall

\* What remains of the list of attendees when one of them leaves.
LEMMA ListShortened ==
  ASSUME NEW list \in Seq(Users), NEW j \in DOMAIN list
  PROVE  /\ WithoutAttendee(list, j) \in Seq(Users)
         /\ Len(list) \in Nat /\ Len(list) > 0
         /\ Len(WithoutAttendee(list, j)) = Len(list) - 1
         /\ \A i \in 1..(Len(list) - 1) :
              WithoutAttendee(list, j)[i] = IF i = j THEN list[Len(list)] ELSE list[i]
<1>1. /\ Len(list) \in Nat /\ Len(list) > 0 /\ list[Len(list)] \in Users
      /\ [list EXCEPT ![j] = list[Len(list)]] \in Seq(Users)
      /\ Len([list EXCEPT ![j] = list[Len(list)]]) = Len(list)
  OBVIOUS
<1> QED
  BY <1>1 DEF WithoutAttendee

LEMMA RemovalTyped ==
  ASSUME TypeOK, NEW e \in Events, NEW u \in Users, RemoveRegistration(e, u)
  PROVE  /\ registered' \in [Events -> SUBSET Users]
         /\ attendees' \in [Events -> Seq(Users)]
<1>1. registered' \in [Events -> SUBSET Users]
  BY DEF RemoveRegistration, TypeOK
<1>2. CASE UNCHANGED attendees
  BY <1>1, <1>2 DEF TypeOK
<1>3. ASSUME NEW j \in DOMAIN attendees[e],
             attendees' = [attendees EXCEPT ![e] = WithoutAttendee(attendees[e], j)]
      PROVE  attendees' \in [Events -> Seq(Users)]
  BY <1>3, ListShortened DEF TypeOK
<1> QED
  BY <1>1, <1>2, <1>3 DEF RemoveRegistration

\* A sale writes well formed counters.
LEMMA SaleTyped ==
  ASSUME TypeOK, NEW e \in Events, NEW u \in Users, NEW k \in DOMAIN tiers[e],
         NEW n \in Nat, SellSeats(e, u, k, n)
  PROVE  /\ tiers' \in [Events -> Seq(Tier)]
         /\ soldCount' \in [Events -> Nat]
         /\ reservation' \in [Events -> [Users -> Reservation \cup {None}]]
         /\ freeClaims' \in [Events -> [Users -> Nat]]
         /\ lastFreeClaim' \in [Events -> [Users -> Nat]]
<1> DEFINE open == IF HasReservation(e, u) THEN Unreserve(tiers[e][k]) ELSE tiers[e][k]
           sold == [open EXCEPT !.sold = open.sold + n]
<1>1. open \in Tier
  BY TierTyped
<1>2. sold \in Tier
  BY <1>1 DEF Tier
<1>3. tiers' = [tiers EXCEPT ![e][k] = sold]
  BY DEF SellSeats
<1> HIDE DEF sold
<1>4. tiers' \in [Events -> Seq(Tier)]
  BY <1>2, <1>3, TierReplaced
<1>5. /\ soldCount' \in [Events -> Nat]
      /\ reservation' \in [Events -> [Users -> Reservation \cup {None}]]
  BY DEF SellSeats, TypeOK
<1>6. /\ freeClaims' \in [Events -> [Users -> Nat]]
      /\ lastFreeClaim' \in [Events -> [Users -> Nat]]
  BY SMTT(30) DEF SellSeats, TypeOK
<1> QED
  BY <1>4, <1>5, <1>6

LEMMA FreedTyped ==
  ASSUME TypeOK, NEW e \in Events, NEW u \in Users,
         reservation[e][u].tier \in DOMAIN tiers[e]
  PROVE  /\ Freed(e, u) \in Seq(Tier)
         /\ DOMAIN Freed(e, u) = DOMAIN tiers[e]
         /\ \A k \in DOMAIN tiers[e] :
              Freed(e, u)[k] = IF k = reservation[e][u].tier THEN Unreserve(tiers[e][k])
                               ELSE tiers[e][k]
<1> DEFINE k == reservation[e][u].tier
<1>1. k \in DOMAIN tiers[e] /\ tiers[e] \in Seq(Tier) /\ Unreserve(tiers[e][k]) \in Tier
  BY TierTyped DEF TypeOK
<1>2. Freed(e, u) = [tiers[e] EXCEPT ![k] = Unreserve(tiers[e][k])]
  BY DEF Freed
<1> HIDE DEF k
<1>3. /\ Freed(e, u) \in Seq(Tier) /\ DOMAIN Freed(e, u) = DOMAIN tiers[e]
      /\ \A l \in DOMAIN tiers[e] :
           Freed(e, u)[l] = IF l = k THEN Unreserve(tiers[e][l]) ELSE tiers[e][l]
  BY <1>1, <1>2, TierReplaced
<1> QED
  BY <1>3 DEF k

\* Every reservation names a tier of its event.
ReservationsPlaced ==
  \A e \in Events, u \in Users :
    HasReservation(e, u) => reservation[e][u].tier \in DOMAIN tiers[e]

LEMMA TypeAttendee ==
  ASSUME TypeOK, ReservationsPlaced, NEW e \in Events, NEW u \in Users, AttendeeCall(e, u)
  PROVE  TypeOK'
<1> USE DEF linkVars, termVars, postponeVars, listVars, ruleVars, freeClaimVars, proofVars
<1>1. ASSUME ReleaseExpiredReservation(e, u)
      PROVE  TypeOK'
  <2>1. Freed(e, u) \in Seq(Tier)
    BY <1>1, FreedTyped DEF ReleaseExpiredReservation, ReservationsPlaced
  <2>2. /\ tiers' \in [Events -> Seq(Tier)]
        /\ reservation' \in [Events -> [Users -> Reservation \cup {None}]]
    BY <1>1, <2>1 DEF ReleaseExpiredReservation, TypeOK
  <2> QED
    BY <1>1, <2>2 DEF ReleaseExpiredReservation, TypeOK
<1>2. ASSUME NEW keepsTicket \in BOOLEAN, RequestPostponementRefund(e, u, keepsTicket)
      PROVE  TypeOK'
  <2>1. /\ registered' \in [Events -> SUBSET Users]
        /\ attendees' \in [Events -> Seq(Users)]
    BY <1>2, RemovalTyped DEF RequestPostponementRefund, TypeOK
  <2> QED
    BY <1>2, <2>1 DEF RequestPostponementRefund, TypeOK
<1>3. ASSUME NEW k \in DOMAIN tiers[e], ReserveTicket(e, u, k)
      PROVE  TypeOK'
  <2> DEFINE open == IF HasReservation(e, u) THEN Freed(e, u) ELSE tiers[e]
  <2>1. open \in Seq(Tier)
    BY FreedTyped DEF ReservationsPlaced, TypeOK
  <2>2. k \in DOMAIN open /\ tiers' = [tiers EXCEPT ![e] =
                                        [open EXCEPT ![k].reserved = @ + 1]]
    BY <1>3 DEF ReserveTicket
  <2> HIDE DEF open
  <2>3. [open EXCEPT ![k].reserved = @ + 1] \in Seq(Tier)
    <3>1. open[k] \in Tier
      BY <2>1, <2>2
    <3>2. [open[k] EXCEPT !.reserved = open[k].reserved + 1] \in Tier
      BY <3>1 DEF Tier
    <3>3. [open EXCEPT ![k].reserved = @ + 1] =
            [open EXCEPT ![k] = [open[k] EXCEPT !.reserved = open[k].reserved + 1]]
      OBVIOUS
    <3> QED
      BY <2>1, <2>2, <3>2, <3>3
  <2>4. tiers' \in [Events -> Seq(Tier)]
    BY <2>2, <2>3 DEF TypeOK
  <2>5. reservation' \in [Events -> [Users -> Reservation \cup {None}]]
    <3>1. k \in Nat
      BY DEF TypeOK
    <3>2. [tier |-> k, expires_at |-> now + RESERVATION_SECS] \in Reservation
      BY <3>1, EventConstants DEF Reservation, TypeOK
    <3> QED
      BY <1>3, <3>2 DEF ReserveTicket, TypeOK
  <2> QED
    BY <1>3, <2>4, <2>5 DEF ReserveTicket, TypeOK
<1>4. ASSUME NEW k \in DOMAIN tiers[e], RegisterForEvent(e, u, k)
      PROVE  TypeOK'
  <2>1. /\ registered' \in [Events -> SUBSET Users]
        /\ attendees' \in [Events -> Seq(Users)]
    BY <1>4 DEF RegisterForEvent, SaveRegistration, TypeOK
  <2> QED
    BY <1>4, <2>1, SaleTyped DEF RegisterForEvent, TypeOK
<1>5. ASSUME NEW k \in DOMAIN tiers[e], NEW n \in 1..MaxBatch, NEW held \in 0..MaxBatch,
             BatchRegisterForEvent(e, u, k, n, held)
      PROVE  TypeOK'
  <2>1. /\ registered' \in [Events -> SUBSET Users]
        /\ attendees' \in [Events -> Seq(Users)]
    <3>1. CASE UNCHANGED <<registered, attendees>>
      BY <3>1 DEF TypeOK
    <3>2. CASE SaveRegistration(e, u)
      BY <3>2 DEF SaveRegistration, TypeOK
    <3> QED
      BY <1>5, <3>1, <3>2 DEF BatchRegisterForEvent
  <2>2. n \in Nat
    BY EventConstants
  <2> QED
    BY <1>5, <2>1, <2>2, SaleTyped DEF BatchRegisterForEvent, TypeOK
<1> QED
  BY <1>1, <1>2, <1>3, <1>4, <1>5 DEF AttendeeCall

LEMMA TypeProof ==
  ASSUME TypeOK, NEW e \in Events, ProofCall(e)
  PROVE  TypeOK'
<1> USE DEF linkVars, termVars, postponeVars, listVars, ruleVars, freeClaimVars, proofVars
<1>1. ASSUME NEW k \in DOMAIN tiers[e], SellToProof(e, k)
      PROVE  tiers' \in [Events -> Seq(Tier)] /\ soldCount' \in [Events -> Nat]
  <2> DEFINE sold == [tiers[e][k] EXCEPT !.sold = tiers[e][k].sold + 1]
  <2>1. sold \in Tier
    BY TierTyped DEF Tier
  <2>2. tiers' = [tiers EXCEPT ![e][k] = sold]
    BY <1>1 DEF SellToProof
  <2> HIDE DEF sold
  <2>3. tiers' \in [Events -> Seq(Tier)]
    BY <2>1, <2>2, TierReplaced
  <2> QED
    BY <1>1, <2>3 DEF SellToProof, TypeOK
<1>2. ASSUME NEW k \in DOMAIN tiers[e], NEW claim \in AnonymousClaims,
             ClaimAnonymousTicket(e, k, claim)
      PROVE  TypeOK'
  <2>1. anonWindow' \in [Events -> [window_index: Nat, count: Nat]]
    <3> DEFINE size == anonSettings[e].anon_window_size
    <3>1. /\ anonWindow[e] \in [window_index: Nat, count: Nat]
          /\ anonWindow \in [Events -> [window_index: Nat, count: Nat]]
          /\ size \in Nat /\ now \in Nat
      BY DEF TypeOK, AnonClaimSettings
    <3>2. ASSUME size > 0
          PROVE  CurrentWindow(e) \in [window_index: Nat, count: Nat]
      <4>1. now \div size \in Nat
        BY <3>1, <3>2
      <4> QED
        BY <3>1, <4>1 DEF CurrentWindow
    <3>3. CASE UNCHANGED anonWindow
      BY <3>1, <3>3
    <3>4. CASE /\ size > 0
               /\ anonWindow' = [anonWindow EXCEPT ![e] =
                    [CurrentWindow(e) EXCEPT !.count = @ + 1]]
      <4>1. [CurrentWindow(e) EXCEPT !.count = @ + 1] \in [window_index: Nat, count: Nat]
        BY <3>2, <3>4
      <4> QED
        BY <3>1, <3>4, <4>1
    <3> QED
      BY <1>2, <3>3, <3>4 DEF ClaimAnonymousTicket, CountAnonClaim
  <2>2. claimed' \in [Events -> [Nullifiers -> Commitments \cup {None}]]
    <3>1. claim.ticket_commitment \in Commitments /\ claim.nullifier \in Nullifiers
      BY EventConstants DEF AnonymousTicketClaim
    <3> QED
      BY <1>2, <3>1 DEF ClaimAnonymousTicket, TypeOK
  <2>3. SellToProof(e, k)
    BY <1>2 DEF ClaimAnonymousTicket
  <2> QED
    BY <1>1, <1>2, <2>1, <2>2, <2>3 DEF ClaimAnonymousTicket, TypeOK
<1>3. ASSUME NEW k \in DOMAIN tiers[e], NEW passport \in Passports,
             VerifyAndAttend(e, k, passport)
      PROVE  TypeOK'
  <2>1. SellToProof(e, k) /\ zkNullifiers' \in [Events -> SUBSET Passports]
    BY <1>3 DEF VerifyAndAttend, TypeOK
  <2> QED
    BY <1>1, <1>3, <2>1 DEF VerifyAndAttend, TypeOK
<1> QED
  BY <1>2, <1>3 DEF ProofCall

-----------------------------------------------------------------------------
(* Counting the reserved seats.  The invariant of one event adds that its  *)
(* reservations name its tiers, and that no seat is sold or reserved       *)
(* before the event is on sale: this is what makes a change of a tier's    *)
(* capacity safe, which looks at the sold seats only.                      *)

Unopened(e) == event[e] = None \/ InStatus(e, "Upcoming")

TierCounted(e, k) ==
  /\ tiers[e][k].reserved = Cardinality(Holders(e, k))
  /\ tiers[e][k].sold + tiers[e][k].reserved <= tiers[e][k].capacity

SeatsOf(e) ==
  /\ \A k \in DOMAIN tiers[e] : TierCounted(e, k)
  /\ \A u \in Users :
       HasReservation(e, u) => reservation[e][u].tier \in DOMAIN tiers[e]
  /\ Unopened(e) =>
       /\ \A u \in Users : ~HasReservation(e, u)
       /\ \A k \in DOMAIN tiers[e] : tiers[e][k].sold = 0

SeatsInv == \A e \in Events : SeatsOf(e)

\* Nothing happened to the seats of f, and f did not go back to Upcoming.
SeatsKept(f) ==
  /\ tiers'[f] = tiers[f]
  /\ reservation'[f] = reservation[f]
  /\ Unopened(f)' => Unopened(f)

LEMMA SeatsKeptOf ==
  ASSUME NEW f \in Events, SeatsOf(f), SeatsKept(f)
  PROVE  SeatsOf(f)'
<1>1. \A u \in Users : HasReservation(f, u)' <=> HasReservation(f, u)
  BY DEF HasReservation, SeatsKept
<1>2. \A k : Holders(f, k)' = Holders(f, k)
  BY <1>1 DEF Holders, SeatsKept
<1>3. \A k \in DOMAIN tiers'[f] : TierCounted(f, k)'
  BY <1>2 DEF TierCounted, SeatsKept, SeatsOf
<1> QED
  BY <1>1, <1>3 DEF SeatsOf, SeatsKept

\* With one more or one less element.
LEMMA OneCounted ==
  ASSUME NEW S, IsFiniteSet(S), NEW u
  PROVE  /\ Cardinality(S) \in Nat
         /\ Cardinality(S \ {u}) = IF u \in S THEN Cardinality(S) - 1 ELSE Cardinality(S)
         /\ Cardinality(S \cup {u}) = IF u \in S THEN Cardinality(S) ELSE Cardinality(S) + 1
         /\ u \in S => Cardinality(S) > 0
         /\ IsFiniteSet(S \ {u})
<1>1. Cardinality(S) \in Nat
  BY FS_CardinalityType
<1>2. /\ IsFiniteSet(S \ {u})
      /\ Cardinality(S \ {u}) = IF u \in S THEN Cardinality(S) - 1 ELSE Cardinality(S)
  BY FS_RemoveElement
<1>3. Cardinality(S \cup {u}) = IF u \in S THEN Cardinality(S) ELSE Cardinality(S) + 1
  BY FS_AddElement
<1>4. Cardinality(S \ {u}) \in Nat
  BY <1>2, FS_CardinalityType
<1> QED
  BY <1>1, <1>2, <1>3, <1>4

LEMMA HoldersFinite ==
  ASSUME NEW e \in Events, NEW k
  PROVE  IsFiniteSet(Holders(e, k)) /\ Cardinality(Holders(e, k)) \in Nat
<1>1. Holders(e, k) \subseteq Users
  BY DEF Holders
<1>2. IsFiniteSet(Holders(e, k))
  BY <1>1, EventConstants, FS_Subset
<1> QED
  BY <1>2, FS_CardinalityType

\* The reservation of u becomes r, None where it ends.
Reserves(e, u, r) == reservation' = [reservation EXCEPT ![e][u] = r]

\* The holders of seats of tier k, with u's old reservation gone and r made.
CountMoved(e, u, r, k) ==
  Cardinality(Holders(e, k))' =
    Cardinality(Holders(e, k))
      - (IF u \in Holders(e, k) THEN 1 ELSE 0)
      + (IF r # None /\ r.tier = k THEN 1 ELSE 0)

\* u is one holder less of its old tier and one more of its new one.
LEMMA HoldersMoved ==
  ASSUME TypeOK, NEW e \in Events, NEW u \in Users, NEW r, Reserves(e, u, r), NEW k
  PROVE  CountMoved(e, u, r, k)
<1> DEFINE others == Holders(e, k) \ {u}
<1>1. \A v \in Users : reservation'[e][v] = IF v = u THEN r ELSE reservation[e][v]
  BY DEF TypeOK, Reserves
<1>2. \A v \in Users \ {u} : v \in Holders(e, k)' <=> v \in Holders(e, k)
  BY <1>1 DEF Holders, HasReservation
<1>3. u \in Holders(e, k)' <=> r # None /\ r.tier = k
  BY <1>1 DEF Holders, HasReservation
<1>4. Holders(e, k)' \subseteq Users /\ Holders(e, k) \subseteq Users
  BY DEF Holders
<1>5. /\ IsFiniteSet(others) /\ Cardinality(Holders(e, k)) \in Nat
      /\ Cardinality(others) =
           Cardinality(Holders(e, k)) - (IF u \in Holders(e, k) THEN 1 ELSE 0)
      /\ u \in Holders(e, k) => Cardinality(Holders(e, k)) > 0
  BY HoldersFinite, OneCounted
<1>6. Cardinality(others \cup {u}) = Cardinality(others) + 1
  BY <1>5, OneCounted
<1>7. CASE r # None /\ r.tier = k
  <2>1. Holders(e, k)' = others \cup {u}
    BY <1>2, <1>3, <1>4, <1>7
  <2> QED
    BY <2>1, <1>5, <1>6, <1>7 DEF CountMoved
<1>8. CASE ~(r # None /\ r.tier = k)
  <2>1. Holders(e, k)' = others
    BY <1>2, <1>3, <1>4, <1>8
  <2> QED
    BY <2>1, <1>5, <1>8 DEF CountMoved
<1> QED
  BY <1>7, <1>8

LEMMA UnreserveCounts ==
  ASSUME NEW t \in Tier, t.reserved > 0
  PROVE  /\ Unreserve(t).reserved = t.reserved - 1
         /\ Unreserve(t).sold = t.sold /\ Unreserve(t).capacity = t.capacity
BY DEF Unreserve, Tier

\* The seats of an event not yet on sale may be laid out anew.
LEMMA SeatsPlanned ==
  ASSUME NEW e \in Events, SeatsOf(e), Unopened(e), reservation'[e] = reservation[e],
         \A k \in DOMAIN tiers'[e] :
           tiers'[e][k] \in Tier /\ tiers'[e][k].sold = 0 /\ tiers'[e][k].reserved = 0
  PROVE  SeatsOf(e)'
<1>1. \A u \in Users : ~HasReservation(e, u)'
  BY DEF SeatsOf, HasReservation
<1>2. \A k : Holders(e, k)' = {}
  BY <1>1 DEF Holders
<1>3. \A k \in DOMAIN tiers'[e] : TierCounted(e, k)'
  BY <1>2, FS_EmptySet DEF TierCounted, Tier
<1> QED
  BY <1>1, <1>3 DEF SeatsOf

LEMMA UnreservedTiers ==
  ASSUME TypeOK, NEW e \in Events, SeatsOf(e), Unopened(e)
  PROVE  \A k \in DOMAIN tiers[e] :
           tiers[e][k] \in Tier /\ tiers[e][k].sold = 0 /\ tiers[e][k].reserved = 0
<1>1. \A k : Holders(e, k) = {}
  BY DEF SeatsOf, Holders
<1>2. \A k \in DOMAIN tiers[e] : tiers[e][k].reserved = 0
  BY <1>1, FS_EmptySet DEF SeatsOf, TierCounted
<1> QED
  BY <1>2, TierTyped DEF SeatsOf

\* In every tier u's old reservation, and no other, makes way for r.
CountsMoved(e, u, r) ==
  \A k \in DOMAIN tiers[e] :
    /\ tiers'[e][k].reserved =
         tiers[e][k].reserved - (IF u \in Holders(e, k) THEN 1 ELSE 0)
           + (IF r # None /\ r.tier = k THEN 1 ELSE 0)
    /\ tiers'[e][k].sold + tiers'[e][k].reserved <= tiers'[e][k].capacity

LEMMA SeatsMoved ==
  ASSUME TypeOK, NEW e \in Events, NEW u \in Users, NEW r, SeatsOf(e),
         reservation' = [reservation EXCEPT ![e][u] = r],
         ~Unopened(e)',
         DOMAIN tiers'[e] = DOMAIN tiers[e],
         r # None => r.tier \in DOMAIN tiers[e],
         CountsMoved(e, u, r)
  PROVE  SeatsOf(e)'
<1>0. \A k : CountMoved(e, u, r, k)
  <2>1. Reserves(e, u, r)
    BY DEF Reserves
  <2> QED
    BY ONLY <2>1, HoldersMoved, TypeOK, e \in Events, u \in Users
<1>1. \A k \in DOMAIN tiers'[e] : TierCounted(e, k)'
  <2> SUFFICES ASSUME NEW k \in DOMAIN tiers'[e]
               PROVE  TierCounted(e, k)'
    OBVIOUS
  <2>1. k \in DOMAIN tiers[e] /\ tiers[e][k].reserved = Cardinality(Holders(e, k))
    BY DEF SeatsOf, TierCounted
  <2>2. tiers'[e][k].reserved = Cardinality(Holders(e, k))'
    BY <1>0, <2>1 DEF CountsMoved, CountMoved
  <2> QED
    BY <2>1, <2>2 DEF TierCounted, CountsMoved
<1>2. \A v \in Users : HasReservation(e, v)' => reservation'[e][v].tier \in DOMAIN tiers'[e]
  <2>1. \A v \in Users : reservation'[e][v] = IF v = u THEN r ELSE reservation[e][v]
    BY DEF TypeOK
  <2> QED
    BY <2>1 DEF SeatsOf, HasReservation
<1> QED
  BY <1>1, <1>2 DEF SeatsOf

\* The seat of u is freed in the tier it was reserved in.
LEMMA SeatFreed ==
  ASSUME TypeOK, NEW e \in Events, NEW u \in Users, SeatsOf(e), HasReservation(e, u)
  PROVE  /\ DOMAIN Freed(e, u) = DOMAIN tiers[e]
         /\ \A k \in DOMAIN tiers[e] :
              /\ Freed(e, u)[k] \in Tier
              /\ Freed(e, u)[k].reserved =
                   tiers[e][k].reserved - (IF u \in Holders(e, k) THEN 1 ELSE 0)
              /\ Freed(e, u)[k].sold = tiers[e][k].sold
              /\ Freed(e, u)[k].capacity = tiers[e][k].capacity
<1>1. /\ DOMAIN Freed(e, u) = DOMAIN tiers[e]
      /\ \A k \in DOMAIN tiers[e] :
           Freed(e, u)[k] = IF k = reservation[e][u].tier THEN Unreserve(tiers[e][k])
                            ELSE tiers[e][k]
  BY FreedTyped DEF SeatsOf
<1>2. ASSUME NEW k \in DOMAIN tiers[e]
      PROVE  /\ Freed(e, u)[k] \in Tier
             /\ Freed(e, u)[k].reserved =
                  tiers[e][k].reserved - (IF u \in Holders(e, k) THEN 1 ELSE 0)
             /\ Freed(e, u)[k].sold = tiers[e][k].sold
             /\ Freed(e, u)[k].capacity = tiers[e][k].capacity
  <2>1. tiers[e][k] \in Tier /\ Unreserve(tiers[e][k]) \in Tier
    BY TierTyped
  <2>2. CASE k = reservation[e][u].tier
    <3>1. u \in Holders(e, k)
      BY <2>2 DEF Holders
    <3>2. Cardinality(Holders(e, k)) > 0
      BY <3>1, HoldersFinite, OneCounted
    <3>3. tiers[e][k].reserved > 0
      BY <3>2 DEF SeatsOf, TierCounted
    <3> QED
      BY <1>1, <2>1, <2>2, <3>1, <3>3, UnreserveCounts
  <2>3. CASE k # reservation[e][u].tier
    <3>1. u \notin Holders(e, k)
      BY <2>3 DEF Holders
    <3> QED
      BY <1>1, <2>1, <2>3, <3>1 DEF Tier
  <2> QED
    BY <2>2, <2>3
<1> QED
  BY <1>1, <1>2

\* The tier as it is for a buyer, whose own reservation does not count.
LEMMA BuyerTier ==
  ASSUME TypeOK, NEW e \in Events, NEW u \in Users, NEW k \in DOMAIN tiers[e],
         SeatsOf(e), ReservationAllows(e, u, k),
         NEW open, open = IF HasReservation(e, u) THEN Unreserve(tiers[e][k]) ELSE tiers[e][k]
  PROVE  /\ open \in Tier
         /\ open.reserved = tiers[e][k].reserved - (IF u \in Holders(e, k) THEN 1 ELSE 0)
         /\ open.sold = tiers[e][k].sold /\ open.capacity = tiers[e][k].capacity
         /\ open.price = tiers[e][k].price
<1>1. CASE HasReservation(e, u)
  <2>1. Freed(e, u)[k] = open /\ open = Unreserve(tiers[e][k])
    BY <1>1, FreedTyped DEF ReservationAllows
  <2>2. open.price = tiers[e][k].price
    BY <2>1, TierTyped DEF Unreserve, Tier
  <2> QED
    BY <1>1, <2>1, <2>2, SeatFreed
<1>2. CASE ~HasReservation(e, u)
  <2>1. u \notin Holders(e, k)
    BY <1>2 DEF Holders
  <2> QED
    BY <1>2, <2>1, TierTyped DEF Tier
<1> QED
  BY <1>1, <1>2

\* A reserved seat is there for the one who reserved it.
LEMMA ReservedSeatFree ==
  ASSUME TypeOK, NEW e \in Events, NEW u \in Users, NEW k \in DOMAIN tiers[e],
         SeatsOf(e), ReservationAllows(e, u, k), HasReservation(e, u)
  PROVE  HasSeats(Unreserve(tiers[e][k]), 1)
<1>1. u \in Holders(e, k)
  BY DEF ReservationAllows, Holders
<1>2. /\ Unreserve(tiers[e][k]).reserved = tiers[e][k].reserved - 1
      /\ Unreserve(tiers[e][k]).sold = tiers[e][k].sold
      /\ Unreserve(tiers[e][k]).capacity = tiers[e][k].capacity
  BY <1>1, BuyerTier
<1> QED
  BY <1>2, TierTyped DEF HasSeats, SeatsOf, TierCounted, Tier

\* A sale uses up the reservation of the buyer, and no other.
LEMMA SeatsSold ==
  ASSUME TypeOK, NEW e \in Events, NEW u \in Users, NEW k \in DOMAIN tiers[e],
         NEW n \in Nat, SeatsOf(e), SellSeats(e, u, k, n),
         ReservationAllows(e, u, k), ~Unopened(e)',
         HasSeats(IF HasReservation(e, u) THEN Unreserve(tiers[e][k]) ELSE tiers[e][k], n)
  PROVE  SeatsOf(e)'
<1> DEFINE open == IF HasReservation(e, u) THEN Unreserve(tiers[e][k]) ELSE tiers[e][k]
           sale == [open EXCEPT !.sold = open.sold + n]
<1>1. /\ open \in Tier
      /\ open.reserved = tiers[e][k].reserved - (IF u \in Holders(e, k) THEN 1 ELSE 0)
      /\ open.sold + open.reserved + n <= open.capacity
  BY BuyerTier DEF HasSeats
<1>2. tiers' = [tiers EXCEPT ![e][k] = sale]
  BY DEF SellSeats
<1> HIDE DEF open
<1>3. /\ sale \in Tier
      /\ sale.reserved = tiers[e][k].reserved - (IF u \in Holders(e, k) THEN 1 ELSE 0)
      /\ sale.sold + sale.reserved <= sale.capacity
  BY <1>1 DEF Tier
<1> HIDE DEF sale
<1>4. /\ DOMAIN tiers'[e] = DOMAIN tiers[e]
      /\ \A l \in DOMAIN tiers[e] : tiers'[e][l] = IF l = k THEN sale ELSE tiers[e][l]
  BY <1>2, <1>3, TierReplaced DEF TypeOK
<1>5. reservation' = [reservation EXCEPT ![e][u] = None]
  BY DEF SellSeats
<1>6. ASSUME NEW l \in DOMAIN tiers[e]
      PROVE  /\ tiers'[e][l].reserved =
                  tiers[e][l].reserved - (IF u \in Holders(e, l) THEN 1 ELSE 0)
             /\ tiers'[e][l].reserved \in Nat
             /\ tiers'[e][l].sold + tiers'[e][l].reserved <= tiers'[e][l].capacity
  <2>1. CASE l = k
    BY <1>3, <1>4, <2>1 DEF Tier
  <2>2. CASE l # k
    <3>1. u \notin Holders(e, l)
      BY <2>2 DEF Holders, ReservationAllows
    <3>2. tiers[e][l] \in Tier /\ TierCounted(e, l)
      BY TierTyped DEF SeatsOf
    <3> QED
      BY <1>4, <2>2, <3>1, <3>2 DEF Tier, TierCounted
  <2> QED
    BY <2>1, <2>2
<1>7. CountsMoved(e, u, None)
  BY <1>6, TierTyped DEF CountsMoved, Tier
<1> QED
  BY <1>4, <1>5, <1>7, SeatsMoved

\* The tiers as they are for a user whose reservation may be replaced.
LEMMA OpenTiers ==
  ASSUME TypeOK, NEW e \in Events, NEW u \in Users, SeatsOf(e),
         NEW open, open = IF HasReservation(e, u) THEN Freed(e, u) ELSE tiers[e]
  PROVE  /\ DOMAIN open = DOMAIN tiers[e]
         /\ \A l \in DOMAIN tiers[e] :
              /\ open[l] \in Tier
              /\ open[l].reserved =
                   tiers[e][l].reserved - (IF u \in Holders(e, l) THEN 1 ELSE 0)
              /\ open[l].sold = tiers[e][l].sold /\ open[l].capacity = tiers[e][l].capacity
<1>1. CASE HasReservation(e, u)
  BY <1>1, SeatFreed
<1>2. CASE ~HasReservation(e, u)
  <2>1. \A l : u \notin Holders(e, l)
    BY <1>2 DEF Holders
  <2> QED
    BY <1>2, <2>1, TierTyped DEF Tier
<1> QED
  BY <1>1, <1>2

\* A new reservation may give up an expired one of the same user.
LEMMA SeatReserved ==
  ASSUME TypeOK, NEW e \in Events, NEW u \in Users, NEW k \in DOMAIN tiers[e],
         SeatsOf(e), ReserveTicket(e, u, k)
  PROVE  SeatsOf(e)'
<1> USE DEF linkVars, termVars, postponeVars, listVars, ruleVars, freeClaimVars, proofVars
<1> DEFINE open == IF HasReservation(e, u) THEN Freed(e, u) ELSE tiers[e]
           held == [open[k] EXCEPT !.reserved = open[k].reserved + 1]
<1>1. /\ DOMAIN open = DOMAIN tiers[e]
      /\ \A l \in DOMAIN tiers[e] :
           /\ open[l] \in Tier
           /\ open[l].reserved = tiers[e][l].reserved - (IF u \in Holders(e, l) THEN 1 ELSE 0)
           /\ open[l].sold = tiers[e][l].sold /\ open[l].capacity = tiers[e][l].capacity
  BY OpenTiers
<1>2. HasSeats(open[k], 1) /\ tiers' = [tiers EXCEPT ![e] = [open EXCEPT ![k] = held]]
  BY DEF ReserveTicket
<1> HIDE DEF open
<1>3. /\ held \in Tier /\ held.reserved = open[k].reserved + 1
      /\ held.sold + held.reserved <= held.capacity
  BY <1>1, <1>2 DEF HasSeats, Tier
<1> HIDE DEF held
<1>4. /\ DOMAIN tiers'[e] = DOMAIN tiers[e]
      /\ \A l \in DOMAIN tiers[e] : tiers'[e][l] = IF l = k THEN held ELSE open[l]
  BY <1>1, <1>2 DEF TypeOK
<1>5. ASSUME NEW l \in DOMAIN tiers[e]
      PROVE  /\ tiers'[e][l].reserved =
                  tiers[e][l].reserved - (IF u \in Holders(e, l) THEN 1 ELSE 0)
                    + (IF l = k THEN 1 ELSE 0)
             /\ tiers'[e][l].sold + tiers'[e][l].reserved <= tiers'[e][l].capacity
  <2>1. CASE l = k
    BY <1>1, <1>3, <1>4, <2>1, TierTyped DEF Tier
  <2>2. CASE l # k
    BY <1>1, <1>4, <2>2, TierTyped DEF Tier, SeatsOf, TierCounted
  <2> QED
    BY <2>1, <2>2
<1>6. PICK r : /\ r # None /\ r.tier = k
               /\ reservation' = [reservation EXCEPT ![e][u] = r]
  <2>1. k \in Nat /\ now \in Nat
    BY DEF TypeOK
  <2>2. [tier |-> k, expires_at |-> now + RESERVATION_SECS] \in Reservation
    BY <2>1, EventConstants DEF Reservation
  <2> QED
    BY <2>2, EventNone DEF ReserveTicket
<1>7. ~Unopened(e)'
  BY DEF ReserveTicket, InStatus, Unopened
<1>8. r.tier \in DOMAIN tiers[e]
  BY <1>6
<1>9. CountsMoved(e, u, r)
  BY <1>5, <1>6 DEF CountsMoved
<1> QED
  BY <1>4, <1>6, <1>7, <1>8, <1>9, SeatsMoved

LEMMA SeatReleased ==
  ASSUME TypeOK, NEW e \in Events, NEW u \in Users,
         SeatsOf(e), ReleaseExpiredReservation(e, u)
  PROVE  SeatsOf(e)'
<1> USE DEF linkVars, termVars, postponeVars, listVars, ruleVars, freeClaimVars, proofVars
<1>1. /\ HasReservation(e, u) /\ tiers'[e] = Freed(e, u) /\ UNCHANGED event
      /\ reservation' = [reservation EXCEPT ![e][u] = None]
  BY DEF ReleaseExpiredReservation, TypeOK
<1>2. ~Unopened(e)'
  BY <1>1 DEF SeatsOf, Unopened, InStatus
<1>3. CountsMoved(e, u, None) /\ DOMAIN tiers'[e] = DOMAIN tiers[e]
  <2>1. ASSUME NEW k \in DOMAIN tiers[e]
        PROVE  /\ tiers'[e][k].reserved =
                    tiers[e][k].reserved - (IF u \in Holders(e, k) THEN 1 ELSE 0)
               /\ tiers'[e][k].reserved \in Nat
               /\ tiers'[e][k].sold + tiers'[e][k].reserved <= tiers'[e][k].capacity
    BY <1>1, SeatFreed, TierTyped DEF SeatsOf, TierCounted, Tier
  <2> QED
    BY <1>1, <2>1, SeatFreed, TierTyped DEF CountsMoved, Tier
<1> QED
  BY <1>1, <1>2, <1>3, SeatsMoved

\* A seat sold to a proof is an unreserved one.
LEMMA SeatTaken ==
  ASSUME TypeOK, NEW e \in Events, NEW k \in DOMAIN tiers[e], SeatsOf(e),
         SellToProof(e, k), UNCHANGED reservation, ~Unopened(e)'
  PROVE  SeatsOf(e)'
<1> DEFINE sale == [tiers[e][k] EXCEPT !.sold = tiers[e][k].sold + 1]
<1>1. /\ sale \in Tier /\ sale.reserved = tiers[e][k].reserved
      /\ sale.sold + sale.reserved <= sale.capacity
  BY TierTyped DEF SellToProof, HasSeats, Tier
<1>2. tiers' = [tiers EXCEPT ![e][k] = sale]
  BY DEF SellToProof
<1> HIDE DEF sale
<1>3. /\ DOMAIN tiers'[e] = DOMAIN tiers[e]
      /\ \A l \in DOMAIN tiers[e] : tiers'[e][l] = IF l = k THEN sale ELSE tiers[e][l]
  BY <1>1, <1>2, TierReplaced DEF TypeOK
<1>4. \A l : Holders(e, l)' = Holders(e, l)
  BY DEF Holders, HasReservation
<1>5. \A l \in DOMAIN tiers'[e] : TierCounted(e, l)'
  BY <1>1, <1>3, <1>4 DEF SeatsOf, TierCounted
<1> QED
  BY <1>3, <1>5 DEF SeatsOf, HasReservation

LEMMA SeatsAttendee ==
  ASSUME TypeOK, SeatsInv, NEW e \in Events, NEW u \in Users, AttendeeCall(e, u)
  PROVE  SeatsInv'
<1> USE DEF linkVars, termVars, postponeVars, listVars, ruleVars, freeClaimVars, proofVars
<1>1. SeatsOf(e) /\ UNCHANGED event
  BY DEF SeatsInv, AttendeeCall, ReleaseExpiredReservation, RequestPostponementRefund,
         ReserveTicket, RegisterForEvent, BatchRegisterForEvent
<1>2. \A f \in Events \ {e} : tiers'[f] = tiers[f] /\ reservation'[f] = reservation[f]
  BY SMTT(30) DEF AttendeeCall, ReleaseExpiredReservation, RequestPostponementRefund,
         ReserveTicket, RegisterForEvent, BatchRegisterForEvent, SellSeats, TypeOK
<1>3. SeatsOf(e)'
  <2>1. CASE ReleaseExpiredReservation(e, u)
    BY <1>1, <2>1, SeatReleased
  <2>2. CASE \E keepsTicket \in BOOLEAN : RequestPostponementRefund(e, u, keepsTicket)
    BY <1>1, <2>2, SeatsKeptOf
       DEF RequestPostponementRefund, SeatsKept, Unopened, InStatus
  <2>3. ASSUME NEW k \in DOMAIN tiers[e], ReserveTicket(e, u, k)
        PROVE  SeatsOf(e)'
    BY <1>1, <2>3, SeatReserved
  <2>4. ASSUME NEW k \in DOMAIN tiers[e], RegisterForEvent(e, u, k)
        PROVE  SeatsOf(e)'
    <3>1. /\ SellSeats(e, u, k, 1) /\ ReservationAllows(e, u, k)
          /\ HasReservation(e, u) \/ HasSeats(tiers[e][k], 1)
          /\ ~Unopened(e)'
      BY <1>1, <2>4 DEF RegisterForEvent, MayRegister, Unopened, InStatus
    <3>2. HasReservation(e, u) => HasSeats(Unreserve(tiers[e][k]), 1)
      BY <1>1, <3>1, ReservedSeatFree
    <3> QED
      BY <1>1, <3>1, <3>2, SeatsSold
  <2>5. ASSUME NEW k \in DOMAIN tiers[e], NEW n \in 1..MaxBatch, NEW held \in 0..MaxBatch,
               BatchRegisterForEvent(e, u, k, n, held)
        PROVE  SeatsOf(e)'
    <3>1. n \in Nat
      BY EventConstants
    <3>2. ~Unopened(e)'
      BY <1>1, <2>5 DEF BatchRegisterForEvent, MayRegister, Unopened, InStatus
    <3> QED
      BY <1>1, <2>5, <3>1, <3>2, SeatsSold DEF BatchRegisterForEvent, MayRegister
  <2> QED
    BY <2>1, <2>2, <2>3, <2>4, <2>5 DEF AttendeeCall
<1>4. \A f \in Events \ {e} : SeatsOf(f)'
  BY <1>1, <1>2, SeatsKeptOf DEF SeatsInv, SeatsKept, Unopened, InStatus
<1> QED
  BY <1>3, <1>4 DEF SeatsInv

LEMMA SeatsProof ==
  ASSUME TypeOK, SeatsInv, NEW e \in Events, ProofCall(e)
  PROVE  SeatsInv'
<1> USE DEF linkVars, termVars, postponeVars, listVars, ruleVars, freeClaimVars, proofVars
<1>1. PICK k \in DOMAIN tiers[e] :
        /\ SellToProof(e, k) /\ InStatus(e, "Active")
        /\ UNCHANGED event /\ UNCHANGED reservation
  BY DEF ProofCall, ClaimAnonymousTicket, VerifyAndAttend
<1>2. SeatsOf(e)'
  BY <1>1, SeatTaken DEF SeatsInv, Unopened, InStatus
<1>3. \A f \in Events \ {e} : SeatsOf(f)'
  BY <1>1, SeatsKeptOf DEF SeatsInv, SeatsKept, SellToProof, TypeOK, Unopened, InStatus
<1> QED
  BY <1>2, <1>3 DEF SeatsInv

\* The calls that lay out the seats of an event make them all free.
PlansSeats(e) ==
  \/ \E offer \in Offers : CreateEvent(e, offer)
  \/ \E t \in TierOffers :
       \/ AddTicketTier(e, t)
       \/ \E k \in DOMAIN tiers[e] : UpdateTier(e, k, t)

LEMMA SeatsFree ==
  ASSUME TypeOK, NEW e \in Events, SeatsOf(e), PlansSeats(e)
  PROVE  /\ Unopened(e) /\ UNCHANGED <<now, reservation, registered>>
         /\ \A f \in Events \ {e} : event'[f] = event[f] /\ tiers'[f] = tiers[f]
         /\ \A k \in DOMAIN tiers'[e] : tiers'[e][k].sold = 0 /\ tiers'[e][k].reserved = 0
<1> USE DEF linkVars, termVars, postponeVars, listVars, ruleVars, freeClaimVars, proofVars
<1> DEFINE Goal ==
      /\ Unopened(e) /\ UNCHANGED <<now, reservation, registered>>
      /\ \A f \in Events \ {e} : event'[f] = event[f] /\ tiers'[f] = tiers[f]
      /\ \A k \in DOMAIN tiers'[e] : tiers'[e][k].sold = 0 /\ tiers'[e][k].reserved = 0
<1>1. ASSUME NEW offer \in Offers, CreateEvent(e, offer)
      PROVE  Goal
  <2>1. \A k \in DOMAIN tiers'[e] : tiers'[e][k].sold = 0 /\ tiers'[e][k].reserved = 0
    <3>1. tiers'[e] = [k \in 1..Len(offer.initial_tiers) |-> NewTier(offer.initial_tiers[k])]
      BY <1>1 DEF CreateEvent, TypeOK
    <3>2. \A t : NewTier(t).sold = 0 /\ NewTier(t).reserved = 0
      BY DEF NewTier
    <3> QED
      BY ONLY <3>1, <3>2
  <2>2. Unopened(e) /\ UNCHANGED <<now, reservation, registered>>
    BY <1>1 DEF CreateEvent, Unopened
  <2>3. \A f \in Events \ {e} : event'[f] = event[f] /\ tiers'[f] = tiers[f]
    BY <1>1 DEF CreateEvent, TypeOK
  <2> QED
    BY <2>1, <2>2, <2>3
<1>2. ASSUME NEW t \in TierOffers, AddTicketTier(e, t)
      PROVE  Goal
  <2>1. /\ InStatus(e, "Upcoming") /\ Unopened(e)
        /\ UNCHANGED <<now, reservation, registered>>
        /\ tiers' = [tiers EXCEPT ![e] = Append(tiers[e], NewTier(t))]
        /\ \A f \in Events \ {e} : event'[f] = event[f]
    BY <1>2 DEF AddTicketTier, InStatus, Unopened, SetSupply, TypeOK
  <2>2. NewTier(t) \in Tier /\ NewTier(t).sold = 0 /\ NewTier(t).reserved = 0
    BY EventConstants DEF TierParams, NewTier, Tier
  <2>3. \A k \in DOMAIN tiers'[e] : tiers'[e][k].sold = 0 /\ tiers'[e][k].reserved = 0
    <3>1. tiers[e] \in Seq(Tier) /\ tiers'[e] = Append(tiers[e], NewTier(t))
      BY <2>1 DEF TypeOK
    <3>2. \A k \in DOMAIN tiers[e] : tiers[e][k].sold = 0 /\ tiers[e][k].reserved = 0
      BY <2>1, UnreservedTiers
    <3> QED
      BY <2>2, <3>1, <3>2
  <2>4. \A f \in Events \ {e} : tiers'[f] = tiers[f]
    BY <2>1 DEF TypeOK
  <2> QED
    BY <2>1, <2>3, <2>4
<1>3. ASSUME NEW t \in TierOffers, NEW k \in DOMAIN tiers[e], UpdateTier(e, k, t)
      PROVE  Goal
  <2> DEFINE new == [tiers[e][k] EXCEPT !.price = t.price, !.capacity = t.capacity]
  <2>1. /\ InStatus(e, "Upcoming") /\ Unopened(e)
        /\ UNCHANGED <<now, reservation, registered>>
        /\ tiers' = [tiers EXCEPT ![e][k] = new]
        /\ \A f \in Events \ {e} : event'[f] = event[f]
    BY <1>3 DEF UpdateTier, InStatus, Unopened, SetSupply, TypeOK
  <2>2. \A l \in DOMAIN tiers[e] : /\ tiers[e][l] \in Tier
                                   /\ tiers[e][l].sold = 0 /\ tiers[e][l].reserved = 0
    BY <2>1, UnreservedTiers
  <2>3. new.sold = 0 /\ new.reserved = 0
    BY <2>2 DEF Tier
  <2> HIDE DEF new
  <2>4. \A l \in DOMAIN tiers'[e] : tiers'[e][l].sold = 0 /\ tiers'[e][l].reserved = 0
    BY <2>1, <2>2, <2>3 DEF TypeOK
  <2>5. \A f \in Events \ {e} : tiers'[f] = tiers[f]
    BY <2>1 DEF TypeOK
  <2> QED
    BY <2>1, <2>4, <2>5
<1> QED
  BY <1>1, <1>2, <1>3 DEF PlansSeats

LEMMA SeatsOrganizer ==
  ASSUME TypeOK, TypeOK', PostponementTracked, SeatsInv, NEW e \in Events, OrganizerCall(e)
  PROVE  SeatsInv'
<1> USE DEF linkVars, termVars, postponeVars, listVars, ruleVars, freeClaimVars, proofVars
<1>1. ASSUME NEW f \in Events \ {e},
             event'[f] = event[f], tiers'[f] = tiers[f], UNCHANGED reservation
      PROVE  SeatsOf(f)'
  BY <1>1, SeatsKeptOf DEF SeatsInv, SeatsKept, Unopened, InStatus
<1>2. ASSUME UNCHANGED <<tiers, reservation>>, event[e] # None,
             \A f \in Events \ {e} : event'[f] = event[f],
             event'[e] # None,
             event'[e].status = "Upcoming" => event[e].status = "Upcoming"
      PROVE  SeatsInv'
  <2>1. SeatsOf(e)'
    BY <1>2, SeatsKeptOf DEF SeatsInv, SeatsKept, Unopened, InStatus
  <2> QED
    BY <1>1, <1>2, <2>1 DEF SeatsInv
<1>3. ASSUME NEW s \in EventStatus, event[e] # None, s # "Upcoming", SetStatus(e, s),
             UNCHANGED <<tiers, reservation>>
      PROVE  SeatsInv'
  BY <1>2, <1>3, StatusSet
<1>4. ASSUME PlansSeats(e)
      PROVE  SeatsInv'
  <2>1. \A k \in DOMAIN tiers'[e] : tiers'[e][k] \in Tier
    BY DEF TypeOK
  <2>2. SeatsOf(e)'
    BY <1>4, <2>1, SeatsFree, SeatsPlanned DEF SeatsInv
  <2> QED
    BY <1>1, <1>4, <2>2, SeatsFree DEF SeatsInv
<1>5. ASSUME NEW change \in DetailChanges, UpdateEventDetails(e, change)
      PROVE  SeatsInv'
  <2>1. /\ event[e] # None /\ event[e].status = "Upcoming"
        /\ UNCHANGED <<tiers, reservation>>
        /\ \A f \in Events \ {e} : event'[f] = event[f]
        /\ Unopened(e)
    BY <1>5 DEF UpdateEventDetails, InStatus, Unopened, TypeOK
  <2>2. SeatsKept(e)
    BY <2>1 DEF SeatsKept
  <2> QED
    BY <1>1, <2>1, <2>2, SeatsKeptOf DEF SeatsInv
<1>6. ASSUME UpdateEventStatus(e) \/ CancelEvent(e)
      PROVE  SeatsInv'
  BY <1>3, <1>6 DEF UpdateEventStatus, CancelEvent, InStatus, EventStatus
<1>7. ASSUME NEW date \in NewDates, NEW window \in ChoiceWindows,
             PostponeEvent(e, date, window)
      PROVE  SeatsInv'
  BY <1>3, <1>7 DEF PostponeEvent, InStatus, EventStatus
<1>8. ASSUME FinalizePostponement(e)
      PROVE  SeatsInv'
  <2>1. /\ UNCHANGED <<tiers, reservation>>
        /\ \A f \in Events \ {e} : event'[f] = event[f]
    BY <1>8, EventMoved DEF FinalizePostponement
  <2>2. ~Unopened(e)'
    BY <1>8, EventMoved DEF Unopened, InStatus
  <2> QED
    BY <1>1, <2>1, <2>2, SeatsKeptOf DEF SeatsInv, SeatsKept
<1>9. ASSUME UNCHANGED <<event, tiers, reservation>>
      PROVE  SeatsInv'
  BY <1>9, SeatsKeptOf DEF SeatsInv, SeatsKept, Unopened, InStatus
<1> QED
  BY <1>4, <1>5, <1>6, <1>7, <1>8, <1>9
     DEF OrganizerCall, PlansSeats, SetEventPrivacy, SetClaimSettings,
         SetAnonClaimSettings, SetZkConfig

-----------------------------------------------------------------------------
(* The dates of a postponed event.                                         *)

PostponedOf(e) ==
  /\ InStatus(e, "Postponed") => postponement[e] # None
  /\ postponement[e] # None =>
       /\ InStatus(e, "Postponed") \/ InStatus(e, "Cancelled")
       /\ postponement[e].choice_deadline_ledger < postponement[e].new_date_ledger
  /\ event[e] # None =>
       event[e].terms.event_start_ledger <= event[e].terms.event_end_ledger

LEMMA PostponedKept ==
  ASSUME NEW f \in Events, PostponedOf(f),
         event'[f] = event[f], postponement'[f] = postponement[f]
  PROVE  PostponedOf(f)'
BY DEF PostponedOf, InStatus

LEMMA PostponedOrganizer ==
  ASSUME TypeOK, PostponementTracked, NEW e \in Events, OrganizerCall(e)
  PROVE  PostponementTracked'
<1> USE DEF linkVars, termVars, postponeVars, listVars, ruleVars, freeClaimVars, proofVars
<1>0. PostponementTracked <=> \A f \in Events : PostponedOf(f)
  BY DEF PostponementTracked, PostponedOf
<1>1. ASSUME PostponedOf(e)',
             \A f \in Events \ {e} : event'[f] = event[f]
                                     /\ postponement'[f] = postponement[f]
      PROVE  PostponementTracked'
  <2>1. \A f \in Events : PostponedOf(f)'
    BY <1>0, <1>1, PostponedKept
  <2> QED
    BY <2>1 DEF PostponementTracked, PostponedOf
<1>2. PostponedOf(e)
  BY <1>0
<1>3. ASSUME NEW offer \in Offers, CreateEvent(e, offer)
      PROVE  PostponementTracked'
  <2>1. /\ event'[e] = [terms |-> TermsOf(offer), status |-> "Upcoming",
                        allow_anonymous |-> offer.details.allow_anonymous,
                        requires_verification |-> offer.details.requires_verification,
                        revenue_splits |-> offer.revenue_splits]
        /\ UNCHANGED postponement
        /\ \A f \in Events \ {e} : event'[f] = event[f]
        /\ offer.event_start_ledger <= offer.event_end_ledger /\ event[e] = None
    BY <1>3 DEF CreateEvent, TypeOK
  <2>2. PostponedOf(e)'
    BY <1>2, <2>1 DEF PostponedOf, InStatus, TermsOf
  <2> QED
    BY <1>1, <2>1, <2>2
<1>4. ASSUME NEW change \in DetailChanges, UpdateEventDetails(e, change)
      PROVE  PostponementTracked'
  <2>1. UNCHANGED postponement /\ event[e] # None
    BY <1>4 DEF UpdateEventDetails, InStatus
  <2>2. PostponedOf(e)'
    BY <1>2, <1>4, <2>1, EventChanged DEF PostponedOf, InStatus
  <2> QED
    BY <1>1, <1>4, <2>1, <2>2, EventChanged
<1>5. ASSUME NEW supply \in Nat, event[e] # None, SetSupply(e, supply), UNCHANGED postponement
      PROVE  PostponementTracked'
  <2>1. /\ event'[e].terms.event_start_ledger = event[e].terms.event_start_ledger
        /\ event'[e].terms.event_end_ledger = event[e].terms.event_end_ledger
    BY <1>5, SupplySet, EventTyped DEF EventTerms
  <2>2. PostponedOf(e)'
    BY <1>2, <1>5, <2>1, SupplySet DEF PostponedOf, InStatus
  <2> QED
    BY <1>1, <1>5, <2>2, SupplySet
<1>6. ASSUME NEW t \in TierOffers, AddTicketTier(e, t)
      PROVE  PostponementTracked'
  <2>1. t.capacity \in Nat /\ event[e] # None /\ event[e].terms \in EventTerms
    BY <1>6, EventConstants, EventTyped DEF AddTicketTier, InStatus, TierParams
  <2> QED
    BY <1>5, <1>6, <2>1 DEF AddTicketTier, EventTerms
<1>7. ASSUME NEW t \in TierOffers, NEW k \in DOMAIN tiers[e], UpdateTier(e, k, t)
      PROVE  PostponementTracked'
  <2>1. event[e] # None /\ soldCount[e] \in Nat
    BY <1>7 DEF UpdateTier, InStatus, TypeOK
  <2> QED
    BY <1>5, <1>7, <2>1, EventConstants DEF UpdateTier
<1>8. ASSUME NEW s \in EventStatus, event[e] # None, SetStatus(e, s),
             s = "Postponed" => postponement'[e] # None,
             postponement'[e] # None =>
               /\ s \in {"Postponed", "Cancelled"}
               /\ postponement'[e].choice_deadline_ledger
                    < postponement'[e].new_date_ledger,
             \A f \in Events \ {e} : postponement'[f] = postponement[f]
      PROVE  PostponementTracked'
  <2>1. PostponedOf(e)'
    BY <1>2, <1>8, StatusSet DEF PostponedOf, InStatus
  <2> QED
    BY <1>1, <1>8, <2>1, StatusSet
<1>9. ASSUME UpdateEventStatus(e)
      PROVE  PostponementTracked'
  <2>1. /\ event[e] # None /\ postponement'[e] = None
        /\ \A f \in Events \ {e} : postponement'[f] = postponement[f]
    BY <1>2, <1>9 DEF UpdateEventStatus, PostponedOf, InStatus
  <2> QED
    BY <1>8, <1>9, <2>1 DEF UpdateEventStatus, EventStatus
<1>10. ASSUME CancelEvent(e)
       PROVE  PostponementTracked'
  BY <1>2, <1>8, <1>10 DEF CancelEvent, EventStatus, PostponedOf
<1>11. ASSUME NEW date \in NewDates, NEW window \in ChoiceWindows,
              PostponeEvent(e, date, window)
       PROVE  PostponementTracked'
  <2> DEFINE info == [new_date_ledger |-> date, choice_deadline_ledger |-> now + window]
  <2>1. info \in PostponementInfo /\ info # None
    BY EventConstants, EventNone DEF PostponementInfo, TypeOK
  <2>2. /\ postponement'[e] = info
        /\ \A f \in Events \ {e} : postponement'[f] = postponement[f]
    BY <1>11 DEF PostponeEvent, TypeOK
  <2>3. info.choice_deadline_ledger < info.new_date_ledger
    BY <1>11 DEF PostponeEvent
  <2> HIDE DEF info
  <2> QED
    BY <1>8, <1>11, <2>1, <2>2, <2>3 DEF PostponeEvent, EventStatus, InStatus
<1>12. ASSUME FinalizePostponement(e)
       PROVE  PostponementTracked'
  <2>1. /\ postponement'[e] = None
        /\ \A f \in Events \ {e} : postponement'[f] = postponement[f]
    BY <1>12 DEF FinalizePostponement, TypeOK
  <2>2. PostponedOf(e)'
    BY <1>12, <2>1, EventMoved DEF PostponedOf, InStatus
  <2> QED
    BY <1>1, <1>12, <2>1, <2>2, EventMoved
<1>13. ASSUME UNCHANGED <<event, postponement>>
       PROVE  PostponementTracked'
  BY <1>1, <1>2, <1>13, PostponedKept
<1> QED
  BY <1>3, <1>4, <1>6, <1>7, <1>9, <1>10, <1>11, <1>12, <1>13
     DEF OrganizerCall, SetEventPrivacy, SetClaimSettings, SetAnonClaimSettings, SetZkConfig

-----------------------------------------------------------------------------
(* The list of attendees.                                                  *)

\* The list names every member of S once and nobody else.
Lists(list, S) ==
  /\ \A i, j \in DOMAIN list : list[i] = list[j] => i = j
  /\ S = {list[j] : j \in DOMAIN list}

AttendeesOf(e) ==
  /\ Lists(attendees[e], registered[e])
  /\ \A u \in registered[e] : ~HasReservation(e, u)

LEMMA ListExtended ==
  ASSUME NEW list \in Seq(Users), NEW S, Lists(list, S), NEW u \in Users, u \notin S
  PROVE  Lists(Append(list, u), S \cup {u})
<1> DEFINE longer == Append(list, u)
<1>1. /\ Len(list) \in Nat /\ DOMAIN list = 1..Len(list)
      /\ DOMAIN longer = 1..(Len(list) + 1)
      /\ \A i \in 1..(Len(list) + 1) :
           longer[i] = IF i = Len(list) + 1 THEN u ELSE list[i]
  OBVIOUS
<1> HIDE DEF longer
<1>2. \A j \in DOMAIN list : list[j] \in S
  BY DEF Lists
<1>3. \A i, j \in DOMAIN longer : longer[i] = longer[j] => i = j
  BY <1>1, <1>2 DEF Lists
<1>4. \A v : v \in S \cup {u} <=> \E j \in DOMAIN longer : longer[j] = v
  <2>1. ASSUME NEW v \in S
        PROVE  \E j \in DOMAIN longer : longer[j] = v
    <3>1. PICK j \in DOMAIN list : list[j] = v
      BY DEF Lists
    <3> QED
      BY <1>1, <3>1
  <2>2. longer[Len(list) + 1] = u /\ Len(list) + 1 \in DOMAIN longer
    BY <1>1
  <2> QED
    BY <1>1, <1>2, <2>1, <2>2
<1>5. S \cup {u} = {longer[j] : j \in DOMAIN longer}
  BY <1>4
<1> QED
  BY <1>3, <1>5 DEF Lists, longer

LEMMA ListCut ==
  ASSUME NEW list \in Seq(Users), NEW S, Lists(list, S), NEW j \in DOMAIN list
  PROVE  Lists(WithoutAttendee(list, j), S \ {list[j]})
<1> DEFINE shorter == WithoutAttendee(list, j)
           last == Len(list)
<1>1. /\ last \in Nat /\ last > 0 /\ DOMAIN list = 1..last
      /\ DOMAIN shorter = 1..(last - 1)
      /\ \A i \in 1..(last - 1) : shorter[i] = IF i = j THEN list[last] ELSE list[i]
  BY ListShortened
<1> HIDE DEF shorter, last
<1>2. \A i, l \in DOMAIN shorter : shorter[i] = shorter[l] => i = l
  BY <1>1 DEF Lists
<1>3. ASSUME NEW i \in DOMAIN shorter
      PROVE  shorter[i] \in S \ {list[j]}
  BY <1>1 DEF Lists
<1>4. ASSUME NEW v \in S \ {list[j]}
      PROVE  \E i \in DOMAIN shorter : shorter[i] = v
  <2>1. PICK i \in DOMAIN list : list[i] = v
    BY DEF Lists
  <2>2. i # j
    BY <2>1
  <2>3. CASE i = last
    <3>1. j \in DOMAIN shorter /\ shorter[j] = v
      BY <1>1, <2>1, <2>2, <2>3
    <3> QED
      BY <3>1
  <2>4. CASE i # last
    <3>1. i \in DOMAIN shorter /\ shorter[i] = v
      BY <1>1, <2>1, <2>2, <2>4
    <3> QED
      BY <3>1
  <2> QED
    BY <2>3, <2>4
<1>5. S \ {list[j]} = {shorter[i] : i \in DOMAIN shorter}
  BY <1>3, <1>4
<1> QED
  BY <1>2, <1>5 DEF Lists, shorter

LEMMA AttendeesAttendee ==
  ASSUME TypeOK, NEW e \in Events, NEW u \in Users, AttendeesOf(e), AttendeeCall(e, u)
  PROVE  AttendeesOf(e)'
<1> USE DEF linkVars, termVars, postponeVars, listVars, ruleVars, freeClaimVars, proofVars
<1>1. attendees[e] \in Seq(Users) /\ registered[e] \subseteq Users
  BY DEF TypeOK
<1>2. ASSUME SaveRegistration(e, u), u \notin registered[e],
             reservation' = [reservation EXCEPT ![e][u] = None]
      PROVE  AttendeesOf(e)'
  <2>1. /\ registered'[e] = registered[e] \cup {u}
        /\ attendees'[e] = Append(attendees[e], u)
    BY <1>2 DEF SaveRegistration, TypeOK
  <2>2. Lists(attendees'[e], registered'[e])
    BY <1>1, <1>2, <2>1, ListExtended DEF AttendeesOf
  <2>3. \A v \in registered'[e] : reservation'[e][v] = None
    BY <1>2, <2>1 DEF AttendeesOf, HasReservation, TypeOK
  <2> QED
    BY <2>2, <2>3 DEF AttendeesOf, HasReservation, Lists
<1>3. ASSUME UNCHANGED listVars,
             \A v \in registered[e] : reservation[e][v] = None => reservation'[e][v] = None
      PROVE  AttendeesOf(e)'
  BY <1>3 DEF AttendeesOf, HasReservation, Lists
<1>4. CASE ReleaseExpiredReservation(e, u)
  BY <1>3, <1>4 DEF ReleaseExpiredReservation, TypeOK
<1>5. ASSUME NEW keepsTicket \in BOOLEAN, RequestPostponementRefund(e, u, keepsTicket)
      PROVE  AttendeesOf(e)'
  <2>1. CASE UNCHANGED listVars
    BY <1>3, <1>5, <2>1 DEF RequestPostponementRefund
  <2>2. CASE RemoveRegistration(e, u)
    <3>1. UNCHANGED reservation
      BY <1>5 DEF RequestPostponementRefund
    <3>2. registered'[e] = registered[e] \ {u}
      BY <2>2 DEF RemoveRegistration, TypeOK
    <3>3. Lists(attendees'[e], registered'[e])
      <4>1. CASE (\A j \in DOMAIN attendees[e] : attendees[e][j] # u) /\ UNCHANGED attendees
        <5>1. u \notin registered[e]
          BY <4>1 DEF AttendeesOf, Lists
        <5>2. registered'[e] = registered[e] /\ attendees'[e] = attendees[e]
          BY <3>2, <4>1, <5>1
        <5> QED
          BY <5>2 DEF AttendeesOf
      <4>2. ASSUME NEW j \in DOMAIN attendees[e], attendees[e][j] = u,
                   attendees' = [attendees EXCEPT ![e] = WithoutAttendee(attendees[e], j)]
            PROVE  Lists(attendees'[e], registered'[e])
        <5>1. attendees'[e] = WithoutAttendee(attendees[e], j)
          BY <4>2 DEF TypeOK
        <5> QED
          BY <1>1, <3>2, <4>2, <5>1, ListCut DEF AttendeesOf
      <4> QED
        BY <2>2, <4>1, <4>2 DEF RemoveRegistration
    <3> QED
      BY <3>1, <3>2, <3>3 DEF AttendeesOf, HasReservation, Lists
  <2> QED
    BY <1>5, <2>1, <2>2 DEF RequestPostponementRefund
<1>6. ASSUME NEW k \in DOMAIN tiers[e], ReserveTicket(e, u, k)
      PROVE  AttendeesOf(e)'
  BY <1>3, <1>6 DEF ReserveTicket, TypeOK
<1>7. ASSUME NEW k \in DOMAIN tiers[e], RegisterForEvent(e, u, k)
      PROVE  AttendeesOf(e)'
  BY <1>2, <1>7 DEF RegisterForEvent, SellSeats
<1>8. ASSUME NEW k \in DOMAIN tiers[e], NEW n \in 1..MaxBatch, NEW held \in 0..MaxBatch,
             BatchRegisterForEvent(e, u, k, n, held)
      PROVE  AttendeesOf(e)'
  <2>1. reservation' = [reservation EXCEPT ![e][u] = None]
    BY <1>8 DEF BatchRegisterForEvent, SellSeats
  <2>2. CASE u \in registered[e]
    BY <1>3, <1>8, <2>1, <2>2 DEF BatchRegisterForEvent, TypeOK
  <2>3. CASE u \notin registered[e]
    BY <1>2, <1>8, <2>1, <2>3 DEF BatchRegisterForEvent
  <2> QED
    BY <2>2, <2>3
<1> QED
  BY <1>4, <1>5, <1>6, <1>7, <1>8 DEF AttendeeCall

\* The organizer lays out seats, and otherwise leaves seats and attendees.
LEMMA OrganizerKeeps ==
  ASSUME NEW e \in Events, OrganizerCall(e)
  PROVE  /\ UNCHANGED <<now, listVars, reservation>>
         /\ PlansSeats(e) \/ UNCHANGED tiers
<1> USE DEF linkVars, termVars, postponeVars, listVars, ruleVars, freeClaimVars, proofVars
<1>1. \A offer : CreateEvent(e, offer) => UNCHANGED <<now, listVars, reservation>>
  BY DEF CreateEvent
<1>2. \A change : UpdateEventDetails(e, change)
                    => UNCHANGED <<now, tiers, listVars, reservation>>
  BY DEF UpdateEventDetails
<1>3. \A t : AddTicketTier(e, t) => UNCHANGED <<now, listVars, reservation>>
  BY DEF AddTicketTier
<1>4. \A k, t : UpdateTier(e, k, t) => UNCHANGED <<now, listVars, reservation>>
  BY DEF UpdateTier
<1>5. UpdateEventStatus(e) \/ CancelEvent(e) \/ FinalizePostponement(e)
        => UNCHANGED <<now, tiers, listVars, reservation>>
  BY DEF UpdateEventStatus, CancelEvent, FinalizePostponement
<1>6. \A date, window : PostponeEvent(e, date, window)
                          => UNCHANGED <<now, tiers, listVars, reservation>>
  BY DEF PostponeEvent
<1>7. \A x : (\/ SetEventPrivacy(e, x) \/ SetClaimSettings(e, x)
              \/ SetAnonClaimSettings(e, x) \/ SetZkConfig(e, x))
             => UNCHANGED <<now, tiers, listVars, reservation>>
  BY DEF SetEventPrivacy, SetClaimSettings, SetAnonClaimSettings, SetZkConfig
<1> QED
  BY <1>1, <1>2, <1>3, <1>4, <1>5, <1>6, <1>7 DEF OrganizerCall, PlansSeats

LEMMA AttendeesNext ==
  ASSUME TypeOK, AttendeesListed, [Next]_vars
  PROVE  AttendeesListed'
<1> USE DEF linkVars, termVars, postponeVars, listVars, ruleVars, freeClaimVars, proofVars
<1>1. AttendeesListed <=> \A f \in Events : AttendeesOf(f)
  BY DEF AttendeesListed, AttendeesOf, Lists
<1>2. ASSUME NEW f \in Events, registered'[f] = registered[f], attendees'[f] = attendees[f],
             reservation'[f] = reservation[f]
      PROVE  AttendeesOf(f)'
  BY <1>1, <1>2 DEF AttendeesOf, HasReservation, Lists
<1>3. CASE UNCHANGED <<listVars, reservation>>
  <2>1. \A f \in Events : AttendeesOf(f)'
    BY <1>2, <1>3
  <2> QED
    BY <2>1 DEF AttendeesListed, AttendeesOf, Lists
<1>4. ASSUME NEW e \in Events, NEW u \in Users, AttendeeCall(e, u)
      PROVE  AttendeesListed'
  <2>1. AttendeesOf(e)'
    BY <1>1, <1>4, AttendeesAttendee
  <2>2. \A f \in Events \ {e} :
          /\ registered'[f] = registered[f] /\ attendees'[f] = attendees[f]
          /\ reservation'[f] = reservation[f]
    <3> DEFINE ListsKept == \A f \in Events \ {e} :
                              registered'[f] = registered[f] /\ attendees'[f] = attendees[f]
               ReservationsKept == \A f \in Events \ {e} : reservation'[f] = reservation[f]
    <3>1. SaveRegistration(e, u) \/ RemoveRegistration(e, u) \/ UNCHANGED listVars
            => ListsKept
      BY DEF SaveRegistration, RemoveRegistration, TypeOK
    <3>2. \A r : reservation' = [reservation EXCEPT ![e][u] = r] => ReservationsKept
      BY DEF TypeOK
    <3>3. UNCHANGED reservation => ReservationsKept
      OBVIOUS
    <3> HIDE DEF ListsKept, ReservationsKept
    <3>4. \A k, n : SellSeats(e, u, k, n) => ReservationsKept
      BY <3>2 DEF SellSeats
    <3>5. ReleaseExpiredReservation(e, u) => ListsKept /\ ReservationsKept
      BY <3>1, <3>2 DEF ReleaseExpiredReservation
    <3>6. \A keepsTicket : RequestPostponementRefund(e, u, keepsTicket)
                              => ListsKept /\ ReservationsKept
      BY <3>1, <3>3 DEF RequestPostponementRefund
    <3>7. \A k : ReserveTicket(e, u, k) => ListsKept /\ ReservationsKept
      BY <3>1, <3>2 DEF ReserveTicket
    <3>8. \A k : RegisterForEvent(e, u, k) => ListsKept /\ ReservationsKept
      BY <3>1, <3>4 DEF RegisterForEvent
    <3>9. \A k, n, held : BatchRegisterForEvent(e, u, k, n, held)
                             => ListsKept /\ ReservationsKept
      BY <3>1, <3>4 DEF BatchRegisterForEvent
    <3>10. ListsKept /\ ReservationsKept
      BY <1>4, <3>5, <3>6, <3>7, <3>8, <3>9 DEF AttendeeCall
    <3>11. QED
      BY <3>10 DEF ListsKept, ReservationsKept
  <2>3. \A f \in Events : AttendeesOf(f)'
    BY <1>2, <2>1, <2>2
  <2> QED
    BY <2>3 DEF AttendeesListed, AttendeesOf, Lists
<1>5. ASSUME NEW e \in Events, OrganizerCall(e)
      PROVE  UNCHANGED <<listVars, reservation>>
  BY <1>5, OrganizerKeeps
<1>6. ASSUME NEW e \in Events, ProofCall(e)
      PROVE  UNCHANGED <<listVars, reservation>>
  BY <1>6 DEF ProofCall, ClaimAnonymousTicket, VerifyAndAttend
<1>7. CASE Tick \/ Initialize \/ SetAnonymousClaimVerifier \/ UNCHANGED vars
  BY <1>3, <1>7 DEF Tick, Initialize, SetAnonymousClaimVerifier, vars
<1> QED
  BY <1>3, <1>4, <1>5, <1>6, <1>7 DEF Next

-----------------------------------------------------------------------------
(* The inductive invariant.                                                *)

EventInv ==
  /\ TypeOK
  /\ PostponementTracked
  /\ SeatsInv
  /\ AttendeesListed

LEMMA EventInvInit == Init => EventInv
<1> SUFFICES ASSUME Init PROVE EventInv
  OBVIOUS
<1>1. SeatsInv
  BY DEF Init, SeatsInv, SeatsOf, HasReservation
<1>2. PostponementTracked /\ AttendeesListed
  BY DEF Init, PostponementTracked, AttendeesListed, InStatus
<1> QED
  BY <1>1, <1>2, TypeInit DEF EventInv

LEMMA EventInvNext == EventInv /\ [Next]_vars => EventInv'
<1> USE DEF linkVars, termVars, postponeVars, listVars, ruleVars, freeClaimVars, proofVars
<1> SUFFICES ASSUME EventInv, [Next]_vars
             PROVE  EventInv'
  OBVIOUS
<1>1. TypeOK /\ PostponementTracked /\ SeatsInv /\ AttendeesListed /\ ReservationsPlaced
  BY DEF EventInv, SeatsInv, SeatsOf, ReservationsPlaced
<1>2. AttendeesListed'
  BY <1>1, AttendeesNext
<1>3. ASSUME NEW e \in Events, OrganizerCall(e)
      PROVE  TypeOK' /\ PostponementTracked' /\ SeatsInv'
  BY <1>1, <1>3, TypeOrganizer, PostponedOrganizer, SeatsOrganizer
<1>4. ASSUME UNCHANGED <<event, postponement>>
      PROVE  PostponementTracked'
  BY <1>1, <1>4 DEF PostponementTracked, InStatus
<1>5. ASSUME NEW e \in Events, NEW u \in Users, AttendeeCall(e, u)
      PROVE  TypeOK' /\ PostponementTracked' /\ SeatsInv'
  <2>1. UNCHANGED <<event, postponement>>
    BY <1>5 DEF AttendeeCall, ReleaseExpiredReservation, RequestPostponementRefund,
                ReserveTicket, RegisterForEvent, BatchRegisterForEvent
  <2> QED
    BY <1>1, <1>4, <1>5, <2>1, TypeAttendee, SeatsAttendee
<1>6. ASSUME NEW e \in Events, ProofCall(e)
      PROVE  TypeOK' /\ PostponementTracked' /\ SeatsInv'
  <2>1. UNCHANGED <<event, postponement>>
    BY <1>6 DEF ProofCall, ClaimAnonymousTicket, VerifyAndAttend
  <2> QED
    BY <1>1, <1>4, <1>6, <2>1, TypeProof, SeatsProof
<1>7. CASE Tick \/ Initialize \/ SetAnonymousClaimVerifier \/ UNCHANGED vars
  <2>1. UNCHANGED <<event, postponement, tiers, reservation>>
    BY <1>7 DEF Tick, Initialize, SetAnonymousClaimVerifier, vars
  <2>2. SeatsInv'
    BY <1>1, <2>1, SeatsKeptOf DEF SeatsInv, SeatsKept, Unopened, InStatus
  <2>3. TypeOK'
    <3>1. now' \in Nat /\ linked' \in BOOLEAN /\ verifierSet' \in BOOLEAN
      <4>1. now \in Nat /\ linked \in BOOLEAN /\ verifierSet \in BOOLEAN
        BY <1>1 DEF TypeOK
      <4>2. now' \in {now, now + 1} /\ linked' \in {linked, TRUE}
            /\ verifierSet' \in {verifierSet, TRUE}
        BY <1>7 DEF Tick, Initialize, SetAnonymousClaimVerifier, vars
      <4>3. now' \in Nat
        BY <4>1, <4>2
      <4>4. linked' \in BOOLEAN /\ verifierSet' \in BOOLEAN
        BY <4>1, <4>2, Zenon
      <4> QED
        BY <4>3, <4>4
    <3>2. UNCHANGED <<termVars, tiers, soldCount, postponeVars, listVars,
                      reservation, ruleVars, freeClaimVars, proofVars>>
      BY <1>7 DEF Tick, Initialize, SetAnonymousClaimVerifier, vars
    <3> QED
      BY <1>1, <3>1, <3>2 DEF TypeOK
  <2> QED
    BY <1>2, <1>4, <2>1, <2>2, <2>3 DEF EventInv
<1> QED
  BY <1>1, <1>2, <1>3, <1>5, <1>6, <1>7 DEF Next, EventInv

\* Whatever calls are made in whatever order, the four hold together: a
\* well-formed store needs reservations that name tiers (a release writes
\* the tier) and dates in order (a postponement subtracts them).
THEOREM EventInvariant == Spec => []EventInv
<1> QED
  BY EventInvInit, EventInvNext, PTL DEF Spec

\* Every record the event contract stores is well formed; no u32 or u64
\* subtraction of it underflows.
THEOREM EventTypeCorrect == Spec => []TypeOK
<1>1. EventInv => TypeOK
  BY DEF EventInv
<1> QED
  BY <1>1, EventInvariant, PTL

\* The reserved count of a tier is the number of users whose reservation
\* names it: expiry, renewal, release, registration and batch registration
\* lose no seat and free none twice, for any number of users and tiers.
THEOREM ReservedSeatsCounted == Spec => []ReservedCountsHolders
<1>1. EventInv => ReservedCountsHolders
  BY DEF EventInv, SeatsInv, SeatsOf, TierCounted, ReservedCountsHolders
<1> QED
  BY <1>1, EventInvariant, PTL

\* No tier is sold or reserved beyond its capacity.  register_for_event
\* does not look at the capacity of a tier the caller has reserved: that
\* this is safe rests on the count of reserved seats above.
THEOREM CapacityStaysRespected == Spec => []CapacityRespected
<1>1. EventInv => CapacityRespected
  BY DEF EventInv, SeatsInv, SeatsOf, TierCounted, CapacityRespected
<1> QED
  BY <1>1, EventInvariant, PTL

\* A postponed event can always be resumed or refunded: its postponement is
\* there, the new date lies behind the refund window, and the event does
\* not end before it starts.
THEOREM PostponementsStayTracked == Spec => []PostponementTracked
<1>1. EventInv => PostponementTracked
  BY DEF EventInv
<1> QED
  BY <1>1, EventInvariant, PTL

\* The paginated list of attendees is the set of registered users, each
\* once, after any registrations and swap-removals.
THEOREM AttendeesStayListed == Spec => []AttendeesListed
<1>1. EventInv => AttendeesListed
  BY DEF EventInv
<1> QED
  BY <1>1, EventInvariant, PTL

-----------------------------------------------------------------------------
(* The two totals of an event are the sums over its tiers.                 *)

SeatsOut(ts) == SumFunction([k \in DOMAIN ts |-> ts[k].sold])

\* Inductive: nothing is sold of an event that does not exist.
TotalsOf(e) ==
  /\ event[e] = None => soldCount[e] = 0
  /\ event[e] # None =>
       /\ event[e].terms.max_supply = Supply(tiers[e])
       /\ soldCount[e] = SeatsOut(tiers[e])
       /\ soldCount[e] <= event[e].terms.max_supply

TotalsInv == \A e \in Events : TotalsOf(e)

\* What a row of tiers contributes to the sums.
LEMMA TierColumns ==
  ASSUME NEW ts \in Seq(Tier)
  PROVE  /\ IsFiniteSet(DOMAIN ts)
         /\ [k \in DOMAIN ts |-> ts[k].capacity] \in [DOMAIN ts -> Int]
         /\ [k \in DOMAIN ts |-> ts[k].sold] \in [DOMAIN ts -> Int]
<1>1. DOMAIN ts = 1..Len(ts) /\ 1 \in Int /\ Len(ts) \in Int
  OBVIOUS
<1>2. IsFiniteSet(DOMAIN ts)
  BY <1>1, FS_Interval
<1>3. \A k \in DOMAIN ts : ts[k].capacity \in Int /\ ts[k].sold \in Int
  <2>1. \A k \in DOMAIN ts : ts[k] \in Tier
    OBVIOUS
  <2> QED
    BY <2>1 DEF Tier
<1> QED
  BY <1>2, <1>3

\* One tier is replaced, for a sale or by the organizer.
LEMMA TotalsOfReplaced ==
  ASSUME NEW ts \in Seq(Tier), NEW us \in Seq(Tier), DOMAIN us = DOMAIN ts,
         NEW k \in DOMAIN ts,
         \A l \in DOMAIN ts \ {k} :
           us[l].capacity = ts[l].capacity /\ us[l].sold = ts[l].sold
  PROVE  /\ Supply(us) = Supply(ts) + (us[k].capacity - ts[k].capacity)
         /\ SeatsOut(us) = SeatsOut(ts) + (us[k].sold - ts[k].sold)
<1> DEFINE S == DOMAIN ts
           C == [l \in DOMAIN ts |-> ts[l].capacity]
           D == [l \in DOMAIN us |-> us[l].capacity]
           F == [l \in DOMAIN ts |-> ts[l].sold]
           G == [l \in DOMAIN us |-> us[l].sold]
<1>1. IsFiniteSet(S) /\ C \in [S -> Int] /\ F \in [S -> Int]
  BY TierColumns
<1>2. D \in [S -> Int] /\ G \in [S -> Int]
  BY TierColumns
<1>3. \A l \in S \ {k} : C[l] = D[l] /\ F[l] = G[l]
  OBVIOUS
<1>4. /\ C[k] = ts[k].capacity /\ D[k] = us[k].capacity
      /\ F[k] = ts[k].sold /\ G[k] = us[k].sold
  OBVIOUS
<1>5. /\ Supply(ts) = SumFunction(C) /\ Supply(us) = SumFunction(D)
      /\ SeatsOut(ts) = SumFunction(F) /\ SeatsOut(us) = SumFunction(G)
  BY DEF Supply, SeatsOut
<1>6. k \in S
  OBVIOUS
<1> HIDE DEF S, C, D, F, G
<1>7. SumFunction(D) = SumFunction(C) + (D[k] - C[k])
  BY <1>1, <1>2, <1>3, <1>6, SumChanged, ZenonT(30)
<1>8. SumFunction(G) = SumFunction(F) + (G[k] - F[k])
  BY <1>1, <1>2, <1>3, <1>6, SumChanged, ZenonT(30)
<1> QED
  BY <1>4, <1>5, <1>7, <1>8

\* Tiers whose reservations alone differ have the same sums.
LEMMA TotalsOfSame ==
  ASSUME NEW ts, NEW us, DOMAIN us = DOMAIN ts,
         \A l \in DOMAIN ts : us[l].capacity = ts[l].capacity /\ us[l].sold = ts[l].sold
  PROVE  Supply(us) = Supply(ts) /\ SeatsOut(us) = SeatsOut(ts)
<1>1. /\ [l \in DOMAIN us |-> us[l].capacity] = [l \in DOMAIN ts |-> ts[l].capacity]
      /\ [l \in DOMAIN us |-> us[l].sold] = [l \in DOMAIN ts |-> ts[l].sold]
  OBVIOUS
<1> QED
  BY <1>1 DEF Supply, SeatsOut

\* A tier is added behind the others.
LEMMA TotalsOfAdded ==
  ASSUME NEW ts \in Seq(Tier), NEW t \in Tier
  PROVE  /\ Supply(Append(ts, t)) = Supply(ts) + t.capacity
         /\ SeatsOut(Append(ts, t)) = SeatsOut(ts) + t.sold
<1> DEFINE us == Append(ts, t)
           n == Len(ts)
           C == [l \in DOMAIN ts |-> ts[l].capacity]
           D == [l \in DOMAIN us |-> us[l].capacity]
           F == [l \in DOMAIN ts |-> ts[l].sold]
           G == [l \in DOMAIN us |-> us[l].sold]
<1>1. /\ n \in Nat /\ us \in Seq(Tier) /\ DOMAIN ts = 1..n /\ DOMAIN us = 1..(n + 1)
      /\ us[n + 1] = t /\ \A l \in 1..n : us[l] = ts[l]
  OBVIOUS
<1>2. C \in [1..n -> Int] /\ F \in [1..n -> Int]
  BY <1>1, TierColumns
<1> HIDE DEF us
<1>3. D \in [1..(n + 1) -> Int] /\ G \in [1..(n + 1) -> Int]
  BY <1>1, TierColumns
<1>4. (\A l \in 1..n : C[l] = D[l]) /\ (\A l \in 1..n : F[l] = G[l])
  BY <1>1
<1>5. D[n + 1] = t.capacity /\ G[n + 1] = t.sold
  BY <1>1
<1>6. /\ Supply(ts) = SumFunction(C) /\ Supply(us) = SumFunction(D)
      /\ SeatsOut(ts) = SumFunction(F) /\ SeatsOut(us) = SumFunction(G)
  BY DEF Supply, SeatsOut
<1> HIDE DEF n, C, D, F, G
<1>7. SumFunction(D) = SumFunction(C) + D[n + 1]
  BY <1>1, <1>2, <1>3, <1>4, SumAppended
<1>8. SumFunction(G) = SumFunction(F) + G[n + 1]
  BY <1>1, <1>2, <1>3, <1>4, SumAppended
<1> QED
  BY <1>5, <1>6, <1>7, <1>8 DEF us

\* Tiers with nothing sold.
LEMMA TotalsOfUnsold ==
  ASSUME NEW ts \in Seq(Tier), \A l \in DOMAIN ts : ts[l].sold = 0
  PROVE  SeatsOut(ts) = 0
<1> DEFINE S == DOMAIN ts
           F == [l \in DOMAIN ts |-> ts[l].sold]
<1>1. IsFiniteSet(S) /\ F \in [S -> Int] /\ \A l \in S : F[l] = 0
  BY TierColumns
<1>2. SeatsOut(ts) = SumFunction(F)
  BY DEF SeatsOut
<1> HIDE DEF S, F
<1> QED
  BY <1>1, <1>2, SumOfZeros

\* The sums of an event count capacities, so that they are never negative.
LEMMA SupplyNatural ==
  ASSUME NEW ts \in Seq(Tier)
  PROVE  Supply(ts) \in Nat
<1> DEFINE S == DOMAIN ts
           C == [l \in DOMAIN ts |-> ts[l].capacity]
<1>1. IsFiniteSet(S)
  BY TierColumns
<1>2. C \in [S -> Nat]
  <2>1. \A l \in S : ts[l] \in Tier
    OBVIOUS
  <2> QED
    BY <2>1 DEF Tier
<1>3. Supply(ts) = SumFunction(C)
  BY DEF Supply
<1> HIDE DEF S, C
<1> QED
  BY <1>1, <1>2, <1>3, SumOfNaturals

LEMMA TotalsKept ==
  ASSUME NEW f \in Events, TotalsOf(f), soldCount'[f] = soldCount[f],
         tiers'[f] = tiers[f], event'[f] = event[f]
  PROVE  TotalsOf(f)'
BY DEF TotalsOf

\* n seats of one tier are sold.
LEMMA TotalsSold ==
  ASSUME TypeOK, TypeOK', NEW e \in Events, NEW k \in DOMAIN tiers[e], NEW n \in Nat,
         TotalsOf(e), event[e] # None, UNCHANGED event,
         soldCount[e] + n <= event[e].terms.max_supply,
         soldCount' = [soldCount EXCEPT ![e] = soldCount[e] + n],
         NEW sale \in Tier, tiers' = [tiers EXCEPT ![e][k] = sale],
         sale.capacity = tiers[e][k].capacity, sale.sold = tiers[e][k].sold + n
  PROVE  TotalsOf(e)'
<1>1. /\ tiers[e] \in Seq(Tier) /\ tiers'[e] \in Seq(Tier)
      /\ DOMAIN tiers'[e] = DOMAIN tiers[e]
      /\ tiers'[e][k] = sale /\ \A l \in DOMAIN tiers[e] \ {k} : tiers'[e][l] = tiers[e][l]
  BY DEF TypeOK
<1>2. PICK ts \in Seq(Tier) : ts = tiers[e]
  BY <1>1
<1>3. PICK us \in Seq(Tier) : us = tiers'[e]
  BY <1>1
<1>4. ts[k] \in Tier
  BY <1>2
<1>5. /\ Supply(us) = Supply(ts) + (us[k].capacity - ts[k].capacity)
      /\ SeatsOut(us) = SeatsOut(ts) + (us[k].sold - ts[k].sold)
  <2>1. DOMAIN us = DOMAIN ts /\ k \in DOMAIN ts
    BY <1>1, <1>2, <1>3
  <2>2. \A l \in DOMAIN ts \ {k} : us[l].capacity = ts[l].capacity /\ us[l].sold = ts[l].sold
    BY <1>1, <1>2, <1>3
  <2> QED
    BY <2>1, <2>2, TotalsOfReplaced
<1>6. Supply(ts) \in Nat
  BY <1>2, SupplyNatural
<1>7. soldCount[e] \in Nat /\ soldCount'[e] = soldCount[e] + n
  BY DEF TypeOK
<1>8. us[k].capacity = ts[k].capacity /\ us[k].sold = ts[k].sold + n
  BY <1>1, <1>2, <1>3
<1>9. Supply(us) = Supply(ts)
  <2>1. us[k].capacity - ts[k].capacity = 0
    BY <1>4, <1>8 DEF Tier
  <2>2. QED
    BY <1>5, <1>6, <2>1
<1>10. SeatsOut(us) = soldCount'[e]
  <2>1. us[k].sold - ts[k].sold = n
    BY <1>4, <1>8 DEF Tier
  <2>2. SeatsOut(ts) = soldCount[e]
    BY <1>2 DEF TotalsOf
  <2>3. QED
    BY <1>5, <1>7, <2>1, <2>2
<1> QED
  BY <1>2, <1>3, <1>7, <1>9, <1>10 DEF TotalsOf

\* Calls that move no seat: the rest of the event may change.
LEMMA TotalsOfTerms ==
  ASSUME NEW e \in Events, TotalsOf(e), event[e] # None, event'[e] # None,
         event'[e].terms.max_supply = event[e].terms.max_supply,
         tiers'[e] = tiers[e], soldCount'[e] = soldCount[e]
  PROVE  TotalsOf(e)'
BY DEF TotalsOf

LEMMA TotalsAttendee ==
  ASSUME TypeOK, TypeOK', SeatsInv, TotalsInv, NEW e \in Events, NEW u \in Users,
         AttendeeCall(e, u)
  PROVE  TotalsInv'
<1> USE DEF linkVars, termVars, postponeVars, listVars, ruleVars, freeClaimVars, proofVars
<1>0. UNCHANGED event
  BY DEF AttendeeCall, ReleaseExpiredReservation,
         RequestPostponementRefund, ReserveTicket, RegisterForEvent, BatchRegisterForEvent
<1>1. SeatsOf(e) /\ TotalsOf(e) /\ UNCHANGED event
  BY <1>0 DEF SeatsInv, TotalsInv
<1>2. \A f \in Events \ {e} : tiers'[f] = tiers[f] /\ soldCount'[f] = soldCount[f]
  <2>1. \A k, n : SellSeats(e, u, k, n)
          => \A f \in Events \ {e} : tiers'[f] = tiers[f] /\ soldCount'[f] = soldCount[f]
    BY DEF SellSeats, TypeOK
  <2>2. \A k : ReserveTicket(e, u, k)
          => \A f \in Events \ {e} : tiers'[f] = tiers[f] /\ soldCount'[f] = soldCount[f]
    BY DEF ReserveTicket, TypeOK
  <2>3. ReleaseExpiredReservation(e, u)
          => \A f \in Events \ {e} : tiers'[f] = tiers[f] /\ soldCount'[f] = soldCount[f]
    BY DEF ReleaseExpiredReservation, TypeOK
  <2>4. \A x : RequestPostponementRefund(e, u, x) => UNCHANGED <<tiers, soldCount>>
    BY DEF RequestPostponementRefund
  <2> QED
    BY <2>1, <2>2, <2>3, <2>4 DEF AttendeeCall, RegisterForEvent, BatchRegisterForEvent
<1>3. ASSUME DOMAIN tiers'[e] = DOMAIN tiers[e], soldCount' = soldCount,
             \A l \in DOMAIN tiers[e] :
               /\ tiers'[e][l].capacity = tiers[e][l].capacity
               /\ tiers'[e][l].sold = tiers[e][l].sold
      PROVE  TotalsOf(e)'
  <2>1. PICK ts : ts = tiers[e]
    OBVIOUS
  <2>2. PICK us : us = tiers'[e]
    OBVIOUS
  <2>3. Supply(us) = Supply(ts) /\ SeatsOut(us) = SeatsOut(ts)
    BY <1>3, <2>1, <2>2, TotalsOfSame
  <2> QED
    BY <1>1, <1>3, <2>1, <2>2, <2>3 DEF TotalsOf
<1>4. ASSUME NEW k \in DOMAIN tiers[e], NEW n \in Nat, MayRegister(e, u, k, n),
             SellSeats(e, u, k, n)
      PROVE  TotalsOf(e)'
  <2> DEFINE open == IF HasReservation(e, u) THEN Unreserve(tiers[e][k]) ELSE tiers[e][k]
             sale == [open EXCEPT !.sold = open.sold + n]
  <2>1. /\ open \in Tier
        /\ open.sold = tiers[e][k].sold /\ open.capacity = tiers[e][k].capacity
    BY <1>1, <1>4, BuyerTier DEF MayRegister
  <2>2. /\ tiers' = [tiers EXCEPT ![e][k] = sale]
        /\ soldCount' = [soldCount EXCEPT ![e] = soldCount[e] + n]
    BY <1>4 DEF SellSeats
  <2> HIDE DEF open
  <2>3. /\ sale \in Tier /\ sale.sold = tiers[e][k].sold + n
        /\ sale.capacity = tiers[e][k].capacity
    BY <2>1 DEF Tier
  <2>4. event[e] # None /\ soldCount[e] + n <= event[e].terms.max_supply
    BY <1>4 DEF MayRegister, InStatus
  <2> HIDE DEF sale
  <2> QED
    BY <1>1, <2>2, <2>3, <2>4, TotalsSold
<1>5. TotalsOf(e)'
  <2>1. CASE ReleaseExpiredReservation(e, u)
    <3>1. HasReservation(e, u) /\ tiers'[e] = Freed(e, u) /\ soldCount' = soldCount
      BY <2>1 DEF ReleaseExpiredReservation, TypeOK
    <3> QED
      BY <1>1, <1>3, <3>1, SeatFreed
  <2>2. CASE \E keepsTicket \in BOOLEAN : RequestPostponementRefund(e, u, keepsTicket)
    BY <1>1, <1>3, <2>2 DEF RequestPostponementRefund
  <2>3. ASSUME NEW k \in DOMAIN tiers[e], ReserveTicket(e, u, k)
        PROVE  TotalsOf(e)'
    <3> DEFINE open == IF HasReservation(e, u) THEN Freed(e, u) ELSE tiers[e]
               held == [open[k] EXCEPT !.reserved = open[k].reserved + 1]
    <3>1. /\ DOMAIN open = DOMAIN tiers[e]
          /\ \A l \in DOMAIN tiers[e] :
               /\ open[l] \in Tier
               /\ open[l].sold = tiers[e][l].sold /\ open[l].capacity = tiers[e][l].capacity
      BY <1>1, OpenTiers
    <3>2. tiers'[e] = [open EXCEPT ![k] = held] /\ soldCount' = soldCount
      BY <2>3 DEF ReserveTicket, TypeOK
    <3> HIDE DEF open
    <3>3. held.sold = open[k].sold /\ held.capacity = open[k].capacity
      BY <3>1 DEF Tier
    <3> HIDE DEF held
    <3>4. /\ DOMAIN tiers'[e] = DOMAIN tiers[e]
          /\ \A l \in DOMAIN tiers[e] :
               /\ tiers'[e][l].capacity = tiers[e][l].capacity
               /\ tiers'[e][l].sold = tiers[e][l].sold
      BY <3>1, <3>2, <3>3
    <3> QED
      BY <1>3, <3>2, <3>4
  <2>4. ASSUME NEW k \in DOMAIN tiers[e], RegisterForEvent(e, u, k)
        PROVE  TotalsOf(e)'
    BY <1>4, <2>4 DEF RegisterForEvent
  <2>5. ASSUME NEW k \in DOMAIN tiers[e], NEW n \in 1..MaxBatch, NEW held \in 0..MaxBatch,
               BatchRegisterForEvent(e, u, k, n, held)
        PROVE  TotalsOf(e)'
    <3>1. n \in Nat
      BY EventConstants
    <3> QED
      BY <1>4, <2>5, <3>1 DEF BatchRegisterForEvent
  <2> QED
    BY <2>1, <2>2, <2>3, <2>4, <2>5 DEF AttendeeCall
<1> QED
  BY <1>1, <1>2, <1>5, TotalsKept DEF TotalsInv

LEMMA TotalsProof ==
  ASSUME TypeOK, TypeOK', TotalsInv, NEW e \in Events, ProofCall(e)
  PROVE  TotalsInv'
<1> USE DEF linkVars, termVars, postponeVars, listVars, ruleVars, freeClaimVars, proofVars
<1>1. PICK k \in DOMAIN tiers[e] :
        /\ SellToProof(e, k) /\ event[e] # None /\ UNCHANGED event
  BY DEF ProofCall, ClaimAnonymousTicket, VerifyAndAttend, InStatus
<1> DEFINE sale == [tiers[e][k] EXCEPT !.sold = tiers[e][k].sold + 1]
<1>2. /\ tiers' = [tiers EXCEPT ![e][k] = sale]
      /\ soldCount' = [soldCount EXCEPT ![e] = soldCount[e] + 1]
      /\ soldCount[e] < event[e].terms.max_supply
  BY <1>1 DEF SellToProof
<1>3. /\ sale \in Tier /\ sale.sold = tiers[e][k].sold + 1
      /\ sale.capacity = tiers[e][k].capacity
  BY <1>1, TierTyped DEF Tier
<1>4. soldCount[e] + 1 <= event[e].terms.max_supply
  <2>1. soldCount[e] \in Nat /\ event[e].terms.max_supply \in Nat
    BY <1>1, EventTyped DEF TypeOK, EventTerms
  <2> QED
    BY <1>2, <2>1
<1> HIDE DEF sale
<1>5. TotalsOf(e)'
  BY <1>1, <1>2, <1>3, <1>4, TotalsSold DEF TotalsInv
<1>6. \A f \in Events \ {e} : tiers'[f] = tiers[f] /\ soldCount'[f] = soldCount[f]
  BY <1>2 DEF TypeOK
<1> QED
  BY <1>1, <1>5, <1>6, TotalsKept DEF TotalsInv

LEMMA TotalsCreated ==
  ASSUME TypeOK, TypeOK', NEW e \in Events, TotalsOf(e),
         NEW offer \in Offers, CreateEvent(e, offer)
  PROVE  TotalsOf(e)'
<1> USE DEF linkVars, termVars, postponeVars, listVars, ruleVars, freeClaimVars, proofVars
<1> DEFINE rows == offer.initial_tiers
           new == [k \in 1..Len(rows) |-> NewTier(rows[k])]
<1>1. rows \in Seq(TierParams)
  BY EventConstants DEF CreateEventParams
<1>2. /\ event[e] = None /\ soldCount' = soldCount /\ tiers'[e] = new
      /\ event'[e].terms.max_supply = Supply(rows)
      /\ event'[e] # None
  <2>1. event'[e].terms = TermsOf(offer) /\ event'[e] # None
    <3>1. event' = [event EXCEPT ![e] =
            [terms |-> TermsOf(offer), status |-> "Upcoming",
             allow_anonymous |-> offer.details.allow_anonymous,
             requires_verification |-> offer.details.requires_verification,
             revenue_splits |-> offer.revenue_splits]]
      BY DEF CreateEvent
    <3>2. event'[e].terms = TermsOf(offer) /\ event'[e].status = "Upcoming"
      BY <3>1 DEF TypeOK
    <3>3. event'[e] # None
      <4>1. event'[e] \in EventRecord
        <5>1. offer \in CreateEventParams
          BY EventConstants
        <5>2. TermsOf(offer) \in EventTerms
          <6>1. Supply(rows) \in Nat
            BY EventConstants DEF CreateEvent
          <6> QED
            BY <5>1, <6>1 DEF TermsOf, EventTerms, CreateEventParams, Details
        <5> HIDE DEF rows
        <5> QED
          BY <3>1, <5>1, <5>2 DEF TypeOK, EventRecord, CreateEventParams, Details, EventStatus
      <4> QED
        BY <4>1, EventNone
    <3> QED
      BY <3>2, <3>3
  <2>2. event[e] = None /\ soldCount' = soldCount /\ tiers'[e] = new
    BY DEF CreateEvent, TypeOK
  <2> QED
    BY <2>1, <2>2 DEF TermsOf
<1>3. DOMAIN new = DOMAIN rows /\ DOMAIN rows = 1..Len(rows)
  BY <1>1
<1>4. \A k \in DOMAIN rows : new[k].capacity = rows[k].capacity /\ new[k].sold = 0
  BY <1>3 DEF NewTier
<1>5. PICK ts : ts = tiers'[e]
  OBVIOUS
<1>6. ts \in Seq(Tier)
  BY <1>5 DEF TypeOK
<1> HIDE DEF new
<1>7. Supply(ts) = Supply(rows)
  <2>1. [k \in DOMAIN ts |-> ts[k].capacity] = [k \in DOMAIN rows |-> rows[k].capacity]
    BY <1>2, <1>3, <1>4, <1>5
  <2> QED
    BY <2>1 DEF Supply
<1>8. SeatsOut(ts) = 0
  BY <1>2, <1>3, <1>4, <1>5, <1>6, TotalsOfUnsold
<1>9. Supply(ts) \in Nat
  BY <1>6, SupplyNatural
<1> HIDE DEF rows
<1> QED
  BY <1>2, <1>5, <1>7, <1>8, <1>9 DEF TotalsOf

LEMMA TotalsTierAdded ==
  ASSUME TypeOK, NEW e \in Events, TotalsOf(e), NEW t \in TierOffers, AddTicketTier(e, t)
  PROVE  TotalsOf(e)'
<1> USE DEF linkVars, termVars, postponeVars, listVars, ruleVars, freeClaimVars, proofVars
<1> DEFINE supply == event[e].terms.max_supply + t.capacity
<1>1. /\ event[e] # None /\ SetSupply(e, supply) /\ soldCount' = soldCount
      /\ tiers'[e] = Append(tiers[e], NewTier(t))
  BY DEF AddTicketTier, InStatus, TypeOK
<1>2. /\ NewTier(t) \in Tier /\ NewTier(t).sold = 0
      /\ NewTier(t).capacity = t.capacity /\ t.capacity \in Nat
  BY EventConstants DEF TierParams, NewTier, Tier
<1>3. event[e].terms.max_supply \in Nat /\ soldCount[e] \in Nat /\ event[e].terms \in EventTerms
  BY <1>1, EventTyped DEF TypeOK, EventTerms
<1>4. supply \in Nat
  BY <1>2, <1>3
<1>5. event'[e] # None /\ event'[e].terms = [event[e].terms EXCEPT !.max_supply = supply]
  <2> HIDE DEF supply
  <2> QED
    BY <1>1, <1>4, SupplySet
<1>6. event'[e].terms.max_supply = supply
  BY <1>3, <1>5 DEF EventTerms
<1>7. PICK ts \in Seq(Tier) : ts = tiers[e]
  BY DEF TypeOK
<1>8. PICK us : us = tiers'[e]
  OBVIOUS
<1>9. us = Append(ts, NewTier(t))
  BY <1>1, <1>7, <1>8
<1>10. Supply(us) = Supply(ts) + t.capacity /\ SeatsOut(us) = SeatsOut(ts) + 0
  BY <1>2, <1>9, TotalsOfAdded
<1>11. TotalsOf(e) => Supply(ts) = event[e].terms.max_supply /\ SeatsOut(ts) = soldCount[e]
                      /\ soldCount[e] <= event[e].terms.max_supply
  BY <1>1, <1>7 DEF TotalsOf
<1>12. /\ Supply(us) = event'[e].terms.max_supply /\ SeatsOut(us) = soldCount'[e]
       /\ soldCount'[e] <= event'[e].terms.max_supply
  BY <1>1, <1>2, <1>3, <1>6, <1>10, <1>11
<1> QED
  BY <1>5, <1>8, <1>12 DEF TotalsOf

\* The supply moves by the difference of the capacities, and never below
\* what is sold.
LEMMA TotalsTierUpdated ==
  ASSUME TypeOK, TypeOK', NEW e \in Events, TotalsOf(e),
         NEW t \in TierOffers, NEW k \in DOMAIN tiers[e], UpdateTier(e, k, t)
  PROVE  TotalsOf(e)'
<1> USE DEF linkVars, termVars, postponeVars, listVars, ruleVars, freeClaimVars, proofVars
<1> DEFINE supply == event[e].terms.max_supply - tiers[e][k].capacity + t.capacity
           new == [tiers[e][k] EXCEPT !.price = t.price, !.capacity = t.capacity]
<1>1. /\ event[e] # None /\ SetSupply(e, supply) /\ soldCount' = soldCount
      /\ supply \in soldCount[e]..U32_MAX
      /\ tiers' = [tiers EXCEPT ![e][k] = new]
  BY DEF UpdateTier, InStatus
<1>2. tiers[e][k] \in Tier
  BY TierTyped
<1>3. new.sold = tiers[e][k].sold /\ new.capacity = t.capacity
  BY <1>2 DEF Tier
<1>4. event[e].terms.max_supply \in Nat /\ soldCount[e] \in Nat /\ event[e].terms \in EventTerms
  BY <1>1, EventTyped DEF TypeOK, EventTerms
<1>5. supply \in Nat /\ soldCount[e] <= supply
  BY <1>1, <1>4, EventConstants
<1>6. event'[e] # None /\ event'[e].terms = [event[e].terms EXCEPT !.max_supply = supply]
  <2> HIDE DEF supply
  <2> QED
    BY <1>1, <1>5, SupplySet
<1>7. event'[e].terms.max_supply = supply
  BY <1>4, <1>6 DEF EventTerms
<1> HIDE DEF new
<1>8. PICK ts \in Seq(Tier) : ts = tiers[e]
  BY DEF TypeOK
<1>9. PICK us \in Seq(Tier) : us = tiers'[e]
  BY DEF TypeOK
<1>10. /\ DOMAIN us = DOMAIN ts /\ us[k] = new
       /\ \A l \in DOMAIN ts \ {k} : us[l] = ts[l]
  BY <1>1, <1>8, <1>9 DEF TypeOK
<1>11. /\ Supply(us) = Supply(ts) + (us[k].capacity - ts[k].capacity)
       /\ SeatsOut(us) = SeatsOut(ts) + (us[k].sold - ts[k].sold)
  BY <1>8, <1>9, <1>10, TotalsOfReplaced
<1>12. Supply(ts) = event[e].terms.max_supply /\ SeatsOut(ts) = soldCount[e]
  BY <1>1, <1>8 DEF TotalsOf
<1>13. ts[k].sold \in Nat /\ ts[k].capacity \in Nat /\ t.capacity \in Nat
  BY <1>2, <1>8, EventConstants DEF Tier, TierParams
<1>14. Supply(us) = supply /\ SeatsOut(us) = soldCount[e]
  BY <1>3, <1>4, <1>8, <1>10, <1>11, <1>12, <1>13
<1> HIDE DEF supply
<1> QED
  BY <1>1, <1>5, <1>6, <1>7, <1>9, <1>14 DEF TotalsOf

LEMMA TotalsOrganizer ==
  ASSUME TypeOK, TypeOK', PostponementTracked, TotalsInv, NEW e \in Events,
         OrganizerCall(e)
  PROVE  TotalsInv'
<1> USE DEF linkVars, termVars, postponeVars, listVars, ruleVars, freeClaimVars, proofVars
<1>1. \A f \in Events : TotalsOf(f)
  BY DEF TotalsInv
<1>2. ASSUME TotalsOf(e)', soldCount' = soldCount,
             \A f \in Events \ {e} : event'[f] = event[f] /\ tiers'[f] = tiers[f]
      PROVE  TotalsInv'
  BY <1>1, <1>2, TotalsKept DEF TotalsInv
<1>3. ASSUME event[e] # None, UNCHANGED <<tiers, soldCount>>,
             event'[e] # None, event'[e].terms.max_supply = event[e].terms.max_supply,
             \A f \in Events \ {e} : event'[f] = event[f]
      PROVE  TotalsInv'
  BY <1>1, <1>2, <1>3, TotalsOfTerms
<1>4. ASSUME NEW offer \in Offers, CreateEvent(e, offer)
      PROVE  TotalsInv'
  <2>1. TotalsOf(e)'
    BY <1>1, <1>4, TotalsCreated
  <2>2. /\ soldCount' = soldCount
        /\ \A f \in Events \ {e} : event'[f] = event[f] /\ tiers'[f] = tiers[f]
    BY <1>4 DEF CreateEvent, TypeOK
  <2> QED
    BY <1>2, <2>1, <2>2
<1>5. ASSUME NEW t \in TierOffers, AddTicketTier(e, t)
      PROVE  TotalsInv'
  <2>1. TotalsOf(e)'
    BY <1>1, <1>5, TotalsTierAdded
  <2>2. /\ soldCount' = soldCount
        /\ \A f \in Events \ {e} : event'[f] = event[f] /\ tiers'[f] = tiers[f]
    BY <1>5 DEF AddTicketTier, SetSupply, TypeOK
  <2> QED
    BY <1>2, <2>1, <2>2
<1>6. ASSUME NEW t \in TierOffers, NEW k \in DOMAIN tiers[e], UpdateTier(e, k, t)
      PROVE  TotalsInv'
  <2>1. TotalsOf(e)'
    BY <1>1, <1>6, TotalsTierUpdated
  <2>2. /\ soldCount' = soldCount
        /\ \A f \in Events \ {e} : event'[f] = event[f] /\ tiers'[f] = tiers[f]
    BY <1>6 DEF UpdateTier, SetSupply, TypeOK
  <2> QED
    BY <1>2, <2>1, <2>2
<1>7. ASSUME NEW change \in DetailChanges, UpdateEventDetails(e, change)
      PROVE  TotalsInv'
  <2>1. event[e] # None /\ UNCHANGED <<tiers, soldCount>>
    BY <1>7 DEF UpdateEventDetails, InStatus
  <2> QED
    BY <1>3, <1>7, <2>1, EventChanged
<1>8. ASSUME NEW s \in EventStatus, event[e] # None, SetStatus(e, s),
             UNCHANGED <<tiers, soldCount>>
      PROVE  TotalsInv'
  BY <1>3, <1>8, StatusSet
<1>9. ASSUME UpdateEventStatus(e) \/ CancelEvent(e)
      PROVE  TotalsInv'
  BY <1>8, <1>9 DEF UpdateEventStatus, CancelEvent, InStatus, EventStatus
<1>10. ASSUME NEW date \in NewDates, NEW window \in ChoiceWindows,
              PostponeEvent(e, date, window)
       PROVE  TotalsInv'
  BY <1>8, <1>10 DEF PostponeEvent, InStatus, EventStatus
<1>11. ASSUME FinalizePostponement(e)
       PROVE  TotalsInv'
  <2>1. event[e] # None /\ UNCHANGED <<tiers, soldCount>>
    BY <1>11 DEF FinalizePostponement, InStatus
  <2> QED
    BY <1>3, <1>11, <2>1, EventMoved
<1>12. ASSUME UNCHANGED <<event, tiers, soldCount>>
       PROVE  TotalsInv'
  BY <1>1, <1>12, TotalsKept DEF TotalsInv
<1> QED
  BY <1>4, <1>5, <1>6, <1>7, <1>9, <1>10, <1>11, <1>12
     DEF OrganizerCall, SetEventPrivacy, SetClaimSettings, SetAnonClaimSettings, SetZkConfig

LEMMA TotalsInit == Init => TotalsInv
BY DEF Init, TotalsInv, TotalsOf

LEMMA TotalsNext == TotalsInv /\ EventInv /\ EventInv' /\ [Next]_vars => TotalsInv'
<1> USE DEF linkVars, termVars, postponeVars, listVars, ruleVars, freeClaimVars, proofVars
<1> SUFFICES ASSUME TotalsInv, EventInv, EventInv', [Next]_vars
             PROVE  TotalsInv'
  OBVIOUS
<1>1. TypeOK /\ PostponementTracked /\ SeatsInv /\ TypeOK'
  BY DEF EventInv
<1>2. ASSUME NEW e \in Events, OrganizerCall(e)
      PROVE  TotalsInv'
  BY <1>1, <1>2, TotalsOrganizer
<1>3. ASSUME NEW e \in Events, NEW u \in Users, AttendeeCall(e, u)
      PROVE  TotalsInv'
  BY <1>1, <1>3, TotalsAttendee
<1>4. ASSUME NEW e \in Events, ProofCall(e)
      PROVE  TotalsInv'
  BY <1>1, <1>4, TotalsProof
<1>5. CASE Tick \/ Initialize \/ SetAnonymousClaimVerifier \/ UNCHANGED vars
  <2>1. UNCHANGED <<event, tiers, soldCount>>
    BY <1>5 DEF Tick, Initialize, SetAnonymousClaimVerifier, vars
  <2> QED
    BY <2>1, TotalsKept DEF TotalsInv
<1> QED
  BY <1>2, <1>3, <1>4, <1>5 DEF Next

\* The supply of an event is the sum of its tiers' capacities, its sold count
\* the sum of what the tiers sold, and the one never exceeds the other, though
\* the calls keep all three apart: add_ticket_tier and update_tier adjust the
\* supply by a difference, every sale adds to two counters.
THEOREM SupplyStaysMatched == Spec => []SupplyMatchesTiers
<1>1. TotalsInv => SupplyMatchesTiers
  BY DEF TotalsInv, TotalsOf, SupplyMatchesTiers, SeatsOut
<1> QED
  BY <1>1, TotalsInit, TotalsNext, EventInvariant, PTL DEF Spec

-----------------------------------------------------------------------------
(* The refinement of the ledger of seats.                                  *)

LEMMA LedgerCardinality == \A S : Ledger!Cardinality(S) = Cardinality(S)
BY DEF Ledger!Cardinality, Cardinality

LEMMA LedgerHolders == \A e, k : Ledger!Holders(e, k) = Holders(e, k)
BY DEF Ledger!Holders, Holders, HasReservation

\* The reserved count stands for the holders, so that the contract's test
\* for free seats is the ledger's.
LEMMA LedgerFree ==
  ASSUME TypeOK, SeatsInv, NEW e \in Events, NEW k \in DOMAIN tiers[e], NEW n \in Int
  PROVE  Ledger!Free(e, k, n) <=> HasSeats(tiers[e][k], n)
<1>1. tiers[e][k].reserved = Cardinality(Ledger!Holders(e, k))
  BY LedgerHolders DEF SeatsInv, SeatsOf, TierCounted
<1>2. tiers[e][k] \in Tier
  BY TierTyped
<1>3. Ledger!Free(e, k, n) <=>
        soldBar[e][k] + Cardinality(Ledger!Holders(e, k)) + n <= capacityBar[e][k]
  BY LedgerCardinality DEF Ledger!Free
<1>4. soldBar[e][k] = tiers[e][k].sold /\ capacityBar[e][k] = tiers[e][k].capacity
  BY DEF soldBar, capacityBar
<1> QED
  BY <1>1, <1>2, <1>3, <1>4 DEF HasSeats, Tier

LEMMA TiersKept ==
  ASSUME \A e \in Events :
           /\ DOMAIN tiers'[e] = DOMAIN tiers[e]
           /\ \A k \in DOMAIN tiers[e] :
                /\ tiers'[e][k].capacity = tiers[e][k].capacity
                /\ tiers'[e][k].sold = tiers[e][k].sold
  PROVE  capacityBar' = capacityBar /\ soldBar' = soldBar
BY DEF capacityBar, soldBar

\* The sold seats with another count for one tier.
SoldAt(e, k, n) == [soldBar EXCEPT ![e][k] = n]

LEMMA TierSold ==
  ASSUME TypeOK, NEW e \in Events, NEW k \in DOMAIN tiers[e], NEW t \in Tier,
         tiers' = [tiers EXCEPT ![e][k] = t], t.capacity = tiers[e][k].capacity
  PROVE  /\ capacityBar' = capacityBar
         /\ soldBar' = SoldAt(e, k, t.sold)
<1>1. /\ \A f \in Events : DOMAIN tiers'[f] = DOMAIN tiers[f]
      /\ \A f \in Events : \A l \in DOMAIN tiers[f] :
           tiers'[f][l] = IF f = e /\ l = k THEN t ELSE tiers[f][l]
  BY TierReplaced DEF TypeOK
<1>2. capacityBar' = capacityBar
  BY <1>1 DEF capacityBar
<1>3. soldBar' = SoldAt(e, k, t.sold)
  <2> DEFINE row(f) == [l \in DOMAIN tiers'[f] |-> tiers'[f][l].sold]
             new == [soldBar[e] EXCEPT ![k] = t.sold]
  <2>1. row(e) = new
    <3>1. soldBar[e] = [l \in DOMAIN tiers[e] |-> tiers[e][l].sold]
      BY DEF soldBar
    <3>2. new = [l \in DOMAIN tiers[e] |-> IF l = k THEN t.sold ELSE tiers[e][l].sold]
      BY <3>1
    <3>3. row(e) = [l \in DOMAIN tiers[e] |-> IF l = k THEN t.sold ELSE tiers[e][l].sold]
      BY <1>1
    <3> QED
      BY <3>2, <3>3
  <2>2. \A f \in Events \ {e} : row(f) = soldBar[f]
    BY <1>1 DEF soldBar
  <2>3. soldBar' = [f \in Events |-> row(f)]
    BY DEF soldBar
  <2>4. soldBar = [f \in Events |-> soldBar[f]]
    BY DEF soldBar
  <2> HIDE DEF row, new
  <2>5. soldBar' = [soldBar EXCEPT ![e] = new]
    BY <2>1, <2>2, <2>3, <2>4
  <2> QED
    BY <2>5 DEF new, SoldAt
<1> QED
  BY <1>2, <1>3

\* The ledger's state is the mapped one.
LEMMA LedgerState ==
  Ledger!ledger = <<now, capacityBar, soldBar, reservation, registered>>
BY DEF Ledger!ledger

LEMMA InitLedger == Init => Ledger!Init
BY DEF Init, Ledger!Init, capacityBar, soldBar

LEMMA TickLedger == Tick => Ledger!Tick
BY DEF Tick, Ledger!Tick, listVars, capacityBar, soldBar

LEMMA ReleaseLedger ==
  ASSUME TypeOK, SeatsInv, NEW e \in Events, NEW u \in Users, ReleaseExpiredReservation(e, u)
  PROVE  Ledger!Release(e, u)
<1> USE DEF linkVars, termVars, postponeVars, listVars, ruleVars, freeClaimVars, proofVars
<1>1. /\ HasReservation(e, u) /\ Expired(e, u)
      /\ tiers' = [tiers EXCEPT ![e] = Freed(e, u)]
      /\ reservation' = [reservation EXCEPT ![e][u] = None]
      /\ UNCHANGED <<now, registered>>
  BY DEF ReleaseExpiredReservation
<1>2. capacityBar' = capacityBar /\ soldBar' = soldBar
  <2>1. tiers'[e] = Freed(e, u) /\ \A f \in Events \ {e} : tiers'[f] = tiers[f]
    BY <1>1 DEF TypeOK
  <2> QED
    BY <1>1, <2>1, SeatFreed, TiersKept DEF SeatsInv
<1>3. Ledger!Lapsed(e, u)
  BY <1>1 DEF Ledger!Lapsed, HasReservation, Expired
<1> QED
  BY <1>1, <1>2, <1>3 DEF Ledger!Release

LEMMA HoldLedger ==
  ASSUME TypeOK, SeatsInv, NEW e \in Events, NEW u \in Users, NEW k \in DOMAIN tiers[e],
         ReserveTicket(e, u, k)
  PROVE  Ledger!Hold(e, u, k)
<1> USE DEF linkVars, termVars, postponeVars, listVars, ruleVars, freeClaimVars, proofVars
<1> DEFINE open == IF HasReservation(e, u) THEN Freed(e, u) ELSE tiers[e]
<1>1. /\ u \notin registered[e]
      /\ HasReservation(e, u) => Expired(e, u)
      /\ HasSeats(open[k], 1)
      /\ tiers' = [tiers EXCEPT ![e] = [open EXCEPT ![k].reserved = @ + 1]]
      /\ reservation' = [reservation EXCEPT ![e][u] =
           [tier |-> k, expires_at |-> now + RESERVATION_SECS]]
      /\ UNCHANGED <<now, registered>>
  BY DEF ReserveTicket
<1>2. /\ DOMAIN open = DOMAIN tiers[e]
      /\ \A l \in DOMAIN tiers[e] :
           /\ open[l] \in Tier
           /\ open[l].reserved = tiers[e][l].reserved - (IF u \in Holders(e, l) THEN 1 ELSE 0)
           /\ open[l].sold = tiers[e][l].sold /\ open[l].capacity = tiers[e][l].capacity
  BY OpenTiers DEF SeatsInv
<1> HIDE DEF open
<1>3. capacityBar' = capacityBar /\ soldBar' = soldBar
  <2> DEFINE held == [open[k] EXCEPT !.reserved = open[k].reserved + 1]
  <2>1. held.capacity = tiers[e][k].capacity /\ held.sold = tiers[e][k].sold
    BY <1>2 DEF Tier
  <2>2. tiers' = [tiers EXCEPT ![e] = [open EXCEPT ![k] = held]]
    BY <1>1
  <2> HIDE DEF held
  <2>3. /\ \A f \in Events \ {e} : tiers'[f] = tiers[f]
        /\ DOMAIN tiers'[e] = DOMAIN tiers[e]
        /\ \A l \in DOMAIN tiers[e] : tiers'[e][l] = IF l = k THEN held ELSE open[l]
    BY <1>2, <2>2 DEF TypeOK
  <2> QED
    BY <1>2, <2>1, <2>3, TiersKept
<1>4. Ledger!Free(e, k, IF u \in Ledger!Holders(e, k) THEN 0 ELSE 1)
  <2> DEFINE n == IF u \in Holders(e, k) THEN 0 ELSE 1
  <2>1. tiers[e][k] \in Tier
    BY TierTyped
  <2>2. HasSeats(tiers[e][k], n)
    BY <1>1, <1>2, <2>1 DEF HasSeats, Tier
  <2>3. n \in Int
    OBVIOUS
  <2> HIDE DEF n
  <2>4. Ledger!Free(e, k, n)
    BY <2>2, <2>3, LedgerFree
  <2> QED
    BY <2>4, LedgerHolders DEF n
<1>5. /\ reservation[e][u] = None \/ Ledger!Lapsed(e, u)
      /\ k \in DOMAIN capacityBar[e]
  BY <1>1 DEF Ledger!Lapsed, HasReservation, Expired, capacityBar
<1> QED
  BY <1>1, <1>3, <1>4, <1>5 DEF Ledger!Hold

\* A sale is one of the ledger whoever else holds seats.
LEMMA SellLedger ==
  ASSUME TypeOK, SeatsInv, NEW e \in Events, NEW u \in Users, NEW k \in DOMAIN tiers[e],
         NEW n \in Nat \ {0}, SellSeats(e, u, k, n), ReservationAllows(e, u, k),
         HasSeats(IF HasReservation(e, u) THEN Unreserve(tiers[e][k]) ELSE tiers[e][k], n),
         UNCHANGED now, registered' = [registered EXCEPT ![e] = @ \cup {u}]
  PROVE  Ledger!Sell(e, u, k)
<1>1. PICK open : open = IF HasReservation(e, u) THEN Unreserve(tiers[e][k])
                         ELSE tiers[e][k]
  OBVIOUS
<1>2. /\ open \in Tier /\ HasSeats(open, n)
      /\ open.reserved = tiers[e][k].reserved - (IF u \in Holders(e, k) THEN 1 ELSE 0)
      /\ open.sold = tiers[e][k].sold /\ open.capacity = tiers[e][k].capacity
  BY <1>1, BuyerTier DEF SeatsInv
<1>3. /\ tiers[e][k] \in Tier
      /\ soldBar[e][k] = tiers[e][k].sold /\ capacityBar[e][k] = tiers[e][k].capacity
      /\ k \in DOMAIN capacityBar[e]
  BY TierTyped DEF soldBar, capacityBar
<1>4. capacityBar' = capacityBar /\ soldBar' = [soldBar EXCEPT ![e][k] = soldBar[e][k] + n]
  <2> DEFINE sale == [open EXCEPT !.sold = open.sold + n]
  <2>1. /\ sale \in Tier /\ sale.sold = tiers[e][k].sold + n
        /\ sale.capacity = tiers[e][k].capacity
    BY <1>2 DEF Tier
  <2>2. tiers' = [tiers EXCEPT ![e][k] = sale]
    BY <1>1 DEF SellSeats
  <2> HIDE DEF sale
  <2>3. capacityBar' = capacityBar /\ soldBar' = SoldAt(e, k, sale.sold)
    BY <2>1, <2>2, TierSold
  <2> QED
    BY <1>3, <2>1, <2>3 DEF SoldAt
<1>5. n \in 1..capacityBar[e][k]
  <2>1. tiers[e][k].reserved >= (IF u \in Holders(e, k) THEN 1 ELSE 0)
    BY <1>2, <1>3 DEF Tier
  <2> QED
    BY <1>2, <1>3, <2>1 DEF HasSeats, Tier
<1>6. Ledger!Free(e, k, IF u \in Ledger!Holders(e, k) THEN n - 1 ELSE n)
  <2> DEFINE m == IF u \in Holders(e, k) THEN n - 1 ELSE n
  <2>1. HasSeats(tiers[e][k], m) /\ m \in Int
    BY <1>2, <1>3 DEF HasSeats, Tier
  <2> HIDE DEF m
  <2>2. Ledger!Free(e, k, m)
    BY <2>1, LedgerFree
  <2> QED
    BY <2>2, LedgerHolders DEF m
<1>7. reservation[e][u] # None =>
        u \in Ledger!Holders(e, k) /\ reservation[e][u].expires_at >= now
  BY LedgerHolders DEF ReservationAllows, HasReservation, Holders
<1>8. reservation' = [reservation EXCEPT ![e][u] = None]
  BY DEF SellSeats
<1> QED
  BY <1>3, <1>4, <1>5, <1>6, <1>7, <1>8 DEF Ledger!Sell

LEMMA UnnamedLedger ==
  ASSUME TypeOK, SeatsInv, NEW e \in Events, NEW k \in DOMAIN tiers[e],
         SellToProof(e, k), UNCHANGED <<now, reservation, registered>>
  PROVE  Ledger!SellUnnamed(e, k)
<1> DEFINE sale == [tiers[e][k] EXCEPT !.sold = tiers[e][k].sold + 1]
<1>1. /\ sale \in Tier /\ sale.sold = tiers[e][k].sold + 1
      /\ sale.capacity = tiers[e][k].capacity
  BY TierTyped DEF Tier
<1>2. tiers' = [tiers EXCEPT ![e][k] = sale] /\ HasSeats(tiers[e][k], 1)
  BY DEF SellToProof
<1> HIDE DEF sale
<1>3. soldBar[e][k] = tiers[e][k].sold /\ k \in DOMAIN capacityBar[e]
  BY DEF soldBar, capacityBar
<1>4. capacityBar' = capacityBar /\ soldBar' = [soldBar EXCEPT ![e][k] = soldBar[e][k] + 1]
  <2>1. capacityBar' = capacityBar /\ soldBar' = SoldAt(e, k, sale.sold)
    BY <1>1, <1>2, TierSold
  <2> QED
    BY <1>1, <1>3, <2>1 DEF SoldAt
<1>5. Ledger!Free(e, k, 1)
  BY <1>2, LedgerFree
<1> QED
  BY <1>3, <1>4, <1>5 DEF Ledger!SellUnnamed

LEMMA PlanLedger ==
  ASSUME TypeOK, TypeOK', SeatsInv, NEW e \in Events, PlansSeats(e)
  PROVE  Ledger!Plan(e)
<1>1. /\ Unopened(e) /\ SeatsOf(e) /\ UNCHANGED <<now, reservation, registered>>
      /\ \A f \in Events \ {e} : tiers'[f] = tiers[f]
      /\ \A k \in DOMAIN tiers'[e] : tiers'[e][k].sold = 0
  BY SeatsFree DEF SeatsInv
<1>2. /\ \A k \in DOMAIN soldBar[e] : soldBar[e][k] = 0
      /\ \A u \in Users : reservation[e][u] = None
  BY <1>1 DEF SeatsOf, HasReservation, soldBar
<1>3. capacityBar' \in [Events -> Seq(Nat)]
  <2>1. \A f \in Events : [k \in DOMAIN tiers'[f] |-> tiers'[f][k].capacity] \in Seq(Nat)
    <3> SUFFICES ASSUME NEW f \in Events
                 PROVE  [k \in DOMAIN tiers'[f] |-> tiers'[f][k].capacity] \in Seq(Nat)
      OBVIOUS
    <3>1. tiers'[f] \in Seq(Tier)
      BY DEF TypeOK
    <3>2. \A t \in Tier : t.capacity \in Nat
      BY DEF Tier
    <3>3. \A k \in DOMAIN tiers'[f] : tiers'[f][k].capacity \in Nat
      BY <3>1, <3>2
    <3> QED
      BY <3>1, <3>3
  <2> QED
    BY <2>1 DEF capacityBar
<1>4. \A f \in Events \ {e} : capacityBar'[f] = capacityBar[f]
  BY <1>1 DEF capacityBar
<1>5. soldBar' = [soldBar EXCEPT ![e] = [k \in DOMAIN capacityBar'[e] |-> 0]]
  <2> DEFINE row(f) == [k \in DOMAIN tiers'[f] |-> tiers'[f][k].sold]
             new == [k \in DOMAIN capacityBar'[e] |-> 0]
  <2>1. row(e) = new
    BY <1>1 DEF capacityBar
  <2>2. \A f \in Events \ {e} : row(f) = soldBar[f]
    BY <1>1 DEF soldBar
  <2>3. soldBar' = [f \in Events |-> row(f)]
    BY DEF soldBar
  <2>4. soldBar = [f \in Events |-> soldBar[f]]
    BY DEF soldBar
  <2> HIDE DEF row, new
  <2>5. soldBar' = [soldBar EXCEPT ![e] = new]
    BY <2>1, <2>2, <2>3, <2>4
  <2> QED
    BY <2>5 DEF new
<1> QED
  BY <1>1, <1>2, <1>3, <1>4, <1>5 DEF Ledger!Plan

LEMMA LedgerKept ==
  ASSUME UNCHANGED <<now, tiers, reservation, registered>>
  PROVE  UNCHANGED Ledger!ledger
BY DEF Ledger!ledger, capacityBar, soldBar

LEMMA AttendeeLedger ==
  ASSUME TypeOK, SeatsInv, NEW e \in Events, NEW u \in Users, AttendeeCall(e, u)
  PROVE  \/ Ledger!Release(e, u) \/ Ledger!Leave(e, u) \/ UNCHANGED Ledger!ledger
         \/ \E k \in DOMAIN capacityBar[e] : Ledger!Hold(e, u, k) \/ Ledger!Sell(e, u, k)
<1> USE DEF linkVars, termVars, postponeVars, listVars, ruleVars, freeClaimVars, proofVars
<1>0. DOMAIN capacityBar[e] = DOMAIN tiers[e]
  BY DEF capacityBar
<1>1. ASSUME NEW keepsTicket \in BOOLEAN, RequestPostponementRefund(e, u, keepsTicket)
      PROVE  Ledger!Leave(e, u) \/ UNCHANGED Ledger!ledger
  <2>1. UNCHANGED <<now, tiers, reservation>>
    BY <1>1 DEF RequestPostponementRefund
  <2>2. CASE UNCHANGED registered
    BY <2>1, <2>2, LedgerKept
  <2>3. CASE registered' = [registered EXCEPT ![e] = @ \ {u}]
    <3>1. capacityBar' = capacityBar /\ soldBar' = soldBar
      BY <2>1 DEF capacityBar, soldBar
    <3> QED
      BY <2>1, <2>3, <3>1 DEF Ledger!Leave
  <2> QED
    BY <1>1, <2>2, <2>3 DEF RequestPostponementRefund, RemoveRegistration
<1>2. ASSUME NEW k \in DOMAIN tiers[e], RegisterForEvent(e, u, k)
      PROVE  Ledger!Sell(e, u, k)
  <2>1. /\ SellSeats(e, u, k, 1) /\ ReservationAllows(e, u, k)
        /\ HasReservation(e, u) \/ HasSeats(tiers[e][k], 1)
        /\ UNCHANGED now /\ registered' = [registered EXCEPT ![e] = @ \cup {u}]
    BY <1>2 DEF RegisterForEvent, MayRegister, SaveRegistration
  <2>2. HasReservation(e, u) => HasSeats(Unreserve(tiers[e][k]), 1)
    BY <2>1, ReservedSeatFree DEF SeatsInv
  <2>3. HasSeats(IF HasReservation(e, u) THEN Unreserve(tiers[e][k]) ELSE tiers[e][k], 1)
    BY <2>1, <2>2
  <2>4. 1 \in Nat \ {0}
    OBVIOUS
  <2> QED
    BY <1>2, <2>1, <2>3, <2>4, SellLedger
<1>3. ASSUME NEW k \in DOMAIN tiers[e], NEW n \in 1..MaxBatch, NEW held \in 0..MaxBatch,
             BatchRegisterForEvent(e, u, k, n, held)
      PROVE  Ledger!Sell(e, u, k)
  <2>1. n \in Nat \ {0}
    BY EventConstants
  <2>2. registered' = [registered EXCEPT ![e] = @ \cup {u}]
    BY <1>3 DEF BatchRegisterForEvent, SaveRegistration, TypeOK
  <2>3. /\ SellSeats(e, u, k, n) /\ ReservationAllows(e, u, k) /\ UNCHANGED now
        /\ HasSeats(IF HasReservation(e, u) THEN Unreserve(tiers[e][k]) ELSE tiers[e][k], n)
    BY <1>3 DEF BatchRegisterForEvent, MayRegister
  <2> QED
    BY <2>1, <2>2, <2>3, SellLedger
<1> QED
  BY <1>0, <1>1, <1>2, <1>3, ReleaseLedger, HoldLedger DEF AttendeeCall

LEMMA NextLedger ==
  ASSUME EventInv, EventInv', [Next]_vars
  PROVE  [Ledger!Next]_Ledger!ledger
<1> USE DEF linkVars, termVars, postponeVars, listVars, ruleVars, freeClaimVars, proofVars
<1>1. TypeOK /\ TypeOK' /\ SeatsInv
  BY DEF EventInv
<1>2. ASSUME NEW e \in Events, OrganizerCall(e)
      PROVE  Ledger!Plan(e) \/ UNCHANGED Ledger!ledger
  BY <1>1, <1>2, OrganizerKeeps, PlanLedger, LedgerKept
<1>3. ASSUME NEW e \in Events, ProofCall(e)
      PROVE  \E k \in DOMAIN capacityBar[e] : Ledger!SellUnnamed(e, k)
  <2>1. PICK k \in DOMAIN tiers[e] :
          SellToProof(e, k) /\ UNCHANGED <<now, reservation, registered>>
    BY <1>3 DEF ProofCall, ClaimAnonymousTicket, VerifyAndAttend
  <2>2. Ledger!SellUnnamed(e, k) /\ k \in DOMAIN capacityBar[e]
    BY <1>1, <2>1, UnnamedLedger DEF capacityBar
  <2> QED
    BY <2>2
<1>4. CASE Tick
  BY <1>4, TickLedger DEF Ledger!Next
<1>5. CASE Initialize \/ SetAnonymousClaimVerifier \/ UNCHANGED vars
  BY <1>5, LedgerKept DEF Initialize, SetAnonymousClaimVerifier, vars
<1> QED
  BY <1>1, <1>2, <1>3, <1>4, <1>5, AttendeeLedger DEF Next, Ledger!Next

\* Reservations, registrations, batches, anonymous claims and passports keep
\* the promise of the ledger: a seat that is reserved is there for its
\* holder, a call takes only free seats or the caller's own, and the seats
\* of an event are laid out anew only while all of them are free.
THEOREM ReservationsKeepSeats == Spec => KeepsSeats
<1>1. EventInv /\ EventInv' /\ [Next]_vars => [Ledger!Next]_Ledger!ledger
  BY NextLedger
<1> QED
  BY <1>1, InitLedger, EventInvariant, PTL DEF Spec, KeepsSeats


-----------------------------------------------------------------------------
(* What a call leaves of an event, for the contracts that are told of it.  *)

\* create_event and update_event_details ask for it: at most 20 percent.
RoyaltyCapped(e) == event[e] # None => event[e].terms.resale_royalty_bps <= 2000

ButSupply(terms) == [terms EXCEPT !.max_supply = 0]

\* Only the event e is written, which is left with status s.
Written(e, s) ==
  /\ event'[e] # None
  /\ event'[e].status = s
  /\ RoyaltyCapped(e) => event'[e].terms.resale_royalty_bps <= 2000
  /\ \A f \in Events \ {e} : event'[f] = event[f] /\ postponement'[f] = postponement[f]

\* The calls made before sales open.
LEMMA EventPlanned ==
  ASSUME EventInv, NEW e \in Events
  PROVE  /\ \A offer \in Offers :
              CreateEvent(e, offer) => event[e] = None /\ Written(e, "Upcoming")
         /\ \A change \in DetailChanges :
              UpdateEventDetails(e, change) =>
                InStatus(e, "Upcoming") /\ Written(e, "Upcoming")
         /\ \A t \in TierOffers :
              AddTicketTier(e, t) \/ (\E k \in DOMAIN tiers[e] : UpdateTier(e, k, t)) =>
                /\ InStatus(e, "Upcoming") /\ Written(e, "Upcoming")
                /\ ButSupply(event'[e].terms) = ButSupply(event[e].terms)
<1> USE DEF termVars, postponeVars
<1>1. TypeOK
  BY DEF EventInv
<1>2. ASSUME NEW offer \in Offers, CreateEvent(e, offer)
      PROVE  event[e] = None /\ Written(e, "Upcoming")
  <2> DEFINE record == [terms |-> TermsOf(offer), status |-> "Upcoming",
                        allow_anonymous |-> offer.details.allow_anonymous,
                        requires_verification |-> offer.details.requires_verification,
                        revenue_splits |-> offer.revenue_splits]
  <2>1. offer \in CreateEventParams /\ offer.details \in Details
        /\ Supply(offer.initial_tiers) \in Nat
    BY <1>2, EventConstants DEF CreateEvent, CreateEventParams
  <2>2. TermsOf(offer) \in EventTerms
    BY <2>1 DEF TermsOf, EventTerms, CreateEventParams, Details
  <2>3. record \in EventRecord /\ record.status = "Upcoming"
        /\ record.terms.resale_royalty_bps = offer.details.resale_royalty_bps
    BY <2>1, <2>2 DEF EventRecord, EventStatus, CreateEventParams, Details, TermsOf
  <2>4. event' = [event EXCEPT ![e] = record]
    BY <1>2 DEF CreateEvent
  <2> HIDE DEF record
  <2>5. event'[e] = record /\ event'[e] # None
        /\ \A f \in Events \ {e} : event'[f] = event[f]
    BY <1>1, <2>3, <2>4, RecordSet
  <2>6. event[e] = None /\ offer.details.resale_royalty_bps <= 2000
        /\ postponement' = postponement
    BY <1>2 DEF CreateEvent
  <2>7. QED
    BY <2>3, <2>5, <2>6 DEF Written
<1>3. ASSUME NEW change \in DetailChanges, UpdateEventDetails(e, change)
      PROVE  InStatus(e, "Upcoming") /\ Written(e, "Upcoming")
  <2>1. InStatus(e, "Upcoming") /\ postponement' = postponement
    BY <1>3 DEF UpdateEventDetails
  <2>2. /\ event'[e] # None /\ event'[e].status = event[e].status
        /\ \A f \in Events \ {e} : event'[f] = event[f]
    BY <1>1, <1>3, EventChanged
  <2>3. event[e] \in EventRecord /\ event[e].terms \in EventTerms
        /\ event \in [Events -> EventRecord \cup {None}]
    BY <1>1, <2>1, EventTyped DEF InStatus, TypeOK
  <2>4. event'[e].terms = Changed(event[e].terms, change)
    BY <1>3, <2>3 DEF UpdateEventDetails, EventRecord
  <2>5. event'[e].terms.resale_royalty_bps = change.resale_royalty_bps
    BY <2>3, <2>4 DEF Changed, EventTerms
  <2>6. \/ change.resale_royalty_bps = event[e].terms.resale_royalty_bps
        \/ change.resale_royalty_bps <= 2000
    BY <1>3 DEF UpdateEventDetails
  <2>7. RoyaltyCapped(e) => event'[e].terms.resale_royalty_bps <= 2000
    BY <2>1, <2>5, <2>6 DEF RoyaltyCapped, InStatus
  <2>8. QED
    BY <2>1, <2>2, <2>7 DEF Written, InStatus
<1>4. ASSUME NEW supply \in Nat, SetSupply(e, supply), InStatus(e, "Upcoming"),
             postponement' = postponement
      PROVE  /\ Written(e, "Upcoming")
             /\ ButSupply(event'[e].terms) = ButSupply(event[e].terms)
  <2>1. /\ event'[e] # None /\ event'[e].status = event[e].status
        /\ event'[e].terms = [event[e].terms EXCEPT !.max_supply = supply]
        /\ \A f \in Events \ {e} : event'[f] = event[f]
    BY <1>1, <1>4, SupplySet DEF InStatus
  <2>2. event[e].terms \in EventTerms
    BY <1>1, <1>4, EventTyped DEF InStatus
  <2>3. event'[e].terms.resale_royalty_bps = event[e].terms.resale_royalty_bps
        /\ ButSupply(event'[e].terms) = ButSupply(event[e].terms)
    BY <2>1, <2>2 DEF EventTerms, ButSupply
  <2>4. QED
    BY <1>4, <2>1, <2>3 DEF Written, InStatus, RoyaltyCapped
<1>5. ASSUME NEW t \in TierOffers, AddTicketTier(e, t)
      PROVE  /\ InStatus(e, "Upcoming") /\ Written(e, "Upcoming")
             /\ ButSupply(event'[e].terms) = ButSupply(event[e].terms)
  <2>1. InStatus(e, "Upcoming") /\ postponement' = postponement
    BY <1>5 DEF AddTicketTier
  <2>2. t.capacity \in Nat /\ event[e].terms \in EventTerms
    BY <1>1, <2>1, EventConstants, EventTyped DEF TierParams, InStatus
  <2>3. \E supply \in Nat : SetSupply(e, supply)
    BY <1>5, <2>2 DEF AddTicketTier, EventTerms
  <2>4. QED
    BY <1>4, <2>1, <2>3
<1>6. ASSUME NEW t \in TierOffers, NEW k \in DOMAIN tiers[e], UpdateTier(e, k, t)
      PROVE  /\ InStatus(e, "Upcoming") /\ Written(e, "Upcoming")
             /\ ButSupply(event'[e].terms) = ButSupply(event[e].terms)
  <2>1. InStatus(e, "Upcoming") /\ postponement' = postponement
    BY <1>6 DEF UpdateTier
  <2>2. soldCount[e] \in Nat
    BY <1>1 DEF TypeOK
  <2>3. \E supply \in Nat : SetSupply(e, supply)
    BY <1>6, <2>2, EventConstants DEF UpdateTier
  <2>4. QED
    BY <1>4, <2>1, <2>3
<1>7. QED
  BY <1>2, <1>3, <1>5, <1>6

\* The calls that change its status.
LEMMA EventMovedOn ==
  ASSUME EventInv, NEW e \in Events
  PROVE  /\ UpdateEventStatus(e) =>
              /\ InStatus(e, "Upcoming") \/ InStatus(e, "Active")
              /\ Written(e, "Active") \/ Written(e, "Completed")
              /\ event'[e].terms = event[e].terms
         /\ CancelEvent(e) =>
              /\ event[e] # None /\ event[e].status # "Cancelled"
              /\ Written(e, "Cancelled")
              /\ event'[e].terms = event[e].terms
         /\ \A date, window : PostponeEvent(e, date, window) =>
              /\ InStatus(e, "Active") /\ Written(e, "Postponed")
              /\ event'[e].terms = event[e].terms
              /\ postponement'[e].choice_deadline_ledger = now + window
         /\ FinalizePostponement(e) => InStatus(e, "Postponed") /\ Written(e, "Active")
<1> USE DEF termVars, postponeVars
<1>1. TypeOK /\ PostponementTracked
  BY DEF EventInv
<1>2. ASSUME event[e] # None, NEW s \in EventStatus, SetStatus(e, s),
             \A f \in Events \ {e} : postponement'[f] = postponement[f]
      PROVE  Written(e, s) /\ event'[e].terms = event[e].terms
  <2>1. /\ event'[e] # None /\ event'[e].status = s /\ event'[e].terms = event[e].terms
        /\ \A f \in Events \ {e} : event'[f] = event[f]
    BY <1>1, <1>2, StatusSet
  <2>2. QED
    BY <1>2, <2>1 DEF Written, RoyaltyCapped
<1>3. {"Active", "Completed", "Cancelled", "Postponed"} \subseteq EventStatus
  BY DEF EventStatus
<1>4. ASSUME UpdateEventStatus(e)
      PROVE  /\ InStatus(e, "Upcoming") \/ InStatus(e, "Active")
             /\ Written(e, "Active") \/ Written(e, "Completed")
             /\ event'[e].terms = event[e].terms
  <2>1. event[e] # None /\ postponement' = postponement
        /\ (InStatus(e, "Upcoming") \/ InStatus(e, "Active"))
        /\ (SetStatus(e, "Active") \/ SetStatus(e, "Completed"))
    BY <1>4 DEF UpdateEventStatus, InStatus
  <2>2. QED
    BY <1>2, <1>3, <2>1
<1>5. ASSUME CancelEvent(e)
      PROVE  /\ event[e] # None /\ event[e].status # "Cancelled"
             /\ Written(e, "Cancelled")
             /\ event'[e].terms = event[e].terms
  <2>1. event[e] # None /\ event[e].status # "Cancelled"
        /\ SetStatus(e, "Cancelled") /\ postponement' = postponement
    BY <1>5 DEF CancelEvent
  <2>2. QED
    BY <1>2, <1>3, <2>1
<1>6. ASSUME NEW date, NEW window, PostponeEvent(e, date, window)
      PROVE  /\ InStatus(e, "Active") /\ Written(e, "Postponed")
             /\ event'[e].terms = event[e].terms
             /\ postponement'[e].choice_deadline_ledger = now + window
  <2>1. InStatus(e, "Active") /\ SetStatus(e, "Postponed")
        /\ postponement' = [postponement EXCEPT ![e] =
             [new_date_ledger |-> date, choice_deadline_ledger |-> now + window]]
    BY <1>6 DEF PostponeEvent
  <2>2. postponement \in [Events -> PostponementInfo \cup {None}]
    BY <1>1 DEF TypeOK
  <2>3. /\ postponement'[e].choice_deadline_ledger = now + window
        /\ \A f \in Events \ {e} : postponement'[f] = postponement[f]
    BY <2>1, <2>2
  <2>4. event[e] # None
    BY <2>1 DEF InStatus
  <2>5. QED
    BY <1>2, <1>3, <2>1, <2>3, <2>4
<1>7. ASSUME FinalizePostponement(e)
      PROVE  InStatus(e, "Postponed") /\ Written(e, "Active")
  <2>1. InStatus(e, "Postponed") /\ postponement' = [postponement EXCEPT ![e] = None]
    BY <1>7 DEF FinalizePostponement
  <2>2. /\ event'[e] # None /\ event'[e].status = "Active"
        /\ \A f \in Events \ {e} : event'[f] = event[f]
    BY <1>1, <1>7, EventMoved
  <2>3. /\ event \in [Events -> EventRecord \cup {None}]
        /\ event[e] \in EventRecord /\ event[e].terms \in EventTerms
        /\ postponement \in [Events -> PostponementInfo \cup {None}]
    BY <1>1, <2>1, EventTyped DEF InStatus, TypeOK
  <2>4. event'[e].terms = Moved(event[e].terms, postponement[e].new_date_ledger)
    BY <1>7, <2>3 DEF FinalizePostponement, EventRecord
  <2>5. event'[e].terms.resale_royalty_bps = event[e].terms.resale_royalty_bps
    BY <2>3, <2>4 DEF Moved, EventTerms
  <2>6. \A f \in Events \ {e} : postponement'[f] = postponement[f]
    BY <2>1, <2>3
  <2>7. QED
    BY <2>1, <2>2, <2>5, <2>6 DEF Written, RoyaltyCapped, InStatus
<1>8. QED
  BY <1>4, <1>5, <1>6, <1>7

\* What a stored event may be.
LEMMA EventStored ==
  ASSUME EventInv
  PROVE  /\ None \notin EventRecord
         /\ event \in [Events -> EventRecord \cup {None}]
         /\ postponement \in [Events -> PostponementInfo \cup {None}]
BY EventNone DEF EventInv, TypeOK
=============================================================================
