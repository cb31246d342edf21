----------------------------- MODULE EventContract -----------------------------
(***************************************************************************)
(* The event contract by itself: any call may come next, and the other     *)
(* two contracts agree to whatever they are asked.                         *)
(***************************************************************************)
EXTENDS Seats

OrganizerCall(e) ==
  \/ \E offer \in Offers : CreateEvent(e, offer)
  \/ \E change \in DetailChanges : UpdateEventDetails(e, change)
  \/ \E t \in TierOffers :
       \/ AddTicketTier(e, t)
       \/ \E k \in DOMAIN tiers[e] : UpdateTier(e, k, t)
  \/ UpdateEventStatus(e)
  \/ CancelEvent(e)
  \/ \E date \in NewDates, window \in ChoiceWindows : PostponeEvent(e, date, window)
  \/ FinalizePostponement(e)
  \/ \E level \in PrivacyLevels : SetEventPrivacy(e, level)
  \/ \E settings \in ClaimRules : SetClaimSettings(e, settings)
  \/ \E settings \in AnonRules : SetAnonClaimSettings(e, settings)
  \/ \E enabled \in ZkSwitch : SetZkConfig(e, enabled)

AttendeeCall(e, u) ==
  \/ ReleaseExpiredReservation(e, u)
  \/ \E keepsTicket \in BOOLEAN : RequestPostponementRefund(e, u, keepsTicket)
  \/ \E k \in DOMAIN tiers[e] :
       \/ ReserveTicket(e, u, k)
       \/ RegisterForEvent(e, u, k)
       \/ \E n \in 1..MaxBatch, held \in 0..MaxBatch :
            BatchRegisterForEvent(e, u, k, n, held)

ProofCall(e) ==
  \E k \in DOMAIN tiers[e] :
    \/ \E claim \in AnonymousClaims : ClaimAnonymousTicket(e, k, claim)
    \/ \E passport \in Passports : VerifyAndAttend(e, k, passport)

Next ==
  \/ Tick
  \/ Initialize
  \/ SetAnonymousClaimVerifier
  \/ \E e \in Events :
       \/ OrganizerCall(e)
       \/ ProofCall(e)
       \/ \E u \in Users : AttendeeCall(e, u)

Spec == Init /\ [][Next]_vars

\* Ledgers close, and somebody releases a reservation that stays expired.
\* Anyone may, so the attendee's absence does not excuse it; nobody need do
\* anything else.
FairSpec ==
  /\ Spec
  /\ WF_now(Tick)
  /\ \A e \in Events, u \in Users : WF_reservation(ReleaseExpiredReservation(e, u))

-----------------------------------------------------------------------------
TypeOK ==
  /\ now \in Nat
  /\ linked \in BOOLEAN
  /\ verifierSet \in BOOLEAN
  /\ event \in [Events -> EventRecord \cup {None}]
  /\ tiers \in [Events -> Seq(Tier)]
  /\ soldCount \in [Events -> Nat]
  /\ eventPrivacy \in [Events -> Privacy]
  /\ postponement \in [Events -> PostponementInfo \cup {None}]
  /\ postponeCount \in [Events -> 0..MAX_POSTPONEMENTS]
  /\ registered \in [Events -> SUBSET Users]
  /\ attendees \in [Events -> Seq(Users)]
  /\ reservation \in [Events -> [Users -> Reservation \cup {None}]]
  /\ claimSettings \in [Events -> ClaimSettings]
  /\ freeClaims \in [Events -> [Users -> Nat]]
  /\ lastFreeClaim \in [Events -> [Users -> Nat]]
  /\ anonSettings \in [Events -> AnonClaimSettings]
  /\ anonWindow \in [Events -> [window_index: Nat, count: Nat]]
  /\ claimed \in [Events -> [Nullifiers -> Commitments \cup {None}]]
  /\ zkEnabled \in [Events -> BOOLEAN]
  /\ zkNullifiers \in [Events -> SUBSET Passports]

\* Who has a seat of the tier reserved, expired or not.
Holders(e, k) == {u \in Users : HasReservation(e, u) /\ reservation[e][u].tier = k}

\* The reserved count of a tier is the number of reservations for it, so
\* that no path through expiry, renewal, registration or batch registration
\* loses a seat or frees one twice.
ReservedCountsHolders ==
  \A e \in Events : \A k \in DOMAIN tiers[e] :
    tiers[e][k].reserved = Cardinality(Holders(e, k))

\* No tier is sold or reserved beyond its capacity, though a registration
\* with a reservation does not look at the capacity at all.
CapacityRespected ==
  \A e \in Events : \A k \in DOMAIN tiers[e] :
    tiers[e][k].sold + tiers[e][k].reserved <= tiers[e][k].capacity

\* The event's two totals, kept beside the tiers, are their sums.
SupplyMatchesTiers ==
  \A e \in Events : event[e] # None =>
    /\ event[e].terms.max_supply = Supply(tiers[e])
    /\ soldCount[e] = SumFunction([k \in DOMAIN tiers[e] |-> tiers[e][k].sold])
    /\ soldCount[e] <= event[e].terms.max_supply

\* The paginated list of attendees names every registered user once and
\* nobody else, after any sequence of registrations and removals, and a
\* registered user has no reservation left to block a seat.
AttendeesListed ==
  \A e \in Events :
    /\ \A i, j \in DOMAIN attendees[e] : attendees[e][i] = attendees[e][j] => i = j
    /\ registered[e] = {attendees[e][j] : j \in DOMAIN attendees[e]}
    /\ \A u \in registered[e] : ~HasReservation(e, u)

\* A postponed event has the postponement that lets it resume, an event that
\* resumed has none left over from last time, and the new date lies behind
\* the refund window.
PostponementTracked ==
  \A e \in Events :
    /\ InStatus(e, "Postponed") => postponement[e] # None
    /\ postponement[e] # None =>
         /\ InStatus(e, "Postponed") \/ InStatus(e, "Cancelled")
         /\ postponement[e].choice_deadline_ledger < postponement[e].new_date_ledger
    /\ event[e] # None =>
         event[e].terms.event_start_ledger <= event[e].terms.event_end_ledger

\* What the ledger of seats sees of the tiers.
capacityBar == [e \in Events |-> [k \in DOMAIN tiers[e] |-> tiers[e][k].capacity]]
soldBar == [e \in Events |-> [k \in DOMAIN tiers[e] |-> tiers[e][k].sold]]

Ledger == INSTANCE SeatLedger WITH
  HoldTime <- RESERVATION_SECS,
  capacity <- capacityBar,
  sold <- soldBar,
  hold <- reservation,
  guests <- registered

\* The counters of the contract implement the ledger of seats: a reserved
\* seat is its holder's until the reservation expires.
KeepsSeats == Ledger!Init /\ [][Ledger!Next]_Ledger!ledger

\* A seat does not stay blocked by a reservation that has expired, also of
\* an event that is postponed, cancelled or over: "Time-limited ticket
\* reservations with 15-minute expiry windows" (docs/ARCHITECTURE.md:31).
ExpiredSeatsFreed ==
  \A e \in Events, u \in Users : []<>~(HasReservation(e, u) /\ Expired(e, u))
=============================================================================
