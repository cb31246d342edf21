---------------------------- MODULE EventLifecycle ----------------------------
(***************************************************************************)
(* The organizer's calls on the event contract: creating an event, its     *)
(* terms and tiers, its status, and its rules for claims.  Every one of    *)
(* them is authorised by the organizer stored in the event (by the admin   *)
(* for the two links), so the caller is not a parameter.  The calls they   *)
(* make to the payments contract are joined to them in BoxOffice.          *)
(***************************************************************************)
EXTENDS EventStore, RevenueSplits

Supply(ts) == SumFunction([k \in DOMAIN ts |-> ts[k].capacity])

ValidTier(t) == t.capacity \in 1..MaxTierCapacity

\* A tier as it is put on sale.
NewTier(t) == [price |-> t.price, capacity |-> t.capacity, sold |-> 0, reserved |-> 0]

SetStatus(e, s) == event' = [event EXCEPT ![e].status = s]

SetSupply(e, supply) == event' = [event EXCEPT ![e].terms.max_supply = supply]

-----------------------------------------------------------------------------
(* The links to the other contracts.                                       *)

Initialize ==
  /\ linked' = TRUE
  /\ UNCHANGED <<now, verifierSet, termVars, tiers, soldCount, postponeVars,
                 listVars, reservation, ruleVars, freeClaimVars, proofVars>>

SetAnonymousClaimVerifier ==
  /\ linked
  /\ ~verifierSet
  /\ verifierSet' = TRUE
  /\ UNCHANGED <<now, linked, termVars, tiers, soldCount, postponeVars,
                 listVars, reservation, ruleVars, freeClaimVars, proofVars>>

-----------------------------------------------------------------------------
(* An event and its terms.                                                 *)

\* The terms an offer stands for.
TermsOf(offer) ==
  [organizer |-> offer.organizer,
   max_tickets_per_user |-> offer.details.max_tickets_per_user,
   max_supply |-> Supply(offer.initial_tiers),
   event_start_ledger |-> offer.event_start_ledger,
   event_end_ledger |-> offer.event_end_ledger,
   withdrawal_delay_ledgers |-> offer.withdrawal_delay_ledgers,
   resale_royalty_bps |-> offer.details.resale_royalty_bps,
   max_resale_price |-> offer.details.max_resale_price]

CreateEvent(e, offer) ==
  /\ event[e] = None
  /\ offer.event_start_ledger <= offer.event_end_ledger
  /\ offer.withdrawal_delay_ledgers >= MIN_WITHDRAWAL_DELAY_LEDGERS
  /\ offer.details.resale_royalty_bps <= 2000
  /\ offer.initial_tiers # <<>>
  /\ \A k \in DOMAIN offer.initial_tiers : ValidTier(offer.initial_tiers[k])
  /\ Supply(offer.initial_tiers) \in 0..U32_MAX
  /\ offer.revenue_splits # <<>> => ValidSplits(offer.revenue_splits, offer.organizer)
  /\ event' = [event EXCEPT ![e] =
       [terms |-> TermsOf(offer), status |-> "Upcoming",
        allow_anonymous |-> offer.details.allow_anonymous,
        requires_verification |-> offer.details.requires_verification,
        revenue_splits |-> offer.revenue_splits]]
  /\ tiers' = [tiers EXCEPT ![e] =
       [k \in 1..Len(offer.initial_tiers) |-> NewTier(offer.initial_tiers[k])]]
  /\ eventPrivacy' = [eventPrivacy EXCEPT ![e] = offer.privacy_level]
  /\ UNCHANGED <<now, linkVars, soldCount, postponeVars, listVars, reservation,
                 ruleVars, freeClaimVars, proofVars>>

Changed(terms, change) ==
  [terms EXCEPT !.max_tickets_per_user = change.max_tickets_per_user,
                !.resale_royalty_bps = change.resale_royalty_bps,
                !.max_resale_price = change.max_resale_price]

\* A field the organizer leaves out keeps its value.
UpdateEventDetails(e, change) ==
  /\ InStatus(e, "Upcoming")
  /\ LET terms == event[e].terms
         repriced == \/ change.resale_royalty_bps # terms.resale_royalty_bps
                     \/ change.max_resale_price # terms.max_resale_price
     IN  /\ repriced => soldCount[e] = 0 /\ change.resale_royalty_bps <= 2000
         /\ event' = [event EXCEPT ![e] =
              [@ EXCEPT
                 !.terms = Changed(terms, change),
                 !.allow_anonymous = change.allow_anonymous,
                 !.requires_verification = change.requires_verification]]
  /\ UNCHANGED <<now, linkVars, eventPrivacy, tiers, soldCount, postponeVars,
                 listVars, reservation, ruleVars, freeClaimVars, proofVars>>

\* The change of the supply is not passed on to the payments contract.
AddTicketTier(e, t) ==
  /\ InStatus(e, "Upcoming")
  /\ Len(tiers[e]) < MaxTiers
  /\ ValidTier(t)
  /\ LET supply == event[e].terms.max_supply + t.capacity
     IN  supply <= U32_MAX /\ SetSupply(e, supply)
  /\ tiers' = [tiers EXCEPT ![e] = Append(@, NewTier(t))]
  /\ UNCHANGED <<now, linkVars, eventPrivacy, soldCount, postponeVars, listVars,
                 reservation, ruleVars, freeClaimVars, proofVars>>

\* Mutant: the capacity the tier had stays in the supply.
UpdateTierAndGrow(e, k, t) ==
  /\ InStatus(e, "Upcoming")
  /\ k \in DOMAIN tiers[e]
  /\ ValidTier(t)
  /\ t.capacity >= tiers[e][k].sold
  /\ LET supply == event[e].terms.max_supply + t.capacity
     IN  supply <= U32_MAX /\ SetSupply(e, supply)
  /\ tiers' = [tiers EXCEPT ![e][k] =
       [@ EXCEPT !.price = t.price, !.capacity = t.capacity]]
  /\ UNCHANGED <<now, linkVars, eventPrivacy, soldCount, postponeVars, listVars,
                 reservation, ruleVars, freeClaimVars, proofVars>>

\* Neither is this one.
UpdateTier(e, k, t) ==
  /\ InStatus(e, "Upcoming")
  /\ k \in DOMAIN tiers[e]
  /\ ValidTier(t)
  /\ t.capacity >= tiers[e][k].sold
  /\ LET supply == event[e].terms.max_supply - tiers[e][k].capacity + t.capacity
     IN  supply \in soldCount[e]..U32_MAX /\ SetSupply(e, supply)
  /\ tiers' = [tiers EXCEPT ![e][k] =
       [@ EXCEPT !.price = t.price, !.capacity = t.capacity]]
  /\ UNCHANGED <<now, linkVars, eventPrivacy, soldCount, postponeVars, listVars,
                 reservation, ruleVars, freeClaimVars, proofVars>>

-----------------------------------------------------------------------------
(* The status of an event.                                                 *)

UpdateEventStatus(e) ==
  /\ \/ InStatus(e, "Upcoming") /\ SetStatus(e, "Active")
     \/ InStatus(e, "Active") /\ SetStatus(e, "Completed")
  /\ UNCHANGED <<now, linkVars, eventPrivacy, tiers, soldCount, postponeVars,
                 listVars, reservation, ruleVars, freeClaimVars, proofVars>>

\* A postponement under way stays in storage.
CancelEvent(e) ==
  /\ event[e] # None
  /\ event[e].status \notin {"Completed", "Cancelled"}
  /\ SetStatus(e, "Cancelled")
  /\ UNCHANGED <<now, linkVars, eventPrivacy, tiers, soldCount, postponeVars,
                 listVars, reservation, ruleVars, freeClaimVars, proofVars>>

\* Mutant: one postponement too many.
MayPostponeOnceMore(e) == postponeCount[e] <= MAX_POSTPONEMENTS

MayPostpone(e) == postponeCount[e] < MAX_POSTPONEMENTS

PostponeEvent(e, date, window) ==
  /\ InStatus(e, "Active")
  /\ MayPostpone(e)
  /\ window \in MIN_POSTPONEMENT_CHOICE_WINDOW_LEDGERS
                  ..MAX_POSTPONEMENT_CHOICE_WINDOW_LEDGERS
  /\ now + window < date
  /\ date <= U32_MAX
  /\ SetStatus(e, "Postponed")
  /\ postponeCount' = [postponeCount EXCEPT ![e] = @ + 1]
  /\ postponement' = [postponement EXCEPT ![e] =
       [new_date_ledger |-> date, choice_deadline_ledger |-> now + window]]
  /\ UNCHANGED <<now, linkVars, eventPrivacy, tiers, soldCount, listVars,
                 reservation, ruleVars, freeClaimVars, proofVars>>

\* Mutant: the end of the event stays where it was.
StartMoved(terms, start) == [terms EXCEPT !.event_start_ledger = start]

\* The event is as long at its new date as it was.
Moved(terms, start) ==
  [terms EXCEPT
     !.event_start_ledger = start,
     !.event_end_ledger = start + (terms.event_end_ledger - terms.event_start_ledger)]

\* An end that does not fit in a u32 fails every time.
FinalizePostponement(e) ==
  /\ InStatus(e, "Postponed")
  /\ postponement[e] # None
  /\ now > postponement[e].choice_deadline_ledger
  /\ LET terms == Moved(event[e].terms, postponement[e].new_date_ledger)
     IN  /\ terms.event_end_ledger <= U32_MAX
         /\ event' = [event EXCEPT ![e] =
              [@ EXCEPT !.status = "Active", !.terms = terms]]
  /\ postponement' = [postponement EXCEPT ![e] = None]
  /\ UNCHANGED <<now, linkVars, eventPrivacy, tiers, soldCount, postponeCount,
                 listVars, reservation, ruleVars, freeClaimVars, proofVars>>

-----------------------------------------------------------------------------
(* The rules of an event, which the organizer may change at any time.      *)

SetEventPrivacy(e, level) ==
  /\ event[e] # None
  /\ eventPrivacy' = [eventPrivacy EXCEPT ![e] = level]
  /\ UNCHANGED <<now, linkVars, event, tiers, soldCount, postponeVars, listVars,
                 reservation, ruleVars, freeClaimVars, proofVars>>

SetClaimSettings(e, settings) ==
  /\ event[e] # None
  /\ claimSettings' = [claimSettings EXCEPT ![e] = settings]
  /\ UNCHANGED <<now, linkVars, termVars, tiers, soldCount, postponeVars, listVars,
                 reservation, anonSettings, zkEnabled, freeClaimVars, proofVars>>

SetAnonClaimSettings(e, settings) ==
  /\ event[e] # None
  /\ anonSettings' = [anonSettings EXCEPT ![e] = settings]
  /\ UNCHANGED <<now, linkVars, termVars, tiers, soldCount, postponeVars, listVars,
                 reservation, claimSettings, zkEnabled, freeClaimVars, proofVars>>

SetZkConfig(e, enabled) ==
  /\ event[e] # None
  /\ zkEnabled' = [zkEnabled EXCEPT ![e] = enabled]
  /\ UNCHANGED <<now, linkVars, termVars, tiers, soldCount, postponeVars, listVars,
                 reservation, claimSettings, anonSettings, freeClaimVars, proofVars>>
=============================================================================
