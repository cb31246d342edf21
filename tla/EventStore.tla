------------------------------ MODULE EventStore ------------------------------
(***************************************************************************)
(* The storage of the event contract (contracts/event) and its state       *)
(* before `initialize`.  As in PaymentsState, an action is a call that     *)
(* returned Ok, a failing call leaves no trace, and `now` is the ledger    *)
(* sequence and the ledger timestamp.                                      *)
(*                                                                         *)
(* The stored Event is kept in three variables that are always written     *)
(* together: `event`, `tiers` (tier_id k being position k + 1) and         *)
(* `soldCount`.  Its `terms` are what sync_event_config passes on to the   *)
(* payments contract.  The EventAttendeeIndex entries of an event and      *)
(* EventAttendeesCount are one sequence.  Names, dates and venue, the      *)
(* payout token and allow_free_ticket_transfer decide nothing here.        *)
(***************************************************************************)
EXTENDS Integers, Sequences, FiniteSets

CONSTANTS
  Users,           \* addresses that organise or attend events
  Events,          \* event ids
  None,            \* an absent Option
  Offers,          \* what create_event is called with
  DetailChanges,   \* what update_event_details is called with
  TierOffers,      \* prices and capacities of tiers added or updated
  NewDates,        \* first ledgers a postponed event may move to
  ChoiceWindows,   \* lengths of a refund-choice window organizers ask for
  ClaimRules,      \* settings of set_claim_settings
  AnonRules,       \* settings of set_anon_claim_settings
  PrivacyLevels,   \* levels of set_event_privacy
  ZkSwitch,        \* values set_zk_config gives `enabled`
  AnonymousClaims, \* claims claim_anonymous_ticket is called with
  Nullifiers,      \* nullifiers of those claims
  Commitments,     \* ticket commitments of those claims
  Passports,       \* nullifiers of passport proofs
  RESERVATION_SECS,
  MIN_WITHDRAWAL_DELAY_LEDGERS,
  MIN_POSTPONEMENT_CHOICE_WINDOW_LEDGERS,
  MAX_POSTPONEMENT_CHOICE_WINDOW_LEDGERS,
  MAX_POSTPONEMENTS,
  MAX_ANONYMOUS_PROOF_TTL_LEDGERS,
  MaxTierCapacity, \* 99,999 in the code
  U32_MAX,         \* the last ledger a u32 can name
  MaxBatch,        \* bound: tickets of one batch registration, 100 in the code
  MaxTiers,        \* bound: tiers of an event
  MaxLedger        \* bound: last ledger, and end of the last reservation

Privacy == {"Standard", "Private", "Anonymous"}
EventStatus == {"Upcoming", "Active", "Completed", "Cancelled", "Postponed"}

TierParams == [price: Nat, capacity: Nat]
SplitParams == [recipient: Users, basis_points: Nat]

\* What an organizer may go on changing while the event is Upcoming.
Details ==
  [max_tickets_per_user: Nat, resale_royalty_bps: Nat,
   max_resale_price: Nat \cup {None},
   allow_anonymous: BOOLEAN, requires_verification: BOOLEAN]

\* CreateEventParams.
CreateEventParams ==
  [organizer: Users, details: Details, initial_tiers: Seq(TierParams),
   privacy_level: Privacy, event_start_ledger: Nat, event_end_ledger: Nat,
   withdrawal_delay_ledgers: Nat, revenue_splits: Seq(SplitParams)]

\* A claim without its proof; the verifier's answer is not modelled.
AnonymousTicketClaim ==
  [nullifier: Nullifiers, ticket_commitment: Commitments, expiry_ledger: Nat]

ClaimSettings == [max_free_claims: Nat, cooldown_secs: Nat]
AnonClaimSettings == [max_anon_claims_per_window: Nat, anon_window_size: Nat]

ASSUME EventConstants ==
  /\ IsFiniteSet(Users)
  /\ None \notin Nat \cup Commitments
  /\ Offers \subseteq CreateEventParams
  /\ DetailChanges \subseteq Details
  /\ TierOffers \subseteq TierParams
  /\ NewDates \subseteq Nat
  /\ ChoiceWindows \subseteq Nat
  /\ ClaimRules \subseteq ClaimSettings
  /\ AnonRules \subseteq AnonClaimSettings
  /\ PrivacyLevels \subseteq Privacy
  /\ ZkSwitch \subseteq BOOLEAN
  /\ AnonymousClaims \subseteq AnonymousTicketClaim
  /\ RESERVATION_SECS \in Nat
  /\ MIN_WITHDRAWAL_DELAY_LEDGERS \in Nat
  /\ MIN_POSTPONEMENT_CHOICE_WINDOW_LEDGERS \in Nat
  /\ MAX_POSTPONEMENT_CHOICE_WINDOW_LEDGERS \in Nat
  /\ MAX_POSTPONEMENTS \in Nat
  /\ MAX_ANONYMOUS_PROOF_TTL_LEDGERS \in Nat
  /\ MaxTierCapacity \in Nat
  /\ U32_MAX \in Nat
  /\ MaxBatch \in Nat
  /\ MaxTiers \in Nat
  /\ MaxLedger \in Nat

-----------------------------------------------------------------------------
VARIABLES
  now,              \* ledger sequence and timestamp
  linked,           \* Admin, TicketContract and PaymentsContract are set
  verifierSet,      \* AnonymousClaimVerifier is set
  event,            \* Event of each id, or None
  tiers,            \* its tiers
  soldCount,        \* its sold_count
  eventPrivacy,     \* EventPrivacy, Standard when absent
  postponement,     \* Postponement of each event, or None
  postponeCount,    \* PostponeCount
  registered,       \* Registration: the attendees of each event
  attendees,        \* EventAttendeeIndex and EventAttendeesCount
  reservation,      \* Reservation of each event and user, or None
  claimSettings,    \* EventClaimSettings, zeros when absent
  freeClaims,       \* FreeClaimCount
  lastFreeClaim,    \* LastFreeClaim, 0 when absent
  anonSettings,     \* EventAnonSettings, zeros when absent
  anonWindow,       \* EventAnonWindow, zeros when absent
  claimed,          \* AnonymousNullifier: the commitment of each, or None
  zkEnabled,        \* ZkVerificationConfig.enabled
  zkNullifiers      \* ZkNullifier: the passports that attend each event

linkVars == <<linked, verifierSet>>
termVars == <<event, eventPrivacy>>
postponeVars == <<postponement, postponeCount>>
listVars == <<registered, attendees>>
freeClaimVars == <<freeClaims, lastFreeClaim>>
ruleVars == <<claimSettings, anonSettings, zkEnabled>>
proofVars == <<anonWindow, claimed, zkNullifiers>>

vars == <<now, linkVars, termVars, tiers, soldCount, postponeVars, listVars,
          reservation, ruleVars, freeClaimVars, proofVars>>

-----------------------------------------------------------------------------
Tier == [price: Nat, capacity: Nat, sold: Nat, reserved: Nat]

EventTerms ==
  [organizer: Users, max_tickets_per_user: Nat, max_supply: Nat,
   event_start_ledger: Nat, event_end_ledger: Nat,
   withdrawal_delay_ledgers: Nat, resale_royalty_bps: Nat,
   max_resale_price: Nat \cup {None}]

EventRecord ==
  [terms: EventTerms, status: EventStatus, allow_anonymous: BOOLEAN,
   requires_verification: BOOLEAN, revenue_splits: Seq(SplitParams)]

PostponementInfo == [new_date_ledger: Nat, choice_deadline_ledger: Nat]
Reservation == [tier: Nat, expires_at: Nat]

\* An absent Option is none of the records it may hold.
ASSUME EventNone == None \notin EventRecord \cup PostponementInfo \cup Reservation

Init ==
  /\ now = 0
  /\ linked = FALSE
  /\ verifierSet = FALSE
  /\ event = [e \in Events |-> None]
  /\ tiers = [e \in Events |-> <<>>]
  /\ soldCount = [e \in Events |-> 0]
  /\ eventPrivacy = [e \in Events |-> "Standard"]
  /\ postponement = [e \in Events |-> None]
  /\ postponeCount = [e \in Events |-> 0]
  /\ registered = [e \in Events |-> {}]
  /\ attendees = [e \in Events |-> <<>>]
  /\ reservation = [e \in Events |-> [u \in Users |-> None]]
  /\ claimSettings = [e \in Events |-> [max_free_claims |-> 0, cooldown_secs |-> 0]]
  /\ freeClaims = [e \in Events |-> [u \in Users |-> 0]]
  /\ lastFreeClaim = [e \in Events |-> [u \in Users |-> 0]]
  /\ anonSettings = [e \in Events |->
       [max_anon_claims_per_window |-> 0, anon_window_size |-> 0]]
  /\ anonWindow = [e \in Events |-> [window_index |-> 0, count |-> 0]]
  /\ claimed = [e \in Events |-> [n \in Nullifiers |-> None]]
  /\ zkEnabled = [e \in Events |-> FALSE]
  /\ zkNullifiers = [e \in Events |-> {}]

-----------------------------------------------------------------------------
\* The event exists and has the given status.
InStatus(e, s) == event[e] # None /\ event[e].status = s

\* Time passes between calls.
Tick ==
  /\ now < MaxLedger
  /\ now' = now + 1
  /\ UNCHANGED <<linkVars, termVars, tiers, soldCount, postponeVars, listVars,
                 reservation, ruleVars, freeClaimVars, proofVars>>
=============================================================================
