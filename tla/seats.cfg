SPECIFICATION FairSpec
CONSTANTS
  alice = alice
  bob = bob
  e1 = e1
  n1 = n1
  c1 = c1
  Users <- MCUsers
  Events = {e1}
  None = None
  Offers <- MCOffers
  DetailChanges <- MCChanges
  TierOffers <- MCTiers
  NewDates = {4}
  ChoiceWindows = {1}
  ClaimRules <- MCClaimRules
  AnonRules <- MCAnonRules
  PrivacyLevels = {"Private"}
  ZkSwitch = {TRUE}
  AnonymousClaims <- MCClaims
  Nullifiers = {n1}
  Commitments = {c1}
  Passports = {n1}
  RESERVATION_SECS = 1
  MIN_WITHDRAWAL_DELAY_LEDGERS = 1
  MIN_POSTPONEMENT_CHOICE_WINDOW_LEDGERS = 1
  MAX_POSTPONEMENT_CHOICE_WINDOW_LEDGERS = 1
  MAX_POSTPONEMENTS = 1
  MAX_ANONYMOUS_PROOF_TTL_LEDGERS = 2
  MaxTierCapacity = 3
  U32_MAX = 6
  MaxBatch = 2
  MaxTiers = 2
  MaxLedger = 2
CHECK_DEADLOCK FALSE
INVARIANTS TypeOK ReservedCountsHolders CapacityRespected SupplyMatchesTiers AttendeesListed PostponementTracked
PROPERTIES KeepsSeats ExpiredSeatsFreed
