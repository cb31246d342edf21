SPECIFICATION BoxSpec
CONSTANTS
  org = org
  amy = amy
  e1 = e1
  n1 = n1
  c1 = c1
  None = None
  Users = {org, amy}
  Events = {e1}
  Tokens = {usd}
  AcceptedToken = usd
  Amounts = {10}
  RefundAmounts = {}
  Nonces = {1}
  Nullifiers = {n1}
  EmailCommitments = {}
  Levels = {"Standard"}
  PrivacyConfigs = {}
  SyncedTerms = {}
  SplitTables = {}
  AdminStatuses = {"Active"}
  Deadlines = {}
  EndTimes = {}
  CancellableEvents = {}
  AdminPaidEvents = {}
  DelayExtensions = {}
  FeeRates = {}
  InitialFee = 0
  PauseSwitch = {TRUE}
  ResalePrices = {}
  MIN_DISPUTE_WINDOW_LEDGERS = 0
  ATTENDEE_DISPUTE_WINDOW_LEDGERS = 0
  DISPUTE_TIMEOUT_LEDGERS = 0
  MaxPayments = 2
  MaxLedger = 1
  MaxDelay = 0
  MaxTurnover = 0
  Offers <- MCOffers
  DetailChanges <- MCChanges
  TierOffers <- MCTiers
  NewDates = {1}
  ChoiceWindows = {0}
  ClaimRules = {}
  AnonRules = {}
  PrivacyLevels = {"Standard"}
  ZkSwitch = {TRUE}
  AnonymousClaims <- MCClaims
  Commitments = {c1}
  Passports = {n1}
  RESERVATION_SECS = 1
  MIN_WITHDRAWAL_DELAY_LEDGERS = 0
  MIN_POSTPONEMENT_CHOICE_WINDOW_LEDGERS = 0
  MAX_POSTPONEMENT_CHOICE_WINDOW_LEDGERS = 1
  MAX_POSTPONEMENTS = 1
  MAX_ANONYMOUS_PROOF_TTL_LEDGERS = 1
  MaxTierCapacity = 2
  U32_MAX = 2
  MaxBatch = 2
  MaxTiers = 2
  MaxTickets = 2
  EventContractAddress = eventContract
  DirectMints <- MCMints
CHECK_DEADLOCK FALSE
CONSTRAINT OneDetour
INVARIANTS ContractsAgree
PROPERTIES StatusesAgree SeatsHaveTickets SeatsPaidFor
