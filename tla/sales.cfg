SPECIFICATION Spec
CONSTANTS
  org = org
  amy = amy
  bob = bob
  None = None
  Users = {org, amy}
  Events = {e1}
  Tokens = {usd}
  AcceptedToken = usd
  Amounts = {10}
  RefundAmounts = {}
  Nonces = {1, 2}
  Nullifiers = {n1}
  EmailCommitments = {c1, c2}
  Levels = {"Standard", "Private", "Anonymous"}
  PrivacyConfigs <- StrictPrivacy
  SyncedTerms <- TermsCapped
  SplitTables <- NoSplitTables
  AdminStatuses = {}
  Deadlines = {}
  EndTimes = {}
  CancellableEvents = {}
  AdminPaidEvents = {e1}
  DelayExtensions = {}
  FeeRates = {}
  InitialFee = 500
  PauseSwitch = {}
  ResalePrices = {20, 30}
  MIN_DISPUTE_WINDOW_LEDGERS = 1
  ATTENDEE_DISPUTE_WINDOW_LEDGERS = 2
  DISPUTE_TIMEOUT_LEDGERS = 2
  MaxPayments = 2
  MaxLedger = 0
  MaxDelay = 0
  MaxTurnover = 27
INVARIANTS RequestsUsedOnce  OwnerIndexMatchesTickets ListingsByOwner PromisesCovered
PROPERTIES PaymentIdentityFixed
