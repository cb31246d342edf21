SPECIFICATION Spec
CONSTANTS
  org = org
  amy = amy
  bob = bob
  None = None
  Users = {org, amy}
  Events = {e1}
  Tokens = {usd, eur}
  AcceptedToken = usd
  Amounts = {10}
  RefundAmounts <- JustNone
  Nonces = {1}
  Nullifiers = {}
  EmailCommitments = {}
  Levels = {"Standard"}
  PrivacyConfigs = {}
  SyncedTerms <- TermsMoved
  SplitTables <- NoSplitTables
  AdminStatuses = {"Completed"}
  Deadlines = {2}
  EndTimes = {2}
  CancellableEvents = {}
  AdminPaidEvents = {e1}
  DelayExtensions = {}
  FeeRates = {}
  InitialFee = 1000
  PauseSwitch = {}
  ResalePrices = {}
  MIN_DISPUTE_WINDOW_LEDGERS = 1
  ATTENDEE_DISPUTE_WINDOW_LEDGERS = 2
  DISPUTE_TIMEOUT_LEDGERS = 2
  MaxPayments = 2
  MaxLedger = 4
  MaxDelay = 0
  MaxTurnover = 0
INVARIANTS RevenueMatchesBooks BalanceMatchesBooks
PROPERTIES SettledOnce EscrowFrozenWhilePostponed
