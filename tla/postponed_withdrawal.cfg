SPECIFICATION Spec
CONSTANTS
  org = org
  amy = amy
  bob = bob
  None = None
  Users = {org, amy, bob}
  Events = {e1}
  Tokens = {usd}
  AcceptedToken = usd
  Amounts = {10}
  RefundAmounts = {}
  Nonces = {1}
  Nullifiers = {}
  EmailCommitments = {}
  Levels = {"Standard"}
  PrivacyConfigs = {}
  SyncedTerms <- TermsShort
  SplitTables <- Thirds
  AdminStatuses = {"Completed"}
  Deadlines = {5}
  EndTimes = {}
  CancellableEvents = {}
  AdminPaidEvents = {}
  DelayExtensions = {}
  FeeRates = {}
  InitialFee = 1000
  PauseSwitch = {}
  ResalePrices = {}
  MIN_DISPUTE_WINDOW_LEDGERS = 1
  ATTENDEE_DISPUTE_WINDOW_LEDGERS = 2
  DISPUTE_TIMEOUT_LEDGERS = 2
  MaxPayments = 2
  MaxLedger = 5
  MaxDelay = 0
  MaxTurnover = 0
PROPERTIES NoWithdrawalWhilePostponed
