SPECIFICATION FairSpec
CONSTANTS
  org = org
  amy = amy
  bob = bob
  None = None
  Users = {org, amy}
  Events = {e1}
  Tokens = {usd}
  AcceptedToken = usd
  Amounts = {15}
  RefundAmounts <- AllOrFour
  Nonces = {1}
  Nullifiers = {}
  EmailCommitments = {}
  Levels = {"Standard"}
  PrivacyConfigs = {}
  SyncedTerms <- TermsShort
  SplitTables <- NoSplitTables
  AdminStatuses = {}
  Deadlines = {2}
  EndTimes = {}
  CancellableEvents = {e1}
  AdminPaidEvents = {}
  DelayExtensions = {}
  FeeRates = {0}
  InitialFee = 1000
  PauseSwitch = {TRUE, FALSE}
  ResalePrices = {}
  MIN_DISPUTE_WINDOW_LEDGERS = 1
  ATTENDEE_DISPUTE_WINDOW_LEDGERS = 2
  DISPUTE_TIMEOUT_LEDGERS = 2
  MaxPayments = 2
  MaxLedger = 6
  MaxDelay = 0
  MaxTurnover = 0
INVARIANTS TypeOK DisputesConsistent RefundsBounded TotalsMatchPayments AttendeeShareCovered
PROPERTIES RefundedIsFinal DisputesEnd
