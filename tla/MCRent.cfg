SPECIFICATION Spec
CONSTANTS
  Escrows = {e1}
  alice = alice
  bob = bob
  arb = arb
  admin = admin
  keeper = keeper
  Accounts <- MCAccounts
  ADMIN = admin
  None = None
  MIN_ESCROW_AMOUNT = 1
  MAX_ESCROW_AMOUNT = 1000
  MAX_I128 = 100000000
  MAX_MILESTONES = 2
  RENT_PERIOD_SECONDS = 1
  RENT_RESERVE_PERIODS = 1
  AUTO_DEADLINE_EXTENSION_SECONDS = 1
  MAX_TIMELOCK_DURATION_SECONDS = 3
  DISPUTE_COOLDOWN_LEDGERS = 1
  CANCELLATION_DISPUTE_PERIOD = 1
  SLASH_DISPUTE_PERIOD = 1
  SLASH_PERCENTAGE = 10
  FEE_TIERS <- MCFeeTiers
  GENESIS_TIME = 0
  GENESIS_LEDGER = 0
  MaxLedger = 3
  CloseTimes = {1}
  OtherFunds = 200
  Terms <- PlainTerms
  NewClients = {}
  AmountLists <- OneHalf
  BatchLists = {}
  TimeArguments = {}
  ClientShares = {}
  OraclePayloads = {}
  ArbiterFees = {}
  RentPeriods = {1}
  MaxRentBalance = 3
  AdminActions = TRUE
INVARIANTS RentClockBehind
PROPERTIES CallsKeepAccess PausedMovesNothing
CHECK_DEADLOCK FALSE
