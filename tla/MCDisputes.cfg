SPECIFICATION FairSpec
CONSTANTS
  Escrows = {e1}
  alice = alice
  bob = bob
  arb = arb
  admin = admin
  keeper = keeper
  Accounts <- MCAccounts
  ADMIN = admin
  None = None
  MIN_ESCROW_AMOUNT = 1
  MAX_ESCROW_AMOUNT = 1000
  MAX_I128 = 100000000
  MAX_MILESTONES = 1
  RENT_PERIOD_SECONDS = 10
  RENT_RESERVE_PERIODS = 1
  AUTO_DEADLINE_EXTENSION_SECONDS = 1
  MAX_TIMELOCK_DURATION_SECONDS = 3
  DISPUTE_COOLDOWN_LEDGERS = 1
  CANCELLATION_DISPUTE_PERIOD = 8
  SLASH_DISPUTE_PERIOD = 8
  SLASH_PERCENTAGE = 10
  FEE_TIERS <- MCFeeTiers
  GENESIS_TIME = 0
  GENESIS_LEDGER = 0
  MaxLedger = 3
  CloseTimes = {5}
  OtherFunds = 200
  Terms <- DisputeTerms
  NewClients <- OneNewClient
  AmountLists <- OneHalf
  BatchLists = {}
  TimeArguments = {}
  ClientShares <- Shares
  OraclePayloads <- Signed
  ArbiterFees = {500}
  RentPeriods = {}
  MaxRentBalance = 3
  AdminActions = TRUE
INVARIANTS IInv DisputeOrigin SlashFollowsCancellation OpenIsListed
PROPERTIES DisputedRequestBlocks 
CHECK_DEADLOCK FALSE
