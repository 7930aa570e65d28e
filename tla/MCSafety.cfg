SPECIFICATION MCSpec
CONSTANTS
  Requests = {r1, r2}
  MAX_ACTIVE_TOKENS_PER_USER = 1
  MaxTokens = 3
  MaxErrors = 1
  Clients = {c1, c2, c3}
  Payloads = {p1, p2}
  MaxExecutions = 7
  Transactions = {t1, t2}
  TOTAL_AMOUNT = 3
  Amounts = {1, 2, 3}
  MAX_RETRIES = 1
  MaxVersions = 4
  Members = {m1, m2, m3}
  Balances = {0, 2}
  MIN_STAKE = 2
  SLASH_PERCENT = 50
  StakeAmounts = {2}
  MaxTime = 3
  Proposals = {p}
  Voters = {m1, m2}
  ADMIN = m2
  Configs <- GovConfigs
  Allocations = {0, 2}
  Supplies = {3}
  PROPOSER_FEE = 1
  FEE_DEPOSIT_QUORUM_BPS = 5000
  MIN_LOCK_DURATION = 1
  MAX_LOCK_DURATION = 2
  LockAmounts = {1}
  Disputes = {d1, d2}
  PANEL_SIZE = 2
  ACCEPT_WINDOW_SECS = 0
  MaxLoad = 2
  Stakers = {k1, k2}
  Governors = {g1, g2}
  Claims = {c}
  Slashes = {s}
  Contributions = {2}
  ClaimAmounts = {2}
  StakeArgs = {2}
  Fees = {3}
  SlashShares = {4000}
  Quorums = {1, 2}
  YIELD_PRECISION = 10
  MaxFund = 4
  MaxFees = 3
INVARIANTS  ActiveTokensBounded TakesEffectOnce ExpiredNeverDisputed DepositWhileActive  PanelComplete LoadCoversPanels PoolWithinStakes YieldWithinFees
PROPERTIES SettlesExactly
CHECK_DEADLOCK FALSE
