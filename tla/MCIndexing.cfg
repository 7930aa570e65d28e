SPECIFICATION MCSpec
CONSTANTS
  Events = {1, 2, 3}
  Subscribed = {2}
  MAX_RETRY_ATTEMPTS = 2
  MaxFaults = 1
  Ticks = {i1, i2}
  Histories <- MCHistories
  ESCROW_AMOUNT = 10
  MaxCrashes = 1
  MaxDbFaults = 1
  MaxSlip = 1
  PageSize = 3
  t1 = t1
  t2 = t2
  n1 = n1
  n2 = n2
  Nodes = {n1, n2}
  Tokens = {t1, t2}
  None = None
  NodeOf <- MCNodeOf
  Keys <- MCKeys
  MaxHeight = 2
  BATCH_SIZE = 2
  MaxMishaps = 1
INVARIANTS BelowCursorIndexed OneDeliveryPerEvent 
PROPERTIES FollowsTheLedger OwnerReleases 
CHECK_DEADLOCK FALSE
