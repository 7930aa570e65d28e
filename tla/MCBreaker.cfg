SPECIFICATION BreakerSpec
CONSTANTS
  DirectCallers = {}
  RetryingCallers = {a1, a2}
  failureThreshold = 2
  successThreshold = 2
  timeout = 2
  windowSize = 2
  RETRY_ATTEMPTS = 2
PROPERTY BreakerRecovers
CHECK_DEADLOCK FALSE
