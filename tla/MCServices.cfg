SPECIFICATION MCSpec
CONSTANTS
  DirectCallers = {d1}
  RetryingCallers = {a1}
  failureThreshold = 2
  successThreshold = 2
  timeout = 2
  windowSize = 2
  RETRY_ATTEMPTS = 2
  Readers = {r1, r2}
  Writers = {w1}
  MaxVersion = 2
  MaxOutages = 1
  Refunders = {q1, q2}
  MaxRepeats = 2
  MaxPayCrashes = 1
  Events = {1, 2}
  Subscribed = {1, 2}
  MAX_RETRY_ATTEMPTS = 2
  MaxFaults = 1
INVARIANTS ClosedBelowThreshold RefundedAtStripe RowSettledWithJob
PROPERTIES  EventuallyFresh  JobSettles
CHECK_DEADLOCK FALSE
