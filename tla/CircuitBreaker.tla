--------------------------- MODULE CircuitBreaker ---------------------------
(***************************************************************************)
(* The circuit breaker in front of a dependency, with the callers it has:  *)
(* some hand their operation straight to execute, others go through        *)
(* retryDatabaseOperation, which looks at the state first and retries.     *)
(* Time is relative: the age of each recorded failure and the time left    *)
(* until the next probe.                                                   *)
(***************************************************************************)
EXTENDS Integers, FiniteSetsExt

CONSTANTS
  DirectCallers,     \* call breaker.execute
  RetryingCallers,   \* call retryDatabaseOperation
  failureThreshold, successThreshold,
  timeout,           \* time in OPEN before a probe
  windowSize,        \* age at which a failure no longer counts
  RETRY_ATTEMPTS

ASSUME BreakerAssumption ==
  /\ failureThreshold \in Nat \ {0} /\ successThreshold \in Nat \ {0}
  /\ timeout \in Nat \ {0} /\ windowSize \in Nat \ {0}
  /\ RETRY_ATTEMPTS \in Nat \ {0}
  /\ DirectCallers \cap RetryingCallers = {}

Callers == DirectCallers \cup RetryingCallers
Ages == 0..(windowSize - 1)

VARIABLES
  state,
  failures,      \* _failureTimestamps: number of failures of each age
  successCount,
  probeIn,       \* time until _nextAttemptAt
  call,          \* per caller: idle, running or sleeping before a retry
  attempt,
  healthy        \* the dependency answers

breakerVars == <<state, failures, successCount, probeIn, call, attempt, healthy>>

BreakerTypeOK ==
  /\ state \in {"CLOSED", "OPEN", "HALF_OPEN"}
  /\ \A a \in Ages : failures[a] \in Nat
  /\ successCount \in 0..successThreshold
  /\ probeIn \in 0..timeout
  /\ call \in [Callers -> {"idle", "running", "sleeping"}]
  /\ attempt \in [Callers -> 0..RETRY_ATTEMPTS]
  /\ healthy \in BOOLEAN

NoFailures == [a \in Ages |-> 0]

BreakerInit ==
  /\ state = "CLOSED"
  /\ failures = NoFailures
  /\ successCount = 0 /\ probeIn = 0
  /\ call = [c \in Callers |-> "idle"]
  /\ attempt = [c \in Callers |-> 0]
  /\ healthy = TRUE

RecentFailures(f) == SumFunctionOnSet(f, Ages)

-----------------------------------------------------------------------------
(* _transitionTo, with the failures the caller has recorded by then. *)

KeepState(f) == UNCHANGED <<state, successCount, probeIn>> /\ failures' = f
Open(f) ==
  IF state = "OPEN" THEN KeepState(f)
  ELSE state' = "OPEN" /\ successCount' = 0 /\ probeIn' = timeout /\ failures' = f
Close ==
  /\ state' = "CLOSED" /\ successCount' = 0 /\ probeIn' = 0
  /\ failures' = NoFailures

\* _maybeTransitionFromOpen, then the test of execute.
ProbeDue == state # "OPEN" \/ probeIn = 0
NotOpen == state # "OPEN"
Admitted == ProbeDue
Admit ==
  IF state = "OPEN"
  THEN state' = "HALF_OPEN" /\ successCount' = 0 /\ UNCHANGED <<failures, probeIn>>
  ELSE UNCHANGED <<state, failures, successCount, probeIn>>

OnSuccess ==
  IF state = "HALF_OPEN"
  THEN IF successCount + 1 >= successThreshold THEN Close
       ELSE /\ successCount' = successCount + 1
            /\ UNCHANGED <<state, failures, probeIn>>
  ELSE KeepState(failures)

ReachesThreshold(f) == RecentFailures(f) >= failureThreshold
PassesThreshold(f) == RecentFailures(f) > failureThreshold
TooManyFailures(f) == ReachesThreshold(f)

OnFailure ==
  LET recorded == [failures EXCEPT ![0] = @ + 1] IN
  IF state = "HALF_OPEN" \/ TooManyFailures(recorded)
  THEN Open(recorded) ELSE KeepState(recorded)

-----------------------------------------------------------------------------
(* Callers. *)

Run(c) == call' = [call EXCEPT ![c] = "running"] /\ attempt' = [attempt EXCEPT ![c] = @ + 1]
Finish(c) == call' = [call EXCEPT ![c] = "idle"] /\ attempt' = [attempt EXCEPT ![c] = 0]

Execute(c) ==
  /\ c \in DirectCallers /\ call[c] = "idle"
  /\ Admitted
  /\ Admit /\ Run(c)
  /\ UNCHANGED healthy

\* retryDatabaseOperation fails fast on the state alone: its probe time is not
\* looked at before execute is called.
StartOperation(c) ==
  /\ c \in RetryingCallers /\ call[c] = "idle"
  /\ NotOpen
  /\ Admit /\ Run(c)
  /\ UNCHANGED healthy

\* A retry calls execute again; rejected by the open circuit, it gives up.
Retry(c) ==
  /\ call[c] = "sleeping"
  /\ IF Admitted THEN Admit /\ Run(c)
     ELSE Finish(c) /\ UNCHANGED <<state, failures, successCount, probeIn>>
  /\ UNCHANGED healthy

OperationSucceeds(c) ==
  /\ call[c] = "running" /\ healthy
  /\ OnSuccess /\ Finish(c)
  /\ UNCHANGED healthy

\* The error is retried if it is transient and an attempt is left.
OperationFails(c) ==
  /\ call[c] = "running" /\ ~healthy
  /\ OnFailure
  /\ \/ Finish(c)
     \/ /\ c \in RetryingCallers /\ attempt[c] < RETRY_ATTEMPTS
        /\ call' = [call EXCEPT ![c] = "sleeping"] /\ UNCHANGED attempt
  /\ UNCHANGED healthy

\* Time passes: failures age and leave the window; the probe comes nearer.
TimePasses ==
  /\ failures' = [a \in Ages |-> IF a = 0 THEN 0 ELSE failures[a - 1]]
  /\ probeIn' = IF probeIn = 0 THEN 0 ELSE probeIn - 1
  /\ UNCHANGED <<state, successCount, call, attempt, healthy>>

HealthChanges ==
  /\ healthy' = ~healthy
  /\ UNCHANGED <<state, failures, successCount, probeIn, call, attempt>>

CallerStep(c) ==
  \/ Execute(c)
  \/ StartOperation(c)
  \/ Retry(c)
  \/ OperationSucceeds(c)
  \/ OperationFails(c)

BreakerNext ==
  \/ TimePasses
  \/ HealthChanges
  \/ \E c \in Callers : CallerStep(c)

\* Time passes, and callers keep coming and get their answers.
BreakerFairness ==
  /\ WF_breakerVars(TimePasses)
  /\ \A c \in Callers : SF_breakerVars(CallerStep(c))

BreakerSpec == BreakerInit /\ [][BreakerNext]_breakerVars /\ BreakerFairness

-----------------------------------------------------------------------------
(* Properties. *)

(* A closed circuit has seen fewer recent failures than its threshold, also   *)
(* when failures of calls from before an outage arrive after it has recovered.*)
ClosedBelowThreshold == state = "CLOSED" => RecentFailures(failures) < failureThreshold

(* "OPEN -> HALF_OPEN after timeout ms has elapsed": once the dependency is   *)
(* healthy for good, an open circuit does not stay open for ever.             *)
BreakerRecovers == <>[]healthy => []<>(state # "OPEN")
=============================================================================
