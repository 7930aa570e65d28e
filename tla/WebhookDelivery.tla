-------------------------- MODULE WebhookDelivery --------------------------
(***************************************************************************)
(* Delivery of webhooks: the API process creates a WebhookDelivery row for *)
(* a contract event and enqueues a BullMQ job for it; a worker posts the   *)
(* payload and records the outcome on the row.  The processes may crash    *)
(* between any two of their database, queue and network calls.  The queue  *)
(* itself is external: it keeps its jobs across crashes, hands the job of  *)
(* a worker that died to another one, and retries a failed job until its   *)
(* attempts are used up.                                                   *)
(***************************************************************************)
EXTENDS Integers, FiniteSets

CONSTANTS
  Events,       \* contract events, named by the ledger that holds them
  Subscribed,   \* events of a type some active subscription lists
  MAX_RETRY_ATTEMPTS,
  MaxFaults     \* bound: database faults and crashes during deliveries

ASSUME SubscribedAssumption == Subscribed \subseteq Events
ASSUME AttemptsAssumption == MAX_RETRY_ATTEMPTS \in Nat \ {0}
ASSUME FaultsAssumption == MaxFaults \in Nat

VARIABLES
  dispatching,  \* queueEventWebhooks calls that have yet to create their row
  enqueuing,    \* ... that have created it and have yet to enqueue the job
  created,      \* WebhookDelivery rows of each event
  delivery,     \* status of the event's row
  job,          \* its BullMQ job and what the worker has done for it
  attemptsMade, \* job.attemptsMade
  accepted,     \* the subscriber has answered 2xx to this event
  dbErrors,     \* database errors met by the worker
  faults

webhookVars == <<dispatching, enqueuing, created, delivery, job, attemptsMade, accepted,
                 dbErrors, faults>>

DeliveryStatus == {"none", "pending", "success", "failed"}
JobState == {"none", "waiting", "active", "posted", "recorded", "done", "failed"}

WebhookTypeOK ==
  /\ dispatching \in [Events -> Nat]
  /\ enqueuing \in [Events -> Nat]
  /\ created \in [Events -> Nat]
  /\ delivery \in [Events -> DeliveryStatus]
  /\ job \in [Events -> JobState]
  /\ attemptsMade \in [Events -> 0..MAX_RETRY_ATTEMPTS]
  /\ accepted \subseteq Events
  /\ dbErrors \in 0..MaxFaults
  /\ faults \in 0..MaxFaults

WebhookInit ==
  /\ dispatching = [e \in Events |-> 0]
  /\ enqueuing = [e \in Events |-> 0]
  /\ created = [e \in Events |-> 0]
  /\ delivery = [e \in Events |-> "none"]
  /\ job = [e \in Events |-> "none"]
  /\ attemptsMade = [e \in Events |-> 0]
  /\ accepted = {}
  /\ dbErrors = 0
  /\ faults = 0

-----------------------------------------------------------------------------
(* The API process. *)

\* Called without await: what follows interleaves with the indexer.
QueueEventWebhooks(e) ==
  /\ dispatching' = IF e \in Subscribed THEN [dispatching EXCEPT ![e] = @ + 1]
                                        ELSE dispatching
  /\ UNCHANGED <<enqueuing, created, delivery, job, attemptsMade, accepted, dbErrors, faults>>

CreateDelivery(e) ==
  /\ dispatching[e] > 0
  /\ dispatching' = [dispatching EXCEPT ![e] = @ - 1]
  /\ enqueuing' = [enqueuing EXCEPT ![e] = @ + 1]
  /\ created' = [created EXCEPT ![e] = @ + 1]
  /\ delivery' = [delivery EXCEPT ![e] = "pending"]
  /\ UNCHANGED <<job, attemptsMade, accepted, dbErrors, faults>>

\* The job id is the delivery's id: BullMQ ignores a job it already has.
EnqueueWebhookDelivery(e) ==
  /\ enqueuing[e] > 0
  /\ enqueuing' = [enqueuing EXCEPT ![e] = @ - 1]
  /\ job' = [job EXCEPT ![e] = IF @ = "none" THEN "waiting" ELSE @]
  /\ UNCHANGED <<dispatching, created, delivery, attemptsMade, accepted, dbErrors, faults>>

\* The calls in progress die with the API process; rows and jobs stay.
LoseDispatches ==
  /\ dispatching' = [e \in Events |-> 0]
  /\ enqueuing' = [e \in Events |-> 0]
  /\ UNCHANGED <<created, delivery, job, attemptsMade, accepted, dbErrors, faults>>

-----------------------------------------------------------------------------
(* The worker. *)

Terminal(e) == attemptsMade[e] + 1 >= MAX_RETRY_ATTEMPTS
TerminalLate(e) == attemptsMade[e] >= MAX_RETRY_ATTEMPTS
IsTerminal(e) == Terminal(e)

TakeJob(e) ==
  /\ job[e] = "waiting"
  /\ job' = [job EXCEPT ![e] = "active"]
  /\ UNCHANGED <<dispatching, enqueuing, created, delivery, attemptsMade, accepted, dbErrors, faults>>

PostAccepted(e) ==
  /\ job[e] = "active"
  /\ job' = [job EXCEPT ![e] = "posted"]
  /\ accepted' = accepted \cup {e}
  /\ UNCHANGED <<dispatching, enqueuing, created, delivery, attemptsMade, dbErrors, faults>>

RecordSuccess(e) ==
  /\ job[e] = "posted"
  /\ job' = [job EXCEPT ![e] = "recorded"]
  /\ delivery' = [delivery EXCEPT ![e] = "success"]
  /\ UNCHANGED <<dispatching, enqueuing, created, attemptsMade, accepted, dbErrors, faults>>

\* removeOnComplete
CompleteJob(e) ==
  /\ job[e] = "recorded"
  /\ job' = [job EXCEPT ![e] = "done"]
  /\ UNCHANGED <<dispatching, enqueuing, created, delivery, attemptsMade, accepted, dbErrors, faults>>

\* BullMQ counts the attempt of a failed job and retries it or gives up.
CountAttempt(e) ==
  /\ attemptsMade' = [attemptsMade EXCEPT ![e] = @ + 1]
  /\ job' = [job EXCEPT ![e] = IF Terminal(e) THEN "failed" ELSE "waiting"]
MoveToWait(e) ==
  /\ attemptsMade' = attemptsMade
  /\ job' = [job EXCEPT ![e] = "waiting"]
\* The catch block rethrows, which fails the job; moving it back to the queue
\* itself would count no attempt.
FailJob(e) == CountAttempt(e)

RecordFailure(e) ==
  delivery' = [delivery EXCEPT ![e] = IF IsTerminal(e) THEN "failed" ELSE "pending"]

PostRejected(e) ==
  /\ job[e] = "active"
  /\ RecordFailure(e) /\ FailJob(e)
  /\ UNCHANGED <<dispatching, enqueuing, created, accepted, dbErrors, faults>>

\* The catch block also handles an error of the update that records success,
\* and its own update may fail too.
DatabaseError(e) ==
  /\ job[e] \in {"active", "posted"} /\ faults < MaxFaults
  /\ \/ job[e] = "posted" /\ RecordFailure(e)
     \/ UNCHANGED delivery
  /\ FailJob(e)
  /\ faults' = faults + 1 /\ dbErrors' = dbErrors + 1
  /\ UNCHANGED <<dispatching, enqueuing, created, accepted>>

\* A stalled job goes back to the queue with the attempts it had.
WorkerCrash(e) ==
  /\ job[e] \in {"active", "posted", "recorded"} /\ faults < MaxFaults
  /\ job' = [job EXCEPT ![e] = "waiting"]
  /\ faults' = faults + 1
  /\ UNCHANGED <<dispatching, enqueuing, created, delivery, attemptsMade, accepted, dbErrors>>

ApiWebhookStep(e) == CreateDelivery(e) \/ EnqueueWebhookDelivery(e)
WorkerStep(e) ==
  \/ TakeJob(e)
  \/ PostAccepted(e)
  \/ PostRejected(e)
  \/ RecordSuccess(e)
  \/ CompleteJob(e)

WebhookStep(e) ==
  \/ ApiWebhookStep(e)
  \/ WorkerStep(e)
  \/ DatabaseError(e)
  \/ WorkerCrash(e)

\* On its own: the indexer announces each event once; the API process may die.
WebhookNext ==
  \/ \E e \in Events : \/ dispatching[e] + created[e] = 0 /\ QueueEventWebhooks(e)
                       \/ WebhookStep(e)
  \/ LoseDispatches

\* Rows and jobs are written in the end, and BullMQ keeps handing out jobs.
WebhookFairness ==
  \A e \in Events : WF_webhookVars(ApiWebhookStep(e)) /\ WF_webhookVars(WorkerStep(e))

WebhookSpec == WebhookInit /\ [][WebhookNext]_webhookVars /\ WebhookFairness

-----------------------------------------------------------------------------
(* A job that BullMQ no longer retries left its row in a final status, and  *)
(* the right one: the row says "success" after a completed job and "failed" *)
(* after one that used up its attempts, unless the database itself failed.  *)
(* The worker decides the row's status before BullMQ counts the attempt.    *)
RowSettledWithJob ==
  \A e \in Events :
    /\ job[e] = "done" => delivery[e] = "success" /\ e \in accepted
    /\ job[e] = "failed" /\ dbErrors = 0 => delivery[e] = "failed"

(* A job that reached the queue is eventually completed or given up, through *)
(* rejections, database errors and crashes of the worker.                    *)
JobSettles ==
  \A e \in Events : job[e] = "waiting" ~> job[e] \in {"done", "failed"}
=============================================================================
