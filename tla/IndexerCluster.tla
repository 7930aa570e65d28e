--------------------------- MODULE IndexerCluster ---------------------------
(***************************************************************************)
(* The stand-alone indexer worker, run on several nodes: a tick takes the  *)
(* verifying lock, reads the latest ledger and works through batches of    *)
(* ledgers, each under a lock of its own, saving the cursor after every    *)
(* batch.  Each node keeps its cursor in memory and loads the saved one    *)
(* only when it starts.                                                    *)
(***************************************************************************)
EXTENDS LockManager, Integers, FiniteSetsExt

CONSTANTS
  Nodes,
  NodeOf,       \* the node each tick runs on
  MaxHeight,    \* bound: ledgers closed; each holds one event
  BATCH_SIZE,
  MaxMishaps    \* bound: errors of Redis, the RPC or the database, and crashes

ASSUME BatchAssumption == BATCH_SIZE \in Nat \ {0}
ASSUME MishapAssumption == MaxMishaps \in Nat /\ MaxHeight \in Nat

Main == <<0, 0>>                             \* 'escrow_verifying_lock'
Ranges == {r \in (1..MaxHeight) \X (1..MaxHeight) : r[1] <= r[2]}
RunningTicks == DOMAIN NodeOf

VARIABLES
  height,       \* latest closed ledger
  applied,      \* how often each ledger's event has changed the database
  saved,        \* IndexerState.lastProcessedLedger
  position,     \* cursor of each node
  run,          \* per tick: step, latest ledger, bounds of the batch, next ledger
  skipped,      \* ledgers of batches whose lock was refused
  mishaps

clusterVars == <<height, applied, saved, position, run, skipped, mishaps>>
allClusterVars == <<owner, clusterVars>>

Stopped == [at |-> "stopped", latest |-> 0, from |-> 0, end |-> 0, next |-> 0]
Here(t) == position[NodeOf[t]]
BatchOf(t) == <<Here(t) + 1, Min({Here(t) + BATCH_SIZE, run[t].latest})>>
Held(t) == <<run[t].from, run[t].end>>

ClusterTypeOK ==
  /\ LockTypeOK
  /\ height \in 0..MaxHeight
  /\ applied \in [1..MaxHeight -> 0..2]
  /\ saved \in 0..height /\ position \in [Nodes -> 0..height]
  /\ skipped \subseteq 1..height
  /\ mishaps \in 0..MaxMishaps
  /\ \A t \in RunningTicks :
       /\ run[t].at \in {"stopped", "locked", "looping", "batch", "indexing", "saving", "ending"}
       /\ run[t].latest \in 0..height

ClusterInit ==
  /\ LockInit
  /\ height = 0 /\ saved = 0
  /\ applied = [l \in 1..MaxHeight |-> 0]
  /\ position = [n \in Nodes |-> 0]
  /\ run = [t \in RunningTicks |-> Stopped]
  /\ skipped = {}
  /\ mishaps = 0

NextLedger ==
  /\ height < MaxHeight
  /\ height' = height + 1
  /\ UNCHANGED <<owner, applied, saved, position, run, skipped, mishaps>>

StartTick(t) ==
  /\ run[t].at = "stopped"
  /\ Acquire(Main, t)
  /\ run' = [run EXCEPT ![t].at = "locked"]
  /\ UNCHANGED <<height, applied, saved, position, skipped, mishaps>>

Caught(t) == Here(t) >= height
CaughtNearly(t) == Here(t) + 1 >= height
UpToDate(t) == Caught(t)

ReadLatest(t) ==
  /\ run[t].at = "locked"
  /\ run' = [run EXCEPT ![t].latest = height,
                        ![t].at = IF UpToDate(t) THEN "ending" ELSE "looping"]
  /\ UNCHANGED <<owner, height, applied, saved, position, skipped, mishaps>>

LockBatch(t) ==
  /\ run[t].at = "looping" /\ Here(t) < run[t].latest
  /\ Acquire(BatchOf(t), t)
  /\ run' = [run EXCEPT ![t].at = "batch", ![t].from = BatchOf(t)[1],
                        ![t].end = BatchOf(t)[2]]
  /\ UNCHANGED <<height, applied, saved, position, skipped, mishaps>>

\* processBatch returns 0 without the lock, held by another tick or lost to an
\* error of Redis, and the tick goes on as after a processed batch.
SkipBatch(t) ==
  /\ run[t].at = "looping" /\ Here(t) < run[t].latest
  /\ \/ ~Free(BatchOf(t)) /\ UNCHANGED mishaps
     \/ mishaps < MaxMishaps /\ mishaps' = mishaps + 1
  /\ skipped' = skipped \cup BatchOf(t)[1]..BatchOf(t)[2]
  /\ position' = [position EXCEPT ![NodeOf[t]] = BatchOf(t)[2]]
  /\ run' = [run EXCEPT ![t].at = "saving", ![t].end = BatchOf(t)[2]]
  /\ UNCHANGED <<owner, height, applied, saved>>

GetEvents(t) ==
  /\ run[t].at = "batch"
  /\ run' = [run EXCEPT ![t].at = "indexing", ![t].next = run[t].from]
  /\ UNCHANGED <<owner, height, applied, saved, position, skipped, mishaps>>

ApplyEvent(t) ==
  /\ run[t].at = "indexing" /\ run[t].next <= run[t].end
  /\ applied' = [applied EXCEPT ![run[t].next] = Min({2, @ + 1})]
  /\ run' = [run EXCEPT ![t].next = @ + 1]
  /\ UNCHANGED <<owner, height, saved, position, skipped, mishaps>>

FinishBatch(t) ==
  /\ run[t].at = "indexing" /\ run[t].next > run[t].end
  /\ Release(Held(t), t)
  /\ position' = [position EXCEPT ![NodeOf[t]] = run[t].end]
  /\ run' = [run EXCEPT ![t].at = "saving"]
  /\ UNCHANGED <<height, applied, saved, skipped, mishaps>>

SaveCursor(t) ==
  /\ run[t].at = "saving"
  /\ saved' = run[t].end
  /\ run' = [run EXCEPT ![t].at = IF Here(t) < run[t].latest THEN "looping" ELSE "ending"]
  /\ UNCHANGED <<owner, height, applied, position, skipped, mishaps>>

\* An error of the RPC or the database: the batch lock is released in the
\* finally block, the tick ends, the cursor stays where it was.
KeptPosition(t) == position
LostPosition(t) == [position EXCEPT ![NodeOf[t]] = run[t].end]
AfterError(t) == KeptPosition(t)

TickFails(t) ==
  /\ mishaps < MaxMishaps
  /\ \/ run[t].at \in {"locked", "saving"} /\ UNCHANGED <<owner, position>>
     \/ run[t].at \in {"batch", "indexing"} /\ Release(Held(t), t) /\ position' = AfterError(t)
  /\ run' = [run EXCEPT ![t].at = "ending"]
  /\ mishaps' = mishaps + 1
  /\ UNCHANGED <<height, applied, saved, skipped>>

EndTick(t) ==
  /\ run[t].at = "ending"
  /\ Release(Main, t)
  /\ run' = [run EXCEPT ![t] = Stopped]
  /\ UNCHANGED <<height, applied, saved, position, skipped, mishaps>>

\* The locks of a crashed node stay until they run out.
RestartNode(n) ==
  /\ mishaps < MaxMishaps
  /\ run' = [t \in RunningTicks |-> IF NodeOf[t] = n THEN Stopped ELSE run[t]]
  /\ position' = [position EXCEPT ![n] = saved]
  /\ mishaps' = mishaps + 1
  /\ UNCHANGED <<owner, height, applied, saved, skipped>>

LockRunsOut == \E k \in Keys : Expire(k) /\ UNCHANGED clusterVars

ClusterStep(t) ==
  \/ StartTick(t)
  \/ ReadLatest(t)
  \/ LockBatch(t)
  \/ SkipBatch(t)
  \/ GetEvents(t)
  \/ ApplyEvent(t)
  \/ FinishBatch(t)
  \/ SaveCursor(t)
  \/ EndTick(t)

ClusterNext ==
  \/ NextLedger
  \/ LockRunsOut
  \/ \E n \in Nodes : RestartNode(n)
  \/ \E t \in RunningTicks : ClusterStep(t) \/ TickFails(t)

\* setInterval starts a tick again and again; what it awaits answers or fails.
\* A lock whose owner died runs out.
ClusterFairness ==
  /\ \A t \in RunningTicks : SF_allClusterVars(ClusterStep(t))
  /\ WF_allClusterVars(Expire(Main) /\ UNCHANGED clusterVars)

ClusterSpec == ClusterInit /\ [][ClusterNext]_allClusterVars /\ ClusterFairness

-----------------------------------------------------------------------------
(* Properties. *)

(* Every ledger at or below the saved cursor has been applied, or belongs to *)
(* a batch that was skipped because its lock was refused: an error or crash  *)
(* in the middle of a batch loses nothing.                                   *)
SavedIsAppliedOrSkipped ==
  \A l \in 1..saved : applied[l] > 0 \/ l \in skipped

(* A lock leaves its owner only in a step of the owner or by running out: a  *)
(* tick whose lock ran out cannot release the lock of the next owner.        *)
OwnerReleases ==
  [][\A k \in Keys, t \in Tokens :
       owner[k] = t /\ owner'[k] # t => run'[t] # run[t] \/ UNCHANGED run
    ]_allClusterVars

(* The cluster catches up: every closed ledger is worked through by a node   *)
(* with the verifying lock, also when the node that held it has crashed.     *)
ClusterCatchesUp ==
  \A l \in 1..MaxHeight : height >= l ~> (applied[l] > 0 \/ l \in skipped)

(* "Zero data loss: ledger cursor only advances after successful DB write".  *)
ZeroDataLoss == \A l \in 1..saved : applied[l] > 0
=============================================================================
