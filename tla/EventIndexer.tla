---------------------------- MODULE EventIndexer ----------------------------
(***************************************************************************)
(* The event indexer of the API server: every POLL_INTERVAL_MS a tick      *)
(* fetches the contract's events from its cursor on, writes each of them   *)
(* to the database in one transaction with a ContractEvent row, and moves  *)
(* the cursor.  setInterval does not wait for a tick to end, so two ticks  *)
(* of one process interleave at every await; a process may crash and       *)
(* restart from the persisted cursor.  Each event it writes starts the     *)
(* webhook deliveries of WebhookDelivery.                                  *)
(***************************************************************************)
EXTENDS WebhookDelivery, Sequences

CONSTANTS
  Ticks,      \* calls of tick that may be in progress at once
  Histories,  \* event sequences of the chain: one event per ledger
  ESCROW_AMOUNT,
  MaxCrashes, \* bound: crashes of the API process
  MaxDbFaults, \* bound: database errors that end a tick
  MaxSlip,    \* ledgers that may close between the two RPC calls of a tick
  PageSize    \* events in one answer of getEvents; no further page is asked for

ASSUME RpcAssumption == MaxSlip \in Nat /\ PageSize \in Nat \ {0}
ASSUME CrashAssumption == MaxCrashes \in Nat /\ MaxDbFaults \in Nat

VARIABLES
  history,    \* the events the chain will emit
  closed,     \* ledgers closed so far
  db,         \* the escrow, milestone and dispute rows of the escrow
  indexed,    \* ledgers with a ContractEvent row
  cursor,     \* lastProcessedLedger in memory
  dbCursor,   \* IndexerState.lastProcessedLedger
  tick,       \* per tick: step, ledgers next..last still to do, latestLedger
  dbFaults, crashes

indexerVars == <<history, closed, db, indexed, cursor, dbCursor, tick, dbFaults, crashes>>

Idle == [at |-> "idle", next |-> 1, last |-> 0, latest |-> 0]
NoRows == [escrow |-> "none", balance |-> 0, milestone |-> "none", dispute |-> "none"]

IndexerTypeOK ==
  /\ WebhookTypeOK
  /\ closed \in 0..Len(history)
  /\ indexed \subseteq 1..closed
  /\ cursor \in 0..closed /\ dbCursor \in 0..closed
  /\ \A t \in Ticks : /\ tick[t].at \in {"idle", "fetched", "indexing", "saving"}
                      /\ tick[t].next \in 1..closed + 1
                      /\ tick[t].last \in 0..closed /\ tick[t].latest \in 0..closed

IndexerInit ==
  /\ WebhookInit
  /\ history \in Histories
  /\ closed = 0
  /\ db = NoRows
  /\ indexed = {}
  /\ cursor = 0 /\ dbCursor = 0
  /\ tick = [t \in Ticks |-> Idle]
  /\ dbFaults = 0 /\ crashes = 0

-----------------------------------------------------------------------------
(* The side effect of an event on the rows, inside the handler's transaction. *)

OnEscrow(rows, new) == IF rows.escrow = "none" THEN rows ELSE new

HandleEscrowCreated(rows) ==
  IF rows.escrow = "none"
  THEN [rows EXCEPT !.escrow = "Active", !.balance = ESCROW_AMOUNT] ELSE rows
HandleMilestoneAdded(rows) ==
  IF rows.milestone = "none" THEN [rows EXCEPT !.milestone = "Pending"] ELSE rows
MilestoneUpdate(rows, status) ==
  IF rows.milestone = "none" THEN rows ELSE [rows EXCEPT !.milestone = status]
HandleMilestoneSubmitted(rows) == MilestoneUpdate(rows, "Submitted")
HandleMilestoneApproved(rows) == MilestoneUpdate(rows, "Approved")
HandleMilestoneRejected(rows) == MilestoneUpdate(rows, "Rejected")
HandleMilestoneDisputed(rows) == MilestoneUpdate(rows, "Rejected")
HandleFundsReleased(rows, amount) ==
  OnEscrow(rows, [rows EXCEPT !.balance = @ - amount])
HandleEscrowCancelled(rows) == OnEscrow(rows, [rows EXCEPT !.escrow = "Cancelled"])
HandleDisputeRaised(rows) ==
  [OnEscrow(rows, [rows EXCEPT !.escrow = "Disputed"])
     EXCEPT !.dispute = IF @ = "none" THEN "open" ELSE @]
HandleDisputeResolved(rows) ==
  [OnEscrow(rows, [rows EXCEPT !.escrow = "Completed"])
     EXCEPT !.dispute = IF @ = "none" THEN @ ELSE "resolved"]

Handled(rows, event) ==
  CASE event.type = "esc_crt"   -> HandleEscrowCreated(rows)
    [] event.type = "mil_add"   -> HandleMilestoneAdded(rows)
    [] event.type = "mil_sub"   -> HandleMilestoneSubmitted(rows)
    [] event.type = "mil_apr"   -> HandleMilestoneApproved(rows)
    [] event.type = "mil_rej"   -> HandleMilestoneRejected(rows)
    [] event.type = "mil_dis"   -> HandleMilestoneDisputed(rows)
    [] event.type = "funds_rel" -> HandleFundsReleased(rows, event.amount)
    [] event.type = "esc_can"   -> HandleEscrowCancelled(rows)
    [] event.type = "dis_rai"   -> HandleDisputeRaised(rows)
    [] event.type = "dis_res"   -> HandleDisputeResolved(rows)
    [] OTHER                    -> rows

-----------------------------------------------------------------------------
(* The chain and the ticks. *)

CloseLedger ==
  /\ closed < Len(history)
  /\ \A t \in Ticks : tick[t].at = "fetched" => closed < tick[t].latest + MaxSlip
  /\ closed' = closed + 1
  /\ UNCHANGED <<history, db, indexed, cursor, dbCursor, tick, dbFaults, crashes>>
  /\ UNCHANGED webhookVars

\* getEvents returns the ledgers from startLedger on, startLedger included.
From(start) == IF start = 0 THEN 1 ELSE start
After(start) == start + 1
FetchFrom(start) == From(start)

PageEnd(first) == IF first + PageSize - 1 < closed THEN first + PageSize - 1 ELSE closed

Fetch(t) ==
  /\ tick[t].at = "idle"
  /\ tick' = [tick EXCEPT ![t] =
       [at |-> "fetched", next |-> FetchFrom(cursor), last |-> PageEnd(FetchFrom(cursor)),
        latest |-> closed]]
  /\ UNCHANGED <<history, closed, db, indexed, cursor, dbCursor, dbFaults, crashes>>
  /\ UNCHANGED webhookVars

GetLatestLedger(t) ==
  /\ tick[t].at = "fetched"
  /\ tick' = [tick EXCEPT ![t].at = "indexing", ![t].latest = closed]
  /\ UNCHANGED <<history, closed, db, indexed, cursor, dbCursor, dbFaults, crashes>>
  /\ UNCHANGED webhookVars

ToDo(t) == tick[t].next <= tick[t].last

\* The ContractEvent insert fails on an event that has a row (P2002): the whole
\* transaction is rolled back, and neither webhook nor broadcast follows.
AlreadyIndexed(l) == l \in indexed
NeverIndexed(l) == FALSE
Skips(l) == AlreadyIndexed(l)

\* Webhooks are queued after the commit, for a new event only.
Announce(l) == IF l \in indexed THEN UNCHANGED webhookVars ELSE QueueEventWebhooks(l)
AnnounceAlways(l) == QueueEventWebhooks(l)
Notify(l) == Announce(l)

DispatchEvent(t) ==
  /\ tick[t].at = "indexing" /\ ToDo(t)
  /\ LET l == tick[t].next IN
       /\ IF Skips(l) THEN UNCHANGED <<db, indexed>>
          ELSE /\ db' = Handled(db, history[l])
               /\ indexed' = indexed \cup {l}
       /\ Notify(l)
  /\ tick' = [tick EXCEPT ![t].next = @ + 1]
  /\ UNCHANGED <<history, closed, cursor, dbCursor, dbFaults, crashes>>

\* Any other error is rethrown and ends the tick; the cursor stays.
DispatchFails(t) ==
  /\ tick[t].at = "indexing" /\ ToDo(t) /\ dbFaults < MaxDbFaults
  /\ tick' = [tick EXCEPT ![t] = Idle]
  /\ dbFaults' = dbFaults + 1
  /\ UNCHANGED <<history, closed, db, indexed, cursor, dbCursor, crashes>>
  /\ UNCHANGED webhookVars

AdvancedPast(t) == IF tick[t].latest > cursor THEN tick[t].latest + 1 ELSE cursor
Advanced(t) == IF tick[t].latest > cursor THEN tick[t].latest ELSE cursor

NextCursor(t) == Advanced(t)

FinishTick(t) ==
  /\ tick[t].at = "indexing" /\ ~ToDo(t)
  /\ cursor' = NextCursor(t)
  /\ tick' = [tick EXCEPT ![t] = IF tick[t].latest > cursor
                                 THEN [@ EXCEPT !.at = "saving"] ELSE Idle]
  /\ UNCHANGED <<history, closed, db, indexed, dbCursor, dbFaults, crashes>>
  /\ UNCHANGED webhookVars

\* BigInt(lastProcessedLedger) was read before the await: the tick's own value.
PersistCursor(t) ==
  /\ tick[t].at = "saving"
  /\ dbCursor' = tick[t].latest
  /\ tick' = [tick EXCEPT ![t] = Idle]
  /\ UNCHANGED <<history, closed, db, indexed, cursor, dbFaults, crashes>>
  /\ UNCHANGED webhookVars

\* The process dies; startIndexer loads the persisted cursor.
CrashAndRestart ==
  /\ crashes < MaxCrashes
  /\ crashes' = crashes + 1
  /\ tick' = [t \in Ticks |-> Idle]
  /\ cursor' = dbCursor
  /\ LoseDispatches
  /\ UNCHANGED <<history, closed, db, indexed, dbCursor, dbFaults>>

TickStep(t) ==
  \/ Fetch(t)
  \/ GetLatestLedger(t)
  \/ DispatchEvent(t)
  \/ FinishTick(t)
  \/ PersistCursor(t)

\* The workers that post the webhooks change nothing the indexer reads.
Deliver(e) == ApiWebhookStep(e) /\ UNCHANGED indexerVars

IndexerNext ==
  \/ CloseLedger
  \/ CrashAndRestart
  \/ \E t \in Ticks : TickStep(t) \/ DispatchFails(t)
  \/ \E e \in Events : Deliver(e)

allIndexerVars == <<indexerVars, webhookVars>>

\* setInterval keeps starting ticks, and the RPC and the database answer again.
IndexerFairness ==
  /\ \A t \in Ticks : WF_allIndexerVars(TickStep(t))
  /\ \A e \in Events : WF_allIndexerVars(Deliver(e))

IndexerSpec == IndexerInit /\ [][IndexerNext]_allIndexerVars /\ IndexerFairness

-----------------------------------------------------------------------------
(* Properties. *)

Follower == INSTANCE LedgerFollower WITH
  Apply <- Handled, log <- history, height <- closed,
  followed <- Cardinality(indexed), rows <- db

(* The indexer implements LedgerFollower: the rows are what one pass over the *)
(* ledgers in their order makes of an empty database, no balance decremented  *)
(* twice and no older status put over a newer one, and every ledger is        *)
(* followed in the end, whatever ticks overlap, fail or die with the process. *)
FollowsTheLedger == Follower!Spec

(* "Fetches and processes all new events since lastProcessedLedger": the      *)
(* ledgers below the cursor are indexed.  The next fetch starts at the cursor *)
(* itself, which makes up for the one ledger that may close between the fetch *)
(* of the events and the reading of the latest ledger.                        *)
BelowCursorIndexed == 1..(cursor - 1) \subseteq indexed

(* An event starts at most one webhook delivery per subscription, also when  *)
(* two ticks dispatch it or a restart repeats it.                            *)
OneDeliveryPerEvent == \A e \in Events : created[e] <= 1
=============================================================================
