--------------------------- MODULE IndexerProofs ----------------------------
(***************************************************************************)
(* The event indexer loses, repeats and reorders no event and implements   *)
(* the steps of LedgerFollower; the delivery row of a webhook agrees with  *)
(* its job; the cluster of stand-alone indexers saves no cursor past a     *)
(* ledger that was neither applied nor refused, and no tick takes a lock   *)
(* from another.  For any number of events, attempts, nodes, overlapping   *)
(* ticks, mishaps and crashes.                                             *)
(***************************************************************************)
EXTENDS EventIndexer, IndexerCluster, FiniteSetTheorems, TLAPS

-----------------------------------------------------------------------------
(* The event indexer. *)

\* What the code takes for granted of the RPC: at most one ledger closes between
\* the two calls of a tick, and one page holds every event that is waiting.
TimelyRpc == MaxSlip \in {0, 1} /\ \A h \in Histories : Len(h) \in 0..PageSize

Tick == [at : {"idle", "fetched", "indexing", "saving"}, next : Nat \ {0}, last : Nat,
         latest : Nat]

done == Cardinality(indexed)

\* The indexed ledgers are the first ones, and no tick starts beyond the next.
InOrder ==
  /\ history \in Histories /\ closed \in 0..Len(history)
  /\ done \in 0..closed /\ indexed = 1..done
  /\ tick \in [Ticks -> Tick]
  /\ cursor \in 0..done + 1 /\ dbCursor \in 0..done + 1

\* What a tick has read, at each of its steps.
TickInOrder(t) ==
  /\ tick[t].at \in {"fetched", "indexing"} => tick[t].next <= done + 1 /\ tick[t].last <= closed
  /\ tick[t].at = "fetched" => tick[t].latest = tick[t].last /\ closed <= tick[t].last + 1
  /\ tick[t].at = "indexing" => tick[t].latest <= tick[t].last + 1
  /\ tick[t].at = "saving" => tick[t].latest <= done + 1

FollowInv == InOrder /\ \A t \in Ticks : TickInOrder(t)

\* Only one tick moves, to a state that keeps the order; no ledger is indexed.
LEMMA OneTick ==
  ASSUME FollowInv, NEW t \in Ticks, NEW new \in Tick,
         tick' = [tick EXCEPT ![t] = new],
         UNCHANGED <<history, closed, indexed>>,
         cursor' \in 0..done + 1, dbCursor' \in 0..done + 1,
         TickInOrder(t)'
  PROVE  FollowInv'
<1>1. done' = done
  BY DEF done
<1>2. InOrder'
  BY <1>1 DEF FollowInv, InOrder
<1>3. ASSUME NEW u \in Ticks, u # t PROVE TickInOrder(u)'
  <2>1. tick'[u] = tick[u]
    BY <1>3 DEF FollowInv, InOrder
  <2> QED
    BY <1>1, <2>1 DEF FollowInv, TickInOrder
<1> QED
  BY <1>2, <1>3 DEF FollowInv

LEMMA IdleInOrder ==
  ASSUME NEW t \in Ticks, tick[t] = Idle
  PROVE  TickInOrder(t)
  BY DEF TickInOrder, Idle

LEMMA IdleTyped == Idle \in Tick
  BY DEF Idle, Tick

LEMMA Known ==
  ASSUME FollowInv, NEW t \in Ticks
  PROVE  /\ Len(history) \in Nat /\ closed \in Nat /\ done \in Nat
         /\ done <= closed /\ closed <= Len(history)
         /\ cursor \in Nat /\ dbCursor \in Nat /\ cursor <= done + 1 /\ dbCursor <= done + 1
         /\ tick[t] \in Tick /\ tick[t].next \in Nat \ {0}
         /\ tick[t].last \in Nat /\ tick[t].latest \in Nat
         /\ TickInOrder(t)
<1>1. closed \in 0..Len(history) /\ done \in 0..closed
  BY DEF FollowInv, InOrder
<1> QED
  BY <1>1 DEF FollowInv, InOrder, Tick

LEMMA CloseStep ==
  ASSUME TimelyRpc, FollowInv, CloseLedger
  PROVE  FollowInv'
<1>1. done' = done /\ closed' = closed + 1
  BY DEF CloseLedger, done
<1>2. closed' \in 0..Len(history) /\ done \in 0..closed'
  BY <1>1 DEF CloseLedger, FollowInv, InOrder, TimelyRpc
<1>3. InOrder'
  BY <1>1, <1>2 DEF CloseLedger, FollowInv, InOrder
<1>4. ASSUME NEW t \in Ticks PROVE TickInOrder(t)'
  <2>1. tick[t].at = "fetched" => closed < tick[t].latest + MaxSlip
    BY DEF CloseLedger
  <2>2. tick' = tick
    BY DEF CloseLedger
  <2> QED
    BY <1>1, <2>1, <2>2, Known, SMTT(20) DEF TimelyRpc, TickInOrder
<1> QED
  BY <1>3, <1>4 DEF FollowInv

LEMMA FetchStep ==
  ASSUME TimelyRpc, FollowInv, NEW t \in Ticks, Fetch(t)
  PROVE  FollowInv'
<1> DEFINE first == FetchFrom(cursor)
           new == [at |-> "fetched", next |-> first, last |-> PageEnd(first), latest |-> closed]
<1>1. first \in Nat \ {0} /\ first <= done + 1
  BY Known DEF FetchFrom, From
<1>2. PageEnd(first) = closed
  <2>1. closed <= PageSize
    BY RpcAssumption, Known DEF FollowInv, InOrder, TimelyRpc
  <2> QED
    BY <1>1, <2>1, Known, RpcAssumption DEF PageEnd
<1>3. new \in Tick
  BY <1>1, <1>2, Known DEF Tick
<1>4. tick' = [tick EXCEPT ![t] = new]
  BY DEF Fetch
<1>5. tick'[t] = new /\ done' = done /\ closed' = closed
  BY <1>4 DEF FollowInv, InOrder, Fetch, done
<1>6. TickInOrder(t)'
  BY <1>1, <1>2, <1>5, Known DEF TickInOrder
<1>7. UNCHANGED <<history, closed, indexed>> /\ cursor' \in 0..done + 1 /\ dbCursor' \in 0..done + 1
  BY Known DEF Fetch
<1> HIDE DEF new
<1> QED
  BY <1>3, <1>4, <1>6, <1>7, OneTick

LEMMA LatestStep ==
  ASSUME FollowInv, NEW t \in Ticks, GetLatestLedger(t)
  PROVE  FollowInv'
<1> DEFINE new == [tick[t] EXCEPT !.at = "indexing", !.latest = closed]
<1>1. new \in Tick
  BY Known DEF Tick
<1>2. tick' = [tick EXCEPT ![t] = new] /\ tick[t].at = "fetched"
  BY DEF GetLatestLedger, FollowInv, InOrder
<1>3. tick'[t] = new /\ done' = done /\ closed' = closed
  BY <1>2 DEF FollowInv, InOrder, GetLatestLedger, done
<1>4. new.at = "indexing" /\ new.next = tick[t].next /\ new.last = tick[t].last /\ new.latest = closed
  BY Known DEF Tick
<1>5. TickInOrder(t)'
  BY <1>2, <1>3, <1>4, Known DEF TickInOrder
<1>6. UNCHANGED <<history, closed, indexed>> /\ cursor' \in 0..done + 1 /\ dbCursor' \in 0..done + 1
  BY Known DEF GetLatestLedger
<1> HIDE DEF new
<1> QED
  BY <1>1, <1>2, <1>5, <1>6, OneTick

\* A new event is the one after those that are indexed.
LEMMA NewIsNext ==
  ASSUME FollowInv, NEW t \in Ticks, DispatchEvent(t)
  PROVE  /\ tick[t].next \in indexed <=> tick[t].next <= done
         /\ tick[t].next \notin indexed => tick[t].next = done + 1
         /\ tick[t].next <= closed
<1>1. tick[t].next <= done + 1 /\ tick[t].next <= closed
  BY Known DEF DispatchEvent, ToDo, TickInOrder
<1>2. indexed = 1..done
  BY DEF FollowInv, InOrder
<1> QED
  BY <1>1, <1>2, Known

LEMMA DispatchCount ==
  ASSUME FollowInv, NEW t \in Ticks, DispatchEvent(t)
  PROVE  \/ tick[t].next <= done /\ indexed' = indexed /\ done' = done
         \/ tick[t].next = done + 1 /\ indexed' = 1..done' /\ done' = done + 1
<1>1. CASE tick[t].next \in indexed
  BY <1>1, NewIsNext DEF DispatchEvent, Skips, AlreadyIndexed, done
<1>2. CASE tick[t].next \notin indexed
  <2>1. tick[t].next = done + 1 /\ indexed = 1..done
    BY <1>2, NewIsNext DEF FollowInv, InOrder
  <2>2. indexed' = 1..done + 1
    <3>1. indexed' = indexed \cup {tick[t].next}
      BY <1>2 DEF DispatchEvent, Skips, AlreadyIndexed
    <3> QED
      BY <2>1, <3>1, Known
  <2>3. done' = done + 1
    <3>1. Cardinality(1..(done + 1)) = done + 1
      BY Known, FS_Interval
    <3> QED
      BY <2>2, <3>1 DEF done
  <2> QED
    BY <2>1, <2>2, <2>3
<1> QED
  BY <1>1, <1>2

LEMMA DispatchStep ==
  ASSUME FollowInv, NEW t \in Ticks, DispatchEvent(t)
  PROVE  FollowInv'
<1> DEFINE new == [tick[t] EXCEPT !.next = tick[t].next + 1]
<1>1. new \in Tick /\ new.at = tick[t].at /\ new.next = tick[t].next + 1
      /\ new.last = tick[t].last /\ new.latest = tick[t].latest
  BY Known, SMTT(20) DEF Tick
<1>2. tick' = [tick EXCEPT ![t] = new]
  BY DEF DispatchEvent
<1>3. tick' \in [Ticks -> Tick] /\ tick'[t] = new /\ \A u \in Ticks \ {t} : tick'[u] = tick[u]
  BY <1>1, <1>2 DEF FollowInv, InOrder
<1>4. done' \in Nat /\ done <= done' /\ indexed' = 1..done' /\ done' <= closed
      /\ tick[t].next <= done'
  <2>1. indexed = 1..done
    BY DEF FollowInv, InOrder
  <2> QED
    BY <2>1, DispatchCount, NewIsNext, Known
<1>5. UNCHANGED <<history, closed, cursor, dbCursor>>
  BY DEF DispatchEvent
<1>6. InOrder'
  BY <1>3, <1>4, <1>5, Known DEF FollowInv, InOrder
<1>7. TickInOrder(t)'
  <2>1. tick[t].at = "indexing" /\ tick[t].last <= closed /\ tick[t].latest <= tick[t].last + 1
    BY Known DEF DispatchEvent, TickInOrder
  <2>2. tick[t].next + 1 <= done' + 1
    BY <1>4, Known
  <2> HIDE DEF new
  <2>3. /\ tick'[t].at = "indexing" /\ tick'[t].next = tick[t].next + 1
        /\ tick'[t].last = tick[t].last /\ tick'[t].latest = tick[t].latest
    BY <1>1, <1>3, <2>1
  <2> QED
    BY <1>5, <2>1, <2>2, <2>3 DEF TickInOrder
<1>8. ASSUME NEW u \in Ticks \ {t} PROVE TickInOrder(u)'
  <2>1. tick'[u] = tick[u]
    BY <1>3
  <2> QED
    BY <1>4, <1>5, <2>1, Known DEF TickInOrder
<1> QED
  BY <1>6, <1>7, <1>8 DEF FollowInv

LEMMA DispatchFailStep ==
  ASSUME FollowInv, NEW t \in Ticks, DispatchFails(t)
  PROVE  FollowInv'
<1>1. tick' = [tick EXCEPT ![t] = Idle] /\ tick'[t] = Idle
  BY DEF DispatchFails, FollowInv, InOrder
<1>2. TickInOrder(t)'
  BY <1>1 DEF TickInOrder, Idle
<1>3. UNCHANGED <<history, closed, indexed>> /\ cursor' \in 0..done + 1 /\ dbCursor' \in 0..done + 1
  BY Known DEF DispatchFails
<1> QED
  BY <1>1, <1>2, IdleTyped, <1>3, OneTick

\* A tick that has done its ledgers has left none below latestLedger behind.
LEMMA FinishStep ==
  ASSUME FollowInv, NEW t \in Ticks, FinishTick(t)
  PROVE  FollowInv'
<1> DEFINE new == IF tick[t].latest > cursor THEN [tick[t] EXCEPT !.at = "saving"] ELSE Idle
<1>1. tick[t].latest <= done + 1
  BY Known, SMTT(20) DEF FinishTick, ToDo, TickInOrder
<1>2. cursor' \in 0..done + 1
  BY <1>1, Known DEF FinishTick, NextCursor, Advanced
<1>3. new \in Tick
  BY Known, IdleTyped DEF Tick
<1>4. tick' = [tick EXCEPT ![t] = new]
  BY DEF FinishTick
<1>5. tick'[t] = new /\ done' = done
  BY <1>4 DEF FollowInv, InOrder, FinishTick, done
<1>6. TickInOrder(t)'
  <2>1. CASE tick[t].latest > cursor
    BY <1>1, <1>5, <2>1, Known DEF TickInOrder, Tick
  <2>2. CASE ~ (tick[t].latest > cursor)
    BY <1>5, <2>2 DEF TickInOrder, Idle
  <2> QED
    BY <2>1, <2>2
<1>7. UNCHANGED <<history, closed, indexed>> /\ dbCursor' \in 0..done + 1
  BY Known DEF FinishTick
<1> HIDE DEF new
<1> QED
  BY <1>2, <1>3, <1>4, <1>6, <1>7, OneTick

LEMMA PersistStep ==
  ASSUME FollowInv, NEW t \in Ticks, PersistCursor(t)
  PROVE  FollowInv'
<1>1. tick' = [tick EXCEPT ![t] = Idle] /\ tick'[t] = Idle
  BY DEF PersistCursor, FollowInv, InOrder
<1>2. TickInOrder(t)'
  BY <1>1 DEF TickInOrder, Idle
<1>3. dbCursor' \in 0..done + 1
  BY Known DEF PersistCursor, TickInOrder
<1>4. UNCHANGED <<history, closed, indexed>> /\ cursor' \in 0..done + 1
  BY Known DEF PersistCursor
<1> QED
  BY <1>1, <1>2, <1>3, IdleTyped, <1>4, OneTick

LEMMA CrashStep ==
  ASSUME FollowInv, CrashAndRestart
  PROVE  FollowInv'
<1>1. UNCHANGED <<history, closed, indexed, dbCursor>> /\ cursor' = dbCursor /\ done' = done
  BY DEF CrashAndRestart, done
<1>2. tick' \in [Ticks -> Tick] /\ \A t \in Ticks : tick'[t] = Idle
  BY IdleTyped DEF CrashAndRestart
<1>3. InOrder'
  BY <1>1, <1>2 DEF FollowInv, InOrder
<1>4. ASSUME NEW t \in Ticks PROVE TickInOrder(t)'
  BY <1>2 DEF TickInOrder, Idle
<1> QED
  BY <1>3, <1>4 DEF FollowInv

LEMMA Unmoved ==
  ASSUME FollowInv, UNCHANGED indexerVars
  PROVE  FollowInv'
  BY DEF FollowInv, InOrder, TickInOrder, indexerVars, done

LEMMA FollowStep ==
  ASSUME TimelyRpc, FollowInv, [IndexerNext]_allIndexerVars
  PROVE  FollowInv'
<1>1. CASE UNCHANGED allIndexerVars
  BY <1>1, Unmoved DEF allIndexerVars
<1>2. CASE CloseLedger
  BY <1>2, CloseStep
<1>3. CASE CrashAndRestart
  BY <1>3, CrashStep
<1>4. ASSUME NEW t \in Ticks, TickStep(t) \/ DispatchFails(t) PROVE FollowInv'
  BY <1>4, FetchStep, LatestStep, DispatchStep, DispatchFailStep, FinishStep, PersistStep
     DEF TickStep
<1>5. ASSUME NEW e \in Events, Deliver(e) PROVE FollowInv'
  BY <1>5, Unmoved DEF Deliver
<1> QED
  BY <1>1, <1>2, <1>3, <1>4, <1>5 DEF IndexerNext

LEMMA FollowStart ==
  ASSUME TimelyRpc, IndexerInit
  PROVE  FollowInv
<1>1. done = 0 /\ indexed = 1..0
  BY FS_EmptySet DEF IndexerInit, done
<1>2. Len(history) \in Nat
  BY DEF IndexerInit, TimelyRpc
<1>3. tick \in [Ticks -> Tick] /\ \A t \in Ticks : tick[t] = Idle
  BY IdleTyped DEF IndexerInit
<1>4. InOrder
  BY <1>1, <1>2, <1>3 DEF InOrder, IndexerInit
<1> QED
  BY <1>3, <1>4, IdleInOrder DEF FollowInv

(* eventIndexer.js:456 "Fetches and processes all new events since           *)
(* lastProcessedLedger": every ledger below the cursor is indexed, although  *)
(* the latest ledger is read after the events and ticks overlap.             *)
THEOREM NothingBelowCursorIsLost ==
  ASSUME TimelyRpc
  PROVE  IndexerSpec => []BelowCursorIndexed
<1>1. FollowInv => BelowCursorIndexed
  BY DEF FollowInv, InOrder, BelowCursorIndexed
<1> QED
  BY <1>1, FollowStart, FollowStep, PTL DEF IndexerSpec

-----------------------------------------------------------------------------
(* The refinement. *)

\* Every step of the indexer closes a ledger, follows the next one or changes
\* nothing that LedgerFollower speaks of.
LEMMA StepsFollow ==
  ASSUME FollowInv, [IndexerNext]_allIndexerVars
  PROVE  [Follower!Next]_Follower!followerVars
<1> USE DEF Follower!Next, Follower!Close, Follower!Follow, Follower!followerVars
<1>1. CASE UNCHANGED allIndexerVars
  BY <1>1 DEF allIndexerVars, indexerVars
<1>2. CASE CloseLedger
  BY <1>2 DEF CloseLedger
<1>3. CASE CrashAndRestart
  BY <1>3 DEF CrashAndRestart
<1>4. ASSUME NEW t \in Ticks, TickStep(t) \/ DispatchFails(t)
      PROVE  [Follower!Next]_Follower!followerVars
  <2>1. CASE DispatchEvent(t)
    <3>1. CASE tick[t].next \in indexed
      BY <2>1, <3>1 DEF DispatchEvent, Skips, AlreadyIndexed
    <3>2. CASE tick[t].next \notin indexed
      <4>1. tick[t].next = done + 1 /\ done < closed
        BY <2>1, <3>2, NewIsNext, Known
      <4>2. done' = done + 1
        BY <2>1, <4>1, DispatchCount, Known
      <4>3. db' = Handled(db, history[done + 1])
        BY <2>1, <3>2, <4>1 DEF DispatchEvent, Skips, AlreadyIndexed
      <4> QED
        BY <2>1, <4>1, <4>2, <4>3 DEF DispatchEvent, done
    <3> QED
      BY <3>1, <3>2
  <2>2. CASE ~DispatchEvent(t)
    BY <1>4, <2>2
       DEF TickStep, Fetch, GetLatestLedger, FinishTick, PersistCursor, DispatchFails
  <2> QED
    BY <2>1, <2>2
<1>5. ASSUME NEW e \in Events, Deliver(e)
      PROVE  [Follower!Next]_Follower!followerVars
  BY <1>5 DEF Deliver, indexerVars
<1> QED
  BY <1>1, <1>2, <1>3, <1>4, <1>5 DEF IndexerNext

(* The rows are what one pass over the ledgers in their order makes of an    *)
(* empty database: no balance is decremented twice and no older status put   *)
(* over a newer one by overlapping, failing or repeated ticks.               *)
THEOREM IndexerFollows ==
  ASSUME TimelyRpc
  PROVE  IndexerSpec => Follower!SafetySpec
<1>1. IndexerInit => Follower!Init
  BY FS_EmptySet DEF IndexerInit, Follower!Init
<1> QED
  BY <1>1, FollowStart, FollowStep, StepsFollow, PTL DEF IndexerSpec, Follower!SafetySpec

-----------------------------------------------------------------------------
(* The webhooks of an event. *)

\* A delivery is in progress or recorded for an indexed event only, and once.
AnnouncedOnce ==
  /\ dispatching \in [Events -> Nat] /\ created \in [Events -> Nat]
  /\ \A e \in Events : /\ e \notin indexed => dispatching[e] + created[e] = 0
                       /\ dispatching[e] + created[e] <= 1

LEMMA AnnounceStep ==
  ASSUME AnnouncedOnce, NEW t \in Ticks, DispatchEvent(t)
  PROVE  AnnouncedOnce'
<1> DEFINE l == tick[t].next
<1>1. CASE l \in indexed
  BY <1>1 DEF AnnouncedOnce, DispatchEvent, Skips, AlreadyIndexed, Notify, Announce, webhookVars
<1>2. CASE l \notin indexed
  <2>1. indexed' = indexed \cup {l} /\ QueueEventWebhooks(l)
    BY <1>2 DEF DispatchEvent, Skips, AlreadyIndexed, Notify, Announce
  <2>2. CASE l \in Subscribed
    <3>1. l \in Events
      BY <2>2, SubscribedAssumption
    <3>2. dispatching' = [dispatching EXCEPT ![l] = dispatching[l] + 1] /\ created' = created
      BY <2>1, <2>2 DEF QueueEventWebhooks
    <3>3. dispatching[l] = 0 /\ created[l] = 0
      BY <1>2, <3>1 DEF AnnouncedOnce
    <3> QED
      BY <2>1, <3>1, <3>2, <3>3 DEF AnnouncedOnce
  <2>3. CASE l \notin Subscribed
    BY <2>1, <2>3 DEF AnnouncedOnce, QueueEventWebhooks
  <2> QED
    BY <2>2, <2>3
<1> QED
  BY <1>1, <1>2

LEMMA ApiStepKeepsCount ==
  ASSUME AnnouncedOnce, NEW e \in Events, ApiWebhookStep(e), UNCHANGED indexed
  PROVE  AnnouncedOnce'
<1>1. CASE CreateDelivery(e)
  <2>1. dispatching[e] \in Nat /\ created[e] \in Nat /\ dispatching[e] > 0
    BY <1>1 DEF AnnouncedOnce, CreateDelivery
  <2>2. /\ dispatching' = [dispatching EXCEPT ![e] = dispatching[e] - 1]
        /\ created' = [created EXCEPT ![e] = created[e] + 1]
    BY <1>1 DEF CreateDelivery
  <2>3. dispatching'[e] + created'[e] = dispatching[e] + created[e]
    BY <2>1, <2>2 DEF AnnouncedOnce
  <2>4. \A f \in Events \ {e} : dispatching'[f] = dispatching[f] /\ created'[f] = created[f]
    BY <2>2 DEF AnnouncedOnce
  <2>5. dispatching' \in [Events -> Nat] /\ created' \in [Events -> Nat]
    BY <2>1, <2>2 DEF AnnouncedOnce
  <2> QED
    BY <2>3, <2>4, <2>5 DEF AnnouncedOnce
<1>2. CASE EnqueueWebhookDelivery(e)
  BY <1>2 DEF AnnouncedOnce, EnqueueWebhookDelivery
<1> QED
  BY <1>1, <1>2 DEF ApiWebhookStep

LEMMA AnnouncedStep ==
  ASSUME AnnouncedOnce, [IndexerNext]_allIndexerVars
  PROVE  AnnouncedOnce'
<1>1. CASE CrashAndRestart
  <2>1. ASSUME NEW e \in Events
        PROVE  dispatching[e] \in Nat /\ created[e] \in Nat /\ dispatching'[e] = 0
    BY <1>1 DEF AnnouncedOnce, CrashAndRestart, LoseDispatches
  <2>2. dispatching' \in [Events -> Nat] /\ UNCHANGED <<created, indexed>>
    BY <1>1 DEF CrashAndRestart, LoseDispatches
  <2> QED
    BY <2>1, <2>2 DEF AnnouncedOnce
<1>2. ASSUME NEW t \in Ticks, TickStep(t) \/ DispatchFails(t) PROVE AnnouncedOnce'
  <2>1. CASE DispatchEvent(t)
    BY <2>1, AnnounceStep
  <2>2. CASE ~DispatchEvent(t)
    BY <1>2, <2>2
       DEF AnnouncedOnce, TickStep, Fetch, GetLatestLedger, FinishTick, PersistCursor,
           DispatchFails, webhookVars
  <2> QED
    BY <2>1, <2>2
<1>3. ASSUME NEW e \in Events, Deliver(e) PROVE AnnouncedOnce'
  BY <1>3, ApiStepKeepsCount DEF Deliver, indexerVars
<1>4. CASE CloseLedger \/ UNCHANGED allIndexerVars
  BY <1>4 DEF AnnouncedOnce, CloseLedger, allIndexerVars, indexerVars, webhookVars
<1> QED
  BY <1>1, <1>2, <1>3, <1>4 DEF IndexerNext

(* dispatchEvent queues the webhooks of an event it inserted and of no other, *)
(* so an event has at most one delivery per subscription, whatever the RPC    *)
(* answers and however many ticks or restarts repeat the event.               *)
THEOREM DeliveredOnce == IndexerSpec => []OneDeliveryPerEvent
<1>1. IndexerInit => AnnouncedOnce
  BY DEF IndexerInit, WebhookInit, AnnouncedOnce
<1>2. AnnouncedOnce => OneDeliveryPerEvent
  <2> SUFFICES ASSUME AnnouncedOnce, NEW e \in Events PROVE created[e] <= 1
    BY DEF OneDeliveryPerEvent
  <2>1. dispatching[e] \in Nat /\ created[e] \in Nat /\ dispatching[e] + created[e] <= 1
    BY DEF AnnouncedOnce
  <2> QED
    BY <2>1
<1> QED
  BY <1>1, <1>2, AnnouncedStep, PTL DEF IndexerSpec

-----------------------------------------------------------------------------
(* The delivery of webhooks. *)

\* One row at most, one enqueuing call at most, and a job only for a row.
OneRowPerJob ==
  \A e \in Events :
    /\ dispatching[e] + created[e] \in {0, 1}
    /\ enqueuing[e] > 0 \/ job[e] # "none" => created[e] = 1

\* What the row and the subscriber are known to hold at each step of the job.
RowFollowsJob ==
  \A e \in Events :
    /\ job[e] \in {"posted", "recorded", "done"} => e \in accepted
    /\ job[e] \in {"recorded", "done"} => delivery[e] = "success"
    /\ job[e] = "failed" /\ dbErrors = 0 => delivery[e] = "failed"

DeliveryTypeOK ==
  /\ dispatching \in [Events -> Nat]
  /\ enqueuing \in [Events -> Nat]
  /\ created \in [Events -> Nat]
  /\ delivery \in [Events -> DeliveryStatus]
  /\ job \in [Events -> JobState]
  /\ attemptsMade \in [Events -> Nat]
  /\ dbErrors \in Nat

DeliveryInv == DeliveryTypeOK /\ OneRowPerJob /\ RowFollowsJob

LEMMA Counts ==
  ASSUME DeliveryInv, NEW e \in Events
  PROVE  /\ dispatching[e] \in Nat /\ created[e] \in Nat
         /\ created[e] \in {0, 1}
         /\ dispatching[e] > 0 => created[e] = 0 /\ dispatching[e] = 1
<1>1. dispatching[e] \in Nat /\ created[e] \in Nat
  BY DEF DeliveryInv, DeliveryTypeOK
<1>2. dispatching[e] + created[e] \in {0, 1}
  BY DEF DeliveryInv, OneRowPerJob
<1> QED
  BY <1>1, <1>2

\* The API process: QueueEventWebhooks runs once for an event.
LEMMA QueueStep ==
  ASSUME DeliveryInv, NEW e \in Events, dispatching[e] + created[e] = 0, QueueEventWebhooks(e)
  PROVE  DeliveryInv'
<1>1. DeliveryTypeOK'
  BY DEF DeliveryInv, DeliveryTypeOK, QueueEventWebhooks
<1>2. OneRowPerJob'
  BY DEF DeliveryInv, DeliveryTypeOK, OneRowPerJob, QueueEventWebhooks
<1>3. RowFollowsJob'
  BY DEF DeliveryInv, RowFollowsJob, QueueEventWebhooks
<1> QED
  BY <1>1, <1>2, <1>3 DEF DeliveryInv

LEMMA CreateStep ==
  ASSUME DeliveryInv, NEW e \in Events, CreateDelivery(e)
  PROVE  DeliveryInv'
<1>1. created[e] = 0 /\ dispatching[e] = 1 /\ job[e] = "none"
  BY Counts DEF DeliveryInv, OneRowPerJob, CreateDelivery
<1>2. DeliveryTypeOK'
  BY <1>1 DEF DeliveryInv, DeliveryTypeOK, CreateDelivery, DeliveryStatus
<1>3. OneRowPerJob'
  BY <1>1 DEF DeliveryInv, DeliveryTypeOK, OneRowPerJob, CreateDelivery
<1>4. RowFollowsJob'
  BY <1>1 DEF DeliveryInv, DeliveryTypeOK, RowFollowsJob, CreateDelivery
<1> QED
  BY <1>2, <1>3, <1>4 DEF DeliveryInv

LEMMA EnqueueStep ==
  ASSUME DeliveryInv, NEW e \in Events, EnqueueWebhookDelivery(e)
  PROVE  DeliveryInv'
<1>1. DeliveryTypeOK'
  BY DEF DeliveryInv, DeliveryTypeOK, EnqueueWebhookDelivery, JobState
<1>2. OneRowPerJob'
  BY DEF DeliveryInv, DeliveryTypeOK, OneRowPerJob, EnqueueWebhookDelivery
<1>3. RowFollowsJob'
  BY DEF DeliveryInv, DeliveryTypeOK, RowFollowsJob, EnqueueWebhookDelivery
<1> QED
  BY <1>1, <1>2, <1>3 DEF DeliveryInv

LEMMA LoseStep ==
  ASSUME DeliveryInv, LoseDispatches
  PROVE  DeliveryInv'
<1>1. DeliveryTypeOK'
  BY DEF DeliveryInv, DeliveryTypeOK, LoseDispatches
<1>2. OneRowPerJob'
  BY Counts DEF DeliveryInv, OneRowPerJob, LoseDispatches
<1>3. RowFollowsJob'
  BY DEF DeliveryInv, RowFollowsJob, LoseDispatches
<1> QED
  BY <1>1, <1>2, <1>3 DEF DeliveryInv

\* The worker: a step changes the job of one event, and neither the calls in
\* progress nor the number of rows.
LEMMA WorkerMoves ==
  ASSUME DeliveryInv, NEW e \in Events,
         WorkerStep(e) \/ DatabaseError(e) \/ WorkerCrash(e)
  PROVE  /\ DeliveryTypeOK'
         /\ OneRowPerJob'
         /\ job[e] # "none"
         /\ \A f \in Events \ {e} : job'[f] = job[f] /\ delivery'[f] = delivery[f]
         /\ accepted \subseteq accepted'
         /\ dbErrors' = 0 => dbErrors = 0
<1> USE DEF WorkerStep, TakeJob, PostAccepted, PostRejected, RecordSuccess, CompleteJob,
            DatabaseError, WorkerCrash, RecordFailure, FailJob, CountAttempt
<1>1. DeliveryTypeOK'
  BY DEF DeliveryInv, DeliveryTypeOK, DeliveryStatus, JobState
<1>2. job[e] # "none" /\ UNCHANGED <<dispatching, enqueuing, created>>
  OBVIOUS
<1>3. \A f \in Events \ {e} : job'[f] = job[f] /\ delivery'[f] = delivery[f]
  BY DEF DeliveryInv, DeliveryTypeOK
<1>4. accepted \subseteq accepted' /\ (dbErrors' = 0 => dbErrors = 0)
  BY DEF DeliveryInv, DeliveryTypeOK
<1>5. OneRowPerJob'
  BY <1>2, <1>3 DEF DeliveryInv, OneRowPerJob
<1> QED
  BY <1>1, <1>2, <1>3, <1>4, <1>5

\* The worker decides that an attempt is the last one exactly when BullMQ, which
\* counts it afterwards, gives the job up.
LEMMA WorkerRow ==
  ASSUME DeliveryInv, NEW e \in Events,
         WorkerStep(e) \/ DatabaseError(e) \/ WorkerCrash(e)
  PROVE  /\ job'[e] \in {"posted", "recorded", "done"} => e \in accepted'
         /\ job'[e] \in {"recorded", "done"} => delivery'[e] = "success"
         /\ job'[e] = "failed" /\ dbErrors' = 0 => delivery'[e] = "failed"
<1>1. CASE TakeJob(e) \/ WorkerCrash(e)
  BY <1>1 DEF DeliveryInv, DeliveryTypeOK, TakeJob, WorkerCrash
<1>2. CASE PostAccepted(e)
  BY <1>2 DEF DeliveryInv, DeliveryTypeOK, PostAccepted
<1>3. CASE RecordSuccess(e)
  BY <1>3 DEF DeliveryInv, DeliveryTypeOK, RowFollowsJob, RecordSuccess
<1>4. CASE CompleteJob(e)
  BY <1>4 DEF DeliveryInv, DeliveryTypeOK, RowFollowsJob, CompleteJob
<1>5. CASE PostRejected(e)
  BY <1>5 DEF DeliveryInv, DeliveryTypeOK, PostRejected, RecordFailure, FailJob, CountAttempt,
              IsTerminal
<1>6. CASE DatabaseError(e)
  BY <1>6 DEF DeliveryInv, DeliveryTypeOK, DatabaseError, FailJob, CountAttempt
<1> QED
  BY <1>1, <1>2, <1>3, <1>4, <1>5, <1>6 DEF WorkerStep

LEMMA WorkerKeeps ==
  ASSUME DeliveryInv, NEW e \in Events,
         WorkerStep(e) \/ DatabaseError(e) \/ WorkerCrash(e)
  PROVE  DeliveryInv'
<1>1. RowFollowsJob'
  BY WorkerMoves, WorkerRow DEF DeliveryInv, RowFollowsJob
<1> QED
  BY <1>1, WorkerMoves DEF DeliveryInv

LEMMA DeliveryStep ==
  ASSUME DeliveryInv, [WebhookNext]_webhookVars
  PROVE  DeliveryInv'
<1>1. CASE UNCHANGED webhookVars
  BY <1>1 DEF DeliveryInv, DeliveryTypeOK, OneRowPerJob, RowFollowsJob, webhookVars
<1>2. CASE LoseDispatches
  BY <1>2, LoseStep
<1>3. ASSUME NEW e \in Events, dispatching[e] + created[e] = 0 /\ QueueEventWebhooks(e)
      PROVE  DeliveryInv'
  BY <1>3, QueueStep
<1>4. ASSUME NEW e \in Events, WebhookStep(e)
      PROVE  DeliveryInv'
  BY <1>4, CreateStep, EnqueueStep, WorkerKeeps DEF WebhookStep, ApiWebhookStep
<1> QED
  BY <1>1, <1>2, <1>3, <1>4 DEF WebhookNext

LEMMA DeliveryStart ==
  ASSUME WebhookInit
  PROVE  DeliveryInv
  BY DEF WebhookInit, DeliveryInv, DeliveryTypeOK, OneRowPerJob, RowFollowsJob,
         DeliveryStatus, JobState

(* The row of a webhook says "success" after a completed job, and the        *)
(* subscriber did answer; it says "failed" after a job that used up its      *)
(* attempts, unless the database failed.  webhookWorker.js decides this from *)
(* attemptsMade before BullMQ counts the attempt.                            *)
THEOREM RowsSettle == WebhookSpec => []RowSettledWithJob
<1>1. DeliveryInv => RowSettledWithJob
  BY DEF DeliveryInv, RowFollowsJob, RowSettledWithJob
<1> QED
  BY <1>1, DeliveryStart, DeliveryStep, PTL DEF WebhookSpec

-----------------------------------------------------------------------------
(* The cluster. *)

\* Each tick runs on a node, and has a token of its own.
TicksOnNodes == RunningTicks \subseteq Tokens /\ NodeOf \in [RunningTicks -> Nodes]

TickRecord == [
  at : {"stopped", "locked", "looping", "batch", "indexing", "saving", "ending"},
  latest : Nat, from : Nat, end : Nat, next : Nat]

\* All ledgers up to k, which has closed, were applied or skipped.
Reached(a, s, h, k) == k \in 0..h /\ \A l \in 1..k : a[l] > 0 \/ l \in s

World(a, h) == h \in 0..MaxHeight /\ a \in [1..MaxHeight -> Nat]

\* Whatever a tick has behind it is reached, at each of its steps.
TickReached(a, s, h, r) ==
  /\ r \in TickRecord /\ r.latest <= h
  /\ r.at \in {"batch", "indexing"} => r.from >= 1 /\ r.end <= h /\ Reached(a, s, h, r.from - 1)
  /\ r.at = "indexing" => r.next >= 1 /\ Reached(a, s, h, r.next - 1)
  /\ r.at = "saving" => Reached(a, s, h, r.end)

ClusterInv ==
  /\ World(applied, height)
  /\ run \in [RunningTicks -> TickRecord] /\ position \in [Nodes -> Nat]
  /\ Reached(applied, skipped, height, saved)
  /\ \A n \in Nodes : Reached(applied, skipped, height, position[n])
  /\ \A t \in RunningTicks : TickReached(applied, skipped, height, run[t])

LEMMA MinOfTwo ==
  ASSUME NEW a \in Nat, NEW b \in Nat
  PROVE  Min({a, b}) \in {a, b} /\ Min({a, b}) <= a /\ Min({a, b}) <= b
<1>1. \E x \in {a, b} : \A y \in {a, b} : x <= y
  <2>1. CASE a <= b
    BY <2>1
  <2>2. CASE b <= a
    BY <2>2
  <2> QED
    BY <2>1, <2>2
<1> QED
  BY <1>1 DEF Min

-----------------------------------------------------------------------------
(* Ledgers close, are applied and are skipped, and none of this is undone. *)

Grows ==
  /\ World(applied', height') /\ height <= height' /\ skipped \subseteq skipped'
  /\ \A l \in 1..MaxHeight : applied[l] > 0 => applied'[l] > 0

LEMMA ReachedKept ==
  ASSUME NEW a, NEW h, NEW b, NEW i, NEW s, NEW u, NEW k, World(a, h), World(b, i), h <= i,
         s \subseteq u, \A l \in 1..MaxHeight : a[l] > 0 => b[l] > 0, Reached(a, s, h, k)
  PROVE  Reached(b, u, i, k)
<1>1. MaxHeight \in Nat /\ h \in Nat /\ i \in Nat /\ i <= MaxHeight /\ k \in Nat /\ k <= h
  BY MishapAssumption DEF World, Reached
<1>2. \A l \in 1..k : l \in 1..MaxHeight
  BY <1>1
<1> QED
  BY <1>1, <1>2 DEF Reached

LEMMA TickKept ==
  ASSUME NEW a, NEW h, NEW b, NEW i, NEW s, NEW u, NEW r, World(a, h), World(b, i), h <= i,
         s \subseteq u, \A l \in 1..MaxHeight : a[l] > 0 => b[l] > 0, TickReached(a, s, h, r)
  PROVE  TickReached(b, u, i, r)
<1>1. h \in Nat /\ i \in Nat /\ r.latest \in Nat /\ r.end \in Nat
  BY MishapAssumption DEF World, TickReached, TickRecord
<1>2. \A k : Reached(a, s, h, k) => Reached(b, u, i, k)
  BY ReachedKept
<1> QED
  BY <1>1, <1>2 DEF TickReached

\* A step of one tick: the others keep what they have reached.
LEMMA OneTickStep ==
  ASSUME ClusterInv, Grows, NEW t \in RunningTicks, NEW new,
         run' = [run EXCEPT ![t] = new], TickReached(applied', skipped', height', new),
         Reached(applied', skipped', height', saved'),
         position' \in [Nodes -> Nat],
         \A n \in Nodes : Reached(applied', skipped', height', position'[n])
  PROVE  ClusterInv'
<1>1. new \in TickRecord
  BY DEF TickReached
<1>2. run' \in [RunningTicks -> TickRecord] /\ run'[t] = new
      /\ \A u \in RunningTicks \ {t} : run'[u] = run[u]
  BY <1>1 DEF ClusterInv
<1>3. \A u \in RunningTicks : TickReached(applied', skipped', height', run'[u])
  BY <1>2, TickKept DEF ClusterInv, Grows
<1> QED
  BY <1>2, <1>3 DEF ClusterInv, Grows

\* When only the tick moves, it alone is to be looked at.
LEMMA OnlyTick ==
  ASSUME ClusterInv, NEW t \in RunningTicks, NEW new,
         run' = [run EXCEPT ![t] = new], TickReached(applied, skipped, height, new),
         UNCHANGED <<height, applied, skipped, saved, position>>
  PROVE  ClusterInv'
<1>1. Grows
  BY MishapAssumption DEF ClusterInv, Grows, World
<1> QED
  BY <1>1, OneTickStep DEF ClusterInv

LEMMA GrowsStep ==
  ASSUME ClusterInv, Grows, UNCHANGED <<saved, position, run>>
  PROVE  ClusterInv'
<1>1. Reached(applied', skipped', height', saved)
  BY ReachedKept DEF ClusterInv, Grows
<1>2. \A n \in Nodes : Reached(applied', skipped', height', position[n])
  BY ReachedKept DEF ClusterInv, Grows
<1>3. \A t \in RunningTicks : TickReached(applied', skipped', height', run[t])
  BY TickKept DEF ClusterInv, Grows
<1> QED
  BY <1>1, <1>2, <1>3 DEF ClusterInv, Grows

LEMMA TickFacts ==
  ASSUME TicksOnNodes, ClusterInv, NEW t \in RunningTicks
  PROVE  /\ TickReached(applied, skipped, height, run[t]) /\ run[t] \in TickRecord
         /\ run[t].latest \in Nat /\ run[t].from \in Nat /\ run[t].end \in Nat
         /\ run[t].next \in Nat /\ height \in Nat /\ height <= MaxHeight /\ MaxHeight \in Nat
         /\ run[t].latest <= height
         /\ Here(t) \in Nat /\ Here(t) <= height /\ NodeOf[t] \in Nodes
         /\ Reached(applied, skipped, height, Here(t))
<1>1. NodeOf[t] \in Nodes
  BY DEF TicksOnNodes
<1>2. Reached(applied, skipped, height, Here(t)) /\ Here(t) \in Nat
  BY <1>1 DEF ClusterInv, Here
<1>3. height \in Nat /\ height <= MaxHeight
  BY MishapAssumption DEF ClusterInv, World
<1>4. TickReached(applied, skipped, height, run[t])
  BY DEF ClusterInv
<1> QED
  BY <1>1, <1>2, <1>3, <1>4, MishapAssumption DEF TickReached, TickRecord, Reached

-----------------------------------------------------------------------------
(* The steps of a tick. *)

\* A tick that only goes on to a step with nothing behind it.
LEMMA QuietTick ==
  ASSUME TicksOnNodes, ClusterInv, NEW t \in RunningTicks, NEW step, NEW latest \in Nat,
         step \in {"stopped", "locked", "looping", "ending"}, latest <= height,
         run' = [run EXCEPT ![t] = [run[t] EXCEPT !.at = step, !.latest = latest]],
         UNCHANGED <<height, applied, skipped, saved, position>>
  PROVE  ClusterInv'
<1> DEFINE new == [run[t] EXCEPT !.at = step, !.latest = latest]
<1>1. new \in TickRecord /\ new.at = step /\ new.latest = latest
  BY TickFacts DEF TickRecord
<1>2. TickReached(applied, skipped, height, new)
  BY <1>1 DEF TickReached
<1>3. run' = [run EXCEPT ![t] = new]
  OBVIOUS
<1> HIDE DEF new
<1> QED
  BY <1>2, <1>3, OnlyTick

LEMMA StartStep ==
  ASSUME TicksOnNodes, ClusterInv, NEW t \in RunningTicks,
         StartTick(t) \/ ReadLatest(t)
  PROVE  ClusterInv'
<1>1. CASE StartTick(t)
  <2>1. run' = [run EXCEPT ![t] = [run[t] EXCEPT !.at = "locked", !.latest = run[t].latest]]
    BY <1>1, TickFacts DEF StartTick, ClusterInv, TickRecord
  <2> QED
    BY <1>1, <2>1, TickFacts, QuietTick DEF StartTick
<1>2. CASE ReadLatest(t)
  <2> DEFINE step == IF UpToDate(t) THEN "ending" ELSE "looping"
  <2>1. run' = [run EXCEPT ![t] = [run[t] EXCEPT !.at = step, !.latest = height]]
    BY <1>2, TickFacts DEF ReadLatest, ClusterInv, TickRecord
  <2>2. step \in {"stopped", "locked", "looping", "ending"}
    OBVIOUS
  <2>3. height \in Nat /\ height <= height
    BY TickFacts
  <2>4. UNCHANGED <<height, applied, skipped, saved, position>>
    BY <1>2 DEF ReadLatest
  <2> HIDE DEF step
  <2> QED
    BY <2>1, <2>2, <2>3, <2>4, QuietTick
<1> QED
  BY <1>1, <1>2

LEMMA BatchBounds ==
  ASSUME TicksOnNodes, ClusterInv, NEW t \in RunningTicks, Here(t) < run[t].latest
  PROVE  /\ BatchOf(t)[1] = Here(t) + 1
         /\ BatchOf(t)[2] \in Nat /\ BatchOf(t)[2] <= height
         /\ BatchOf(t)[2] >= Here(t)
<1>1. Here(t) + BATCH_SIZE \in Nat /\ Here(t) + BATCH_SIZE > Here(t)
  BY TickFacts, BatchAssumption
<1>2. LET m == Min({Here(t) + BATCH_SIZE, run[t].latest})
      IN m \in {Here(t) + BATCH_SIZE, run[t].latest} /\ m <= run[t].latest
  BY <1>1, TickFacts, MinOfTwo
<1> QED
  BY <1>1, <1>2, TickFacts DEF BatchOf

LEMMA LockBatchStep ==
  ASSUME TicksOnNodes, ClusterInv, NEW t \in RunningTicks, LockBatch(t)
  PROVE  ClusterInv'
<1> DEFINE from == BatchOf(t)[1]
           end == BatchOf(t)[2]
           new == [run[t] EXCEPT !.at = "batch", !.from = from, !.end = end]
<1>1. from = Here(t) + 1 /\ from \in Nat /\ end \in Nat /\ end <= height
  BY TickFacts, BatchBounds DEF LockBatch
<1>2. run' = [run EXCEPT ![t] = new]
  BY DEF LockBatch
<1> HIDE DEF from, end
<1>3. new \in TickRecord /\ new.at = "batch" /\ new.from = from /\ new.end = end
      /\ new.latest = run[t].latest
  BY <1>1, TickFacts DEF TickRecord
<1>4. from - 1 = Here(t) /\ from >= 1
  BY <1>1, TickFacts
<1>5. TickReached(applied, skipped, height, new)
  BY <1>1, <1>3, <1>4, TickFacts DEF TickReached
<1> HIDE DEF new
<1> QED
  BY <1>2, <1>5, OnlyTick DEF LockBatch

\* The cursor passes the refused batch, whose ledgers are marked as skipped.
LEMMA SkipStep ==
  ASSUME TicksOnNodes, ClusterInv, NEW t \in RunningTicks, SkipBatch(t)
  PROVE  ClusterInv'
<1> DEFINE end == BatchOf(t)[2]
           new == [run[t] EXCEPT !.at = "saving", !.end = end]
<1>1. end \in Nat /\ end <= height /\ BatchOf(t)[1] = Here(t) + 1
  BY BatchBounds DEF SkipBatch
<1>2. skipped' = skipped \cup BatchOf(t)[1]..end /\ UNCHANGED <<height, applied, saved>>
      /\ position' = [position EXCEPT ![NodeOf[t]] = end] /\ run' = [run EXCEPT ![t] = new]
  BY DEF SkipBatch
<1> HIDE DEF end
<1>3. Grows
  BY <1>2, MishapAssumption DEF ClusterInv, Grows, World
<1>4. Reached(applied', skipped', height', end)
  <2>1. ASSUME NEW l \in 1..end PROVE applied[l] > 0 \/ l \in skipped'
    <3>1. CASE l <= Here(t)
      BY <1>2, <2>1, <3>1, TickFacts DEF Reached
    <3>2. CASE l > Here(t)
      BY <1>1, <1>2, <2>1, <3>2, TickFacts
    <3> QED
      BY <3>1, <3>2, <2>1, <1>1, TickFacts
  <2> QED
    BY <1>1, <1>2, <2>1, TickFacts DEF Reached
<1>5. new \in TickRecord /\ new.at = "saving" /\ new.end = end /\ new.latest = run[t].latest
  BY <1>1, TickFacts DEF TickRecord
<1>6. TickReached(applied', skipped', height', new)
  BY <1>2, <1>4, <1>5, TickFacts DEF TickReached
<1>7. position' \in [Nodes -> Nat]
      /\ \A n \in Nodes : position'[n] = IF n = NodeOf[t] THEN end ELSE position[n]
  BY <1>1, <1>2 DEF ClusterInv
<1>8. /\ Reached(applied', skipped', height', saved')
      /\ \A n \in Nodes : Reached(applied', skipped', height', position[n])
  BY <1>2, <1>3, ReachedKept DEF ClusterInv, Grows
<1>9. \A n \in Nodes : Reached(applied', skipped', height', position'[n])
  BY <1>4, <1>7, <1>8
<1> HIDE DEF new
<1> QED
  BY <1>2, <1>3, <1>6, <1>7, <1>8, <1>9, OneTickStep

LEMMA GetEventsStep ==
  ASSUME TicksOnNodes, ClusterInv, NEW t \in RunningTicks, GetEvents(t)
  PROVE  ClusterInv'
<1> DEFINE new == [run[t] EXCEPT !.at = "indexing", !.next = run[t].from]
<1>1. new \in TickRecord /\ new.at = "indexing" /\ new.from = run[t].from
      /\ new.end = run[t].end /\ new.latest = run[t].latest /\ new.next = run[t].from
  BY TickFacts DEF TickRecord
<1>2. TickReached(applied, skipped, height, new)
  BY <1>1, TickFacts DEF GetEvents, TickReached
<1>3. run' = [run EXCEPT ![t] = new]
  BY DEF GetEvents
<1> HIDE DEF new
<1> QED
  BY <1>2, <1>3, OnlyTick DEF GetEvents

LEMMA ApplyStep ==
  ASSUME TicksOnNodes, ClusterInv, NEW t \in RunningTicks, ApplyEvent(t)
  PROVE  ClusterInv'
<1> DEFINE l == run[t].next
           new == [run[t] EXCEPT !.next = l + 1]
<1>1. l \in 1..MaxHeight /\ l <= height
  BY TickFacts DEF ApplyEvent, TickReached
<1>2. applied' = [applied EXCEPT ![l] = Min({2, applied[l] + 1})]
      /\ UNCHANGED <<height, skipped, saved, position>> /\ run' = [run EXCEPT ![t] = new]
  BY DEF ApplyEvent
<1>3. Min({2, applied[l] + 1}) \in Nat \ {0}
  <2>1. applied[l] \in Nat
    BY <1>1 DEF ClusterInv, World
  <2> QED
    BY <2>1, MinOfTwo
<1> HIDE DEF l
<1>4. Grows
  <2>1. applied' \in [1..MaxHeight -> Nat]
    BY <1>2, <1>3 DEF ClusterInv, World
  <2>2. \A k \in 1..MaxHeight : applied'[k] = applied[k] \/ applied'[k] > 0
    BY <1>2, <1>3 DEF ClusterInv, World
  <2>3. World(applied', height')
    BY <1>2, <2>1 DEF ClusterInv, World
  <2>4. height <= height' /\ skipped \subseteq skipped'
    BY <1>2, TickFacts
  <2> QED
    BY <2>2, <2>3, <2>4 DEF Grows
<1>5. applied'[l] > 0
  BY <1>1, <1>2, <1>3 DEF ClusterInv, World
<1>6. new \in TickRecord /\ new.at = run[t].at /\ new.from = run[t].from
      /\ new.end = run[t].end /\ new.latest = run[t].latest /\ new.next = l + 1
  BY <1>1, TickFacts DEF TickRecord
<1>7. TickReached(applied', skipped', height', run[t])
  BY <1>4, TickFacts, TickKept DEF ClusterInv, Grows
<1>8. Reached(applied', skipped', height', l)
  <2>1. Reached(applied', skipped', height', l - 1)
    BY <1>7 DEF ApplyEvent, TickReached, l
  <2>2. \A k \in 1..l : k = l \/ k \in 1..(l - 1)
    BY <1>1
  <2>3. l \in 0..height'
    BY <1>1, <1>2, TickFacts
  <2> QED
    BY <1>5, <2>1, <2>2, <2>3 DEF Reached
<1>9. TickReached(applied', skipped', height', new)
  <2>1. l + 1 >= 1 /\ (l + 1) - 1 = l
    BY <1>1
  <2>2. run[t].at = "indexing"
    BY DEF ApplyEvent
  <2> HIDE DEF new
  <2> QED
    BY <1>6, <1>7, <1>8, <2>1, <2>2 DEF TickReached
<1>10. /\ Reached(applied', skipped', height', saved)
       /\ \A n \in Nodes : Reached(applied', skipped', height', position[n])
  BY <1>4, ReachedKept DEF ClusterInv, Grows
<1>11. position' \in [Nodes -> Nat]
  BY <1>2 DEF ClusterInv
<1> HIDE DEF new
<1> QED
  BY <1>2, <1>4, <1>9, <1>10, <1>11, OneTickStep

LEMMA FinishBatchStep ==
  ASSUME TicksOnNodes, ClusterInv, NEW t \in RunningTicks, FinishBatch(t)
  PROVE  ClusterInv'
<1> DEFINE end == run[t].end
           new == [run[t] EXCEPT !.at = "saving"]
<1>1. run[t].at = "indexing" /\ run[t].next > end /\ end \in Nat /\ end <= height
      /\ run[t].next >= 1
  BY TickFacts DEF FinishBatch, TickReached
<1>2. UNCHANGED <<height, applied, skipped, saved>> /\ run' = [run EXCEPT ![t] = new]
      /\ position' = [position EXCEPT ![NodeOf[t]] = end]
  BY DEF FinishBatch
<1>3. Reached(applied, skipped, height, end)
  <2>1. Reached(applied, skipped, height, run[t].next - 1)
    BY <1>1, TickFacts DEF TickReached
  <2>2. \A k \in 1..end : k \in 1..(run[t].next - 1)
    BY <1>1, TickFacts
  <2> QED
    BY <1>1, <2>1, <2>2, TickFacts DEF Reached
<1> HIDE DEF end
<1>4. new \in TickRecord /\ new.at = "saving" /\ new.end = end /\ new.latest = run[t].latest
  BY TickFacts DEF TickRecord, end
<1>5. TickReached(applied, skipped, height, new)
  BY <1>3, <1>4, TickFacts DEF TickReached
<1>6. position' \in [Nodes -> Nat]
      /\ \A n \in Nodes : position'[n] = IF n = NodeOf[t] THEN end ELSE position[n]
  BY <1>1, <1>2 DEF ClusterInv
<1>7. Grows
  BY <1>2, MishapAssumption DEF ClusterInv, Grows, World
<1>8. \A n \in Nodes : Reached(applied', skipped', height', position'[n])
  BY <1>2, <1>3, <1>6 DEF ClusterInv
<1>9. Reached(applied', skipped', height', saved')
  BY <1>2 DEF ClusterInv
<1> HIDE DEF new
<1> QED
  BY <1>2, <1>5, <1>6, <1>7, <1>8, <1>9, OneTickStep

LEMMA SaveStep ==
  ASSUME TicksOnNodes, ClusterInv, NEW t \in RunningTicks, SaveCursor(t)
  PROVE  ClusterInv'
<1> DEFINE step == IF Here(t) < run[t].latest THEN "looping" ELSE "ending"
           new == [run[t] EXCEPT !.at = step]
<1>1. run' = [run EXCEPT ![t] = new] /\ saved' = run[t].end
      /\ UNCHANGED <<height, applied, skipped, position>>
  BY DEF SaveCursor
<1>2. step \in {"looping", "ending"}
  OBVIOUS
<1> HIDE DEF step
<1>3. new \in TickRecord /\ new.at = step /\ new.latest = run[t].latest
  BY <1>2, TickFacts DEF TickRecord
<1>4. TickReached(applied, skipped, height, new)
  BY <1>2, <1>3, TickFacts DEF TickReached
<1>5. Reached(applied', skipped', height', saved')
  BY <1>1, TickFacts DEF SaveCursor, TickReached
<1>6. Grows
  BY <1>1, MishapAssumption DEF ClusterInv, Grows, World
<1> HIDE DEF new
<1> QED
  BY <1>1, <1>4, <1>5, <1>6, OneTickStep DEF ClusterInv

LEMMA FailStep ==
  ASSUME TicksOnNodes, ClusterInv, NEW t \in RunningTicks, TickFails(t)
  PROVE  ClusterInv'
<1>1. run' = [run EXCEPT ![t] = [run[t] EXCEPT !.at = "ending", !.latest = run[t].latest]]
  BY TickFacts DEF TickFails, ClusterInv, TickRecord
<1>2. UNCHANGED <<height, applied, skipped, saved, position>>
  BY DEF TickFails, AfterError, KeptPosition
<1> QED
  BY <1>1, <1>2, TickFacts, QuietTick

LEMMA EndStep ==
  ASSUME TicksOnNodes, ClusterInv, NEW t \in RunningTicks, EndTick(t)
  PROVE  ClusterInv'
<1>1. Stopped \in TickRecord /\ Stopped.at = "stopped" /\ Stopped.latest = 0
  BY DEF Stopped, TickRecord
<1>2. TickReached(applied, skipped, height, Stopped)
  BY <1>1, TickFacts DEF TickReached
<1> QED
  BY <1>2, OnlyTick DEF EndTick

LEMMA RestartStep ==
  ASSUME ClusterInv, NEW n \in Nodes, RestartNode(n)
  PROVE  ClusterInv'
<1>1. Stopped \in TickRecord /\ Stopped.at = "stopped" /\ Stopped.latest = 0
  BY DEF Stopped, TickRecord
<1>2. height \in Nat /\ saved \in Nat
  BY MishapAssumption DEF ClusterInv, World, Reached
<1>3. TickReached(applied, skipped, height, Stopped)
  BY <1>1, <1>2 DEF TickReached
<1>4. UNCHANGED <<height, applied, skipped, saved>>
  BY DEF RestartNode
<1>5. \A t \in RunningTicks : run'[t] \in TickRecord
                              /\ TickReached(applied, skipped, height, run'[t])
  BY <1>1, <1>3 DEF RestartNode, ClusterInv
<1>6. run' \in [RunningTicks -> TickRecord]
  BY <1>5 DEF RestartNode
<1>7. position' \in [Nodes -> Nat] /\ \A m \in Nodes : position'[m] \in {saved, position[m]}
  BY <1>2 DEF RestartNode, ClusterInv
<1>8. \A m \in Nodes : Reached(applied, skipped, height, position'[m])
  BY <1>7 DEF ClusterInv
<1> QED
  BY <1>4, <1>5, <1>6, <1>7, <1>8 DEF ClusterInv

LEMMA ClusterStepKeeps ==
  ASSUME TicksOnNodes, ClusterInv, [ClusterNext]_allClusterVars
  PROVE  ClusterInv'
<1>1. CASE NextLedger
  <2>1. Grows
    BY <1>1, MishapAssumption DEF NextLedger, ClusterInv, Grows, World
  <2> QED
    BY <1>1, <2>1, GrowsStep DEF NextLedger
<1>2. CASE LockRunsOut \/ UNCHANGED allClusterVars
  BY <1>2 DEF LockRunsOut, allClusterVars, clusterVars, ClusterInv
<1>3. ASSUME NEW n \in Nodes, RestartNode(n) PROVE ClusterInv'
  BY <1>3, RestartStep
<1>4. ASSUME NEW t \in RunningTicks, ClusterStep(t) \/ TickFails(t) PROVE ClusterInv'
  BY <1>4, StartStep, LockBatchStep, SkipStep, GetEventsStep, ApplyStep, FinishBatchStep,
     SaveStep, EndStep, FailStep DEF ClusterStep
<1> QED
  BY <1>1, <1>2, <1>3, <1>4 DEF ClusterNext

LEMMA ClusterStart ==
  ASSUME TicksOnNodes, ClusterInit
  PROVE  ClusterInv
<1>1. Stopped \in TickRecord /\ Stopped.at = "stopped" /\ Stopped.latest = 0
  BY DEF Stopped, TickRecord
<1>2. World(applied, height) /\ Reached(applied, skipped, height, 0)
  BY MishapAssumption DEF ClusterInit, World, Reached
<1>3. TickReached(applied, skipped, height, Stopped)
  BY <1>1 DEF TickReached, ClusterInit
<1> QED
  BY <1>1, <1>2, <1>3 DEF ClusterInv, ClusterInit

(* The cursor is saved after every batch, also by a node that has taken over *)
(* with an older one: every ledger up to it has been applied, or belongs to  *)
(* a batch whose lock was refused.                                           *)
THEOREM NothingBelowSavedIsLost ==
  ASSUME TicksOnNodes
  PROVE  ClusterSpec => []SavedIsAppliedOrSkipped
<1>1. ClusterInv => SavedIsAppliedOrSkipped
  BY DEF ClusterInv, Reached, SavedIsAppliedOrSkipped
<1> QED
  BY <1>1, ClusterStart, ClusterStepKeeps, PTL DEF ClusterSpec

-----------------------------------------------------------------------------
(* The locks. *)

LockInv == LockTypeOK /\ run \in [RunningTicks -> TickRecord]

LEMMA AcquireTyped ==
  ASSUME LockTypeOK, NEW k, NEW t \in Tokens, Acquire(k, t)
  PROVE  LockTypeOK' /\ \A j \in Keys : owner[j] # None => owner'[j] = owner[j]
  BY DEF LockTypeOK, Acquire, Free

LEMMA ReleaseTyped ==
  ASSUME LockTypeOK, NEW k, NEW t, Release(k, t)
  PROVE  LockTypeOK' /\ \A j \in Keys : owner[j] # t => owner'[j] = owner[j]
  BY DEF LockTypeOK, Release, CompareAndDelete

\* What a step of a tick does to the locks: it takes free ones, and frees its own.
LEMMA TickOnLocks ==
  ASSUME TicksOnNodes, LockInv, NEW t \in RunningTicks, ClusterStep(t) \/ TickFails(t)
  PROVE  /\ LockTypeOK'
         /\ \A j \in Keys : owner[j] \notin {None, t} => owner'[j] = owner[j]
         /\ \A j \in Keys : owner[j] = t /\ owner'[j] # t => run'[t] # run[t]
<1>0. t \in Tokens /\ t # None
  BY NoneAssumption DEF TicksOnNodes
<1>1. CASE StartTick(t)
  BY <1>0, <1>1, AcquireTyped DEF StartTick, LockInv
<1>2. CASE LockBatch(t)
  BY <1>0, <1>2, AcquireTyped DEF LockBatch, LockInv
<1>3. CASE FinishBatch(t)
  <2>1. run'[t].at # run[t].at
    BY <1>3 DEF FinishBatch, LockInv, TickRecord
  <2> QED
    BY <1>3, <2>1, ReleaseTyped DEF FinishBatch, LockInv
<1>4. CASE EndTick(t)
  <2>1. run'[t].at # run[t].at
    BY <1>4 DEF EndTick, LockInv, TickRecord, Stopped
  <2> QED
    BY <1>4, <2>1, ReleaseTyped DEF EndTick, LockInv
<1>5. CASE TickFails(t)
  <2>1. CASE UNCHANGED owner
    BY <2>1 DEF LockInv, LockTypeOK
  <2>2. CASE run[t].at \in {"batch", "indexing"} /\ Release(Held(t), t)
    <3>1. run'[t].at # run[t].at
      BY <1>5, <2>2 DEF TickFails, LockInv, TickRecord
    <3> QED
      BY <2>2, <3>1, ReleaseTyped DEF LockInv
  <2> QED
    BY <1>5, <2>1, <2>2 DEF TickFails
<1>6. CASE ReadLatest(t) \/ SkipBatch(t) \/ GetEvents(t) \/ ApplyEvent(t) \/ SaveCursor(t)
  BY <1>6 DEF ReadLatest, SkipBatch, GetEvents, ApplyEvent, SaveCursor, LockInv, LockTypeOK
<1> QED
  BY <1>1, <1>2, <1>3, <1>4, <1>5, <1>6 DEF ClusterStep

LEMMA TickRunTyped ==
  ASSUME TicksOnNodes, ClusterInv', LockTypeOK'
  PROVE  LockInv'
  BY DEF ClusterInv, LockInv

LEMMA LocksStep ==
  ASSUME TicksOnNodes, LockInv, ClusterInv', [ClusterNext]_allClusterVars
  PROVE  LockInv'
<1>1. CASE LockRunsOut
  BY <1>1 DEF LockRunsOut, Expire, clusterVars, LockInv, LockTypeOK
<1>2. ASSUME NEW t \in RunningTicks, ClusterStep(t) \/ TickFails(t) PROVE LockInv'
  BY <1>2, TickOnLocks, TickRunTyped
<1>3. CASE NextLedger \/ UNCHANGED allClusterVars \/ \E n \in Nodes : RestartNode(n)
  BY <1>3, TickRunTyped
     DEF NextLedger, RestartNode, allClusterVars, clusterVars, LockInv, LockTypeOK
<1> QED
  BY <1>1, <1>2, <1>3 DEF ClusterNext

LEMMA OwnerStep ==
  ASSUME TicksOnNodes, LockInv, [ClusterNext]_allClusterVars,
         NEW k \in Keys, NEW u \in Tokens, owner[k] = u, owner'[k] # u
  PROVE  run'[u] # run[u] \/ UNCHANGED run
<1>1. CASE LockRunsOut \/ NextLedger \/ UNCHANGED allClusterVars
  BY <1>1 DEF LockRunsOut, NextLedger, allClusterVars, clusterVars
<1>2. ASSUME NEW t \in RunningTicks, ClusterStep(t) \/ TickFails(t)
      PROVE  run'[u] # run[u]
  <2>1. u = t
    BY <1>2, TickOnLocks, NoneAssumption
  <2> QED
    BY <1>2, <2>1, TickOnLocks
<1>3. CASE \E n \in Nodes : RestartNode(n)
  BY <1>3 DEF RestartNode
<1> QED
  BY <1>1, <1>2, <1>3 DEF ClusterNext

(* The compare-and-delete of lockManager.js:32: a lock leaves its owner in a *)
(* step of the owner or by running out, so a tick that has lost its lock to   *)
(* the time limit cannot free the lock of the next owner.                     *)
THEOREM OnlyOwnersRelease ==
  ASSUME TicksOnNodes
  PROVE  ClusterSpec => OwnerReleases
<1>1. ClusterInit => LockInv
  <2>1. Stopped \in TickRecord
    BY DEF Stopped, TickRecord
  <2> QED
    BY <2>1 DEF ClusterInit, LockInit, LockInv, LockTypeOK
<1>2. LockInv /\ [ClusterNext]_allClusterVars
        => [\A k \in Keys, t \in Tokens :
              owner[k] = t /\ owner'[k] # t => run'[t] # run[t] \/ UNCHANGED run]_allClusterVars
  BY OwnerStep
<1> QED
  BY <1>1, <1>2, LocksStep, ClusterStart, ClusterStepKeeps, PTL DEF ClusterSpec, OwnerReleases
=============================================================================
