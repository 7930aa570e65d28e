--------------------------- MODULE ResponseCache ---------------------------
(***************************************************************************)
(* The response cache of the API: one cached GET route, the row behind it  *)
(* and the tag that mutating routes invalidate.  The service keeps entries *)
(* in Redis while it is connected and in the process's memory otherwise,   *)
(* and asks which one at every call.  Readers and writers interleave at    *)
(* every await.                                                            *)
(***************************************************************************)
EXTENDS Integers

CONSTANTS
  Readers, Writers,   \* requests in progress: GET, and a mutation of the row
  MaxVersion,         \* bound: mutations of the row
  MaxOutages          \* bound: failed Redis calls and lost connections

ASSUME CacheAssumption == MaxVersion \in Nat /\ MaxOutages \in Nat

Backends == {"redis", "memory"}
Nothing == -1

VARIABLES
  version,     \* version of the row in the database
  store,       \* version cached under the key, in each backend
  tagged,      \* backends whose tag set holds the key
  redisReady,
  reader,      \* per GET: step and the version it read
  writer,      \* per mutation: step and whether it found the key in the tag set
  outages

cacheVars == <<version, store, tagged, redisReady, reader, writer, outages>>

Versions == 0..MaxVersion
Entries == Versions \cup {Nothing}

CacheTypeOK ==
  /\ version \in Versions
  /\ store \in [Backends -> Entries]
  /\ tagged \subseteq Backends
  /\ redisReady \in BOOLEAN
  /\ reader \in [Readers -> [at : {"idle", "missed", "loaded", "stored"}, v : Versions]]
  /\ writer \in [Writers -> [at : {"idle", "written", "members", "deleted"}, found : BOOLEAN]]
  /\ outages \in 0..MaxOutages

NoRead == [at |-> "idle", v |-> 0]
NoWrite == [at |-> "idle", found |-> FALSE]

CacheInit ==
  /\ version = 0
  /\ store = [b \in Backends |-> Nothing]
  /\ tagged = {}
  /\ redisReady \in BOOLEAN
  /\ reader = [r \in Readers |-> NoRead]
  /\ writer = [w \in Writers |-> NoWrite]
  /\ outages = 0

Backend == IF redisReady THEN "redis" ELSE "memory"

\* A Redis call may fail; the service catches the error and goes on.
RedisCallFails == redisReady /\ outages < MaxOutages /\ outages' = outages + 1
CallWorks == UNCHANGED outages

-----------------------------------------------------------------------------
(* cacheResponse: look up, let the handler read the row, store, tag.  A GET   *)
(* that finds an entry is answered from it and changes nothing.              *)

CacheMiss(r) ==
  /\ reader[r].at = "idle"
  /\ \/ store[Backend] = Nothing /\ CallWorks
     \/ RedisCallFails
  /\ reader' = [reader EXCEPT ![r].at = "missed"]
  /\ UNCHANGED <<version, store, tagged, redisReady, writer>>

HandlerReads(r) ==
  /\ reader[r].at = "missed"
  /\ reader' = [reader EXCEPT ![r] = [at |-> "loaded", v |-> version]]
  /\ UNCHANGED <<version, store, tagged, redisReady, writer, outages>>

\* A failed redis.set falls back to the memory of the process.
SetEntry(r) ==
  /\ reader[r].at = "loaded"
  /\ \/ store' = [store EXCEPT ![Backend] = reader[r].v] /\ CallWorks
     \/ store' = [store EXCEPT !["memory"] = reader[r].v] /\ RedisCallFails
  /\ reader' = [reader EXCEPT ![r].at = "stored"]
  /\ UNCHANGED <<version, tagged, redisReady, writer>>

TagEntry(r) ==
  /\ reader[r].at = "stored"
  /\ \/ tagged' = tagged \cup {Backend} /\ CallWorks
     \/ RedisCallFails /\ UNCHANGED tagged
  /\ reader' = [reader EXCEPT ![r] = NoRead]
  /\ UNCHANGED <<version, store, redisReady, writer>>

-----------------------------------------------------------------------------
(* invalidateOn: after the response of the mutation, read the tag's members,  *)
(* delete them, delete the tag; without Redis the three are one step.         *)

HandlerWrites(w) ==
  /\ writer[w].at = "idle" /\ version < MaxVersion
  /\ version' = version + 1
  /\ writer' = [writer EXCEPT ![w].at = "written"]
  /\ UNCHANGED <<store, tagged, redisReady, reader, outages>>

ReadTag(w) ==
  /\ writer[w].at = "written" /\ redisReady
  /\ \E found \in BOOLEAN :
       /\ IF found THEN "redis" \in tagged /\ CallWorks
          ELSE RedisCallFails \/ ("redis" \notin tagged /\ CallWorks)
       /\ writer' = [writer EXCEPT ![w] = [at |-> "members", found |-> found]]
  /\ UNCHANGED <<version, store, tagged, redisReady, reader>>

DeleteEntries(w) ==
  /\ writer[w].at = "members"
  /\ \/ /\ store' = IF writer[w].found THEN [store EXCEPT !["redis"] = Nothing] ELSE store
        /\ CallWorks
     \/ writer[w].found /\ RedisCallFails /\ UNCHANGED store
  /\ writer' = [writer EXCEPT ![w].at = "deleted"]
  /\ UNCHANGED <<version, tagged, redisReady, reader>>

DeleteTag(w) ==
  /\ writer[w].at = "deleted"
  /\ \/ tagged' = tagged \ {"redis"} /\ CallWorks
     \/ RedisCallFails /\ UNCHANGED tagged
  /\ writer' = [writer EXCEPT ![w] = NoWrite]
  /\ UNCHANGED <<version, store, redisReady, reader>>

InvalidateMemory(w) ==
  /\ writer[w].at = "written" /\ ~redisReady
  /\ store' = IF "memory" \in tagged THEN [store EXCEPT !["memory"] = Nothing] ELSE store
  /\ tagged' = tagged \ {"memory"}
  /\ writer' = [writer EXCEPT ![w] = NoWrite]
  /\ UNCHANGED <<version, redisReady, reader, outages>>

-----------------------------------------------------------------------------
(* Time and Redis. *)

\* Every entry is set with a time to live, in both backends.
Expirable(b) == store[b] # Nothing
ExpirableInRedis(b) == b = "redis" /\ store[b] # Nothing
HasTTL(b) == Expirable(b)

ExpireEntry(b) ==
  /\ HasTTL(b)
  /\ store' = [store EXCEPT ![b] = Nothing]
  /\ UNCHANGED <<version, tagged, redisReady, reader, writer, outages>>

\* The tag set outlives its entries by a minute.
ExpireTag ==
  /\ "redis" \in tagged /\ store["redis"] = Nothing
  /\ tagged' = tagged \ {"redis"}
  /\ UNCHANGED <<version, store, redisReady, reader, writer, outages>>

LoseRedis ==
  /\ RedisCallFails
  /\ redisReady' = FALSE
  /\ UNCHANGED <<version, store, tagged, reader, writer>>

RedisComesBack ==
  /\ ~redisReady
  /\ redisReady' = TRUE
  /\ UNCHANGED <<version, store, tagged, reader, writer, outages>>

ReaderStep(r) == HandlerReads(r) \/ SetEntry(r) \/ TagEntry(r)
WriterStep(w) == ReadTag(w) \/ DeleteEntries(w) \/ DeleteTag(w) \/ InvalidateMemory(w)

CacheNext ==
  \/ \E r \in Readers : CacheMiss(r) \/ ReaderStep(r)
  \/ \E w \in Writers : HandlerWrites(w) \/ WriterStep(w)
  \/ \E b \in Backends : ExpireEntry(b)
  \/ ExpireTag
  \/ LoseRedis
  \/ RedisComesBack

\* Requests in progress end and entries reach the end of their life; nobody
\* has to write, read or reconnect.
CacheFairness ==
  /\ \A r \in Readers : WF_cacheVars(ReaderStep(r))
  /\ \A w \in Writers : WF_cacheVars(WriterStep(w))
  /\ \A b \in Backends : WF_cacheVars(ExpireEntry(b))

CacheSpec == CacheInit /\ [][CacheNext]_cacheVars /\ CacheFairness

-----------------------------------------------------------------------------
(* Properties. *)

(* However a GET in flight, a lost tag or an outage of Redis let an entry     *)
(* survive its invalidation: once writing stops, no backend keeps an old      *)
(* version for ever.                                                          *)
EventuallyFresh == <>[](\A b \in Backends : store[b] \in {Nothing, version})
=============================================================================
