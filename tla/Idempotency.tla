---------------------------- MODULE Idempotency ----------------------------
(***************************************************************************)
(* The Idempotency-Key middleware of one API process: the first request    *)
(* with a key runs the handler, the others are refused while it runs and   *)
(* get its response replayed afterwards, until the entry is dropped.       *)
(***************************************************************************)
EXTENDS Integers, FiniteSets

CONSTANTS
  Clients,       \* requests with the same key; each may be sent again
  Payloads,      \* request bodies, up to their fingerprint
  MaxExecutions  \* bound: handler runs

VARIABLES
  entry,         \* cache entry of the key
  http,          \* per client: its request in progress
  executions,    \* handler runs so far
  failedRuns,    \* ... without a JSON response below 500, since the entry was dropped
  performed      \* ... that took effect since then

idempotencyVars == <<entry, http, executions, failedRuns, performed>>

NoEntry == [kind |-> "none"]
InFlight(p) == [kind |-> "inFlight", hash |-> p]
Response(p) == [kind |-> "cached", hash |-> p]
NoRequest == [at |-> "none"]

IdempotencyTypeOK ==
  /\ entry \in {NoEntry} \cup {InFlight(p) : p \in Payloads} \cup {Response(p) : p \in Payloads}
  /\ http \in [Clients -> {NoRequest} \cup [at : {"handler", "flushing"}, hash : Payloads]]
  /\ executions \in 0..MaxExecutions /\ failedRuns \in Nat /\ performed \in Nat

IdempotencyInit ==
  /\ entry = NoEntry
  /\ http = [c \in Clients |-> NoRequest]
  /\ executions = 0 /\ failedRuns = 0 /\ performed = 0

\* Requests that find an entry are answered at once: 422, 409 or the replay.
Miss == entry = NoEntry
MissInFlight == entry.kind # "cached"
RunsHandler == Miss

Request(c, p) ==
  /\ http[c] = NoRequest /\ RunsHandler /\ executions < MaxExecutions
  /\ entry' = InFlight(p)
  /\ http' = [http EXCEPT ![c] = [at |-> "handler", hash |-> p]]
  /\ executions' = executions + 1
  /\ UNCHANGED <<failedRuns, performed>>

Handling(c) == http[c] # NoRequest /\ http[c].at = "handler"

\* res.json with a status below 500.
Respond(c) ==
  /\ Handling(c)
  /\ entry' = Response(http[c].hash)
  /\ http' = [http EXCEPT ![c].at = "flushing"]
  /\ performed' = performed + 1
  /\ UNCHANGED <<executions, failedRuns>>

\* res.json with a 5xx status.
RespondError(c) ==
  /\ Handling(c)
  /\ entry' = NoEntry
  /\ http' = [http EXCEPT ![c].at = "flushing"]
  /\ failedRuns' = failedRuns + 1
  /\ UNCHANGED <<executions, performed>>

\* The 'finish' event, when the response has been flushed, also of a response
\* that is not JSON: it drops the key if it is in flight, whoever put it there.
Flushed(c) ==
  /\ http[c] # NoRequest
  /\ entry' = IF entry.kind = "inFlight" THEN NoEntry ELSE entry
  /\ http' = [http EXCEPT ![c] = NoRequest]
  /\ failedRuns' = IF Handling(c) THEN failedRuns + 1 ELSE failedRuns
  /\ UNCHANGED <<executions, performed>>

\* The timer of TTL_MS, a day: no response takes that long to flush.  The timer of
\* a response that an error has dropped before is left out.
DropEntry ==
  /\ entry.kind = "cached"
  /\ \A c \in Clients : http[c] = NoRequest
  /\ entry' = NoEntry
  /\ performed' = 0 /\ failedRuns' = 0
  /\ UNCHANGED <<http, executions>>

IdempotencyNext ==
  \/ DropEntry
  \/ \E c \in Clients : \/ \E p \in Payloads : Request(c, p)
                        \/ Respond(c)
                        \/ RespondError(c)
                        \/ Flushed(c)

IdempotencySpec == IdempotencyInit /\ [][IdempotencyNext]_idempotencyVars

(* The operation behind a key takes effect once while its entry lives, unless  *)
(* a run leaves nothing to replay: its response frees the key, and so does the *)
(* late 'finish' event of every response that is being flushed at that moment, *)
(* also when another run has taken the key meanwhile.  Each such run lets in as *)
(* many repetitions as there are requests in progress, and no more.            *)
TakesEffectOnce == performed <= 1 + failedRuns * Cardinality(Clients)
=============================================================================
