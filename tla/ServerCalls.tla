---------------------------- MODULE ServerCalls ----------------------------
(***************************************************************************)
(* Calls of the viewer to the server.  Inside VS Code a request is posted  *)
(* to the extension host under a random id (jsonrpc.ts), which may be in   *)
(* use; in a browser it is a fetch.  A text of 50000 characters or more is *)
(* parsed by a pool of workers (json-worker.ts), whose answers are told    *)
(* apart by a request id too.  getTranscript needs two requests, and a     *)
(* call that fails is repeated (react-query.ts) while answers of its last  *)
(* attempt may still be under way.                                         *)
(***************************************************************************)
EXTENDS Integers, Sequences, FiniteSets

CONSTANTS Calls,      \* calls of the application
          Parts,      \* for each call the number of its requests
          Ids,        \* ids of JSON-RPC requests: 0 .. 999999
          PoolSize,   \* workers that parse
          Retries,    \* how often a call is repeated (3)
          MaxFaults   \* bound: answers that are errors, workers that fail

Assumptions ==
  /\ \A c \in Calls : Parts[c] \in Nat \ {0}
  /\ PoolSize \in Nat \ {0} /\ Retries \in Nat /\ MaxFaults \in Nat

VARIABLES proxied,        \* whether calls go through the extension host
          stage, attempt, \* of each call
          requests,       \* the transport's map of handlers, by id
          wire,           \* messages to the host and back, with what they answer
          fetched,        \* bodies that the calls have
          pending,        \* the pool's map of requests
          nextRequestId,
          work,           \* of each worker: the texts sent to it
          posted,         \* what the workers posted
          parsed,         \* values that the calls have
          value,          \* what each call returned: the promises it stems from
          shared,         \* history: calls that had an id in common with another
          faults

callVars == <<stage, attempt, value>>
netVars == <<requests, wire, shared>>
poolVars == <<pending, nextRequestId, work, posted>>
vars == <<proxied, callVars, netVars, fetched, poolVars, parsed, faults>>

Promises == {[call |-> c, attempt |-> n, part |-> p] :
               c \in Calls, n \in 0..Retries, p \in UNION {1..Parts[d] : d \in Calls}}
Outcomes == {"ok", "notFound", "busy", "broken"}
Workers == 0..PoolSize - 1
NoId == -1   \* a fetch

TypeOK ==
  /\ stage \in [Calls -> {"idle", "asked", "parsing", "waiting", "answered", "failed"}]
  /\ attempt \in [Calls -> 0..Retries]
  /\ \A r \in requests : r.id \in Ids /\ r.of \in Promises
  /\ \A r, s \in requests : r.id = s.id => r = s
  /\ \A r, s \in pending : r.requestId = s.requestId => r = s
  /\ \A f \in fetched \cup parsed : {f.of, f.data} \subseteq Promises

Init ==
  /\ proxied \in BOOLEAN
  /\ stage = [c \in Calls |-> "idle"] /\ attempt = [c \in Calls |-> 0]
  /\ requests = {} /\ wire = {} /\ fetched = {} /\ parsed = {}
  /\ pending = {} /\ nextRequestId = 0 /\ posted = {}
  /\ work = [w \in Workers |-> <<>>]
  /\ value = [c \in Calls |-> {}]
  /\ shared = {} /\ faults = 0

-----------------------------------------------------------------------------
(* A call's attempt and how it ends *)

\* The requests of one attempt: one of most endpoints, of getTranscript one for
\* the head and one for messages and events.
Requested(c, n) == {[call |-> c, attempt |-> n, part |-> p] : p \in 1..Parts[c]}
Attempt(c) == Requested(c, attempt[c])
\* Whether promise p is of an attempt that somebody still waits for.
Awaited(p) == p \in Attempt(p.call) /\ stage[p.call] \in {"asked", "parsing"}

\* defaultRetry: an ApiError whose status is final is not worth a repetition.
MayRetry(c, outcome) == attempt[c] < Retries /\ outcome # "notFound"

\* Promises ps are rejected: the calls that await them fail or wait for a retry.
Reject(ps, outcome) ==
  stage' = [c \in Calls |-> IF \E p \in ps : p.call = c /\ Awaited(p)
                            THEN IF MayRetry(c, outcome) THEN "waiting" ELSE "failed"
                            ELSE stage[c]]

-----------------------------------------------------------------------------
(* Requests: jsonrpc.ts, jsonrpc-fetch.ts, request.ts *)

\* request: whoever had one of these ids loses its handler, be it an earlier
\* request of the same call.
Handlers(ps, ids) ==
  {r \in requests : r.id \notin {ids[p.part] : p \in ps}}
    \cup {[id |-> ids[p.part], of |-> p] :
            p \in {p \in ps : \A q \in ps : ids[p.part] = ids[q.part] => q.part <= p.part}}

\* The useQuery of a page, and its retries: all requests are posted at once.
Ask(c, ids) ==
  /\ \/ stage[c] = "idle" /\ UNCHANGED attempt
     \/ stage[c] = "waiting" /\ attempt' = [attempt EXCEPT ![c] = @ + 1]
  /\ stage' = [stage EXCEPT ![c] = "asked"]
  /\ LET ps == Requested(c, attempt'[c])
         mine == {[id |-> ids[p.part], of |-> p, answer |-> "none"] : p \in ps}
         Clash(m, n) == proxied /\ m # n /\ m.id = n.id
     IN  /\ requests' = IF proxied THEN Handlers(ps, ids) ELSE requests
         /\ wire' = wire \cup mine
         /\ shared' = shared \cup
              {m.of.call : m \in {m \in wire' : \E n \in wire' : Clash(m, n)}}
  /\ UNCHANGED <<proxied, value, fetched, poolVars, parsed, faults>>

\* The host answers every request once: a status, or an error of its own.
HostAnswers(m, outcome) ==
  /\ m \in wire /\ m.answer = "none"
  /\ outcome # "ok" => faults < MaxFaults
  /\ faults' = IF outcome = "ok" THEN faults ELSE faults + 1
  /\ wire' = (wire \ {m}) \cup {[m EXCEPT !.answer = outcome]}
  /\ UNCHANGED <<proxied, callVars, requests, shared, fetched, poolVars, parsed>>

\* Who gets answer m: whoever holds its id; a fetch gets its own.
Receivers(m) == IF proxied THEN {r.of : r \in {r \in requests : r.id = m.id}} ELSE {m.of}

\* The handler of onMessage; an answer without a request is dropped.  Promise.all
\* goes on when the last of the bodies is there.
AnswerArrives(m) ==
  LET to == Receivers(m)
      now == fetched \cup {[of |-> p, data |-> m.of] : p \in to}
      All(c) == Attempt(c) \subseteq {f.of : f \in now}
  IN
  /\ m \in wire /\ m.answer # "none"
  /\ wire' = wire \ {m}
  /\ requests' = {r \in requests : r.of \notin to}
  /\ IF m.answer = "ok"
     THEN /\ fetched' = {f \in now : Awaited(f.of)}
          /\ stage' = [c \in Calls |-> IF stage[c] = "asked" /\ All(c) THEN "parsing" ELSE stage[c]]
     ELSE Reject(to, m.answer) /\ UNCHANGED fetched
  /\ UNCHANGED <<proxied, attempt, value, shared, poolVars, parsed, faults>>

-----------------------------------------------------------------------------
(* Parsing: asyncJsonParse and JsonWorkerPool *)

\* A promise gets its value; the call returns with the last of them.
Resolve(p, d) ==
  LET now == {v \in parsed : Awaited(v.of)} \cup
             (IF Awaited(p) THEN {[of |-> p, data |-> d]} ELSE {})
      All(c) == stage[c] = "parsing" /\ Attempt(c) \subseteq {v.of : v \in now}
  IN
  /\ parsed' = now
  /\ stage' = [c \in Calls |-> IF All(c) THEN "answered" ELSE stage[c]]
  /\ value' = [c \in Calls |-> IF All(c) THEN {v.data : v \in {v \in now : v.of.call = c}}
                               ELSE value[c]]

Parseable(f) == f \in fetched /\ Awaited(f.of) /\ stage[f.of.call] = "parsing"

\* A short text, or bytes that are not parsed at all.
ParseInline(f) ==
  /\ Parseable(f)
  /\ fetched' = fetched \ {f}
  /\ \/ Resolve(f.of, f.data) /\ UNCHANGED faults
     \/ /\ faults < MaxFaults /\ faults' = faults + 1
        /\ Reject({f.of}, "broken") /\ UNCHANGED <<parsed, value>>
  /\ UNCHANGED <<proxied, attempt, netVars, poolVars>>

\* The id of the next request.  (Faulty variant: that many are pending.)
CountPending == Cardinality(pending)
FreshRequestId == nextRequestId

ParseInWorker(f) ==
  LET id == FreshRequestId IN
  /\ Parseable(f)
  /\ fetched' = fetched \ {f}
  /\ nextRequestId' = nextRequestId + 1
  /\ pending' = {r \in pending : r.requestId # id} \cup {[requestId |-> id, of |-> f.of]}
  /\ work' = [work EXCEPT ![id % PoolSize] = Append(@, [requestId |-> id, data |-> f.data])]
  /\ UNCHANGED <<proxied, callVars, netVars, posted, parsed, faults>>

\* self.onmessage of a worker: it parses one text after the other.
WorkerParses(w) ==
  /\ work[w] # <<>>
  /\ work' = [work EXCEPT ![w] = Tail(@)]
  /\ \E success \in BOOLEAN :
       /\ success \/ faults < MaxFaults
       /\ faults' = IF success THEN faults ELSE faults + 1
       /\ posted' = posted \cup {[job |-> Head(work[w]), success |-> success]}
  /\ UNCHANGED <<proxied, callVars, netVars, fetched, pending, nextRequestId, parsed>>

\* handleMessage
MessageArrives(m) ==
  LET rs == {r \in pending : r.requestId = m.job.requestId} IN
  /\ m \in posted
  /\ posted' = posted \ {m}
  /\ pending' = pending \ rs
  /\ IF rs = {} THEN UNCHANGED <<parsed, callVars>>
     ELSE /\ IF m.success
             THEN \A r \in rs : Resolve(r.of, m.job.data)
             ELSE Reject({r.of : r \in rs}, "broken") /\ UNCHANGED <<parsed, value>>
          /\ UNCHANGED attempt
  /\ UNCHANGED <<proxied, netVars, fetched, nextRequestId, work, faults>>

\* handleError: an error of one worker rejects the requests of all.  The text it
\* was at is lost.  (Faulty variant: as in terminate, nobody hears of it.)
NobodyRejected == {}
AllRejected == {r.of : r \in pending}

WorkerFails(w) ==
  /\ work[w] # <<>> /\ faults < MaxFaults
  /\ faults' = faults + 1
  /\ work' = [work EXCEPT ![w] = Tail(@)]
  /\ Reject(AllRejected, "broken")
  /\ pending' = {}
  /\ UNCHANGED <<proxied, attempt, value, netVars, fetched, nextRequestId, posted, parsed>>

Next ==
  \/ \E c \in Calls :
       \E ids \in [1..Parts[c] -> IF proxied THEN Ids ELSE {NoId}] : Ask(c, ids)
  \/ \E m \in wire : AnswerArrives(m) \/ \E o \in Outcomes : HostAnswers(m, o)
  \/ \E f \in fetched : ParseInline(f) \/ ParseInWorker(f)
  \/ \E w \in Workers : WorkerParses(w) \/ WorkerFails(w)
  \/ \E m \in posted : MessageArrives(m)

Spec == Init /\ [][Next]_vars

-----------------------------------------------------------------------------
(* Properties *)

\* A call returns what the server answered to its own last attempt, however
\* answers, retries and workers overtake each other.  The one way to another's
\* answer is an id drawn twice (jsonrpc.ts:142).
OwnAnswer ==
  \A c \in Calls \ shared : stage[c] = "answered" => value[c] = Attempt(c)

\* No call is forgotten: as long as its promise is open something is under way
\* for every part of it that is missing.
UnderWay(p) ==
  \/ \E m \in wire : m.of = p
  \/ \E f \in fetched \cup parsed : f.of = p
  \/ \E r \in pending :
       /\ r.of = p
       /\ \/ \E w \in Workers : \E i \in DOMAIN work[w] : work[w][i].requestId = r.requestId
          \/ \E m \in posted : m.job.requestId = r.requestId
NoCallForgotten ==
  \A c \in Calls \ shared :
    stage[c] \in {"asked", "parsing"} => \A p \in Attempt(c) : UnderWay(p)
=============================================================================
