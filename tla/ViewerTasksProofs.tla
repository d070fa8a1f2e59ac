-------------------------- MODULE ViewerTasksProofs --------------------------
(***************************************************************************)
(* Theorems on what the user does with the viewer: calls to the server,    *)
(* for any calls with any number of requests, any ids to draw from, any    *)
(* number of workers, retries and faults; searches in a list, for any      *)
(* lists, terms and windows; pages and what is saved, for any scans,       *)
(* results and scanners; and the controls, for any columns, limits, texts  *)
(* and citations.  The last section joins them (ViewerTasks).              *)
(***************************************************************************)
EXTENDS ViewerTasks, Counting

-----------------------------------------------------------------------------
(* Calls to the server *)

Answers == Call!Outcomes \cup {"none"}
Messages == [id : CallIds \cup {Call!NoId}, of : Call!Promises, answer : Answers]
Bodies == [of : Call!Promises, data : Call!Promises]
Jobs == [requestId : Nat, data : Call!Promises]

-----------------------------------------------------------------------------
(* Promises, and the texts that the workers have *)

PartNumbers == UNION {1..Parts[d] : d \in RpcCalls}

LEMMA PromiseFields == Call!Promises = [call : RpcCalls, attempt : 0..Retries, part : PartNumbers]
<1>1. ASSUME NEW p \in [call : RpcCalls, attempt : 0..Retries, part : PartNumbers] PROVE p \in Call!Promises
  <2>1. p = [call |-> p.call, attempt |-> p.attempt, part |-> p.part]
    OBVIOUS
  <2>2. p.call \in RpcCalls /\ p.attempt \in 0..Retries /\ p.part \in PartNumbers
    OBVIOUS
  <2>3. QED
    BY <2>1, <2>2 DEF Call!Promises, PartNumbers
<1>2. Call!Promises \subseteq [call : RpcCalls, attempt : 0..Retries, part : PartNumbers]
  BY DEF Call!Promises, PartNumbers
<1>3. QED
  BY <1>1, <1>2

LEMMA RequestedAre ==
    ASSUME NEW c \in RpcCalls, NEW n \in 0..Retries
    PROVE  /\ Call!Requested(c, n) \subseteq Call!Promises
           /\ \A p \in Call!Requested(c, n) : p.call = c /\ p.attempt = n /\ p.part \in 1..Parts[c]
           /\ \A p, q \in Call!Requested(c, n) : p.part = q.part => p = q
<1>1. 1..Parts[c] \subseteq PartNumbers
  BY DEF PartNumbers
<1>2. QED
  BY <1>1, PromiseFields DEF Call!Requested

\* A worker has the text d under number n, or has posted its value.
Queued(n, d) ==
    \E w \in Call!Workers : \E i \in DOMAIN work[w] : work[w][i].requestId = n /\ work[w][i].data = d
AtHand(n, d) == Queued(n, d) \/ \E m \in posted : m.job.requestId = n /\ m.job.data = d

WorkTyped == work \in [Call!Workers -> Seq(Jobs)] /\ posted \subseteq [job : Jobs, success : BOOLEAN]

LEMMA AtHandIs ==
    ASSUME WorkTyped, NEW n, NEW d, AtHand(n, d)
    PROVE  n \in Nat /\ d \in Call!Promises
<1>1. CASE Queued(n, d)
  <2>1. PICK w \in Call!Workers : \E i \in DOMAIN work[w] : work[w][i].requestId = n /\ work[w][i].data = d
    BY <1>1 DEF Queued
  <2>2. PICK i \in DOMAIN work[w] : work[w][i].requestId = n /\ work[w][i].data = d
    BY <2>1
  <2>3. work[w] \in Seq(Jobs)
    BY DEF WorkTyped
  <2>4. work[w][i] \in Jobs
    BY <2>2, <2>3
  <2>5. QED
    BY <2>2, <2>4 DEF Jobs
<1>2. CASE \E m \in posted : m.job.requestId = n /\ m.job.data = d
  BY <1>2 DEF WorkTyped, Jobs
<1>3. QED
  BY <1>1, <1>2 DEF AtHand

LEMMA WorkGrows ==
    ASSUME WorkTyped, NEW w \in Call!Workers, NEW job \in Jobs,
           work' = [work EXCEPT ![w] = Append(@, job)], posted' = posted
    PROVE  /\ WorkTyped'
           /\ \A n, d : AtHand(n, d)' <=> AtHand(n, d) \/ (n = job.requestId /\ d = job.data)
<1>1. WorkTyped'
  BY DEF WorkTyped
<1>2. /\ work[w] \in Seq(Jobs) /\ work'[w] = Append(work[w], job)
      /\ \A v \in Call!Workers \ {w} : work'[v] = work[v]
  BY DEF WorkTyped
<1>3. /\ DOMAIN work'[w] = 1 .. Len(work[w]) + 1 /\ DOMAIN work[w] = 1 .. Len(work[w])
      /\ Len(work[w]) \in Nat
      /\ \A i \in 1 .. Len(work[w]) : work'[w][i] = work[w][i]
      /\ work'[w][Len(work[w]) + 1] = job
  BY <1>2
<1>4. ASSUME NEW n, NEW d, Queued(n, d)' PROVE Queued(n, d) \/ (n = job.requestId /\ d = job.data)
  <2>0. PICK v \in Call!Workers :
          \E i \in DOMAIN work'[v] : work'[v][i].requestId = n /\ work'[v][i].data = d
    BY <1>4 DEF Queued
  <2>1. PICK i \in DOMAIN work'[v] : work'[v][i].requestId = n /\ work'[v][i].data = d
    BY <2>0
  <2>2. CASE v # w
    BY <1>2, <2>1, <2>2 DEF Queued
  <2>3. CASE v = w
    <3>1. CASE i = Len(work[w]) + 1
      BY <1>3, <2>1, <2>3, <3>1
    <3>2. CASE i # Len(work[w]) + 1
      <4>1. i \in DOMAIN work[w]
        BY <1>3, <2>1, <2>3, <3>2
      <4>2. QED
        BY <1>3, <2>1, <2>3, <4>1 DEF Queued
    <3>3. QED
      BY <3>1, <3>2
  <2>4. QED
    BY <2>2, <2>3
<1>5. ASSUME NEW n, NEW d, Queued(n, d) PROVE Queued(n, d)'
  <2>0. PICK v \in Call!Workers :
          \E i \in DOMAIN work[v] : work[v][i].requestId = n /\ work[v][i].data = d
    BY <1>5 DEF Queued
  <2>1. PICK i \in DOMAIN work[v] : work[v][i].requestId = n /\ work[v][i].data = d
    BY <2>0
  <2>2. i \in DOMAIN work'[v] /\ work'[v][i] = work[v][i]
    BY <1>2, <1>3, <2>1
  <2>3. QED
    BY <2>1, <2>2 DEF Queued
<1>6. Queued(job.requestId, job.data)'
  <2>1. Len(work[w]) + 1 \in DOMAIN work'[w]
    BY <1>3
  <2>2. QED
    BY <1>3, <2>1 DEF Queued
<1>7. QED
  BY <1>1, <1>4, <1>5, <1>6 DEF AtHand

LEMMA WorkShrinks ==
    ASSUME WorkTyped, NEW w \in Call!Workers, work[w] # <<>>, work' = [work EXCEPT ![w] = Tail(@)]
    PROVE  /\ work' \in [Call!Workers -> Seq(Jobs)] /\ Head(work[w]) \in Jobs
           /\ Queued(Head(work[w]).requestId, Head(work[w]).data)
           /\ \A n, d : Queued(n, d)' => Queued(n, d)
           /\ \A n, d : Queued(n, d) =>
                 Queued(n, d)' \/ (n = Head(work[w]).requestId /\ d = Head(work[w]).data)
<1>1. /\ work[w] \in Seq(Jobs) /\ work'[w] = Tail(work[w])
      /\ \A v \in Call!Workers \ {w} : work'[v] = work[v]
  BY DEF WorkTyped
<1>2. /\ Len(work[w]) \in Nat \ {0} /\ DOMAIN work[w] = 1 .. Len(work[w])
      /\ Tail(work[w]) \in Seq(Jobs) /\ Len(Tail(work[w])) = Len(work[w]) - 1
      /\ DOMAIN Tail(work[w]) = 1 .. Len(work[w]) - 1
      /\ \A i \in 1 .. Len(work[w]) - 1 : Tail(work[w])[i] = work[w][i + 1]
      /\ Head(work[w]) = work[w][1]
  BY <1>1
<1>3. work' \in [Call!Workers -> Seq(Jobs)] /\ Head(work[w]) \in Jobs
  BY <1>1, <1>2 DEF WorkTyped
<1>4. Queued(Head(work[w]).requestId, Head(work[w]).data)
  <2>1. 1 \in DOMAIN work[w]
    BY <1>2
  <2>2. QED
    BY <1>2, <2>1 DEF Queued
<1>5. ASSUME NEW n, NEW d, Queued(n, d)' PROVE Queued(n, d)
  <2>0. PICK v \in Call!Workers :
          \E i \in DOMAIN work'[v] : work'[v][i].requestId = n /\ work'[v][i].data = d
    BY <1>5 DEF Queued
  <2>1. PICK i \in DOMAIN work'[v] : work'[v][i].requestId = n /\ work'[v][i].data = d
    BY <2>0
  <2>2. CASE v # w
    BY <1>1, <2>1, <2>2 DEF Queued
  <2>3. CASE v = w
    <3>1. i \in 1 .. Len(work[w]) - 1 /\ work'[v][i] = work[w][i + 1]
      BY <1>1, <1>2, <2>1, <2>3
    <3>2. i + 1 \in DOMAIN work[w]
      BY <1>2, <3>1
    <3>3. QED
      BY <2>1, <3>1, <3>2 DEF Queued
  <2>4. QED
    BY <2>2, <2>3
<1>6. ASSUME NEW n, NEW d, Queued(n, d)
      PROVE  Queued(n, d)' \/ (n = Head(work[w]).requestId /\ d = Head(work[w]).data)
  <2>0. PICK v \in Call!Workers :
          \E i \in DOMAIN work[v] : work[v][i].requestId = n /\ work[v][i].data = d
    BY <1>6 DEF Queued
  <2>1. PICK i \in DOMAIN work[v] : work[v][i].requestId = n /\ work[v][i].data = d
    BY <2>0
  <2>2. CASE v # w
    BY <1>1, <2>1, <2>2 DEF Queued
  <2>3. CASE v = w /\ i = 1
    BY <1>2, <2>1, <2>3
  <2>4. CASE v = w /\ i # 1
    <3>1. i - 1 \in 1 .. Len(work[w]) - 1 /\ (i - 1) + 1 = i
      BY <1>2, <2>1, <2>4
    <3>2. i - 1 \in DOMAIN work'[w] /\ work'[w][i - 1] = work[w][i]
      BY <1>1, <1>2, <3>1
    <3>3. QED
      BY <2>1, <2>4, <3>2 DEF Queued
  <2>5. QED
    BY <2>2, <2>3, <2>4
<1>7. QED
  BY <1>3, <1>4, <1>5, <1>6

-----------------------------------------------------------------------------
(* The invariant *)

Stages == {"idle", "asked", "parsing", "waiting", "answered", "failed"}

Typed ==
    /\ stage \in [RpcCalls -> Stages]
    /\ attempt \in [RpcCalls -> 0..Retries]
    /\ \A c \in RpcCalls : stage[c] = "waiting" => attempt[c] < Retries
    /\ netWire \subseteq Messages
    /\ requests \subseteq [id : CallIds, of : Call!Promises]
    /\ \A r, s \in requests : r.id = s.id => r = s
    /\ fetched \subseteq Bodies /\ parsed \subseteq Bodies
    /\ pending \subseteq [requestId : Nat, of : Call!Promises]
    /\ \A r, s \in pending : r.requestId = s.requestId => r = s
    /\ nextRequestId \in Nat
    /\ WorkTyped

\* A promise is asked for once: a message is of an attempt that was made.
Dated == \A m \in netWire : stage[m.of.call] # "idle" /\ m.of.attempt <= attempt[m.of.call]
OneMessage == \A m, n \in netWire : m.of = n.of => m = n

\* The messages on the wire and the handlers of the transport belong together:
\* a message of a call that has its ids for itself finds its own handler.
OwnIds == proxied => \A m, n \in netWire : m.of.call \notin shared /\ m.id = n.id => m = n
Handled == proxied => \A r \in requests : \E m \in netWire : m.id = r.id /\ m.of = r.of
Expected ==
    proxied => \A m \in netWire : m.of.call \notin shared => \E r \in requests : r.id = m.id /\ r.of = m.of
Transport == Dated /\ OneMessage /\ OwnIds /\ Handled /\ Expected

\* And so do the texts of the workers and the requests of the pool.
OwnBodies == \A f \in fetched \cup parsed : f.of.call \notin shared => f.data = f.of
Numbered ==
    /\ \A n, d : AtHand(n, d) => n < nextRequestId
    /\ \A r \in pending : r.requestId < nextRequestId
OwnJobs == \A r \in pending : r.of.call \notin shared => \A d : AtHand(r.requestId, d) => d = r.of
Pool == Numbered /\ OwnJobs

\* UnderWay, in these terms.
Sought(p) ==
    \/ \E m \in netWire : m.of = p
    \/ \E f \in fetched \cup parsed : f.of = p
    \/ \E r \in pending : r.of = p /\ \E d : AtHand(r.requestId, d)
Remembered ==
    \A c \in RpcCalls \ shared :
       stage[c] \in {"asked", "parsing"} => \A p \in Call!Attempt(c) : Sought(p)

CInv == Typed /\ Transport /\ OwnBodies /\ Pool /\ Call!OwnAnswer /\ Remembered

LEMMA CInvInit == ASSUME Call!Assumptions, Call!Init PROVE CInv
<1>1. work \in [Call!Workers -> Seq(Jobs)] /\ \A w \in Call!Workers : work[w] = <<>>
  BY DEF Call!Init
<1>2. \A n, d : ~AtHand(n, d)
  BY <1>1 DEF Call!Init, AtHand, Queued
<1>3. Typed
  BY <1>1 DEF Call!Init, Typed, WorkTyped, Stages, Call!Assumptions
<1>4. Transport
  BY DEF Call!Init, Transport, Dated, OneMessage, OwnIds, Handled, Expected
<1>5. OwnBodies /\ Pool /\ Call!OwnAnswer /\ Remembered
  BY <1>2 DEF Call!Init, OwnBodies, Pool, Numbered, OwnJobs, Call!OwnAnswer, Remembered
<1>6. QED
  BY <1>3, <1>4, <1>5 DEF CInv

-----------------------------------------------------------------------------
(* What the steps have in common *)

Open == {"asked", "parsing"}

LEMMA AttemptIs ==
    ASSUME Typed, NEW c \in RpcCalls
    PROVE  /\ Call!Attempt(c) \subseteq Call!Promises /\ \A p \in Call!Attempt(c) : p.call = c
           /\ \A p \in Call!Attempt(c) : stage[c] \in Open => Call!Awaited(p)
<1>1. attempt[c] \in 0..Retries
  BY DEF Typed
<1>2. QED
  BY <1>1, RequestedAre DEF Call!Attempt, Call!Awaited, Open

\* No handler is called for a call that is over, and none is called twice.
LEMMA RejectEnds ==
    ASSUME Typed, NEW ps, NEW o, Call!Reject(ps, o)
    PROVE  /\ stage' \in [RpcCalls -> Stages]
           /\ \A c \in RpcCalls : stage'[c] = "waiting" => attempt[c] < Retries
           /\ \A c \in RpcCalls : stage'[c] = "idle" <=> stage[c] = "idle"
           /\ \A c \in RpcCalls : stage'[c] = "answered" <=> stage[c] = "answered"
           /\ \A c \in RpcCalls : stage'[c] \in Open => stage'[c] = stage[c]
           /\ \A p \in ps : p.call \in RpcCalls /\ Call!Awaited(p) => stage'[p.call] \notin Open
<1> DEFINE Hit(c) == \E p \in ps : p.call = c /\ Call!Awaited(p)
<1>1. \A c \in RpcCalls : Hit(c) => stage[c] \in {"asked", "parsing"}
  BY DEF Call!Awaited
<1>2. \A p \in ps : Call!Awaited(p) => Hit(p.call)
  OBVIOUS
<1>3. stage' = [c \in RpcCalls |-> IF Hit(c) THEN IF Call!MayRetry(c, o) THEN "waiting" ELSE "failed"
                                ELSE stage[c]]
  BY DEF Call!Reject
<1> HIDE DEF Hit
<1>4. \A c \in RpcCalls : Call!MayRetry(c, o) => attempt[c] < Retries
  BY DEF Call!MayRetry
<1>5. QED
  BY <1>1, <1>2, <1>3, <1>4 DEF Typed, Stages, Open

\* A value reaches only the attempt it is for; the last one of its attempt
\* ends the call, with what was sent for that attempt.
LEMMA ResolveGives ==
    ASSUME Typed, OwnBodies, Call!OwnAnswer, NEW p \in Call!Promises, NEW d \in Call!Promises,
           p.call \notin shared => d = p, Call!Resolve(p, d), UNCHANGED <<attempt, shared>>
    PROVE  /\ stage' \in [RpcCalls -> Stages]
           /\ \A c \in RpcCalls : stage'[c] = "waiting" => attempt[c] < Retries
           /\ \A c \in RpcCalls : stage'[c] = "idle" <=> stage[c] = "idle"
           /\ \A c \in RpcCalls : stage'[c] \in Open => stage'[c] = stage[c]
           /\ parsed' \subseteq Bodies
           /\ \A f \in parsed' : f.of.call \notin shared => f.data = f.of
           /\ \A f \in parsed : Call!Awaited(f.of) => f \in parsed'
           /\ Call!Awaited(p) => \E f \in parsed' : f.of = p
           /\ Call!OwnAnswer'
<1> DEFINE got == [of |-> p, data |-> d]
           now == {v \in parsed : Call!Awaited(v.of)} \cup (IF Call!Awaited(p) THEN {got} ELSE {})
           All(c) == stage[c] = "parsing" /\ Call!Attempt(c) \subseteq {v.of : v \in now}
<1>1. /\ parsed' = now
      /\ stage' = [c \in RpcCalls |-> IF All(c) THEN "answered" ELSE stage[c]]
      /\ value' = [c \in RpcCalls |-> IF All(c) THEN {v.data : v \in {v \in now : v.of.call = c}}
                                   ELSE value[c]]
  BY DEF Call!Resolve
<1>2. got \in Bodies /\ got.of = p /\ got.data = d
  BY DEF Bodies
<1>3. /\ now \subseteq Bodies /\ \A v \in now : Call!Awaited(v.of)
      /\ \A v \in now : v.of.call \notin shared => v.data = v.of
  <2> HIDE DEF got
  <2>1. QED
    BY <1>2 DEF Typed, OwnBodies
<1>4. /\ \A f \in parsed : Call!Awaited(f.of) => f \in now
      /\ Call!Awaited(p) => \E f \in now : f.of = p
  BY <1>2
<1> HIDE DEF now
<1>5. ASSUME NEW c \in RpcCalls \ shared, stage'[c] = "answered" PROVE value'[c] = Call!Attempt(c)
  <2>1. CASE All(c)
    <3>1. value'[c] = {v.data : v \in {v \in now : v.of.call = c}}
      BY <1>1, <2>1
    <3>2. \A v \in now : v.of.call = c => v.data \in Call!Attempt(c)
      BY <1>3 DEF Call!Awaited
    <3>3. \A q \in Call!Attempt(c) : \E v \in now : v.of = q /\ v.of.call = c /\ v.data = q
      BY <1>3, <2>1, AttemptIs
    <3>4. QED
      BY <3>1, <3>2, <3>3
  <2>2. CASE ~All(c)
    BY <1>1, <1>5, <2>2 DEF Call!OwnAnswer
  <2>3. QED
    BY <2>1, <2>2
<1>6. Call!OwnAnswer'
  BY <1>5 DEF Call!OwnAnswer, Call!Attempt
<1> HIDE DEF All
<1>7. \A c \in RpcCalls : All(c) => stage[c] = "parsing"
  BY DEF All
<1>8. QED
  BY <1>1, <1>3, <1>4, <1>6, <1>7 DEF Typed, Stages, Open

LEMMA TransportStays ==
    ASSUME Transport, Typed, UNCHANGED <<proxied, netWire, requests, shared, attempt>>,
           \A c \in RpcCalls : stage'[c] = "idle" <=> stage[c] = "idle"
    PROVE  Transport'
<1>1. \A m \in netWire : m.of.call \in RpcCalls
  BY PromiseFields DEF Typed, Messages
<1>2. QED
  BY <1>1 DEF Transport, Dated, OneMessage, OwnIds, Handled, Expected

LEMMA PoolStays ==
    ASSUME Pool, nextRequestId' = nextRequestId, shared \subseteq shared', pending' \subseteq pending,
           \A n, d : AtHand(n, d)' => AtHand(n, d)
    PROVE  Pool'
BY DEF Pool, Numbered, OwnJobs

LEMMA AnswerStays ==
    ASSUME Call!OwnAnswer, UNCHANGED <<attempt, value>>, shared \subseteq shared',
           \A c \in RpcCalls : stage'[c] = "answered" => stage[c] = "answered"
    PROVE  Call!OwnAnswer'
BY DEF Call!OwnAnswer, Call!Attempt

LEMMA RememberedStays ==
    ASSUME Typed, Remembered, attempt' = attempt, shared \subseteq shared',
           \A c \in RpcCalls : stage'[c] \in Open => stage[c] \in Open,
           \A p \in Call!Promises : Sought(p) /\ Call!Awaited(p) /\ p.call \notin shared /\ stage'[p.call] \in Open
                                 => Sought(p)'
    PROVE  Remembered'
<1>1. \A c \in RpcCalls : Call!Attempt(c)' = Call!Attempt(c)
  BY DEF Call!Attempt
<1>2. ASSUME NEW c \in RpcCalls \ shared', stage'[c] \in Open, NEW p \in Call!Attempt(c) PROVE Sought(p)'
  <2>1. stage[c] \in Open /\ c \notin shared
    BY <1>2
  <2>2. Sought(p)
    BY <2>1 DEF Remembered, Open
  <2>3. p \in Call!Promises /\ p.call = c /\ Call!Awaited(p)
    BY <2>1, AttemptIs
  <2>4. QED
    BY <1>2, <2>1, <2>2, <2>3
<1>3. QED
  BY <1>1, <1>2 DEF Remembered, Open

\* What is sought is found again if nothing of it is taken away.
LEMMA SoughtStays ==
    ASSUME NEW p,
           \A m \in netWire : m.of = p => \E n \in netWire' : n.of = p,
           \A f \in fetched \cup parsed : f.of = p => \E g \in fetched' \cup parsed' : g.of = p,
           \A r \in pending : \A d : r.of = p /\ AtHand(r.requestId, d)
             => \/ \E s \in pending' : s.of = p /\ \E e : AtHand(s.requestId, e)'
                \/ \E g \in fetched' \cup parsed' : g.of = p,
           Sought(p)
    PROVE  Sought(p)'
BY DEF Sought

-----------------------------------------------------------------------------
(* The steps *)

LEMMA AnsweredIs ==
    ASSUME NEW m \in Messages, NEW o \in Call!Outcomes
    PROVE  LET a == [m EXCEPT !.answer = o] IN a \in Messages /\ a.id = m.id /\ a.of = m.of
<1>1. o \in Answers
  BY DEF Answers
<1>2. QED
  BY <1>1 DEF Messages

LEMMA HostAnswersKeeps ==
    ASSUME CInv, NEW m \in netWire, NEW o \in Call!Outcomes, Call!HostAnswers(m, o)
    PROVE  CInv'
<1>1. /\ Typed /\ Transport /\ OwnBodies /\ Pool /\ Call!OwnAnswer /\ Remembered
      /\ netWire \subseteq Messages
  BY DEF CInv, Typed
<1>2. PICK a \in Messages : a = [m EXCEPT !.answer = o] /\ a.id = m.id /\ a.of = m.of
  BY <1>1, AnsweredIs
<1>3. /\ netWire' = (netWire \ {m}) \cup {a}
      /\ UNCHANGED <<proxied, stage, attempt, value, requests, shared, fetched, pending,
                     nextRequestId, work, posted, parsed>>
  BY <1>2 DEF Call!HostAnswers, Call!callVars, Call!poolVars
<1>4. Typed'
  BY <1>1, <1>2, <1>3 DEF Typed, WorkTyped
<1>5. Transport'
  \* The answer is in the place of the request.
  <2>1. /\ \A n \in netWire : \E k \in netWire' : k.id = n.id /\ k.of = n.of
        /\ \A n \in netWire' : \E k \in netWire : /\ k.id = n.id /\ k.of = n.of
                                            /\ n = IF k = m THEN a ELSE k
    BY <1>2, <1>3
  <2>2. OneMessage' /\ OwnIds'
    <3>1. OneMessage /\ OwnIds /\ UNCHANGED <<proxied, shared>>
      BY <1>1, <1>3 DEF Transport
    <3>2. ASSUME NEW n \in netWire', NEW k \in netWire',
                 n.of = k.of \/ (proxied /\ n.of.call \notin shared /\ n.id = k.id)
          PROVE  n = k
      BY <2>1, <3>1, <3>2 DEF OneMessage, OwnIds
    <3>3. QED
      BY <3>1, <3>2 DEF OneMessage, OwnIds
  <2>3. Dated'
    BY <1>1, <1>3, <2>1 DEF Transport, Dated
  <2>4. Handled' /\ Expected'
    BY <1>1, <1>3, <2>1 DEF Transport, Handled, Expected
  <2>5. QED
    BY <2>2, <2>3, <2>4 DEF Transport
<1>6. \A n, d : AtHand(n, d)' <=> AtHand(n, d)
  BY <1>3 DEF AtHand, Queued
<1>7. OwnBodies' /\ Pool' /\ Call!OwnAnswer'
  BY <1>1, <1>3, <1>6, PoolStays, AnswerStays DEF OwnBodies
<1>8. Remembered'
  <2>1. \A p : Sought(p) => Sought(p)'
    BY <1>2, <1>3, <1>6 DEF Sought
  <2>2. QED
    BY <1>1, <1>3, <2>1, RememberedStays DEF Open
<1>9. QED
  BY <1>4, <1>5, <1>7, <1>8 DEF CInv

\* Whoever holds the id of an answer gets it: for a call with an id of its own
\* that is the promise it is for.
LEMMA ReceiversOwn ==
    ASSUME Typed, Transport, NEW m \in netWire
    PROVE  /\ Call!Receivers(m) \subseteq Call!Promises
           /\ \A p \in Call!Receivers(m) : p.call \notin shared => m.of = p
           /\ m.of.call \notin shared => m.of \in Call!Receivers(m)
<1>1. m.of \in Call!Promises /\ \A r \in requests : r.of \in Call!Promises
  BY DEF Typed, Messages
<1>2. CASE ~proxied
  BY <1>1, <1>2 DEF Call!Receivers
<1>3. CASE proxied
  <2>1. Call!Receivers(m) = {r.of : r \in {r \in requests : r.id = m.id}}
    BY <1>3 DEF Call!Receivers
  <2>2. ASSUME NEW r \in requests, r.id = m.id, r.of.call \notin shared PROVE m.of = r.of
    BY <1>3, <2>2 DEF Transport, Handled, OwnIds
  <2>3. m.of.call \notin shared => \E r \in requests : r.id = m.id /\ r.of = m.of
    BY <1>3 DEF Transport, Expected
  <2>4. QED
    BY <1>1, <2>1, <2>2, <2>3
<1>4. QED
  BY <1>2, <1>3

LEMMA AnswerArrivesKeeps ==
    ASSUME CInv, NEW m \in netWire, Call!AnswerArrives(m)
    PROVE  CInv'
<1> DEFINE to == Call!Receivers(m)
           new == {[of |-> p, data |-> m.of] : p \in to}
           now == fetched \cup new
           All(c) == Call!Attempt(c) \subseteq {f.of : f \in now}
<1>1. /\ Typed /\ Transport /\ OwnBodies /\ Pool /\ Call!OwnAnswer /\ Remembered
      /\ netWire \subseteq Messages /\ m.of \in Call!Promises
  BY DEF CInv, Typed, Messages
<1>2. /\ to \subseteq Call!Promises /\ \A p \in to : p.call \notin shared => m.of = p
      /\ m.of.call \notin shared => m.of \in to
  BY <1>1, ReceiversOwn
<1>3. /\ m.answer # "none" /\ netWire' = netWire \ {m} /\ requests' = {r \in requests : r.of \notin to}
      /\ \/ /\ fetched' = {f \in now : Call!Awaited(f.of)}
            /\ stage' = [c \in RpcCalls |-> IF stage[c] = "asked" /\ All(c) THEN "parsing" ELSE stage[c]]
         \/ Call!Reject(to, m.answer) /\ UNCHANGED fetched
      /\ UNCHANGED <<proxied, attempt, value, shared, pending, nextRequestId, work, posted, parsed>>
  BY DEF Call!AnswerArrives, Call!poolVars
<1>4. /\ new \subseteq Bodies /\ \A f \in new : f.of.call \notin shared => f.data = f.of
      /\ \A p \in to : \E f \in new : f.of = p
  <2>1. \A p \in to : [of |-> p, data |-> m.of] \in new
    OBVIOUS
  <2>2. ASSUME NEW f \in new
        PROVE  f \in Bodies /\ (f.of.call \notin shared => f.data = f.of)
    <3>1. PICK p \in to : f = [of |-> p, data |-> m.of]
      OBVIOUS
    <3>2. f.of = p /\ f.data = m.of
      BY <3>1
    <3>3. QED
      BY <1>1, <1>2, <3>1, <3>2 DEF Bodies
  <2>3. QED
    BY <2>1, <2>2
<1> HIDE DEF new, to
\* The call that the answer is for has its body, or is rejected.
<1>5. /\ stage' \in [RpcCalls -> Stages]
      /\ \A c \in RpcCalls : stage'[c] = "waiting" => attempt[c] < Retries
      /\ \A c \in RpcCalls : stage'[c] = "idle" <=> stage[c] = "idle"
      /\ \A c \in RpcCalls : stage'[c] = "answered" => stage[c] = "answered"
      /\ \A c \in RpcCalls : stage'[c] \in Open => stage[c] \in Open
      /\ fetched' \subseteq now
      /\ \A f \in fetched : Call!Awaited(f.of) => f \in fetched'
      /\ \A p \in to : Call!Awaited(p) /\ p.call \in RpcCalls /\ stage'[p.call] \in Open => \E f \in fetched' : f.of = p
  <2>1. CASE Call!Reject(to, m.answer) /\ UNCHANGED fetched
    BY <1>1, <2>1, RejectEnds
  <2>2. CASE /\ fetched' = {f \in now : Call!Awaited(f.of)}
             /\ stage' = [c \in RpcCalls |-> IF stage[c] = "asked" /\ All(c) THEN "parsing" ELSE stage[c]]
    <3>1. \A p \in to : Call!Awaited(p) => \E f \in fetched' : f.of = p
      BY <1>4, <2>2
    <3> HIDE DEF All
    <3>2. QED
      BY <1>1, <2>2, <3>1 DEF Typed, Stages, Open
  <2>3. QED
    BY <1>3, <2>1, <2>2
<1>6. Typed'
  BY <1>1, <1>3, <1>4, <1>5 DEF Typed, WorkTyped
<1>7. Transport'
  <2>1. Dated' /\ OneMessage' /\ OwnIds'
    <3>1. \A n \in netWire : n.of.call \in RpcCalls
      BY <1>1, PromiseFields DEF Messages
    <3>2. QED
      BY <1>1, <1>3, <1>5, <3>1 DEF Transport, Dated, OneMessage, OwnIds
  <2>2. Handled'
    <3>1. ASSUME proxied, NEW r \in requests, r.of \notin to PROVE r.id # m.id
      BY <3>1 DEF to, Call!Receivers
    <3>2. QED
      BY <1>1, <1>3, <3>1 DEF Transport, Handled
  <2>3. Expected'
    <3>1. ASSUME proxied, NEW n \in netWire, n # m, n.of.call \notin shared,
                 NEW r \in requests, r.id = n.id, r.of = n.of
          PROVE  r.of \notin to
      <4>1. SUFFICES ASSUME n.of \in to PROVE FALSE
        BY <3>1
      <4>2. m.of = n.of
        BY <1>2, <3>1, <4>1
      <4>3. QED
        BY <1>1, <3>1, <4>2 DEF Transport, OneMessage
    <3>2. QED
      BY <1>1, <1>3, <3>1 DEF Transport, Expected
  <2>4. QED
    BY <2>1, <2>2, <2>3 DEF Transport
<1>8. \A n, d : AtHand(n, d)' <=> AtHand(n, d)
  BY <1>3 DEF AtHand, Queued
<1>9. OwnBodies'
  BY <1>1, <1>3, <1>4, <1>5 DEF OwnBodies
<1>10. Pool' /\ Call!OwnAnswer'
  BY <1>1, <1>3, <1>5, <1>8, PoolStays, AnswerStays
<1>11. Remembered'
  <2>1. ASSUME NEW p \in Call!Promises, Sought(p), Call!Awaited(p), p.call \notin shared, stage'[p.call] \in Open
        PROVE  Sought(p)'
    <3>1. p.call \in RpcCalls
      BY PromiseFields
    <3>2. CASE m.of = p
      BY <1>2, <1>5, <2>1, <3>1, <3>2 DEF Sought
    <3>3. CASE m.of # p
      <4>1. /\ \A n \in netWire : n.of = p => n \in netWire'
            /\ \A f \in fetched \cup parsed : f.of = p => f \in fetched' \cup parsed'
        BY <1>3, <1>5, <2>1, <3>3
      <4>2. QED
        BY <1>3, <1>8, <2>1, <4>1 DEF Sought
    <3>4. QED
      BY <3>2, <3>3
  <2>2. QED
    BY <1>1, <1>3, <1>5, <2>1, RememberedStays
<1>12. QED
  BY <1>6, <1>7, <1>9, <1>10, <1>11 DEF CInv

LEMMA ParseInlineKeeps ==
    ASSUME CInv, NEW f \in fetched, Call!ParseInline(f)
    PROVE  CInv'
<1>1. /\ Typed /\ Transport /\ OwnBodies /\ Pool /\ Call!OwnAnswer /\ Remembered
      /\ f \in Bodies /\ f.of \in Call!Promises /\ f.data \in Call!Promises /\ f.of.call \in RpcCalls
      /\ f.of.call \notin shared => f.data = f.of
  BY PromiseFields DEF CInv, Typed, Bodies, OwnBodies
<1>2. /\ Call!Awaited(f.of) /\ fetched' = fetched \ {f}
      /\ \/ Call!Resolve(f.of, f.data)
         \/ Call!Reject({f.of}, "broken") /\ UNCHANGED <<parsed, value>>
      /\ UNCHANGED <<proxied, attempt, requests, netWire, shared, pending, nextRequestId, work, posted>>
  BY DEF Call!ParseInline, Call!Parseable, Call!netVars, Call!poolVars
<1>3. /\ stage' \in [RpcCalls -> Stages]
      /\ \A c \in RpcCalls : stage'[c] = "waiting" => attempt[c] < Retries
      /\ \A c \in RpcCalls : stage'[c] = "idle" <=> stage[c] = "idle"
      /\ \A c \in RpcCalls : stage'[c] \in Open => stage[c] \in Open
      /\ parsed' \subseteq Bodies
      /\ \A g \in parsed' : g.of.call \notin shared => g.data = g.of
      /\ \A g \in parsed : Call!Awaited(g.of) => g \in parsed'
      /\ stage'[f.of.call] \in Open => \E g \in parsed' : g.of = f.of
      /\ Call!OwnAnswer'
  <2>1. CASE Call!Resolve(f.of, f.data)
    <3>1. UNCHANGED <<attempt, shared>>
      BY <1>2
    <3>2. QED
      BY <1>1, <1>2, <2>1, <3>1, ResolveGives
  <2>2. CASE Call!Reject({f.of}, "broken") /\ UNCHANGED <<parsed, value>>
    <3>1. stage'[f.of.call] \notin Open
      BY <1>1, <1>2, <2>2, RejectEnds
    <3>2. Call!OwnAnswer'
      BY <1>1, <1>2, <2>2, RejectEnds, AnswerStays
    <3>3. QED
      BY <1>1, <2>2, <3>1, <3>2, RejectEnds DEF Typed, OwnBodies
  <2>3. QED
    BY <1>2, <2>1, <2>2
<1>4. Typed'
  BY <1>1, <1>2, <1>3 DEF Typed, WorkTyped
<1>5. Transport'
  BY <1>1, <1>2, <1>3, TransportStays
<1>6. \A n, d : AtHand(n, d)' <=> AtHand(n, d)
  BY <1>2 DEF AtHand, Queued
<1>7. Pool'
  BY <1>1, <1>2, <1>6, PoolStays
<1>8. OwnBodies'
  BY <1>1, <1>2, <1>3 DEF OwnBodies
<1>9. Remembered'
  <2>1. ASSUME NEW p \in Call!Promises, Sought(p), Call!Awaited(p), stage'[p.call] \in Open
        PROVE  Sought(p)'
    <3>1. \A g \in fetched \cup parsed : g.of = p => \E h \in fetched' \cup parsed' : h.of = p
      BY <1>2, <1>3, <2>1
    <3>2. QED
      BY <1>2, <1>6, <2>1, <3>1 DEF Sought
  <2>2. QED
    BY <1>1, <1>2, <1>3, <2>1, RememberedStays
<1>10. QED
  BY <1>3, <1>4, <1>5, <1>7, <1>8, <1>9 DEF CInv

\* A number is new to the workers and to the requests of the pool.
LEMMA ParseInWorkerKeeps ==
    ASSUME Call!Assumptions, CInv, NEW f \in fetched, Call!ParseInWorker(f)
    PROVE  CInv'
<1> DEFINE id == nextRequestId
           w == id % PoolSize
           job == [requestId |-> id, data |-> f.data]
           req == [requestId |-> id, of |-> f.of]
<1>1. /\ Typed /\ Transport /\ OwnBodies /\ Pool /\ Call!OwnAnswer /\ Remembered
      /\ f.of \in Call!Promises /\ f.data \in Call!Promises /\ id \in Nat /\ WorkTyped
      /\ f.of.call \notin shared => f.data = f.of
      /\ pending \subseteq [requestId : Nat, of : Call!Promises]
  BY DEF CInv, Typed, Bodies, OwnBodies
<1>2. /\ fetched' = fetched \ {f} /\ nextRequestId' = id + 1
      /\ pending' = {r \in pending : r.requestId # id} \cup {req}
      /\ work' = [work EXCEPT ![w] = Append(@, job)]
      /\ UNCHANGED <<proxied, stage, attempt, value, requests, netWire, shared, posted, parsed>>
  BY DEF Call!ParseInWorker, Call!FreshRequestId, Call!netVars, Call!callVars
<1>3. w \in Call!Workers
  <2>1. PoolSize \in Nat \ {0}
    BY DEF Call!Assumptions
  <2>2. w \in 0..PoolSize - 1
    BY <1>1, <2>1
  <2>3. QED
    BY <2>2 DEF Call!Workers
<1>4. /\ job \in Jobs /\ job.requestId = id /\ job.data = f.data
      /\ req \in [requestId : Nat, of : Call!Promises] /\ req.requestId = id /\ req.of = f.of
  BY <1>1 DEF Jobs
<1> HIDE DEF job, req
<1>5. /\ WorkTyped'
      /\ \A n, d : AtHand(n, d)' <=> AtHand(n, d) \/ (n = id /\ d = f.data)
  <2> HIDE DEF w, id
  <2>1. QED
    BY <1>1, <1>2, <1>3, <1>4, WorkGrows
<1>6. /\ \A n, d : AtHand(n, d) => n < id
      /\ \A r \in pending : r.requestId < id
  BY <1>1 DEF Pool, Numbered
<1>7. pending' = pending \cup {req}
  BY <1>1, <1>2, <1>6
<1>8. Typed'
  <2>1. /\ pending' \subseteq [requestId : Nat, of : Call!Promises]
        /\ \A r, s \in pending' : r.requestId = s.requestId => r = s
    BY <1>1, <1>4, <1>6, <1>7 DEF Typed
  <2>2. QED
    BY <1>1, <1>2, <1>5, <2>1 DEF Typed
<1>9. Transport' /\ OwnBodies' /\ Call!OwnAnswer'
  BY <1>1, <1>2, TransportStays, AnswerStays DEF OwnBodies
<1>10. Pool'
  <2>1. \A n : AtHand(id, n) => FALSE
    BY <1>1, <1>6
  <2>2. Numbered'
    <3>1. ASSUME NEW n, NEW d, AtHand(n, d)' PROVE n < id + 1
      <4>1. CASE AtHand(n, d)
        <5>1. n \in Nat
          BY <1>1, <4>1, AtHandIs
        <5>2. QED
          BY <1>1, <1>6, <4>1, <5>1
      <4>2. CASE n = id
        BY <1>1, <4>2
      <4>3. QED
        BY <1>5, <3>1, <4>1, <4>2
    <3>2. \A r \in pending' : r.requestId < id + 1
      BY <1>1, <1>4, <1>6, <1>7
    <3>3. QED
      BY <1>2, <3>1, <3>2 DEF Numbered
  <2>3. OwnJobs'
    <3>1. ASSUME NEW r \in pending', r.of.call \notin shared, NEW d, AtHand(r.requestId, d)'
          PROVE  d = r.of
      <4>1. CASE r \in pending
        <5>1. AtHand(r.requestId, d)
          BY <1>1, <1>5, <1>6, <3>1, <4>1
        <5>2. QED
          BY <1>1, <3>1, <4>1, <5>1 DEF Pool, OwnJobs
      <4>2. CASE r = req
        <5>1. d = f.data
          BY <1>4, <1>5, <2>1, <3>1, <4>2
        <5>2. QED
          BY <1>1, <1>4, <3>1, <4>2, <5>1
      <4>3. QED
        BY <1>7, <3>1, <4>1, <4>2
    <3>2. QED
      BY <1>2, <3>1 DEF OwnJobs
  <2>4. QED
    BY <2>2, <2>3 DEF Pool
<1>11. Remembered'
  <2>1. ASSUME NEW p, Sought(p) PROVE Sought(p)'
    <3>1. f.of = p => \E r \in pending' : r.of = p /\ \E d : AtHand(r.requestId, d)'
      BY <1>4, <1>5, <1>7
    <3>2. \A g \in fetched \cup parsed : g.of = p /\ f.of # p => g \in fetched' \cup parsed'
      BY <1>2
    <3>3. QED
      BY <1>2, <1>5, <1>7, <2>1, <3>1, <3>2 DEF Sought
  <2>2. QED
    BY <1>1, <1>2, <2>1, RememberedStays
<1>12. QED
  BY <1>8, <1>9, <1>10, <1>11 DEF CInv

LEMMA WorkerParsesKeeps ==
    ASSUME CInv, NEW w \in Call!Workers, Call!WorkerParses(w)
    PROVE  CInv'
<1>1. /\ Typed /\ Transport /\ OwnBodies /\ Pool /\ Call!OwnAnswer /\ Remembered /\ WorkTyped
  BY DEF CInv, Typed
<1>2. PICK success \in BOOLEAN : posted' = posted \cup {[job |-> Head(work[w]), success |-> success]}
  BY DEF Call!WorkerParses
<1>3. /\ work[w] # <<>> /\ work' = [work EXCEPT ![w] = Tail(@)]
      /\ UNCHANGED <<proxied, stage, attempt, value, requests, netWire, shared, fetched, pending,
                     nextRequestId, parsed>>
  BY DEF Call!WorkerParses, Call!callVars, Call!netVars
<1> DEFINE m == [job |-> Head(work[w]), success |-> success]
<1>4. m.job = Head(work[w]) /\ m \in [job : Jobs, success : BOOLEAN] /\ posted' = posted \cup {m}
  <2>1. Head(work[w]) \in Jobs
    BY <1>1, <1>3, WorkShrinks
  <2>2. QED
    BY <1>2, <2>1
<1> HIDE DEF m
<1>5. WorkTyped'
  BY <1>1, <1>3, <1>4, WorkShrinks DEF WorkTyped
<1>6. \A n, d : AtHand(n, d)' <=> AtHand(n, d)
  <2>1. /\ Queued(m.job.requestId, m.job.data)
        /\ \A n, d : Queued(n, d)' => Queued(n, d)
        /\ \A n, d : Queued(n, d) => Queued(n, d)' \/ (n = m.job.requestId /\ d = m.job.data)
    BY <1>1, <1>3, <1>4, WorkShrinks
  <2>2. QED
    BY <1>4, <2>1 DEF AtHand
<1>7. Typed'
  BY <1>1, <1>3, <1>5 DEF Typed
<1>8. Transport' /\ OwnBodies' /\ Call!OwnAnswer' /\ Pool'
  BY <1>1, <1>3, <1>6, TransportStays, AnswerStays, PoolStays DEF OwnBodies
<1>9. Remembered'
  <2>1. \A p : Sought(p) => Sought(p)'
    BY <1>3, <1>6 DEF Sought
  <2>2. QED
    BY <1>1, <1>3, <2>1, RememberedStays
<1>10. QED
  BY <1>7, <1>8, <1>9 DEF CInv

LEMMA WorkerFailsKeeps ==
    ASSUME CInv, NEW w \in Call!Workers, Call!WorkerFails(w)
    PROVE  CInv'
<1>1. /\ Typed /\ Transport /\ OwnBodies /\ Pool /\ Call!OwnAnswer /\ Remembered /\ WorkTyped
  BY DEF CInv, Typed
<1>2. /\ work[w] # <<>> /\ work' = [work EXCEPT ![w] = Tail(@)]
      /\ Call!Reject(Call!AllRejected, "broken") /\ pending' = {}
      /\ UNCHANGED <<proxied, attempt, value, requests, netWire, shared, fetched, nextRequestId, posted, parsed>>
  BY DEF Call!WorkerFails, Call!netVars
<1>3. /\ stage' \in [RpcCalls -> Stages]
      /\ \A c \in RpcCalls : stage'[c] = "waiting" => attempt[c] < Retries
      /\ \A c \in RpcCalls : stage'[c] = "idle" <=> stage[c] = "idle"
      /\ \A c \in RpcCalls : stage'[c] = "answered" <=> stage[c] = "answered"
      /\ \A c \in RpcCalls : stage'[c] \in Open => stage'[c] = stage[c]
      /\ \A p \in Call!AllRejected : p.call \in RpcCalls /\ Call!Awaited(p) => stage'[p.call] \notin Open
  BY <1>1, <1>2, RejectEnds
<1>4. WorkTyped' /\ \A n, d : AtHand(n, d)' => AtHand(n, d)
  BY <1>1, <1>2, WorkShrinks DEF WorkTyped, AtHand
<1>5. Typed'
  BY <1>1, <1>2, <1>3, <1>4 DEF Typed
<1>6. Transport' /\ OwnBodies' /\ Call!OwnAnswer' /\ Pool'
  BY <1>1, <1>2, <1>3, <1>4, TransportStays, AnswerStays, PoolStays DEF OwnBodies
<1>7. Remembered'
  <2>1. ASSUME NEW p \in Call!Promises, Sought(p), Call!Awaited(p), stage'[p.call] \in Open
        PROVE  Sought(p)'
    <3>1. p.call \in RpcCalls
      BY PromiseFields
    <3>2. \A r \in pending : r.of # p
      BY <1>3, <2>1, <3>1 DEF Call!AllRejected
    <3>3. QED
      BY <1>2, <2>1, <3>2 DEF Sought
  <2>2. QED
    BY <1>1, <1>2, <1>3, <2>1, RememberedStays
<1>8. QED
  BY <1>5, <1>6, <1>7 DEF CInv

\* A value that the workers have posted is for the request of its number, if
\* that is still pending.
LEMMA MessageArrivesKeeps ==
    ASSUME CInv, NEW m \in posted, Call!MessageArrives(m)
    PROVE  CInv'
<1> DEFINE n == m.job.requestId
           rs == {r \in pending : r.requestId = n}
<1>1. /\ Typed /\ Transport /\ OwnBodies /\ Pool /\ Call!OwnAnswer /\ Remembered /\ WorkTyped
      /\ pending \subseteq [requestId : Nat, of : Call!Promises] /\ m.job.data \in Call!Promises
  BY DEF CInv, Typed, WorkTyped, Jobs
<1>2. /\ posted' = posted \ {m} /\ pending' = pending \ rs
      /\ rs = {} => UNCHANGED <<parsed, stage, value>>
      /\ rs # {} => \/ \A r \in rs : Call!Resolve(r.of, m.job.data)
                    \/ Call!Reject({r.of : r \in rs}, "broken") /\ UNCHANGED <<parsed, value>>
      /\ UNCHANGED <<proxied, attempt, requests, netWire, shared, fetched, nextRequestId, work>>
  BY DEF Call!MessageArrives, Call!netVars, Call!callVars
<1>3. /\ AtHand(n, m.job.data)
      /\ \A r \in rs : r \in pending /\ r.of \in Call!Promises /\ r.of.call \in RpcCalls
                       /\ (r.of.call \notin shared => m.job.data = r.of)
  <2>1. AtHand(n, m.job.data)
    BY DEF AtHand
  <2>2. \A p \in Call!Promises : p.call \in RpcCalls
    BY PromiseFields
  <2>3. QED
    BY <1>1, <2>1, <2>2 DEF Pool, OwnJobs
<1>4. \A r, s \in rs : r = s
  BY <1>1 DEF Typed
<1>5. /\ stage' \in [RpcCalls -> Stages]
      /\ \A c \in RpcCalls : stage'[c] = "waiting" => attempt[c] < Retries
      /\ \A c \in RpcCalls : stage'[c] = "idle" <=> stage[c] = "idle"
      /\ \A c \in RpcCalls : stage'[c] \in Open => stage[c] \in Open
      /\ parsed' \subseteq Bodies
      /\ \A g \in parsed' : g.of.call \notin shared => g.data = g.of
      /\ \A g \in parsed : Call!Awaited(g.of) => g \in parsed'
      /\ \A r \in rs : Call!Awaited(r.of) /\ stage'[r.of.call] \in Open => \E g \in parsed' : g.of = r.of
      /\ Call!OwnAnswer'
  <2>1. CASE rs = {}
    <3>1. Call!OwnAnswer'
      BY <1>1, <1>2, <2>1, AnswerStays
    <3>2. QED
      BY <1>1, <1>2, <2>1, <3>1 DEF Typed, OwnBodies
  <2>2. CASE rs # {} /\ \A r \in rs : Call!Resolve(r.of, m.job.data)
    <3>1. PICK r \in rs : Call!Resolve(r.of, m.job.data)
      BY <2>2
    <3>2. UNCHANGED <<attempt, shared>>
      BY <1>2
    <3>3. \A s \in rs : s = r
      BY <1>4
    <3>4. r.of \in Call!Promises /\ (r.of.call \notin shared => m.job.data = r.of)
      BY <1>3
    <3> HIDE DEF rs
    <3>5. QED
      BY <1>1, <3>1, <3>2, <3>3, <3>4, ResolveGives
  <2>3. CASE rs # {} /\ Call!Reject({r.of : r \in rs}, "broken") /\ UNCHANGED <<parsed, value>>
    <3>1. \A r \in rs : Call!Awaited(r.of) => stage'[r.of.call] \notin Open
      BY <1>1, <1>3, <2>3, RejectEnds
    <3>2. Call!OwnAnswer'
      BY <1>1, <1>2, <2>3, RejectEnds, AnswerStays
    <3>3. /\ stage' \in [RpcCalls -> Stages]
          /\ \A c \in RpcCalls : stage'[c] = "waiting" => attempt[c] < Retries
          /\ \A c \in RpcCalls : stage'[c] = "idle" <=> stage[c] = "idle"
          /\ \A c \in RpcCalls : stage'[c] \in Open => stage[c] \in Open
      BY <1>1, <2>3, RejectEnds
    <3> HIDE DEF rs
    <3>4. QED
      BY <1>1, <2>3, <3>1, <3>2, <3>3 DEF Typed, OwnBodies
  <2>4. QED
    BY <1>2, <2>1, <2>2, <2>3
<1>6. Typed'
  <2>1. WorkTyped'
    BY <1>1, <1>2 DEF WorkTyped
  <2>2. QED
    BY <1>1, <1>2, <1>5, <2>1 DEF Typed
<1>7. Transport'
  BY <1>1, <1>2, <1>5, TransportStays
<1>8. /\ \A k, d : AtHand(k, d)' => AtHand(k, d)
      /\ \A k, d : AtHand(k, d) /\ k # n => AtHand(k, d)'
  BY <1>2 DEF AtHand, Queued
<1>9. Pool'
  BY <1>1, <1>2, <1>8, PoolStays
<1>10. OwnBodies'
  BY <1>1, <1>2, <1>5 DEF OwnBodies
<1>11. Remembered'
  <2>1. ASSUME NEW p \in Call!Promises, Sought(p), Call!Awaited(p), stage'[p.call] \in Open
        PROVE  Sought(p)'
    <3>1. \A g \in fetched \cup parsed : g.of = p => g \in fetched' \cup parsed'
      BY <1>2, <1>5, <2>1
    <3>2. \A r \in rs : r.of = p => \E g \in parsed' : g.of = p
      BY <1>5, <2>1
    <3>3. \A r \in pending \ rs : r \in pending' /\ \A d : AtHand(r.requestId, d) => AtHand(r.requestId, d)'
      BY <1>2, <1>8
    <3> HIDE DEF rs
    <3>4. QED
      BY <1>2, <2>1, <3>1, <3>2, <3>3 DEF Sought
  <2>2. QED
    BY <1>1, <1>2, <1>5, <2>1, RememberedStays
<1>12. QED
  BY <1>5, <1>6, <1>7, <1>9, <1>10, <1>11 DEF CInv

\* An attempt is new: no message under way is of its requests.  If one of the
\* ids is in use, the two calls are shared from now on.
LEMMA AskKeeps ==
    ASSUME Call!Assumptions, CInv, NEW c \in RpcCalls, NEW ids \in [1..Parts[c] -> IF proxied THEN CallIds ELSE {Call!NoId}],
           Call!Ask(c, ids)
    PROVE  CInv'
<1> DEFINE n == attempt'[c]
           ps == Call!Requested(c, n)
           mine == {[id |-> ids[p.part], of |-> p, answer |-> "none"] : p \in ps}
<1>1. /\ Typed /\ Transport /\ OwnBodies /\ Pool /\ Call!OwnAnswer /\ Remembered
      /\ stage \in [RpcCalls -> Stages] /\ attempt \in [RpcCalls -> 0..Retries]
      /\ netWire \subseteq Messages /\ \A m \in netWire : m.of \in Call!Promises /\ m.of.call \in RpcCalls
  BY PromiseFields DEF CInv, Typed, Messages
<1>2. /\ \/ stage[c] = "idle" /\ attempt' = attempt
         \/ stage[c] = "waiting" /\ attempt' = [attempt EXCEPT ![c] = @ + 1]
      /\ stage' = [stage EXCEPT ![c] = "asked"]
      /\ requests' = IF proxied THEN Call!Handlers(ps, ids) ELSE requests
      /\ netWire' = netWire \cup mine
      /\ UNCHANGED <<proxied, value, fetched, pending, nextRequestId, work, posted, parsed>>
  BY DEF Call!Ask, Call!poolVars
<1>3. /\ shared \subseteq shared'
      /\ proxied => \A k, m \in netWire' : k # m /\ k.id = m.id => k.of.call \in shared'
  BY DEF Call!Ask
<1>4. /\ attempt' \in [RpcCalls -> 0..Retries] /\ n \in 0..Retries
      /\ \A d \in RpcCalls : attempt[d] <= attempt'[d]
      /\ \A d \in RpcCalls \ {c} : attempt'[d] = attempt[d] /\ stage'[d] = stage[d]
      /\ stage[c] # "idle" => attempt[c] < n
      /\ stage'[c] = "asked"
  <2>1. CASE stage[c] = "idle" /\ attempt' = attempt
    BY <1>1, <1>2, <2>1
  <2>2. CASE stage[c] = "waiting" /\ attempt' = [attempt EXCEPT ![c] = @ + 1]
    <3>1. attempt[c] \in 0..Retries /\ attempt[c] < Retries /\ Retries \in Nat
      BY <1>1, <2>2 DEF Typed, Call!Assumptions
    <3>2. attempt[c] + 1 \in 0..Retries /\ n = attempt[c] + 1 /\ attempt[c] < n /\ attempt[c] <= n
      BY <1>1, <2>2, <3>1
    <3>3. \A d \in RpcCalls : attempt[d] \in Int /\ attempt[d] <= attempt[d]
      BY <1>1
    <3>4. QED
      BY <1>1, <1>2, <2>2, <3>2, <3>3
  <2>3. QED
    BY <1>2, <2>1, <2>2
<1> HIDE DEF n
<1>5. /\ ps \subseteq Call!Promises
      /\ \A p \in ps : p.call = c /\ p.attempt = n /\ p.part \in 1..Parts[c]
      /\ \A p, q \in ps : p.part = q.part => p = q
  BY <1>4, RequestedAre
<1> HIDE DEF ps
\* The new messages.
<1>6. /\ \A m \in mine : m \in Messages /\ m.of \in ps /\ m.id = ids[m.of.part]
      /\ \A k, m \in mine : k.of = m.of => k = m
      /\ \A p \in ps : \E m \in mine : m.of = p /\ m.id = ids[p.part]
  <2>1. ASSUME NEW p \in ps PROVE ids[p.part] \in CallIds \cup {Call!NoId}
    BY <1>5
  <2>2. ASSUME NEW m \in mine
        PROVE  /\ m \in Messages /\ m.of \in ps /\ m.id = ids[m.of.part]
               /\ m = [id |-> ids[m.of.part], of |-> m.of, answer |-> "none"]
    <3>1. PICK p \in ps : m = [id |-> ids[p.part], of |-> p, answer |-> "none"]
      OBVIOUS
    <3>2. QED
      BY <1>5, <2>1, <3>1 DEF Messages, Answers
  <2>3. \A p \in ps : [id |-> ids[p.part], of |-> p, answer |-> "none"] \in mine
    OBVIOUS
  <2> HIDE DEF mine
  <2>4. \A p \in ps : \E m \in mine : m.of = p /\ m.id = ids[p.part]
    BY <2>2, <2>3
  <2>5. QED
    BY <2>2, <2>4
<1> HIDE DEF mine
<1>7. \A m \in netWire : m.of \notin ps
  <2>1. ASSUME NEW m \in netWire, m.of \in ps PROVE FALSE
    <3>1. stage[c] # "idle" /\ m.of.attempt = n /\ n <= attempt[c]
      BY <1>1, <1>5, <2>1 DEF Transport, Dated
    <3>2. n \in Int /\ attempt[c] \in Int /\ attempt[c] < n
      BY <1>1, <1>4, <3>1
    <3>3. QED
      BY <3>1, <3>2
  <2>2. QED
    BY <2>1
\* The new handlers.
<1>8. ASSUME proxied
      PROVE  /\ requests' \subseteq [id : CallIds, of : Call!Promises]
             /\ \A r, s \in requests' : r.id = s.id => r = s
             /\ \A r \in requests' : r \in requests \/ (r.of \in ps /\ r.id = ids[r.of.part])
             /\ \A r \in requests : (\A p \in ps : r.id # ids[p.part]) => r \in requests'
             /\ \A p \in ps : (\A q \in ps : ids[p.part] = ids[q.part] => p = q)
                   => \E r \in requests' : r.of = p /\ r.id = ids[p.part]
  <2> DEFINE kept == {r \in requests : r.id \notin {ids[p.part] : p \in ps}}
             last == {p \in ps : \A q \in ps : ids[p.part] = ids[q.part] => q.part <= p.part}
             new == {[id |-> ids[p.part], of |-> p] : p \in last}
  <2>1. requests' = kept \cup new
    BY <1>2, <1>8 DEF Call!Handlers
  <2>2. \A r \in kept : r \in requests /\ \A p \in ps : r.id # ids[p.part]
    OBVIOUS
  <2>3. \A r \in requests : (\A p \in ps : r.id # ids[p.part]) => r \in kept
    OBVIOUS
  <2>4. \A p \in ps : ids[p.part] \in CallIds /\ p.part \in Int
    BY <1>5, <1>8
  <2>5. \A p, q \in last : p \in ps /\ (ids[p.part] = ids[q.part] => p = q)
    <3>1. ASSUME NEW p \in last, NEW q \in last, ids[p.part] = ids[q.part] PROVE p = q
      <4>1. p.part <= q.part /\ q.part <= p.part
        BY <3>1
      <4>2. p.part = q.part
        BY <2>4, <4>1
      <4>3. QED
        BY <1>5, <4>2
    <3>2. QED
      BY <3>1
  <2>6. \A p \in ps : (\A q \in ps : ids[p.part] = ids[q.part] => p = q) => p \in last
    <3>1. \A p \in ps : p.part <= p.part
      BY <2>4
    <3>2. QED
      BY <3>1
  <2>7. \A p \in last : [id |-> ids[p.part], of |-> p] \in new
    OBVIOUS
  <2>8. ASSUME NEW r \in new
        PROVE  /\ r \in [id : CallIds, of : Call!Promises] /\ r.of \in last /\ r.id = ids[r.of.part]
               /\ r = [id |-> ids[r.of.part], of |-> r.of]
    <3>1. PICK p \in last : r = [id |-> ids[p.part], of |-> p]
      OBVIOUS
    <3>2. QED
      BY <1>5, <2>4, <2>5, <3>1
  <2> HIDE DEF kept, last, new
  <2>9. \A r, s \in kept \cup new : r.id = s.id => r = s
    <3>1. \A r, s \in kept : r.id = s.id => r = s
      BY <1>1, <2>2 DEF Typed
    <3>2. \A r, s \in new : r.id = s.id => r.of = s.of
      BY <2>5, <2>8
    <3>3. \A r, s \in new : r.id = s.id => r = s
      BY <2>8, <3>2
    <3>4. \A r \in kept : \A s \in new : r.id # s.id
      BY <2>2, <2>5, <2>8
    <3>5. QED
      BY <3>1, <3>3, <3>4
  <2>10. \A p \in last : \E r \in new : r.of = p /\ r.id = ids[p.part]
    BY <2>7
  <2>11. kept \cup new \subseteq [id : CallIds, of : Call!Promises]
    BY <1>1, <2>2, <2>8 DEF Typed
  <2>12. \A r \in new : r.of \in ps /\ r.id = ids[r.of.part]
    BY <2>5, <2>8
  <2>13. QED
    BY <2>1, <2>2, <2>3, <2>6, <2>9, <2>10, <2>11, <2>12
<1>9. Typed'
  <2>1. stage' \in [RpcCalls -> Stages] /\ \A d \in RpcCalls : stage'[d] = "waiting" => attempt'[d] < Retries
    BY <1>1, <1>2, <1>4 DEF Typed, Stages
  <2>2. netWire' \subseteq Messages
    BY <1>1, <1>2, <1>6
  <2>3. /\ requests' \subseteq [id : CallIds, of : Call!Promises]
        /\ \A r, s \in requests' : r.id = s.id => r = s
    BY <1>1, <1>2, <1>8 DEF Typed
  <2>4. QED
    BY <1>1, <1>2, <1>4, <2>1, <2>2, <2>3 DEF Typed, WorkTyped
<1>10. Transport'
  <2>1. Dated'
    <3>1. ASSUME NEW m \in netWire PROVE stage'[m.of.call] # "idle" /\ m.of.attempt <= attempt'[m.of.call]
      <4>1. stage[m.of.call] # "idle" /\ m.of.attempt <= attempt[m.of.call]
        BY <1>1 DEF Transport, Dated
      <4>2. m.of.call \in RpcCalls /\ m.of.attempt \in Int /\ attempt[m.of.call] \in Int /\ attempt'[m.of.call] \in Int
        BY <1>1, <1>4, PromiseFields
      <4>3. attempt[m.of.call] <= attempt'[m.of.call]
        BY <1>4, <4>2
      <4>4. m.of.attempt <= attempt'[m.of.call]
        BY <4>1, <4>2, <4>3
      <4>5. QED
        BY <1>4, <4>1, <4>2, <4>4
    <3>2. ASSUME NEW m \in mine PROVE stage'[m.of.call] # "idle" /\ m.of.attempt <= attempt'[m.of.call]
      <4>1. m.of.call = c /\ m.of.attempt = n
        BY <1>5, <1>6
      <4>2. n = attempt'[c] /\ n <= n
        BY <1>4 DEF n
      <4>3. QED
        BY <1>4, <4>1, <4>2
    <3>3. QED
      BY <1>2, <3>1, <3>2 DEF Dated
  <2>2. OneMessage'
    BY <1>1, <1>2, <1>6, <1>7 DEF Transport, OneMessage
  <2>3. OwnIds'
    BY <1>2, <1>3 DEF OwnIds
  <2>4. Handled'
    <3>1. ASSUME proxied, NEW r \in requests' PROVE \E m \in netWire' : m.id = r.id /\ m.of = r.of
      <4>1. CASE r \in requests
        BY <1>1, <1>2, <3>1, <4>1 DEF Transport, Handled
      <4>2. CASE r.of \in ps /\ r.id = ids[r.of.part]
        BY <1>2, <1>6, <4>2
      <4>3. QED
        BY <1>8, <3>1, <4>1, <4>2
    <3>2. QED
      BY <1>2, <3>1 DEF Handled
  <2>5. Expected'
    <3>1. ASSUME proxied, NEW m \in netWire, m.of.call \notin shared'
          PROVE  \E r \in requests' : r.id = m.id /\ r.of = m.of
      <4>1. PICK r \in requests : r.id = m.id /\ r.of = m.of
        BY <1>1, <1>3, <3>1 DEF Transport, Expected
      <4>2. ASSUME NEW p \in ps PROVE r.id # ids[p.part]
        <5>1. PICK k \in mine : k.of = p /\ k.id = ids[p.part]
          BY <1>6
        <5>2. k # m /\ k \in netWire' /\ m \in netWire'
          BY <1>2, <1>7, <5>1
        <5>3. k.id # m.id
          BY <1>3, <3>1, <5>2
        <5>4. QED
          BY <4>1, <5>1, <5>3
      <4>3. r \in requests'
        BY <1>8, <3>1, <4>2
      <4>4. QED
        BY <4>1, <4>3
    <3>2. ASSUME proxied, NEW m \in mine, m.of.call \notin shared'
          PROVE  \E r \in requests' : r.id = m.id /\ r.of = m.of
      <4>1. m.of \in ps /\ m.id = ids[m.of.part]
        BY <1>6
      <4>2. ASSUME NEW q \in ps, ids[m.of.part] = ids[q.part] PROVE m.of = q
        <5>1. PICK k \in mine : k.of = q /\ k.id = ids[q.part]
          BY <1>6
        <5>2. k.id = m.id /\ k \in netWire' /\ m \in netWire'
          BY <1>2, <4>1, <4>2, <5>1
        <5>3. k = m
          BY <1>3, <3>2, <5>2
        <5>4. QED
          BY <5>1, <5>3
      <4>3. QED
        BY <1>8, <3>2, <4>1, <4>2
    <3>3. QED
      BY <1>2, <3>1, <3>2 DEF Expected
  <2>6. QED
    BY <2>1, <2>2, <2>3, <2>4, <2>5 DEF Transport
<1>11. \A k, d : AtHand(k, d)' <=> AtHand(k, d)
  BY <1>2 DEF AtHand, Queued
<1>12. OwnBodies' /\ Pool'
  BY <1>1, <1>2, <1>3, <1>11, PoolStays DEF OwnBodies
<1>13. \A d \in RpcCalls \ {c} : Call!Attempt(d)' = Call!Attempt(d)
  BY <1>4 DEF Call!Attempt
<1>14. Call!OwnAnswer'
  BY <1>1, <1>2, <1>3, <1>4, <1>13 DEF Call!OwnAnswer
<1>15. Remembered'
  <2>1. Call!Attempt(c)' = ps
    BY DEF Call!Attempt, ps, n
  <2>2. \A p \in ps : Sought(p)'
    BY <1>2, <1>6 DEF Sought
  <2>3. \A p : Sought(p) => Sought(p)'
    BY <1>2, <1>11 DEF Sought
  <2>4. QED
    BY <1>1, <1>3, <1>4, <1>13, <2>1, <2>2, <2>3 DEF Remembered
<1>16. QED
  BY <1>9, <1>10, <1>12, <1>14, <1>15 DEF CInv

LEMMA CInvNext == ASSUME Call!Assumptions, CInv, [Call!Next]_(Call!vars) PROVE CInv'
<1>1. ASSUME NEW c \in RpcCalls, NEW ids \in [1..Parts[c] -> IF proxied THEN CallIds ELSE {Call!NoId}], Call!Ask(c, ids)
      PROVE  CInv'
  BY <1>1, AskKeeps
<1>2. ASSUME NEW m \in netWire, Call!AnswerArrives(m) PROVE CInv'
  BY <1>2, AnswerArrivesKeeps
<1>3. ASSUME NEW m \in netWire, NEW o \in Call!Outcomes, Call!HostAnswers(m, o) PROVE CInv'
  BY <1>3, HostAnswersKeeps
<1>4. ASSUME NEW f \in fetched, Call!ParseInline(f) PROVE CInv'
  BY <1>4, ParseInlineKeeps
<1>5. ASSUME NEW f \in fetched, Call!ParseInWorker(f) PROVE CInv'
  BY <1>5, ParseInWorkerKeeps
<1>6. ASSUME NEW w \in Call!Workers, Call!WorkerParses(w) PROVE CInv'
  BY <1>6, WorkerParsesKeeps
<1>7. ASSUME NEW w \in Call!Workers, Call!WorkerFails(w) PROVE CInv'
  BY <1>7, WorkerFailsKeeps
<1>8. ASSUME NEW m \in posted, Call!MessageArrives(m) PROVE CInv'
  BY <1>8, MessageArrivesKeeps
<1>9. CASE UNCHANGED Call!vars
  <2>1. UNCHANGED <<proxied, stage, attempt, value, requests, netWire, shared, fetched, pending,
                    nextRequestId, work, posted, parsed>>
    BY <1>9 DEF Call!vars, Call!callVars, Call!netVars, Call!poolVars
  <2>2. \A n, d : AtHand(n, d)' <=> AtHand(n, d)
    BY <2>1 DEF AtHand, Queued
  <2>3. /\ Typed /\ Transport /\ OwnBodies /\ Pool /\ Call!OwnAnswer /\ Remembered
    BY DEF CInv
  <2>4. Typed' /\ OwnBodies'
    BY <2>1, <2>3 DEF Typed, WorkTyped, OwnBodies
  <2>5. Transport' /\ Pool' /\ Call!OwnAnswer'
    BY <2>1, <2>2, <2>3, TransportStays, PoolStays, AnswerStays
  <2>6. Remembered'
    <3>1. \A p : Sought(p) => Sought(p)'
      BY <2>1, <2>2 DEF Sought
    <3>2. QED
      BY <2>1, <2>3, <3>1, RememberedStays
  <2>7. QED
    BY <2>4, <2>5, <2>6 DEF CInv
<1>10. QED
  BY <1>1, <1>2, <1>3, <1>4, <1>5, <1>6, <1>7, <1>8, <1>9 DEF Call!Next

LEMMA CInvHolds == ASSUME Call!Assumptions PROVE Call!Spec => []CInv
<1>1. CInv /\ [Call!Next]_(Call!vars) => CInv'
  BY CInvNext
<1>2. QED
  BY <1>1, CInvInit, PTL DEF Call!Spec

-----------------------------------------------------------------------------
(* Theorems *)

\* State variables keep their types; in particular, ids are unique in the maps
\* of the transport and of the pool of workers.
THEOREM CallsTypes == ASSUME Call!Assumptions PROVE Call!Spec => []Call!TypeOK
<1>1. CInv => Call!TypeOK
  BY DEF CInv, Typed, Call!TypeOK, Stages, Bodies
<1>2. QED
  BY <1>1, CInvHolds, PTL

\* A call returns what the server answered to its own last attempt, unless an
\* id was drawn twice: for any number of calls, requests, workers, retries and
\* faults, in whatever order their answers come.
THEOREM CallsGetOwnAnswer == ASSUME Call!Assumptions PROVE Call!Spec => []Call!OwnAnswer
<1>1. CInv => Call!OwnAnswer
  BY DEF CInv
<1>2. QED
  BY <1>1, CInvHolds, PTL

\* As long as such a call is open, something is under way for each part of it:
\* a message, a body, or a text in the hands of the workers.
THEOREM NoCallIsForgotten == ASSUME Call!Assumptions PROVE Call!Spec => []Call!NoCallForgotten
<1>1. ASSUME NEW n, NEW d, AtHand(n, d)
      PROVE  \/ \E w \in Call!Workers : \E i \in DOMAIN work[w] : work[w][i].requestId = n
             \/ \E m \in posted : m.job.requestId = n
  BY <1>1 DEF AtHand, Queued
<1>2. \A p : Sought(p) => Call!UnderWay(p)
  BY <1>1 DEF Sought, Call!UnderWay
<1>3. CInv => Call!NoCallForgotten
  BY <1>2 DEF CInv, Remembered, Call!NoCallForgotten
<1>4. QED
  BY <1>3, CInvHolds, PTL

-----------------------------------------------------------------------------
(* Searching in a list: the invariant *)

Searches == [term : Terms, back : BOOLEAN, last : Nat, from : Nat, beyond : Nat,
             waits : BOOLEAN, result : Nat, undisturbed : BOOLEAN]

FindTyped ==
    /\ items \in Lists /\ top \in 1..Len(items) /\ sel \in Nat /\ term \in Terms
    /\ lastFoundItem \in Nat /\ searches \in Seq(Searches)
    /\ pendingSearch \in 0..Len(searches) /\ fallback \subseteq 1..Len(searches)
    /\ scrollTo \in 0..Len(items)

\* The selection is not below the drawn items, nor is what was found last.
WithinReach ==
    /\ sel <= Find!Steps * (top + Window)
    /\ lastFoundItem < Find!Steps * (top + Window)

\* The items behind the drawn ones that have the term of a search for the next match.
Hits(q) == {i \in q.beyond + 1..Len(items) : Find!SearchInItem(items[i], q.term)}

\* A search that waits undisturbed is the last one.  The list is told to scroll
\* to the first item that has its term, or this is drawn; and what the browser
\* will find there is behind the place where the search began.
OnTheWay(q) ==
    /\ Hits(q) # {} /\ q.last < Find!Steps * (q.beyond + 1) /\ q.from <= Find!Steps * (q.beyond + 1)
    /\ LET i == Find!Min(Hits(q))
       IN  \/ scrollTo = i /\ sel = q.from
           \/ /\ scrollTo = 0 /\ i \in top..Find!Bottom /\ sel <= Find!Steps * i
              /\ \/ sel >= q.from \/ Find!ItemAt(q.from) < top
WaitingInOrder ==
    \A s \in DOMAIN searches :
      searches[s].waits /\ searches[s].undisturbed =>
        s = Len(searches) /\ (~searches[s].back => OnTheWay(searches[s]))

\* What a search for the next match says was so: a match behind the place where
\* it began, or none but in an item that does not show it.
Answer(q) ==
    ~q.back /\ q.undisturbed /\ ~q.waits =>
      IF q.result = 0 THEN Hits(q) # {} => Find!PlacesIn({Find!Min(Hits(q))}, q.term) = {}
      ELSE q.result > q.from
AnswersRight == \A s \in DOMAIN searches : Answer(searches[s])

\* Who is to be called back waits.
CalledWaits == pendingSearch # 0 => searches[pendingSearch].waits

FindInv ==
    /\ FindTyped /\ WithinReach /\ WaitingInOrder /\ CalledWaits /\ AnswersRight
    /\ Find!LatestIsAnswered

-----------------------------------------------------------------------------
(* Least and greatest, items and positions *)

LEMMA MinOf ==
    ASSUME NEW S \in SUBSET Nat, S # {}
    PROVE  Find!Min(S) \in S /\ \A n \in S : Find!Min(S) <= n
<1>1. \E m \in S : \A n \in S : m <= n
  BY LeastNatural
<1>2. QED
  BY <1>1 DEF Find!Min

LEMMA MaxOf ==
    ASSUME NEW S \in SUBSET Nat, S # {}, NEW b \in Nat, \A n \in S : n <= b
    PROVE  Find!Max(S) \in S
<1>1. \E m \in S : \A n \in S : m >= n
  BY GreatestNatural
<1>2. QED
  BY <1>1 DEF Find!Max

LEMMA OfTwo ==
    ASSUME NEW a \in Int, NEW b \in Int
    PROVE  /\ Find!Min({a, b}) = IF a <= b THEN a ELSE b
           /\ Find!Max({a, b}) = IF a >= b THEN a ELSE b
<1>1. Find!Min({a, b}) \in {a, b} /\ Find!Min({a, b}) <= a /\ Find!Min({a, b}) <= b
  <2>1. \E x \in {a, b} : \A y \in {a, b} : x <= y
    OBVIOUS
  <2>2. QED
    BY <2>1 DEF Find!Min
<1>2. Find!Max({a, b}) \in {a, b} /\ Find!Max({a, b}) >= a /\ Find!Max({a, b}) >= b
  <2>1. \E x \in {a, b} : \A y \in {a, b} : x >= y
    OBVIOUS
  <2>2. QED
    BY <2>1 DEF Find!Max
<1>3. QED
  BY <1>1, <1>2

LEMMA ItemIs ==
    ASSUME NEW p \in Nat
    PROVE  /\ Find!ItemAt(p) \in Nat /\ Find!Steps = 10
           /\ 10 * Find!ItemAt(p) <= p /\ p < 10 * Find!ItemAt(p) + 10
BY DEF Find!ItemAt, Find!Steps

LEMMA ListIs ==
    ASSUME Find!Assumptions, FindTyped
    PROVE  /\ Len(items) \in Nat \ {0} /\ DOMAIN items = 1..Len(items)
           /\ \A i \in 1..Len(items) : DOMAIN items[i].shown \subseteq 1..9
           /\ Window \in Nat \ {0} /\ top \in Nat \ {0} /\ top <= Len(items)
           /\ Find!Bottom \in Nat /\ top <= Find!Bottom /\ Find!Bottom <= Len(items)
           /\ Find!Bottom <= top + Window - 1
           /\ Find!Bottom < Len(items) => Find!Bottom = top + Window - 1
<1>1. items \in Seq(Find!Range(items)) /\ items # <<>>
  BY DEF Find!Assumptions, FindTyped
<1>2. Len(items) \in Nat \ {0} /\ DOMAIN items = 1..Len(items)
  BY <1>1
<1>3. \A i \in 1..Len(items) : DOMAIN items[i].shown \subseteq 1..9
  BY <1>2 DEF Find!Assumptions, FindTyped, Find!Steps
<1>4. Window \in Nat \ {0} /\ top \in Nat \ {0} /\ top <= Len(items)
  BY <1>2 DEF Find!Assumptions, FindTyped
<1>5. Find!Bottom = IF Len(items) <= top + Window - 1 THEN Len(items) ELSE top + Window - 1
  BY <1>2, <1>4, OfTwo DEF Find!Bottom
<1>6. QED
  BY <1>2, <1>3, <1>4, <1>5

\* The list is scrolled to where the item is drawn.
LEMMA CentredIs ==
    ASSUME Find!Assumptions, FindTyped, NEW i \in 1..Len(items)
    PROVE  /\ Find!Centred(i) \in 1..Len(items)
           /\ Find!Centred(i) <= i /\ i <= Find!Centred(i) + Window - 1
<1>1. Len(items) \in Nat \ {0} /\ Window \in Nat \ {0}
  BY ListIs
<1> DEFINE a == i - Window \div 2
           b == Len(items) - Window + 1
           m == IF a <= b THEN a ELSE b
<1>2. a \in Int /\ b \in Int /\ m \in Int
  BY <1>1
<1>3. Find!Min({a, b}) = m
  BY <1>2, OfTwo
<1>4. Find!Centred(i) = IF 1 >= m THEN 1 ELSE m
  <2>1. Find!Centred(i) = Find!Max({1, m})
    BY <1>3 DEF Find!Centred
  <2> HIDE DEF m
  <2>2. 1 \in Int
    OBVIOUS
  <2>3. QED
    BY <1>2, <2>1, <2>2, OfTwo, Zenon
<1>5. Window \div 2 \in Nat /\ 2 * (Window \div 2) <= Window /\ Window <= 2 * (Window \div 2) + 1
  BY <1>1
<1>6. QED
  BY <1>1, <1>4, <1>5

LEMMA PlaceIs ==
    ASSUME Find!Assumptions, FindTyped, NEW S \in SUBSET (1..Len(items)), NEW t, NEW p \in Find!PlacesIn(S, t)
    PROVE  p \in Nat \ {0} /\ Find!ItemAt(p) \in S /\ p > 10 * Find!ItemAt(p)
<1>0. PICK i \in S : \E k \in DOMAIN items[i].shown : p = Find!Steps * i + k
  BY DEF Find!PlacesIn
<1>1. PICK k \in DOMAIN items[i].shown : p = Find!Steps * i + k
  BY <1>0
<1>2. i \in Nat /\ k \in 1..9
  BY <1>1, ListIs
<1>3. p = 10 * i + k
  BY <1>1 DEF Find!Steps
<1>4. p \in Nat \ {0} /\ Find!ItemAt(p) = i
  BY <1>2, <1>3 DEF Find!ItemAt, Find!Steps
<1>5. QED
  BY <1>2, <1>3, <1>4

LEMMA PlacesGrow ==
    ASSUME NEW S, NEW T, S \subseteq T, NEW t
    PROVE  Find!PlacesIn(S, t) \subseteq Find!PlacesIn(T, t)
BY DEF Find!PlacesIn

\* What the browser finds: a place in the drawn items, in the direction of the
\* search, and nothing only if there is none but the one found last.
LEMMA FindIs ==
    ASSUME Find!Assumptions, FindTyped, NEW t, NEW back \in BOOLEAN, NEW last
    PROVE  LET r == Find!Find(t, back, last)
               places == Find!PlacesIn(top..Find!Bottom, t)
           IN  /\ r \in Nat
               /\ r # 0 => r \in places /\ (~back => r > sel)
               /\ r = 0 /\ ~back => \A p \in places \ {last} : p <= sel
<1> DEFINE r == Find!Find(t, back, last)
           places == Find!PlacesIn(top..Find!Bottom, t)
           S == {p \in places \ {last} : IF back THEN p < sel ELSE p > sel}
<1>1. top..Find!Bottom \in SUBSET (1..Len(items))
  BY ListIs
<1>2. \A p \in places : p \in Nat \ {0}
  BY <1>1, PlaceIs
<1>3. r = IF S = {} THEN 0 ELSE IF back THEN Find!Max(S) ELSE Find!Min(S)
  BY DEF Find!Find
<1>4. S \in SUBSET Nat /\ sel \in Nat
  BY <1>2 DEF FindTyped
<1>5. ASSUME S # {} PROVE r \in S
  <2>1. CASE back
    <3>1. \A p \in S : p <= sel
      BY <1>4, <2>1
    <3> HIDE DEF S
    <3>2. QED
      BY <1>3, <1>4, <1>5, <2>1, <3>1, MaxOf
  <2>2. CASE ~back
    <3> HIDE DEF S
    <3>1. QED
      BY <1>3, <1>4, <1>5, <2>2, MinOf
  <2>3. QED
    BY <2>1, <2>2
<1> HIDE DEF r, places
<1>6. CASE S = {}
  <2>1. r = 0
    BY <1>3, <1>6
  <2>2. ~back => \A p \in places \ {last} : p <= sel
    BY <1>2, <1>4, <1>6
  <2>3. QED
    BY <2>1, <2>2 DEF r, places
<1>7. CASE S # {}
  <2>1. r \in places /\ r \in Nat \ {0} /\ (~back => r > sel)
    BY <1>2, <1>5, <1>7
  <2>2. QED
    BY <2>1 DEF r, places
<1>8. QED
  BY <1>6, <1>7

\* What is found in the data: the first item behind the drawn ones with the term.
LEMMA SearchInDataIs ==
    ASSUME Find!Assumptions, FindTyped, NEW t, NEW back \in BOOLEAN
    PROVE  LET i == Find!SearchInData(t, back)
               hits == {n \in Find!Bottom + 1..Len(items) : Find!SearchInItem(items[n], t)}
           IN  /\ i \in 0..Len(items)
               /\ ~back => IF i = 0 THEN hits = {} ELSE hits # {} /\ i = Find!Min(hits)
<1> DEFINE i == Find!SearchInData(t, back)
           hits == {n \in Find!Bottom + 1..Len(items) : Find!SearchInItem(items[n], t)}
           before == {n \in 1..top - 1 : Find!SearchInItem(items[n], t)}
<1>1. i = IF back THEN IF before = {} THEN 0 ELSE Find!Max(before)
                  ELSE IF hits = {} THEN 0 ELSE Find!Min(hits)
  BY DEF Find!SearchInData
<1>2. hits \in SUBSET (1..Len(items)) /\ before \in SUBSET (1..Len(items)) /\ Len(items) \in Nat
  BY ListIs
<1> HIDE DEF i, hits, before
<1>3. hits # {} => Find!Min(hits) \in hits
  BY <1>2, MinOf
<1>4. before # {} => Find!Max(before) \in before
  <2>1. before \in SUBSET Nat /\ \A n \in before : n <= Len(items)
    BY <1>2
  <2>2. QED
    BY <1>2, <2>1, MaxOf
<1>5. /\ i \in 0..Len(items)
      /\ ~back => IF i = 0 THEN hits = {} ELSE hits # {} /\ i = Find!Min(hits)
  BY <1>1, <1>2, <1>3, <1>4
<1>6. QED
  BY <1>5 DEF i, hits

-----------------------------------------------------------------------------
(* What a step leaves of the searches *)

\* A search that has only been disturbed, or whose last match is gone.
SameSearch(q, r) ==
    /\ r.term = q.term /\ r.back = q.back /\ r.from = q.from /\ r.beyond = q.beyond
    /\ r.waits = q.waits /\ r.result = q.result
    /\ r.last \in {q.last, 0} /\ (r.undisturbed => q.undisturbed)

LEMMA SameAnswer == ASSUME NEW q, NEW r, SameSearch(q, r), Answer(q) PROVE Answer(r)
<1>1. Hits(r) = Hits(q)
  BY DEF SameSearch, Hits
<1>2. QED
  BY <1>1 DEF SameSearch, Answer

LEMMA AnswersPrimed ==
    ASSUME UNCHANGED items, \A s \in DOMAIN searches' : Answer(searches'[s])
    PROVE  AnswersRight'
<1>1. \A S, t : Find!PlacesIn(S, t)' = Find!PlacesIn(S, t)
  BY DEF Find!PlacesIn
<1>2. ASSUME NEW s \in DOMAIN searches', NEW q, q = searches'[s] PROVE Answer(q)'
  <2>1. Answer(q)
    BY <1>2
  <2>2. Hits(q)' = Hits(q)
    BY DEF Hits
  <2>3. QED
    BY <1>1, <2>1, <2>2 DEF Answer
<1>3. QED
  BY <1>2 DEF AnswersRight, Answer, Hits, Find!PlacesIn

LEMMA NothingWaits ==
    ASSUME \A s \in DOMAIN searches' : ~(searches'[s].waits /\ searches'[s].undisturbed)
    PROVE  WaitingInOrder'
BY DEF WaitingInOrder

LEMMA UntouchedKeeps ==
    ASSUME Find!Assumptions, FindInv, UNCHANGED <<items, top, sel, scrollTo, searches>>,
           lastFoundItem' \in {lastFoundItem, 0}, term' \in Terms,
           pendingSearch' \in {pendingSearch, 0}, fallback' \subseteq fallback, Find!LatestIsAnswered'
    PROVE  FindInv'
<1>1. FindTyped'
  BY DEF FindInv, FindTyped
<1>2. WithinReach'
  <2>1. lastFoundItem \in Nat /\ top \in Nat \ {0} /\ Window \in Nat \ {0} /\ Find!Steps = 10
    BY ListIs DEF FindInv, FindTyped, Find!Steps
  <2>2. lastFoundItem' < 10 * (top + Window)
    BY <2>1 DEF FindInv, WithinReach
  <2>3. QED
    BY <2>1, <2>2 DEF FindInv, WithinReach
<1>3. WaitingInOrder'
  BY DEF FindInv, WaitingInOrder, OnTheWay, Hits, Find!Bottom
<1>4. AnswersRight'
  BY AnswersPrimed DEF FindInv, AnswersRight
<1>5. CalledWaits'
  BY DEF FindInv, CalledWaits
<1>6. QED
  BY <1>1, <1>2, <1>3, <1>4, <1>5 DEF FindInv

LEMMA DisturbedIs ==
    ASSUME FindTyped
    PROVE  /\ Find!Disturbed \in Seq(Searches) /\ Len(Find!Disturbed) = Len(searches)
           /\ \A s \in DOMAIN searches :
                /\ SameSearch(searches[s], Find!Disturbed[s])
                /\ ~(Find!Disturbed[s].waits /\ Find!Disturbed[s].undisturbed)
<1>1. searches \in Seq(Searches) /\ DOMAIN searches = 1..Len(searches) /\ Len(searches) \in Nat
  BY DEF FindTyped
<1>2. ASSUME NEW s \in DOMAIN searches
      PROVE  /\ Find!Disturbed[s] \in Searches
             /\ SameSearch(searches[s], Find!Disturbed[s])
             /\ ~(Find!Disturbed[s].waits /\ Find!Disturbed[s].undisturbed)
  <2>1. searches[s] \in Searches
    BY <1>1
  <2>2. Find!Disturbed[s] = IF searches[s].waits THEN [searches[s] EXCEPT !.undisturbed = FALSE]
                            ELSE searches[s]
    BY DEF Find!Disturbed
  <2>3. QED
    BY <2>1, <2>2 DEF Searches, SameSearch
<1>3. Find!Disturbed = [s \in 1..Len(searches) |-> Find!Disturbed[s]]
  BY <1>1 DEF Find!Disturbed
<1>4. Find!Disturbed \in [1..Len(searches) -> Searches]
  BY <1>1, <1>2, <1>3
<1>5. QED
  BY <1>1, <1>2, <1>4

\* A search with another last match.
LEMMA LastSet ==
    ASSUME NEW q \in Searches, NEW n \in Nat, NEW r, r = [q EXCEPT !.last = n]
    PROVE  /\ r \in Searches /\ r.last = n /\ r.term = q.term /\ r.back = q.back
           /\ r.from = q.from /\ r.beyond = q.beyond /\ r.waits = q.waits
           /\ r.result = q.result /\ r.undisturbed = q.undisturbed
BY DEF Searches

\* The list is drawn from another item on.
LEMMA DrawnIs ==
    ASSUME Find!Assumptions, FindTyped, WithinReach, NEW n \in 1..Len(items),
           NEW known \in Seq(Searches), Len(known) = Len(searches),
           \A s \in DOMAIN searches : SameSearch(searches[s], known[s]), Find!DrawnFrom(n, known)
    PROVE  /\ top' = n /\ searches' \in Seq(Searches) /\ Len(searches') = Len(searches)
           /\ \A s \in DOMAIN searches :
                /\ SameSearch(searches[s], searches'[s])
                /\ searches'[s].undisturbed = known[s].undisturbed
           /\ sel' \in Nat /\ sel' <= 10 * (n + Window)
           /\ lastFoundItem' \in Nat /\ lastFoundItem' < 10 * (n + Window)
           /\ \/ sel' = 0 /\ Find!ItemAt(sel) < n
              \/ sel' = sel
              \/ Find!ItemAt(sel) > n + Window - 1
<1>1. n \in Nat /\ Window \in Nat \ {0} /\ Len(items) \in Nat /\ Find!Steps = 10
  BY ListIs DEF Find!Steps
<1>2. /\ top' = n /\ lastFoundItem' = Find!Kept(lastFoundItem, n)
      /\ searches' = [s \in DOMAIN known |-> [known[s] EXCEPT !.last = Find!Kept(@, n)]]
      /\ sel' = IF Find!ItemAt(sel) < n THEN 0
                ELSE IF Find!ItemAt(sel) > n + Window - 1 THEN Find!Steps * (n + Window - 1 + 1) ELSE sel
  BY DEF Find!DrawnFrom
<1>3. \A p \in Nat : Find!Kept(p, n) \in {p, 0} /\ Find!Kept(p, n) < 10 * (n + Window)
  <2>1. ASSUME NEW p \in Nat PROVE Find!Kept(p, n) \in {p, 0} /\ Find!Kept(p, n) < 10 * (n + Window)
    <3>1. CASE Find!ItemAt(p) \in n..n + Window - 1
      <4>1. Find!Kept(p, n) = p
        BY <3>1 DEF Find!Kept
      <4>2. p < 10 * Find!ItemAt(p) + 10 /\ Find!ItemAt(p) \in Nat
        BY ItemIs
      <4>3. QED
        BY <1>1, <3>1, <4>1, <4>2
    <3>2. CASE Find!ItemAt(p) \notin n..n + Window - 1
      BY <1>1, <3>2 DEF Find!Kept
    <3>3. QED
      BY <3>1, <3>2
  <2>2. QED
    BY <2>1
<1>4. DOMAIN known = 1..Len(searches) /\ DOMAIN searches = 1..Len(searches) /\ Len(searches) \in Nat
  BY DEF FindTyped
<1>5. ASSUME NEW s \in 1..Len(searches)
      PROVE  /\ searches'[s] \in Searches /\ SameSearch(searches[s], searches'[s])
             /\ searches'[s].undisturbed = known[s].undisturbed
  <2>1. known[s] \in Searches /\ SameSearch(searches[s], known[s])
    BY <1>4
  <2>2. searches'[s] = [known[s] EXCEPT !.last = Find!Kept(known[s].last, n)]
    BY <1>2, <1>4
  <2>3. known[s].last \in Nat
    BY <2>1 DEF Searches
  <2>4. Find!Kept(known[s].last, n) \in {known[s].last, 0}
    BY <1>3, <2>3
  <2>5. /\ searches'[s] \in Searches /\ searches'[s].last = Find!Kept(known[s].last, n)
        /\ searches'[s].term = known[s].term /\ searches'[s].back = known[s].back
        /\ searches'[s].from = known[s].from /\ searches'[s].beyond = known[s].beyond
        /\ searches'[s].waits = known[s].waits /\ searches'[s].result = known[s].result
        /\ searches'[s].undisturbed = known[s].undisturbed
    <3>1. Find!Kept(known[s].last, n) \in Nat
      BY <2>3, <2>4
    <3>2. QED
      BY <2>1, <2>2, <3>1, LastSet
  <2>6. QED
    BY <2>1, <2>4, <2>5 DEF SameSearch
<1>6. searches' \in Seq(Searches) /\ Len(searches') = Len(searches)
  <2>1. searches' \in [1..Len(searches) -> Searches]
    BY <1>2, <1>4, <1>5
  <2>2. QED
    BY <1>4, <2>1
<1>7. sel \in Nat /\ lastFoundItem \in Nat
  BY DEF FindTyped
<1>8. Find!ItemAt(sel) \in Nat /\ 10 * Find!ItemAt(sel) <= sel /\ sel < 10 * Find!ItemAt(sel) + 10
  BY <1>7, ItemIs
<1>9. sel' \in Nat /\ sel' <= 10 * (n + Window)
  BY <1>1, <1>2, <1>7, <1>8
<1>10. \/ sel' = 0 /\ Find!ItemAt(sel) < n
       \/ sel' = sel
       \/ Find!ItemAt(sel) > n + Window - 1
  BY <1>2
<1>11. lastFoundItem' \in Nat /\ lastFoundItem' < 10 * (n + Window)
  BY <1>2, <1>3, <1>7
<1>12. QED
  BY <1>2, <1>4, <1>5, <1>6, <1>9, <1>10, <1>11

-----------------------------------------------------------------------------
(* Each action keeps the invariant *)

LEMMA FindInit == ASSUME Find!Assumptions, Find!Init PROVE FindInv
<1>1. /\ items \in Lists /\ items \in Seq(Find!Range(items)) /\ items # <<>>
      /\ top = 1 /\ sel = 0 /\ term = <<>> /\ lastFoundItem = 0 /\ searches = <<>>
      /\ pendingSearch = 0 /\ fallback = {} /\ scrollTo = 0
  BY DEF Find!Init, Find!Assumptions
<1>2. Len(items) \in Nat \ {0} /\ Window \in Nat \ {0} /\ <<>> \in Terms
  BY <1>1 DEF Find!Assumptions
<1>3. searches \in Seq(Searches) /\ Len(searches) = 0 /\ DOMAIN searches = {}
  BY <1>1
<1>4. FindTyped
  BY <1>1, <1>2, <1>3 DEF FindTyped
<1>5. WithinReach
  BY <1>1, <1>2 DEF WithinReach, Find!Steps
<1>6. QED
  BY <1>1, <1>3, <1>4, <1>5 DEF FindInv, WaitingInOrder, CalledWaits, AnswersRight, Find!LatestIsAnswered

\* The browser looks again: undisturbed, it finds what the data had.
LEMMA ContentReadyKeeps ==
    ASSUME Find!Assumptions, FindInv, NEW s \in DOMAIN searches, s = pendingSearch, pendingSearch' = 0,
           fallback' \subseteq fallback, Find!ContentReady(s)
    PROVE  FindInv'
<1> DEFINE q == searches[s]
           r == Find!Find(q.term, q.back, q.last)
           c == searches'[s]
<1>1. /\ searches \in Seq(Searches) /\ DOMAIN searches = 1..Len(searches) /\ Len(searches) \in Nat
      /\ q \in Searches /\ q.waits
  BY DEF FindInv, FindTyped, CalledWaits
<1>2. q.term \in Terms /\ q.back \in BOOLEAN /\ q.last \in Nat
  BY <1>1 DEF Searches
<1>3. /\ r \in Nat
      /\ r # 0 => r \in Find!PlacesIn(top..Find!Bottom, q.term) /\ (~q.back => r > sel)
      /\ r = 0 /\ ~q.back => \A p \in Find!PlacesIn(top..Find!Bottom, q.term) \ {q.last} : p <= sel
  BY <1>2, FindIs DEF FindInv
<1>4. /\ searches' = [searches EXCEPT ![s].waits = FALSE, ![s].result = r,
                                      ![s].undisturbed = @ /\ scrollTo = 0]
      /\ UNCHANGED <<items, top, scrollTo, term>>
      /\ IF r = 0 THEN lastFoundItem' = lastFoundItem /\ sel' = sel
         ELSE sel' = r /\ lastFoundItem' \in {lastFoundItem, r}
  BY DEF Find!ContentReady, Find!Ends
<1> HIDE DEF r
<1>5. /\ c \in Searches /\ ~c.waits /\ c.result = r /\ (c.undisturbed => q.undisturbed /\ scrollTo = 0)
      /\ c.term = q.term /\ c.back = q.back /\ c.from = q.from /\ c.beyond = q.beyond
  BY <1>1, <1>3, <1>4 DEF Searches
<1>6. /\ searches' \in Seq(Searches) /\ Len(searches') = Len(searches)
      /\ \A t \in DOMAIN searches : t # s => searches'[t] = searches[t]
  <2>1. DOMAIN searches' = 1..Len(searches)
    BY <1>1, <1>4
  <2>2. \A t \in DOMAIN searches : t # s => searches'[t] = searches[t]
    BY <1>1, <1>4
  <2>3. searches' = [t \in 1..Len(searches) |-> searches'[t]]
    BY <1>1, <1>4
  <2>4. \A t \in 1..Len(searches) : searches'[t] \in Searches
    BY <1>1, <1>5, <2>2
  <2>5. searches' \in [1..Len(searches) -> Searches]
    BY <2>3, <2>4
  <2>6. QED
    BY <1>1, <2>2, <2>5
<1>7. /\ Len(items) \in Nat /\ top \in Nat \ {0} /\ Window \in Nat \ {0}
      /\ Find!Bottom \in Nat /\ Find!Bottom <= top + Window - 1
      /\ top..Find!Bottom \in SUBSET (1..Len(items))
      /\ sel \in Nat /\ lastFoundItem \in Nat /\ Find!Steps = 10
  BY ListIs DEF FindInv, FindTyped, Find!Steps
<1>8. r # 0 => Find!ItemAt(r) \in top..Find!Bottom /\ r > 10 * Find!ItemAt(r) /\ r < 10 * (top + Window)
  <2>1. SUFFICES ASSUME r # 0
                 PROVE  Find!ItemAt(r) \in top..Find!Bottom /\ r > 10 * Find!ItemAt(r)
                        /\ r < 10 * (top + Window)
    OBVIOUS
  <2>2. Find!ItemAt(r) \in top..Find!Bottom /\ r > 10 * Find!ItemAt(r)
    BY <1>3, <1>7, <2>1, PlaceIs DEF FindInv
  <2>3. r < 10 * Find!ItemAt(r) + 10
    BY <1>3, ItemIs
  <2>4. QED
    BY <1>3, <1>7, <2>2, <2>3
<1>9. FindTyped'
  <2>1. sel' \in Nat /\ lastFoundItem' \in Nat
    BY <1>3, <1>4, <1>7
  <2>2. fallback' \subseteq 1..Len(searches') /\ pendingSearch' \in 0..Len(searches')
    BY <1>1, <1>6 DEF FindInv, FindTyped
  <2>3. QED
    BY <1>4, <1>6, <2>1, <2>2 DEF FindInv, FindTyped
<1>10. WithinReach'
  <2>1. sel <= 10 * (top + Window) /\ lastFoundItem < 10 * (top + Window)
    BY <1>7 DEF FindInv, WithinReach
  <2>2. sel' <= 10 * (top + Window) /\ lastFoundItem' < 10 * (top + Window)
    BY <1>3, <1>4, <1>7, <1>8, <2>1
  <2>3. QED
    BY <1>4, <1>7, <2>2 DEF WithinReach
<1>11. \A t \in DOMAIN searches' : ~(searches'[t].waits /\ searches'[t].undisturbed)
  <2>1. SUFFICES ASSUME NEW t \in DOMAIN searches', searches'[t].waits, searches'[t].undisturbed
                 PROVE  FALSE
    OBVIOUS
  <2>2. t \in DOMAIN searches /\ t # s
    BY <1>1, <1>5, <1>6, <2>1
  <2>3. t = Len(searches) /\ searches[t].waits
    BY <1>6, <2>1, <2>2 DEF FindInv, WaitingInOrder
  <2>4. pendingSearch = t
    BY <1>1, <2>2, <2>3 DEF FindInv, Find!LatestIsAnswered
  <2>5. QED
    BY <2>2, <2>4
<1>12. Answer(c)
  <2>1. SUFFICES ASSUME ~q.back, c.undisturbed
                 PROVE  IF r = 0 THEN Hits(c) # {} => Find!PlacesIn({Find!Min(Hits(c))}, q.term) = {}
                        ELSE r > q.from
    BY <1>5 DEF Answer
  <2>2. Hits(c) = Hits(q)
    BY <1>5 DEF Hits
  <2>3. OnTheWay(q) /\ scrollTo = 0
    BY <1>1, <1>5, <2>1 DEF FindInv, WaitingInOrder
  <2> DEFINE i == Find!Min(Hits(q))
  <2>4. Hits(q) # {} /\ q.last < 10 * (q.beyond + 1)
    BY <1>7, <2>3 DEF OnTheWay
  <2>5. Hits(q) \in SUBSET Nat /\ q.beyond \in Nat /\ q.from \in Nat
    BY <1>1, <1>7 DEF Hits, Searches
  <2>6. i \in Nat /\ i >= q.beyond + 1
    <3>1. i \in Hits(q) /\ i \in Nat
      BY <2>4, <2>5, MinOf
    <3>2. i \in q.beyond + 1..Len(items)
      BY <3>1 DEF Hits
    <3> HIDE DEF i
    <3>3. QED
      BY <1>7, <2>5, <3>1, <3>2
  <2>7. i \in top..Find!Bottom /\ sel <= 10 * i /\ (sel >= q.from \/ Find!ItemAt(q.from) < top)
    <3>1. i # 0
      BY <2>5, <2>6
    <3>2. QED
      BY <1>7, <2>3, <3>1 DEF OnTheWay
  <2>8. CASE r # 0
    <3>1. r > sel
      BY <1>3, <2>1, <2>8
    <3>2. r > q.from
      <4>1. CASE sel >= q.from
        BY <1>3, <1>7, <2>5, <3>1, <4>1
      <4>2. CASE Find!ItemAt(q.from) < top
        <5>1. Find!ItemAt(q.from) \in Nat /\ q.from < 10 * Find!ItemAt(q.from) + 10
          BY <2>5, ItemIs
        <5>2. Find!ItemAt(r) \in Nat /\ top <= Find!ItemAt(r) /\ r > 10 * Find!ItemAt(r)
          BY <1>7, <1>8, <2>8
        <5>3. QED
          BY <1>3, <1>7, <2>5, <4>2, <5>1, <5>2
      <4>3. QED
        BY <2>7, <4>1, <4>2
    <3>3. QED
      BY <2>8, <3>2
  <2>9. CASE r = 0
    <3>1. ASSUME NEW p \in Find!PlacesIn({i}, q.term) PROVE FALSE
      <4>1. p \in Find!PlacesIn(top..Find!Bottom, q.term)
        BY <2>7, <3>1, PlacesGrow
      <4>2. {i} \in SUBSET (1..Len(items))
        BY <1>7, <2>7
      <4>3. p \in Nat /\ Find!ItemAt(p) = i /\ p > 10 * i
        BY <3>1, <4>2, PlaceIs DEF FindInv
      <4>4. q.last # p
        BY <1>2, <2>4, <2>5, <2>6, <4>3
      <4>5. p <= sel
        BY <1>3, <2>1, <2>9, <4>1, <4>4
      <4>6. QED
        BY <1>7, <2>6, <2>7, <4>3, <4>5
    <3>2. QED
      BY <2>2, <2>9, <3>1
  <2>10. QED
    BY <2>8, <2>9
<1>13. AnswersRight'
  <2>1. \A t \in DOMAIN searches' : Answer(searches'[t])
    BY <1>1, <1>6, <1>12 DEF FindInv, AnswersRight
  <2>2. QED
    BY <1>4, <2>1, AnswersPrimed
<1>14. Find!LatestIsAnswered'
  <2>1. SUFFICES ASSUME Len(searches) > 0, searches'[Len(searches)].waits PROVE FALSE
    BY <1>6 DEF Find!LatestIsAnswered
  <2>2. Len(searches) # s
    BY <1>5, <2>1
  <2>3. searches[Len(searches)].waits
    BY <1>1, <1>6, <2>1, <2>2
  <2>4. QED
    BY <2>1, <2>2, <2>3 DEF FindInv, Find!LatestIsAnswered
<1>15. WaitingInOrder' /\ CalledWaits'
  BY <1>11, NothingWaits DEF CalledWaits
<1>16. QED
  BY <1>9, <1>10, <1>13, <1>14, <1>15 DEF FindInv

LEMMA FallbackKeeps ==
    ASSUME Find!Assumptions, FindInv, NEW s \in fallback, Find!Fallback(s) PROVE FindInv'
<1>1. s \in DOMAIN searches /\ fallback' = fallback \ {s}
  BY DEF FindInv, FindTyped, Find!Fallback
<1>2. CASE pendingSearch = s
  BY <1>1, <1>2, ContentReadyKeeps DEF Find!Fallback
<1>3. CASE pendingSearch # s
  <2>1. UNCHANGED <<items, top, sel, scrollTo, searches, lastFoundItem, term, pendingSearch>>
    BY <1>3 DEF Find!Fallback, Find!listVars, Find!bandVars, Find!boxVars
  <2>2. Find!LatestIsAnswered' /\ term' \in Terms
    BY <1>1, <1>3, <2>1 DEF FindInv, FindTyped, Find!LatestIsAnswered
  <2>3. QED
    BY <1>1, <2>1, <2>2, UntouchedKeeps
<1>4. QED
  BY <1>2, <1>3

LEMMA AfterStopKeeps == ASSUME Find!Assumptions, FindInv, Find!AfterStop PROVE FindInv'
<1>1. pendingSearch' = 0 /\ fallback' = fallback
  BY DEF Find!AfterStop
<1>2. CASE pendingSearch # 0
  <2>1. pendingSearch \in DOMAIN searches
    BY <1>2 DEF FindInv, FindTyped
  <2>2. Find!ContentReady(pendingSearch)
    BY <1>2 DEF Find!AfterStop
  <2>3. QED
    BY <1>1, <2>1, <2>2, ContentReadyKeeps
<1>3. CASE pendingSearch = 0
  <2>1. UNCHANGED <<items, top, sel, scrollTo, searches, lastFoundItem, term>>
    BY <1>3 DEF Find!AfterStop, Find!listVars, Find!bandVars, Find!boxVars
  <2>2. ~(Len(searches) > 0 /\ searches[Len(searches)].waits)
    BY <1>3 DEF FindInv, Find!LatestIsAnswered
  <2>3. Find!LatestIsAnswered' /\ term' \in Terms
    BY <2>1, <2>2 DEF FindInv, FindTyped, Find!LatestIsAnswered
  <2>4. QED
    BY <1>1, <2>1, <2>3, UntouchedKeeps
<1>4. QED
  BY <1>2, <1>3

\* The list is scrolled or moved by somebody else than the searches that wait.
LEMMA MovedKeeps ==
    ASSUME Find!Assumptions, FindInv, NEW n \in 1..Len(items), Find!DrawnFrom(n, Find!Disturbed),
           UNCHANGED <<items, scrollTo, term, pendingSearch, fallback>>
    PROVE  FindInv'
<1>1. /\ searches \in Seq(Searches) /\ DOMAIN searches = 1..Len(searches) /\ Len(searches) \in Nat
      /\ FindTyped /\ WithinReach
  BY DEF FindInv, FindTyped
<1>2. /\ Find!Disturbed \in Seq(Searches) /\ Len(Find!Disturbed) = Len(searches)
      /\ \A s \in DOMAIN searches :
           /\ SameSearch(searches[s], Find!Disturbed[s])
           /\ ~(Find!Disturbed[s].waits /\ Find!Disturbed[s].undisturbed)
  BY <1>1, DisturbedIs
<1>3. /\ top' = n /\ searches' \in Seq(Searches) /\ Len(searches') = Len(searches)
      /\ \A s \in DOMAIN searches :
           /\ SameSearch(searches[s], searches'[s])
           /\ searches'[s].undisturbed = Find!Disturbed[s].undisturbed
      /\ sel' \in Nat /\ sel' <= 10 * (n + Window)
      /\ lastFoundItem' \in Nat /\ lastFoundItem' < 10 * (n + Window)
  <2> DEFINE known == Find!Disturbed
  <2>1. /\ known \in Seq(Searches) /\ Len(known) = Len(searches)
        /\ \A s \in DOMAIN searches : SameSearch(searches[s], known[s])
        /\ Find!DrawnFrom(n, known)
    BY <1>2
  <2> HIDE DEF known
  <2>2. /\ top' = n /\ searches' \in Seq(Searches) /\ Len(searches') = Len(searches)
        /\ \A s \in DOMAIN searches :
             /\ SameSearch(searches[s], searches'[s])
             /\ searches'[s].undisturbed = known[s].undisturbed
        /\ sel' \in Nat /\ sel' <= 10 * (n + Window)
        /\ lastFoundItem' \in Nat /\ lastFoundItem' < 10 * (n + Window)
    BY <1>1, <2>1, DrawnIs
  <2>3. QED
    BY <2>2 DEF known
<1>4. DOMAIN searches' = 1..Len(searches)
  BY <1>3
<1>5. FindTyped' /\ WithinReach'
  BY <1>3 DEF FindInv, FindTyped, WithinReach, Find!Steps
<1>6. WaitingInOrder'
  <2>1. \A s \in DOMAIN searches' : ~(searches'[s].waits /\ searches'[s].undisturbed)
    BY <1>1, <1>2, <1>3, <1>4 DEF SameSearch
  <2>2. QED
    BY <2>1, NothingWaits
<1>7. AnswersRight'
  <2>1. \A s \in DOMAIN searches' : Answer(searches'[s])
    BY <1>1, <1>3, <1>4, SameAnswer DEF FindInv, AnswersRight
  <2>2. QED
    BY <2>1, AnswersPrimed
<1>8. CalledWaits' /\ Find!LatestIsAnswered'
  <2>1. \A s \in DOMAIN searches : searches'[s].waits = searches[s].waits
    BY <1>3 DEF SameSearch
  <2>2. pendingSearch \in 0..Len(searches)
    BY <1>1 DEF FindTyped
  <2>3. CalledWaits'
    BY <1>1, <2>1, <2>2 DEF FindInv, CalledWaits
  <2>4. Find!LatestIsAnswered'
    <3>1. Len(searches) > 0 => Len(searches) \in DOMAIN searches
      BY <1>1
    <3>2. QED
      BY <1>3, <2>1, <3>1 DEF FindInv, Find!LatestIsAnswered
  <2>5. QED
    BY <2>3, <2>4
<1>9. QED
  BY <1>5, <1>6, <1>7, <1>8 DEF FindInv

LEMMA UserScrollsKeeps == ASSUME Find!Assumptions, FindInv, Find!UserScrolls PROVE FindInv'
<1>1. UNCHANGED <<items, scrollTo, term, pendingSearch, fallback>>
  BY DEF Find!UserScrolls, Find!User, Find!boxVars, Find!waitVars
<1>2. PICK n \in 1..Len(items) - Window + 1 : Find!DrawnFrom(n, Find!Disturbed)
  BY DEF Find!UserScrolls
<1>3. n \in 1..Len(items)
  BY <1>2, ListIs DEF FindInv
<1>4. QED
  BY <1>1, <1>2, <1>3, MovedKeeps

LEMMA CentreFoundKeeps == ASSUME Find!Assumptions, FindInv, Find!CentreFound PROVE FindInv'
<1>1. UNCHANGED <<items, scrollTo, term, pendingSearch, fallback>>
  BY DEF Find!CentreFound, Find!boxVars, Find!waitVars
<1>2. PICK i \in centre : IF i \in top..Find!Bottom THEN Find!DrawnFrom(Find!Centred(i), Find!Disturbed)
                          ELSE UNCHANGED <<top, sel, lastFoundItem, searches>>
  BY DEF Find!CentreFound
<1>3. CASE i \in top..Find!Bottom
  <2>1. i \in 1..Len(items)
    BY <1>3, ListIs DEF FindInv
  <2>2. Find!Centred(i) \in 1..Len(items)
    BY <2>1, CentredIs DEF FindInv
  <2>3. QED
    BY <1>1, <1>2, <1>3, <2>2, MovedKeeps
<1>4. CASE i \notin top..Find!Bottom
  <2>1. Find!LatestIsAnswered' /\ term' \in Terms
    BY <1>1, <1>2, <1>4 DEF FindInv, FindTyped, Find!LatestIsAnswered
  <2>2. QED
    BY <1>1, <1>2, <1>4, <2>1, UntouchedKeeps
<1>5. QED
  BY <1>3, <1>4

\* The list scrolls to where the last search wants it.
LEMMA ListScrollsKeeps == ASSUME Find!Assumptions, FindInv, Find!ListScrolls PROVE FindInv'
<1> DEFINE n == Find!Centred(scrollTo)
<1>1. /\ searches \in Seq(Searches) /\ DOMAIN searches = 1..Len(searches) /\ Len(searches) \in Nat
      /\ FindTyped /\ WithinReach
  BY DEF FindInv, FindTyped
<1>2. /\ scrollTo \in 1..Len(items) /\ scrollTo' = 0 /\ Find!DrawnFrom(n, searches)
      /\ UNCHANGED <<items, term, pendingSearch, fallback>>
  BY <1>1 DEF Find!ListScrolls, Find!boxVars, Find!waitVars, FindTyped
<1>3. n \in 1..Len(items) /\ n <= scrollTo /\ scrollTo <= n + Window - 1
  BY <1>1, <1>2, CentredIs
<1>4. Len(items) \in Nat /\ Window \in Nat \ {0} /\ Find!Steps = 10
  BY <1>1, ListIs DEF Find!Steps
<1> HIDE DEF n
<1>5. /\ top' = n /\ searches' \in Seq(Searches) /\ Len(searches') = Len(searches)
      /\ \A s \in DOMAIN searches :
           /\ SameSearch(searches[s], searches'[s])
           /\ searches'[s].undisturbed = searches[s].undisturbed
      /\ sel' \in Nat /\ sel' <= 10 * (n + Window)
      /\ lastFoundItem' \in Nat /\ lastFoundItem' < 10 * (n + Window)
      /\ \/ sel' = 0 /\ Find!ItemAt(sel) < n
         \/ sel' = sel
         \/ Find!ItemAt(sel) > n + Window - 1
  <2>1. \A s \in DOMAIN searches : SameSearch(searches[s], searches[s])
    BY DEF SameSearch
  <2>2. QED
    BY <1>1, <1>2, <1>3, <2>1, DrawnIs
<1>6. DOMAIN searches' = 1..Len(searches)
  BY <1>5
<1>7. FindTyped' /\ WithinReach'
  BY <1>2, <1>3, <1>4, <1>5 DEF FindInv, FindTyped, WithinReach, Find!Steps
<1>8. Find!Bottom' = IF Len(items) <= n + Window - 1 THEN Len(items) ELSE n + Window - 1
  <2>1. Find!Bottom' = Find!Min({Len(items), n + Window - 1})
    BY <1>2, <1>5 DEF Find!Bottom
  <2>2. n + Window - 1 \in Int
    BY <1>3, <1>4
  <2>3. QED
    BY <1>4, <2>1, <2>2, OfTwo
<1>9. WaitingInOrder'
  <2>1. SUFFICES ASSUME NEW s \in DOMAIN searches', NEW q, NEW r, q = searches[s], r = searches'[s],
                        r.waits, r.undisturbed
                 PROVE  s = Len(searches) /\ (~r.back => OnTheWay(r)')
    BY <1>5 DEF WaitingInOrder, OnTheWay, Hits, Find!Bottom
  <2>2. q \in Searches /\ s \in DOMAIN searches /\ q.waits /\ q.undisturbed /\ SameSearch(q, r)
    <3>1. s \in 1..Len(searches) /\ s \in DOMAIN searches
      BY <1>1, <1>6, <2>1
    <3>2. SameSearch(q, r) /\ r.undisturbed = q.undisturbed
      BY <1>5, <2>1, <3>1
    <3>3. q \in Searches
      BY <1>1, <2>1, <3>1
    <3>4. q.waits /\ q.undisturbed
      BY <2>1, <3>2 DEF SameSearch
    <3>5. QED
      BY <3>1, <3>2, <3>3, <3>4
  <2>3. s = Len(searches) /\ (~q.back => OnTheWay(q))
    BY <2>1, <2>2 DEF FindInv, WaitingInOrder
  <2>4. ASSUME ~q.back PROVE OnTheWay(r)'
    <3>1. /\ Hits(q) # {} /\ q.last < 10 * (q.beyond + 1) /\ q.from <= 10 * (q.beyond + 1)
          /\ scrollTo = Find!Min(Hits(q)) /\ sel = q.from
      BY <1>2, <1>4, <2>3, <2>4 DEF OnTheWay
    <3>2. Hits(r)' = Hits(q)
      BY <1>2, <2>2 DEF Hits, SameSearch
    <3>3. q.beyond \in Nat /\ q.from \in Nat /\ q.last \in Nat
      BY <2>2 DEF Searches
    <3>4. scrollTo >= q.beyond + 1
      <4>1. Hits(q) \in SUBSET Nat
        BY <1>4, <3>3 DEF Hits
      <4>2. scrollTo \in Hits(q)
        BY <3>1, <4>1, MinOf
      <4>3. scrollTo \in q.beyond + 1..Len(items)
        BY <4>2 DEF Hits
      <4>4. QED
        BY <1>4, <3>3, <4>3
    <3>5. scrollTo \in top'..Find!Bottom'
      BY <1>2, <1>3, <1>4, <1>5, <1>8
    <3>6. q.from <= 10 * scrollTo
      BY <1>2, <3>1, <3>3, <3>4
    <3>7. Find!ItemAt(sel) \in Nat /\ 10 * Find!ItemAt(sel) <= sel
      BY <3>1, <3>3, ItemIs
    <3>8. /\ sel' <= 10 * scrollTo
          /\ sel' >= q.from \/ Find!ItemAt(q.from) < n
      <4>1. ~(Find!ItemAt(sel) > n + Window - 1)
        BY <1>2, <1>3, <1>4, <3>1, <3>3, <3>6, <3>7
      <4>2. CASE sel' = 0 /\ Find!ItemAt(sel) < n
        BY <1>2, <3>1, <4>2
      <4>3. CASE sel' = sel
        BY <3>1, <3>3, <3>6, <4>3
      <4>4. QED
        BY <1>5, <4>1, <4>2, <4>3
    <3>9. r.last < 10 * (r.beyond + 1) /\ r.from = q.from /\ r.beyond = q.beyond
      <4>1. r.last \in {q.last, 0} /\ r.from = q.from /\ r.beyond = q.beyond
        BY <2>2 DEF SameSearch
      <4>2. QED
        BY <3>1, <3>3, <4>1
    <3>10. Find!ItemAt(r.from)' = Find!ItemAt(q.from)
      BY <3>9 DEF Find!ItemAt
    <3>11. QED
      BY <1>2, <1>4, <1>5, <3>1, <3>2, <3>5, <3>8, <3>9, <3>10 DEF OnTheWay, Find!Steps, Find!ItemAt
  <2>5. QED
    BY <2>2, <2>3, <2>4 DEF SameSearch
<1>10. AnswersRight'
  <2>1. \A s \in DOMAIN searches' : Answer(searches'[s])
    BY <1>1, <1>5, <1>6, SameAnswer DEF FindInv, AnswersRight
  <2>2. QED
    BY <1>2, <2>1, AnswersPrimed
<1>11. CalledWaits' /\ Find!LatestIsAnswered'
  <2>1. \A s \in DOMAIN searches : searches'[s].waits = searches[s].waits
    BY <1>5 DEF SameSearch
  <2>2. pendingSearch \in 0..Len(searches)
    BY <1>1 DEF FindTyped
  <2>3. CalledWaits'
    BY <1>1, <1>2, <2>1, <2>2 DEF FindInv, CalledWaits
  <2>4. Find!LatestIsAnswered'
    <3>1. Len(searches) > 0 => Len(searches) \in DOMAIN searches
      BY <1>1
    <3>2. QED
      BY <1>2, <1>5, <2>1, <3>1 DEF FindInv, Find!LatestIsAnswered
  <2>5. QED
    BY <2>3, <2>4
<1>12. QED
  BY <1>7, <1>9, <1>10, <1>11 DEF FindInv

\* A search is started: it disturbs those that wait, and its own answer is right
\* or on its way.
LEMMA StartSearchKeeps ==
    ASSUME Find!Assumptions, FindInv, NEW back \in BOOLEAN, UNCHANGED items, Find!StartSearch(back)
    PROVE  FindInv'
<1>1. /\ searches \in Seq(Searches) /\ DOMAIN searches = 1..Len(searches) /\ Len(searches) \in Nat
      /\ FindTyped /\ WithinReach
  BY DEF FindInv, FindTyped
<1>2. UNCHANGED <<top, term>> /\ term \in Terms
  BY <1>1 DEF Find!StartSearch, FindTyped
<1>3. CASE Find!Refused
  <2>1. UNCHANGED <<searches, sel, scrollTo, pendingSearch, fallback>>
    BY <1>3 DEF Find!StartSearch, Find!waitVars
  <2>2. lastFoundItem' \in {lastFoundItem, 0}
    BY <1>3 DEF Find!StartSearch
  <2>3. Find!LatestIsAnswered'
    BY <2>1 DEF FindInv, Find!LatestIsAnswered
  <2>4. QED
    BY <1>2, <2>1, <2>2, <2>3, UntouchedKeeps
<1>4. CASE ~Find!Refused
  <2> DEFINE last == IF currentSearchTerm = term THEN lastFoundItem ELSE 0
             r == Find!Find(term, back, last)
             i == IF r = 0 THEN Find!SearchInData(term, back) ELSE 0
             s == Len(searches) + 1
             q == [term |-> term, back |-> back, last |-> last, from |-> sel, beyond |-> Find!Bottom,
                   waits |-> i # 0, result |-> r, undisturbed |-> TRUE]
  <2>1. /\ searches' = Append(Find!Disturbed, q)
        /\ IF i # 0 THEN /\ pendingSearch' = s /\ fallback' = fallback \cup {s} /\ scrollTo' = i
                         /\ lastFoundItem' = last /\ sel' = sel
           ELSE Find!Ends(term, r, last) /\ UNCHANGED <<pendingSearch, fallback, scrollTo>>
    BY <1>4 DEF Find!StartSearch, Find!waitVars
  <2>2. IF r = 0 THEN lastFoundItem' = last /\ sel' = sel ELSE sel' = r /\ lastFoundItem' \in {last, r}
    BY <2>1 DEF Find!Ends
  <2>3. /\ r \in Nat
        /\ r # 0 => r \in Find!PlacesIn(top..Find!Bottom, term) /\ (~back => r > sel)
    BY <1>1, FindIs
  <2>4. /\ Find!SearchInData(term, back) \in 0..Len(items)
        /\ ~back => LET hits == {n \in Find!Bottom + 1..Len(items) : Find!SearchInItem(items[n], term)}
                    IN  IF Find!SearchInData(term, back) = 0 THEN hits = {}
                        ELSE hits # {} /\ Find!SearchInData(term, back) = Find!Min(hits)
    BY <1>1, SearchInDataIs
  <2>5. /\ Len(items) \in Nat /\ top \in Nat \ {0} /\ Window \in Nat \ {0}
        /\ Find!Bottom \in Nat /\ Find!Bottom <= top + Window - 1
        /\ Find!Bottom < Len(items) => Find!Bottom = top + Window - 1
        /\ top..Find!Bottom \in SUBSET (1..Len(items))
        /\ sel \in Nat /\ lastFoundItem \in Nat /\ Find!Steps = 10
    BY <1>1, ListIs DEF FindTyped, Find!Steps
  <2>6. sel <= 10 * (top + Window) /\ lastFoundItem < 10 * (top + Window)
    BY <1>1, <2>5 DEF WithinReach
  <2>7. last \in Nat /\ last < 10 * (top + Window)
    BY <2>5, <2>6
  <2>8. i \in 0..Len(items) /\ (i # 0 => r = 0)
    BY <2>4, <2>5
  <2>9. r < 10 * (top + Window)
    <3>1. CASE r = 0
      BY <2>5, <3>1
    <3>2. CASE r # 0
      <4>1. Find!ItemAt(r) \in top..Find!Bottom
        BY <1>1, <2>3, <2>5, <3>2, PlaceIs
      <4>2. r < 10 * Find!ItemAt(r) + 10
        BY <2>3, ItemIs
      <4> HIDE DEF r
      <4>3. QED
        BY <2>3, <2>5, <4>1, <4>2
    <3>3. QED
      BY <3>1, <3>2
  <2>10. ~back => IF r = 0 THEN IF i = 0 THEN Hits(q) = {} ELSE Hits(q) # {} /\ i = Find!Min(Hits(q))
                  ELSE r > sel
    <3>1. Hits(q) = {n \in Find!Bottom + 1..Len(items) : Find!SearchInItem(items[n], term)}
      BY DEF Hits
    <3> HIDE DEF q, r
    <3>2. QED
      BY <2>3, <2>4, <3>1
  <2>11. /\ q.term = term /\ q.back = back /\ q.last = last /\ q.from = sel /\ q.beyond = Find!Bottom
         /\ q.waits = (i # 0) /\ q.result = r /\ q.undisturbed
    OBVIOUS
  <2> HIDE DEF last, r, i
  <2>12. q \in Searches
    BY <1>2, <2>3, <2>5, <2>7 DEF Searches
  <2> HIDE DEF q
  <2>13. /\ Find!Disturbed \in Seq(Searches) /\ Len(Find!Disturbed) = Len(searches)
         /\ \A t \in DOMAIN searches :
              /\ SameSearch(searches[t], Find!Disturbed[t])
              /\ ~(Find!Disturbed[t].waits /\ Find!Disturbed[t].undisturbed)
    BY <1>1, DisturbedIs
  <2>14. /\ searches' \in Seq(Searches) /\ Len(searches') = s /\ DOMAIN searches' = 1..s
         /\ searches'[s] = q /\ \A t \in 1..Len(searches) : searches'[t] = Find!Disturbed[t]
    <3> DEFINE known == Find!Disturbed
    <3>1. known \in Seq(Searches) /\ Len(known) = Len(searches) /\ searches' = Append(known, q)
      BY <2>1, <2>13
    <3> HIDE DEF known
    <3>2. /\ searches' \in Seq(Searches) /\ Len(searches') = s /\ DOMAIN searches' = 1..s
          /\ searches'[s] = q /\ \A t \in 1..Len(searches) : searches'[t] = known[t]
      BY <1>1, <2>12, <3>1
    <3>3. QED
      BY <3>2 DEF known
  <2>15. FindTyped'
    <3>1. sel' \in Nat /\ lastFoundItem' \in Nat
      BY <2>2, <2>3, <2>5, <2>7
    <3>2. pendingSearch' \in 0..s /\ fallback' \subseteq 1..s /\ scrollTo' \in 0..Len(items)
      <4>1. /\ pendingSearch \in 0..Len(searches) /\ fallback \subseteq 1..Len(searches)
            /\ scrollTo \in 0..Len(items)
        BY <1>1 DEF FindTyped
      <4>2. s \in 1..s /\ s \in 0..s /\ 0..Len(searches) \subseteq 0..s /\ 1..Len(searches) \subseteq 1..s
        BY <1>1
      <4> HIDE DEF s
      <4>3. CASE i # 0
        BY <2>1, <2>8, <4>1, <4>2, <4>3
      <4>4. CASE i = 0
        BY <2>1, <4>1, <4>2, <4>4
      <4>5. QED
        BY <4>3, <4>4
    <3>3. QED
      BY <1>1, <1>2, <2>14, <3>1, <3>2 DEF FindTyped
  <2>16. WithinReach'
    <3>1. sel' <= 10 * (top + Window) /\ lastFoundItem' < 10 * (top + Window)
      BY <2>2, <2>3, <2>5, <2>6, <2>7, <2>9
    <3>2. QED
      BY <1>2, <2>5, <3>1 DEF WithinReach
  <2>17. CalledWaits'
    <3>1. CASE i # 0
      BY <2>1, <2>11, <2>14, <3>1 DEF CalledWaits
    <3>2. CASE i = 0
      <4>1. pendingSearch' = pendingSearch /\ pendingSearch \in 0..Len(searches)
        BY <1>1, <2>1, <3>2 DEF FindTyped
      <4>2. pendingSearch # 0 => searches'[pendingSearch].waits = searches[pendingSearch].waits
        BY <1>1, <2>13, <2>14, <4>1 DEF SameSearch
      <4>3. QED
        BY <4>1, <4>2 DEF FindInv, CalledWaits
    <3>3. QED
      BY <3>1, <3>2
  <2>18. Find!LatestIsAnswered'
    <3>1. i # 0 => pendingSearch' = s /\ s \in fallback'
      BY <2>1
    <3>2. Len(searches') = s /\ searches'[s].waits = (i # 0)
      BY <2>11, <2>14
    <3> HIDE DEF s
    <3>3. QED
      BY <3>1, <3>2 DEF Find!LatestIsAnswered
  <2>19. AnswersRight'
    <3>1. ASSUME NEW t \in DOMAIN searches' PROVE Answer(searches'[t])
      <4>1. CASE t = s
        <5>1. Answer(q)
          BY <2>3, <2>5, <2>10, <2>11 DEF Answer
        <5>2. QED
          BY <2>14, <4>1, <5>1
      <4>2. CASE t # s
        <5>1. t \in 1..Len(searches)
          BY <1>1, <2>14, <3>1, <4>2
        <5>2. SameSearch(searches[t], searches'[t]) /\ Answer(searches[t])
          BY <1>1, <2>13, <2>14, <5>1 DEF FindInv, AnswersRight
        <5>3. QED
          BY <5>2, SameAnswer
      <4>3. QED
        BY <4>1, <4>2
    <3>2. QED
      BY <3>1, AnswersPrimed
  <2>20. WaitingInOrder'
    <3>1. SUFFICES ASSUME NEW t \in DOMAIN searches', NEW c, c = searches'[t], c.waits, c.undisturbed
                   PROVE  t = s /\ (~c.back => OnTheWay(c)')
      BY <2>14 DEF WaitingInOrder, OnTheWay, Hits, Find!Bottom
    <3>2. t = s
      <4>1. ASSUME t # s PROVE FALSE
        <5>1. t \in 1..Len(searches)
          BY <1>1, <2>14, <3>1, <4>1
        <5>2. c = Find!Disturbed[t]
          BY <2>14, <3>1, <5>1
        <5>3. QED
          BY <1>1, <2>13, <3>1, <5>1, <5>2
      <4>2. QED
        BY <4>1
    <3>3. c = q /\ i # 0 /\ r = 0
      BY <2>8, <2>11, <2>14, <3>1, <3>2
    <3>4. ASSUME ~c.back PROVE OnTheWay(c)'
      <4>1. Hits(c) # {} /\ i = Find!Min(Hits(c))
        BY <2>10, <2>11, <3>3, <3>4
      <4>2. Hits(c)' = Hits(c)
        BY DEF Hits
      <4>3. Find!Bottom < Len(items)
        <5>1. PICK n \in Hits(c) : TRUE
          BY <4>1
        <5>2. n \in Find!Bottom + 1..Len(items)
          BY <2>11, <3>3, <5>1 DEF Hits
        <5>3. QED
          BY <2>5, <5>2
      <4>4. c.last < 10 * (c.beyond + 1) /\ c.from <= 10 * (c.beyond + 1)
        BY <2>5, <2>6, <2>7, <2>11, <3>3, <4>3
      <4>5. scrollTo' = i /\ sel' = c.from
        BY <2>1, <2>11, <3>3
      <4>6. QED
        BY <2>5, <4>1, <4>2, <4>4, <4>5 DEF OnTheWay, Find!Steps
    <3>5. QED
      BY <3>2, <3>4
  <2>21. QED
    BY <2>15, <2>16, <2>17, <2>18, <2>19, <2>20 DEF FindInv
<1>5. QED
  BY <1>3, <1>4

LEMMA FindNext == ASSUME Find!Assumptions, FindInv, [Find!Next]_(Find!vars) PROVE FindInv'
<1> DEFINE Idle == UNCHANGED <<items, top, sel, scrollTo, searches, lastFoundItem, pendingSearch, fallback>>
<1>1. ASSUME Idle, term' \in Terms PROVE FindInv'
  <2>1. Find!LatestIsAnswered'
    BY <1>1 DEF FindInv, Find!LatestIsAnswered
  <2>2. QED
    BY <1>1, <2>1, UntouchedKeeps
<1>2. term \in Terms
  BY DEF FindInv, FindTyped
<1>3. ASSUME NEW t \in Terms, Find!Type(t) PROVE FindInv'
  BY <1>1, <1>3 DEF Find!Type, Find!User, Find!listVars, Find!waitVars
<1>4. CASE Find!Press
  <2>1. PICK back \in BOOLEAN : Find!User /\ Find!StartSearch(back)
    BY <1>4 DEF Find!Press
  <2>2. QED
    BY <2>1, StartSearchKeeps DEF Find!User
<1>5. CASE Find!TypingPauses
  <2>1. CASE Find!StartSearch(FALSE)
    BY <1>5, <2>1, StartSearchKeeps DEF Find!TypingPauses
  <2>2. CASE ~Find!StartSearch(FALSE)
    BY <1>1, <1>2, <1>5, <2>2 DEF Find!TypingPauses, Find!listVars, Find!waitVars
  <2>3. QED
    BY <2>1, <2>2
<1>6. CASE Find!Close
  BY <1>1, <1>2, <1>6 DEF Find!Close, Find!User, Find!listVars, Find!waitVars
<1>7. CASE Find!SearchFallback
  BY <1>7, FallbackKeeps DEF Find!SearchFallback
<1>8. CASE Find!ListStops
  BY <1>1, <1>2, <1>8 DEF Find!ListStops, Find!bandVars, Find!boxVars
<1>9. CASE UNCHANGED Find!vars
  BY <1>1, <1>2, <1>9 DEF Find!vars, Find!listVars, Find!bandVars, Find!boxVars, Find!waitVars
<1>10. QED
  BY <1>3, <1>4, <1>5, <1>6, <1>7, <1>8, <1>9, AfterStopKeeps, ListScrollsKeeps, UserScrollsKeeps,
     CentreFoundKeeps DEF Find!Next

LEMMA FindHold == ASSUME Find!Assumptions PROVE Find!Spec => []FindInv
<1>1. Find!Init => FindInv
  BY FindInit
<1>2. FindInv /\ [Find!Next]_(Find!vars) => FindInv'
  BY FindNext
<1>3. QED
  BY <1>1, <1>2, PTL DEF Find!Spec

\* Everything has its type, whatever is typed, searched and scrolled in whichever
\* order the timers of the band and the list run out (FindBand.tsx,
\* LiveVirtualList.tsx).
THEOREM FindTypes == ASSUME Find!Assumptions PROVE Find!Spec => []Find!TypeOK
<1>1. FindInv => Find!TypeOK
  <2>1. ASSUME FindInv PROVE Find!TypeOK
    <3>1. DOMAIN items = 1..Len(items) /\ Len(items) \in Nat
      BY <2>1, ListIs DEF FindInv
    <3>2. DOMAIN searches = 1..Len(searches) /\ Len(searches) \in Nat
      BY <2>1 DEF FindInv, FindTyped
    <3>3. QED
      BY <2>1, <3>1, <3>2 DEF FindInv, FindTyped, Find!TypeOK
  <2>2. QED
    BY <2>1
<1>2. QED
  BY <1>1, FindHold, PTL

\* The search that was started last never waits for nothing: it is the one that is
\* called back, and its fallback of 200 ms is still to come (onContentReady).
THEOREM LatestSearchAnswered == ASSUME Find!Assumptions PROVE Find!Spec => []Find!LatestIsAnswered
<1>1. FindInv => Find!LatestIsAnswered
  BY DEF FindInv
<1>2. QED
  BY <1>1, FindHold, PTL

\* "No results" is shown for a reason: behind the drawn items no text has the
\* term, or the first that has it does not show it (searchInData, handleSearch).
THEOREM NoResultsForAReason == ASSUME Find!Assumptions PROVE Find!Spec => []Find!NoResultsIsTrue
<1>1. FindInv => Find!NoResultsIsTrue
  BY DEF FindInv, AnswersRight, Answer, Hits, Find!NoResultsIsTrue
<1>2. QED
  BY <1>1, FindHold, PTL

\* Next never selects what comes before the place where it began, however far the
\* list has to be scrolled in between.
THEOREM NextNeverGoesBack ==
    ASSUME Find!Assumptions PROVE Find!Spec => [][Find!NextGoesOn]_(Find!vars)
<1>1. FindInv /\ [Find!Next]_(Find!vars) => [Find!NextGoesOn]_(Find!vars)
  <2>1. ASSUME FindInv, [Find!Next]_(Find!vars) PROVE Find!NextGoesOn
    <3>1. FindInv'
      BY <2>1, FindNext
    <3>2. QED
      BY <3>1 DEF FindInv, AnswersRight, Answer, Find!NextGoesOn
  <2>2. QED
    BY <2>1
<1>2. QED
  BY <1>1, FindHold, PTL DEF Find!Spec

-----------------------------------------------------------------------------
(* Pages and what is saved of them *)

Addresses == [scanner : Scanners \cup {Place!None}, tab : Place!Tabs, validation : BOOLEAN]
PagesOfViewer ==
  {p \in [name : {"scans", "transcripts", "scan", "result"}, scan : Scans \cup {Place!None},
          result : Results \cup {Place!None}, params : Addresses] :
     p.name \in {"scan", "result"} => p.scan \in Scans}
StoresOfViewer ==
  [location : Scans \cup {Place!None}, scanner : Scanners \cup {Place!None},
   selected : Results \cup {Place!None}, displayed : Results \cup {Place!None},
   resultsTab : {Place!ScanTab, Place!None},
   resultTab : ResultTabs \cup OtherTabs \cup {Place!None},
   singleFile : BOOLEAN, hasEmbedded : BOOLEAN, hasRouted : BOOLEAN]
MessagesOfViewer == Place!Messages \cup {Place!Nothing}

\* The store says what page p needs.
Follows(s, p) ==
  p.name \in {"scan", "result"} =>
    /\ s.location = p.scan
    /\ p.params.scanner \in {Place!None, s.scanner}
    /\ p.name = "result" => /\ p.result = s.selected
                            /\ p.result = s.displayed
                            /\ p.params.tab \in ResultTabs => p.params.tab = s.resultTab
\* What page p will not take from its address, the store says already.
Prepared(s, q, p) ==
  q.name = p.name /\ q.params = p.params =>
    /\ p.name \in {"scan", "result"} => p.params.scanner \in {Place!None, s.scanner}
    /\ p.name = "result" /\ p.params.tab \in ResultTabs => p.params.tab = s.resultTab

PlaceTyped ==
  /\ webview \in BOOLEAN /\ embedded \in MessagesOfViewer
  /\ route \in PagesOfViewer /\ past \in Seq(PagesOfViewer) /\ future \in Seq(PagesOfViewer)
  /\ loaded \subseteq Scans
  /\ store \in StoresOfViewer /\ store.hasEmbedded = TRUE
  /\ clicks \in 0 .. MaxClicks[webview]
\* What will be saved is the store, and what is saved was it.
PlaceSaved ==
  /\ saving # Place!NotSaved => saving = Place!Saved(Place!Persisted(store))
  /\ disk # Place!NotSaved =>
       \E s \in StoresOfViewer : s.hasEmbedded = TRUE /\ disk = Place!Saved(s)
PlaceInv ==
  PlaceTyped /\ PlaceSaved /\ Place!StoreFollowsAddress /\ Place!SavedIsCurrent

LEMMA PersistedIs ==
    ASSUME NEW s \in StoresOfViewer
    PROVE  /\ Place!Persisted(s) \in StoresOfViewer
           /\ Place!Persisted(s).hasEmbedded = s.hasEmbedded
           /\ Place!Persisted(s).location = s.location
           /\ Place!Persisted(s).displayed = s.displayed
           /\ Place!Persisted(s).hasRouted = FALSE
           /\ Place!Saved(Place!Persisted(s)) # Place!NotSaved
<1>1. Place!Saved(Place!Persisted(s)).type = "saved" /\ Place!NotSaved.type = "none"
  BY DEF Place!Saved, Place!NotSaved
<1>2. QED
  BY <1>1 DEF StoresOfViewer, Place!Persisted

\* The effects of a page make the store follow its address.
LEMMA EffectsFollow ==
    ASSUME NEW s \in StoresOfViewer, NEW q, NEW p \in PagesOfViewer, Prepared(s, q, p)
    PROVE  /\ Place!Effects(s, q, p) \in StoresOfViewer
           /\ Place!Effects(s, q, p).hasEmbedded = s.hasEmbedded
           /\ Follows(Place!Effects(s, q, p), p)
<1> DEFINE mounts == q.name # p.name
           changed == q.params # p.params
           e == Place!Effects(s, q, p)
           scanner == Place!ScannerFor(s, mounts, changed, p)
<1>1. /\ scanner \in Scanners \cup {Place!None}
      /\ p.name \in {"scan", "result"} => p.params.scanner \in {Place!None, scanner}
  BY DEF Place!ScannerFor, StoresOfViewer, PagesOfViewer, Addresses, Prepared
<1>2. CASE p.name = "scans"
  BY <1>2 DEF Place!Effects, Place!ScansMounted, StoresOfViewer, Follows
<1>3. CASE p.name = "transcripts"
  BY <1>3 DEF Place!Effects, StoresOfViewer, Follows
<1>4. CASE p.name = "scan"
  <2>1. e = Place!ScanShown(s, mounts, changed, p)
    BY <1>4 DEF Place!Effects
  <2> DEFINE tab == CASE mounts -> Place!None
                      [] /\ ~mounts /\ changed /\ p.params.tab = Place!ScanTab
                         /\ p.scan \in loaded -> Place!ScanTab
                      [] OTHER -> s.resultsTab
             other == IF mounts THEN Place!None ELSE s.resultTab
  <2>2. tab \in {Place!ScanTab, Place!None} /\ other \in ResultTabs \cup OtherTabs \cup {Place!None}
    BY DEF StoresOfViewer
  <2>3. e = [s EXCEPT !.location = p.scan, !.scanner = scanner, !.resultsTab = tab, !.resultTab = other]
    BY <2>1 DEF Place!ScanShown
  <2>4. p.scan \in Scans \cup {Place!None}
    BY DEF PagesOfViewer
  <2> HIDE DEF scanner, tab, other, e
  <2>5. e \in StoresOfViewer /\ e.hasEmbedded = s.hasEmbedded /\ e.location = p.scan /\ e.scanner = scanner
    BY <1>1, <2>2, <2>3, <2>4 DEF StoresOfViewer
  <2>6. QED
    BY <1>1, <1>4, <2>5 DEF e, Follows
<1>5. CASE p.name = "result"
  <2>1. e = Place!ResultShown(s, mounts, changed, p)
    BY <1>5 DEF Place!Effects
  <2> DEFINE tab == IF (mounts \/ changed) /\ p.params.tab \in ResultTabs
                    THEN p.params.tab ELSE s.resultTab
  <2>2. /\ tab \in ResultTabs \cup OtherTabs \cup {Place!None}
        /\ p.params.tab \in ResultTabs => tab = p.params.tab
    BY <1>5 DEF StoresOfViewer, Prepared
  <2>3. e = [s EXCEPT !.location = p.scan, !.scanner = scanner, !.selected = p.result,
                      !.displayed = p.result, !.resultTab = tab]
    BY <2>1 DEF Place!ResultShown
  <2>4. p.scan \in Scans \cup {Place!None} /\ p.result \in Results \cup {Place!None}
    BY DEF PagesOfViewer
  <2> HIDE DEF scanner, tab, e
  <2>5. /\ e \in StoresOfViewer /\ e.hasEmbedded = s.hasEmbedded /\ e.location = p.scan
        /\ e.scanner = scanner /\ e.selected = p.result /\ e.displayed = p.result
        /\ e.resultTab = tab
    BY <1>1, <2>2, <2>3, <2>4 DEF StoresOfViewer
  <2>6. QED
    BY <1>1, <1>5, <2>2, <2>5 DEF e, Follows
<1>6. QED
  BY <1>2, <1>3, <1>4, <1>5 DEF PagesOfViewer

LEMMA PagesAre ==
           /\ Place!NoParams \in Addresses
           /\ Place!ScansPage \in PagesOfViewer /\ Place!Transcripts \in PagesOfViewer
           /\ \A s \in Scans, a \in Addresses :
                /\ Place!ScanRoute(s, a) \in PagesOfViewer
                /\ \A r \in Results \cup {Place!None} : Place!ResultRoute(s, r, a) \in PagesOfViewer
<1>1. Place!NoParams \in Addresses
  BY DEF Place!NoParams, Addresses, Place!Tabs
<1>2. Place!ScansPage \in PagesOfViewer /\ Place!Transcripts \in PagesOfViewer
  BY <1>1 DEF Place!ScansPage, Place!Transcripts, Place!At, PagesOfViewer
<1>3. ASSUME NEW s \in Scans, NEW a \in Addresses
      PROVE  /\ Place!ScanRoute(s, a) \in PagesOfViewer
             /\ \A r \in Results \cup {Place!None} : Place!ResultRoute(s, r, a) \in PagesOfViewer
  <2>1. [a EXCEPT !.tab = Place!None] \in Addresses
    BY DEF Addresses, Place!Tabs
  <2>2. QED
    BY <2>1 DEF Place!ScanRoute, Place!ResultRoute, Place!At, PagesOfViewer
<1>4. QED
  BY <1>1, <1>2, <1>3

LEMMA LandsThere ==
    ASSUME Place!Assumptions, NEW p \in PagesOfViewer PROVE Place!Landing(p) = p
  BY DEF Place!Assumptions, PagesOfViewer, Place!Landing

\* A message keeps what the store has of a scan, and leads to a page.
LEMMA MessageIs ==
    ASSUME Place!Assumptions, NEW s \in StoresOfViewer, NEW m \in MessagesOfViewer,
           NEW p \in PagesOfViewer
    PROVE  /\ Place!AfterMessage(s, m) \in StoresOfViewer
           /\ Place!AfterMessage(s, m).hasEmbedded = s.hasEmbedded
           /\ Place!MessageRoute(m, p) \in PagesOfViewer
           /\ m.type = "nothing" => Place!MessageRoute(m, p) = p
           /\ m.type # "nothing" =>
                /\ Place!MessageRoute(m, p).params.scanner = Place!None
                /\ Place!MessageRoute(m, p).name # "result"
<1>1. CASE m = Place!Nothing
  BY <1>1 DEF Place!Nothing, Place!AfterMessage, Place!MessageRoute, StoresOfViewer
<1>2. ASSUME NEW r \in Place!Routes, NEW mode \in {"full", "single-file"}, m = Place!UpdateRoute(r, mode)
      PROVE  /\ Place!AfterMessage(s, m) \in StoresOfViewer
             /\ Place!AfterMessage(s, m).hasEmbedded = s.hasEmbedded
             /\ Place!MessageRoute(m, p) \in PagesOfViewer
             /\ Place!MessageRoute(m, p).params.scanner = Place!None
             /\ Place!MessageRoute(m, p).name # "result" /\ m.type # "nothing"
  <2>1. m.type = "updateRoute" /\ m.route = r
    BY <1>2 DEF Place!UpdateRoute
  <2>2. Place!AfterMessage(s, m) = [s EXCEPT !.singleFile = (m.mode = "single-file")]
    BY <2>1 DEF Place!AfterMessage
  <2>3. Place!MessageRoute(m, p) = Place!Landing(r)
    BY <2>1 DEF Place!MessageRoute
  <2>4. Place!ScansPage.params.scanner = Place!None /\ Place!ScansPage.name = "scans"
    BY DEF Place!ScansPage, Place!At, Place!NoParams
  <2>5. CASE r = Place!ScansPage
    <3>1. Place!Landing(r) = Place!ScansPage
      BY <2>4, <2>5 DEF Place!Landing
    <3>2. QED
      BY <2>1, <2>2, <2>3, <2>4, <3>1, PagesAre DEF StoresOfViewer
  <2>6. ASSUME NEW c \in Scans \cup {Place!Bad}, r = Place!ScanRoute(c, Place!NoParams)
        PROVE  /\ Place!Landing(r) \in PagesOfViewer
               /\ Place!Landing(r).params.scanner = Place!None
               /\ Place!Landing(r).name # "result"
    <3>1. /\ r.name = "scan" /\ r.scan = c
          /\ r.params.scanner = Place!None
      BY <2>6 DEF Place!ScanRoute, Place!At, Place!NoParams
    <3>2. CASE c = Place!Bad
      BY <2>4, <3>1, <3>2, PagesAre DEF Place!Landing
    <3>3. CASE c \in Scans
      <4>1. r \in PagesOfViewer
        BY <2>6, <3>3, PagesAre
      <4>2. QED
        BY <3>1, <4>1, LandsThere
    <3>4. QED
      BY <3>2, <3>3
  <2>7. QED
    BY <1>2, <2>1, <2>2, <2>3, <2>5, <2>6 DEF Place!Routes, StoresOfViewer
<1>3. ASSUME NEW c \in Scans, NEW k \in Scanners \cup {Place!None}, m = Place!UpdateState(c, k)
      PROVE  /\ Place!AfterMessage(s, m) \in StoresOfViewer
             /\ Place!AfterMessage(s, m).hasEmbedded = s.hasEmbedded
             /\ Place!MessageRoute(m, p) \in PagesOfViewer
             /\ Place!MessageRoute(m, p).params.scanner = Place!None
             /\ Place!MessageRoute(m, p).name # "result" /\ m.type # "nothing"
  <2>1. m.type = "updateState" /\ m.scan = c /\ m.scanner = k
    BY <1>3 DEF Place!UpdateState
  <2>2. Place!MessageRoute(m, p) = Place!ScanRoute(c, Place!NoParams)
    BY <2>1 DEF Place!MessageRoute
  <2>3. /\ Place!ScanRoute(c, Place!NoParams).params.scanner = Place!None
        /\ Place!ScanRoute(c, Place!NoParams).name = "scan"
    BY DEF Place!ScanRoute, Place!At, Place!NoParams
  <2>4. Place!AfterMessage(s, m) =
          [s EXCEPT !.singleFile = TRUE, !.scanner = IF k # Place!None THEN k ELSE s.scanner]
    BY <2>1 DEF Place!AfterMessage
  <2>5. /\ Place!AfterMessage(s, m) \in StoresOfViewer
        /\ Place!AfterMessage(s, m).hasEmbedded = s.hasEmbedded
    BY <2>4 DEF StoresOfViewer
  <2>6. Place!ScanRoute(c, Place!NoParams) \in PagesOfViewer
    BY PagesAre
  <2>7. QED
    BY <2>1, <2>2, <2>3, <2>5, <2>6
<1>4. Place!Nothing.type = "nothing"
  BY DEF Place!Nothing
<1>5. CASE m \in Place!Messages
  <2>1. \/ \E r \in Place!Routes, mode \in {"full", "single-file"} : m = Place!UpdateRoute(r, mode)
        \/ \E c \in Scans, k \in Scanners \cup {Place!None} : m = Place!UpdateState(c, k)
    BY <1>5 DEF Place!Messages
  <2>2. QED
    BY <1>2, <1>3, <2>1
<1>6. QED
  BY <1>1, <1>4, <1>5 DEF MessagesOfViewer

\* A document that appears shows a page, and its store follows it.
LEMMA StartIs ==
    ASSUME Place!Assumptions, embedded \in MessagesOfViewer, NEW s \in StoresOfViewer,
           NEW p \in PagesOfViewer \cup {Place!Root}
    PROVE  /\ Place!StartPage(s, p) \in PagesOfViewer
           /\ Place!StartStore(s, p) \in StoresOfViewer
           /\ Place!StartStore(s, p).hasEmbedded = TRUE
           /\ Follows(Place!StartStore(s, p), Place!StartPage(s, p))
<1> DEFINE m == Place!Embedded(s)
           there == IF p = Place!Root THEN Place!Transcripts ELSE p
           q == Place!MessageRoute(m, there)
           t == Place!AfterMessage(s, m)
           start == Place!StartPage(s, p)
           e == Place!Effects(t, Place!Root, start)
<1>1. m \in MessagesOfViewer
  BY DEF Place!Embedded, Place!Handled, MessagesOfViewer
<1>2. there \in PagesOfViewer
  BY PagesAre
<1>3. q \in PagesOfViewer /\ t \in StoresOfViewer
  BY <1>1, <1>2, MessageIs
<1>4. start \in PagesOfViewer
  <2>1. start = IF /\ ~s.hasRouted /\ q \in {Place!ScansPage, Place!Transcripts}
                   /\ s.location # Place!None
                THEN IF s.displayed # Place!None
                     THEN Place!ResultRoute(s.location, s.displayed, Place!NoParams)
                     ELSE Place!ScanRoute(s.location, Place!NoParams)
                ELSE q
    BY DEF Place!StartPage
  <2>2. /\ s.location # Place!None => s.location \in Scans
        /\ s.displayed \in Results \cup {Place!None}
    BY DEF StoresOfViewer
  <2> HIDE DEF q, start
  <2>3. QED
    BY <1>3, <2>1, <2>2, PagesAre
<1>5. Prepared(t, Place!Root, start)
  <2>1. Place!Root.name = "root"
    BY DEF Place!Root, Place!At
  <2> HIDE DEF start
  <2>2. start.name # "root"
    BY <1>4 DEF PagesOfViewer
  <2>3. QED
    BY <2>1, <2>2 DEF Prepared
<1>6. Place!StartStore(s, p) = [e EXCEPT !.hasEmbedded = TRUE, !.hasRouted = TRUE]
  BY DEF Place!StartStore
<1> HIDE DEF m, t, q, start
<1>7. e \in StoresOfViewer /\ Follows(e, start)
  BY <1>3, <1>4, <1>5, EffectsFollow
<1> HIDE DEF e
<1>8. QED
  BY <1>4, <1>6, <1>7 DEF StoresOfViewer, Follows, start

\* A page that is reached, and the store after its effects.
LEMMA PlaceReached ==
    ASSUME Place!Assumptions, PlaceInv, NEW s \in StoresOfViewer, s.hasEmbedded = TRUE,
           NEW p \in PagesOfViewer, Prepared(s, route, p),
           route' = p, Place!SetStore(Place!Effects(s, route, p)), Place!Input,
           UNCHANGED <<webview, embedded, loaded, disk>>,
           past' \in Seq(PagesOfViewer), future' \in Seq(PagesOfViewer)
    PROVE  PlaceInv'
<1> DEFINE e == Place!Effects(s, route, p)
<1>1. e \in StoresOfViewer /\ e.hasEmbedded = TRUE /\ Follows(e, p)
  BY EffectsFollow
<1>2. store' = e /\ saving' = IF webview THEN Place!Saved(Place!Persisted(e)) ELSE Place!NotSaved
  BY DEF Place!SetStore, Place!Args
<1> HIDE DEF e
<1>3. PlaceTyped'
  <2>1. clicks' \in 0 .. MaxClicks[webview]
    BY DEF PlaceInv, PlaceTyped, Place!Input, Place!Assumptions
  <2>2. QED
    BY <1>1, <1>2, <2>1 DEF PlaceInv, PlaceTyped
<1>4. PlaceSaved'
  BY <1>2 DEF PlaceInv, PlaceSaved, Place!Saved, Place!Persisted
<1>5. Place!StoreFollowsAddress'
  BY <1>1, <1>2 DEF Place!StoreFollowsAddress, Follows
<1>6. Place!SavedIsCurrent'
  BY <1>1, <1>2, PersistedIs DEF Place!SavedIsCurrent
<1>7. QED
  BY <1>3, <1>4, <1>5, <1>6 DEF PlaceInv

\* A store that follows its page is prepared for any other one.
LEMMA StoreIsPrepared ==
    ASSUME PlaceInv, NEW p PROVE Prepared(store, route, p)
  BY DEF PlaceInv, Place!StoreFollowsAddress, Prepared

LEMMA PlaceGoes ==
    ASSUME Place!Assumptions, PlaceInv, NEW s \in StoresOfViewer, s.hasEmbedded = TRUE,
           NEW p \in PagesOfViewer, Prepared(s, route, p), Place!Input,
           Place!Replace(s, p) \/ Place!Push(s, p)
    PROVE  PlaceInv' /\ returns' = returns
<1>1. Place!Landing(p) = p
  BY LandsThere
<1>2. /\ route' = p /\ Place!SetStore(Place!Effects(s, route, p))
      /\ UNCHANGED <<webview, embedded, loaded, disk, returns>>
  BY <1>1 DEF Place!Replace, Place!Push
<1>3. past' \in Seq(PagesOfViewer) /\ future' \in Seq(PagesOfViewer)
  <2>1. past \in Seq(PagesOfViewer) /\ future \in Seq(PagesOfViewer) /\ route \in PagesOfViewer
    BY DEF PlaceInv, PlaceTyped
  <2>2. \/ past' = past /\ future' = future
        \/ past' = Append(past, route) /\ future' = <<>>
    BY DEF Place!Replace, Place!Push, Place!historyVars
  <2>3. <<>> \in Seq(PagesOfViewer) /\ Append(past, route) \in Seq(PagesOfViewer)
    BY <2>1
  <2>4. QED
    BY <2>1, <2>2, <2>3
<1>4. QED
  BY <1>2, <1>3, PlaceReached

LEMMA PlaceInit == Place!Assumptions /\ Place!Init => PlaceInv
<1> SUFFICES ASSUME Place!Assumptions, Place!Init PROVE PlaceInv
  OBVIOUS
<1>1. embedded \in MessagesOfViewer /\ webview \in BOOLEAN
  BY DEF Place!Init, MessagesOfViewer
<1>2. Place!InitialStore \in StoresOfViewer
  BY DEF Place!InitialStore, StoresOfViewer
<1>3. PICK p \in PagesOfViewer \cup {Place!Root} :
        /\ route = Place!StartPage(Place!InitialStore, p)
        /\ store = Place!StartStore(Place!InitialStore, p)
  <2>1. \A p \in Place!Routes \ {Place!ScanRoute(Place!Bad, Place!NoParams)} : p \in PagesOfViewer
    BY PagesAre DEF Place!Routes
  <2>2. QED
    BY <2>1 DEF Place!Init
<1>4. /\ route \in PagesOfViewer /\ store \in StoresOfViewer /\ store.hasEmbedded = TRUE
      /\ Follows(store, route)
  BY <1>1, <1>2, <1>3, StartIs
<1>5. PlaceTyped
  <2>1. clicks \in 0 .. MaxClicks[webview]
    BY <1>1 DEF Place!Init, Place!Assumptions
  <2>2. QED
    BY <1>1, <1>4, <2>1 DEF PlaceTyped, Place!Init
<1>6. PlaceSaved
  BY DEF PlaceSaved, Place!Init
<1>7. Place!StoreFollowsAddress
  BY <1>4 DEF Place!StoreFollowsAddress, Follows
<1>8. Place!SavedIsCurrent
  BY <1>4, PersistedIs DEF Place!Init, Place!SavedIsCurrent
<1>9. QED
  BY <1>5, <1>6, <1>7, <1>8 DEF PlaceInv

\* A webview that comes back starts from what is saved, a browser from nothing.
LEMMA PlaceReturn ==
    ASSUME Place!Assumptions, PlaceInv, Place!Return PROVE PlaceInv' /\ Place!ReturnsToScan
<1> DEFINE s == IF webview /\ disk # Place!NotSaved THEN disk.state ELSE Place!InitialStore
           p == IF webview THEN Place!Root ELSE route
           start == Place!StartPage(s, p)
           after == Place!StartStore(s, p)
<1>1. /\ Place!Input /\ route' = start /\ loaded' = {} /\ store' = after
      /\ saving' = IF webview THEN Place!Saved(Place!Persisted(after)) ELSE Place!NotSaved
      /\ UNCHANGED <<webview, embedded, disk>>
      /\ \/ past' = <<>> /\ future' = <<>>
         \/ past' = past /\ future' = future
  BY DEF Place!Return, Place!historyVars
<1>2. s \in StoresOfViewer
  <2>1. Place!InitialStore \in StoresOfViewer
    BY DEF Place!InitialStore, StoresOfViewer
  <2>2. disk # Place!NotSaved => disk.state \in StoresOfViewer
    BY DEF PlaceInv, PlaceSaved, Place!Saved
  <2>3. QED
    BY <2>1, <2>2
<1>3. p \in PagesOfViewer \cup {Place!Root}
  BY DEF PlaceInv, PlaceTyped
<1>4. /\ start \in PagesOfViewer /\ after \in StoresOfViewer /\ after.hasEmbedded = TRUE
      /\ Follows(after, start)
  BY <1>2, <1>3, StartIs DEF PlaceInv, PlaceTyped
<1>5. Place!ReturnsToScan
  <2>1. SUFFICES ASSUME webview, saving = Place!NotSaved, route.name \in {"scan", "result"}
                 PROVE  route'.scan = route.scan
    BY DEF Place!ReturnsToScan
  <2>2. store \in StoresOfViewer /\ store.hasEmbedded = TRUE /\ disk = Place!Saved(Place!Persisted(store))
    BY <2>1 DEF PlaceInv, PlaceTyped, Place!SavedIsCurrent, Place!Persisted
  <2>3. /\ Place!Persisted(store).hasEmbedded = TRUE
        /\ Place!Persisted(store).location = store.location
        /\ Place!Persisted(store).hasRouted = FALSE
        /\ Place!Saved(Place!Persisted(store)) # Place!NotSaved
    BY <2>2, PersistedIs
  <2>4. s = Place!Persisted(store)
    BY <2>1, <2>2, <2>3 DEF Place!Saved
  <2>5. store.location = route.scan /\ store.location # Place!None
    BY <2>1 DEF PlaceInv, PlaceTyped, PagesOfViewer, Place!StoreFollowsAddress, Place!Assumptions
  <2> HIDE DEF s
  <2>6. s.hasEmbedded = TRUE /\ s.hasRouted = FALSE /\ s.location = route.scan /\ s.location # Place!None
    BY <2>3, <2>4, <2>5
  <2>7. Place!Embedded(s) = Place!Nothing
    BY <2>6 DEF Place!Embedded, Place!Handled, Place!Nothing
  <2>8. Place!MessageRoute(Place!Embedded(s), Place!Transcripts) = Place!Transcripts
    BY <2>7 DEF Place!MessageRoute, Place!Nothing
  <2>9. p = Place!Root
    BY <2>1
  <2>10. start = IF s.displayed # Place!None
                 THEN Place!ResultRoute(s.location, s.displayed, Place!NoParams)
                 ELSE Place!ScanRoute(s.location, Place!NoParams)
    BY <2>6, <2>8, <2>9 DEF Place!StartPage
  <2>11. start.scan = s.location
    BY <2>10 DEF Place!ResultRoute, Place!ScanRoute, Place!At
  <2>12. QED
    BY <1>1, <2>6, <2>11
<1> HIDE DEF s, p, start, after
<1>6. PlaceTyped'
  <2>1. clicks' \in 0 .. MaxClicks[webview]
    BY <1>1 DEF PlaceInv, PlaceTyped, Place!Input, Place!Assumptions
  <2>2. past' \in Seq(PagesOfViewer) /\ future' \in Seq(PagesOfViewer)
    <3>1. <<>> \in Seq(PagesOfViewer)
      OBVIOUS
    <3>2. past \in Seq(PagesOfViewer) /\ future \in Seq(PagesOfViewer)
      BY DEF PlaceInv, PlaceTyped
    <3>3. QED
      BY <1>1, <3>1, <3>2
  <2>3. QED
    BY <1>1, <1>4, <2>1, <2>2 DEF PlaceInv, PlaceTyped
<1>7. PlaceSaved'
  BY <1>1 DEF PlaceInv, PlaceSaved, Place!Saved, Place!Persisted
<1>8. Place!StoreFollowsAddress'
  BY <1>1, <1>4 DEF Place!StoreFollowsAddress, Follows
<1>9. Place!SavedIsCurrent'
  BY <1>1, <1>4, PersistedIs DEF Place!SavedIsCurrent
<1>10. QED
  BY <1>5, <1>6, <1>7, <1>8, <1>9 DEF PlaceInv

\* No click, message, save or return takes the store away from the address.
LEMMA PlaceNext ==
    ASSUME Place!Assumptions, PlaceInv, [Place!Next]_(Place!vars)
    PROVE  PlaceInv' /\ Place!ReturnsToScan
<1>1. /\ webview \in BOOLEAN /\ route \in PagesOfViewer
      /\ past \in Seq(PagesOfViewer) /\ future \in Seq(PagesOfViewer)
      /\ loaded \subseteq Scans /\ store \in StoresOfViewer /\ store.hasEmbedded = TRUE
      /\ route.params \in Addresses
      /\ route.name \in {"scan", "result"} => route.scan \in Scans
  BY DEF PlaceInv, PlaceTyped, PagesOfViewer
<1>2. ASSUME returns' = returns PROVE Place!ReturnsToScan
  BY <1>2 DEF Place!ReturnsToScan
<1>3. ASSUME NEW p \in PagesOfViewer, Place!Input, Place!Push(store, p)
      PROVE  PlaceInv' /\ Place!ReturnsToScan
  BY <1>1, <1>2, <1>3, StoreIsPrepared, PlaceGoes
<1>4. ASSUME NEW c \in Scans, Place!ClickScan(c) PROVE PlaceInv' /\ Place!ReturnsToScan
  BY <1>3, <1>4, PagesAre DEF Place!ClickScan
<1>5. ASSUME NEW r \in Results, Place!ClickResult(r) \/ Place!StepTo(r)
      PROVE  PlaceInv' /\ Place!ReturnsToScan
  <2>1. route.scan \in Scans
    BY <1>1, <1>5 DEF Place!ClickResult, Place!StepTo
  <2>2. Place!ResultRoute(route.scan, r, route.params) \in PagesOfViewer
    BY <1>1, <2>1, PagesAre
  <2>3. Place!Input /\ Place!Push(store, Place!ResultRoute(route.scan, r, route.params))
    BY <1>5 DEF Place!ClickResult, Place!StepTo
  <2>4. QED
    BY <1>3, <2>2, <2>3
<1>6. ASSUME NEW c \in Scanners, Place!ChooseScanner(c) PROVE PlaceInv' /\ Place!ReturnsToScan
  <2> DEFINE s == [store EXCEPT !.scanner = c]
             p == [route EXCEPT !.params.scanner = c]
  <2>1. Place!Input /\ Place!Replace(s, p) /\ route.name = "scan"
    BY <1>6 DEF Place!ChooseScanner
  <2>2. s \in StoresOfViewer /\ s.hasEmbedded = TRUE /\ s.scanner = c
    BY <1>1 DEF StoresOfViewer
  <2>3. p \in PagesOfViewer /\ p.params.scanner = c /\ p.name = "scan"
    BY <1>1, <2>1 DEF PagesOfViewer, Addresses
  <2> HIDE DEF s, p
  <2>4. Prepared(s, route, p)
    BY <2>2, <2>3 DEF Prepared
  <2>5. QED
    BY <1>2, <2>1, <2>2, <2>3, <2>4, PlaceGoes
<1>7. CASE Place!ChooseScanTab
  <2> DEFINE a == [Place!NoParams EXCEPT !.tab = Place!ScanTab]
             s == [store EXCEPT !.resultsTab = Place!ScanTab]
             p == [route EXCEPT !.params = a]
  <2>1. Place!Input /\ Place!Push(s, p) /\ route.name = "scan"
    BY <1>7 DEF Place!ChooseScanTab
  <2>2. s \in StoresOfViewer /\ s.hasEmbedded = TRUE
    BY <1>1 DEF StoresOfViewer
  <2>3. a \in Addresses /\ a.scanner = Place!None
    BY DEF Addresses, Place!NoParams, Place!Tabs
  <2> HIDE DEF a
  <2>4. p \in PagesOfViewer /\ p.params = a /\ p.name = "scan"
    BY <1>1, <2>1, <2>3 DEF PagesOfViewer
  <2> HIDE DEF s, p
  <2>5. Prepared(s, route, p)
    BY <2>3, <2>4 DEF Prepared
  <2>6. QED
    BY <1>2, <2>1, <2>2, <2>4, <2>5, PlaceGoes
<1>8. ASSUME NEW t \in ResultTabs \cup OtherTabs, Place!ChooseResultTab(t)
      PROVE  PlaceInv' /\ Place!ReturnsToScan
  <2> DEFINE s == [store EXCEPT !.resultTab = t]
             p == [route EXCEPT !.params.tab = t]
  <2>1. Place!Input /\ Place!Push(s, p) /\ route.name = "result"
    BY <1>8 DEF Place!ChooseResultTab
  <2>2. s \in StoresOfViewer /\ s.hasEmbedded = TRUE /\ s.resultTab = t /\ s.scanner = store.scanner
    BY <1>1 DEF StoresOfViewer
  <2>3. /\ p \in PagesOfViewer /\ p.params.tab = t /\ p.name = "result"
        /\ p.params.scanner = route.params.scanner
    BY <1>1, <2>1 DEF PagesOfViewer, Addresses, Place!Tabs
  <2> HIDE DEF s, p
  <2>4. Prepared(s, route, p)
    BY <2>1, <2>2, <2>3 DEF Prepared, PlaceInv, Place!StoreFollowsAddress
  <2>5. QED
    BY <1>2, <2>1, <2>2, <2>3, <2>4, PlaceGoes
<1>9. CASE Place!ToggleValidation
  <2> DEFINE p == [route EXCEPT !.params.validation = ~@]
  <2>1. Place!Input /\ Place!Push(store, p)
    BY <1>9 DEF Place!ToggleValidation
  <2>2. p \in PagesOfViewer
    BY <1>1 DEF PagesOfViewer, Addresses
  <2> HIDE DEF p
  <2>3. QED
    BY <1>3, <2>1, <2>2
<1>10. CASE Place!NavbarBack \/ Place!Home
  <2>1. /\ Place!Input
        /\ \/ route.name = "result" /\ Place!Push(store, Place!ScanRoute(route.scan, route.params))
           \/ Place!Push(store, Place!ScansPage)
    BY <1>10 DEF Place!NavbarBack, Place!Home
  <2>2. route.name = "result" => Place!ScanRoute(route.scan, route.params) \in PagesOfViewer
    BY <1>1, PagesAre
  <2>3. QED
    BY <1>3, <2>1, <2>2, PagesAre
<1>11. ASSUME NEW p \in {Place!ScansPage, Place!Transcripts}, Place!SelectActivity(p)
       PROVE  PlaceInv' /\ Place!ReturnsToScan
  BY <1>3, <1>11, PagesAre DEF Place!SelectActivity
<1>12. CASE Place!BrowserBack \/ Place!BrowserForward
  <2>1. PICK p \in PagesOfViewer : route' = p /\ past' \in Seq(PagesOfViewer) /\ future' \in Seq(PagesOfViewer)
    <3>1. CASE Place!BrowserBack
      <4>1. /\ past # <<>> /\ route' = past[Len(past)] /\ past' = SubSeq(past, 1, Len(past) - 1)
            /\ future' = <<route>> \o future
        BY <3>1 DEF Place!BrowserBack, Place!Last, Place!Front
      <4>2. Len(past) \in Nat /\ Len(past) # 0
        BY <1>1, <4>1
      <4>3. past[Len(past)] \in PagesOfViewer
        BY <1>1, <4>2
      <4>4. SubSeq(past, 1, Len(past) - 1) \in Seq(PagesOfViewer)
        <5>1. \A i \in 1 .. Len(past) - 1 : past[i] \in PagesOfViewer
          BY <1>1, <4>2
        <5>2. QED
          BY <1>1, <4>2, <5>1
      <4>5. <<route>> \o future \in Seq(PagesOfViewer)
        BY <1>1
      <4>6. QED
        BY <4>1, <4>3, <4>4, <4>5
    <3>2. CASE Place!BrowserForward
      <4>1. /\ future # <<>> /\ route' = Head(future) /\ future' = Tail(future)
            /\ past' = Append(past, route)
        BY <3>2 DEF Place!BrowserForward
      <4>2. Head(future) \in PagesOfViewer /\ Tail(future) \in Seq(PagesOfViewer)
        BY <1>1, <4>1
      <4>3. Append(past, route) \in Seq(PagesOfViewer)
        BY <1>1
      <4>4. QED
        BY <4>1, <4>2, <4>3
    <3>3. QED
      BY <1>12, <3>1, <3>2
  <2>2. /\ Place!Input /\ Place!SetStore(Place!Effects(store, route, p))
        /\ UNCHANGED <<webview, embedded, loaded, disk, returns>>
    BY <1>12, <2>1 DEF Place!BrowserBack, Place!BrowserForward
  <2>3. PlaceInv'
    BY <1>1, <2>1, <2>2, StoreIsPrepared, PlaceReached
  <2>4. QED
    BY <1>2, <2>2, <2>3
<1>13. ASSUME NEW m \in Place!Messages, Place!Message(m) PROVE PlaceInv' /\ Place!ReturnsToScan
  <2> DEFINE s == Place!AfterMessage(store, m)
             p == Place!MessageRoute(m, route)
  <2>1. Place!Input /\ Place!Replace(s, p)
    BY <1>13 DEF Place!Message
  <2>2. m \in MessagesOfViewer /\ m.type # "nothing"
    BY DEF MessagesOfViewer, Place!Messages, Place!UpdateRoute, Place!UpdateState
  <2>3. /\ s \in StoresOfViewer /\ s.hasEmbedded = TRUE /\ p \in PagesOfViewer
        /\ p.params.scanner = Place!None /\ p.name # "result"
    BY <1>1, <2>2, MessageIs
  <2> HIDE DEF s, p
  <2>4. Prepared(s, route, p)
    BY <2>3 DEF Prepared
  <2>5. QED
    BY <1>2, <2>1, <2>3, <2>4, PlaceGoes
<1>14. CASE Place!ScanArrives
  <2>1. /\ loaded' \subseteq Scans
        /\ UNCHANGED <<webview, embedded, route, past, future, disk, returns, clicks>>
    BY <1>1, <1>14 DEF Place!ScanArrives, Place!historyVars
  <2>2. CASE UNCHANGED <<store, saving>>
    BY <1>2, <2>1, <2>2 DEF PlaceInv, PlaceTyped, PlaceSaved, Place!Persisted, Place!Saved,
         Place!StoreFollowsAddress, Place!SavedIsCurrent
  <2>3. CASE Place!SetStore([store EXCEPT !.resultsTab = Place!ScanTab])
    <3> DEFINE e == [store EXCEPT !.resultsTab = Place!ScanTab]
    <3>1. /\ e \in StoresOfViewer /\ e.hasEmbedded = TRUE
          /\ e.location = store.location /\ e.scanner = store.scanner /\ e.selected = store.selected
          /\ e.displayed = store.displayed /\ e.resultTab = store.resultTab
      BY <1>1 DEF StoresOfViewer
    <3>2. store' = e /\ saving' = IF webview THEN Place!Saved(Place!Persisted(e)) ELSE Place!NotSaved
      BY <2>3 DEF Place!SetStore, Place!Args
    <3> HIDE DEF e
    <3>3. PlaceTyped' /\ PlaceSaved'
      BY <2>1, <3>1, <3>2 DEF PlaceInv, PlaceTyped, PlaceSaved, Place!Saved, Place!Persisted
    <3>4. Place!StoreFollowsAddress'
      BY <2>1, <3>1, <3>2 DEF PlaceInv, Place!StoreFollowsAddress
    <3>5. Place!SavedIsCurrent'
      BY <2>1, <3>1, <3>2, PersistedIs DEF Place!SavedIsCurrent
    <3>6. QED
      BY <1>2, <2>1, <3>3, <3>4, <3>5 DEF PlaceInv
  <2>4. QED
    BY <1>14, <2>2, <2>3 DEF Place!ScanArrives
<1>15. CASE Place!SaveNow
  <2>1. /\ saving # Place!NotSaved /\ disk' = saving /\ saving' = Place!NotSaved
        /\ UNCHANGED <<webview, embedded, route, past, future, loaded, store, returns, clicks>>
    BY <1>15 DEF Place!SaveNow, Place!historyVars
  <2>2. saving = Place!Saved(Place!Persisted(store))
    BY <2>1 DEF PlaceInv, PlaceSaved
  <2>3. Place!Persisted(store) \in StoresOfViewer /\ Place!Persisted(store).hasEmbedded = TRUE
    BY <1>1, PersistedIs
  <2>4. PlaceTyped'
    BY <2>1 DEF PlaceInv, PlaceTyped
  <2>5. PlaceSaved'
    BY <2>1, <2>2, <2>3 DEF PlaceSaved, Place!Saved
  <2>6. Place!StoreFollowsAddress'
    BY <2>1 DEF PlaceInv, Place!StoreFollowsAddress
  <2>7. Place!SavedIsCurrent'
    BY <2>1, <2>2 DEF Place!SavedIsCurrent, Place!Persisted, Place!Saved
  <2>8. QED
    BY <1>2, <2>1, <2>4, <2>5, <2>6, <2>7 DEF PlaceInv
<1>16. CASE UNCHANGED Place!vars
  BY <1>2, <1>16 DEF Place!vars, Place!historyVars, Place!savedVars, PlaceInv, PlaceTyped, PlaceSaved,
       Place!Persisted, Place!Saved, Place!StoreFollowsAddress, Place!SavedIsCurrent
<1>17. QED
  BY <1>4, <1>5, <1>6, <1>7, <1>8, <1>9, <1>10, <1>11, <1>12, <1>13, <1>14, <1>15, <1>16, PlaceReturn
  DEF Place!Next

LEMMA PlaceHold == ASSUME Place!Assumptions PROVE Place!Spec => []PlaceInv
<1>1. PlaceInv /\ [Place!Next]_(Place!vars) => PlaceInv'
  BY PlaceNext
<1>2. QED
  BY <1>1, PlaceInit, PTL DEF Place!Spec

\* Pages, the store and what is saved keep their types (Routing.TypeOK).
THEOREM PlaceTypes == ASSUME Place!Assumptions PROVE Place!Spec => []Place!TypeOK
<1>1. PlaceInv => Place!TypeOK
  BY DEF PlaceInv, PlaceTyped, PagesOfViewer, Addresses, StoresOfViewer, Place!TypeOK
<1>2. QED
  BY <1>1, PlaceHold, PTL

\* Wherever links, messages, the browser's buttons and returns lead, the store has
\* the scan, the scanner, the result and the tab that the address names
\* (ScanPanel.tsx, ScannerResultPanel.tsx).
THEOREM AddressFollowed == ASSUME Place!Assumptions PROVE Place!Spec => []Place!StoreFollowsAddress
<1>1. PlaceInv => Place!StoreFollowsAddress
  BY DEF PlaceInv
<1>2. QED
  BY <1>1, PlaceHold, PTL

\* A webview in which no save is pending has saved what it shows
\* (createDebouncedPersistStorage).
THEOREM SavedAsShown == ASSUME Place!Assumptions PROVE Place!Spec => []Place!SavedIsCurrent
<1>1. PlaceInv => Place!SavedIsCurrent
  BY DEF PlaceInv
<1>2. QED
  BY <1>1, PlaceHold, PTL

\* A webview that saved comes back to the scan that was open, whatever message its
\* document carries (useRoutingInitializer).
THEOREM WebviewReturns ==
    ASSUME Place!Assumptions PROVE Place!Spec => [][Place!ReturnsToScan]_(Place!vars)
<1>1. PlaceInv /\ [Place!Next]_(Place!vars) => [Place!ReturnsToScan]_(Place!vars)
  BY PlaceNext
<1>2. QED
  BY <1>1, PlaceHold, PTL DEF Place!Spec

-----------------------------------------------------------------------------
(* The columns of a table *)

\* Widths within their limits are numbers, and of columns that exist.
WidthsInv ==
  /\ visible \in Seq(Layout!Columns)
  /\ DOMAIN sizing \subseteq Layout!Columns
  /\ \A c \in DOMAIN sizing : sizing[c] \in MinSize[c] .. MaxSize[c]

LEMMA LimitsAre ==
    ASSUME Layout!Assumptions, NEW c \in Layout!Columns
    PROVE  /\ MinSize[c] \in Int /\ MaxSize[c] \in Int
           /\ Size[c] \in MinSize[c] .. MaxSize[c]
  BY DEF Layout!Assumptions

\* A width that is clamped is within the limits, and one that was is left.
LEMMA ClampIs ==
    ASSUME Layout!Assumptions, NEW c \in Layout!Columns, NEW w \in Int
    PROVE  /\ Layout!clampSize(c, w) \in MinSize[c] .. MaxSize[c]
           /\ w \in MinSize[c] .. MaxSize[c] => Layout!clampSize(c, w) = w
<1>1. /\ MinSize[c] \in Int /\ MaxSize[c] \in Int
      /\ Size[c] \in MinSize[c] .. MaxSize[c]
  BY LimitsAre
<1>2. MinSize[c] <= MaxSize[c]
  BY <1>1
<1>3. QED
  BY <1>1, <1>2 DEF Layout!clampSize

\* Sizing the columns that are shown gives widths within the limits, and those
\* that were set by hand stay.
LEMMA SizingIs ==
    ASSUME Layout!Assumptions, WidthsInv, NEW s \in Seq(Layout!Columns),
           Layout!applyAutoSizing(s)
    PROVE  /\ DOMAIN sizing' \subseteq Layout!Columns
           /\ \A c \in DOMAIN sizing' : sizing'[c] \in MinSize[c] .. MaxSize[c]
           /\ Layout!Touched = {}
<1>1. Layout!Range(s) \subseteq Layout!Columns
  BY DEF Layout!Range
<1>2. sizing' = [c \in Layout!Range(s) |-> IF c \in manual \cap DOMAIN sizing
                                    THEN sizing[c] ELSE Size[c]]
  BY DEF Layout!applyAutoSizing, Layout!computeSizes
<1>3. QED
  BY <1>1, <1>2, LimitsAre DEF WidthsInv, Layout!Touched

LEMMA ColumnRemoved ==
    ASSUME NEW S, NEW s \in Seq(S), NEW c, \E i \in 1 .. Len(s) : s[i] = c
    PROVE  Layout!Without(s, c) \in Seq(S)
<1> DEFINE i == CHOOSE j \in DOMAIN s : s[j] = c
<1>1. i \in 1 .. Len(s)
  OBVIOUS
<1> HIDE DEF i
<1>2. SubSeq(s, 1, i - 1) \in Seq(S) /\ SubSeq(s, i + 1, Len(s)) \in Seq(S)
  BY <1>1
<1>3. Layout!Without(s, c) = SubSeq(s, 1, i - 1) \o SubSeq(s, i + 1, Len(s))
  BY DEF Layout!Without, Layout!RemoveAt, i
<1>4. QED
  BY <1>2, <1>3

LEMMA WidthsInit == Layout!Assumptions /\ Layout!Init => WidthsInv
  BY DEF Layout!Init, WidthsInv, Layout!Assumptions

\* At most one width that was set by hand changes: the one that is dragged.
LEMMA WidthsNext ==
    ASSUME Layout!Assumptions, WidthsInv, [Layout!Next]_(Layout!vars)
    PROVE  WidthsInv' /\ Layout!KeepsManual
<1> DEFINE Cols == Layout!Columns
<1>1. ASSUME Layout!Touched = {} PROVE Layout!KeepsManual
  BY <1>1 DEF Layout!KeepsManual
<1>2. ASSUME UNCHANGED <<visible, sizing>> PROVE WidthsInv' /\ Layout!KeepsManual
  <2>1. Layout!Touched = {}
    BY <1>2 DEF Layout!Touched
  <2>2. QED
    BY <1>1, <1>2, <2>1 DEF WidthsInv
<1>3. ASSUME NEW s \in Seq(Cols), visible' = s, Layout!applyAutoSizing(s)
      PROVE  WidthsInv' /\ Layout!KeepsManual
  BY <1>1, <1>3, SizingIs DEF WidthsInv
<1>4. ASSUME NEW c \in Cols, UNCHANGED visible, Layout!Touched \subseteq {c}
      PROVE  Layout!KeepsManual
  BY <1>4 DEF Layout!KeepsManual
<1>5. ASSUME NEW c \in Cols, NEW w \in Widths, Layout!Resize(c, w)
      PROVE  WidthsInv' /\ Layout!KeepsManual
  <2> DEFINE new == [d \in DOMAIN sizing \cup {c} |-> IF d = c THEN w ELSE sizing[d]]
  <2>1. w \in Int /\ \A d \in DOMAIN sizing : sizing[d] \in Int
    BY LimitsAre DEF WidthsInv, Layout!Assumptions
  <2>2. /\ sizing' = [d \in DOMAIN sizing \cup {c} |-> Layout!clampSize(d, new[d])]
        /\ visible' = visible
    BY <1>5 DEF Layout!Resize
  <2>3. \A d \in DOMAIN sizing \cup {c} : d \in Cols /\ new[d] \in Int
    BY <2>1 DEF WidthsInv
  <2> HIDE DEF new
  <2>4. \A d \in DOMAIN sizing \cup {c} : sizing'[d] \in MinSize[d] .. MaxSize[d]
    BY <2>2, <2>3, ClampIs
  <2>5. \A d \in DOMAIN sizing \ {c} : sizing'[d] = sizing[d]
    <3>1. \A d \in DOMAIN sizing \ {c} : new[d] = sizing[d] /\ sizing[d] \in MinSize[d] .. MaxSize[d]
      BY DEF new, WidthsInv
    <3>2. QED
      BY <2>2, <2>3, <3>1, ClampIs
  <2>6. Layout!Touched \subseteq {c}
    BY <2>5 DEF Layout!Touched
  <2>7. WidthsInv'
    BY <2>2, <2>3, <2>4 DEF WidthsInv
  <2>8. QED
    BY <1>4, <2>2, <2>6, <2>7
<1>6. ASSUME NEW c \in Cols, Layout!resetColumnSize(c) PROVE WidthsInv' /\ Layout!KeepsManual
  <2>1. Layout!Contains(visible, c) /\ visible' = visible
    BY <1>6 DEF Layout!resetColumnSize, Layout!Contains
  <2>2. c \in Layout!Range(visible)
    BY <2>1 DEF WidthsInv, Layout!Contains, Layout!Range
  <2>3. sizing' = [d \in DOMAIN sizing \cup {c} |-> IF d = c THEN Size[c] ELSE sizing[d]]
    BY <1>6, <2>2 DEF Layout!resetColumnSize, Layout!computeSizes
  <2>4. Layout!Touched \subseteq {c}
    BY <2>3 DEF Layout!Touched
  <2>5. WidthsInv'
    BY <2>1, <2>3, LimitsAre DEF WidthsInv
  <2>6. QED
    BY <1>4, <2>1, <2>4, <2>5
<1>7. ASSUME NEW c \in Cols, Layout!toggleColumn(c) PROVE WidthsInv' /\ Layout!KeepsManual
  <2>1. CASE Layout!Contains(visible, c)
    <3>1. \E i \in 1 .. Len(visible) : visible[i] = c
      BY <2>1 DEF Layout!Contains, WidthsInv
    <3>2. Layout!Without(visible, c) \in Seq(Cols)
      BY <3>1, ColumnRemoved DEF WidthsInv
    <3>3. QED
      BY <1>3, <1>7, <2>1, <3>2 DEF Layout!toggleColumn, Layout!onVisibleColumnsChange
  <2>2. CASE ~Layout!Contains(visible, c)
    <3>1. Append(visible, c) \in Seq(Cols)
      BY DEF WidthsInv
    <3>2. QED
      BY <1>3, <1>7, <2>2, <3>1 DEF Layout!toggleColumn, Layout!onVisibleColumnsChange
  <2>3. QED
    BY <2>1, <2>2
<1>8. ASSUME NEW c \in Cols, Layout!handleAddFilter(c) PROVE WidthsInv' /\ Layout!KeepsManual
  <2>1. Append(visible, c) \in Seq(Cols)
    BY DEF WidthsInv
  <2>2. QED
    BY <1>2, <1>3, <1>8, <2>1 DEF Layout!handleAddFilter, Layout!onVisibleColumnsChange
<1>9. ASSUME Layout!FirstData PROVE WidthsInv' /\ Layout!KeepsManual
  BY <1>3, <1>9 DEF Layout!FirstData, WidthsInv
<1>10. ASSUME NEW s \in {DefaultVisible, AllColumns}, Layout!setSelection(s)
       PROVE  WidthsInv' /\ Layout!KeepsManual
  BY <1>3, <1>10 DEF Layout!setSelection, Layout!onVisibleColumnsChange, Layout!Assumptions
<1>11. ASSUME NEW c \in Cols, \/ Layout!removeFilter(c) \/ Layout!handleDragStart(c)
                              \/ Layout!handleDragOver(c) \/ Layout!handleDrop(c)
                              \/ Layout!handleDragLeave \/ Layout!handleDragEnd
       PROVE  UNCHANGED <<visible, sizing>>
  BY <1>11 DEF Layout!removeFilter, Layout!handleDragStart, Layout!handleDragOver,
               Layout!handleDrop, Layout!handleDragLeave, Layout!handleDragEnd
<1>12. CASE UNCHANGED Layout!vars
  BY <1>2, <1>12 DEF Layout!vars
<1>13. CASE Layout!handleDragLeave \/ Layout!handleDragEnd
  BY <1>2, <1>13 DEF Layout!handleDragLeave, Layout!handleDragEnd
<1>14. QED
  BY <1>2, <1>5, <1>6, <1>7, <1>8, <1>9, <1>10, <1>11, <1>12, <1>13 DEF Layout!Next

LEMMA WidthsHold == ASSUME Layout!Assumptions PROVE Layout!Spec => []WidthsInv
<1>1. WidthsInv /\ [Layout!Next]_(Layout!vars) => WidthsInv'
  BY WidthsNext
<1>2. QED
  BY <1>1, WidthsInit, PTL DEF Layout!Spec

\* No width leaves the limits of its column, whatever is dragged, hidden, shown
\* again or reset (handleColumnSizingChange, applyAutoSizing).
THEOREM WidthsStayInLimits ==
    ASSUME Layout!Assumptions PROVE Layout!Spec => []Layout!WidthsWithinLimits
<1>1. WidthsInv => Layout!WidthsWithinLimits
  <2>1. ASSUME WidthsInv PROVE Layout!WidthsWithinLimits
    <3>1. \A c \in DOMAIN sizing : MinSize[c] \in Int /\ MaxSize[c] \in Int
      BY <2>1, LimitsAre DEF WidthsInv
    <3>2. QED
      BY <2>1, <3>1 DEF WidthsInv, Layout!WidthsWithinLimits
  <2>2. QED
    BY <2>1
<1>2. QED
  BY <1>1, WidthsHold, PTL

-----------------------------------------------------------------------------
(* The filters of the columns *)

Words == {"%"} \cup UNION {Filter!Range(t) : t \in FilterTexts}
FilledTexts == Seq(Words) \ {<<>>}

\* The conditions that the texts of an editor can become.
ListOf(c, t) ==
  Filter!Simple("IN", Filter!Array(Filter!parseListValue(t)))
RangeOf(t, u) == Filter!Simple("BETWEEN", Filter!Array(<<t, u>>))
Fits(c, f) ==
  \/ f = Filter!Simple("IS NULL", Filter!NullRight)
  \/ \E t \in FilledTexts : Filter!Parses(c, t) /\ f = Filter!Simple("=", Filter!Scalar(t))
  \/ \E t \in FilledTexts :
       /\ c \notin NumberColumns /\ "%" \in Filter!Range(t)
       /\ f = Filter!Simple("LIKE", Filter!Scalar(t))
  \/ \E t \in FilledTexts :
       (\A i \in DOMAIN t : Filter!Parses(c, <<t[i]>>)) /\ f = ListOf(c, t)
  \/ \E t, u \in FilledTexts :
       /\ c \in NumberColumns /\ Filter!Parses(c, t) /\ Filter!Parses(c, u)
       /\ f = RangeOf(t, u)

EditorOf(e) ==
  /\ e = [where |-> e.where, column |-> e.column, operator |-> e.operator,
          value |-> e.value, value2 |-> e.value2, touched |-> e.touched]
  /\ e.where \in {"header", "chip", "add"}
  /\ e.column \in Filter!Columns \cup {Filter!NoColumn}
  /\ e.column = Filter!NoColumn => e.where = "add"
  /\ e.value \in Seq(Words) /\ e.value2 \in Seq(Words)
  /\ e.column # Filter!NoColumn => e.operator \in Filter!OPERATORS_BY_TYPE(e.column)
  /\ e.touched \in BOOLEAN

\* The conditions fit their columns, an editor suggests for its own column, and
\* as long as nothing was touched it shows the condition that the column has.
FilterInv ==
  /\ conditions = [c \in Filter!Columns |-> conditions[c]]
  /\ \A c \in Filter!Columns :
       conditions[c] \in {Filter!NoFilter, Filter!Unset} \/ Fits(c, conditions[c])
  /\ editor = Filter!Closed \/ EditorOf(editor)
  /\ Filter!HasColumn => suggestFor = editor.column
  /\ Filter!HasColumn /\ ~editor.touched => editor = Filter!Showing(editor.where, editor.column)

LEMMA TextsAre ==
    ASSUME Filter!Assumptions
    PROVE  /\ FilterTexts \subseteq Seq(Words) /\ <<>> \in Seq(Words)
           /\ Filter!NoColumn \notin Filter!Columns
<1>1. ASSUME NEW t \in FilterTexts PROVE t \in Seq(Words)
  <2>1. t \in Seq(Filter!Range(t))
    BY DEF Filter!Assumptions
  <2>2. Filter!Range(t) \subseteq Words
    BY DEF Words
  <2>3. QED
    BY <2>1, <2>2
<1>2. QED
  BY <1>1 DEF Filter!Assumptions

LEMMA ListIsSeq ==
    ASSUME NEW t \in FilledTexts
    PROVE  /\ Len(t) \in Nat \ {0} /\ DOMAIN t = 1 .. Len(t)
           /\ Filter!parseListValue(t) \in Seq(Seq(Words))
           /\ Len(Filter!parseListValue(t)) = Len(t)
           /\ DOMAIN Filter!parseListValue(t) = 1 .. Len(t)
           /\ \A i \in 1 .. Len(t) : /\ Filter!parseListValue(t)[i] = <<t[i]>>
                                    /\ Filter!parseListValue(t)[i] \in Seq(Words)
           /\ Filter!Joined(Filter!parseListValue(t)) = t
<1>1. t \in Seq(Words) /\ t # <<>> /\ Len(t) \in Nat /\ DOMAIN t = 1 .. Len(t)
  BY DEF FilledTexts
<1>2. Len(t) # 0
  BY <1>1
<1> DEFINE l == Filter!parseListValue(t)
<1>3. l = [i \in 1 .. Len(t) |-> <<t[i]>>]
  BY <1>1 DEF Filter!parseListValue
<1>4. \A i \in 1 .. Len(t) : <<t[i]>> \in Seq(Words)
  BY <1>1
<1>5. l \in Seq(Seq(Words)) /\ Len(l) = Len(t)
  BY <1>1, <1>3, <1>4
<1>6. DOMAIN l = 1 .. Len(t) /\ \A i \in 1 .. Len(t) : l[i] = <<t[i]>>
  BY <1>3
<1>7. Filter!Joined(l) = [i \in 1 .. Len(t) |-> t[i]]
  BY <1>6 DEF Filter!Joined
<1>8. [i \in 1 .. Len(t) |-> t[i]] = t
  BY <1>1
<1>9. QED
  BY <1>1, <1>2, <1>4, <1>5, <1>6, <1>7, <1>8

LEMMA OperatorsAre ==
    ASSUME NEW c \in Filter!Columns
    PROVE  /\ c \in NumberColumns => Filter!OPERATORS_BY_TYPE(c) = {"=", "IN", "BETWEEN", "IS NULL"}
           /\ c \notin NumberColumns => Filter!OPERATORS_BY_TYPE(c) = {"=", "LIKE", "IN", "IS NULL"}
           /\ Filter!OPERATORS_BY_TYPE(c) \subseteq Filter!Operators
<1> DEFINE Op(d) == IF d \in NumberColumns THEN {"=", "IN", "BETWEEN", "IS NULL"}
                    ELSE {"=", "LIKE", "IN", "IS NULL"}
<1>1. \A d : Filter!OPERATORS_BY_TYPE(d) = Op(d)
  BY DEF Filter!OPERATORS_BY_TYPE
<1>2. Op(c) \subseteq Filter!Operators
  BY <1>1 DEF Filter!Operators
<1>3. QED
  BY <1>1, <1>2

LEMMA NoneIsNone ==
    ASSUME NEW f, Filter!IsCondition(f) PROVE f # Filter!NoFilter /\ f # Filter!Unset
<1>1. "null" \notin Filter!Operators /\ "no filter" \notin Filter!Operators
  <2>1. \A o \in Filter!Operators : o \in {"=", "LIKE", "IN", "BETWEEN", "IS NULL"}
    BY DEF Filter!Operators, Filter!OPERATORS_BY_TYPE
  <2>2. QED
    BY <2>1
<1>2. Filter!NoFilter.operator = "no filter" /\ Filter!Unset.operator = "null"
  BY DEF Filter!NoFilter, Filter!Unset
<1>3. QED
  BY <1>1, <1>2 DEF Filter!IsCondition

\* What fits is a condition of its column's operators and has their shape.
LEMMA FittingIs ==
    ASSUME NEW c \in Filter!Columns, NEW f, Fits(c, f)
    PROVE  /\ f.operator \in Filter!OPERATORS_BY_TYPE(c)
           /\ f = Filter!Simple(f.operator, f.right)
           /\ Filter!IsCondition(f)
           /\ Filter!formatFilterValue(f.right) \in Seq(Words)
           /\ Filter!formatFilterValue2(f.right) \in Seq(Words)
           /\ Filter!WellFormed(c, f)
<1> DEFINE Shape == /\ f.operator \in Filter!OPERATORS_BY_TYPE(c)
                    /\ f = Filter!Simple(f.operator, f.right)
           Shown == /\ Filter!formatFilterValue(f.right) \in Seq(Words)
                    /\ Filter!formatFilterValue2(f.right) \in Seq(Words)
<1>1. <<>> \in Seq(Words)
  OBVIOUS
<1>2. CASE f = Filter!Simple("IS NULL", Filter!NullRight)
  <2>1. Shape
    BY <1>2, OperatorsAre DEF Filter!Simple
  <2>2. Shown
    BY <1>1, <1>2 DEF Filter!Simple, Filter!NullRight, Filter!formatFilterValue, Filter!formatFilterValue2
  <2>3. Filter!WellFormed(c, f)
    BY <1>2 DEF Filter!Simple, Filter!NullRight, Filter!WellFormed
  <2>4. QED
    BY <2>1, <2>2, <2>3, OperatorsAre DEF Filter!IsCondition
<1>3. CASE \E t \in FilledTexts : Filter!Parses(c, t) /\ f = Filter!Simple("=", Filter!Scalar(t))
  <2>1. PICK t \in FilledTexts : Filter!Parses(c, t) /\ f = Filter!Simple("=", Filter!Scalar(t))
    BY <1>3
  <2>2. Shape
    BY <2>1, OperatorsAre DEF Filter!Simple
  <2>3. Shown
    BY <1>1, <2>1 DEF FilledTexts, Filter!Simple, Filter!Scalar, Filter!formatFilterValue,
                      Filter!formatFilterValue2
  <2>4. Filter!WellFormed(c, f)
    BY <2>1 DEF FilledTexts, Filter!Simple, Filter!Scalar, Filter!WellFormed
  <2>5. QED
    BY <2>2, <2>3, <2>4, OperatorsAre DEF Filter!IsCondition
<1>4. CASE \E t \in FilledTexts : /\ c \notin NumberColumns /\ "%" \in Filter!Range(t)
                                  /\ f = Filter!Simple("LIKE", Filter!Scalar(t))
  <2>1. PICK t \in FilledTexts : c \notin NumberColumns /\ f = Filter!Simple("LIKE", Filter!Scalar(t))
    BY <1>4
  <2>2. Shape
    BY <2>1, OperatorsAre DEF Filter!Simple
  <2>3. Shown
    BY <1>1, <2>1 DEF FilledTexts, Filter!Simple, Filter!Scalar, Filter!formatFilterValue,
                      Filter!formatFilterValue2
  <2>4. Filter!WellFormed(c, f)
    BY <2>1 DEF FilledTexts, Filter!Simple, Filter!Scalar, Filter!WellFormed, Filter!Parses
  <2>5. QED
    BY <2>2, <2>3, <2>4, OperatorsAre DEF Filter!IsCondition
<1>5. CASE \E t \in FilledTexts :
             (\A i \in DOMAIN t : Filter!Parses(c, <<t[i]>>)) /\ f = ListOf(c, t)
  <2>1. PICK t \in FilledTexts :
               (\A i \in DOMAIN t : Filter!Parses(c, <<t[i]>>)) /\ f = ListOf(c, t)
    BY <1>5
  <2> DEFINE l == Filter!parseListValue(t)
  <2>2. /\ Len(t) \in Nat \ {0} /\ DOMAIN t = 1 .. Len(t)
        /\ DOMAIN l = 1 .. Len(t) /\ Len(l) = Len(t)
        /\ \A i \in 1 .. Len(t) : l[i] = <<t[i]>> /\ l[i] \in Seq(Words)
        /\ Filter!Joined(l) = t
    BY ListIsSeq
  <2>3. f = [operator |-> "IN", right |-> [type |-> "array", items |-> l]]
    BY <2>1 DEF ListOf, Filter!Simple, Filter!Array
  <2> HIDE DEF l
  <2>4. Shape
    BY <2>3, OperatorsAre DEF Filter!Simple
  <2>5. Shown
    <3>1. t \in Seq(Words) /\ (Len(l) = 2 => l[1] \in Seq(Words) /\ l[2] \in Seq(Words))
      BY <2>2 DEF FilledTexts
    <3>2. QED
      BY <1>1, <2>2, <2>3, <3>1 DEF Filter!formatFilterValue, Filter!formatFilterValue2
  <2>6. Filter!WellFormed(c, f)
    <3>1. l # <<>> /\ DOMAIN l = 1 .. Len(t)
      BY <2>2
    <3>2. \A i \in DOMAIN l : Filter!Parses(c, l[i])
      BY <2>1, <2>2, <3>1
    <3>3. QED
      BY <2>3, <3>1, <3>2 DEF Filter!WellFormed
  <2>7. QED
    BY <2>4, <2>5, <2>6, OperatorsAre DEF Filter!IsCondition
<1>6. CASE \E t, u \in FilledTexts :
             /\ c \in NumberColumns /\ Filter!Parses(c, t) /\ Filter!Parses(c, u)
             /\ f = RangeOf(t, u)
  <2>1. PICK t, u \in FilledTexts :
               /\ c \in NumberColumns /\ Filter!Parses(c, t) /\ Filter!Parses(c, u)
               /\ f = RangeOf(t, u)
    BY <1>6
  <2>2. f = [operator |-> "BETWEEN", right |-> [type |-> "array", items |-> <<t, u>>]]
    BY <2>1 DEF RangeOf, Filter!Simple, Filter!Array
  <2>3. Len(<<t, u>>) = 2 /\ <<t, u>>[1] = t /\ <<t, u>>[2] = u /\ t \in Seq(Words) /\ u \in Seq(Words)
    BY DEF FilledTexts
  <2>4. Shape
    <3>1. Filter!OPERATORS_BY_TYPE(c) = {"=", "IN", "BETWEEN", "IS NULL"}
      BY <2>1, OperatorsAre
    <3>2. QED
      BY <2>2, <3>1 DEF Filter!Simple
  <2>5. Shown
    BY <2>2, <2>3 DEF Filter!formatFilterValue, Filter!formatFilterValue2
  <2>6. Filter!WellFormed(c, f)
    <3>1. \A i \in 1 .. 2 : Filter!Parses(c, <<t, u>>[i])
      BY <2>1, <2>3
    <3>2. QED
      BY <2>2, <2>3, <3>1 DEF Filter!WellFormed
  <2>7. QED
    BY <2>4, <2>5, <2>6, OperatorsAre DEF Filter!IsCondition
<1>7. QED
  BY <1>2, <1>3, <1>4, <1>5, <1>6 DEF Fits

\* What is shown of a condition stands for it, except of a list of two.
LEMMA ShownIsBuilt ==
    ASSUME NEW c \in Filter!Columns, NEW f, Fits(c, f), ~Filter!IsPairList(f)
    PROVE  Filter!buildCondition(c, f.operator, Filter!formatFilterValue(f.right),
                                 Filter!formatFilterValue2(f.right)) = f
<1>1. CASE f = Filter!Simple("IS NULL", Filter!NullRight)
  BY <1>1 DEF Filter!Simple, Filter!NullRight, Filter!buildCondition
<1>2. CASE \E t \in FilledTexts : Filter!Parses(c, t) /\ f = Filter!Simple("=", Filter!Scalar(t))
  <2>1. PICK t \in FilledTexts : Filter!Parses(c, t) /\ f = Filter!Simple("=", Filter!Scalar(t))
    BY <1>2
  <2>2. Filter!formatFilterValue(f.right) = t /\ t # <<>> /\ f.operator = "="
    BY <2>1 DEF FilledTexts, Filter!Simple, Filter!Scalar, Filter!formatFilterValue
  <2>3. QED
    BY <2>1, <2>2 DEF Filter!buildCondition
<1>3. CASE \E t \in FilledTexts : /\ c \notin NumberColumns /\ "%" \in Filter!Range(t)
                                  /\ f = Filter!Simple("LIKE", Filter!Scalar(t))
  <2>1. PICK t \in FilledTexts : /\ c \notin NumberColumns /\ "%" \in Filter!Range(t)
                                 /\ f = Filter!Simple("LIKE", Filter!Scalar(t))
    BY <1>3
  <2>2. Filter!formatFilterValue(f.right) = t /\ t # <<>> /\ f.operator = "LIKE"
    BY <2>1 DEF FilledTexts, Filter!Simple, Filter!Scalar, Filter!formatFilterValue
  <2>3. QED
    BY <2>1, <2>2 DEF Filter!buildCondition, Filter!Wildcards, Filter!Parses
<1>4. CASE \E t \in FilledTexts :
             (\A i \in DOMAIN t : Filter!Parses(c, <<t[i]>>)) /\ f = ListOf(c, t)
  <2>1. PICK t \in FilledTexts :
               (\A i \in DOMAIN t : Filter!Parses(c, <<t[i]>>)) /\ f = ListOf(c, t)
    BY <1>4
  <2> DEFINE l == Filter!parseListValue(t)
  <2>2. /\ Len(t) \in Nat \ {0} /\ DOMAIN t = 1 .. Len(t)
        /\ DOMAIN l = 1 .. Len(t) /\ Len(l) = Len(t)
        /\ \A i \in 1 .. Len(t) : l[i] = <<t[i]>>
        /\ Filter!Joined(l) = t /\ t # <<>>
    BY ListIsSeq DEF FilledTexts
  <2>3. f = [operator |-> "IN", right |-> [type |-> "array", items |-> l]]
    BY <2>1 DEF ListOf, Filter!Simple, Filter!Array
  <2>4. Filter!Simple("IN", Filter!Array(l)) = f
    BY <2>1 DEF ListOf
  <2>5. \A i \in DOMAIN l : Filter!Parses(c, l[i])
    BY <2>1, <2>2
  <2>6. Len(l) # 2
    BY <2>3 DEF Filter!IsPairList
  <2>7. Filter!formatFilterValue(f.right) = t
    <3> HIDE DEF l
    <3>1. QED
      BY <2>2, <2>3, <2>6 DEF Filter!formatFilterValue
  <2>8. QED
    BY <2>2, <2>3, <2>4, <2>5, <2>7 DEF Filter!buildCondition
<1>5. CASE \E t, u \in FilledTexts :
             /\ c \in NumberColumns /\ Filter!Parses(c, t) /\ Filter!Parses(c, u)
             /\ f = RangeOf(t, u)
  <2>1. PICK t, u \in FilledTexts :
               /\ c \in NumberColumns /\ Filter!Parses(c, t) /\ Filter!Parses(c, u)
               /\ f = RangeOf(t, u)
    BY <1>5
  <2>2. f = [operator |-> "BETWEEN", right |-> [type |-> "array", items |-> <<t, u>>]]
    BY <2>1 DEF RangeOf, Filter!Simple, Filter!Array
  <2>3. Len(<<t, u>>) = 2 /\ <<t, u>>[1] = t /\ <<t, u>>[2] = u /\ t # <<>> /\ u # <<>>
    BY DEF FilledTexts
  <2>4. Filter!formatFilterValue(f.right) = t /\ Filter!formatFilterValue2(f.right) = u
    BY <2>2, <2>3 DEF Filter!formatFilterValue, Filter!formatFilterValue2
  <2>5. Filter!buildCondition(c, "BETWEEN", t, u) = Filter!BuildRange(c, t, u)
    BY <2>3 DEF Filter!buildCondition
  <2>6. Filter!BuildRange(c, t, u) = f /\ f.operator = "BETWEEN"
    BY <2>1, <2>2, <2>3 DEF RangeOf, Filter!BuildRange
  <2>7. QED
    BY <2>4, <2>5, <2>6
<1>6. QED
  BY <1>1, <1>2, <1>3, <1>4, <1>5 DEF Fits

\* Whatever is in an editor, it is no value, or becomes a condition that fits.
LEMMA BuiltFits ==
    ASSUME Filter!Assumptions, NEW c \in Filter!Columns, NEW op \in Filter!OPERATORS_BY_TYPE(c),
           NEW v \in Seq(Words), NEW w \in Seq(Words)
    PROVE  LET b == Filter!buildCondition(c, op, v, w)
           IN  b \in {Filter!Unset, Filter!Invalid} \/ Fits(c, b)
<1> DEFINE b == Filter!buildCondition(c, op, v, w)
<1>1. CASE op = "IS NULL"
  BY <1>1 DEF Filter!buildCondition, Fits
<1>2. CASE op # "IS NULL" /\ v = <<>>
  BY <1>2 DEF Filter!buildCondition
<1>3. CASE op = "=" /\ v # <<>>
  <2>1. b = IF Filter!Parses(c, v) THEN Filter!Simple("=", Filter!Scalar(v)) ELSE Filter!Invalid
    BY <1>3 DEF Filter!buildCondition
  <2>2. v \in FilledTexts
    BY <1>3 DEF FilledTexts
  <2>3. QED
    BY <2>1, <2>2 DEF Fits
<1>4. CASE op = "LIKE" /\ v # <<>>
  <2>1. c \notin NumberColumns
    <3>1. "LIKE" \notin {"=", "IN", "BETWEEN", "IS NULL"}
      OBVIOUS
    <3>2. c \in NumberColumns => Filter!OPERATORS_BY_TYPE(c) = {"=", "IN", "BETWEEN", "IS NULL"}
      BY OperatorsAre
    <3>3. QED
      BY <1>4, <3>1, <3>2
  <2>2. b = Filter!Simple("LIKE", Filter!Scalar(Filter!Wildcards(v)))
    BY <1>4, <2>1 DEF Filter!buildCondition, Filter!Parses
  <2>3. Filter!Wildcards(v) \in FilledTexts /\ "%" \in Filter!Range(Filter!Wildcards(v))
    <3>1. CASE "%" \in Filter!Range(v)
      BY <1>4, <3>1 DEF Filter!Wildcards, FilledTexts
    <3>2. CASE "%" \notin Filter!Range(v)
      <4>1. /\ <<"%">> \o v \in Seq(Words) /\ Len(<<"%">> \o v) = 1 + Len(v)
            /\ Len(v) \in Nat /\ (<<"%">> \o v)[1] = "%"
        BY DEF Words
      <4>2. <<"%">> \o v \in FilledTexts /\ 1 \in 1 .. Len(<<"%">> \o v)
        BY <4>1 DEF FilledTexts
      <4>3. QED
        BY <3>2, <4>1, <4>2 DEF Filter!Wildcards, Filter!Range
    <3>3. QED
      BY <3>1, <3>2
  <2>4. QED
    BY <2>1, <2>2, <2>3 DEF Fits
<1>5. CASE op = "IN" /\ v # <<>>
  <2>1. v \in FilledTexts
    BY <1>5 DEF FilledTexts
  <2> DEFINE l == Filter!parseListValue(v)
  <2>2. /\ DOMAIN v = 1 .. Len(v) /\ DOMAIN l = 1 .. Len(v)
        /\ \A i \in 1 .. Len(v) : l[i] = <<v[i]>>
    BY <2>1, ListIsSeq
  <2>3. b = IF \A i \in DOMAIN l : Filter!Parses(c, l[i]) THEN ListOf(c, v) ELSE Filter!Invalid
    BY <1>5 DEF Filter!buildCondition, ListOf
  <2> HIDE DEF l
  <2>4. QED
    BY <2>1, <2>2, <2>3 DEF Fits
<1>6. CASE op = "BETWEEN" /\ v # <<>>
  <2>1. c \in NumberColumns
    <3>1. "BETWEEN" \notin {"=", "LIKE", "IN", "IS NULL"}
      OBVIOUS
    <3>2. c \notin NumberColumns => Filter!OPERATORS_BY_TYPE(c) = {"=", "LIKE", "IN", "IS NULL"}
      BY OperatorsAre
    <3>3. QED
      BY <1>6, <3>1, <3>2
  <2>2. b = Filter!BuildRange(c, v, w)
    BY <1>6 DEF Filter!buildCondition
  <2>3. v \in FilledTexts /\ (w # <<>> => w \in FilledTexts)
    BY <1>6 DEF FilledTexts
  <2>4. QED
    BY <2>1, <2>2, <2>3 DEF Filter!BuildRange, RangeOf, Fits
<1>7. QED
  BY <1>1, <1>2, <1>3, <1>4, <1>5, <1>6, OperatorsAre

LEMMA ShowingIs ==
    ASSUME Filter!Assumptions, FilterInv, NEW where \in {"header", "chip", "add"},
           NEW c \in Filter!Columns \cup {Filter!NoColumn}, c = Filter!NoColumn => where = "add"
    PROVE  LET s == Filter!Showing(where, c)
           IN  EditorOf(s) /\ s.where = where /\ s.column = c /\ s # Filter!Closed
<1> DEFINE f == IF c # Filter!NoColumn /\ Filter!IsCondition(conditions[c]) THEN conditions[c]
                ELSE Filter!Simple("=", Filter!NullRight)
           s == Filter!Showing(where, c)
<1>1. s = [where |-> where, column |-> c, operator |-> f.operator,
           value |-> Filter!formatFilterValue(f.right),
           value2 |-> Filter!formatFilterValue2(f.right), touched |-> FALSE]
  BY DEF Filter!Showing, Filter!defaultOperator
<1>2. /\ Filter!formatFilterValue(f.right) \in Seq(Words)
      /\ Filter!formatFilterValue2(f.right) \in Seq(Words)
      /\ c # Filter!NoColumn => f.operator \in Filter!OPERATORS_BY_TYPE(c)
  <2>1. CASE c # Filter!NoColumn /\ Filter!IsCondition(conditions[c])
    <3>1. c \in Filter!Columns /\ f = conditions[c]
      BY <2>1
    <3>2. conditions[c] # Filter!NoFilter /\ conditions[c] # Filter!Unset
      BY <2>1, <3>1, NoneIsNone
    <3>3. Fits(c, f)
      BY <3>1, <3>2 DEF FilterInv
    <3> HIDE DEF f
    <3>4. QED
      BY <3>1, <3>3, FittingIs
  <2>2. CASE ~(c # Filter!NoColumn /\ Filter!IsCondition(conditions[c]))
    <3>1. f = Filter!Simple("=", Filter!NullRight)
      BY <2>2
    <3>2. c # Filter!NoColumn => "=" \in Filter!OPERATORS_BY_TYPE(c)
      BY OperatorsAre
    <3> HIDE DEF f
    <3>3. <<>> \in Seq(Words)
      OBVIOUS
    <3>4. QED
      BY <3>1, <3>2, <3>3 DEF Filter!Simple, Filter!NullRight, Filter!formatFilterValue,
                              Filter!formatFilterValue2
  <2>3. QED
    BY <2>1, <2>2
<1> HIDE DEF f
<1>3. s.where = where /\ s.column = c
  BY <1>1
<1>4. s # Filter!Closed
  BY <1>3 DEF Filter!Closed
<1>5. EditorOf(s)
  BY <1>1, <1>2 DEF EditorOf
<1> HIDE DEF s
<1>6. QED
  BY <1>3, <1>4, <1>5 DEF s

\* A column's condition becomes another one that fits, or none.
LEMMA ChangeIs ==
    ASSUME FilterInv, NEW c \in Filter!Columns, NEW f, f = Filter!Unset \/ Fits(c, f),
           \/ Filter!Change(c, f)
           \/ conditions' = [conditions EXCEPT ![c] = f]
    PROVE  /\ conditions' = [d \in Filter!Columns |-> conditions'[d]]
           /\ \A d \in Filter!Columns :
                conditions'[d] \in {Filter!NoFilter, Filter!Unset} \/ Fits(d, conditions'[d])
           /\ \A d \in Filter!Columns \ {c} : conditions'[d] = conditions[d]
           /\ f # Filter!Unset => conditions'[c] = f
<1> DEFINE g == conditions'[c]
<1>1. /\ conditions' = [conditions EXCEPT ![c] = g]
      /\ g \in {f, Filter!NoFilter} /\ (f # Filter!Unset => g = f)
  BY DEF Filter!Change, FilterInv
<1> HIDE DEF g
<1>2. /\ conditions' = [d \in Filter!Columns |-> IF d = c THEN g ELSE conditions[d]]
  BY <1>1 DEF FilterInv
<1>3. QED
  BY <1>1, <1>2 DEF FilterInv

LEMMA FilterInit == Filter!Assumptions /\ Filter!Init => FilterInv
  BY DEF Filter!Init, FilterInv, Filter!HasColumn, Filter!IsOpen

\* Of an editor in which nothing was touched the condition is the one shown.
LEMMA UntouchedIsBuilt ==
    ASSUME Filter!Assumptions, FilterInv, Filter!HasColumn, ~editor.touched,
           Filter!IsCondition(conditions[editor.column]),
           ~Filter!IsPairList(conditions[editor.column])
    PROVE  Filter!Built = conditions[editor.column]
<1> DEFINE c == editor.column
           f == conditions[c]
<1>1. /\ editor = Filter!Showing(editor.where, c)
      /\ c \in Filter!Columns /\ c # Filter!NoColumn
  BY DEF FilterInv, Filter!HasColumn, Filter!IsOpen, EditorOf
<1>2. f # Filter!NoFilter /\ f # Filter!Unset
  BY NoneIsNone
<1>3. Fits(c, f)
  BY <1>1, <1>2 DEF FilterInv
<1>4. Filter!Showing(editor.where, c) =
        [where |-> editor.where, column |-> c, operator |-> f.operator,
         value |-> Filter!formatFilterValue(f.right),
         value2 |-> Filter!formatFilterValue2(f.right), touched |-> FALSE]
  BY <1>1 DEF Filter!Showing
<1>5. /\ editor.operator = f.operator /\ editor.value = Filter!formatFilterValue(f.right)
      /\ editor.value2 = Filter!formatFilterValue2(f.right)
  BY <1>1, <1>4
<1>6. ~Filter!IsPairList(f)
  OBVIOUS
<1> HIDE DEF c, f
<1>7. Filter!buildCondition(c, f.operator, Filter!formatFilterValue(f.right),
                            Filter!formatFilterValue2(f.right)) = f
  BY <1>1, <1>3, <1>6, ShownIsBuilt
<1>8. QED
  BY <1>5, <1>7 DEF Filter!Built, c, f

\* No handler leaves a condition that does not fit, or changes one that was only
\* looked at.
LEMMA FilterNext ==
    ASSUME Filter!Assumptions, FilterInv, [Filter!Next]_(Filter!vars)
    PROVE  FilterInv' /\ Filter!KeepsUntouched
<1>1. ASSUME UNCHANGED conditions PROVE Filter!KeepsUntouched
  BY <1>1 DEF Filter!KeepsUntouched
<1>2. ASSUME NEW where \in {"header", "chip", "add"},
             NEW c \in Filter!Columns \cup {Filter!NoColumn}, c = Filter!NoColumn => where = "add",
             editor' = Filter!Showing(where, c), UNCHANGED conditions,
             c # Filter!NoColumn => suggestFor' = c
      PROVE  FilterInv' /\ Filter!KeepsUntouched
  <2>1. EditorOf(editor') /\ editor'.where = where /\ editor'.column = c
    BY <1>2, ShowingIs
  <2>2. Filter!Showing(where, c)' = Filter!Showing(where, c)
    BY <1>2 DEF Filter!Showing
  <2>3. QED
    BY <1>1, <1>2, <2>1, <2>2 DEF FilterInv, Filter!HasColumn
<1>3. ASSUME NEW changed, EditorOf(changed), changed.column = editor.column,
             Filter!HasColumn, Filter!Input(changed)
      PROVE  FilterInv' /\ Filter!KeepsUntouched
  <2>1. editor' = [changed EXCEPT !.touched = TRUE] /\ UNCHANGED <<conditions, suggestFor>>
    BY <1>3 DEF Filter!Input
  <2>2. EditorOf(editor') /\ editor'.column = editor.column /\ editor'.touched = TRUE
    BY <1>3, <2>1 DEF EditorOf
  <2>3. QED
    BY <1>1, <1>3, <2>1, <2>2 DEF FilterInv, Filter!HasColumn
<1>4. ASSUME editor' = Filter!Closed, UNCHANGED conditions
      PROVE  FilterInv' /\ Filter!KeepsUntouched
  BY <1>1, <1>4 DEF FilterInv, Filter!HasColumn, Filter!IsOpen
<1>5. ASSUME NEW c \in Filter!Columns, Filter!OpenHeader(c) \/ Filter!OpenChip(c) \/ Filter!ChooseColumn(c)
      PROVE  FilterInv' /\ Filter!KeepsUntouched
  <2>1. c # Filter!NoColumn
    BY TextsAre
  <2>2. PICK where \in {"header", "chip", "add"} : editor' = Filter!Showing(where, c)
    BY <1>5 DEF Filter!OpenHeader, Filter!OpenChip, Filter!ChooseColumn
  <2>3. UNCHANGED conditions /\ suggestFor' = c
    BY <1>5 DEF Filter!OpenHeader, Filter!OpenChip, Filter!ChooseColumn, Filter!Suggest
  <2>4. QED
    BY <1>2, <2>1, <2>2, <2>3
<1>6. CASE Filter!OpenAdd
  <2>1. editor' = Filter!Showing("add", Filter!NoColumn) /\ UNCHANGED conditions
    BY <1>6 DEF Filter!OpenAdd
  <2>2. QED
    BY <1>2, <2>1
<1>7. ASSUME NEW c \in Filter!Columns, Filter!removeFilter(c)
      PROVE  FilterInv' /\ Filter!KeepsUntouched
  <2>1. /\ editor = Filter!Closed /\ UNCHANGED <<editor, suggestFor>>
        /\ conditions' = [conditions EXCEPT ![c] = Filter!NoFilter]
    BY <1>7 DEF Filter!removeFilter, Filter!IsOpen
  <2>2. conditions' = [d \in Filter!Columns |-> IF d = c THEN Filter!NoFilter ELSE conditions[d]]
    BY <2>1 DEF FilterInv
  <2>3. FilterInv'
    BY <2>1, <2>2 DEF FilterInv, Filter!HasColumn, Filter!IsOpen
  <2>4. QED
    BY <2>1, <2>3 DEF Filter!KeepsUntouched, Filter!IsOpen
<1>8. ASSUME NEW op \in Filter!Operators, Filter!setOperator(op)
      PROVE  FilterInv' /\ Filter!KeepsUntouched
  <2>1. /\ Filter!HasColumn /\ op \in Filter!OPERATORS_BY_TYPE(editor.column)
        /\ Filter!Input([editor EXCEPT !.operator = op])
    BY <1>8 DEF Filter!setOperator
  <2>2. EditorOf(editor)
    BY <2>1 DEF FilterInv, Filter!HasColumn, Filter!IsOpen
  <2>3. /\ EditorOf([editor EXCEPT !.operator = op])
        /\ [editor EXCEPT !.operator = op].column = editor.column
    BY <2>1, <2>2 DEF EditorOf
  <2>4. QED
    BY <1>3, <2>1, <2>3
<1>9. ASSUME NEW t \in FilterTexts, Filter!setValue(t) \/ Filter!setValue2(t)
      PROVE  FilterInv' /\ Filter!KeepsUntouched
  <2>1. PICK e \in {[editor EXCEPT !.value = t], [editor EXCEPT !.value2 = t]} :
               Filter!HasColumn /\ Filter!Input(e)
    BY <1>9 DEF Filter!setValue, Filter!setValue2
  <2>2. EditorOf(editor) /\ t \in Seq(Words)
    BY <2>1, TextsAre DEF FilterInv, Filter!HasColumn, Filter!IsOpen
  <2>3. EditorOf(e) /\ e.column = editor.column
    BY <2>2 DEF EditorOf
  <2>4. QED
    BY <1>3, <2>1, <2>3
<1>10. ASSUME editor' = Filter!Closed, Filter!HasColumn, Filter!Built # Filter!Invalid,
              \/ Filter!Change(editor.column, Filter!Built)
              \/ conditions' = [conditions EXCEPT ![editor.column] = Filter!Built]
       PROVE  FilterInv' /\ Filter!KeepsUntouched
  <2> DEFINE c == editor.column
             b == Filter!Built
  <2>1. EditorOf(editor) /\ c \in Filter!Columns /\ c # Filter!NoColumn
    BY <1>10 DEF FilterInv, Filter!HasColumn, Filter!IsOpen, EditorOf
  <2>2. b = Filter!Unset \/ Fits(c, b)
    <3>1. b \in {Filter!Unset, Filter!Invalid} \/ Fits(c, b)
      BY <2>1, BuiltFits DEF Filter!Built, EditorOf
    <3>2. QED
      BY <1>10, <3>1
  <2>3. /\ conditions' = [d \in Filter!Columns |-> conditions'[d]]
        /\ \A d \in Filter!Columns :
             conditions'[d] \in {Filter!NoFilter, Filter!Unset} \/ Fits(d, conditions'[d])
        /\ \A d \in Filter!Columns \ {c} : conditions'[d] = conditions[d]
        /\ b # Filter!Unset => conditions'[c] = b
    BY <1>10, <2>1, <2>2, ChangeIs
  <2>4. FilterInv'
    BY <1>10, <2>3 DEF FilterInv, Filter!HasColumn, Filter!IsOpen
  <2>5. ASSUME ~editor.touched, Filter!IsCondition(conditions[c]), ~Filter!IsPairList(conditions[c])
        PROVE  conditions'[c] = conditions[c]
    <3>1. b = conditions[c]
      BY <1>10, <2>5, UntouchedIsBuilt
    <3>2. b # Filter!Unset
      BY <2>5, <3>1, NoneIsNone
    <3>3. QED
      BY <2>3, <3>1, <3>2
  <2>6. QED
    BY <2>3, <2>4, <2>5 DEF Filter!KeepsUntouched
<1>11. CASE Filter!Apply
  BY <1>10, <1>11 DEF Filter!Apply
<1>12. CASE Filter!Escape
  BY <1>4, <1>12 DEF Filter!Escape
<1>13. CASE Filter!ClickOutside
  <2>1. CASE editor.where = "add" \/ Filter!Built = Filter!Invalid
    BY <1>4, <1>13, <2>1 DEF Filter!ClickOutside
  <2>2. CASE ~(editor.where = "add" \/ Filter!Built = Filter!Invalid)
    <3>1. Filter!HasColumn
      BY <1>13, <2>2 DEF Filter!ClickOutside, Filter!HasColumn, FilterInv, Filter!IsOpen, EditorOf
    <3>2. QED
      BY <1>10, <1>13, <2>2, <3>1 DEF Filter!ClickOutside
  <2>3. QED
    BY <2>1, <2>2
<1>14. CASE UNCHANGED Filter!vars
  <2>1. UNCHANGED <<conditions, editor, suggestFor>>
    BY <1>14 DEF Filter!vars
  <2>2. FilterInv'
    BY <2>1 DEF FilterInv, Filter!HasColumn, Filter!IsOpen, Filter!Showing
  <2>3. QED
    BY <1>1, <2>1, <2>2
<1>15. QED
  BY <1>5, <1>6, <1>7, <1>8, <1>9, <1>11, <1>12, <1>13, <1>14 DEF Filter!Next

LEMMA FilterHold == ASSUME Filter!Assumptions PROVE Filter!Spec => []FilterInv
<1>1. FilterInv /\ [Filter!Next]_(Filter!vars) => FilterInv'
  BY FilterNext
<1>2. QED
  BY <1>1, FilterInit, PTL DEF Filter!Spec

\* Whatever operators and texts were tried before, the conditions that reach the
\* query have the shape their operator takes and values of their column's type
\* (buildCondition).
THEOREM ConditionsFit ==
    ASSUME Filter!Assumptions PROVE Filter!Spec => []Filter!ConditionsWellFormed
<1>1. FilterInv => Filter!ConditionsWellFormed
  <2>1. ASSUME FilterInv, NEW c \in Filter!Columns, Filter!IsCondition(conditions[c])
        PROVE  Filter!WellFormed(c, conditions[c])
    <3>1. conditions[c] # Filter!NoFilter /\ conditions[c] # Filter!Unset
      BY <2>1, NoneIsNone
    <3>2. QED
      BY <2>1, <3>1, FittingIs DEF FilterInv
  <2>2. QED
    BY <2>1 DEF Filter!ConditionsWellFormed
<1>2. QED
  BY <1>1, FilterHold, PTL

\* The suggestions an editor offers are those of its own column, whichever editor
\* was open before and however it was closed (useTranscriptsFilterBarProps).
THEOREM SuggestsForItsColumn ==
    ASSUME Filter!Assumptions PROVE Filter!Spec => []Filter!SuggestionsOfColumn
<1>1. FilterInv => Filter!SuggestionsOfColumn
  BY DEF FilterInv, Filter!SuggestionsOfColumn
<1>2. QED
  BY <1>1, FilterHold, PTL

-----------------------------------------------------------------------------
(* The input that adds a label *)

\* Whatever becomes of the text or the mode, nothing is highlighted that is not in
\* the list that they give.
LEMMA HighlightBecomes ==
    ASSUME Input!HighlightInList, NEW t, NEW browse, NEW shown, Input!Becomes(t, browse, shown)
    PROVE  Input!HighlightInList'
<1>1. /\ typed' = t /\ isBrowseMode' = browse
      /\ highlightedIndex' = IF Input!Suggested(t, browse) = Input!filteredSuggestions
                             THEN highlightedIndex ELSE 0
  BY DEF Input!Becomes, Input!Highlight
<1>2. Input!filteredSuggestions' = Input!Suggested(t, browse)
  BY <1>1 DEF Input!filteredSuggestions
<1>3. QED
  BY <1>1, <1>2 DEF Input!HighlightInList

LEMMA InputNext ==
    ASSUME Input!HighlightInList, [Input!Next]_(Input!vars)
    PROVE  Input!HighlightInList' /\ Input!AddsWhatIsTyped
<1>1. ASSUME labels' = labels PROVE Input!AddsWhatIsTyped
  BY <1>1 DEF Input!AddsWhatIsTyped
<1>2. ASSUME UNCHANGED <<typed, isBrowseMode, highlightedIndex>> PROVE Input!HighlightInList'
  BY <1>2 DEF Input!HighlightInList, Input!filteredSuggestions
<1>3. ASSUME Input!Closed PROVE Input!HighlightInList'
  BY <1>3 DEF Input!Closed, Input!HighlightInList
<1>4. ASSUME NEW i, Input!Select(i) PROVE Input!HighlightInList' /\ Input!AddsWhatIsTyped
  BY <1>1, <1>4, HighlightBecomes DEF Input!Select
<1>5. ASSUME Input!Event, Input!Add(typed) PROVE Input!HighlightInList' /\ Input!AddsWhatIsTyped
  <2> DEFINE name == Input!Trimmed(typed)
  <2>1. CASE name = <<>>
    BY <1>1, <1>2, <1>5, <2>1 DEF Input!Add, Input!inputVars
  <2>2. CASE name # <<>>
    <3>1. /\ labels' = [l \in DOMAIN labels \cup {name} |->
                          IF l = name THEN newLabelValue ELSE labels[l]]
          /\ Input!Closed /\ popoverOpen
      BY <1>5, <2>2 DEF Input!Add, Input!Event
    <3> HIDE DEF name
    <3>2. ASSUME NEW l \in DOMAIN labels' \ DOMAIN labels
          PROVE  /\ l = name
                 /\ \A k \in DOMAIN labels : k \in DOMAIN labels' /\ labels'[k] = labels[k]
      BY <3>1, <3>2
    <3>3. Input!AddsWhatIsTyped
      BY <3>1, <3>2 DEF Input!AddsWhatIsTyped, Input!Closed, name
    <3>4. QED
      BY <1>3, <3>1, <3>3
  <2>3. QED
    BY <2>1, <2>2
<1>6. ASSUME NEW t \in LabelTexts, Input!Type(t) PROVE Input!HighlightInList' /\ Input!AddsWhatIsTyped
  BY <1>1, <1>6, HighlightBecomes DEF Input!Type
<1>7. CASE Input!ToggleBrowse \/ Input!Focus
  <2>1. labels' = labels /\ \E browse, shown : Input!Becomes(typed, browse, shown)
    BY <1>7 DEF Input!ToggleBrowse, Input!Focus
  <2>2. QED
    BY <1>1, <2>1, HighlightBecomes
<1>8. CASE Input!Click \/ Input!Tab
  BY <1>4, <1>8 DEF Input!Click, Input!Tab
<1>9. CASE Input!Hover \/ Input!Arrow(1) \/ Input!Arrow(-1)
  <2>1. /\ highlightedIndex' \in DOMAIN Input!filteredSuggestions \cup {0}
        /\ UNCHANGED <<typed, isBrowseMode, labels>>
    BY <1>9 DEF Input!Hover, Input!Arrow
  <2>2. Input!HighlightInList'
    BY <2>1 DEF Input!HighlightInList, Input!filteredSuggestions
  <2>3. QED
    BY <1>1, <2>1, <2>2
<1>10. CASE Input!ClickOutside \/ Input!OpenPopover \/ Input!ChooseValue
  BY <1>1, <1>2, <1>10 DEF Input!ClickOutside, Input!OpenPopover, Input!ChooseValue, Input!inputVars
<1>11. CASE Input!Cancel \/ Input!Leave
  BY <1>1, <1>3, <1>11 DEF Input!Cancel, Input!Leave
<1>12. CASE Input!AddButton
  BY <1>5, <1>12 DEF Input!AddButton
<1>13. CASE Input!Enter
  BY <1>4, <1>5, <1>13 DEF Input!Enter
<1>14. CASE Input!Escape
  BY <1>1, <1>2, <1>3, <1>14 DEF Input!Escape
<1>15. ASSUME NEW l \in DOMAIN labels, Input!ToggleLabel(l) \/ Input!RemoveLabel(l)
       PROVE  Input!HighlightInList' /\ Input!AddsWhatIsTyped
  <2>1. DOMAIN labels' \subseteq DOMAIN labels /\ UNCHANGED <<typed, isBrowseMode, highlightedIndex>>
    BY <1>15 DEF Input!ToggleLabel, Input!RemoveLabel, Input!inputVars
  <2>2. QED
    BY <1>2, <2>1 DEF Input!AddsWhatIsTyped
<1>16. CASE UNCHANGED Input!vars
  BY <1>1, <1>2, <1>16 DEF Input!vars, Input!inputVars
<1>17. QED
  BY <1>6, <1>7, <1>8, <1>9, <1>10, <1>11, <1>12, <1>13, <1>14, <1>15, <1>16 DEF Input!Next

\* What is highlighted is a row of the list as it is shown now, however the text and
\* the mode changed since (the effect on filteredSuggestions): what Tab takes.
THEOREM HighlightStays == Input!Spec => []Input!HighlightInList
<1>1. Input!Init => Input!HighlightInList
  BY DEF Input!Init, Input!Fresh, Input!HighlightInList
<1>2. Input!HighlightInList /\ [Input!Next]_(Input!vars) => Input!HighlightInList'
  BY InputNext
<1>3. QED
  BY <1>1, <1>2, PTL DEF Input!Spec

\* A label that is added is what stood in the input of an open popover, and the other
\* labels keep their values (handleAddLabel).
THEOREM LabelIsTyped == Input!Spec => [][Input!AddsWhatIsTyped]_(Input!vars)
<1>1. Input!HighlightInList /\ [Input!Next]_(Input!vars) => [Input!AddsWhatIsTyped]_(Input!vars)
  BY InputNext
<1>2. QED
  BY <1>1, HighlightStays, PTL DEF Input!Spec

-----------------------------------------------------------------------------
(* The fields of the settings *)

\* The text says the value, and the error that is shown or about to be shown is about
\* the text.
FieldInv ==
  /\ Field!TextSaysValue /\ Field!ErrorOnlyWhileWrong
  /\ timer # Field!None => timer = Field!ErrorFor(plain, disabled)

LEMMA FieldNext == ASSUME FieldInv, [Field!Next]_(Field!vars) PROVE FieldInv'
<1>1. ASSUME NEW v, NEW t, edit' = v, text' = Field!Followed(v, t) PROVE Field!TextSaysValue'
  BY <1>1 DEF Field!Followed, Field!TextSaysValue
<1>2. ASSUME UNCHANGED Field!kvVars PROVE Field!TextSaysValue'
  BY <1>2 DEF Field!kvVars, FieldInv, Field!TextSaysValue
<1> DEFINE Right == Field!ErrorOnlyWhileWrong
                    /\ (timer # Field!None => timer = Field!ErrorFor(plain, disabled))
<1>3. ASSUME UNCHANGED Field!plainVars PROVE Right'
  BY <1>3 DEF Field!plainVars, FieldInv, Field!ErrorOnlyWhileWrong
<1>4. ASSUME NEW t, NEW off, plain' = t, disabled' = off, Field!ErrorChanges(t, off) PROVE Right'
  BY <1>4 DEF Field!ErrorChanges, FieldInv, Field!ErrorOnlyWhileWrong
<1>5. CASE \/ \E t \in LineTexts : Field!TypeLines(t)
           \/ \E v \in ForeignValues : Field!ValueArrives(v)
  <2>1. (\E v, t : edit' = v /\ text' = Field!Followed(v, t)) /\ UNCHANGED Field!plainVars
    BY <1>5 DEF Field!TypeLines, Field!ValueArrives
  <2>2. QED
    BY <1>1, <1>3, <2>1 DEF FieldInv
<1>6. CASE (\E t \in PlainTexts : Field!TypeText(t)) \/ Field!Toggle
  <2>1. /\ \E t, off : plain' = t /\ disabled' = off /\ Field!ErrorChanges(t, off)
        /\ UNCHANGED Field!kvVars
    BY <1>6 DEF Field!TypeText, Field!Toggle
  <2>2. QED
    BY <1>2, <1>4, <2>1 DEF FieldInv
<1>7. CASE Field!OneSecondLater
  <2>1. Right'
    BY <1>7 DEF Field!OneSecondLater, FieldInv, Field!ErrorOnlyWhileWrong
  <2>2. UNCHANGED Field!kvVars
    BY <1>7 DEF Field!OneSecondLater
  <2>3. QED
    BY <1>2, <2>1, <2>2 DEF FieldInv
<1>8. CASE UNCHANGED <<Field!kvVars, Field!plainVars>>
  <2>1. UNCHANGED Field!kvVars /\ UNCHANGED Field!plainVars
    BY <1>8
  <2>2. QED
    BY <1>2, <1>3, <2>1 DEF FieldInv
<1>9. (\/ \E n \in {-1, 0} : Field!TypeNumber(n)
       \/ \E o \in {Field!None, "auto"} : Field!Choose(o)
       \/ UNCHANGED Field!vars)
      => UNCHANGED <<Field!kvVars, Field!plainVars>>
  BY DEF Field!TypeNumber, Field!Choose, Field!vars
<1>10. QED
  BY <1>5, <1>6, <1>7, <1>8, <1>9 DEF Field!Next

LEMMA FieldHold == Field!Spec => []FieldInv
<1>1. Field!Init => FieldInv
  BY DEF Field!Init, FieldInv, Field!TextSaysValue, Field!ErrorOnlyWhileWrong
<1>2. FieldInv /\ [Field!Next]_(Field!vars) => FieldInv'
  BY FieldNext
<1>3. QED
  BY <1>1, <1>2, PTL DEF Field!Spec

\* The lines on screen say what is saved, whoever changed it last (KeyValueField).
THEOREM TextIsSaved == Field!Spec => []Field!TextSaysValue
<1>1. FieldInv => Field!TextSaysValue
  BY DEF FieldInv
<1>2. QED
  BY <1>1, FieldHold, PTL

\* An error is shown only as long as the field is wrong, whatever was typed or
\* switched off while its second ran (useFieldError).
THEOREM ErrorIsAboutText == Field!Spec => []Field!ErrorOnlyWhileWrong
<1>1. FieldInv => Field!ErrorOnlyWhileWrong
  BY DEF FieldInv
<1>2. QED
  BY <1>1, FieldHold, PTL

-----------------------------------------------------------------------------
(* Previews of references *)

RefTyped ==
  /\ \/ mouse = Ref!Away
     \/ \E t \in CitingTexts, id \in Ref!Ids : mouse = Ref!On(t, id)
     \/ \E t \in CitingTexts : mouse = Ref!Over(t)
  /\ showingRefPopover \in Ref!Ids \cup {Ref!None}
  /\ currentRef \in [CitingTexts -> Ref!Ids \cup {Ref!None}]
  /\ \A t \in CitingTexts : currentRef[t] \in Cited[t] \cup {Ref!None}
  /\ shouldShow \in [CitingTexts -> BOOLEAN] /\ hoverTimer \in [CitingTexts -> BOOLEAN]
  /\ dismissalTimer \in [CitingTexts -> BOOLEAN] /\ isOver \in [CitingTexts -> BOOLEAN]
  /\ rendered \in [CitingTexts -> BOOLEAN] /\ attached \in [CitingTexts -> BOOLEAN]
  /\ leftLink \in [CitingTexts -> Ref!Ids \cup {Ref!None}]
  /\ mouseMoves \in Nat

\* A popover's delay runs while the mouse is on its link; one that is shown has the
\* mouse or is about to go, because of the link that the mouse left.
RefTimed(t) ==
  /\ hoverTimer[t] => Ref!IsOpen(t) /\ mouse = Ref!On(t, currentRef[t])
  /\ shouldShow[t] =>
       /\ Ref!IsOpen(t)
       /\ dismissalTimer[t] \/ mouse = Ref!On(t, currentRef[t]) \/ mouse = Ref!Over(t)
  /\ dismissalTimer[t] => Ref!IsOpen(t) /\ currentRef[t] = leftLink[t]
  /\ isOver[t] <=> mouse = Ref!Over(t)
  /\ mouse = Ref!Over(t) => currentRef[t] # Ref!None
RefInv == RefTyped /\ \A t \in CitingTexts : RefTimed(t)

\* The mouse is in one place.
LEMMA OnePlace ==
  /\ \A t, u, i, j : Ref!On(t, i) = Ref!On(u, j) <=> t = u /\ i = j
  /\ \A t, u : Ref!Over(t) = Ref!Over(u) <=> t = u
  /\ \A t, i, u : Ref!On(t, i) # Ref!Over(u)
  /\ \A t, i : Ref!On(t, i) # Ref!Away /\ Ref!Over(t) # Ref!Away
<1>1. ASSUME NEW t, NEW u, NEW i, NEW j, Ref!On(t, i) = Ref!On(u, j) PROVE t = u /\ i = j
  <2>1. Ref!On(t, i)[2] = t /\ Ref!On(t, i)[3] = i /\ Ref!On(u, j)[2] = u /\ Ref!On(u, j)[3] = j
    BY DEF Ref!On
  <2>2. QED
    BY <1>1, <2>1
<1>2. ASSUME NEW t, NEW u, Ref!Over(t) = Ref!Over(u) PROVE t = u
  <2>1. Ref!Over(t)[2] = t /\ Ref!Over(u)[2] = u
    BY DEF Ref!Over
  <2>2. QED
    BY <1>2, <2>1
<1>3. \A t, i, u : Ref!On(t, i)[1] = "link" /\ Ref!Over(u)[1] = "popover" /\ Ref!Away[1] = "away"
  BY DEF Ref!On, Ref!Over, Ref!Away
<1>4. QED
  BY <1>1, <1>2, <1>3

LEMMA RefInit == Ref!Assumptions /\ Ref!Init => RefInv
<1> SUFFICES ASSUME Ref!Assumptions, Ref!Init PROVE RefInv
  OBVIOUS
<1>1. RefTyped
  BY DEF RefTyped, Ref!Init, Ref!Off
<1>2. ASSUME NEW t \in CitingTexts PROVE RefTimed(t)
  BY OnePlace DEF RefTimed, Ref!Init, Ref!Off
<1>3. QED
  BY <1>1, <1>2 DEF RefInv

\* A popover that closes takes what is pending of all of them.
LEMMA CloseIs ==
    ASSUME RefInv, NEW t \in CitingTexts, Ref!Close(t),
           UNCHANGED <<rendered, attached>>, mouseMoves' \in Nat,
           \/ mouse' = mouse /\ mouse # Ref!Over(t)
           \/ mouse = Ref!Over(t) /\ mouse' = Ref!Away
    PROVE  RefInv'
<1> DEFINE ref == [currentRef EXCEPT ![t] = Ref!None]
<1>1. /\ showingRefPopover' = Ref!None /\ currentRef' = ref /\ leftLink' = leftLink
      /\ \A u \in CitingTexts : ~hoverTimer'[u] /\ ~dismissalTimer'[u] /\ ~shouldShow'[u]
      /\ hoverTimer' \in [CitingTexts -> BOOLEAN] /\ dismissalTimer' \in [CitingTexts -> BOOLEAN]
      /\ shouldShow' \in [CitingTexts -> BOOLEAN]
      /\ isOver' = [u \in CitingTexts |-> ref[u] # Ref!None /\ isOver[u]]
  BY DEF Ref!Close, Ref!Effects, Ref!Timers
<1>2. /\ ref \in [CitingTexts -> Ref!Ids \cup {Ref!None}]
      /\ \A u \in CitingTexts : /\ ref[u] \in Cited[u] \cup {Ref!None}
                                /\ u # t => ref[u] = currentRef[u]
      /\ ref[t] = Ref!None
  BY DEF RefInv, RefTyped
<1> HIDE DEF ref
<1>3. RefTyped'
  BY <1>1, <1>2 DEF RefInv, RefTyped
<1>4. ASSUME NEW u \in CitingTexts PROVE RefTimed(u)'
  <2>1. isOver'[u] <=> ref[u] # Ref!None /\ isOver[u]
    BY <1>1
  <2>2. RefTimed(u)
    BY DEF RefInv
  <2>3. (isOver'[u] <=> mouse' = Ref!Over(u)) /\ (mouse' = Ref!Over(u) => ref[u] # Ref!None)
    BY <1>2, <2>1, <2>2, OnePlace DEF RefTimed
  <2>4. QED
    BY <1>1, <2>3 DEF RefTimed
<1>5. QED
  BY <1>3, <1>4 DEF RefInv

LEMMA EnterLinkIs ==
    ASSUME Ref!Assumptions, RefInv, NEW t \in CitingTexts, NEW id \in Cited[t], Ref!EnterLink(t, id)
    PROVE  RefInv'
<1>1. /\ mouse = Ref!Away /\ mouse' = Ref!On(t, id) /\ leftLink' = leftLink
      /\ rendered' = rendered /\ attached' = attached /\ mouseMoves' \in Nat
      /\ id \in Ref!Ids /\ id # Ref!None
  BY DEF Ref!EnterLink, Ref!Move, Ref!textVars, RefInv, RefTyped, Ref!Ids, Ref!Assumptions
<1>2. ASSUME NEW u \in CitingTexts
      PROVE  /\ ~hoverTimer[u] /\ ~isOver[u]
             /\ shouldShow[u] => Ref!IsOpen(u) /\ dismissalTimer[u]
             /\ dismissalTimer[u] => Ref!IsOpen(u) /\ currentRef[u] = leftLink[u]
  BY <1>1, OnePlace DEF RefInv, RefTimed
<1>3. CASE UNCHANGED <<showingRefPopover, currentRef, shouldShow, hoverTimer, dismissalTimer, isOver>>
  <2>1. RefTyped'
    BY <1>1, <1>3 DEF RefInv, RefTyped
  <2>2. ASSUME NEW u \in CitingTexts PROVE RefTimed(u)'
    BY <1>1, <1>2, <1>3, OnePlace DEF RefTimed, Ref!IsOpen
  <2>3. QED
    BY <2>1, <2>2 DEF RefInv
<1>4. CASE /\ Ref!IsOpen(t) /\ currentRef[t] = id
           /\ currentRef' = [currentRef EXCEPT ![t] = id] /\ showingRefPopover' = id
           /\ hoverTimer' = [hoverTimer EXCEPT ![t] = TRUE]
           /\ UNCHANGED <<shouldShow, dismissalTimer, isOver>>
  <2>1. currentRef' = currentRef /\ showingRefPopover' = showingRefPopover
    BY <1>4 DEF RefInv, RefTyped, Ref!IsOpen
  <2>2. RefTyped'
    BY <1>1, <1>4, <2>1 DEF RefInv, RefTyped
  <2>3. ASSUME NEW u \in CitingTexts PROVE RefTimed(u)'
    <3>1. hoverTimer'[u] => u = t
      BY <1>2, <1>4 DEF RefInv, RefTyped
    <3>2. QED
      BY <1>1, <1>2, <1>4, <2>1, <3>1, OnePlace DEF RefTimed, Ref!IsOpen
  <2>4. QED
    BY <2>2, <2>3 DEF RefInv
<1>5. CASE /\ currentRef' = [currentRef EXCEPT ![t] = id] /\ showingRefPopover' = id
           /\ Ref!Effects([currentRef EXCEPT ![t] = id], id, t)
  <2> DEFINE ref == [currentRef EXCEPT ![t] = id]
  <2>1. /\ ref \in [CitingTexts -> Ref!Ids \cup {Ref!None}]
        /\ \A u \in CitingTexts : /\ ref[u] \in Cited[u] \cup {Ref!None}
                                  /\ u # t => ref[u] = currentRef[u]
        /\ ref[t] = id
    BY <1>1 DEF RefInv, RefTyped
  <2>2. /\ currentRef' = ref /\ showingRefPopover' = id
        /\ hoverTimer' = [u \in CitingTexts |->
             (ref[u] # Ref!None /\ ref[u] = id) /\ (u = t \/ hoverTimer[u])]
        /\ dismissalTimer' = [u \in CitingTexts |->
             (ref[u] # Ref!None /\ ref[u] = id) /\ u # t /\ dismissalTimer[u]]
        /\ shouldShow' = [u \in CitingTexts |-> (ref[u] # Ref!None /\ ref[u] = id) /\ shouldShow[u]]
        /\ isOver' = [u \in CitingTexts |-> ref[u] # Ref!None /\ isOver[u]]
    BY <1>5 DEF Ref!Effects, Ref!Timers
  <2> HIDE DEF ref
  <2>3. RefTyped'
    <3>1. /\ hoverTimer' \in [CitingTexts -> BOOLEAN] /\ dismissalTimer' \in [CitingTexts -> BOOLEAN]
          /\ shouldShow' \in [CitingTexts -> BOOLEAN] /\ isOver' \in [CitingTexts -> BOOLEAN]
      BY <2>2
    <3>2. QED
      BY <1>1, <2>1, <2>2, <3>1 DEF RefInv, RefTyped
  <2>4. ASSUME NEW u \in CitingTexts PROVE RefTimed(u)'
    <3>1. /\ hoverTimer'[u] <=> (ref[u] # Ref!None /\ ref[u] = id) /\ (u = t \/ hoverTimer[u])
          /\ dismissalTimer'[u] <=> (ref[u] # Ref!None /\ ref[u] = id) /\ u # t /\ dismissalTimer[u]
          /\ shouldShow'[u] <=> (ref[u] # Ref!None /\ ref[u] = id) /\ shouldShow[u]
          /\ isOver'[u] <=> ref[u] # Ref!None /\ isOver[u]
          /\ currentRef'[u] = ref[u]
      BY <2>2
    <3>2. Ref!IsOpen(u)' <=> ref[u] # Ref!None /\ ref[u] = id
      BY <2>2 DEF Ref!IsOpen
    <3>3. QED
      BY <1>1, <1>2, <2>1, <3>1, <3>2, OnePlace DEF RefTimed
  <2>5. QED
    BY <2>3, <2>4 DEF RefInv
<1>6. QED
  BY <1>3, <1>4, <1>5 DEF Ref!EnterLink

LEMMA LeaveLinkIs == ASSUME RefInv, Ref!LeaveLink PROVE RefInv'
<1>1. PICK t \in CitingTexts, id \in Ref!Ids :
        /\ mouse = Ref!On(t, id)
        /\ IF Ref!IsOpen(t) /\ currentRef[t] = id
           THEN /\ hoverTimer' = [hoverTimer EXCEPT ![t] = FALSE]
                /\ dismissalTimer' = [dismissalTimer EXCEPT ![t] = TRUE]
                /\ leftLink' = [leftLink EXCEPT ![t] = id]
           ELSE UNCHANGED <<hoverTimer, dismissalTimer, leftLink>>
  BY DEF Ref!LeaveLink
<1>2. /\ mouse' = Ref!Away /\ mouseMoves' \in Nat
      /\ UNCHANGED <<showingRefPopover, currentRef, shouldShow, isOver, rendered, attached>>
  BY DEF Ref!LeaveLink, Ref!Move, Ref!textVars, RefInv, RefTyped
<1>3. RefTyped'
  BY <1>1, <1>2 DEF RefInv, RefTyped
<1>4. ASSUME NEW u \in CitingTexts PROVE RefTimed(u)'
  <2>1. RefTimed(u)
    BY DEF RefInv
  <2>2. CASE Ref!IsOpen(t) /\ currentRef[t] = id
    <3>1. /\ hoverTimer'[u] = (IF u = t THEN FALSE ELSE hoverTimer[u])
          /\ dismissalTimer'[u] = (IF u = t THEN TRUE ELSE dismissalTimer[u])
          /\ leftLink'[u] = IF u = t THEN id ELSE leftLink[u]
      BY <1>1, <2>2 DEF RefInv, RefTyped
    <3>2. CASE u = t
      BY <1>1, <1>2, <2>1, <2>2, <3>1, <3>2, OnePlace DEF RefTimed, Ref!IsOpen
    <3>3. CASE u # t
      BY <1>1, <1>2, <2>1, <2>2, <3>1, <3>3, OnePlace DEF RefTimed, Ref!IsOpen
    <3>4. QED
      BY <3>2, <3>3
  <2>3. CASE ~(Ref!IsOpen(t) /\ currentRef[t] = id)
    BY <1>1, <1>2, <2>1, <2>3, OnePlace DEF RefTimed, Ref!IsOpen
  <2>4. QED
    BY <2>2, <2>3
<1>5. QED
  BY <1>3, <1>4 DEF RefInv

\* No move of the mouse and no timer leaves a popover behind, or closes another one
\* than the one that was left.
LEMMA RefNext ==
    ASSUME Ref!Assumptions, RefInv, [Ref!Next]_(Ref!vars)
    PROVE  RefInv' /\ Ref!OnlyLeftIsDismissed /\ Ref!StaysUnderMouse
<1>1. mouseMoves \in Nat /\ \A t \in CitingTexts : RefTimed(t)
  BY DEF RefInv, RefTyped
<1>2. Ref!OnlyLeftIsDismissed
  <2>1. ASSUME NEW t \in CitingTexts, Ref!Dismissed(t),
               NEW u \in CitingTexts, NEW id \in Ref!Ids, currentRef[u] = id, Ref!IsOpen(u)
        PROVE  id = leftLink[t]
    BY <1>1, <2>1 DEF Ref!Dismissed, RefTimed, Ref!IsOpen
  <2>2. QED
    BY <2>1 DEF Ref!OnlyLeftIsDismissed
<1>3. ASSUME Ref!Move PROVE Ref!StaysUnderMouse
  <2>1. mouseMoves' # mouseMoves
    BY <1>1, <1>3 DEF Ref!Move
  <2>2. QED
    BY <2>1 DEF Ref!StaysUnderMouse
<1>4. ASSUME UNCHANGED <<showingRefPopover, currentRef, shouldShow>> PROVE Ref!StaysUnderMouse
  BY <1>4 DEF Ref!StaysUnderMouse, Ref!Visible, Ref!IsOpen
<1>5. ASSUME UNCHANGED <<mouse, showingRefPopover, currentRef, shouldShow, hoverTimer, dismissalTimer,
                         isOver, leftLink, mouseMoves>>,
             rendered' \in [CitingTexts -> BOOLEAN], attached' \in [CitingTexts -> BOOLEAN]
      PROVE  RefInv'
  <2>1. RefTyped'
    BY <1>5 DEF RefInv, RefTyped
  <2>2. ASSUME NEW t \in CitingTexts PROVE RefTimed(t)'
    BY <1>1, <1>5 DEF RefTimed, Ref!IsOpen
  <2>3. QED
    BY <2>1, <2>2 DEF RefInv
<1>6. ASSUME NEW t \in CitingTexts, NEW id \in Cited[t], Ref!EnterLink(t, id)
      PROVE  RefInv' /\ Ref!StaysUnderMouse
  BY <1>3, <1>6, EnterLinkIs DEF Ref!EnterLink
<1>7. CASE Ref!LeaveLink
  BY <1>2, <1>3, <1>7, LeaveLinkIs DEF Ref!LeaveLink
<1>8. ASSUME Ref!Move PROVE UNCHANGED <<rendered, attached>> /\ mouseMoves' \in Nat
  BY <1>1, <1>8 DEF Ref!Move, Ref!textVars
<1>9. CASE Ref!ClickLink
  <2>1. PICK t \in CitingTexts, id \in Ref!Ids : mouse = Ref!On(t, id) /\ Ref!Close(t)
    BY <1>9 DEF Ref!ClickLink
  <2>2. Ref!Move /\ mouse' = mouse /\ mouse # Ref!Over(t)
    BY <1>9, <2>1, OnePlace DEF Ref!ClickLink
  <2>3. QED
    BY <1>2, <1>3, <1>8, <2>1, <2>2, CloseIs
<1>10. ASSUME NEW t \in CitingTexts, Ref!EnterPopover(t) PROVE RefInv' /\ Ref!StaysUnderMouse
  <2>1. /\ Ref!Move /\ mouse = Ref!Away /\ Ref!Visible(t) /\ mouse' = Ref!Over(t)
        /\ isOver' = [isOver EXCEPT ![t] = TRUE]
        /\ hoverTimer' = [hoverTimer EXCEPT ![t] = FALSE]
        /\ dismissalTimer' = [dismissalTimer EXCEPT ![t] = FALSE]
        /\ UNCHANGED <<showingRefPopover, currentRef, shouldShow, leftLink>>
    BY <1>10 DEF Ref!EnterPopover
  <2>2. RefTyped'
    BY <1>8, <2>1 DEF RefInv, RefTyped
  <2>3. ASSUME NEW u \in CitingTexts PROVE RefTimed(u)'
    <3>1. RefTimed(u) /\ RefTimed(t)
      BY <1>1
    <3>2. /\ isOver'[u] = (IF u = t THEN TRUE ELSE isOver[u])
          /\ hoverTimer'[u] = (IF u = t THEN FALSE ELSE hoverTimer[u])
          /\ dismissalTimer'[u] = (IF u = t THEN FALSE ELSE dismissalTimer[u])
      BY <2>1 DEF RefInv, RefTyped
    <3>3. CASE u = t
      BY <2>1, <3>1, <3>2, <3>3, OnePlace DEF RefTimed, Ref!IsOpen, Ref!Visible
    <3>4. CASE u # t
      BY <2>1, <3>1, <3>2, <3>4, OnePlace DEF RefTimed, Ref!IsOpen
    <3>5. QED
      BY <3>3, <3>4
  <2>4. QED
    BY <1>3, <2>1, <2>2, <2>3 DEF RefInv
<1>11. ASSUME NEW t \in CitingTexts, Ref!LeavePopover(t) \/ Ref!PressOutside(t)
       PROVE  RefInv' /\ Ref!StaysUnderMouse
  <2>1. /\ Ref!Move /\ Ref!Close(t)
        /\ \/ mouse' = mouse /\ mouse # Ref!Over(t)
           \/ mouse = Ref!Over(t) /\ mouse' = Ref!Away
    BY <1>11 DEF Ref!LeavePopover, Ref!PressOutside
  <2>2. QED
    BY <1>3, <1>8, <2>1, CloseIs
<1>12. ASSUME NEW t \in CitingTexts, Ref!Shows(t) PROVE RefInv' /\ Ref!StaysUnderMouse
  <2>1. /\ hoverTimer[t] /\ hoverTimer' = [hoverTimer EXCEPT ![t] = FALSE]
        /\ shouldShow' = [shouldShow EXCEPT ![t] = TRUE]
        /\ UNCHANGED <<mouse, showingRefPopover, currentRef, dismissalTimer, isOver, leftLink,
                       rendered, attached, mouseMoves>>
    BY <1>12 DEF Ref!Shows, Ref!textVars
  <2>2. RefTyped'
    BY <2>1 DEF RefInv, RefTyped
  <2>3. ASSUME NEW u \in CitingTexts
        PROVE  /\ hoverTimer'[u] = (IF u = t THEN FALSE ELSE hoverTimer[u])
               /\ shouldShow'[u] = (IF u = t THEN TRUE ELSE shouldShow[u])
    BY <2>1 DEF RefInv, RefTyped
  <2>4. ASSUME NEW u \in CitingTexts PROVE RefTimed(u)'
    BY <1>1, <2>1, <2>3 DEF RefTimed, Ref!IsOpen
  <2>5. Ref!StaysUnderMouse
    BY <2>1, <2>3 DEF Ref!StaysUnderMouse, Ref!Visible, Ref!IsOpen
  <2>6. QED
    BY <2>2, <2>4, <2>5 DEF RefInv
<1>13. ASSUME NEW t \in CitingTexts, Ref!Dismissed(t) PROVE RefInv' /\ Ref!StaysUnderMouse
  <2>1. dismissalTimer[t] /\ UNCHANGED <<mouse, rendered, attached, mouseMoves>>
    BY <1>13 DEF Ref!Dismissed, Ref!textVars
  <2>2. CASE isOver[t]
    <3>1. /\ dismissalTimer' = [dismissalTimer EXCEPT ![t] = FALSE]
          /\ UNCHANGED <<showingRefPopover, currentRef, shouldShow, hoverTimer, isOver, leftLink>>
      BY <1>13, <2>2 DEF Ref!Dismissed
    <3>2. RefTyped'
      BY <2>1, <3>1 DEF RefInv, RefTyped
    <3>3. ASSUME NEW u \in CitingTexts PROVE RefTimed(u)'
      <4>1. dismissalTimer'[u] = (IF u = t THEN FALSE ELSE dismissalTimer[u])
        BY <3>1 DEF RefInv, RefTyped
      <4>2. QED
        BY <1>1, <2>1, <2>2, <3>1, <4>1 DEF RefTimed, Ref!IsOpen
    <3>4. QED
      BY <1>4, <3>1, <3>2, <3>3 DEF RefInv
  <2>3. CASE ~isOver[t]
    <3>1. Ref!Close(t)
      BY <1>13, <2>3 DEF Ref!Dismissed
    <3>2. mouse # Ref!Over(t)
      BY <1>1, <2>3 DEF RefTimed
    <3>3. RefInv'
      BY <1>1, <2>1, <3>1, <3>2, CloseIs
    <3>4. ASSUME NEW u \in CitingTexts, Ref!Visible(u), mouse = Ref!Over(u),
                 \A v \in CitingTexts \ {u} : currentRef[v] # currentRef[u]
          PROVE  FALSE
      BY <1>1, <2>1, <3>2, <3>4 DEF RefTimed, Ref!Visible, Ref!IsOpen
    <3>5. QED
      BY <3>3, <3>4 DEF Ref!StaysUnderMouse
  <2>4. QED
    BY <2>2, <2>3
<1>14. ASSUME NEW t \in CitingTexts, Ref!BecomesHtml(t) PROVE RefInv' /\ Ref!StaysUnderMouse
  <2>1. /\ UNCHANGED <<mouse, showingRefPopover, currentRef, shouldShow, hoverTimer, dismissalTimer,
                       isOver, leftLink, attached, mouseMoves>>
        /\ rendered' = [rendered EXCEPT ![t] = TRUE]
    BY <1>14 DEF Ref!BecomesHtml, Ref!popVars
  <2>2. rendered' \in [CitingTexts -> BOOLEAN] /\ attached' \in [CitingTexts -> BOOLEAN]
    BY <2>1 DEF RefInv, RefTyped
  <2>3. QED
    BY <1>4, <1>5, <2>1, <2>2
<1>15. CASE Ref!PageRenders \/ Ref!InputArrives \/ UNCHANGED Ref!vars
  <2>1. /\ UNCHANGED <<mouse, showingRefPopover, currentRef, shouldShow, hoverTimer, dismissalTimer,
                       isOver, leftLink, rendered, mouseMoves>>
        /\ attached' \in {rendered, attached}
    BY <1>15 DEF Ref!PageRenders, Ref!InputArrives, Ref!vars, Ref!popVars, Ref!textVars
  <2>2. rendered' \in [CitingTexts -> BOOLEAN] /\ attached' \in [CitingTexts -> BOOLEAN]
    BY <2>1 DEF RefInv, RefTyped
  <2>3. QED
    BY <1>2, <1>4, <1>5, <2>1, <2>2
<1>16. QED
  BY <1>2, <1>6, <1>7, <1>9, <1>10, <1>11, <1>12, <1>13, <1>14, <1>15 DEF Ref!Next

LEMMA RefHold == ASSUME Ref!Assumptions PROVE Ref!Spec => []RefInv
<1>1. RefInv /\ [Ref!Next]_(Ref!vars) => RefInv'
  BY RefNext
<1>2. QED
  BY <1>1, RefInit, PTL DEF Ref!Spec

\* When the mouse is elsewhere and every timer has run, no preview is left on the page,
\* whichever links were passed on the way (PopOver.tsx).
THEOREM NoPreviewLeft == ASSUME Ref!Assumptions PROVE Ref!Spec => []Ref!AwayMeansClosed
<1>1. RefInv => Ref!AwayMeansClosed
  BY OnePlace DEF RefInv, RefTimed, Ref!AwayMeansClosed, Ref!Visible
<1>2. QED
  BY <1>1, RefHold, PTL

\* Two previews are open only for a message that both texts cite (popoverKey).
THEOREM OnePreview == ASSUME Ref!Assumptions PROVE Ref!Spec => []Ref!OnePopover
<1>1. RefInv => Ref!OnePopover
  BY DEF RefInv, RefTyped, Ref!OnePopover, Ref!Visible, Ref!IsOpen
<1>2. QED
  BY <1>1, RefHold, PTL

\* A preview is not dismissed because of a link that the mouse left before it went to
\* another one, and the one under the mouse stays (PopOver.tsx).
THEOREM PreviewStays ==
    ASSUME Ref!Assumptions
    PROVE  Ref!Spec => [][Ref!OnlyLeftIsDismissed /\ Ref!StaysUnderMouse]_(Ref!vars)
<1>1. RefInv /\ [Ref!Next]_(Ref!vars) =>
        [Ref!OnlyLeftIsDismissed /\ Ref!StaysUnderMouse]_(Ref!vars)
  BY RefNext
<1>2. QED
  BY <1>1, RefHold, PTL DEF Ref!Spec

-----------------------------------------------------------------------------
(* Tasks and controls joined *)

\* A behaviour is one of a single task, all along.
LEMMA CallOnly == TaskSpec => (Call!Spec /\ [](task = "call")) \/ []~(task = "call")
<1>1. TaskInit /\ task = "call" => Call!Init
  BY DEF TaskInit
<1>2. task = "call" /\ [TaskNext]_TaskVars => [Call!Next]_(Call!vars) /\ (task = "call")'
  BY DEF TaskNext, TaskVars, callVars, Call!vars, Call!callVars, Call!netVars, Call!poolVars
<1>3. ~(task = "call") /\ [TaskNext]_TaskVars => ~(task = "call")'
  BY DEF TaskNext, TaskVars
<1>4. QED
  BY <1>1, <1>2, <1>3, PTL DEF TaskSpec, Call!Spec

LEMMA FindOnly == TaskSpec => (Find!Spec /\ [](task = "find")) \/ []~(task = "find")
<1>1. TaskInit /\ task = "find" => Find!Init
  BY DEF TaskInit
<1>2. task = "find" /\ [TaskNext]_TaskVars => [Find!Next]_(Find!vars) /\ (task = "find")'
  BY DEF TaskNext, TaskVars, findVars, Find!vars, Find!boxVars, Find!bandVars,
         Find!waitVars, Find!listVars
<1>3. ~(task = "find") /\ [TaskNext]_TaskVars => ~(task = "find")'
  BY DEF TaskNext, TaskVars
<1>4. QED
  BY <1>1, <1>2, <1>3, PTL DEF TaskSpec, Find!Spec

LEMMA PlaceOnly == TaskSpec => (Place!Spec /\ [](task = "place")) \/ []~(task = "place")
<1>1. TaskInit /\ task = "place" => Place!Init
  BY DEF TaskInit
<1>2. task = "place" /\ [TaskNext]_TaskVars => [Place!Next]_(Place!vars) /\ (task = "place")'
  BY DEF TaskNext, TaskVars, placeVars, Place!vars, Place!historyVars, Place!savedVars
<1>3. ~(task = "place") /\ [TaskNext]_TaskVars => ~(task = "place")'
  BY DEF TaskNext, TaskVars
<1>4. QED
  BY <1>1, <1>2, <1>3, PTL DEF TaskSpec, Place!Spec

\* A call returns the answers to its own last attempt and is never forgotten;
\* the latest search gets an answer, and one that found nothing is right.
THEOREM AnswersForAll == ASSUME TaskAssumptions PROVE TaskSpec => []CallsGetTheirAnswers
<1>1. Call!Assumptions /\ Find!Assumptions
  BY DEF TaskAssumptions
<1>2. Call!Spec => []Call!OwnAnswer /\ []Call!NoCallForgotten
  BY <1>1, CallsGetOwnAnswer, NoCallIsForgotten
<1>3. Find!Spec => []Find!LatestIsAnswered /\ []Find!NoResultsIsTrue
  BY <1>1, LatestSearchAnswered, NoResultsForAReason
<1>4. QED
  BY <1>2, <1>3, CallOnly, FindOnly, PTL DEF CallsGetTheirAnswers

\* The pages use what the address names, and when no save is pending that is what
\* a webview has saved.
THEOREM AddressForAll == ASSUME TaskAssumptions PROVE TaskSpec => []AddressIsShown
<1>1. Place!Assumptions
  BY DEF TaskAssumptions
<1>2. Place!Spec => []Place!StoreFollowsAddress /\ []Place!SavedIsCurrent
  BY <1>1, AddressFollowed, SavedAsShown
<1>3. QED
  BY <1>2, PlaceOnly, PTL DEF AddressIsShown

\* A webview comes back to the scan that was open, and the next match is behind the
\* last one.
THEOREM GoesOn == ASSUME TaskAssumptions PROVE TaskSpec => GoesOnWhereLeft
<1>1. Find!Assumptions /\ Place!Assumptions
  BY DEF TaskAssumptions
<1>2. ASSUME FindInv, [Find!Next]_(Find!vars) PROVE Find!NextGoesOn
  <2>1. FindInv'
    BY <1>1, <1>2, FindNext
  <2>2. QED
    BY <2>1 DEF FindInv, AnswersRight, Answer, Find!NextGoesOn
<1>3. ASSUME PlaceInv, [Place!Next]_(Place!vars) PROVE Place!ReturnsToScan
  BY <1>1, <1>3, PlaceNext
<1>4. [TaskNext]_TaskVars => [Find!Next]_(Find!vars) \/ task # "find"
  BY DEF TaskNext, TaskVars, findVars, Find!vars, Find!boxVars, Find!bandVars, Find!waitVars,
         Find!listVars
<1>5. [TaskNext]_TaskVars => [Place!Next]_(Place!vars) \/ task # "place"
  BY DEF TaskNext, TaskVars, placeVars, Place!vars, Place!historyVars, Place!savedVars
<1>6. (task = "find" => FindInv) /\ (task = "place" => PlaceInv) /\ [TaskNext]_TaskVars
      => [ /\ task = "place" => Place!ReturnsToScan
           /\ task = "find" => Find!NextGoesOn ]_TaskVars
  BY <1>2, <1>3, <1>4, <1>5
<1>7. QED
  BY <1>1, <1>6, FindHold, PlaceHold, FindOnly, PlaceOnly, PTL DEF TaskSpec, GoesOnWhereLeft

\* And one of a single control.
LEMMA LayoutOnly == ControlSpec => (Layout!Spec /\ [](task = "columns")) \/ []~(task = "columns")
<1>1. ControlInit /\ task = "columns" => Layout!Init
  BY DEF ControlInit
<1>2. task = "columns" /\ [ControlNext]_ControlVars => [Layout!Next]_(Layout!vars) /\ (task = "columns")'
  BY DEF ControlNext, ControlVars, layoutVars, Layout!vars
<1>3. ~(task = "columns") /\ [ControlNext]_ControlVars => ~(task = "columns")'
  BY DEF ControlNext, ControlVars
<1>4. QED
  BY <1>1, <1>2, <1>3, PTL DEF ControlSpec, Layout!Spec

LEMMA FilterOnly == ControlSpec => (Filter!Spec /\ [](task = "filter")) \/ []~(task = "filter")
<1>1. ControlInit /\ task = "filter" => Filter!Init
  BY DEF ControlInit
<1>2. task = "filter" /\ [ControlNext]_ControlVars => [Filter!Next]_(Filter!vars) /\ (task = "filter")'
  BY DEF ControlNext, ControlVars, filterVars, Filter!vars
<1>3. ~(task = "filter") /\ [ControlNext]_ControlVars => ~(task = "filter")'
  BY DEF ControlNext, ControlVars
<1>4. QED
  BY <1>1, <1>2, <1>3, PTL DEF ControlSpec, Filter!Spec

LEMMA InputOnly == ControlSpec => (Input!Spec /\ [](task = "input")) \/ []~(task = "input")
<1>1. ControlInit /\ task = "input" => Input!Init
  BY DEF ControlInit
<1>2. task = "input" /\ [ControlNext]_ControlVars => [Input!Next]_(Input!vars) /\ (task = "input")'
  BY DEF ControlNext, ControlVars, inputVars, Input!vars, Input!inputVars
<1>3. ~(task = "input") /\ [ControlNext]_ControlVars => ~(task = "input")'
  BY DEF ControlNext, ControlVars
<1>4. QED
  BY <1>1, <1>2, <1>3, PTL DEF ControlSpec, Input!Spec

LEMMA FieldOnly == ControlSpec => (Field!Spec /\ [](task = "field")) \/ []~(task = "field")
<1>1. ControlInit /\ task = "field" => Field!Init
  BY DEF ControlInit
<1>2. task = "field" /\ [ControlNext]_ControlVars => [Field!Next]_(Field!vars) /\ (task = "field")'
  BY DEF ControlNext, ControlVars, fieldVars, Field!vars, Field!kvVars, Field!plainVars
<1>3. ~(task = "field") /\ [ControlNext]_ControlVars => ~(task = "field")'
  BY DEF ControlNext, ControlVars
<1>4. QED
  BY <1>1, <1>2, <1>3, PTL DEF ControlSpec, Field!Spec

LEMMA RefOnly == ControlSpec => (Ref!Spec /\ [](task = "ref")) \/ []~(task = "ref")
<1>1. ControlInit /\ task = "ref" => Ref!Init
  BY DEF ControlInit
<1>2. task = "ref" /\ [ControlNext]_ControlVars => [Ref!Next]_(Ref!vars) /\ (task = "ref")'
  BY DEF ControlNext, ControlVars, refVars, Ref!vars, Ref!popVars, Ref!textVars
<1>3. ~(task = "ref") /\ [ControlNext]_ControlVars => ~(task = "ref")'
  BY DEF ControlNext, ControlVars
<1>4. QED
  BY <1>1, <1>2, <1>3, PTL DEF ControlSpec, Ref!Spec

\* What a control shows belongs to what it is for: widths to their limits,
\* conditions to their operators, suggestions to the column, the highlight to the
\* list, texts and errors to the value, and a preview to its reference.
THEOREM ControlsShowTheirs == ASSUME ControlAssumptions PROVE ControlSpec => []ControlsAgree
<1>1. Layout!Assumptions /\ Filter!Assumptions /\ Ref!Assumptions
  BY DEF ControlAssumptions
<1>2. Layout!Spec => []Layout!WidthsWithinLimits
  BY <1>1, WidthsStayInLimits
<1>3. Filter!Spec => []Filter!ConditionsWellFormed /\ []Filter!SuggestionsOfColumn
  BY <1>1, ConditionsFit, SuggestsForItsColumn
<1>4. Input!Spec => []Input!HighlightInList
  BY HighlightStays
<1>5. Field!Spec => []Field!TextSaysValue /\ []Field!ErrorOnlyWhileWrong
  BY TextIsSaved, ErrorIsAboutText
<1>6. Ref!Spec => []Ref!AwayMeansClosed /\ []Ref!OnePopover
  BY <1>1, NoPreviewLeft, OnePreview
<1>7. QED
  BY <1>2, <1>3, <1>4, <1>5, <1>6, LayoutOnly, FilterOnly, InputOnly, FieldOnly, RefOnly, PTL
  DEF ControlsAgree

\* What the user did not touch stays: widths, conditions, labels, and the preview
\* under the mouse.
THEOREM NothingTouchedByItself == ASSUME ControlAssumptions PROVE ControlSpec => UntouchedKept
<1>1. Layout!Assumptions /\ Filter!Assumptions /\ Ref!Assumptions
  BY DEF ControlAssumptions
<1>2. ASSUME WidthsInv, [Layout!Next]_(Layout!vars) PROVE Layout!KeepsManual
  BY <1>1, <1>2, WidthsNext
<1>3. ASSUME FilterInv, [Filter!Next]_(Filter!vars) PROVE Filter!KeepsUntouched
  BY <1>1, <1>3, FilterNext
<1>4. ASSUME Input!HighlightInList, [Input!Next]_(Input!vars) PROVE Input!AddsWhatIsTyped
  BY <1>4, InputNext
<1>5. ASSUME RefInv, [Ref!Next]_(Ref!vars) PROVE Ref!OnlyLeftIsDismissed /\ Ref!StaysUnderMouse
  BY <1>1, <1>5, RefNext
<1>6. [ControlNext]_ControlVars =>
        /\ [Layout!Next]_(Layout!vars) \/ task # "columns"
        /\ [Filter!Next]_(Filter!vars) \/ task # "filter"
  BY DEF ControlNext, ControlVars, layoutVars, Layout!vars, filterVars, Filter!vars
<1>7. [ControlNext]_ControlVars =>
        /\ [Input!Next]_(Input!vars) \/ task # "input"
        /\ [Ref!Next]_(Ref!vars) \/ task # "ref"
  BY DEF ControlNext, ControlVars, inputVars, Input!vars, Input!inputVars,
         refVars, Ref!vars, Ref!popVars, Ref!textVars
<1>8. /\ task = "columns" => WidthsInv
      /\ task = "filter" => FilterInv
      /\ task = "input" => Input!HighlightInList
      /\ task = "ref" => RefInv
      /\ [ControlNext]_ControlVars
      => [ /\ task = "columns" => Layout!KeepsManual
           /\ task = "filter" => Filter!KeepsUntouched
           /\ task = "input" => Input!AddsWhatIsTyped
           /\ task = "ref" => Ref!OnlyLeftIsDismissed
           /\ task = "ref" => Ref!StaysUnderMouse ]_ControlVars
  BY <1>2, <1>3, <1>4, <1>5, <1>6, <1>7
<1>9. QED
  BY <1>1, <1>8, WidthsHold, FilterHold, HighlightStays, RefHold,
     LayoutOnly, FilterOnly, InputOnly, RefOnly, PTL DEF ControlSpec, UntouchedKept
=============================================================================
