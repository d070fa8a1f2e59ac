------------------------- MODULE MultiProcessProofs -------------------------
(***************************************************************************)
(* Theorems of MultiProcess, for any jobs, any number of worker processes  *)
(* and tasks, any queue sizes and whichever processes may die: of the end  *)
(* of the collector and of the workers, and of the jobs on their way from  *)
(* the producer to the recorder, of which none is doubled, and none lost   *)
(* unless something fails.  No step breaks the contract of a strategy.     *)
(***************************************************************************)
EXTENDS MultiProcess, Counting, TLAPS, FiniteSetTheorems, SequenceTheorems

\* What a worker puts last on its channel, and when it puts nothing any more.
Farewells == {"complete", "error"}
Ended == {"ending", "dead"}

\* The channel c and the jobs h of a worker in state s: it is ready once, ends
\* once, and has given up its jobs when it has ended.
Fits(s, c, h) ==
    /\ s = "starting" => c = <<>>
    /\ s \in {"waiting", "working"} => \A i \in DOMAIN c : c[i] \notin Farewells
    /\ \A i \in DOMAIN c : c[i] \in Farewells => i = Len(c)
    /\ \A i \in DOMAIN c : c[i] = "ready" => i = 1
    /\ s \in Ended => h = {}

Orderly == \A w \in Workers : Fits(state[w], channel[w], held[w])

\* The workers whose messages the collector has counted.
IsReady(s, c) == s # "starting" /\ \A i \in DOMAIN c : c[i] # "ready"
ReadyCounted ==
    \E R \in SUBSET Workers :
        Cardinality(R) = readyCount /\ \A w \in R : IsReady(state[w], channel[w])

IsThrough(s, c) == s \in Ended /\ c = <<>>
FinishedCounted ==
    \E F \in SUBSET Workers :
        Cardinality(F) = finished /\ \A w \in F : IsThrough(state[w], channel[w])

\* The collector leaves when it has counted everyone, or is cancelled.
LeavesCounted == collector = "done" /\ ~cancelled => finished = MaxProcesses

IInv == TypeOK /\ Orderly /\ ReadyCounted /\ FinishedCounted /\ LeavesCounted

-----------------------------------------------------------------------------
(* Workers and items *)

LEMMA WorkersFinite ==
    /\ IsFiniteSet(Workers) /\ Cardinality(Workers) = MaxProcesses /\ MaxProcesses \in Nat
    /\ \A S \in SUBSET Workers : /\ IsFiniteSet(S) /\ Cardinality(S) \in 0 .. MaxProcesses
                                 /\ Cardinality(S) = MaxProcesses => S = Workers
<1>1. MaxProcesses \in Nat \ {0, 1} /\ 0 \in Int /\ MaxProcesses - 1 \in Int
  BY MaxProcessesAssumption
<1>2. IsFiniteSet(Workers) /\ Cardinality(Workers) = MaxProcesses
  BY <1>1, FS_Interval DEF Workers
<1>3. ASSUME NEW S \in SUBSET Workers
      PROVE  /\ IsFiniteSet(S) /\ Cardinality(S) \in 0 .. MaxProcesses
             /\ Cardinality(S) = MaxProcesses => S = Workers
  <2>1. /\ IsFiniteSet(S) /\ Cardinality(S) <= Cardinality(Workers)
        /\ Cardinality(Workers) = Cardinality(S) => Workers = S
    BY <1>2, FS_Subset
  <2>2. Cardinality(S) \in Nat
    BY <2>1, FS_CardinalityType
  <2>3. QED
    BY <1>1, <1>2, <2>1, <2>2
<1>4. QED
  BY <1>1, <1>2, <1>3

Items == Jobs \cup Control

\* A job is not mistaken for a message.
LEMMA JobsAreNoMessages ==
    \A j \in Jobs : j \notin Farewells /\ j # "ready"
BY JobsAssumption DEF Control, Farewells

\* What becomes of a worker's channel: its first item is taken ...
LEMMA FitsTail ==
    ASSUME NEW c \in Seq(Items), c # <<>>, NEW s, NEW h, Fits(s, c, h)
    PROVE  /\ Tail(c) \in Seq(Items) /\ Fits(s, Tail(c), h)
           /\ \A i \in DOMAIN Tail(c) : Tail(c)[i] # "ready"
           /\ Head(c) \in Farewells => Tail(c) = <<>>
<1>1. /\ Len(c) \in Nat \ {0} /\ Head(c) = c[1] /\ Tail(c) \in Seq(Items) /\ Len(Tail(c)) = Len(c) - 1
      /\ \A i \in 1 .. Len(c) - 1 : Tail(c)[i] = c[i + 1] /\ i + 1 \in DOMAIN c
  BY EmptySeq
<1>2. \A i \in DOMAIN Tail(c) : i \in 1 .. Len(c) - 1
  BY <1>1
<1>3. \A i \in DOMAIN Tail(c) : Tail(c)[i] # "ready"
  BY <1>1, <1>2 DEF Fits
<1>4. Head(c) \in Farewells => Tail(c) = <<>>
  <2>1. Head(c) \in Farewells => Len(c) = 1
    BY <1>1 DEF Fits
  <2>2. QED
    BY <1>1, <2>1, EmptySeq
<1>5. \A i \in DOMAIN Tail(c) : Tail(c)[i] \in Farewells => i = Len(Tail(c))
  BY <1>1, <1>2 DEF Fits
<1>6. s \in {"waiting", "working"} => \A i \in DOMAIN Tail(c) : Tail(c)[i] \notin Farewells
  BY <1>1, <1>2 DEF Fits
<1>7. s # "starting"
  BY DEF Fits
<1>8. QED
  BY <1>1, <1>3, <1>4, <1>5, <1>6, <1>7 DEF Fits

\* ... or an item is put, at its end ...
LEMMA FitsAppend ==
    ASSUME NEW c \in Seq(Items), NEW x \in Items
    PROVE  /\ Append(c, x) \in Seq(Items) /\ Len(Append(c, x)) = Len(c) + 1 /\ Len(c) \in Nat
           /\ DOMAIN c = 1 .. Len(c) /\ DOMAIN Append(c, x) = 1 .. Len(c) + 1
           /\ Append(c, x)[Len(c) + 1] = x
           /\ \A i \in 1 .. Len(c) : Append(c, x)[i] = c[i]
BY AppendProperties

\* ... or only the first items are left of it.
LEMMA FitsPrefix ==
    ASSUME NEW c \in Seq(Items), NEW n \in 0 .. Len(c)
    PROVE  /\ SubSeq(c, 1, n) \in Seq(Items) /\ Len(SubSeq(c, 1, n)) = n
           /\ \A i \in 1 .. n : SubSeq(c, 1, n)[i] = c[i] /\ i \in DOMAIN c
           /\ n = Len(c) => SubSeq(c, 1, n) = c
BY SubSeqProperties

-----------------------------------------------------------------------------
(* What a step does to one worker *)

\* From state s, channel c and jobs h to t, d and k.
Same(s, c, h, t, d, k) == t = s /\ d = c /\ (k = h \/ s = "working")
Becomes(s, c, h, t, d, k) ==
    /\ \/ s = "starting" /\ t = "waiting" /\ d = Append(c, "ready")
       \/ s = "waiting" /\ t = "working" /\ d = c
    /\ k = h
Reports(s, c, h, t, d, k) == s = "working" /\ t = "working" /\ \E j \in Jobs : d = Append(c, j)
Ends(s, c, h, t, d, k) == s = "working" /\ t = "ending" /\ k = {} /\ \E x \in Farewells : d = Append(c, x)
IsRead(s, c, h, t, d, k) == t = s /\ k = h /\ c # <<>> /\ d = Tail(c)
Dies(s, c, h, t, d, k) ==
    /\ t = "dead" /\ \E n \in 0 .. Len(c) : d = SubSeq(c, 1, n)
    /\ k = {} \/ (s = "ending" /\ k = h)

Effect(s, c, h, t, d, k) ==
    \/ Same(s, c, h, t, d, k) \/ Becomes(s, c, h, t, d, k) \/ Reports(s, c, h, t, d, k)
    \/ Ends(s, c, h, t, d, k) \/ IsRead(s, c, h, t, d, k) \/ Dies(s, c, h, t, d, k)

EffectOn(w) == Effect(state[w], channel[w], held[w], state'[w], channel'[w], held'[w])

LEMMA EveryEffect ==
    ASSUME TypeOK, [Next]_vars, NEW w \in Workers
    PROVE  EffectOn(w)
<1>1. /\ state \in [Workers -> States] /\ held \in [Workers -> SUBSET Jobs]
      /\ channel \in [Workers -> Seq(Items)] /\ channel[w] \in Seq(Items)
  BY DEF TypeOK, Items
<1> USE DEF EffectOn, Effect
<1>2. CASE UNCHANGED <<state, channel, held>>
  BY <1>2 DEF Same
<1>3. ASSUME NEW v \in Workers, Collect(v) \/ DrainUpstream(v) PROVE EffectOn(w)
  <2>1. /\ channel[v] # <<>> /\ channel' = [channel EXCEPT ![v] = Tail(@)]
        /\ UNCHANGED <<state, held>>
    BY <1>3 DEF Collect, CollectReady, CollectResult, CollectComplete, CollectorFails, Receive,
                DrainUpstream, workerVars
  <2>2. CASE w = v
    BY <1>1, <2>1, <2>2 DEF IsRead
  <2>3. CASE w # v
    BY <1>1, <2>1, <2>3 DEF Same
  <2>4. QED
    BY <2>2, <2>3
<1>4. ASSUME NEW v \in Workers, Initialize(v) \/ Start(v) PROVE EffectOn(w)
  <2>1. /\ UNCHANGED held
        /\ \/ /\ state[v] = "starting" /\ state' = [state EXCEPT ![v] = "waiting"]
              /\ channel' = [channel EXCEPT ![v] = Append(@, "ready")]
           \/ /\ state[v] = "waiting" /\ state' = [state EXCEPT ![v] = "working"]
              /\ UNCHANGED channel
    BY <1>4 DEF Initialize, Start, Put
  <2>2. CASE w = v
    BY <1>1, <2>1, <2>2 DEF Becomes
  <2>3. CASE w # v
    BY <1>1, <2>1, <2>3 DEF Same
  <2>4. QED
    BY <2>2, <2>3
<1>5. ASSUME NEW v \in Workers, Take(v) PROVE EffectOn(w)
  <2>1. /\ state[v] = "working" /\ UNCHANGED <<state, channel>>
        /\ UNCHANGED held \/ held' = [held EXCEPT ![v] = @ \cup {Head(parseQueue)}]
    BY <1>5 DEF Take
  <2>2. QED
    BY <1>1, <2>1 DEF Same
<1>6. ASSUME NEW v \in Workers, Report(v) PROVE EffectOn(w)
  <2>1. PICK j \in held[v] :
          /\ state[v] = "working" /\ UNCHANGED state
          /\ held' = [held EXCEPT ![v] = @ \ {j}] /\ channel' = [channel EXCEPT ![v] = Append(@, j)]
    BY <1>6 DEF Report, Put
  <2>2. j \in Jobs
    BY <1>1
  <2>3. CASE w = v
    BY <1>1, <2>1, <2>2, <2>3 DEF Reports
  <2>4. CASE w # v
    BY <1>1, <2>1, <2>4 DEF Same
  <2>5. QED
    BY <2>3, <2>4
<1>7. ASSUME NEW v \in Workers, Finish(v) \/ StopWork(v) \/ WorkFails(v) PROVE EffectOn(w)
  <2>1. PICK x \in Farewells :
          /\ state[v] = "working" /\ state' = [state EXCEPT ![v] = "ending"]
          /\ held' = [held EXCEPT ![v] = {}] /\ channel' = [channel EXCEPT ![v] = Append(@, x)]
    BY <1>7 DEF Finish, StopWork, WorkFails, EndWork, Put, Farewells
  <2>2. CASE w = v
    BY <1>1, <2>1, <2>2 DEF Ends
  <2>3. CASE w # v
    BY <1>1, <2>1, <2>3 DEF Same
  <2>4. QED
    BY <2>2, <2>3
<1>8. ASSUME NEW v \in Workers, Exit(v) PROVE EffectOn(w)
  <2>1. /\ state[v] = "ending" /\ state' = [state EXCEPT ![v] = "dead"]
        /\ UNCHANGED <<channel, held>>
    BY <1>8 DEF Exit
  <2>2. Len(channel[w]) \in 0 .. Len(channel[w]) /\ SubSeq(channel[w], 1, Len(channel[w])) = channel[w]
    <3>1. Len(channel[w]) \in 0 .. Len(channel[w])
      BY <1>1
    <3>2. QED
      BY <1>1, <3>1, FitsPrefix
  <2>3. CASE w = v
    BY <1>1, <2>1, <2>2, <2>3 DEF Dies
  <2>4. CASE w # v
    BY <1>1, <2>1, <2>4 DEF Same
  <2>5. QED
    BY <2>3, <2>4
<1>9. ASSUME NEW v \in Workers, Die(v) PROVE EffectOn(w)
  <2>1. PICK n \in 0 .. Len(channel[v]) :
          /\ state' = [state EXCEPT ![v] = "dead"] /\ held' = [held EXCEPT ![v] = {}]
          /\ channel' = [channel EXCEPT ![v] = SubSeq(@, 1, n)]
    BY <1>9 DEF Die
  <2>2. CASE w = v
    BY <1>1, <2>1, <2>2 DEF Dies
  <2>3. CASE w # v
    BY <1>1, <2>1, <2>3 DEF Same
  <2>4. QED
    BY <2>2, <2>3
<1>10. CASE CleanUp
  <2>1. state'[w] = "dead" /\ channel'[w] = <<>> /\ held'[w] = {}
    BY <1>1, <1>10 DEF CleanUp, Survivors
  <2>2. 0 \in 0 .. Len(channel[w]) /\ SubSeq(channel[w], 1, 0) = <<>>
    BY <1>1
  <2>3. QED
    BY <2>1, <2>2 DEF Dies
<1>11. CASE Producing \/ Interrupt \/ Signal \/ StopJoining \/ DrainParseQueue \/ Over \/ UNCHANGED vars
  <2>1. UNCHANGED <<state, channel, held>>
    BY <1>11 DEF Producing, Feed, StopFeeding, PutSentinel, EndProducer, Interrupt, Signal, StopJoining,
                 DrainParseQueue, Over, vars, workerVars
  <2>2. QED
    BY <1>2, <2>1
<1>12. ASSUME NEW v \in Workers, Arm(v) PROVE EffectOn(w)
  BY <1>2, <1>12 DEF Arm
<1>13. QED
  BY <1>3, <1>4, <1>5, <1>6, <1>7, <1>8, <1>9, <1>10, <1>11, <1>12
  DEF Next, ShuttingDown, WorkerStep

\* A worker's channel stays in order, and what the collector has counted of it
\* does not come again.
LEMMA EffectFits ==
    ASSUME NEW s \in States, NEW c \in Seq(Items), NEW h \in SUBSET Jobs,
           NEW t, NEW d, NEW k, Fits(s, c, h), Effect(s, c, h, t, d, k)
    PROVE  /\ t \in States /\ d \in Seq(Items) /\ Fits(t, d, k)
           /\ IsReady(s, c) => IsReady(t, d)
           /\ IsThrough(s, c) => IsThrough(t, d)
<1> DEFINE Goal == /\ t \in States /\ d \in Seq(Items) /\ Fits(t, d, k)
                   /\ IsReady(s, c) => IsReady(t, d)
                   /\ IsThrough(s, c) => IsThrough(t, d)
<1>1. /\ DOMAIN c = 1 .. Len(c) /\ Len(c) \in Nat /\ "ready" \in Items /\ Farewells \subseteq Items
      /\ "ready" \notin Farewells /\ "ready" \notin Jobs
      /\ \A j \in Jobs : j \notin Farewells /\ j # "ready"
  BY JobsAreNoMessages DEF Items, Control, Farewells
<1> USE DEF Ended, States
<1>2. CASE Same(s, c, h, t, d, k)
  BY <1>2 DEF Same, Fits, IsReady, IsThrough
<1>3. CASE Becomes(s, c, h, t, d, k)
  <2>1. CASE s = "starting" /\ t = "waiting" /\ d = Append(c, "ready") /\ k = h
    <3>1. c = <<>> /\ Len(c) = 0
      BY <2>1 DEF Fits
    <3>2. d \in Seq(Items) /\ DOMAIN d = 1 .. 1 /\ d[1] = "ready"
      BY <1>1, <2>1, <3>1, FitsAppend
    <3>3. QED
      BY <1>1, <2>1, <3>2 DEF Fits, IsReady, IsThrough
  <2>2. CASE s = "waiting" /\ t = "working" /\ d = c /\ k = h
    BY <2>2 DEF Fits, IsReady, IsThrough
  <2>3. QED
    BY <1>3, <2>1, <2>2 DEF Becomes
<1>4. CASE Reports(s, c, h, t, d, k)
  <2>1. PICK j \in Jobs : s = "working" /\ t = "working" /\ d = Append(c, j)
    BY <1>4 DEF Reports
  <2>2. /\ d \in Seq(Items) /\ DOMAIN d = 1 .. Len(c) + 1 /\ d[Len(c) + 1] = j
        /\ \A i \in 1 .. Len(c) : d[i] = c[i]
    BY <2>1, FitsAppend DEF Items
  <2>3. \A i \in DOMAIN d : d[i] \notin Farewells /\ (d[i] = "ready" => i \in DOMAIN c /\ c[i] = "ready")
    BY <1>1, <2>1, <2>2 DEF Fits
  <2>4. QED
    BY <1>1, <2>1, <2>2, <2>3 DEF Fits, IsReady, IsThrough
<1>5. CASE Ends(s, c, h, t, d, k)
  <2>1. PICK x \in Farewells : s = "working" /\ t = "ending" /\ k = {} /\ d = Append(c, x)
    BY <1>5 DEF Ends
  <2>2. /\ d \in Seq(Items) /\ Len(d) = Len(c) + 1 /\ DOMAIN d = 1 .. Len(c) + 1 /\ d[Len(c) + 1] = x
        /\ \A i \in 1 .. Len(c) : d[i] = c[i]
    BY <1>1, <2>1, FitsAppend
  <2>3. \A i \in DOMAIN d : /\ d[i] \in Farewells => i = Len(d)
                            /\ d[i] = "ready" => i \in DOMAIN c /\ c[i] = "ready"
    BY <1>1, <2>1, <2>2 DEF Fits
  <2>4. QED
    BY <1>1, <2>1, <2>2, <2>3 DEF Fits, IsReady, IsThrough
<1>6. CASE IsRead(s, c, h, t, d, k)
  BY <1>6, FitsTail DEF IsRead, IsReady, IsThrough
<1>7. CASE Dies(s, c, h, t, d, k)
  <2>1. PICK n \in 0 .. Len(c) : t = "dead" /\ d = SubSeq(c, 1, n)
    BY <1>7 DEF Dies
  <2>2. /\ d \in Seq(Items) /\ Len(d) = n /\ DOMAIN d = 1 .. n
        /\ \A i \in 1 .. n : d[i] = c[i] /\ i \in DOMAIN c
    BY <1>1, <2>1, FitsPrefix
  <2>3. k = {}
    BY <1>7 DEF Dies, Fits
  <2>4. \A i \in DOMAIN d : (d[i] \in Farewells => i = Len(d)) /\ (d[i] = "ready" => i = 1)
    BY <1>1, <2>2 DEF Fits
  <2>5. IsThrough(s, c) => IsThrough(t, d)
    <3>1. SUFFICES ASSUME c = <<>> PROVE d = <<>>
      BY <2>1 DEF IsThrough
    <3>2. Len(c) = 0
      BY <3>1
    <3>3. Len(d) = 0
      BY <2>2, <3>2
    <3>4. QED
      BY <2>2, <3>3, EmptySeq
  <2>6. IsReady(s, c) => IsReady(t, d)
    BY <2>1, <2>2 DEF IsReady
  <2>7. QED
    BY <2>1, <2>2, <2>3, <2>4, <2>5, <2>6 DEF Fits
<1>8. QED
  BY <1>2, <1>3, <1>4, <1>5, <1>6, <1>7 DEF Effect

LEMMA OrderlyKept ==
    ASSUME IInv, [Next]_vars, NEW w \in Workers
    PROVE  /\ state'[w] \in States /\ channel'[w] \in Seq(Items)
           /\ Fits(state'[w], channel'[w], held'[w])
           /\ IsReady(state[w], channel[w]) => IsReady(state'[w], channel'[w])
           /\ IsThrough(state[w], channel[w]) => IsThrough(state'[w], channel'[w])
<1>1. state[w] \in States /\ channel[w] \in Seq(Items) /\ held[w] \in SUBSET Jobs
  BY DEF IInv, TypeOK, Items
<1>2. Fits(state[w], channel[w], held[w])
  BY DEF IInv, Orderly
<1>3. Effect(state[w], channel[w], held[w], state'[w], channel'[w], held'[w])
  BY EveryEffect DEF IInv, EffectOn
<1>4. QED
  BY <1>1, <1>2, <1>3, EffectFits

-----------------------------------------------------------------------------
(* The collector *)

\* A message that arrives is the first of its worker.
LEMMA Received ==
    ASSUME IInv, NEW w \in Workers, NEW items, Receive(w, items)
    PROVE  /\ collector = "collecting" /\ channel[w] # <<>> /\ channel[w] \in Seq(Items)
           /\ Head(channel[w]) \in items /\ Head(channel[w]) = channel[w][1] /\ 1 \in DOMAIN channel[w]
           /\ channel'[w] = Tail(channel[w])
<1>1. channel \in [Workers -> Seq(Items)] /\ channel[w] \in Seq(Items)
  BY DEF IInv, TypeOK, Items
<1>2. channel[w] # <<>> /\ channel' = [channel EXCEPT ![w] = Tail(@)]
  BY DEF Receive
<1>3. QED
  BY <1>1, <1>2, EmptySeq DEF Receive

\* Another worker is counted.
LEMMA CountOneMore ==
    ASSUME NEW R \in SUBSET Workers, NEW w \in Workers, w \notin R
    PROVE  R \cup {w} \in SUBSET Workers /\ Cardinality(R \cup {w}) = Cardinality(R) + 1
BY WorkersFinite, FS_AddElement

LEMMA ReadyCountedKept ==
    ASSUME IInv, [Next]_vars
    PROVE  ReadyCounted'
<1>1. PICK R \in SUBSET Workers :
        Cardinality(R) = readyCount /\ \A w \in R : IsReady(state[w], channel[w])
  BY DEF IInv, ReadyCounted
<1>2. \A w \in R : IsReady(state'[w], channel'[w])
  BY <1>1, OrderlyKept
<1>3. CASE readyCount' = readyCount
  BY <1>1, <1>2, <1>3 DEF ReadyCounted
<1>4. ASSUME NEW w \in Workers, CollectReady(w) PROVE ReadyCounted'
  <2>1. /\ Receive(w, {"ready"}) /\ readyCount' = readyCount + 1 /\ UNCHANGED <<state, held>>
    BY <1>4 DEF CollectReady, workerVars
  <2>2. /\ Head(channel[w]) = "ready" /\ channel[w][1] = "ready" /\ 1 \in DOMAIN channel[w]
        /\ channel'[w] = Tail(channel[w]) /\ channel[w] # <<>> /\ channel[w] \in Seq(Items)
    BY <2>1, Received
  <2>3. w \notin R
    BY <1>1, <2>2 DEF IsReady
  <2>4. IsReady(state'[w], channel'[w])
    <3>1. Fits(state[w], channel[w], held[w])
      BY DEF IInv, Orderly
    <3>2. \A i \in DOMAIN Tail(channel[w]) : Tail(channel[w])[i] # "ready"
      BY <2>2, <3>1, FitsTail
    <3>3. state[w] # "starting"
      BY <2>2, <3>1 DEF Fits
    <3>4. QED
      BY <2>1, <2>2, <3>2, <3>3 DEF IsReady
  <2>5. Cardinality(R \cup {w}) = readyCount'
    BY <1>1, <2>1, <2>3, CountOneMore
  <2>6. QED
    BY <1>2, <2>4, <2>5 DEF ReadyCounted
<1>5. QED
  BY <1>3, <1>4
  DEF Next, Producing, Feed, StopFeeding, PutSentinel, EndProducer, Interrupt, ShuttingDown, Signal,
      StopJoining, CleanUp, ShutdownUnchanged, DrainParseQueue, Collect, CollectResult, CollectComplete,
      CollectorFails, DrainUpstream, WorkerStep, Initialize, Start, Arm, Take, Report, Finish, StopWork,
      Exit, WorkFails, EndWork, Die, Over, vars, mainVars

LEMMA FinishedCountedKept ==
    ASSUME IInv, [Next]_vars
    PROVE  FinishedCounted' /\ LeavesCounted'
<1>1. PICK F \in SUBSET Workers :
        Cardinality(F) = finished /\ \A w \in F : IsThrough(state[w], channel[w])
  BY DEF IInv, FinishedCounted
<1>2. \A w \in F : IsThrough(state'[w], channel'[w])
  BY <1>1, OrderlyKept
<1>3. LeavesCounted
  BY DEF IInv
<1>4. ASSUME NEW w \in Workers, CollectComplete(w) PROVE FinishedCounted' /\ LeavesCounted'
  <2>1. /\ Receive(w, {"complete"}) /\ finished' = finished + 1 /\ UNCHANGED <<state, held>>
        /\ collector' = IF finished + 1 = MaxProcesses THEN "done" ELSE "collecting"
    BY <1>4 DEF CollectComplete, AllFinished, workerVars
  <2>2. /\ Head(channel[w]) = "complete" /\ channel[w][1] = "complete" /\ 1 \in DOMAIN channel[w]
        /\ channel'[w] = Tail(channel[w]) /\ channel[w] # <<>> /\ channel[w] \in Seq(Items)
    BY <2>1, Received
  <2>3. w \notin F
    BY <1>1, <2>2 DEF IsThrough
  <2>4. IsThrough(state'[w], channel'[w])
    <3>1. Fits(state[w], channel[w], held[w]) /\ state[w] \in States
      BY DEF IInv, Orderly, TypeOK
    <3>2. Tail(channel[w]) = <<>>
      BY <2>2, <3>1, FitsTail DEF Farewells
    <3>3. state[w] \in Ended
      BY <2>2, <3>1 DEF Fits, States, Ended, Farewells
    <3>4. QED
      BY <2>1, <2>2, <3>2, <3>3 DEF IsThrough
  <2>5. Cardinality(F \cup {w}) = finished'
    BY <1>1, <2>1, <2>3, CountOneMore
  <2>6. FinishedCounted'
    BY <1>2, <2>4, <2>5 DEF FinishedCounted
  <2>7. LeavesCounted'
    BY <2>1 DEF LeavesCounted
  <2>8. QED
    BY <2>6, <2>7
<1>5. CASE finished' = finished /\ LeavesCounted'
  BY <1>1, <1>2, <1>5 DEF FinishedCounted
<1>6. CASE UNCHANGED <<finished, collector, cancelled>>
  BY <1>3, <1>5, <1>6 DEF LeavesCounted
<1>7. CASE EndProducer \/ Interrupt \/ \E w \in Workers : CollectorFails(w)
  BY <1>3, <1>5, <1>7 DEF EndProducer, Interrupt, CollectorFails, CancelTasks, LeavesCounted
<1>8. QED
  BY <1>4, <1>6, <1>7
  DEF Next, Producing, Feed, StopFeeding, PutSentinel, ShuttingDown, Signal,
      StopJoining, CleanUp, ShutdownUnchanged, DrainParseQueue, Collect, CollectResult, CollectReady,
      DrainUpstream, WorkerStep, Initialize, Start, Arm, Take, Report, Finish, StopWork,
      Exit, WorkFails, EndWork, Die, Over, vars, mainVars

-----------------------------------------------------------------------------
(* Types *)

MainTypes ==
    /\ source \in SUBSET Jobs
    /\ producer \in {"feeding", "stopping", "done"}
    /\ failed \in BOOLEAN
    /\ sentinels \in 0 .. MaxProcesses
    /\ collector \in {"collecting", "done"}
    /\ released \in BOOLEAN
    /\ recorded \in [Jobs -> Nat]
    /\ cancelled \in BOOLEAN
    /\ shutdown \in ShutdownPhases

QueueType == parseQueue \in Seq(Jobs \cup {NoMoreJobs}) /\ Len(parseQueue) <= PrefetchSize

WorkerTypes ==
    /\ state \in [Workers -> States] /\ channel \in [Workers -> Seq(Items)]
    /\ armed \in [Workers -> BOOLEAN] /\ notified \in [Workers -> BOOLEAN]
    /\ drained \in [Workers -> BOOLEAN]
    /\ held \in [Workers -> SUBSET Jobs]

LEMMA TypesAre ==
    TypeOK <=> /\ MainTypes /\ QueueType /\ WorkerTypes
               /\ readyCount \in 0 .. MaxProcesses /\ finished \in 0 .. MaxProcesses
BY DEF TypeOK, MainTypes, QueueType, WorkerTypes, Items

LEMMA MainTypesKept ==
    ASSUME TypeOK, [Next]_vars
    PROVE  MainTypes'
<1> USE DEF MainTypes
<1>1. MainTypes /\ MaxProcesses \in Nat
  BY TypesAre, MaxProcessesAssumption
<1>2. CASE Producing \/ Interrupt
  <2>1. CASE Feed
    <3>1. source' \in SUBSET Jobs
      BY <1>1, <2>1 DEF Feed
    <3>2. QED
      BY <1>1, <2>1, <3>1 DEF Feed
  <2>2. CASE StopFeeding
    <3>1. failed' \in BOOLEAN
      BY <2>2 DEF StopFeeding
    <3>2. QED
      BY <1>1, <2>2, <3>1 DEF StopFeeding
  <2>3. CASE PutSentinel
    <3>1. sentinels' \in 0 .. MaxProcesses
      BY <1>1, <2>3 DEF PutSentinel, SentinelsToSend
    <3>2. QED
      BY <1>1, <2>3, <3>1 DEF PutSentinel
  <2>4. CASE EndProducer
    BY <1>1, <2>4 DEF EndProducer
  <2>5. CASE Interrupt
    BY <1>1, <2>5 DEF Interrupt, CancelTasks
  <2>6. QED
    BY <1>2, <2>1, <2>2, <2>3, <2>4, <2>5 DEF Producing
<1>3. CASE ShuttingDown \/ DrainParseQueue
  BY <1>1, <1>3 DEF ShuttingDown, Signal, StopJoining, CleanUp, ShutdownUnchanged, DrainParseQueue,
                    mainVars, ShutdownPhases
<1>4. ASSUME NEW w \in Workers, CollectResult(w) PROVE MainTypes'
  <2>1. recorded' = [recorded EXCEPT ![Head(channel[w])] = @ + 1] /\ Head(channel[w]) \in Jobs
    BY <1>4 DEF CollectResult, Receive
  <2>2. recorded' \in [Jobs -> Nat]
    BY <1>1, <2>1
  <2>3. QED
    BY <1>1, <1>4, <2>2 DEF CollectResult
<1>5. ASSUME NEW w \in Workers, CollectReady(w) \/ CollectComplete(w) \/ CollectorFails(w) PROVE MainTypes'
  BY <1>1, <1>5 DEF CollectReady, CollectComplete, CollectorFails, CancelTasks
<1>6. CASE UNCHANGED mainVars
  BY <1>1, <1>6 DEF mainVars
<1>7. QED
  BY <1>2, <1>3, <1>4, <1>5, <1>6
  DEF Next, Collect, DrainUpstream, WorkerStep, Initialize, Start, Arm, Take, Report, Finish, StopWork,
      Exit, WorkFails, EndWork, Die, Over, vars, mainVars

LEMMA QueueTypeKept ==
    ASSUME TypeOK, [Next]_vars
    PROVE  QueueType'
<1> USE DEF QueueType
<1>1. QueueType /\ source \in SUBSET Jobs /\ PrefetchSize \in Nat
  BY PrefetchAssumption DEF TypeOK
<1>2. ASSUME NEW x \in Jobs \cup {NoMoreJobs}, Len(parseQueue) < PrefetchSize, parseQueue' = Append(parseQueue, x)
      PROVE  QueueType'
  BY <1>1, <1>2, AppendProperties
<1>3. CASE parseQueue # <<>> /\ parseQueue' = Tail(parseQueue)
  BY <1>1, <1>3, HeadTailProperties
<1>4. CASE UNCHANGED parseQueue
  BY <1>1, <1>4
<1>5. CASE CleanUp
  <2>1. <<>> \in Seq(Jobs \cup {NoMoreJobs}) /\ Len(<<>>) = 0
    OBVIOUS
  <2>2. QED
    BY <1>1, <1>5, <2>1 DEF CleanUp
<1>6. CASE Feed \/ PutSentinel
  <2>1. \E x \in Jobs \cup {NoMoreJobs} : Len(parseQueue) < PrefetchSize /\ parseQueue' = Append(parseQueue, x)
    BY <1>1, <1>6 DEF Feed, PutSentinel
  <2>2. QED
    BY <1>2, <2>1
<1>7. QED
  BY <1>3, <1>4, <1>5, <1>6
  DEF Next, Producing, StopFeeding, EndProducer, Interrupt, ShuttingDown, Signal, StopJoining,
      DrainParseQueue, Collect, CollectResult, CollectReady, CollectComplete, CollectorFails,
      DrainUpstream, WorkerStep, Initialize, Start, Arm, Take, Report, Finish, StopWork,
      Exit, WorkFails, EndWork, Die, Over, vars

LEMMA WorkerTypesKept ==
    ASSUME TypeOK, [Next]_vars
    PROVE  WorkerTypes'
<1> USE DEF WorkerTypes
<1>1. WorkerTypes /\ parseQueue \in Seq(Jobs \cup {NoMoreJobs})
  BY TypesAre DEF TypeOK
<1>2. CASE UNCHANGED <<workerVars, channel>>
  BY <1>1, <1>2 DEF workerVars
<1>3. ASSUME NEW w \in Workers, Collect(w) \/ DrainUpstream(w) PROVE WorkerTypes'
  <2>1. /\ channel[w] # <<>> /\ channel' = [channel EXCEPT ![w] = Tail(@)] /\ UNCHANGED workerVars
    BY <1>3 DEF Collect, CollectReady, CollectResult, CollectComplete, CollectorFails, Receive, DrainUpstream
  <2>2. Tail(channel[w]) \in Seq(Items)
    BY <1>1, <2>1
  <2>3. QED
    BY <1>1, <2>1, <2>2 DEF workerVars
<1>4. ASSUME NEW w \in Workers, WorkerStep(w) \/ WorkFails(w) PROVE WorkerTypes'
  <2>1. CASE Initialize(w)
    <3>1. Append(channel[w], "ready") \in Seq(Items)
      BY <1>1, FitsAppend DEF Items, Control
    <3>2. QED
      BY <1>1, <2>1, <3>1 DEF Initialize, Put, States
  <2>2. CASE Start(w) \/ Arm(w) \/ Exit(w)
    BY <1>1, <2>2 DEF Start, Arm, Exit, States
  <2>3. CASE Take(w)
    <3>1. parseQueue # <<>> /\ (Head(parseQueue) # NoMoreJobs => Head(parseQueue) \in Jobs)
      BY <1>1, <2>3 DEF Take
    <3>2. \/ drained' = [drained EXCEPT ![w] = TRUE] /\ UNCHANGED held
          \/ held' = [held EXCEPT ![w] = @ \cup {Head(parseQueue)}] /\ Head(parseQueue) \in Jobs /\ UNCHANGED drained
      BY <2>3, <3>1 DEF Take
    <3>3. UNCHANGED <<channel, state, armed, notified>>
      BY <2>3 DEF Take
    <3>4. QED
      BY <1>1, <3>2, <3>3
  <2>4. CASE Report(w)
    <3>1. PICK j \in held[w] :
            /\ held' = [held EXCEPT ![w] = @ \ {j}] /\ channel' = [channel EXCEPT ![w] = Append(@, j)]
            /\ UNCHANGED <<state, armed, notified, drained>>
      BY <2>4 DEF Report, Put
    <3>2. Append(channel[w], j) \in Seq(Items)
      BY <1>1, FitsAppend DEF Items
    <3>3. QED
      BY <1>1, <3>1, <3>2
  <2>5. CASE Finish(w) \/ StopWork(w) \/ WorkFails(w)
    <3>1. PICK x \in Farewells :
            /\ state' = [state EXCEPT ![w] = "ending"] /\ UNCHANGED <<armed, notified, drained>>
            /\ held' = [held EXCEPT ![w] = {}] /\ channel' = [channel EXCEPT ![w] = Append(@, x)]
      BY <2>5 DEF Finish, StopWork, WorkFails, EndWork, Put, Farewells
    <3>2. Append(channel[w], x) \in Seq(Items)
      BY <1>1, FitsAppend DEF Items, Farewells, Control
    <3>3. QED
      BY <1>1, <3>1, <3>2 DEF States
  <2>6. QED
    BY <1>4, <2>1, <2>2, <2>3, <2>4, <2>5 DEF WorkerStep
<1>5. ASSUME NEW w \in Workers, Die(w) PROVE WorkerTypes'
  <2>1. PICK n \in 0 .. Len(channel[w]) :
          /\ state' = [state EXCEPT ![w] = "dead"] /\ held' = [held EXCEPT ![w] = {}]
          /\ channel' = [channel EXCEPT ![w] = SubSeq(@, 1, n)] /\ UNCHANGED <<armed, notified, drained>>
    BY <1>5 DEF Die
  <2>2. SubSeq(channel[w], 1, n) \in Seq(Items)
    BY <1>1, FitsPrefix
  <2>3. QED
    BY <1>1, <2>1, <2>2 DEF States
<1>6. CASE CleanUp
  <2>1. <<>> \in Seq(Items)
    OBVIOUS
  <2>2. QED
    BY <1>1, <1>6, <2>1 DEF CleanUp, States
<1>7. CASE Signal
  BY <1>1, <1>7 DEF Signal
<1>8. QED
  BY <1>2, <1>3, <1>4, <1>5, <1>6, <1>7
  DEF Next, Producing, Feed, StopFeeding, PutSentinel, EndProducer, Interrupt, ShuttingDown, StopJoining,
      DrainParseQueue, Over, vars, workerVars

LEMMA InitKeepsAll == Init => IInv
<1> SUFFICES ASSUME Init PROVE IInv
  OBVIOUS
<1>1. TypeOK
  <2>1. <<>> \in Seq(Jobs \cup {NoMoreJobs}) /\ <<>> \in Seq(Jobs \cup Control) /\ Len(<<>>) = 0
    OBVIOUS
  <2>2. MaxProcesses \in Nat /\ PrefetchSize \in Nat
    BY MaxProcessesAssumption, PrefetchAssumption
  <2>3. MainTypes
    <3>1. recorded \in [Jobs -> Nat] /\ source \in SUBSET Jobs
      BY DEF Init
    <3>2. sentinels \in 0 .. MaxProcesses
      BY <2>2 DEF Init
    <3>3. failed \in BOOLEAN /\ released \in BOOLEAN /\ cancelled \in BOOLEAN
      BY DEF Init
    <3>4. producer = "feeding" /\ collector = "collecting" /\ shutdown = "no"
      BY DEF Init
    <3>5. QED
      BY <3>1, <3>2, <3>3, <3>4 DEF MainTypes, ShutdownPhases
  <2>4. QueueType
    BY <2>1, <2>2 DEF Init, QueueType
  <2>5. WorkerTypes
    BY <2>1 DEF Init, WorkerTypes, States, Items
  <2>6. QED
    BY <2>2, <2>3, <2>4, <2>5, TypesAre DEF Init
<1>2. Orderly
  BY DEF Init, Orderly, Fits, Ended
<1>3. ReadyCounted /\ FinishedCounted
  BY FS_EmptySet DEF Init, ReadyCounted, FinishedCounted
<1>4. LeavesCounted
  BY DEF Init, LeavesCounted
<1>5. QED
  BY <1>1, <1>2, <1>3, <1>4 DEF IInv

LEMMA NextKeepsAll == IInv /\ [Next]_vars => IInv'
<1> SUFFICES ASSUME IInv, [Next]_vars PROVE IInv'
  OBVIOUS
<1>1. ReadyCounted' /\ FinishedCounted' /\ LeavesCounted'
  BY ReadyCountedKept, FinishedCountedKept
<1>2. readyCount' \in 0 .. MaxProcesses /\ finished' \in 0 .. MaxProcesses
  BY <1>1, WorkersFinite DEF ReadyCounted, FinishedCounted
<1>3. MainTypes' /\ QueueType' /\ WorkerTypes'
  BY MainTypesKept, QueueTypeKept, WorkerTypesKept DEF IInv
<1>4. TypeOK'
  BY <1>2, <1>3 DEF TypeOK, MainTypes, QueueType, WorkerTypes, Items
<1>5. Orderly'
  BY OrderlyKept DEF Orderly
<1>6. QED
  BY <1>1, <1>4, <1>5 DEF IInv

-----------------------------------------------------------------------------
(* Theorems *)

\* The processes stay within their types; in particular the counts of ready and
\* of finished workers never exceed the number of workers.
THEOREM ProcessTypes == Spec => []TypeOK
<1>1. IInv => TypeOK
  BY DEF IInv
<1>2. QED
  BY <1>1, InitKeepsAll, NextKeepsAll, PTL DEF Spec

\* The set of as many workers as there are, of which the collector has counted
\* the end, is all of them.
LEMMA LastToLeave == IInv => CollectorLeavesLast
<1>1. SUFFICES ASSUME IInv, collector = "done", ~cancelled, NEW w \in Workers
               PROVE  state[w] \in {"ending", "dead"} /\ channel[w] = <<>> /\ held[w] = {}
  BY DEF CollectorLeavesLast
<1>2. PICK F \in SUBSET Workers :
        Cardinality(F) = finished /\ \A v \in F : IsThrough(state[v], channel[v])
  BY <1>1 DEF IInv, FinishedCounted
<1>3. finished = MaxProcesses
  BY <1>1 DEF IInv, LeavesCounted
<1>4. F = Workers
  BY <1>2, <1>3, WorkersFinite
<1>5. IsThrough(state[w], channel[w]) /\ Fits(state[w], channel[w], held[w])
  BY <1>1, <1>2, <1>4 DEF IInv, Orderly
<1>6. QED
  BY <1>5 DEF IsThrough, Fits, Ended

\* Unless it is cancelled the collector leaves when nothing can come any more:
\* every worker has ended, its channel is read, and it holds no job.
THEOREM CollectorIsLast == Spec => []CollectorLeavesLast
BY LastToLeave, InitKeepsAll, NextKeepsAll, PTL DEF Spec

\* A dead process does not come back, and when the strategy ends all are dead.
THEOREM NobodyIsLeftBehind == Spec => []NoOrphans
<1>1. Init => NoOrphans
  BY DEF Init, NoOrphans
<1>2. ASSUME IInv, NoOrphans, [Next]_vars PROVE NoOrphans'
  <2>1. state \in [Workers -> States]
    BY <1>2 DEF IInv, TypeOK
  <2>2. CASE CleanUp
    BY <2>1, <2>2 DEF CleanUp, Survivors, NoOrphans, AllDead
  <2>3. CASE shutdown' = shutdown
    <3>1. SUFFICES ASSUME shutdown = "over", NEW w \in Workers PROVE state'[w] = "dead"
      BY <2>3 DEF NoOrphans, AllDead
    <3>2. state[w] = "dead"
      BY <1>2, <3>1 DEF NoOrphans, AllDead
    <3>3. Effect(state[w], channel[w], held[w], state'[w], channel'[w], held'[w])
      BY <1>2, EveryEffect DEF IInv, EffectOn
    <3>4. QED
      BY <3>2, <3>3 DEF Effect, Same, Becomes, Reports, Ends, IsRead, Dies
  <2>4. CASE Signal \/ StopJoining
    BY <2>4 DEF Signal, StopJoining, NoOrphans
  <2>5. QED
    BY <1>2, <2>2, <2>3, <2>4
    DEF Next, Producing, Feed, StopFeeding, PutSentinel, EndProducer, Interrupt, ShuttingDown,
        DrainParseQueue, Collect, CollectReady, CollectResult, CollectComplete,
        CollectorFails, DrainUpstream, WorkerStep, Initialize, Start, Arm, Take, Report, Finish, StopWork,
        Exit, WorkFails, EndWork, Die, Over, vars, mainVars
<1>3. QED
  BY <1>1, <1>2, InitKeepsAll, NextKeepsAll, PTL DEF Spec

-----------------------------------------------------------------------------
(* Counting a job *)

HoldersOf(j) == {w \in Workers : j \in held[w]}

\* Where item i is on the channels ch.
At(ch, w, i) == {w} \X {n \in DOMAIN ch[w] : ch[w][n] = i}
Positions(ch, i) == UNION {At(ch, w, i) : w \in Workers}

LEMMA PositionsFinite ==
    ASSUME NEW ch \in [Workers -> Seq(Items)], NEW i
    PROVE  /\ IsFiniteSet(Positions(ch, i)) /\ Cardinality(Positions(ch, i)) \in Nat
           /\ \A w \in Workers : IsFiniteSet(At(ch, w, i)) /\ Cardinality(At(ch, w, i)) = CountIn(ch[w], i)
<1>1. ASSUME NEW w \in Workers
      PROVE  IsFiniteSet(At(ch, w, i)) /\ Cardinality(At(ch, w, i)) = CountIn(ch[w], i)
  <2> DEFINE N == {n \in DOMAIN ch[w] : ch[w][n] = i}
  <2>1. ch[w] \in Seq(Items)
    OBVIOUS
  <2>2. IsFiniteSet(N) /\ Cardinality(N) = CountIn(ch[w], i) /\ Cardinality(N) \in Nat
    BY <2>1, CountFinite DEF CountIn
  <2>3. At(ch, w, i) = {w} \X N
    BY DEF At
  <2> HIDE DEF N
  <2>4. IsFiniteSet({w}) /\ Cardinality({w}) = 1
    BY FS_Singleton
  <2>5. IsFiniteSet({w} \X N) /\ Cardinality({w} \X N) = 1 * Cardinality(N)
    BY <2>2, <2>4, FS_Product
  <2>6. QED
    BY <2>2, <2>3, <2>5
<1>2. IsFiniteSet({At(ch, w, i) : w \in Workers})
  <2> DEFINE f == [w \in Workers |-> At(ch, w, i)]
             S == {At(ch, w, i) : w \in Workers}
  <2>1. f \in Surjection(Workers, S)
    BY DEF Surjection
  <2> HIDE DEF f, S
  <2>2. IsFiniteSet(S)
    BY <2>1, WorkersFinite, FS_Surjection
  <2>3. QED
    BY <2>2 DEF S
<1>3. IsFiniteSet(Positions(ch, i))
  BY <1>1, <1>2, FS_UNION DEF Positions
<1>4. QED
  BY <1>1, <1>3, FS_CardinalityType

\* Those on other channels than w's.
Others(ch, w, i) == Cardinality({p \in Positions(ch, i) : p[1] # w})

LEMMA OwnAndOthers ==
    ASSUME NEW ch \in [Workers -> Seq(Items)], NEW w \in Workers, NEW i
    PROVE  /\ Others(ch, w, i) \in Nat /\ CountIn(ch[w], i) \in Nat
           /\ Cardinality(Positions(ch, i)) = Others(ch, w, i) + CountIn(ch[w], i)
<1> DEFINE Rest == {p \in Positions(ch, i) : p[1] # w}
<1>1. /\ IsFiniteSet(Positions(ch, i)) /\ IsFiniteSet(At(ch, w, i))
      /\ Cardinality(At(ch, w, i)) = CountIn(ch[w], i)
  BY PositionsFinite
<1>2. IsFiniteSet(Rest) /\ Others(ch, w, i) = Cardinality(Rest)
  BY <1>1, FS_Subset DEF Others
<1>3. Positions(ch, i) = Rest \cup At(ch, w, i) /\ Rest \cap At(ch, w, i) = {}
  BY DEF Positions, At
<1> HIDE DEF Rest
<1>4. /\ Cardinality(Rest) \in Nat /\ Cardinality(At(ch, w, i)) \in Nat
      /\ Cardinality(Rest \cap At(ch, w, i)) = 0
  BY <1>1, <1>2, <1>3, FS_CardinalityType, FS_EmptySet
<1>5. Cardinality(Rest \cup At(ch, w, i))
        = Cardinality(Rest) + Cardinality(At(ch, w, i)) - Cardinality(Rest \cap At(ch, w, i))
  BY <1>1, <1>2, FS_Union
<1>6. QED
  BY <1>1, <1>2, <1>3, <1>4, <1>5

\* A change of w's channel leaves them as they are.
LEMMA OthersStay ==
    ASSUME NEW ch, NEW dh, NEW w, \A v \in Workers \ {w} : dh[v] = ch[v], NEW i
    PROVE  Others(dh, w, i) = Others(ch, w, i)
<1> DEFINE Rest(c) == {p \in Positions(c, i) : p[1] # w}
<1>1. \A v \in Workers \ {w} : At(dh, v, i) = At(ch, v, i)
  BY DEF At
<1>2. \A c \in {ch, dh}, v \in Workers : \A p \in At(c, v, i) : p[1] = v
  BY DEF At
<1>3. \A p : p \in Rest(dh) <=> \E v \in Workers \ {w} : p \in At(dh, v, i)
  BY <1>2 DEF Positions
<1>4. \A p : p \in Rest(ch) <=> \E v \in Workers \ {w} : p \in At(ch, v, i)
  BY <1>2 DEF Positions
<1>5. Rest(dh) = Rest(ch)
  <2> HIDE DEF Rest
  <2>1. \A p : p \in Rest(dh) <=> p \in Rest(ch)
    BY <1>1, <1>3, <1>4
  <2>2. QED
    BY <2>1 DEF Rest
<1>6. QED
  BY <1>5 DEF Others

\* The places of a job, counted.
LEMMA PlacesAre ==
    ASSUME TypeOK, NEW j \in Jobs
    PROVE  /\ Places(j) = recorded[j] + Ind(j, source) + CountIn(parseQueue, j)
                            + Cardinality(HoldersOf(j)) + Cardinality(Positions(channel, j))
           /\ recorded[j] \in Nat /\ Ind(j, source) \in Nat /\ CountIn(parseQueue, j) \in Nat
           /\ IsFiniteSet(HoldersOf(j)) /\ Cardinality(HoldersOf(j)) \in Nat
           /\ Cardinality(Positions(channel, j)) \in Nat
<1>1. /\ recorded \in [Jobs -> Nat] /\ parseQueue \in Seq(Jobs \cup {NoMoreJobs})
      /\ channel \in [Workers -> Seq(Items)]
  BY DEF TypeOK, Items
<1>2. IsFiniteSet(HoldersOf(j)) /\ Cardinality(HoldersOf(j)) \in Nat
  BY WorkersFinite, FS_CardinalityType DEF HoldersOf
<1>3. CountIn(parseQueue, j) \in Nat /\ Cardinality(Positions(channel, j)) \in Nat
  BY <1>1, CountFinite, PositionsFinite
<1>4. Places(j) = recorded[j] + Ind(j, source) + CountIn(parseQueue, j)
                    + Cardinality(HoldersOf(j)) + Cardinality(Positions(channel, j))
  BY DEF Places, OnChannels, Positions, At, Ind, CountIn, HoldersOf
<1>5. QED
  BY <1>1, <1>2, <1>3, <1>4 DEF Ind

\* A worker's jobs become K.
LEMMA HeldMoves ==
    ASSUME TypeOK, NEW w \in Workers, NEW K, held' = [held EXCEPT ![w] = K], NEW j
    PROVE  \E rest \in Nat : /\ Cardinality(HoldersOf(j)) = rest + Ind(j, held[w])
                             /\ Cardinality(HoldersOf(j))' = rest + Ind(j, K)
<1> DEFINE A == HoldersOf(j)
           B == HoldersOf(j)'
<1>1. IsFiniteSet(A) /\ IsFiniteSet(B)
  BY WorkersFinite DEF HoldersOf
<1>2. /\ A \ {w} = B \ {w}
      /\ w \in A <=> j \in held[w]
      /\ w \in B <=> j \in K
  BY DEF HoldersOf, TypeOK
<1> HIDE DEF A, B
<1>3. /\ Cardinality(A \ {w}) \in Nat
      /\ Cardinality(A) = Cardinality(A \ {w}) + (IF w \in A THEN 1 ELSE 0)
      /\ Cardinality(B) = Cardinality(A \ {w}) + (IF w \in B THEN 1 ELSE 0)
  BY <1>1, <1>2, DifferByOne
<1>4. QED
  BY <1>2, <1>3 DEF A, B, Ind

-----------------------------------------------------------------------------
(* Who has nothing *)

OnlySentinels == \A i \in DOMAIN parseQueue : parseQueue[i] = NoMoreJobs

\* The sentinels follow the jobs; who has taken one has left no job behind.
FedInOrder ==
    /\ \A i, k \in DOMAIN parseQueue : i < k /\ parseQueue[i] = NoMoreJobs => parseQueue[k] = NoMoreJobs
    /\ producer = "feeding" => /\ \A i \in DOMAIN parseQueue : parseQueue[i] # NoMoreJobs
                               /\ \A w \in Workers : ~drained[w]
    /\ \A w \in Workers : drained[w] => OnlySentinels

\* Unless it failed the producer stops when it has fed every job.
FedAll ==
    /\ producer # "feeding" /\ ~failed /\ ~cancelled => source = {}
    /\ producer = "done" /\ failed => cancelled

\* The shutdown follows the producer and the collector.
ShutLast ==
    /\ shutdown # "no" => producer = "done" /\ collector = "done"
    /\ \A w \in Workers : notified[w] => shutdown # "no"

\* Workers without a task, and those that have not begun, have no job.
Idle ==
    \A w \in Workers :
        /\ TasksOf(w) = 0 => held[w] = {}
        /\ state[w] \in {"starting", "waiting"} =>
              held[w] = {} /\ \A i \in DOMAIN channel[w] : channel[w][i] = "ready"

\* Who reports to be complete has taken its sentinel, if it had a task.
Exhausted(w) == drained[w] \/ TasksOf(w) = 0
Completed ==
    ~cancelled => \A w \in Workers :
                     (\E i \in DOMAIN channel[w] : channel[w][i] = "complete") => Exhausted(w)

LEMMA DividedNotNothing ==
    ASSUME NEW n \in Nat \ {0}, NEW m \in Nat \ {0}
    PROVE  /\ n \div m \in Nat /\ n % m \in 0 .. m - 1
           /\ n \div m = 0 => n % m # 0
OBVIOUS

LEMMA SomebodyWorks == 0 \in Workers /\ TasksOf(0) # 0
<1>1. MaxProcesses \in Nat \ {0, 1} /\ TaskCount \in Nat \ {0}
  BY MaxProcessesAssumption, TaskCountAssumption
<1>2. 0 \in Workers
  BY <1>1 DEF Workers
<1>3. /\ TaskCount \div MaxProcesses \in Nat /\ TaskCount % MaxProcesses \in 0 .. MaxProcesses - 1
      /\ TaskCount \div MaxProcesses = 0 => TaskCount % MaxProcesses # 0
  BY <1>1, DividedNotNothing
<1>4. QED
  BY <1>1, <1>2, <1>3 DEF TasksOf

LEMMA FedInOrderKept ==
    ASSUME TypeOK, FedInOrder, [Next]_vars
    PROVE  FedInOrder'
<1>1. /\ parseQueue \in Seq(Jobs \cup {NoMoreJobs}) /\ drained \in [Workers -> BOOLEAN]
      /\ DOMAIN parseQueue = 1 .. Len(parseQueue) /\ Len(parseQueue) \in Nat
      /\ source \in SUBSET Jobs /\ NoMoreJobs \notin Jobs
  BY JobsAssumption DEF TypeOK
<1> USE DEF FedInOrder, OnlySentinels
<1>2. CASE UNCHANGED <<parseQueue, drained>> /\ producer' # "feeding"
  BY <1>2
<1>3. CASE UNCHANGED <<parseQueue, drained, producer>>
  BY <1>3
<1>4. ASSUME parseQueue # <<>>, parseQueue' = Tail(parseQueue),
             producer' = producer,
             drained' = drained \/ (Head(parseQueue) = NoMoreJobs
                                      /\ \E w \in Workers : drained' = [drained EXCEPT ![w] = TRUE])
      PROVE  FedInOrder'
  <2>1. /\ Len(parseQueue) > 0 /\ DOMAIN Tail(parseQueue) = 1 .. Len(parseQueue) - 1
        /\ \A i \in 1 .. Len(parseQueue) - 1 : Tail(parseQueue)[i] = parseQueue[i + 1] /\ i + 1 \in DOMAIN parseQueue
        /\ Head(parseQueue) = parseQueue[1] /\ 1 \in DOMAIN parseQueue
    BY <1>1, <1>4, HeadTailProperties, EmptySeq
  <2>2. \A i, k \in DOMAIN parseQueue' :
           i < k /\ parseQueue'[i] = NoMoreJobs => parseQueue'[k] = NoMoreJobs
    BY <1>1, <1>4, <2>1
  <2>3. Head(parseQueue) = NoMoreJobs => OnlySentinels'
    BY <1>1, <1>4, <2>1
  <2>4. OnlySentinels => OnlySentinels'
    BY <1>1, <1>4, <2>1
  <2>5. producer' = "feeding" => /\ \A i \in DOMAIN parseQueue' : parseQueue'[i] # NoMoreJobs
                                 /\ drained' = drained
    BY <1>1, <1>4, <2>1
  <2>6. \A w \in Workers : drained'[w] => drained[w] \/ Head(parseQueue) = NoMoreJobs
    BY <1>1, <1>4
  <2> HIDE DEF OnlySentinels
  <2>7. QED
    BY <1>4, <2>2, <2>3, <2>4, <2>5, <2>6
<1>5. CASE Feed
  <2>1. PICK j \in source : parseQueue' = Append(parseQueue, j)
    BY <1>5 DEF Feed
  <2>2. producer = "feeding" /\ producer' = producer /\ drained' = drained
    BY <1>5 DEF Feed, workerVars
  <2>3. \A i \in DOMAIN parseQueue' : parseQueue'[i] # NoMoreJobs
    BY <1>1, <2>1, <2>2, AppendProperties
  <2>4. QED
    BY <2>2, <2>3
<1>6. CASE PutSentinel
  <2>1. parseQueue' = Append(parseQueue, NoMoreJobs) /\ producer' = "stopping" /\ drained' = drained
    BY <1>6 DEF PutSentinel, workerVars
  <2>2. /\ DOMAIN parseQueue' = 1 .. Len(parseQueue) + 1
        /\ \A i \in 1 .. Len(parseQueue) : parseQueue'[i] = parseQueue[i]
        /\ parseQueue'[Len(parseQueue) + 1] = NoMoreJobs
    BY <1>1, <2>1, AppendProperties
  <2>3. \A i, k \in DOMAIN parseQueue' :
           i < k /\ parseQueue'[i] = NoMoreJobs => parseQueue'[k] = NoMoreJobs
    BY <1>1, <2>2
  <2>4. OnlySentinels => OnlySentinels'
    BY <1>1, <2>2
  <2> HIDE DEF OnlySentinels
  <2>5. QED
    BY <2>1, <2>3, <2>4
<1>7. CASE CleanUp
  BY <1>7 DEF CleanUp, ShutdownUnchanged
<1>8. ASSUME NEW w \in Workers, Take(w) PROVE FedInOrder'
  <2>1. /\ parseQueue # <<>> /\ parseQueue' = Tail(parseQueue) /\ producer' = producer
        /\ \/ Head(parseQueue) = NoMoreJobs /\ drained' = [drained EXCEPT ![w] = TRUE]
           \/ drained' = drained
    BY <1>8 DEF Take, mainVars
  <2>2. QED
    BY <1>4, <2>1
<1>9. CASE DrainParseQueue
  BY <1>4, <1>9 DEF DrainParseQueue, mainVars, workerVars
<1>10. CASE StopFeeding \/ EndProducer \/ Interrupt \/ \E w \in Workers : CollectorFails(w)
  BY <1>2, <1>10 DEF StopFeeding, EndProducer, Interrupt, CollectorFails, CancelTasks, workerVars
<1>11. QED
  BY <1>3, <1>5, <1>6, <1>7, <1>8, <1>9, <1>10
  DEF Next, Producing, ShuttingDown, Signal, StopJoining, ShutdownUnchanged, Collect, CollectResult,
      CollectReady, CollectComplete, DrainUpstream, WorkerStep, Initialize, Start, Arm, Report, Finish,
      StopWork, Exit, WorkFails, EndWork, Die, Over, vars, mainVars, workerVars

LEMMA FedAllKept ==
    ASSUME FedAll, [Next]_vars
    PROVE  FedAll' /\ (cancelled => cancelled')
<1>1. CASE UNCHANGED <<source, producer, failed, cancelled>>
  BY <1>1 DEF FedAll
<1>2. CASE Feed
  BY <1>2 DEF Feed, FedAll
<1>3. CASE StopFeeding
  BY <1>3 DEF StopFeeding, FedAll
<1>4. CASE PutSentinel
  BY <1>4 DEF PutSentinel, FedAll
<1>5. CASE EndProducer
  BY <1>5 DEF EndProducer, FedAll
<1>6. CASE Interrupt \/ \E w \in Workers : CollectorFails(w)
  BY <1>6 DEF Interrupt, CollectorFails, CancelTasks, FedAll
<1>7. QED
  BY <1>1, <1>2, <1>3, <1>4, <1>5, <1>6
  DEF Next, Producing, ShuttingDown, Signal, StopJoining, CleanUp, ShutdownUnchanged, DrainParseQueue,
      Collect, CollectResult, CollectReady, CollectComplete, DrainUpstream, WorkerStep, Initialize, Start,
      Arm, Take, Report, Finish, StopWork, Exit, WorkFails, EndWork, Die, Over, vars, mainVars

LEMMA ShutLastKept ==
    ASSUME TypeOK, ShutLast, [Next]_vars
    PROVE  ShutLast'
<1>1. CASE UNCHANGED <<producer, collector, notified, shutdown>>
  BY <1>1 DEF ShutLast
<1>2. CASE Feed \/ StopFeeding \/ PutSentinel \/ EndProducer
  BY <1>2 DEF Feed, StopFeeding, PutSentinel, EndProducer, ShutLast, workerVars
<1>3. CASE Interrupt \/ \E w \in Workers : CollectorFails(w)
  BY <1>3 DEF Interrupt, CollectorFails, CancelTasks, ShutLast, workerVars
<1>4. CASE Signal \/ StopJoining \/ CleanUp
  BY <1>4 DEF Signal, StopJoining, CleanUp, ShutdownUnchanged, ShutLast, workerVars
<1>5. ASSUME NEW w \in Workers, CollectComplete(w) PROVE ShutLast'
  BY <1>5 DEF CollectComplete, Receive, ShutLast, workerVars
<1>6. QED
  BY <1>1, <1>2, <1>3, <1>4, <1>5
  DEF Next, Producing, ShuttingDown, DrainParseQueue, Collect, CollectResult, CollectReady, DrainUpstream,
      WorkerStep, Initialize, Start, Arm, Take, Report, Finish, StopWork, Exit, WorkFails, EndWork, Die,
      Over, vars, mainVars, workerVars

\* Only a worker with tasks takes a job.
LEMMA NoMoreHeld ==
    ASSUME TypeOK, [Next]_vars, NEW w \in Workers
    PROVE  held'[w] \subseteq held[w] \/ TasksOf(w) # 0
<1>1. held \in [Workers -> SUBSET Jobs]
  BY DEF TypeOK
<1>2. ASSUME NEW v \in Workers, NEW K, held' = [held EXCEPT ![v] = K], K \subseteq held[v]
      PROVE  held'[w] \subseteq held[w]
  BY <1>1, <1>2
<1>3. ASSUME NEW v \in Workers, Take(v) PROVE held'[w] \subseteq held[w] \/ TasksOf(w) # 0
  BY <1>1, <1>3 DEF Take
<1>4. ASSUME NEW v \in Workers, Report(v) PROVE held'[w] \subseteq held[w]
  BY <1>2, <1>4 DEF Report
<1>5. ASSUME NEW v \in Workers, Finish(v) \/ StopWork(v) \/ WorkFails(v) \/ Die(v)
      PROVE  held'[w] \subseteq held[w]
  BY <1>2, <1>5 DEF Finish, StopWork, WorkFails, EndWork, Die
<1>6. CASE CleanUp
  BY <1>6 DEF CleanUp
<1>7. QED
  BY <1>3, <1>4, <1>5, <1>6
  DEF Next, Producing, Feed, StopFeeding, PutSentinel, EndProducer, Interrupt, ShuttingDown, Signal,
      StopJoining, DrainParseQueue, Collect, CollectResult, CollectReady, CollectComplete, CollectorFails,
      DrainUpstream, WorkerStep, Initialize, Start, Arm, Exit, Over, vars, workerVars

LEMMA IdleKept ==
    ASSUME IInv, Idle, [Next]_vars
    PROVE  Idle'
<1>1. SUFFICES ASSUME NEW w \in Workers
               PROVE  /\ TasksOf(w) = 0 => held'[w] = {}
                      /\ state'[w] \in {"starting", "waiting"} =>
                            held'[w] = {} /\ \A i \in DOMAIN channel'[w] : channel'[w][i] = "ready"
  BY DEF Idle, TasksOf
<1> DEFINE c == channel[w]
           d == channel'[w]
<1>2. /\ TypeOK /\ c \in Seq(Items) /\ Fits(state[w], c, held[w]) /\ state[w] \in States
      /\ TasksOf(w) = 0 => held[w] = {}
      /\ state[w] \in {"starting", "waiting"} => held[w] = {} /\ \A i \in DOMAIN c : c[i] = "ready"
  BY DEF IInv, Orderly, TypeOK, Items, Idle
<1>3. TasksOf(w) = 0 => held'[w] = {}
  BY <1>2, NoMoreHeld
<1>4. Effect(state[w], c, held[w], state'[w], d, held'[w])
  BY <1>2, EveryEffect DEF EffectOn
<1> HIDE DEF c, d
<1>5. ASSUME state'[w] \in {"starting", "waiting"}
      PROVE  held'[w] = {} /\ \A i \in DOMAIN d : d[i] = "ready"
  <2>1. CASE Same(state[w], c, held[w], state'[w], d, held'[w])
    BY <1>2, <1>5, <2>1 DEF Same
  <2>2. CASE Becomes(state[w], c, held[w], state'[w], d, held'[w])
    <3>1. c = <<>> /\ d = Append(c, "ready") /\ held'[w] = held[w] /\ state[w] = "starting"
      BY <1>2, <1>5, <2>2 DEF Becomes, Fits
    <3>2. DOMAIN d = {1} /\ d[1] = "ready"
      BY <3>1
    <3>3. QED
      BY <1>2, <3>1, <3>2
  <2>3. CASE IsRead(state[w], c, held[w], state'[w], d, held'[w])
    <3>1. \A i \in DOMAIN d : i + 1 \in DOMAIN c /\ d[i] = c[i + 1]
      BY <1>2, <2>3, HeadTailProperties, EmptySeq DEF IsRead
    <3>2. QED
      BY <1>2, <1>5, <2>3, <3>1 DEF IsRead
  <2>4. QED
    BY <1>4, <1>5, <2>1, <2>2, <2>3 DEF Effect, Reports, Ends, Dies
<1>6. QED
  BY <1>3, <1>5 DEF c, d

\* Who ends before the scan is cancelled is through or has failed.
LEMMA EndsOfItself ==
    ASSUME IInv, ShutLast, [Next]_vars, ~cancelled, NEW w \in Workers,
           state[w] = "working", state'[w] = "ending"
    PROVE  Finish(w) \/ WorkFails(w)
<1>1. state \in [Workers -> States] /\ CollectorLeavesLast
  BY LastToLeave DEF IInv, TypeOK
<1>2. ~StopWork(w)
  BY <1>1 DEF StopWork, ShutLast, CollectorLeavesLast
<1>3. ASSUME NEW v \in Workers, WorkerStep(v) \/ WorkFails(v) \/ Die(v)
      PROVE  Finish(w) \/ WorkFails(w)
  <2>1. v = w
    BY <1>1, <1>3 DEF WorkerStep, Initialize, Start, Arm, Take, Report, Finish, StopWork, Exit, WorkFails,
                      EndWork, Die
  <2>2. QED
    BY <1>1, <1>2, <1>3, <2>1 DEF WorkerStep, Initialize, Start, Arm, Take, Report, Exit, Die
<1>4. CASE CleanUp
  BY <1>1, <1>4 DEF CleanUp, Survivors
<1>5. QED
  BY <1>3, <1>4
  DEF Next, Producing, Feed, StopFeeding, PutSentinel, EndProducer, Interrupt, ShuttingDown, Signal,
      StopJoining, DrainParseQueue, Collect, CollectResult, CollectReady, CollectComplete, CollectorFails,
      DrainUpstream, Over, vars, workerVars

LEMMA StaysExhausted ==
    ASSUME TypeOK, [Next]_vars, NEW w \in Workers, Exhausted(w)
    PROVE  Exhausted(w)'
<1>1. drained \in [Workers -> BOOLEAN]
  BY DEF TypeOK
<1>2. ASSUME NEW v \in Workers, Take(v) PROVE drained[w] => drained'[w]
  BY <1>1, <1>2 DEF Take
<1>3. drained[w] => drained'[w]
  BY <1>2
  DEF Next, Producing, Feed, StopFeeding, PutSentinel, EndProducer, Interrupt, ShuttingDown, Signal,
      StopJoining, CleanUp, DrainParseQueue, Collect, CollectResult, CollectReady, CollectComplete,
      CollectorFails, DrainUpstream, WorkerStep, Initialize, Start, Arm, Report, Finish, StopWork, Exit,
      WorkFails, EndWork, Die, Over, vars, workerVars
<1>4. QED
  BY <1>3 DEF Exhausted, TasksOf

Completes(c) == \E i \in DOMAIN c : c[i] = "complete"

LEMMA CompletedKept ==
    ASSUME IInv, ShutLast, FedAll, Completed, [Next]_vars
    PROVE  Completed'
<1>1. SUFFICES ASSUME ~cancelled', NEW w \in Workers, Completes(channel'[w])
               PROVE  Exhausted(w)'
  BY DEF Completed, Completes
<1> DEFINE c == channel[w]
           d == channel'[w]
<1>2. /\ TypeOK /\ c \in Seq(Items) /\ ~cancelled /\ "complete" \notin Jobs
      /\ Completes(c) => Exhausted(w)
  BY <1>1, FedAllKept, JobsAssumption DEF IInv, TypeOK, Items, Completed, Completes, Control
<1>3. Completes(c) => Exhausted(w)'
  BY <1>2, StaysExhausted
<1>4. Effect(state[w], c, held[w], state'[w], d, held'[w]) /\ Completes(d)
  BY <1>1, <1>2, EveryEffect DEF EffectOn
<1>5. ASSUME NEW x \in Items, d = Append(c, x), x # "complete" PROVE Completes(c)
  <2>1. /\ DOMAIN c = 1 .. Len(c) /\ DOMAIN d = 1 .. Len(c) + 1 /\ Len(c) \in Nat
        /\ d[Len(c) + 1] = x /\ \A i \in 1 .. Len(c) : d[i] = c[i]
    BY <1>2, <1>5, FitsAppend
  <2> HIDE DEF c, d
  <2>2. QED
    BY <1>4, <1>5, <2>1 DEF Completes
<1>6. CASE state[w] = "working" /\ state'[w] = "ending"
  <2>1. Finish(w) \/ WorkFails(w)
    BY <1>2, <1>6, EndsOfItself
  <2>2. CASE Finish(w)
    BY <1>2, <2>2, StaysExhausted DEF Finish, PoolDone, Exhausted
  <2>3. CASE WorkFails(w)
    <3>1. d = Append(c, "error") /\ "error" \in Items
      BY <1>2, <2>3 DEF WorkFails, EndWork, Put, IInv, TypeOK, Items, Control
    <3>2. QED
      BY <1>3, <1>5, <3>1
  <2>4. QED
    BY <2>1, <2>2, <2>3
<1> HIDE DEF c, d
<1>7. ASSUME ~(state[w] = "working" /\ state'[w] = "ending") PROVE Completes(c)
  <2>1. CASE Same(state[w], c, held[w], state'[w], d, held'[w])
    BY <1>4, <2>1 DEF Same
  <2>2. CASE Becomes(state[w], c, held[w], state'[w], d, held'[w])
    BY <1>4, <1>5, <2>2 DEF Becomes, Items, Control
  <2>3. CASE Reports(state[w], c, held[w], state'[w], d, held'[w])
    BY <1>2, <1>5, <2>3 DEF Reports, Items
  <2>4. CASE IsRead(state[w], c, held[w], state'[w], d, held'[w])
    <3>1. \A i \in DOMAIN d : i + 1 \in DOMAIN c /\ d[i] = c[i + 1]
      BY <1>2, <2>4, HeadTailProperties, EmptySeq DEF IsRead
    <3>2. QED
      BY <1>4, <3>1 DEF Completes
  <2>5. CASE Dies(state[w], c, held[w], state'[w], d, held'[w])
    <3>1. PICK n \in 0 .. Len(c) : d = SubSeq(c, 1, n)
      BY <2>5 DEF Dies
    <3>2. \A i \in DOMAIN d : i \in DOMAIN c /\ d[i] = c[i]
      BY <1>2, <3>1, FitsPrefix
    <3>3. QED
      BY <1>4, <3>2 DEF Completes
  <2>6. QED
    BY <1>4, <1>7, <2>1, <2>2, <2>3, <2>4, <2>5 DEF Effect, Ends
<1>8. QED
  BY <1>3, <1>6, <1>7

-----------------------------------------------------------------------------
(* What a step does to a job *)

JobOnce == \A j \in Jobs : Places(j) <= 1

Fallen(s, c) == s \in Ended /\ ~Completes(c)

\* The workers of which the collector has counted the end had nothing left to
\* do; and each job is somewhere, unless a worker has ended that will never be
\* counted.
JobTally ==
    cancelled \/ \E F \in SUBSET Workers :
        /\ Cardinality(F) = finished
        /\ \A w \in F : IsThrough(state[w], channel[w]) /\ Exhausted(w)
        /\ (\A j \in Jobs : Places(j) = 1) \/ \E w \in Workers \ F : Fallen(state[w], channel[w])

JobInv == IInv /\ FedInOrder /\ FedAll /\ ShutLast /\ Idle /\ Completed /\ JobOnce /\ JobTally

\* When the collector has left of itself, nothing is on its way any more.
LEMMA NothingLeft ==
    ASSUME JobInv, collector = "done", ~cancelled
    PROVE  /\ OnlySentinels
           /\ \A w \in Workers : state[w] \in Ended /\ channel[w] = <<>> /\ held[w] = {}
           /\ \A j \in Jobs : Places(j) = 1
<1>1. CollectorLeavesLast /\ LeavesCounted /\ FedInOrder
  BY LastToLeave DEF JobInv, IInv
<1>2. PICK F \in SUBSET Workers :
        /\ Cardinality(F) = finished
        /\ \A w \in F : IsThrough(state[w], channel[w]) /\ Exhausted(w)
        /\ (\A j \in Jobs : Places(j) = 1) \/ \E w \in Workers \ F : Fallen(state[w], channel[w])
  BY DEF JobInv, JobTally
<1>3. F = Workers
  BY <1>1, <1>2, WorkersFinite DEF LeavesCounted
<1>4. OnlySentinels
  BY <1>1, <1>2, <1>3, SomebodyWorks DEF Exhausted, FedInOrder
<1>5. QED
  BY <1>1, <1>2, <1>3, <1>4 DEF CollectorLeavesLast, Ended

\* An item is put on w's channel, or taken from it, or some at its end are gone.
LEMMA ChannelCounts ==
    ASSUME NEW ch \in [Workers -> Seq(Items)], NEW w \in Workers, NEW i,
           NEW dh \in [Workers -> Seq(Items)], \A v \in Workers \ {w} : dh[v] = ch[v]
    PROVE  /\ \A x \in Items : dh[w] = Append(ch[w], x) =>
                 Cardinality(Positions(dh, i)) = Cardinality(Positions(ch, i)) + Ind(i, {x})
           /\ ch[w] # <<>> /\ dh[w] = Tail(ch[w]) =>
                 Cardinality(Positions(ch, i)) = Cardinality(Positions(dh, i)) + Ind(i, {Head(ch[w])})
           /\ \A n \in 0 .. Len(ch[w]) : dh[w] = SubSeq(ch[w], 1, n) =>
                 Cardinality(Positions(dh, i)) <= Cardinality(Positions(ch, i))
<1>1. /\ Others(ch, w, i) \in Nat /\ CountIn(ch[w], i) \in Nat /\ CountIn(dh[w], i) \in Nat
      /\ Cardinality(Positions(ch, i)) = Others(ch, w, i) + CountIn(ch[w], i)
      /\ Cardinality(Positions(dh, i)) = Others(dh, w, i) + CountIn(dh[w], i)
  BY OwnAndOthers
<1>2. Others(dh, w, i) = Others(ch, w, i)
  BY OthersStay
<1>3. \A S : Ind(i, S) \in Nat
  BY DEF Ind
<1>4. ASSUME NEW x \in Items, dh[w] = Append(ch[w], x)
      PROVE  Cardinality(Positions(dh, i)) = Cardinality(Positions(ch, i)) + Ind(i, {x})
  <2>1. CountIn(Append(ch[w], x), i) = CountIn(ch[w], i) + Ind(i, {x})
    BY AppendedCount
  <2>2. QED
    BY <1>1, <1>2, <1>3, <1>4, <2>1
<1>5. ASSUME ch[w] # <<>>, dh[w] = Tail(ch[w])
      PROVE  Cardinality(Positions(ch, i)) = Cardinality(Positions(dh, i)) + Ind(i, {Head(ch[w])})
  <2>1. CountIn(ch[w], i) = CountIn(Tail(ch[w]), i) + Ind(i, {Head(ch[w])})
    BY <1>5, PoppedCount
  <2>2. QED
    BY <1>1, <1>2, <1>3, <1>5, <2>1
<1>6. ASSUME NEW n \in 0 .. Len(ch[w]), dh[w] = SubSeq(ch[w], 1, n)
      PROVE  Cardinality(Positions(dh, i)) <= Cardinality(Positions(ch, i))
  <2>1. CountIn(SubSeq(ch[w], 1, n), i) <= CountIn(ch[w], i)
    BY PrefixCount
  <2>2. QED
    BY <1>1, <1>2, <1>6, <2>1
<1>7. QED
  BY <1>4, <1>5, <1>6

\* Of a step: v puts x, v's first item is taken, v's items are cut down to n, v's
\* jobs become K.
OnlyChannelOf(v) == \A u \in Workers \ {v} : channel'[u] = channel[u]
Puts(v, x) == OnlyChannelOf(v) /\ channel'[v] = Append(channel[v], x)
Gets(v) == OnlyChannelOf(v) /\ channel[v] # <<>> /\ channel'[v] = Tail(channel[v])
Cuts(v, n) == OnlyChannelOf(v) /\ channel'[v] = SubSeq(channel[v], 1, n)
Holds(v, K) == held' = [held EXCEPT ![v] = K]

LEMMA Channels ==
    ASSUME TypeOK, TypeOK', NEW v \in Workers, NEW j
    PROVE  /\ \A x \in Items : Puts(v, x) =>
                 Cardinality(Positions(channel', j)) = Cardinality(Positions(channel, j)) + Ind(j, {x})
           /\ Gets(v) =>
                 Cardinality(Positions(channel, j)) = Cardinality(Positions(channel', j)) + Ind(j, {Head(channel[v])})
           /\ \A n \in 0 .. Len(channel[v]) : Cuts(v, n) =>
                 Cardinality(Positions(channel', j)) <= Cardinality(Positions(channel, j))
<1>1. channel \in [Workers -> Seq(Items)] /\ channel' \in [Workers -> Seq(Items)]
  BY DEF TypeOK, Items
<1>2. CASE OnlyChannelOf(v)
  <2>1. \A u \in Workers \ {v} : channel'[u] = channel[u]
    BY <1>2 DEF OnlyChannelOf
  <2>2. /\ \A x \in Items : channel'[v] = Append(channel[v], x) =>
              Cardinality(Positions(channel', j)) = Cardinality(Positions(channel, j)) + Ind(j, {x})
        /\ channel[v] # <<>> /\ channel'[v] = Tail(channel[v]) =>
              Cardinality(Positions(channel, j)) = Cardinality(Positions(channel', j)) + Ind(j, {Head(channel[v])})
        /\ \A n \in 0 .. Len(channel[v]) : channel'[v] = SubSeq(channel[v], 1, n) =>
              Cardinality(Positions(channel', j)) <= Cardinality(Positions(channel, j))
    BY <1>1, <2>1, ChannelCounts
  <2>3. QED
    BY <2>2 DEF Puts, Gets, Cuts
<1>3. QED
  BY <1>2 DEF Puts, Gets, Cuts

Sum(r, s, q, h, c) == r + s + q + h + c

LEMMA PlacesNext ==
    ASSUME TypeOK, TypeOK', NEW j \in Jobs
    PROVE  /\ Places(j)' = Sum(recorded'[j], Ind(j, source'), CountIn(parseQueue', j),
                               Cardinality(HoldersOf(j)'), Cardinality(Positions(channel', j)))
           /\ recorded'[j] \in Nat /\ Ind(j, source') \in Nat /\ CountIn(parseQueue', j) \in Nat
           /\ Cardinality(HoldersOf(j)') \in Nat /\ Cardinality(Positions(channel', j)) \in Nat
<1>1. /\ recorded' \in [Jobs -> Nat] /\ parseQueue' \in Seq(Jobs \cup {NoMoreJobs})
      /\ channel' \in [Workers -> Seq(Items)]
  BY DEF TypeOK, Items
<1>2. IsFiniteSet(HoldersOf(j)') /\ Cardinality(HoldersOf(j)') \in Nat
  <2> DEFINE H == HoldersOf(j)'
  <2>1. H \in SUBSET Workers
    BY DEF HoldersOf
  <2> HIDE DEF H
  <2>2. IsFiniteSet(H) /\ Cardinality(H) \in Nat
    BY <2>1, WorkersFinite, FS_CardinalityType
  <2>3. QED
    BY <2>2 DEF H
<1>3. CountIn(parseQueue', j) \in Nat /\ Cardinality(Positions(channel', j)) \in Nat
  BY <1>1, CountFinite, PositionsFinite
<1>4. Places(j)' = Sum(recorded'[j], Ind(j, source'), CountIn(parseQueue', j),
                       Cardinality(HoldersOf(j)'), Cardinality(Positions(channel', j)))
  BY DEF Places, OnChannels, Positions, At, Ind, CountIn, HoldersOf, Sum
<1>5. QED
  BY <1>1, <1>2, <1>3, <1>4 DEF Ind

\* A step moves a job from one place to another.  It may lose one only when the
\* scan is cancelled, or a worker fails or dies.
Loses(w) ==
    \/ WorkFails(w)
    \/ Die(w) /\ (state[w] = "working" \/ (state[w] \in Ended /\ channel'[w] # channel[w]))

LEMMA JobMoves ==
    ASSUME JobInv, TypeOK', [Next]_vars, NEW j \in Jobs
    PROVE  /\ Places(j)' \in Nat /\ Places(j)' <= Places(j)
           /\ Places(j)' = Places(j) \/ cancelled' \/ \E w \in Workers : Loses(w)
<1> DEFINE R == recorded[j]
           RR == recorded'[j]
           S == Ind(j, source)
           SS == Ind(j, source')
           Q == CountIn(parseQueue, j)
           QQ == CountIn(parseQueue', j)
           H == Cardinality(HoldersOf(j))
           HH == Cardinality(HoldersOf(j)')
           C == Cardinality(Positions(channel, j))
           CC == Cardinality(Positions(channel', j))
           Before == R + S + Q + H + C
           After == RR + SS + QQ + HH + CC
           Goal == /\ Places(j)' \in Nat /\ Places(j)' <= Places(j)
                   /\ Places(j)' = Places(j) \/ cancelled' \/ \E w \in Workers : Loses(w)
<1>1. /\ TypeOK /\ IInv /\ ShutLast /\ FedAll /\ Places(j) <= 1
      /\ held \in [Workers -> SUBSET Jobs] /\ parseQueue \in Seq(Jobs \cup {NoMoreJobs})
      /\ channel \in [Workers -> Seq(Items)] /\ recorded \in [Jobs -> Nat] /\ source \in SUBSET Jobs
      /\ j # NoMoreJobs /\ j \notin Control
  BY JobsAssumption DEF JobInv, IInv, JobOnce, TypeOK, Items
<1>2. Places(j) = Before /\ R \in Nat /\ S \in Nat /\ Q \in Nat /\ H \in Nat /\ C \in Nat
  BY <1>1, PlacesAre
<1>3. Places(j)' = After /\ RR \in Nat /\ SS \in Nat /\ QQ \in Nat /\ HH \in Nat /\ CC \in Nat
  BY <1>1, PlacesNext DEF Sum
<1>4. /\ UNCHANGED recorded => RR = R
      /\ UNCHANGED source => SS = S
      /\ UNCHANGED parseQueue => QQ = Q
      /\ UNCHANGED held => HH = H
      /\ UNCHANGED channel => CC = C
  BY DEF HoldersOf
<1>5. ASSUME NEW v \in Workers
      PROVE  /\ \A x \in Items : Puts(v, x) => CC = C + Ind(j, {x})
             /\ Gets(v) => C = CC + Ind(j, {Head(channel[v])})
             /\ \A n \in 0 .. Len(channel[v]) : Cuts(v, n) => CC <= C
  BY <1>1, Channels
<1>6. ASSUME NEW v \in Workers, NEW K, Holds(v, K)
      PROVE  \E rest \in Nat : H = rest + Ind(j, held[v]) /\ HH = rest + Ind(j, K)
  BY <1>1, <1>6, HeldMoves DEF Holds
<1>7. parseQueue # <<>> /\ parseQueue' = Tail(parseQueue) => Q = QQ + Ind(j, {Head(parseQueue)})
  BY <1>1, PoppedCount
<1>8. \A x \in Jobs \cup {NoMoreJobs} : parseQueue' = Append(parseQueue, x) => QQ = Q + Ind(j, {x})
  BY <1>1, AppendedCount
<1>9. /\ \A x \in Control : x \in Items /\ Ind(j, {x}) = 0
      /\ Ind(j, {NoMoreJobs}) = 0 /\ Ind(j, {}) = 0 /\ \A T : Ind(j, T) \in Nat
  BY <1>1 DEF Ind, Items
<1>10. shutdown # "no" /\ ~cancelled =>
          /\ OnlySentinels
          /\ \A w \in Workers : state[w] \in Ended /\ channel[w] = <<>> /\ held[w] = {}
  BY NothingLeft DEF JobInv, ShutLast
<1>11. ASSUME After <= Before, After = Before \/ cancelled' \/ \E w \in Workers : Loses(w)
       PROVE  Goal
  <2> HIDE DEF R, RR, S, SS, Q, QQ, H, HH, C, CC
  <2>1. After \in Nat
    BY <1>3
  <2> HIDE DEF Before, After
  <2>2. QED
    BY <1>2, <1>3, <1>11, <2>1
<1> HIDE DEF R, RR, S, SS, Q, QQ, H, HH, C, CC, Goal
<1>12. ASSUME UNCHANGED <<recorded, source, parseQueue, held, channel>> PROVE Goal
  <2>1. After = Before /\ After <= Before
    BY <1>2, <1>3, <1>4, <1>12
  <2>2. QED
    BY <1>11, <2>1
<1>13. ASSUME Feed PROVE Goal
  <2>1. PICK k \in source : source' = source \ {k} /\ parseQueue' = Append(parseQueue, k)
    BY <1>13 DEF Feed
  <2>2. QQ = Q + Ind(j, {k}) /\ S = SS + Ind(j, {k})
    BY <1>1, <1>8, <2>1 DEF Ind, S, SS
  <2>3. RR = R /\ HH = H /\ CC = C
    BY <1>4, <1>13 DEF Feed, workerVars
  <2>4. After = Before /\ After <= Before
    BY <1>2, <1>3, <1>9, <2>2, <2>3
  <2>5. QED
    BY <1>11, <2>4
<1>14. ASSUME PutSentinel PROVE Goal
  <2>1. QQ = Q + Ind(j, {NoMoreJobs}) /\ RR = R /\ SS = S /\ HH = H /\ CC = C
    BY <1>4, <1>8, <1>14 DEF PutSentinel, workerVars
  <2>2. After = Before /\ After <= Before
    BY <1>2, <1>3, <1>9, <2>1
  <2>3. QED
    BY <1>11, <2>2
<1>15. ASSUME NEW v \in Workers, Initialize(v) PROVE Goal
  <2>1. Puts(v, "ready") /\ "ready" \in Control
    BY <1>1, <1>15 DEF Initialize, Put, Puts, OnlyChannelOf, Control
  <2>2. RR = R /\ SS = S /\ QQ = Q /\ HH = H
    BY <1>4, <1>15 DEF Initialize, mainVars
  <2>3. CC = C + Ind(j, {"ready"}) /\ Ind(j, {"ready"}) = 0
    BY <1>5, <1>9, <2>1
  <2>4. After = Before /\ After <= Before
    BY <1>2, <1>3, <2>2, <2>3
  <2>5. QED
    BY <1>11, <2>4
<1>16. ASSUME NEW v \in Workers, Finish(v) \/ StopWork(v) \/ WorkFails(v) PROVE Goal
  <2>1. PICK x \in Control : EndWork(v, x)
    BY <1>16 DEF Finish, StopWork, WorkFails, Control
  <2>2. Puts(v, x) /\ Holds(v, {})
    BY <1>1, <2>1 DEF EndWork, Put, Puts, OnlyChannelOf, Holds
  <2>3. RR = R /\ SS = S /\ QQ = Q /\ cancelled' = cancelled
    BY <1>4, <2>1 DEF EndWork, mainVars
  <2>4. CC = C + Ind(j, {x}) /\ Ind(j, {x}) = 0
    BY <1>5, <1>9, <2>2
  <2>5. PICK rest \in Nat : H = rest + Ind(j, held[v]) /\ HH = rest + Ind(j, {})
    BY <1>6, <2>2
  <2>6. After <= Before /\ (Ind(j, held[v]) = 0 => After = Before)
    BY <1>2, <1>3, <1>9, <2>3, <2>4, <2>5
  <2>7. held[v] = {} \/ cancelled \/ Loses(v)
    <3>1. CASE Finish(v)
      BY <3>1 DEF Finish, PoolDone, JobInv, Idle
    <3>2. CASE StopWork(v)
      BY <1>1, <1>10, <3>2 DEF StopWork, ShutLast, Ended
    <3>3. QED
      BY <1>16, <3>1, <3>2 DEF Loses
  <2>8. QED
    BY <1>9, <1>11, <2>3, <2>6, <2>7
<1>17. ASSUME NEW v \in Workers, Report(v) PROVE Goal
  <2>1. PICK k \in held[v] : held' = [held EXCEPT ![v] = @ \ {k}] /\ Put(v, k)
    BY <1>17 DEF Report
  <2>2. Puts(v, k) /\ Holds(v, held[v] \ {k}) /\ k \in Items
    BY <1>1, <2>1 DEF Put, Puts, OnlyChannelOf, Holds, Items
  <2>3. RR = R /\ SS = S /\ QQ = Q
    BY <1>4, <1>17 DEF Report, mainVars
  <2>4. CC = C + Ind(j, {k})
    BY <1>5, <2>2
  <2>5. PICK rest \in Nat : H = rest + Ind(j, held[v]) /\ HH = rest + Ind(j, held[v] \ {k})
    BY <1>6, <2>2
  <2>6. Ind(j, held[v]) = Ind(j, held[v] \ {k}) + Ind(j, {k})
    BY DEF Ind
  <2>7. After = Before /\ After <= Before
    BY <1>2, <1>3, <1>9, <2>3, <2>4, <2>5, <2>6
  <2>8. QED
    BY <1>11, <2>7
<1>18. ASSUME NEW v \in Workers, Take(v) PROVE Goal
  <2>1. Q = QQ + Ind(j, {Head(parseQueue)}) /\ RR = R /\ SS = S /\ CC = C
    BY <1>4, <1>7, <1>18 DEF Take, mainVars
  <2>2. CASE Head(parseQueue) = NoMoreJobs
    <3>1. HH = H
      BY <1>4, <1>18, <2>2 DEF Take
    <3>2. After = Before /\ After <= Before
      BY <1>2, <1>3, <1>9, <2>1, <2>2, <3>1
    <3>3. QED
      BY <1>11, <3>2
  <2>3. CASE Head(parseQueue) # NoMoreJobs
    <3>1. Holds(v, held[v] \cup {Head(parseQueue)})
      BY <1>18, <2>3 DEF Take, Holds
    <3>2. PICK rest \in Nat : /\ H = rest + Ind(j, held[v])
                              /\ HH = rest + Ind(j, held[v] \cup {Head(parseQueue)})
      BY <1>6, <3>1
    <3>3. HH = H + Ind(j, {Head(parseQueue)})
      <4>1. CASE j = Head(parseQueue)
        <5>1. Ind(j, {Head(parseQueue)}) = 1 /\ Ind(j, held[v] \cup {Head(parseQueue)}) = 1
          BY <4>1 DEF Ind
        <5>2. rest = 0 /\ Ind(j, held[v]) = 0
          BY <1>1, <1>2, <1>3, <1>9, <2>1, <3>2, <5>1
        <5>3. QED
          BY <3>2, <5>1, <5>2
      <4>2. CASE j # Head(parseQueue)
        <5>1. /\ Ind(j, {Head(parseQueue)}) = 0
              /\ Ind(j, held[v] \cup {Head(parseQueue)}) = Ind(j, held[v])
          BY <4>2 DEF Ind
        <5>2. QED
          BY <1>2, <3>2, <5>1
      <4>3. QED
        BY <4>1, <4>2
    <3>4. After = Before /\ After <= Before
      BY <1>2, <1>3, <1>9, <2>1, <3>3
    <3>5. QED
      BY <1>11, <3>4
  <2>4. QED
    BY <2>2, <2>3
<1>19. ASSUME NEW v \in Workers, CollectReady(v) \/ CollectComplete(v) PROVE Goal
  <2>1. Gets(v) /\ Head(channel[v]) \in Control
    BY <1>1, <1>19 DEF CollectReady, CollectComplete, Receive, Gets, OnlyChannelOf, Control
  <2>2. RR = R /\ SS = S /\ QQ = Q /\ HH = H
    BY <1>4, <1>19 DEF CollectReady, CollectComplete, workerVars
  <2>3. C = CC + Ind(j, {Head(channel[v])}) /\ Ind(j, {Head(channel[v])}) = 0
    BY <1>5, <1>9, <2>1
  <2>4. After = Before /\ After <= Before
    BY <1>2, <1>3, <2>2, <2>3
  <2>5. QED
    BY <1>11, <2>4
<1>20. ASSUME NEW v \in Workers, CollectResult(v) PROVE Goal
  <2>1. Gets(v)
    BY <1>1, <1>20 DEF CollectResult, Receive, Gets, OnlyChannelOf
  <2>2. SS = S /\ QQ = Q /\ HH = H
    BY <1>4, <1>20 DEF CollectResult, workerVars
  <2>3. C = CC + Ind(j, {Head(channel[v])})
    BY <1>5, <2>1
  <2>4. RR = R + Ind(j, {Head(channel[v])})
    BY <1>1, <1>20 DEF CollectResult, Ind, R, RR
  <2>5. After = Before /\ After <= Before
    BY <1>2, <1>3, <1>9, <2>2, <2>3, <2>4
  <2>6. QED
    BY <1>11, <2>5
<1>21. ASSUME NEW v \in Workers, CollectorFails(v) \/ DrainUpstream(v) PROVE Goal
  <2>1. Gets(v)
    BY <1>1, <1>21 DEF CollectorFails, DrainUpstream, Receive, Gets, OnlyChannelOf
  <2>2. RR = R /\ SS = S /\ QQ = Q /\ HH = H
    BY <1>4, <1>21 DEF CollectorFails, DrainUpstream, workerVars, mainVars
  <2>3. C = CC + Ind(j, {Head(channel[v])})
    BY <1>5, <2>1
  <2>4. cancelled'
    BY <1>10, <1>21 DEF CollectorFails, CancelTasks, DrainUpstream, mainVars
  <2>5. After <= Before
    BY <1>2, <1>3, <1>9, <2>2, <2>3
  <2>6. QED
    BY <1>11, <2>4, <2>5
<1>22. ASSUME NEW v \in Workers, Die(v) PROVE Goal
  <2>1. PICK n \in 0 .. Len(channel[v]) : channel' = [channel EXCEPT ![v] = SubSeq(@, 1, n)]
    BY <1>22 DEF Die
  <2>2. Cuts(v, n) /\ Holds(v, {})
    BY <1>1, <1>22, <2>1 DEF Die, Cuts, OnlyChannelOf, Holds
  <2>3. RR = R /\ SS = S /\ QQ = Q
    BY <1>4, <1>22 DEF Die, mainVars
  <2>4. CC <= C
    BY <1>5, <2>2
  <2>5. PICK rest \in Nat : H = rest + Ind(j, held[v]) /\ HH = rest + Ind(j, {})
    BY <1>6, <2>2
  <2>6. After <= Before /\ (CC = C /\ Ind(j, held[v]) = 0 => After = Before)
    <3>1. Ind(j, held[v]) \in Nat /\ Ind(j, {}) = 0
      BY <1>9
    <3> DEFINE x == Ind(j, held[v])
    <3> HIDE DEF x
    <3>2. x \in Nat /\ H = rest + x /\ HH = rest
      BY <2>5, <3>1 DEF x
    <3>3. After <= Before /\ (CC = C /\ x = 0 => After = Before)
      BY <1>2, <1>3, <2>3, <2>4, <3>2
    <3>4. QED
      BY <3>3 DEF x
  <2>7. CASE state[v] \in {"starting", "waiting"}
    <3>1. held[v] = {} /\ \A i \in DOMAIN channel[v] : channel[v][i] # j
      BY <1>1, <2>7 DEF JobInv, Idle, Control
    <3>2. Positions(channel', j) = Positions(channel, j)
      <4>1. At(channel, v, j) = {} /\ At(channel', v, j) = {}
        <5>1. \A i \in DOMAIN channel'[v] : i \in DOMAIN channel[v] /\ channel'[v][i] = channel[v][i]
          BY <1>1, <2>2, FitsPrefix DEF Cuts
        <5>2. QED
          BY <3>1, <5>1 DEF At
      <4>2. \A u \in Workers \ {v} : At(channel', u, j) = At(channel, u, j)
        BY <2>2 DEF Cuts, OnlyChannelOf, At
      <4>3. \A u \in Workers : At(channel', u, j) = At(channel, u, j)
        BY <4>1, <4>2
      <4>4. QED
        BY <4>3 DEF Positions
    <3>3. CC = C
      BY <3>2 DEF CC, C
    <3>4. QED
      BY <1>9, <1>11, <2>6, <3>1, <3>3
  <2>8. CASE state[v] \in Ended /\ channel'[v] = channel[v]
    <3>1. held[v] = {} /\ UNCHANGED channel
      BY <1>1, <2>1, <2>8 DEF IInv, Orderly, Fits
    <3>2. QED
      BY <1>4, <1>9, <1>11, <2>6, <3>1
  <2>9. CASE state[v] = "working" \/ (state[v] \in Ended /\ channel'[v] # channel[v])
    <3>1. Loses(v)
      BY <1>22, <2>9 DEF Loses
    <3>2. QED
      BY <1>11, <2>6, <3>1
  <2>10. QED
    BY <1>1, <2>7, <2>8, <2>9 DEF TypeOK, States, Ended
<1>23. ASSUME DrainParseQueue PROVE Goal
  <2>1. /\ parseQueue # <<>> /\ shutdown = "joining" /\ cancelled' = cancelled
        /\ Q = QQ + Ind(j, {Head(parseQueue)}) /\ RR = R /\ SS = S /\ HH = H /\ CC = C
    BY <1>4, <1>7, <1>23 DEF DrainParseQueue, mainVars, workerVars
  <2>2. After <= Before /\ (Ind(j, {Head(parseQueue)}) = 0 => After = Before)
    BY <1>2, <1>3, <1>9, <2>1
  <2>3. ~cancelled => Head(parseQueue) = NoMoreJobs
    <3>1. Head(parseQueue) = parseQueue[1] /\ 1 \in DOMAIN parseQueue
      BY <1>1, <2>1, EmptySeq
    <3>2. QED
      BY <1>10, <2>1, <3>1 DEF OnlySentinels
  <2>4. QED
    BY <1>9, <1>11, <2>1, <2>2, <2>3
<1>24. ASSUME CleanUp PROVE Goal
  <2>1. /\ parseQueue' = <<>> /\ channel' = [w \in Workers |-> <<>>] /\ held' = [w \in Workers |-> {}]
        /\ shutdown = "killing" /\ cancelled' = cancelled /\ RR = R /\ SS = S
    BY <1>4, <1>24 DEF CleanUp, ShutdownUnchanged
  <2>2. Cardinality({}) = 0
    BY FS_EmptySet
  <2>3. HH = 0
    <3>1. HoldersOf(j)' = {}
      BY <2>1 DEF HoldersOf
    <3>2. QED
      BY <2>2, <3>1 DEF HH
  <2>4. CC = 0
    <3>1. Positions(channel', j) = {}
      BY <2>1 DEF Positions, At
    <3>2. QED
      BY <2>2, <3>1 DEF CC
  <2>5. QQ = 0
    <3>1. {i \in DOMAIN parseQueue' : parseQueue'[i] = j} = {}
      BY <2>1
    <3>2. QED
      BY <2>2, <3>1 DEF QQ, CountIn
  <2>6. ~cancelled => Q = 0 /\ H = 0 /\ C = 0
    <3>1. SUFFICES ASSUME ~cancelled PROVE Q = 0 /\ H = 0 /\ C = 0
      OBVIOUS
    <3>2. HoldersOf(j) = {} /\ Positions(channel, j) = {}
      BY <1>10, <2>1, <3>1 DEF HoldersOf, Positions, At
    <3>3. {i \in DOMAIN parseQueue : parseQueue[i] = j} = {}
      BY <1>1, <1>10, <2>1, <3>1 DEF OnlySentinels
    <3>4. QED
      BY <2>2, <3>2, <3>3 DEF Q, H, C, CountIn
  <2>7. After <= Before /\ (~cancelled => After = Before)
    BY <1>2, <1>3, <2>1, <2>3, <2>4, <2>5, <2>6
  <2>8. QED
    BY <1>11, <2>1, <2>7
<1>25. QED
  <2>1. Goal
    BY <1>12, <1>13, <1>14, <1>15, <1>16, <1>17, <1>18, <1>19, <1>20, <1>21, <1>22, <1>23, <1>24
    DEF Next, Producing, StopFeeding, EndProducer, Interrupt, CancelTasks, ShuttingDown, Signal, StopJoining,
        ShutdownUnchanged, Collect, WorkerStep, Start, Arm, Exit, Over, vars, mainVars, workerVars
  <2>2. QED
    BY <2>1 DEF Goal

\* A worker that will not be counted stays such a one.
LEMMA StaysFallen ==
    ASSUME IInv, [Next]_vars, NEW w \in Workers, Fallen(state[w], channel[w])
    PROVE  Fallen(state'[w], channel'[w])
<1> DEFINE s == state[w]
           c == channel[w]
           h == held[w]
           t == state'[w]
           d == channel'[w]
           k == held'[w]
<1>1. Effect(s, c, h, t, d, k) /\ c \in Seq(Items) /\ s \in Ended /\ ~Completes(c)
  BY EveryEffect DEF EffectOn, IInv, TypeOK, Items, Fallen
<1> HIDE DEF s, c, h, t, d, k
<1>2. ASSUME Same(s, c, h, t, d, k) PROVE Fallen(t, d)
  BY <1>1, <1>2 DEF Same, Fallen
<1>3. ASSUME IsRead(s, c, h, t, d, k) PROVE Fallen(t, d)
  <2>1. \A i \in DOMAIN d : i + 1 \in DOMAIN c /\ d[i] = c[i + 1]
    BY <1>1, <1>3, HeadTailProperties, EmptySeq DEF IsRead
  <2>2. QED
    BY <1>1, <1>3, <2>1 DEF IsRead, Fallen, Completes
<1>4. ASSUME Dies(s, c, h, t, d, k) PROVE Fallen(t, d)
  <2>1. PICK n \in 0 .. Len(c) : t = "dead" /\ d = SubSeq(c, 1, n)
    BY <1>4 DEF Dies
  <2>2. \A i \in DOMAIN d : i \in DOMAIN c /\ d[i] = c[i]
    BY <1>1, <2>1, FitsPrefix
  <2>3. QED
    BY <1>1, <2>1, <2>2 DEF Fallen, Completes, Ended
<1>5. Fallen(t, d)
  BY <1>1, <1>2, <1>3, <1>4 DEF Effect, Becomes, Reports, Ends, Ended, Fallen
<1>6. QED
  BY <1>5 DEF t, d

\* Who loses a job will not be counted.
LEMMA LosersFall ==
    ASSUME IInv, NEW w \in Workers, Loses(w)
    PROVE  /\ Fallen(state'[w], channel'[w])
           /\ ~IsThrough(state[w], channel[w])
<1> DEFINE c == channel[w]
           d == channel'[w]
<1>1. /\ c \in Seq(Items) /\ Fits(state[w], c, held[w]) /\ state \in [Workers -> States]
      /\ channel \in [Workers -> Seq(Items)] /\ "error" \in Items
  BY DEF IInv, TypeOK, Items, Control, Orderly
<1>2. CASE WorkFails(w)
  <2>1. state[w] = "working" /\ state'[w] = "ending" /\ d = Append(c, "error")
    BY <1>1, <1>2 DEF WorkFails, EndWork, Put
  <2>2. /\ DOMAIN c = 1 .. Len(c) /\ DOMAIN d = 1 .. Len(c) + 1 /\ Len(c) \in Nat
        /\ d[Len(c) + 1] = "error" /\ \A i \in 1 .. Len(c) : d[i] = c[i]
    BY <1>1, <2>1, FitsAppend
  <2> HIDE DEF c, d
  <2>3. ~Completes(d)
    BY <1>1, <2>1, <2>2 DEF Completes, Fits, Farewells
  <2>4. QED
    BY <2>1, <2>3 DEF Fallen, Ended, IsThrough, d
<1>3. CASE Die(w) /\ (state[w] = "working" \/ (state[w] \in Ended /\ channel'[w] # channel[w]))
  <2>1. PICK n \in 0 .. Len(c) : state'[w] = "dead" /\ d = SubSeq(c, 1, n)
    BY <1>1, <1>3 DEF Die
  <2>2. /\ DOMAIN d = 1 .. n /\ \A i \in 1 .. n : d[i] = c[i] /\ i \in DOMAIN c
        /\ n = Len(c) => d = c /\ Len(c) \in Nat
    BY <1>1, <2>1, FitsPrefix
  <2>3. c = <<>> => n = Len(c)
    BY <2>1
  <2> HIDE DEF c, d
  <2>4. ~Completes(d)
    <3>1. CASE state[w] = "working"
      BY <1>1, <2>2, <3>1 DEF Completes, Fits, Farewells
    <3>2. CASE d # c
      BY <1>1, <2>1, <2>2, <3>2 DEF Completes, Fits, Farewells
    <3>3. QED
      BY <1>3, <3>1, <3>2 DEF c, d
  <2>5. ~IsThrough(state[w], c)
    BY <1>3, <2>2, <2>3 DEF IsThrough, Ended, c, d
  <2>6. QED
    BY <2>1, <2>4, <2>5 DEF Fallen, Ended, c, d
<1>4. QED
  BY <1>2, <1>3 DEF Loses

LEMMA JobTallyKept ==
    ASSUME JobInv, TypeOK', [Next]_vars
    PROVE  JobTally'
<1>1. SUFFICES ASSUME ~cancelled' PROVE JobTally'
  BY DEF JobTally
<1>2. /\ IInv /\ TypeOK /\ FedAll /\ ShutLast /\ Completed /\ ~cancelled
      /\ channel \in [Workers -> Seq(Items)]
  BY <1>1, FedAllKept DEF JobInv, IInv, TypeOK, Items
<1>3. PICK F \in SUBSET Workers :
        /\ Cardinality(F) = finished
        /\ \A w \in F : IsThrough(state[w], channel[w]) /\ Exhausted(w)
        /\ (\A j \in Jobs : Places(j) = 1) \/ \E w \in Workers \ F : Fallen(state[w], channel[w])
  BY <1>2 DEF JobInv, JobTally
<1>4. \A w \in F : IsThrough(state'[w], channel'[w]) /\ Exhausted(w)'
  BY <1>2, <1>3, OrderlyKept, StaysExhausted
<1>5. (\A j \in Jobs : Places(j)' = 1) \/ \E w \in Workers \ F : Fallen(state'[w], channel'[w])
  <2>1. CASE \E w \in Workers : Loses(w)
    BY <1>2, <1>3, <2>1, LosersFall
  <2>2. CASE \E w \in Workers \ F : Fallen(state[w], channel[w])
    BY <1>2, <2>2, StaysFallen
  <2>3. CASE (\A j \in Jobs : Places(j) = 1) /\ ~ \E w \in Workers : Loses(w)
    BY <1>1, <2>3, JobMoves
  <2>4. QED
    BY <1>3, <2>1, <2>2, <2>3
<1>6. ASSUME NEW G \in SUBSET Workers, Cardinality(G) = finished',
             \A w \in G : IsThrough(state'[w], channel'[w]) /\ Exhausted(w)',
             (\A j \in Jobs : Places(j)' = 1) \/ \E w \in Workers \ G : Fallen(state'[w], channel'[w])
      PROVE  JobTally'
  BY <1>6 DEF JobTally
<1>7. CASE finished' = finished
  BY <1>3, <1>4, <1>5, <1>6, <1>7
<1>8. ASSUME NEW v \in Workers, CollectComplete(v) PROVE JobTally'
  <2> DEFINE c == channel[v]
             G == F \cup {v}
  <2>1. /\ c # <<>> /\ c \in Seq(Items) /\ Head(c) = "complete" /\ channel'[v] = Tail(c)
        /\ \A w \in Workers \ {v} : channel'[w] = channel[w]
        /\ state' = state /\ finished' = finished + 1 /\ Fits(state[v], c, held[v])
    BY <1>2, <1>8 DEF CollectComplete, Receive, workerVars, IInv, Orderly
  <2>2. 1 \in DOMAIN c /\ c[1] = "complete" /\ Tail(c) = <<>>
    BY <2>1, FitsTail, EmptySeq DEF Farewells
  <2>3. state[v] \in Ended /\ Completes(c) /\ v \notin F
    BY <1>2, <1>3, <2>1, <2>2 DEF Fits, Farewells, Ended, IInv, TypeOK, States, Completes, IsThrough
  <2>4. Exhausted(v)'
    BY <1>2, <2>3, StaysExhausted DEF Completed, Completes
  <2>5. IsThrough(state'[v], channel'[v])
    BY <2>1, <2>2, <2>3 DEF IsThrough
  <2>6. \A w \in G : IsThrough(state'[w], channel'[w]) /\ Exhausted(w)'
    BY <1>4, <2>4, <2>5
  <2>7. Cardinality(G) = finished'
    BY <1>3, <2>1, <2>3, WorkersFinite, FS_AddElement
  <2>8. (\A j \in Jobs : Places(j)' = 1) \/ \E w \in Workers \ G : Fallen(state'[w], channel'[w])
    <3>1. CASE \E w \in Workers : Fallen(state[w], channel[w]) /\ w \notin F
      <4>1. PICK w \in Workers : Fallen(state[w], channel[w]) /\ w \notin F
        BY <3>1
      <4>2. w # v
        BY <2>3, <4>1 DEF Fallen
      <4>3. Fallen(state'[w], channel'[w])
        BY <2>1, <4>1, <4>2
      <4>4. QED
        BY <4>1, <4>2, <4>3
    <3>2. CASE \A j \in Jobs : Places(j) = 1
      <4>1. \A w \in Workers : ~Loses(w)
        <5>1. state \in [Workers -> States] /\ "dead" \notin Deaths
          BY <1>2, DeathsAssumption DEF TypeOK
        <5>2. QED
          BY <2>1, <5>1 DEF Loses, WorkFails, EndWork, Die
      <4>2. QED
        BY <1>1, <3>2, <4>1, JobMoves
    <3>3. QED
      BY <1>3, <3>1, <3>2
  <2> HIDE DEF G
  <2>9. QED
    BY <1>6, <2>6, <2>7, <2>8 DEF G
<1>9. QED
  BY <1>7, <1>8
  DEF Next, Producing, Feed, StopFeeding, PutSentinel, EndProducer, Interrupt, ShuttingDown, Signal,
      StopJoining, CleanUp, ShutdownUnchanged, DrainParseQueue, Collect, CollectResult, CollectReady,
      CollectorFails, DrainUpstream, WorkerStep, Initialize, Start, Arm, Take, Report, Finish, StopWork,
      Exit, WorkFails, EndWork, Die, Over, vars, mainVars

-----------------------------------------------------------------------------
(* Theorems *)

LEMMA InitKeepsJobs == Init => JobInv /\ \A j \in Jobs : Places(j) = 1
<1> SUFFICES ASSUME Init PROVE JobInv /\ \A j \in Jobs : Places(j) = 1
  OBVIOUS
<1>1. IInv
  BY InitKeepsAll
<1>2. FedInOrder /\ FedAll /\ ShutLast /\ Idle /\ Completed
  BY DEF Init, FedInOrder, OnlySentinels, FedAll, ShutLast, Idle, Completed
<1>3. \A j \in Jobs : Places(j) = 1
  <2>1. SUFFICES ASSUME NEW j \in Jobs PROVE Places(j) = 1
    OBVIOUS
  <2>2. HoldersOf(j) = {} /\ Positions(channel, j) = {} /\ {i \in DOMAIN parseQueue : parseQueue[i] = j} = {}
    BY DEF Init, HoldersOf, Positions, At
  <2>3. recorded[j] = 0 /\ Ind(j, source) = 1
    BY DEF Init, Ind
  <2>4. Cardinality({}) = 0
    BY FS_EmptySet
  <2>5. Cardinality(HoldersOf(j)) = 0 /\ Cardinality(Positions(channel, j)) = 0 /\ CountIn(parseQueue, j) = 0
    BY <2>2, <2>4 DEF CountIn
  <2>6. QED
    BY <1>1, <2>3, <2>5, PlacesAre DEF IInv
<1>4. JobTally
  <2>1. Cardinality({}) = finished
    BY FS_EmptySet DEF Init
  <2>2. QED
    BY <1>3, <2>1 DEF JobTally
<1>5. JobOnce
  BY <1>3 DEF JobOnce
<1>6. QED
  BY <1>1, <1>2, <1>3, <1>4, <1>5 DEF JobInv

LEMMA NextKeepsJobs == JobInv /\ [Next]_vars => JobInv'
<1> SUFFICES ASSUME JobInv, [Next]_vars PROVE JobInv'
  OBVIOUS
<1>1. IInv /\ TypeOK /\ FedInOrder /\ FedAll /\ ShutLast /\ Idle /\ Completed
  BY DEF JobInv, IInv
<1>2. IInv' /\ TypeOK'
  BY <1>1, NextKeepsAll DEF IInv
<1>3. FedInOrder' /\ FedAll' /\ ShutLast' /\ Idle' /\ Completed'
  BY <1>1, FedInOrderKept, FedAllKept, ShutLastKept, IdleKept, CompletedKept
<1>4. JobOnce'
  <2>1. SUFFICES ASSUME NEW j \in Jobs PROVE Places(j)' <= 1
    BY DEF JobOnce
  <2>2. Places(j)' \in Nat /\ Places(j)' <= Places(j)
    BY <1>2, JobMoves
  <2>3. Places(j) <= 1 /\ Places(j) \in Nat
    BY <1>1, PlacesAre DEF JobInv, JobOnce
  <2>4. QED
    BY <2>2, <2>3
<1>5. JobTally'
  BY <1>2, JobTallyKept
<1>6. QED
  BY <1>2, <1>3, <1>4, <1>5 DEF JobInv

\* A job is never doubled: it is in one place at most, and so its results are
\* recorded at most once, whatever fails and whoever dies.
THEOREM NoJobIsDoubled == Spec => []JobOnce
<1>1. JobInv => JobOnce
  BY DEF JobInv
<1>2. QED
  BY <1>1, InitKeepsJobs, NextKeepsJobs, PTL DEF Spec

Failing(c) == \E i \in DOMAIN c : c[i] = "error"

LEMMA ErrorsCounted ==
    ASSUME NEW ch \in [Workers -> Seq(Items)]
    PROVE  Cardinality(Positions(ch, "error")) > 0 <=> \E w \in Workers : Failing(ch[w])
<1>1. IsFiniteSet(Positions(ch, "error")) /\ Cardinality(Positions(ch, "error")) \in Nat
  BY PositionsFinite
<1>2. Positions(ch, "error") = {} <=> ~ \E w \in Workers : Failing(ch[w])
  <2>1. \A w \in Workers : At(ch, w, "error") = {} <=> ~Failing(ch[w])
    <3>1. SUFFICES ASSUME NEW w \in Workers PROVE At(ch, w, "error") = {} <=> ~Failing(ch[w])
      OBVIOUS
    <3>2. \A i : <<w, i>> \in At(ch, w, "error") <=> i \in DOMAIN ch[w] /\ ch[w][i] = "error"
      BY DEF At
    <3>3. \A p \in At(ch, w, "error") : \E i : p = <<w, i>>
      BY DEF At
    <3>4. QED
      BY <3>2, <3>3 DEF Failing
  <2>2. Positions(ch, "error") = {} <=> \A w \in Workers : At(ch, w, "error") = {}
    BY DEF Positions
  <2>3. QED
    BY <2>1, <2>2
<1>3. Cardinality(Positions(ch, "error")) = 0 <=> Positions(ch, "error") = {}
  BY <1>1, FS_EmptySet
<1>4. QED
  BY <1>1, <1>2, <1>3

\* Unless the scan is cancelled a failure that is on its way stays there, if
\* no worker dies at work.
LEMMA FailureStays ==
    ASSUME JobInv, [Next]_vars, Deaths \subseteq {"starting", "waiting"}, ~cancelled',
           NEW w \in Workers, Failing(channel[w])
    PROVE  Failing(channel'[w])
<1> DEFINE c == channel[w]
           d == channel'[w]
<1>1. /\ TypeOK /\ ~cancelled /\ c \in Seq(Items) /\ channel \in [Workers -> Seq(Items)] /\ c # <<>>
      /\ Fits(state[w], c, held[w]) /\ "error" \in Items /\ "error" \notin Jobs
  BY FedAllKept, JobsAssumption DEF JobInv, IInv, TypeOK, Items, Control, Orderly, Failing
<1>2. ASSUME NEW x \in Items, d = Append(c, x) PROVE Failing(d)
  <2>1. \A i \in DOMAIN c : i \in DOMAIN d /\ d[i] = c[i]
    BY <1>1, <1>2, FitsAppend
  <2>2. QED
    BY <2>1 DEF Failing
<1>3. ASSUME d = Tail(c), Head(c) # "error" PROVE Failing(d)
  <2>1. PICK i \in DOMAIN c : c[i] = "error"
    BY DEF Failing
  <2>2. i - 1 \in DOMAIN d /\ d[i - 1] = c[i]
    BY <1>1, <1>3, <2>1, EmptySeq, HeadTailProperties
  <2>3. QED
    BY <2>1, <2>2 DEF Failing
<1>4. shutdown = "no"
  BY <1>1, NothingLeft DEF JobInv, ShutLast
<1>5. ASSUME NEW v \in Workers, Collect(v) PROVE Failing(d)
  <2>1. /\ channel[v] # <<>> /\ channel' = [channel EXCEPT ![v] = Tail(@)] /\ Head(channel[v]) # "error"
    BY <1>1, <1>5 DEF Collect, CollectReady, CollectResult, CollectComplete, CollectorFails, Receive, CancelTasks
  <2>2. QED
    BY <1>1, <1>3, <2>1
<1>6. ASSUME NEW v \in Workers, NEW x \in Items, Put(v, x) PROVE Failing(d)
  BY <1>1, <1>2, <1>6 DEF Put
<1>7. ASSUME NEW v \in Workers, Initialize(v) \/ Report(v) \/ Finish(v) \/ StopWork(v) \/ WorkFails(v)
      PROVE  Failing(d)
  <2>1. \E x \in Items : Put(v, x)
    BY <1>1, <1>7 DEF Initialize, Report, Finish, StopWork, WorkFails, EndWork, Items, Control, TypeOK
  <2>2. QED
    BY <1>6, <2>1
<1>8. ASSUME NEW v \in Workers, Die(v) PROVE Failing(d)
  <2>1. v # w
    BY <1>1, <1>8 DEF Die, JobInv, Idle, Failing
  <2>2. QED
    BY <1>1, <1>8, <2>1 DEF Die
<1>9. QED
  BY <1>4, <1>5, <1>7, <1>8
  DEF Next, Producing, Feed, StopFeeding, PutSentinel, EndProducer, Interrupt, ShuttingDown, Signal,
      StopJoining, CleanUp, DrainParseQueue, DrainUpstream, WorkerStep, Start, Arm, Take, Exit, Over, vars

\* While nothing has failed no job is lost.
Unharmed == (~cancelled /\ \A w \in Workers : ~Failing(channel[w])) => \A j \in Jobs : Places(j) = 1

LEMMA UnharmedKept ==
    ASSUME JobInv, JobInv', [Next]_vars, Deaths \subseteq {"starting", "waiting"}, Unharmed
    PROVE  Unharmed'
<1>1. SUFFICES ASSUME ~cancelled', \A w \in Workers : ~Failing(channel'[w]), NEW j \in Jobs
               PROVE  Places(j)' = 1
  BY DEF Unharmed
<1>2. IInv /\ TypeOK /\ TypeOK' /\ ~cancelled
  BY <1>1, FedAllKept DEF JobInv, IInv
<1>3. Places(j) = 1
  BY <1>1, <1>2, FailureStays DEF Unharmed
<1>4. \A w \in Workers : ~Loses(w)
  <2>1. SUFFICES ASSUME NEW w \in Workers, Loses(w) PROVE FALSE
    OBVIOUS
  <2>2. WorkFails(w)
    BY <2>1 DEF Loses, Die, Ended
  <2>3. channel[w] \in Seq(Items) /\ "error" \in Items /\ channel'[w] = Append(channel[w], "error")
    BY <1>2, <2>2 DEF WorkFails, EndWork, Put, TypeOK, Items, Control
  <2>4. Failing(channel'[w])
    <3>1. /\ Len(channel[w]) + 1 \in DOMAIN Append(channel[w], "error")
          /\ Append(channel[w], "error")[Len(channel[w]) + 1] = "error"
      BY <2>3, FitsAppend
    <3>2. QED
      BY <2>3, <3>1 DEF Failing
  <2>5. QED
    BY <1>1, <2>4
<1>5. QED
  BY <1>1, <1>2, <1>3, <1>4, JobMoves

\* If no process dies with work in hand, a job is lost only when the scan fails
\* or is interrupted.
THEOREM NoJobIsLostOrDoubled ==
    ASSUME Deaths \subseteq {"starting", "waiting"}
    PROVE  Spec => []NoJobLostOrDoubled
<1>1. Init => JobInv /\ Unharmed
  BY InitKeepsJobs DEF Unharmed
<1>2. JobInv /\ Unharmed /\ [Next]_vars => (JobInv /\ Unharmed)'
  BY NextKeepsJobs, UnharmedKept
<1>3. JobInv /\ Unharmed => NoJobLostOrDoubled
  <2> SUFFICES ASSUME JobInv, Unharmed, NEW j \in Jobs
               PROVE  IF cancelled \/ OnChannels("error") > 0 THEN Places(j) <= 1 ELSE Places(j) = 1
    BY DEF NoJobLostOrDoubled
  <2>1. channel \in [Workers -> Seq(Items)]
    BY DEF JobInv, IInv, TypeOK, Items
  <2>2. OnChannels("error") = Cardinality(Positions(channel, "error"))
    BY DEF OnChannels, Positions, At
  <2>3. OnChannels("error") > 0 <=> \E w \in Workers : Failing(channel[w])
    BY <2>1, <2>2, ErrorsCounted
  <2>4. QED
    BY <2>3 DEF Unharmed, JobInv, JobOnce
<1>4. QED
  BY <1>1, <1>2, <1>3, PTL DEF Spec

-----------------------------------------------------------------------------
(* The contract of a strategy *)

LEMMA RecordedOnce ==
    ASSUME JobInv, NEW v \in Workers, CollectResult(v)
    PROVE  shutdown = "no" /\ \E j \in Jobs : recorded[j] = 0 /\ recorded' = [recorded EXCEPT ![j] = 1]
<1> DEFINE j == Head(channel[v])
<1>1. /\ TypeOK /\ channel \in [Workers -> Seq(Items)] /\ recorded \in [Jobs -> Nat]
      /\ channel[v] \in Seq(Items) /\ channel[v] # <<>> /\ j \in Jobs
      /\ recorded' = [recorded EXCEPT ![j] = @ + 1] /\ shutdown = "no" /\ Places(j) <= 1
  BY DEF JobInv, IInv, TypeOK, Items, CollectResult, Receive, ShutLast, JobOnce
<1> HIDE DEF j
<1>2. CountIn(channel[v], j) >= 1
  <2>1. CountIn(channel[v], j) = CountIn(Tail(channel[v]), j) + Ind(j, {j})
    BY <1>1, PoppedCount DEF j
  <2>2. CountIn(Tail(channel[v]), j) \in Nat /\ Ind(j, {j}) = 1
    BY <1>1, CountFinite, HeadTailProperties DEF Ind
  <2>3. QED
    BY <2>1, <2>2
<1>3. Cardinality(Positions(channel, j)) >= 1
  <2>1. /\ Others(channel, v, j) \in Nat /\ CountIn(channel[v], j) \in Nat
        /\ Cardinality(Positions(channel, j)) = Others(channel, v, j) + CountIn(channel[v], j)
    BY <1>1, OwnAndOthers
  <2>2. QED
    BY <1>2, <2>1
<1>4. recorded[j] = 0
  <2>1. /\ Places(j) = recorded[j] + Ind(j, source) + CountIn(parseQueue, j)
                         + Cardinality(HoldersOf(j)) + Cardinality(Positions(channel, j))
        /\ recorded[j] \in Nat /\ Ind(j, source) \in Nat /\ CountIn(parseQueue, j) \in Nat
        /\ Cardinality(HoldersOf(j)) \in Nat /\ Cardinality(Positions(channel, j)) \in Nat
    BY <1>1, PlacesAre
  <2>2. QED
    BY <1>1, <1>3, <2>1
<1>5. recorded' = [recorded EXCEPT ![j] = 1]
  <2>1. recorded' = [recorded EXCEPT ![j] = recorded[j] + 1]
    BY <1>1
  <2>2. QED
    BY <1>4, <2>1
<1>6. QED
  BY <1>1, <1>4, <1>5

\* When the strategy returns every job has been recorded.
LEMMA ReturnsWithAll ==
    ASSUME JobInv, shutdown # "no", ~cancelled, NEW j \in Jobs
    PROVE  recorded[j] = 1
<1>1. /\ TypeOK /\ producer = "done" /\ collector = "done" /\ source = {}
      /\ parseQueue \in Seq(Jobs \cup {NoMoreJobs}) /\ j # NoMoreJobs
  BY JobsAssumption DEF JobInv, IInv, ShutLast, FedAll, TypeOK
<1>2. /\ OnlySentinels /\ Places(j) = 1
      /\ \A w \in Workers : channel[w] = <<>> /\ held[w] = {}
  BY <1>1, NothingLeft
<1>3. HoldersOf(j) = {} /\ Positions(channel, j) = {} /\ {i \in DOMAIN parseQueue : parseQueue[i] = j} = {}
  BY <1>1, <1>2 DEF HoldersOf, Positions, At, OnlySentinels
<1>4. Cardinality({}) = 0
  BY FS_EmptySet
<1>5. /\ Cardinality(HoldersOf(j)) = 0 /\ Cardinality(Positions(channel, j)) = 0
      /\ CountIn(parseQueue, j) = 0 /\ Ind(j, source) = 0
  BY <1>1, <1>3, <1>4 DEF CountIn, Ind
<1>6. QED
  BY <1>1, <1>2, <1>5, PlacesAre

LEMMA StepKeepsContract ==
    JobInv /\ [Next]_vars => [Strategy!StrategyNext]_(Strategy!strategyVars)
<1> SUFFICES ASSUME JobInv, [Next]_vars
             PROVE  Strategy!StrategyNext \/ UNCHANGED Strategy!strategyVars
  OBVIOUS
<1> DEFINE Kept == Strategy!StrategyNext \/ UNCHANGED Strategy!strategyVars
<1>1. ASSUME UNCHANGED <<recorded, cancelled, shutdown>> PROVE Kept
  BY <1>1 DEF Strategy!strategyVars
<1>2. ASSUME UNCHANGED recorded, shutdown # "over", shutdown' # "over" PROVE Kept
  BY <1>2 DEF Strategy!strategyVars
<1>3. ASSUME NEW v \in Workers, CollectResult(v) PROVE Kept
  <2>1. PICK j \in Jobs : recorded[j] = 0 /\ recorded' = [recorded EXCEPT ![j] = 1] /\ shutdown = "no"
    BY <1>3, RecordedOnce
  <2>2. UNCHANGED <<cancelled, shutdown>>
    BY <1>3 DEF CollectResult
  <2>3. Strategy!Record(j)
    BY <2>1, <2>2 DEF Strategy!Record
  <2>4. QED
    BY <2>3 DEF Strategy!StrategyNext
<1>4. ASSUME CleanUp PROVE Kept
  <2>1. shutdown = "killing" /\ shutdown' = "over" /\ UNCHANGED <<recorded, cancelled>>
    BY <1>4 DEF CleanUp, ShutdownUnchanged
  <2>2. CASE cancelled
    BY <2>1, <2>2 DEF Strategy!StrategyNext, Strategy!Raise
  <2>3. CASE ~cancelled
    <3>1. \A j \in Jobs : recorded[j] = 1
      BY <2>1, <2>3, ReturnsWithAll
    <3>2. Strategy!Return
      BY <2>1, <2>3, <3>1 DEF Strategy!Return
    <3>3. QED
      BY <3>2 DEF Strategy!StrategyNext
  <2>4. QED
    BY <2>2, <2>3
<1>5. ASSUME StopFeeding \/ EndProducer \/ Interrupt \/ Signal \/ StopJoining PROVE Kept
  <2>1. UNCHANGED recorded /\ shutdown # "over" /\ shutdown' # "over"
    BY <1>5 DEF StopFeeding, EndProducer, Interrupt, Signal, StopJoining, ShutdownUnchanged, JobInv, ShutLast
  <2>2. QED
    BY <1>2, <2>1
<1>6. ASSUME NEW v \in Workers, CollectorFails(v) PROVE Kept
  <2>1. UNCHANGED recorded /\ shutdown # "over" /\ shutdown' # "over"
    BY <1>6 DEF CollectorFails, Receive, JobInv, ShutLast
  <2>2. QED
    BY <1>2, <2>1
<1> HIDE DEF Kept
<1>7. Kept
  BY <1>1, <1>3, <1>4, <1>5, <1>6
  DEF Next, Producing, Feed, PutSentinel, ShuttingDown, DrainParseQueue, Collect, CollectReady,
      CollectComplete, DrainUpstream, WorkerStep, Initialize, Start, Arm, Take, Report, Finish, StopWork,
      Exit, WorkFails, EndWork, Die, Over, vars, mainVars
<1>8. QED
  BY <1>7 DEF Kept

\* The contract of a strategy, safety part: whatever fails and whoever dies, the
\* multi-process strategy records a job at most once and returns only when all
\* of them are recorded.  (That it comes to an end, the rest of
\* ImplementsStrategy, is liveness.)
THEOREM ProcessesKeepTheContract ==
    Spec => Strategy!StrategyInit /\ [][Strategy!StrategyNext]_(Strategy!strategyVars)
<1>1. Init => Strategy!StrategyInit
  BY DEF Init, Strategy!StrategyInit
<1>2. QED
  BY <1>1, InitKeepsJobs, NextKeepsJobs, StepKeepsContract, PTL DEF Spec
=============================================================================
