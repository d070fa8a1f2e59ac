--------------------------- MODULE ScanPoolProofs ---------------------------
(***************************************************************************)
(* Theorems of ScanPool, for any finite set of workers, any transcripts    *)
(* and scanners and any queue limit: of the workers' numbers and exits,    *)
(* and of the pairs, of which none is lost or doubled; the deque is        *)
(* bounded, and the pool takes no step that the contract does not allow.   *)
(***************************************************************************)
EXTENDS ScanPool, Counting

-----------------------------------------------------------------------------
(* Populations *)

\* How many workers f places in the given places; Population is PopOf(pc, _).
PopOf(f, places) == Cardinality({w \in Workers : f[w] \in places})

\* The functions pc may be.
Placements == [Workers -> PC]

\* g is f with worker w moved to c.
Moves(f, g, w, c) == g = [f EXCEPT ![w] = c]

\* Moving one worker changes a population by that worker alone.
LEMMA PopUpdate ==
    ASSUME NEW f \in Placements, NEW w \in Workers, NEW c \in PC,
           NEW g, Moves(f, g, w, c), NEW places
    PROVE  /\ PopOf(f, places) \in Nat
           /\ PopOf(f, places) >= Ind(f[w], places)
           /\ PopOf(g, places) = PopOf(f, places) + Ind(c, places) - Ind(f[w], places)
<1> DEFINE F == {v \in Workers : f[v] \in places}
           G == {v \in Workers : g[v] \in places}
<1>1. IsFiniteSet(F) /\ IsFiniteSet(G)
  BY FS_Subset, WorkersAssumption
<1>2. /\ G \ {w} = F \ {w}
      /\ w \in F <=> f[w] \in places
      /\ w \in G <=> c \in places
  BY DEF Moves, Placements
<1>3. PopOf(f, places) = Cardinality(F) /\ PopOf(g, places) = Cardinality(G)
  BY DEF PopOf
<1> HIDE DEF F, G
<1>4. /\ Cardinality(F) \in Nat /\ Cardinality(F \ {w}) \in Nat
      /\ Cardinality(F) = Cardinality(F \ {w}) + (IF w \in F THEN 1 ELSE 0)
  BY <1>1, CountWithout
<1>5. /\ Cardinality(G) \in Nat /\ Cardinality(G \ {w}) \in Nat
      /\ Cardinality(G) = Cardinality(G \ {w}) + (IF w \in G THEN 1 ELSE 0)
  BY <1>1, CountWithout
<1>6. Cardinality(G \ {w}) = Cardinality(F \ {w})
  BY <1>2, Zenon
<1>7. /\ w \in F <=> f[w] \in places
      /\ w \in G <=> c \in places
  BY <1>2
<1>8. QED
  BY <1>3, <1>4, <1>5, <1>6, <1>7 DEF Ind

-----------------------------------------------------------------------------
(* The deque *)

\* SetToSeq lists the elements of a finite set, each once.
LEMMA SetToSeqLists ==
    ASSUME NEW S, IsFiniteSet(S)
    PROVE  /\ SetToSeq(S) \in Seq(S)
           /\ Len(SetToSeq(S)) = Cardinality(S)
           /\ \A x \in S : \E i \in 1 .. Len(SetToSeq(S)) : SetToSeq(S)[i] = x
           /\ \A i, k \in 1 .. Len(SetToSeq(S)) :
                 SetToSeq(S)[i] = SetToSeq(S)[k] => i = k
<1> DEFINE n == Cardinality(S)
<1>1. n \in Nat /\ ExistsBijection(1..n, S)
  BY FS_CardinalityType
<1>2. PICK b : b \in Bijection(1..n, S)
  BY <1>1 DEF ExistsBijection
<1>3. b \in [1..n -> S] /\ IsInjective(b)
  BY <1>2 DEF Bijection, Injection
<1>4. SetToSeq(S) \in [1..n -> S] /\ IsInjective(SetToSeq(S))
  BY <1>2, <1>3 DEF SetToSeq
<1>5. SetToSeq(S) \in Seq(S) /\ Len(SetToSeq(S)) = n
  BY <1>1, <1>4
<1>6. SetToSeq(S) \in Surjection(1..n, S)
  <2>1. IsFiniteSet(1..n) /\ Cardinality(1..n) = n
    BY <1>1, FS_Interval
  <2>2. SetToSeq(S) \in Injection(1..n, S)
    BY <1>4 DEF Injection
  <2>3. QED
    BY <2>1, <2>2, FS_Injection
<1>7. \A x \in S : \E i \in 1..n : SetToSeq(S)[i] = x
  BY <1>4, <1>6 DEF Surjection
<1>8. \A i, k \in 1..n : SetToSeq(S)[i] = SetToSeq(S)[k] => i = k
  BY <1>4 DEF IsInjective
<1>9. QED
  BY <1>5, <1>7, <1>8

-----------------------------------------------------------------------------
(* The counters *)

\* Counters m that count every worker but w, which is between two operations
\* and, being alive, still part of task_count.
ExactBut(w, m) ==
    /\ m \in Metrics
    /\ m.count = Population(Alive)
    /\ m.parsing = Population(Parsing) - Ind(pc[w], Parsing)
    /\ m.scanning = Population(Scanning) - Ind(pc[w], Scanning)
    /\ ~cancelled => m.idle = Population(Idle) - Ind(pc[w], Idle)

\* The part of TypeOK an operation's end can disturb.
EndTypeOK ==
    /\ pc \in [Workers -> PC]
    /\ hold \in [Workers -> SUBSET Wanted]
    /\ queue \in Seq(Wanted)
    /\ metrics \in Metrics

\* What a step of w does to one population.
LEMMA MovePopulation ==
    ASSUME pc \in Placements, NEW w \in Workers, NEW c \in PC,
           Moves(pc, pc', w, c), NEW places
    PROVE  /\ Population(places) \in Nat
           /\ Population(places) >= Ind(pc[w], places)
           /\ Population(places)' = Population(places) + Ind(c, places) - Ind(pc[w], places)
<1>1. Population(places) = PopOf(pc, places) /\ Population(places)' = PopOf(pc', places)
  BY DEF Population, PopOf
<1>2. /\ PopOf(pc, places) \in Nat
      /\ PopOf(pc, places) >= Ind(pc[w], places)
      /\ PopOf(pc', places) = PopOf(pc, places) + Ind(c, places) - Ind(pc[w], places)
  BY PopUpdate
<1>3. QED
  BY <1>1, <1>2, Zenon

\* What a step of a live worker does to the four populations.
LEMMA MoveCounts ==
    ASSUME pc \in Placements, NEW w \in Workers, NEW c \in PC,
           Moves(pc, pc', w, c), pc[w] # "done"
    PROVE  /\ Population(Alive) \in Nat /\ Population(Alive) > 0
           /\ Population(Alive)' = Population(Alive) - Ind(c, {"done"})
           /\ \A places \in {Parsing, Scanning, Idle} :
                /\ Population(places) \in Nat
                /\ Ind(pc[w], places) \in Nat
                /\ Population(places) >= Ind(pc[w], places)
                /\ Population(places)' =
                     Population(places) + Ind(c, places) - Ind(pc[w], places)
<1>1. Ind(pc[w], Alive) = 1 /\ Ind(c, Alive) = 1 - Ind(c, {"done"})
  BY DEF Alive, PC, Ind, Placements
<1>2. /\ Population(Alive) \in Nat
      /\ Population(Alive) >= Ind(pc[w], Alive)
      /\ Population(Alive)' = Population(Alive) + Ind(c, Alive) - Ind(pc[w], Alive)
  BY MovePopulation, Zenon
<1>3. ASSUME NEW places
      PROVE  /\ Population(places) \in Nat
             /\ Ind(pc[w], places) \in Nat
             /\ Population(places) >= Ind(pc[w], places)
             /\ Population(places)' =
                  Population(places) + Ind(c, places) - Ind(pc[w], places)
  <2>1. Ind(pc[w], places) \in Nat
    BY DEF Ind
  <2>2. QED
    BY <2>1, MovePopulation, Zenon
<1>4. /\ Population(Alive) > 0
      /\ Population(Alive)' = Population(Alive) - Ind(c, {"done"})
  <2>1. Ind(c, {"done"}) \in Nat
    BY DEF Ind
  <2>2. QED
    BY <1>1, <1>2, <2>1
<1>5. QED
  BY <1>2, <1>3, <1>4, Zenon

\* Starting the next operation counts w where it goes.
LEMMA StartNextCounts ==
    ASSUME TypeOK, NEW w \in Workers, NEW q \in Seq(Wanted), NEW exh \in BOOLEAN,
           NEW m, ExactBut(w, m), pc[w] # "done", cancelled' = cancelled,
           StartNext(w, q, exh, m)
    PROVE  EndTypeOK' /\ CountersExact'
<1>1. /\ pc \in Placements /\ pc \in [Workers -> PC]
      /\ hold \in [Workers -> SUBSET Wanted]
  BY DEF TypeOK, Placements
<1>2. m \in [count : Nat, idle : Nat, parsing : Nat, scanning : Nat]
  BY DEF ExactBut, Metrics
<1>3. CASE Choose(Len(q), exh, m.parsing) = "parse"
  <2>1. /\ pc' = [pc EXCEPT ![w] = "locking"]
        /\ hold' = [hold EXCEPT ![w] = {}] /\ queue' = q /\ metrics' = m
    BY <1>3 DEF StartNext
  <2>2. "locking" \in PC /\ Moves(pc, pc', w, "locking")
    BY <2>1 DEF PC, Moves
  <2>3. /\ Ind("locking", {"done"}) = 0 /\ Ind("locking", Parsing) = 0
        /\ Ind("locking", Scanning) = 0 /\ Ind("locking", Idle) = 0
    BY DEF Ind, Parsing, Scanning, Idle
  <2>4. EndTypeOK'
    BY <1>1, <1>2, <2>1, <2>2 DEF EndTypeOK, Metrics
  <2>5. /\ Population(Alive) \in Nat /\ Population(Alive)' = Population(Alive) - 0
        /\ Population(Parsing)' = Population(Parsing) + 0 - Ind(pc[w], Parsing)
        /\ Population(Scanning)' = Population(Scanning) + 0 - Ind(pc[w], Scanning)
        /\ Population(Idle)' = Population(Idle) + 0 - Ind(pc[w], Idle)
        /\ \A places \in {Parsing, Scanning, Idle} :
              Population(places) \in Nat /\ Ind(pc[w], places) \in Nat
    BY <1>1, <2>2, <2>3, MoveCounts, Zenon
  <2>6. CountersExact'
    BY <2>1, <2>5 DEF CountersExact, ExactBut
  <2>7. QED
    BY <2>4, <2>6
<1>4. CASE Choose(Len(q), exh, m.parsing) = "scan"
  <2>1. /\ pc' = [pc EXCEPT ![w] = "scanning"]
        /\ hold' = [hold EXCEPT ![w] = {Head(q)}] /\ queue' = Tail(q)
        /\ metrics' = [m EXCEPT !.scanning = @ + 1]
    BY <1>4 DEF StartNext, Popped
  <2>2. "scanning" \in PC /\ Moves(pc, pc', w, "scanning")
    BY <2>1 DEF PC, Moves
  <2>3. /\ Ind("scanning", {"done"}) = 0 /\ Ind("scanning", Parsing) = 0
        /\ Ind("scanning", Scanning) = 1 /\ Ind("scanning", Idle) = 0
    BY DEF Ind, Parsing, Scanning, Idle
  <2>4. q # <<>>
    BY <1>4, MaxQueueAssumption, EmptySeq DEF Choose, WorthParsing
  <2>5. Head(q) \in Wanted /\ Tail(q) \in Seq(Wanted)
    BY <2>4, HeadTailProperties
  <2>6. EndTypeOK'
    BY <1>1, <1>2, <2>1, <2>2, <2>5 DEF EndTypeOK, Metrics
  <2>7. /\ Population(Alive) \in Nat /\ Population(Alive)' = Population(Alive) - 0
        /\ Population(Parsing)' = Population(Parsing) + 0 - Ind(pc[w], Parsing)
        /\ Population(Scanning)' = Population(Scanning) + 1 - Ind(pc[w], Scanning)
        /\ Population(Idle)' = Population(Idle) + 0 - Ind(pc[w], Idle)
        /\ \A places \in {Parsing, Scanning, Idle} :
              Population(places) \in Nat /\ Ind(pc[w], places) \in Nat
    BY <1>1, <2>2, <2>3, MoveCounts, Zenon
  <2>8. CountersExact'
    BY <1>2, <2>1, <2>7 DEF CountersExact, ExactBut
  <2>9. QED
    BY <2>6, <2>8
<1>5. CASE Choose(Len(q), exh, m.parsing) = "wait"
  <2>1. /\ pc' = [pc EXCEPT ![w] = "waiting"]
        /\ hold' = [hold EXCEPT ![w] = {}] /\ queue' = q
        /\ metrics' = [m EXCEPT !.idle = @ + 1]
    BY <1>5 DEF StartNext
  <2>2. "waiting" \in PC /\ Moves(pc, pc', w, "waiting")
    BY <2>1 DEF PC, Moves
  <2>3. /\ Ind("waiting", {"done"}) = 0 /\ Ind("waiting", Parsing) = 0
        /\ Ind("waiting", Scanning) = 0 /\ Ind("waiting", Idle) = 1
    BY DEF Ind, Parsing, Scanning, Idle
  <2>4. EndTypeOK'
    BY <1>1, <1>2, <2>1, <2>2 DEF EndTypeOK, Metrics
  <2>5. /\ Population(Alive) \in Nat /\ Population(Alive)' = Population(Alive) - 0
        /\ Population(Parsing)' = Population(Parsing) + 0 - Ind(pc[w], Parsing)
        /\ Population(Scanning)' = Population(Scanning) + 0 - Ind(pc[w], Scanning)
        /\ Population(Idle)' = Population(Idle) + 1 - Ind(pc[w], Idle)
        /\ \A places \in {Parsing, Scanning, Idle} :
              Population(places) \in Nat /\ Ind(pc[w], places) \in Nat
    BY <1>1, <2>2, <2>3, MoveCounts, Zenon
  <2>6. CountersExact'
    BY <1>2, <2>1, <2>5 DEF CountersExact, ExactBut
  <2>7. QED
    BY <2>4, <2>6
<1>6. QED
  BY <1>3, <1>4, <1>5 DEF StartNext

\* Ending an iteration counts w where it goes, or takes it out of task_count.
LEMMA EndIterationCounts ==
    ASSUME TypeOK, NEW w \in Workers, NEW q \in Seq(Wanted), NEW exh \in BOOLEAN,
           NEW m, ExactBut(w, m), pc[w] # "done", cancelled' = cancelled,
           EndIteration(w, q, exh, m)
    PROVE  EndTypeOK' /\ exhausted' \in BOOLEAN /\ CountersExact'
<1>1. CASE ~MayLeave(q, exh, m)
  <2>1. StartNext(w, q, exh, m) /\ exhausted' = exh
    BY <1>1 DEF EndIteration
  <2>2. QED
    BY <2>1, StartNextCounts
<1>2. CASE MayLeave(q, exh, m)
  <2>1. /\ pc' = [pc EXCEPT ![w] = "done"]
        /\ hold' = [hold EXCEPT ![w] = {}] /\ queue' = q
        /\ metrics' = [m EXCEPT !.count = @ - 1]
        /\ exhausted' = exh
    BY <1>2 DEF EndIteration
  <2>2. /\ pc \in Placements /\ pc \in [Workers -> PC]
        /\ hold \in [Workers -> SUBSET Wanted]
    BY DEF TypeOK, Placements
  <2>3. m \in [count : Nat, idle : Nat, parsing : Nat, scanning : Nat]
    BY DEF ExactBut, Metrics
  <2>4. "done" \in PC /\ Moves(pc, pc', w, "done")
    BY <2>1 DEF PC, Moves
  <2>5. /\ Ind("done", {"done"}) = 1 /\ Ind("done", Parsing) = 0
        /\ Ind("done", Scanning) = 0 /\ Ind("done", Idle) = 0
    BY DEF Ind, Parsing, Scanning, Idle
  <2>6. /\ Population(Alive) \in Nat /\ Population(Alive) > 0
        /\ Population(Alive)' = Population(Alive) - 1
        /\ Population(Parsing)' = Population(Parsing) + 0 - Ind(pc[w], Parsing)
        /\ Population(Scanning)' = Population(Scanning) + 0 - Ind(pc[w], Scanning)
        /\ Population(Idle)' = Population(Idle) + 0 - Ind(pc[w], Idle)
        /\ \A places \in {Parsing, Scanning, Idle} :
              Population(places) \in Nat /\ Ind(pc[w], places) \in Nat
    BY <2>2, <2>4, <2>5, MoveCounts, Zenon
  <2>7. EndTypeOK'
    <3>1. m.count - 1 \in Nat
      BY <2>3, <2>6 DEF ExactBut
    <3>2. metrics' \in Metrics
      BY <2>1, <2>3, <3>1 DEF Metrics
    <3>3. QED
      BY <2>1, <2>2, <2>4, <3>2 DEF EndTypeOK
  <2>8. CountersExact'
    BY <2>1, <2>3, <2>6 DEF CountersExact, ExactBut
  <2>9. QED
    BY <2>1, <2>7, <2>8
<1>3. QED
  BY <1>1, <1>2

\* The finally blocks take w out of every counter it was in.
LEMMA UnwindCounts ==
    ASSUME TypeOK, CountersExact, NEW w \in Workers, pc[w] # "done",
           cancelled', queue' = queue, Unwind(w)
    PROVE  EndTypeOK' /\ CountersExact'
<1>1. /\ pc \in Placements /\ pc \in [Workers -> PC]
      /\ hold \in [Workers -> SUBSET Wanted] /\ queue \in Seq(Wanted)
  BY DEF TypeOK, Placements
<1>2. /\ pc' = [pc EXCEPT ![w] = "done"]
      /\ hold' = [hold EXCEPT ![w] = {}]
      /\ metrics' = [metrics EXCEPT !.count = @ - 1,
                                    !.parsing = @ - Ind(pc[w], Parsing),
                                    !.scanning = @ - Ind(pc[w], Scanning)]
  <2>1. metrics.parsing \in Nat /\ metrics.scanning \in Nat
    BY DEF TypeOK, Metrics
  <2>2. /\ (IF pc[w] \in Parsing THEN metrics.parsing - 1 ELSE metrics.parsing)
             = metrics.parsing - Ind(pc[w], Parsing)
        /\ (IF pc[w] \in Scanning THEN metrics.scanning - 1 ELSE metrics.scanning)
             = metrics.scanning - Ind(pc[w], Scanning)
    BY <2>1 DEF Ind
  <2>3. QED
    BY <2>2 DEF Unwind, FinallyMetrics
<1>3. metrics \in [count : Nat, idle : Nat, parsing : Nat, scanning : Nat]
  BY DEF TypeOK, Metrics
<1>4. "done" \in PC /\ Moves(pc, pc', w, "done")
  BY <1>2 DEF PC, Moves
<1>5. /\ Ind("done", {"done"}) = 1 /\ Ind("done", Parsing) = 0
      /\ Ind("done", Scanning) = 0
  BY DEF Ind, Parsing, Scanning
<1>6. /\ Population(Alive) \in Nat /\ Population(Alive) > 0
      /\ Population(Alive)' = Population(Alive) - 1
      /\ Population(Parsing)' = Population(Parsing) + 0 - Ind(pc[w], Parsing)
      /\ Population(Scanning)' = Population(Scanning) + 0 - Ind(pc[w], Scanning)
      /\ \A places \in {Parsing, Scanning, Idle} :
            /\ Population(places) \in Nat /\ Ind(pc[w], places) \in Nat
            /\ Population(places) >= Ind(pc[w], places)
  BY <1>1, <1>4, <1>5, MoveCounts, Zenon
<1>7. EndTypeOK'
  <2>1. /\ metrics.count - 1 \in Nat
        /\ metrics.parsing - Ind(pc[w], Parsing) \in Nat
        /\ metrics.scanning - Ind(pc[w], Scanning) \in Nat
    BY <1>3, <1>6 DEF CountersExact
  <2>2. metrics' \in Metrics
    BY <1>2, <1>3, <2>1 DEF Metrics
  <2>3. QED
    BY <1>1, <1>2, <1>4, <2>2 DEF EndTypeOK
<1>8. CountersExact'
  BY <1>2, <1>3, <1>6 DEF CountersExact
<1>9. QED
  BY <1>7, <1>8
-----------------------------------------------------------------------------
(* Type correctness and exact counters *)

Counted == TypeOK /\ CountersExact

\* Nobody is counted anywhere but in task_count at the start, and everybody is
\* in task_count.
LEMMA CountedInit == Init => Counted
<1> SUFFICES ASSUME Init PROVE Counted
  OBVIOUS
<1>1. Cardinality(Workers) \in Nat
  BY WorkersAssumption, FS_CardinalityType
<1>2. TypeOK
  <2>1. metrics \in Metrics
    BY <1>1 DEF Init, Metrics
  <2>2. pc \in [Workers -> PC] /\ hold \in [Workers -> SUBSET Wanted]
    BY DEF Init, PC
  <2>3. queue \in Seq(Wanted) /\ recorded \in [Wanted -> Nat]
    BY EmptySeq DEF Init
  <2>4. QED
    BY <2>1, <2>2, <2>3 DEF Init, TypeOK
<1>3. \A w \in Workers : pc[w] = "new"
  BY DEF Init
<1>4. /\ {w \in Workers : pc[w] \in Alive} = Workers
      /\ {w \in Workers : pc[w] \in Parsing} = {}
      /\ {w \in Workers : pc[w] \in Scanning} = {}
      /\ {w \in Workers : pc[w] \in Idle} = {}
  BY <1>3 DEF Alive, PC, Parsing, Scanning, Idle
<1>5. /\ Population(Alive) = Cardinality(Workers)
      /\ Population(Parsing) = 0 /\ Population(Scanning) = 0 /\ Population(Idle) = 0
  BY <1>4, FS_EmptySet, Zenon DEF Population
<1>6. CountersExact
  BY <1>5 DEF CountersExact, Init
<1>7. QED
  BY <1>2, <1>6 DEF Counted

\* The counters are never below what a worker contributes to them.
LEMMA CountersCover ==
    ASSUME Counted, NEW w \in Workers
    PROVE  /\ metrics.parsing >= Ind(pc[w], Parsing)
           /\ metrics.scanning >= Ind(pc[w], Scanning)
           /\ ~cancelled => metrics.idle >= Ind(pc[w], Idle)
<1>1. pc \in Placements /\ pc[w] \in PC
  BY DEF Counted, TypeOK, Placements
<1>2. Moves(pc, pc, w, pc[w])
  BY <1>1 DEF Moves, Placements
<1>3. ASSUME NEW places PROVE Population(places) >= Ind(pc[w], places)
  <2>1. PopOf(pc, places) >= Ind(pc[w], places)
    BY <1>1, <1>2, PopUpdate
  <2>2. QED
    BY <2>1 DEF Population, PopOf
<1>4. QED
  BY <1>3, Zenon DEF Counted, CountersExact

\* What an operation of w leaves to EndIteration counts everybody else.
LEMMA OperationEnds ==
    ASSUME Counted, NEW w \in Workers
    PROVE  /\ pc[w] \in {"new", "pulling"} => ExactBut(w, metrics)
           /\ pc[w] \in {"parsing", "reporting"} =>
                ExactBut(w, [metrics EXCEPT !.parsing = @ - 1])
           /\ pc[w] = "recording" => ExactBut(w, [metrics EXCEPT !.scanning = @ - 1])
           /\ pc[w] = "waiting" /\ ~cancelled => ExactBut(w, [metrics EXCEPT !.idle = @ - 1])
<1>1. /\ CountersExact
      /\ metrics \in [count : Nat, idle : Nat, parsing : Nat, scanning : Nat]
  BY DEF Counted, TypeOK, Metrics
<1>2. CASE pc[w] \in {"new", "pulling"}
  <2>1. Ind(pc[w], Parsing) = 0 /\ Ind(pc[w], Scanning) = 0 /\ Ind(pc[w], Idle) = 0
    BY <1>2 DEF Ind, Parsing, Scanning, Idle
  <2>2. QED
    BY <1>1, <1>2, <2>1 DEF ExactBut, CountersExact, Metrics
<1>3. CASE pc[w] \in {"parsing", "reporting"}
  <2>1. Ind(pc[w], Parsing) = 1 /\ Ind(pc[w], Scanning) = 0 /\ Ind(pc[w], Idle) = 0
    BY <1>3 DEF Ind, Parsing, Scanning, Idle
  <2>2. metrics.parsing >= 1
    BY <2>1, CountersCover
  <2>3. QED
    BY <1>1, <1>3, <2>1, <2>2 DEF ExactBut, CountersExact, Metrics
<1>4. CASE pc[w] = "recording"
  <2>1. Ind(pc[w], Parsing) = 0 /\ Ind(pc[w], Scanning) = 1 /\ Ind(pc[w], Idle) = 0
    BY <1>4 DEF Ind, Parsing, Scanning, Idle
  <2>2. metrics.scanning >= 1
    BY <2>1, CountersCover
  <2>3. QED
    BY <1>1, <1>4, <2>1, <2>2 DEF ExactBut, CountersExact, Metrics
<1>5. CASE pc[w] = "waiting" /\ ~cancelled
  <2>1. Ind(pc[w], Parsing) = 0 /\ Ind(pc[w], Scanning) = 0 /\ Ind(pc[w], Idle) = 1
    BY <1>5 DEF Ind, Parsing, Scanning, Idle
  <2>2. metrics.idle >= 1
    BY <1>5, <2>1, CountersCover
  <2>3. QED
    BY <1>1, <1>5, <2>1, <2>2 DEF ExactBut, CountersExact, Metrics
<1>6. QED
  BY <1>2, <1>3, <1>4, <1>5

\* Every step keeps the types and the counters.
LEMMA CountedNext == Counted /\ [Next]_vars => Counted'
<1> SUFFICES ASSUME Counted, [Next]_vars PROVE Counted'
  OBVIOUS
<1>1. /\ TypeOK /\ CountersExact
      /\ pc \in Placements /\ pc \in [Workers -> PC]
      /\ hold \in [Workers -> SUBSET Wanted] /\ queue \in Seq(Wanted)
      /\ metrics \in [count : Nat, idle : Nat, parsing : Nat, scanning : Nat]
  BY DEF Counted, TypeOK, Placements, Metrics
<1>2. ASSUME NEW w \in Workers, Begin(w) PROVE Counted'
  <2>1. pc[w] = "new"
    BY <1>2 DEF Begin
  <2>3. ExactBut(w, metrics)
    BY <2>1, OperationEnds
  <2>4. EndTypeOK' /\ CountersExact'
    BY <1>1, <1>2, <2>1, <2>3, StartNextCounts DEF Begin, TypeOK
  <2>5. QED
    BY <1>1, <1>2, <2>4 DEF Begin, Counted, TypeOK, EndTypeOK
<1>3. ASSUME NEW w \in Workers, AcquireIterator(w) PROVE Counted'
  <2>1. /\ pc[w] = "locking" /\ pc' = [pc EXCEPT ![w] = "pulling"]
        /\ metrics' = metrics /\ cancelled' = cancelled
    BY <1>3 DEF AcquireIterator
  <2>2. "pulling" \in PC /\ Moves(pc, pc', w, "pulling") /\ pc[w] # "done"
    BY <2>1 DEF PC, Moves
  <2>3. /\ Ind("pulling", {"done"}) = 0
        /\ Ind("pulling", Parsing) = Ind(pc[w], Parsing)
        /\ Ind("pulling", Scanning) = Ind(pc[w], Scanning)
        /\ Ind("pulling", Idle) = Ind(pc[w], Idle)
    BY <2>1 DEF Ind, Parsing, Scanning, Idle
  <2>4. /\ Population(Alive) \in Nat /\ Population(Alive)' = Population(Alive) - 0
        /\ \A places \in {Parsing, Scanning, Idle} :
              /\ Population(places) \in Nat /\ Ind(pc[w], places) \in Nat
              /\ Population(places)' = Population(places) + Ind("pulling", places)
                                                         - Ind(pc[w], places)
    BY <1>1, <2>2, <2>3, MoveCounts, Zenon
  <2>5. CountersExact'
    BY <1>1, <2>1, <2>3, <2>4 DEF CountersExact
  <2>6. QED
    BY <1>1, <1>3, <2>2, <2>5 DEF AcquireIterator, Counted, TypeOK
<1>4. ASSUME NEW w \in Workers, PullParseJob(w) PROVE Counted'
  <2>1. /\ pc[w] = "pulling" /\ pc' = [pc EXCEPT ![w] = "parsing"]
        /\ metrics' = [metrics EXCEPT !.parsing = @ + 1] /\ cancelled' = cancelled
        /\ \E t \in source : hold' = [hold EXCEPT ![w] = JobsOf(t)]
    BY <1>4 DEF PullParseJob
  <2>2. "parsing" \in PC /\ Moves(pc, pc', w, "parsing") /\ pc[w] # "done"
    BY <2>1 DEF PC, Moves
  <2>3. /\ Ind("parsing", {"done"}) = 0
        /\ Ind("parsing", Parsing) = 1 /\ Ind(pc[w], Parsing) = 0
        /\ Ind("parsing", Scanning) = 0 /\ Ind(pc[w], Scanning) = 0
        /\ Ind("parsing", Idle) = 0 /\ Ind(pc[w], Idle) = 0
    BY <2>1 DEF Ind, Parsing, Scanning, Idle
  <2>4. /\ Population(Alive) \in Nat /\ Population(Alive)' = Population(Alive) - 0
        /\ \A places \in {Parsing, Scanning, Idle} :
              /\ Population(places) \in Nat
              /\ Population(places)' = Population(places) + Ind("parsing", places)
                                                         - Ind(pc[w], places)
    BY <1>1, <2>2, <2>3, MoveCounts, Zenon
  <2>5. CountersExact'
    BY <1>1, <2>1, <2>3, <2>4 DEF CountersExact
  <2>6. hold' \in [Workers -> SUBSET Wanted]
    BY <1>1, <2>1 DEF JobsOf
  <2>7. metrics' \in Metrics
    BY <1>1, <2>1 DEF Metrics
  <2>8. QED
    BY <1>1, <1>4, <2>2, <2>5, <2>6, <2>7 DEF PullParseJob, Counted, TypeOK
<1>5. ASSUME NEW w \in Workers, SourceExhausted(w) PROVE Counted'
  <2>1. pc[w] = "pulling"
    BY <1>5 DEF SourceExhausted
  <2>3. ExactBut(w, metrics)
    BY <2>1, OperationEnds
  <2>4. EndTypeOK' /\ exhausted' \in BOOLEAN /\ CountersExact'
    BY <1>1, <1>5, <2>1, <2>3, EndIterationCounts DEF SourceExhausted
  <2>5. QED
    BY <1>1, <1>5, <2>4 DEF SourceExhausted, Counted, TypeOK, EndTypeOK
<1>6. ASSUME NEW w \in Workers, ParseSucceeds(w) PROVE Counted'
  <2> DEFINE m == [metrics EXCEPT !.parsing = @ - 1]
  <2>1. pc[w] = "parsing" /\ ~cancelled
    BY <1>6 DEF ParseSucceeds
  <2>4. ExactBut(w, m)
    BY <2>1, OperationEnds
  <2>5. queue \o ParsedJobs(w) \in Seq(Wanted)
    <3>1. hold[w] \subseteq Wanted /\ IsFiniteSet(hold[w])
      BY <1>1, WantedAssumption, FS_Subset
    <3>2. ParsedJobs(w) \in Seq(Wanted)
      BY <3>1, SetToSeqLists, SeqMonotonic DEF ParsedJobs
    <3>3. QED
      BY <1>1, <3>2, ConcatProperties
  <2>6. EndTypeOK' /\ exhausted' \in BOOLEAN /\ CountersExact'
    <3> HIDE DEF m
    <3>1. EndIteration(w, queue \o ParsedJobs(w), exhausted, m) /\ cancelled' = cancelled
      BY <1>6 DEF ParseSucceeds, m
    <3>2. exhausted \in BOOLEAN
      BY <1>1 DEF TypeOK
    <3>3. QED
      BY <1>1, <2>1, <2>4, <2>5, <3>1, <3>2, EndIterationCounts
  <2>7. QED
    BY <1>1, <1>6, <2>6 DEF ParseSucceeds, Counted, TypeOK, EndTypeOK
<1>7. ASSUME NEW w \in Workers, ParseFails(w) PROVE Counted'
  <2>1. /\ pc[w] = "parsing" /\ pc' = [pc EXCEPT ![w] = "reporting"]
        /\ metrics' = metrics /\ cancelled' = cancelled
    BY <1>7 DEF ParseFails
  <2>2. "reporting" \in PC /\ Moves(pc, pc', w, "reporting") /\ pc[w] # "done"
    BY <2>1 DEF PC, Moves
  <2>3. /\ Ind("reporting", {"done"}) = 0
        /\ Ind("reporting", Parsing) = Ind(pc[w], Parsing)
        /\ Ind("reporting", Scanning) = Ind(pc[w], Scanning)
        /\ Ind("reporting", Idle) = Ind(pc[w], Idle)
    BY <2>1 DEF Ind, Parsing, Scanning, Idle
  <2>4. /\ Population(Alive) \in Nat /\ Population(Alive)' = Population(Alive) - 0
        /\ \A places \in {Parsing, Scanning, Idle} :
              /\ Population(places) \in Nat /\ Ind(pc[w], places) \in Nat
              /\ Population(places)' = Population(places) + Ind("reporting", places)
                                                         - Ind(pc[w], places)
    BY <1>1, <2>2, <2>3, MoveCounts, Zenon
  <2>5. CountersExact'
    BY <1>1, <2>1, <2>3, <2>4 DEF CountersExact
  <2>6. QED
    BY <1>1, <1>7, <2>2, <2>5 DEF ParseFails, Counted, TypeOK
<1>8. ASSUME NEW w \in Workers, RecordParseError(w) PROVE Counted'
  <2>1. PICK j \in hold[w] : /\ hold' = [hold EXCEPT ![w] = @ \ {j}]
                             /\ recorded' = [recorded EXCEPT ![j] = @ + 1]
    BY <1>8 DEF RecordParseError
  <2>2. hold' \in [Workers -> SUBSET Wanted] /\ recorded' \in [Wanted -> Nat]
    BY <1>1, <2>1 DEF TypeOK
  <2>3. UNCHANGED <<pc, source, exhausted, queue, metrics, cancelled, closed>>
    BY <1>8 DEF RecordParseError
  <2>4. CountersExact'
    BY <1>1, <2>3 DEF CountersExact, Population
  <2>5. QED
    BY <1>1, <2>2, <2>3, <2>4 DEF Counted, TypeOK
<1>9. ASSUME NEW w \in Workers, RecordLastParseError(w) PROVE Counted'
  <2> DEFINE m == [metrics EXCEPT !.parsing = @ - 1]
  <2>1. pc[w] = "reporting" /\ ~cancelled
    BY <1>9 DEF RecordLastParseError
  <2>4. ExactBut(w, m)
    BY <2>1, OperationEnds
  <2>5. queue \in Seq(Wanted)
    BY <1>1
  <2>6. EndTypeOK' /\ exhausted' \in BOOLEAN /\ CountersExact'
    <3> HIDE DEF m
    <3>1. EndIteration(w, queue, exhausted, m) /\ cancelled' = cancelled
      BY <1>9 DEF RecordLastParseError, m
    <3>2. exhausted \in BOOLEAN
      BY <1>1 DEF TypeOK
    <3>3. QED
      BY <1>1, <2>1, <2>4, <2>5, <3>1, <3>2, EndIterationCounts
  <2>7. recorded' \in [Wanted -> Nat]
    BY <1>1, <1>9 DEF RecordLastParseError, TypeOK
  <2>8. QED
    BY <1>1, <1>9, <2>6, <2>7 DEF RecordLastParseError, Counted, TypeOK, EndTypeOK
<1>10. ASSUME NEW w \in Workers, ScanReturns(w) PROVE Counted'
  <2>1. /\ pc[w] = "scanning" /\ pc' = [pc EXCEPT ![w] = "recording"]
        /\ metrics' = metrics /\ cancelled' = cancelled
    BY <1>10 DEF ScanReturns
  <2>2. "recording" \in PC /\ Moves(pc, pc', w, "recording") /\ pc[w] # "done"
    BY <2>1 DEF PC, Moves
  <2>3. /\ Ind("recording", {"done"}) = 0
        /\ Ind("recording", Parsing) = Ind(pc[w], Parsing)
        /\ Ind("recording", Scanning) = Ind(pc[w], Scanning)
        /\ Ind("recording", Idle) = Ind(pc[w], Idle)
    BY <2>1 DEF Ind, Parsing, Scanning, Idle
  <2>4. /\ Population(Alive) \in Nat /\ Population(Alive)' = Population(Alive) - 0
        /\ \A places \in {Parsing, Scanning, Idle} :
              /\ Population(places) \in Nat /\ Ind(pc[w], places) \in Nat
              /\ Population(places)' = Population(places) + Ind("recording", places)
                                                         - Ind(pc[w], places)
    BY <1>1, <2>2, <2>3, MoveCounts, Zenon
  <2>5. CountersExact'
    BY <1>1, <2>1, <2>3, <2>4 DEF CountersExact
  <2>6. QED
    BY <1>1, <1>10, <2>2, <2>5 DEF ScanReturns, Counted, TypeOK
<1>11. ASSUME NEW w \in Workers, RecordScan(w) PROVE Counted'
  <2> DEFINE m == [metrics EXCEPT !.scanning = @ - 1]
  <2>1. pc[w] = "recording" /\ ~cancelled
    BY <1>11 DEF RecordScan
  <2>4. ExactBut(w, m)
    BY <2>1, OperationEnds
  <2>5. queue \in Seq(Wanted)
    BY <1>1
  <2>6. EndTypeOK' /\ exhausted' \in BOOLEAN /\ CountersExact'
    <3> HIDE DEF m
    <3>1. EndIteration(w, queue, exhausted, m) /\ cancelled' = cancelled
      BY <1>11 DEF RecordScan, m
    <3>2. exhausted \in BOOLEAN
      BY <1>1 DEF TypeOK
    <3>3. QED
      BY <1>1, <2>1, <2>4, <2>5, <3>1, <3>2, EndIterationCounts
  <2>7. recorded' \in [Wanted -> Nat]
    BY <1>1, <1>11 DEF RecordScan, TypeOK
  <2>8. QED
    BY <1>1, <1>11, <2>6, <2>7 DEF RecordScan, Counted, TypeOK, EndTypeOK
<1>12. ASSUME NEW w \in Workers, Wake(w) PROVE Counted'
  <2> DEFINE m == [metrics EXCEPT !.idle = @ - 1]
  <2>1. pc[w] = "waiting" /\ ~cancelled
    BY <1>12 DEF Wake
  <2>4. ExactBut(w, m)
    BY <2>1, OperationEnds
  <2>5. queue \in Seq(Wanted)
    BY <1>1
  <2>6. EndTypeOK' /\ exhausted' \in BOOLEAN /\ CountersExact'
    <3> HIDE DEF m
    <3>1. EndIteration(w, queue, exhausted, m) /\ cancelled' = cancelled
      BY <1>12 DEF Wake, m
    <3>2. exhausted \in BOOLEAN
      BY <1>1 DEF TypeOK
    <3>3. QED
      BY <1>1, <2>1, <2>4, <2>5, <3>1, <3>2, EndIterationCounts
  <2>7. QED
    BY <1>1, <1>12, <2>6 DEF Wake, Counted, TypeOK, EndTypeOK
<1>13. ASSUME NEW w \in Workers, GiveUp(w) PROVE Counted'
  <2>1. /\ pc[w] # "done" /\ cancelled' /\ queue' = queue /\ Unwind(w)
        /\ UNCHANGED <<source, exhausted, cancelled, closed>>
    BY <1>13 DEF GiveUp
  <2>2. EndTypeOK' /\ CountersExact'
    BY <1>1, <2>1, UnwindCounts
  <2>3. recorded' \in [Wanted -> Nat]
    <3>1. \/ recorded' = recorded
          \/ \E j \in hold[w] : recorded' = [recorded EXCEPT ![j] = @ + 1]
      BY <1>13 DEF GiveUp
    <3>2. recorded \in [Wanted -> Nat] /\ hold[w] \subseteq Wanted
      BY <1>1 DEF TypeOK
    <3>3. ASSUME NEW j \in hold[w], recorded' = [recorded EXCEPT ![j] = @ + 1]
          PROVE  recorded' \in [Wanted -> Nat]
      BY <3>2, <3>3
    <3>4. QED
      BY <3>1, <3>2, <3>3
  <2>4. QED
    BY <1>1, <2>1, <2>2, <2>3 DEF Counted, TypeOK, EndTypeOK
<1>14. ASSUME NEW w \in Workers, Fail(w) PROVE Counted'
  <2>1. /\ pc[w] # "done" /\ cancelled' = TRUE /\ queue' = queue /\ Unwind(w)
        /\ UNCHANGED <<source, exhausted, recorded, closed>>
    BY <1>14 DEF Fail
  <2>2. EndTypeOK' /\ CountersExact'
    BY <1>1, <2>1, UnwindCounts
  <2>3. QED
    BY <1>1, <2>1, <2>2 DEF Counted, TypeOK, EndTypeOK
<1>15. CASE Interrupt
  BY <1>1, <1>15 DEF Interrupt, Counted, TypeOK, CountersExact, Population
<1>16. CASE Close
  <2>1. /\ \A w \in Workers : pc[w] = "done"
        /\ metrics' = [metrics EXCEPT !.idle = 0, !.parsing = 0, !.scanning = 0]
        /\ closed' = TRUE
        /\ UNCHANGED <<pc, hold, source, exhausted, queue, cancelled, recorded>>
    BY <1>16 DEF Close
  <2>2. /\ {w \in Workers : pc[w] \in Parsing} = {}
        /\ {w \in Workers : pc[w] \in Scanning} = {}
        /\ {w \in Workers : pc[w] \in Idle} = {}
    BY <2>1 DEF Parsing, Scanning, Idle
  <2>3. Population(Parsing) = 0 /\ Population(Scanning) = 0 /\ Population(Idle) = 0
    BY <2>2, FS_EmptySet, Zenon DEF Population
  <2>4. \A places : Population(places)' = Population(places)
    BY <2>1 DEF Population
  <2>5. metrics' \in Metrics
    BY <1>1, <2>1 DEF Metrics
  <2>6. CountersExact'
    BY <1>1, <2>1, <2>3, <2>4 DEF CountersExact
  <2>7. QED
    BY <1>1, <2>1, <2>5, <2>6 DEF Counted, TypeOK
<1>17. CASE Closed \/ UNCHANGED vars
  BY <1>1, <1>17 DEF Closed, vars, Counted, TypeOK, CountersExact, Population
<1>18. QED
  BY <1>2, <1>3, <1>4, <1>5, <1>6, <1>7, <1>8, <1>9, <1>10, <1>11, <1>12,
     <1>13, <1>14, <1>15, <1>16, <1>17 DEF Next, Step

\* The type invariant and the counters of the scheduler hold in every
\* reachable state: what the exit test and the parse rules read is what the
\* workers do, whatever fails.
THEOREM TypeCorrect == Spec => []TypeOK
<1>1. Init => Counted
  BY CountedInit
<1>2. Counted /\ [Next]_vars => Counted'
  BY CountedNext
<1>3. Counted => TypeOK
  BY DEF Counted
<1>4. QED
  BY <1>1, <1>2, <1>3, PTL DEF Spec

THEOREM CountersAreExact == Spec => []CountersExact
<1>1. Init => Counted
  BY CountedInit
<1>2. Counted /\ [Next]_vars => Counted'
  BY CountedNext
<1>3. Counted => CountersExact
  BY DEF Counted
<1>4. QED
  BY <1>1, <1>2, <1>3, PTL DEF Spec

-----------------------------------------------------------------------------
(* Nobody leaves early *)

\* The flag says that the parse jobs have run out, and they never come back.
ExhaustedMeansNoSource == exhausted => source = {}

\* Inductive: the counters are needed to conclude from the exit test that
\* every other live worker is asleep.
LeaveInv == Counted /\ ExhaustedMeansNoSource /\ NoEarlyLeave

\* When the exit test succeeds for w, every other worker is asleep or gone.
LEMMA LastOneAwake ==
    ASSUME Counted, ~cancelled, NEW w \in Workers, pc[w] # "done",
           NEW q, NEW exh, NEW m, ExactBut(w, m), MayLeave(q, exh, m)
    PROVE  \A v \in Workers \ {w} : pc[v] \in {"waiting", "done"}
<1> DEFINE A == {v \in Workers : pc[v] \in Alive}
           I == {v \in Workers : pc[v] \in Idle}
<1>1. pc \in [Workers -> PC]
  BY DEF Counted, TypeOK
<1>2. IsFiniteSet(A) /\ IsFiniteSet(I) /\ IsFiniteSet(A \ {w})
  BY WorkersAssumption, FS_Subset
<1>3. I \ {w} \in SUBSET (A \ {w}) /\ w \in A /\ (w \in I <=> pc[w] \in Idle)
  BY <1>1 DEF Alive, Idle, PC
<1>4. Cardinality(A) = Population(Alive) /\ Cardinality(I) = Population(Idle)
  BY DEF Population
<1>5. m.idle = m.count - 1 /\ m.count = Cardinality(A) /\ m.idle = Cardinality(I) - Ind(pc[w], Idle)
  BY <1>4 DEF MayLeave, ExactBut
<1> HIDE DEF A, I
<1>6. /\ Cardinality(A) \in Nat /\ Cardinality(A \ {w}) \in Nat
      /\ Cardinality(A) = Cardinality(A \ {w}) + 1
  BY <1>2, <1>3, CountWithout
<1>7. /\ Cardinality(I) \in Nat /\ Cardinality(I \ {w}) \in Nat
      /\ Cardinality(I) = Cardinality(I \ {w}) + Ind(pc[w], Idle)
  BY <1>2, <1>3, CountWithout DEF Ind
<1>8. Cardinality(A \ {w}) = Cardinality(I \ {w})
  <2>1. Ind(pc[w], Idle) \in Nat
    BY DEF Ind
  <2>2. QED
    BY <1>5, <1>6, <1>7, <2>1
<1>9. A \ {w} = I \ {w}
  BY <1>2, <1>3, <1>8, FS_Subset, Zenon
<1>10. QED
  BY <1>1, <1>9 DEF A, I, Alive, Idle, PC

\* The end of an iteration keeps everybody inside until the scan is over.
LEMMA EndIterationKeeps ==
    ASSUME Counted, ~cancelled, NEW w \in Workers, pc[w] # "done",
           NEW q, NEW exh, NEW m, ExactBut(w, m), EndIteration(w, q, exh, m),
           exh => source = {}, source' = source,
           (\E v \in Workers : pc[v] = "done") =>
              /\ exh /\ q = <<>>
              /\ \A v \in Workers \ {w} : pc[v] \in {"waiting", "done"}
    PROVE  NoEarlyLeave' /\ ExhaustedMeansNoSource'
<1>1. pc \in [Workers -> PC]
  BY DEF Counted, TypeOK
<1>2. exhausted' = exh
  BY DEF EndIteration
<1>3. CASE MayLeave(q, exh, m)
  <2>1. pc' = [pc EXCEPT ![w] = "done"] /\ queue' = q
    BY <1>3 DEF EndIteration
  <2>2. \A v \in Workers \ {w} : pc[v] \in {"waiting", "done"}
    BY <1>3, LastOneAwake
  <2>3. exh /\ q = <<>>
    BY <1>3 DEF MayLeave
  <2>4. QED
    BY <1>1, <1>2, <2>1, <2>2, <2>3 DEF NoEarlyLeave, ExhaustedMeansNoSource
<1>4. CASE ~MayLeave(q, exh, m)
  <2>1. StartNext(w, q, exh, m)
    BY <1>4 DEF EndIteration
  <2>2. PICK c \in PC \ {"done"} : pc' = [pc EXCEPT ![w] = c]
    BY <2>1 DEF StartNext, PC
  <2>3. CASE \A v \in Workers : pc[v] # "done"
    BY <1>1, <1>2, <2>2, <2>3 DEF NoEarlyLeave, ExhaustedMeansNoSource
  <2>4. CASE \E v \in Workers : pc[v] = "done"
    <3>1. /\ exh /\ q = <<>>
          /\ \A v \in Workers \ {w} : pc[v] \in {"waiting", "done"}
      BY <2>4
    <3>2. Choose(Len(q), exh, m.parsing) = "wait"
      BY <3>1, EmptySeq DEF Choose
    <3>3. pc' = [pc EXCEPT ![w] = "waiting"] /\ queue' = q
      BY <2>1, <3>2 DEF StartNext
    <3>4. QED
      BY <1>1, <1>2, <3>1, <3>3 DEF NoEarlyLeave, ExhaustedMeansNoSource
  <2>5. QED
    BY <2>3, <2>4
<1>5. QED
  BY <1>3, <1>4

LEMMA LeaveInvNext == LeaveInv /\ [Next]_vars => LeaveInv'
<1> SUFFICES ASSUME LeaveInv, [Next]_vars PROVE LeaveInv'
  OBVIOUS
<1> DEFINE Kept == NoEarlyLeave' /\ ExhaustedMeansNoSource'
<1>1. /\ Counted /\ ExhaustedMeansNoSource /\ NoEarlyLeave
      /\ pc \in [Workers -> PC] /\ Counted'
  BY CountedNext DEF LeaveInv, Counted, TypeOK
<1>2. ASSUME NEW w \in Workers, pc[w] \notin {"waiting", "done"}, ~cancelled
      PROVE  \A v \in Workers : pc[v] # "done"
  BY <1>1, <1>2 DEF NoEarlyLeave
<1>3. ASSUME NEW w \in Workers, NEW c \in PC \ {"done"}, pc[w] \notin {"waiting", "done"},
             pc' = [pc EXCEPT ![w] = c], cancelled' = cancelled,
             exhausted' = exhausted, source' \subseteq source
      PROVE  Kept
  BY <1>1, <1>2, <1>3 DEF NoEarlyLeave, ExhaustedMeansNoSource
<1>4. ASSUME NEW w \in Workers, Begin(w) PROVE Kept
  <2>1. PICK c \in PC \ {"done"} : pc' = [pc EXCEPT ![w] = c]
    BY <1>4 DEF Begin, StartNext, PC
  <2>2. QED
    BY <1>3, <1>4, <2>1 DEF Begin
<1>5. ASSUME NEW w \in Workers, AcquireIterator(w) PROVE Kept
  BY <1>3, <1>5 DEF AcquireIterator, PC
<1>6. ASSUME NEW w \in Workers, PullParseJob(w) PROVE Kept
  BY <1>3, <1>6 DEF PullParseJob, PC
<1>7. ASSUME NEW w \in Workers, SourceExhausted(w) PROVE Kept
  <2>1. /\ pc[w] = "pulling" /\ ~cancelled /\ source = {} /\ source' = source
        /\ EndIteration(w, queue, TRUE, metrics)
    BY <1>7 DEF SourceExhausted
  <2>2. ExactBut(w, metrics)
    BY <1>1, <2>1, OperationEnds
  <2>3. QED
    BY <1>1, <1>2, <2>1, <2>2, EndIterationKeeps
<1>8. ASSUME NEW w \in Workers, ParseSucceeds(w) PROVE Kept
  <2> DEFINE m == [metrics EXCEPT !.parsing = @ - 1]
  <2>1. /\ pc[w] = "parsing" /\ ~cancelled /\ source' = source
        /\ EndIteration(w, queue \o ParsedJobs(w), exhausted, m)
    BY <1>8 DEF ParseSucceeds
  <2>2. ExactBut(w, m)
    BY <1>1, <2>1, OperationEnds
  <2> HIDE DEF m
  <2>3. QED
    BY <1>1, <1>2, <2>1, <2>2, EndIterationKeeps DEF ExhaustedMeansNoSource
<1>9. ASSUME NEW w \in Workers, ParseFails(w) PROVE Kept
  BY <1>3, <1>9 DEF ParseFails, PC
<1>10. ASSUME NEW w \in Workers, RecordParseError(w) PROVE Kept
  BY <1>1, <1>2, <1>10 DEF RecordParseError, NoEarlyLeave, ExhaustedMeansNoSource
<1>11. ASSUME NEW w \in Workers, RecordLastParseError(w) PROVE Kept
  <2> DEFINE m == [metrics EXCEPT !.parsing = @ - 1]
  <2>1. /\ pc[w] = "reporting" /\ ~cancelled /\ source' = source
        /\ EndIteration(w, queue, exhausted, m)
    BY <1>11 DEF RecordLastParseError
  <2>2. ExactBut(w, m)
    BY <1>1, <2>1, OperationEnds
  <2> HIDE DEF m
  <2>3. QED
    BY <1>1, <1>2, <2>1, <2>2, EndIterationKeeps DEF ExhaustedMeansNoSource
<1>12. ASSUME NEW w \in Workers, ScanReturns(w) PROVE Kept
  BY <1>3, <1>12 DEF ScanReturns, PC
<1>13. ASSUME NEW w \in Workers, RecordScan(w) PROVE Kept
  <2> DEFINE m == [metrics EXCEPT !.scanning = @ - 1]
  <2>1. /\ pc[w] = "recording" /\ ~cancelled /\ source' = source
        /\ EndIteration(w, queue, exhausted, m)
    BY <1>13 DEF RecordScan
  <2>2. ExactBut(w, m)
    BY <1>1, <2>1, OperationEnds
  <2> HIDE DEF m
  <2>3. QED
    BY <1>1, <1>2, <2>1, <2>2, EndIterationKeeps DEF ExhaustedMeansNoSource
<1>14. ASSUME NEW w \in Workers, Wake(w) PROVE Kept
  <2> DEFINE m == [metrics EXCEPT !.idle = @ - 1]
  <2>1. /\ pc[w] = "waiting" /\ ~cancelled /\ source' = source
        /\ EndIteration(w, queue, exhausted, m)
    BY <1>14 DEF Wake
  <2>2. ExactBut(w, m)
    BY <1>1, <2>1, OperationEnds
  <2>3. (\E v \in Workers : pc[v] = "done") =>
           /\ exhausted /\ queue = <<>>
           /\ \A v \in Workers \ {w} : pc[v] \in {"waiting", "done"}
    BY <1>1, <2>1 DEF NoEarlyLeave
  <2> HIDE DEF m
  <2>4. QED
    BY <1>1, <2>1, <2>2, <2>3, EndIterationKeeps DEF ExhaustedMeansNoSource
<1>15. ASSUME NEW w \in Workers, GiveUp(w) \/ Fail(w) PROVE Kept
  BY <1>1, <1>15 DEF GiveUp, Fail, NoEarlyLeave, ExhaustedMeansNoSource
<1>16. ASSUME Interrupt PROVE Kept
  BY <1>1, <1>16 DEF Interrupt, NoEarlyLeave, ExhaustedMeansNoSource
<1>17. ASSUME Close PROVE Kept
  BY <1>1, <1>17 DEF Close, NoEarlyLeave, ExhaustedMeansNoSource
<1>18. ASSUME Closed \/ UNCHANGED vars PROVE Kept
  BY <1>1, <1>18 DEF Closed, vars, NoEarlyLeave, ExhaustedMeansNoSource
<1>19. Kept
  BY <1>4, <1>5, <1>6, <1>7, <1>8, <1>9, <1>10, <1>11, <1>12, <1>13, <1>14,
     <1>15, <1>16, <1>17, <1>18 DEF Next, Step
<1>20. QED
  BY <1>1, <1>19 DEF LeaveInv

\* No worker leaves while a parse or a scan may still bring work or a result.
THEOREM NobodyLeavesEarly == Spec => []NoEarlyLeave
<1>1. Init => LeaveInv
  <2>1. Init => ExhaustedMeansNoSource /\ NoEarlyLeave
    BY DEF Init, ExhaustedMeansNoSource, NoEarlyLeave
  <2>2. QED
    BY <2>1, CountedInit DEF LeaveInv
<1>2. LeaveInv /\ [Next]_vars => LeaveInv'
  BY LeaveInvNext
<1>3. LeaveInv => NoEarlyLeave
  BY DEF LeaveInv
<1>4. QED
  BY <1>1, <1>2, <1>3, PTL DEF Spec

-----------------------------------------------------------------------------
(* Counting the occurrences of a pair *)

HoldersOf(j) == {w \in Workers : j \in hold[w]}
SourcesOf(j) == {t \in source : j \in JobsOf(t)}

\* A pair comes from one transcript, sits at some of the positions of a
\* sequence and with some of the workers.
LEMMA FinitePlaces ==
    ASSUME NEW j, NEW q \in Seq(Wanted)
    PROVE  /\ IsFiniteSet(SourcesOf(j)) /\ Cardinality(SourcesOf(j)) \in Nat
           /\ IsFiniteSet(HoldersOf(j)) /\ Cardinality(HoldersOf(j)) \in Nat
           /\ IsFiniteSet({i \in DOMAIN q : q[i] = j}) /\ CountIn(q, j) \in Nat
<1>1. IsFiniteSet(SourcesOf(j))
  <2>1. SourcesOf(j) \in SUBSET {j[1]}
    BY DEF SourcesOf, JobsOf
  <2>2. QED
    BY <2>1, FS_Singleton, FS_Subset
<1>2. IsFiniteSet(HoldersOf(j))
  BY WorkersAssumption, FS_Subset DEF HoldersOf
<1>3. IsFiniteSet({i \in DOMAIN q : q[i] = j}) /\ CountIn(q, j) \in Nat
  BY CountFinite
<1>4. QED
  BY <1>1, <1>2, <1>3, FS_CardinalityType

\* What extend adds: each pair of the parse job once.
LEMMA ExtendedCount ==
    ASSUME NEW q \in Seq(Wanted), NEW S \in SUBSET Wanted, NEW j
    PROVE  /\ q \o SetToSeq(S) \in Seq(Wanted)
           /\ Len(q \o SetToSeq(S)) = Len(q) + Cardinality(S)
           /\ CountIn(q \o SetToSeq(S), j) = CountIn(q, j) + Ind(j, S)
<1> DEFINE s == SetToSeq(S)
           A == {i \in DOMAIN q : q[i] = j}
           C == {i \in DOMAIN (q \o s) : (q \o s)[i] = j}
<1>1. /\ s \in Seq(Wanted) /\ s \in Seq(S) /\ Len(s) = Cardinality(S)
      /\ \A x \in S : \E i \in 1 .. Len(s) : s[i] = x
      /\ \A i, k \in 1 .. Len(s) : s[i] = s[k] => i = k
  <2>1. IsFiniteSet(S)
    BY WantedAssumption, FS_Subset
  <2>2. QED
    BY <2>1, SetToSeqLists, SeqMonotonic
<1> HIDE DEF s
<1>2. /\ q \o s \in Seq(Wanted) /\ Len(q \o s) = Len(q) + Len(s)
      /\ Len(q) \in Nat /\ Len(s) \in Nat
      /\ DOMAIN q = 1 .. Len(q) /\ DOMAIN (q \o s) = 1 .. (Len(q) + Len(s))
      /\ \A i \in 1 .. Len(q) : (q \o s)[i] = q[i]
      /\ \A i \in 1 .. Len(s) : (q \o s)[Len(q) + i] = s[i]
  <2>1. /\ q \o s \in Seq(Wanted) /\ Len(q \o s) = Len(q) + Len(s)
        /\ \A i \in 1 .. Len(q) + Len(s) :
              (q \o s)[i] = IF i <= Len(q) THEN q[i] ELSE s[i - Len(q)]
    <3>1. s \in Seq(Wanted) /\ q \in Seq(Wanted)
      BY <1>1
    <3>2. QED
      BY <3>1, ConcatProperties, Zenon
  <2>2. /\ Len(q) \in Nat /\ Len(s) \in Nat
        /\ DOMAIN q = 1 .. Len(q) /\ DOMAIN (q \o s) = 1 .. Len(q \o s)
    BY <1>1, <2>1, LenProperties
  <2>3. \A i \in 1 .. Len(q) : (q \o s)[i] = q[i]
    BY <2>1, <2>2
  <2>4. ASSUME NEW i \in 1 .. Len(s) PROVE (q \o s)[Len(q) + i] = s[i]
    <3>1. /\ Len(q) + i \in 1 .. Len(q) + Len(s) /\ ~(Len(q) + i <= Len(q))
          /\ (Len(q) + i) - Len(q) = i
      BY <2>2
    <3>2. QED
      BY <2>1, <3>1
  <2>5. QED
    BY <2>1, <2>2, <2>3, <2>4
<1>3. IsFiniteSet(A) /\ IsFiniteSet(C)
  BY <1>2, FinitePlaces
<1>4. CountIn(q, j) = Cardinality(A) /\ CountIn(q \o s, j) = Cardinality(C)
  BY DEF CountIn
<1>5. \A i \in (Len(q) + 1) .. (Len(q) + Len(s)) : (q \o s)[i] = s[i - Len(q)]
  <2>1. TAKE i \in (Len(q) + 1) .. (Len(q) + Len(s))
  <2>2. i - Len(q) \in 1 .. Len(s) /\ Len(q) + (i - Len(q)) = i
    BY <1>2
  <2>3. QED
    BY <1>2, <2>2
<1>6. CASE j \in S
  <2>1. PICK k \in 1 .. Len(s) : s[k] = j
    BY <1>1, <1>6
  <2>2. C = A \cup {Len(q) + k} /\ Len(q) + k \notin A
    <3>1. A \subseteq C /\ Len(q) + k \in C /\ Len(q) + k \notin A
      BY <1>2, <2>1
    <3>2. ASSUME NEW i \in C, i \notin A PROVE i = Len(q) + k
      <4>1. i \in (Len(q) + 1) .. (Len(q) + Len(s))
        BY <1>2, <3>2
      <4>2. i - Len(q) \in 1 .. Len(s) /\ s[i - Len(q)] = s[k]
        BY <1>2, <1>5, <2>1, <4>1
      <4>3. QED
        BY <1>1, <1>2, <4>1, <4>2
    <3>3. QED
      BY <3>1, <3>2
  <2>3. Cardinality(C) = Cardinality(A) + 1
    <3> HIDE DEF A, C
    <3>1. QED
      BY <1>3, <2>2, FS_AddElement
  <2>4. QED
    BY <1>1, <1>2, <1>4, <1>6, <2>3 DEF Ind, s
<1>7. CASE j \notin S
  <2>1. \A i \in 1 .. Len(s) : s[i] # j
    BY <1>1, <1>7, ElementOfSeq
  <2>2. C = A
    <3>1. A \subseteq C
      BY <1>2
    <3>2. ASSUME NEW i \in C PROVE i \in A
      <4>1. i \in 1 .. Len(q)
        <5>1. SUFFICES ASSUME i \in (Len(q) + 1) .. (Len(q) + Len(s)) PROVE FALSE
          BY <1>2, <3>2
        <5>2. i - Len(q) \in 1 .. Len(s) /\ s[i - Len(q)] = j
          BY <1>2, <1>5, <3>2, <5>1
        <5>3. QED
          BY <2>1, <5>2
      <4>2. QED
        BY <1>2, <4>1
    <3>3. QED
      BY <3>1, <3>2
  <2>3. Cardinality(A) \in Nat /\ Cardinality(C) = Cardinality(A)
    BY <1>3, <2>2, FS_CardinalityType, Zenon
  <2>4. CountIn(q \o s, j) = CountIn(q, j) + Ind(j, S)
    <3> HIDE DEF A, C
    <3>1. QED
      BY <1>4, <1>7, <2>3 DEF Ind
  <2>5. QED
    BY <1>1, <1>2, <2>4 DEF s
<1>8. QED
  BY <1>6, <1>7

\* A worker's hold is set to H: the holders of a pair change by that worker.
LEMMA HoldMoves ==
    ASSUME hold \in [Workers -> SUBSET Wanted], NEW w \in Workers, NEW H,
           hold' = [hold EXCEPT ![w] = H], NEW j
    PROVE  /\ Cardinality(HoldersOf(j)) \in Nat
           /\ Cardinality(HoldersOf(j) \ {w}) \in Nat
           /\ Cardinality(HoldersOf(j)) = Cardinality(HoldersOf(j) \ {w}) + Ind(j, hold[w])
           /\ Cardinality(HoldersOf(j))' = Cardinality(HoldersOf(j) \ {w}) + Ind(j, H)
<1> DEFINE A == HoldersOf(j)
           B == HoldersOf(j)'
<1>1. IsFiniteSet(A) /\ IsFiniteSet(B)
  BY WorkersAssumption, FS_Subset DEF HoldersOf
<1>2. /\ A \ {w} = B \ {w}
      /\ w \in A <=> j \in hold[w]
      /\ w \in B <=> j \in H
  BY DEF HoldersOf
<1> HIDE DEF A, B
<1>3. /\ Cardinality(A \ {w}) \in Nat
      /\ Cardinality(A) = Cardinality(A \ {w}) + (IF w \in A THEN 1 ELSE 0)
      /\ Cardinality(B) = Cardinality(A \ {w}) + (IF w \in B THEN 1 ELSE 0)
  BY <1>1, <1>2, DifferByOne
<1>4. QED
  BY <1>2, <1>3 DEF A, B, Ind

-----------------------------------------------------------------------------
(* What a worker holds *)

\* Nothing between two operations, one pair while it scans, and never the
\* pairs of two transcripts.
HoldFits(w) ==
    /\ pc[w] \in {"new", "locking", "pulling", "waiting", "done"} => hold[w] = {}
    /\ pc[w] \in {"scanning", "recording"} => \E j \in Wanted : hold[w] = {j}
    /\ \A j, k \in hold[w] : j[1] = k[1]

Holds ==
    /\ \A w \in Workers : HoldFits(w)
    /\ closed => \A w \in Workers : pc[w] = "done"

\* StartNext leaves the deque as it found it and the worker's hands empty, or
\* moves the first pair of the deque into them.
LEMMA StartNextEffect ==
    ASSUME NEW w \in Workers, NEW q \in Seq(Wanted), NEW exh, NEW m, StartNext(w, q, exh, m)
    PROVE  \/ /\ pc' = [pc EXCEPT ![w] = "locking"]
              /\ Choose(Len(q), exh, m.parsing) = "parse"
              /\ hold' = [hold EXCEPT ![w] = {}] /\ queue' = q
           \/ /\ pc' = [pc EXCEPT ![w] = "waiting"]
              /\ q = <<>>
              /\ hold' = [hold EXCEPT ![w] = {}] /\ queue' = q
           \/ /\ pc' = [pc EXCEPT ![w] = "scanning"]
              /\ q # <<>>
              /\ hold' = [hold EXCEPT ![w] = {Head(q)}] /\ queue' = Tail(q)
<1>1. Len(q) \in Nat /\ (Len(q) = 0 <=> q = <<>>)
  BY EmptySeq, LenProperties
<1>2. CASE Choose(Len(q), exh, m.parsing) = "parse"
  BY <1>2 DEF StartNext
<1>3. CASE Choose(Len(q), exh, m.parsing) = "wait"
  <2>1. ~(Len(q) > 0)
    <3>1. SUFFICES ASSUME Len(q) > 0 PROVE Choose(Len(q), exh, m.parsing) # "wait"
      BY <1>3
    <3>2. QED
      BY <3>1 DEF Choose
  <2>2. q = <<>>
    BY <1>1, <2>1
  <2>3. QED
    BY <1>3, <2>2 DEF StartNext
<1>4. CASE Choose(Len(q), exh, m.parsing) = "scan"
  <2>1. q # <<>>
    <3>1. SUFFICES ASSUME Len(q) = 0 PROVE Choose(Len(q), exh, m.parsing) # "scan"
      BY <1>1, <1>4
    <3>2. QED
      BY <3>1 DEF Choose
  <2>2. QED
    BY <1>4, <2>1 DEF StartNext, Popped
<1>5. QED
  BY <1>2, <1>3, <1>4 DEF StartNext

\* So does the end of an iteration, where the worker may also leave.
LEMMA EndEffect ==
    ASSUME NEW w \in Workers, NEW q \in Seq(Wanted), NEW exh, NEW m, EndIteration(w, q, exh, m)
    PROVE  \/ /\ pc' = [pc EXCEPT ![w] = "locking"]
              /\ Choose(Len(q), exh, m.parsing) = "parse"
              /\ hold' = [hold EXCEPT ![w] = {}] /\ queue' = q
           \/ /\ \E c \in {"waiting", "done"} : pc' = [pc EXCEPT ![w] = c]
              /\ q = <<>>
              /\ hold' = [hold EXCEPT ![w] = {}] /\ queue' = q
           \/ /\ pc' = [pc EXCEPT ![w] = "scanning"]
              /\ q # <<>>
              /\ hold' = [hold EXCEPT ![w] = {Head(q)}] /\ queue' = Tail(q)
<1>1. CASE MayLeave(q, exh, m)
  BY <1>1 DEF EndIteration, MayLeave
<1>2. CASE ~MayLeave(q, exh, m)
  <2>1. StartNext(w, q, exh, m)
    BY <1>2 DEF EndIteration
  <2>2. QED
    BY <2>1, StartNextEffect
<1>3. QED
  BY <1>1, <1>2

\* The operations that end with EndIteration, and the first one: the deque q
\* they leave to the scheduler, and the exit test or not.
Ends(w, q, exh, m) == EndIteration(w, q, exh, m) \/ StartNext(w, q, exh, m)

LEMMA EndsHold ==
    ASSUME TypeOK, Holds, NEW w \in Workers, pc[w] # "done", closed' = closed,
           NEW q \in Seq(Wanted), NEW exh, NEW m, Ends(w, q, exh, m)
    PROVE  Holds'
<1>1. /\ pc \in [Workers -> PC] /\ hold \in [Workers -> SUBSET Wanted]
      /\ ~closed
  BY DEF TypeOK, Holds
<1>2. PICK c \in PC, H \in SUBSET Wanted :
        /\ pc' = [pc EXCEPT ![w] = c] /\ hold' = [hold EXCEPT ![w] = H]
        /\ \/ c \in {"locking", "waiting", "done"} /\ H = {}
           \/ c = "scanning" /\ \E j \in Wanted : H = {j}
  <2>1. q # <<>> => Head(q) \in Wanted
    BY HeadTailProperties
  <2>2. {"locking", "waiting", "done", "scanning"} \subseteq PC
    BY DEF PC
  <2>3. \/ /\ \E c \in {"locking", "waiting", "done"} : pc' = [pc EXCEPT ![w] = c]
           /\ hold' = [hold EXCEPT ![w] = {}]
        \/ /\ pc' = [pc EXCEPT ![w] = "scanning"]
           /\ q # <<>> /\ hold' = [hold EXCEPT ![w] = {Head(q)}]
    <3>1. CASE EndIteration(w, q, exh, m)
      BY <3>1, EndEffect
    <3>2. CASE StartNext(w, q, exh, m)
      BY <3>2, StartNextEffect
    <3>3. QED
      BY <3>1, <3>2 DEF Ends
  <2>4. QED
    BY <2>1, <2>2, <2>3
<1>3. HoldFits(w)'
  BY <1>1, <1>2 DEF HoldFits
<1>4. ASSUME NEW v \in Workers \ {w} PROVE HoldFits(v)'
  BY <1>1, <1>2 DEF HoldFits, Holds
<1>5. QED
  BY <1>1, <1>3, <1>4 DEF Holds

LEMMA HoldsNext == Counted /\ Holds /\ [Next]_vars => Holds'
<1> SUFFICES ASSUME Counted, Holds, [Next]_vars PROVE Holds'
  OBVIOUS
<1>1. /\ TypeOK /\ pc \in [Workers -> PC] /\ hold \in [Workers -> SUBSET Wanted]
      /\ queue \in Seq(Wanted)
  BY DEF Counted, TypeOK
<1>2. ASSUME NEW w \in Workers, NEW c \in PC, NEW H \in SUBSET Wanted,
             pc[w] # "done", closed' = closed,
             pc' = [pc EXCEPT ![w] = c], hold' = [hold EXCEPT ![w] = H],
             c \in {"new", "locking", "pulling", "waiting", "done"} => H = {},
             c \in {"scanning", "recording"} => \E j \in Wanted : H = {j},
             \A j, k \in H : j[1] = k[1]
      PROVE  Holds'
  <2>1. HoldFits(w)'
    BY <1>1, <1>2 DEF HoldFits
  <2>2. ASSUME NEW v \in Workers \ {w} PROVE HoldFits(v)'
    BY <1>1, <1>2 DEF HoldFits, Holds
  <2>3. QED
    BY <1>2, <2>1, <2>2 DEF Holds
<1>3. ASSUME NEW w \in Workers, NEW c \in PC, pc[w] # "done", closed' = closed,
             pc' = [pc EXCEPT ![w] = c], hold' = hold,
             c \in {"new", "locking", "pulling", "waiting", "done"} => hold[w] = {},
             c \in {"scanning", "recording"} => \E j \in Wanted : hold[w] = {j}
      PROVE  Holds'
  <2>1. hold' = [hold EXCEPT ![w] = hold[w]] /\ hold[w] \in SUBSET Wanted
    BY <1>1, <1>3
  <2>2. \A j, k \in hold[w] : j[1] = k[1]
    BY DEF Holds, HoldFits
  <2>3. QED
    BY <1>2, <1>3, <2>1, <2>2, Zenon
<1>4. ASSUME NEW w \in Workers, Begin(w) PROVE Holds'
  BY <1>1, <1>4, EndsHold DEF Begin, Ends
<1>5. ASSUME NEW w \in Workers, AcquireIterator(w) PROVE Holds'
  <2>1. hold[w] = {}
    BY <1>5 DEF AcquireIterator, Holds, HoldFits
  <2>2. QED
    BY <1>3, <1>5, <2>1 DEF AcquireIterator, PC
<1>6. ASSUME NEW w \in Workers, PullParseJob(w) PROVE Holds'
  <2>1. PICK t \in source : hold' = [hold EXCEPT ![w] = JobsOf(t)]
    BY <1>6 DEF PullParseJob
  <2>2. JobsOf(t) \in SUBSET Wanted /\ \A j, k \in JobsOf(t) : j[1] = k[1]
    BY DEF JobsOf
  <2>3. QED
    BY <1>2, <1>6, <2>1, <2>2 DEF PullParseJob, PC
<1>7. ASSUME NEW w \in Workers, SourceExhausted(w) PROVE Holds'
  BY <1>1, <1>7, EndsHold DEF SourceExhausted, Ends
<1>8. ASSUME NEW w \in Workers, ParseSucceeds(w) PROVE Holds'
  <2>1. queue \o ParsedJobs(w) \in Seq(Wanted)
    BY <1>1, ExtendedCount DEF ParsedJobs
  <2>2. QED
    BY <1>1, <1>8, <2>1, EndsHold DEF ParseSucceeds, Ends
<1>9. ASSUME NEW w \in Workers, ParseFails(w) PROVE Holds'
  BY <1>3, <1>9 DEF ParseFails, PC
<1>10. ASSUME NEW w \in Workers, RecordParseError(w) PROVE Holds'
  <2>1. PICK j \in hold[w] : hold' = [hold EXCEPT ![w] = hold[w] \ {j}]
    BY <1>10 DEF RecordParseError
  <2>2. pc' = [pc EXCEPT ![w] = "reporting"] /\ pc[w] = "reporting" /\ closed' = closed
    BY <1>1, <1>10 DEF RecordParseError
  <2>3. hold[w] \ {j} \in SUBSET Wanted /\ \A k, l \in hold[w] \ {j} : k[1] = l[1]
    BY <1>1 DEF Holds, HoldFits
  <2>4. "reporting" \in PC
    BY DEF PC
  <2>5. QED
    BY <1>2, <2>1, <2>2, <2>3, <2>4
<1>11. ASSUME NEW w \in Workers, RecordLastParseError(w) PROVE Holds'
  BY <1>1, <1>11, EndsHold DEF RecordLastParseError, Ends
<1>12. ASSUME NEW w \in Workers, ScanReturns(w) PROVE Holds'
  <2>1. \E j \in Wanted : hold[w] = {j}
    BY <1>12 DEF ScanReturns, Holds, HoldFits
  <2>2. QED
    BY <1>3, <1>12, <2>1 DEF ScanReturns, PC
<1>13. ASSUME NEW w \in Workers, RecordScan(w) PROVE Holds'
  BY <1>1, <1>13, EndsHold DEF RecordScan, Ends
<1>14. ASSUME NEW w \in Workers, Wake(w) PROVE Holds'
  BY <1>1, <1>14, EndsHold DEF Wake, Ends
<1>15. ASSUME NEW w \in Workers, GiveUp(w) \/ Fail(w) PROVE Holds'
  <2>1. /\ pc' = [pc EXCEPT ![w] = "done"] /\ hold' = [hold EXCEPT ![w] = {}]
        /\ closed' = closed /\ pc[w] # "done"
    BY <1>15 DEF GiveUp, Fail, Unwind
  <2>2. "done" \in PC
    BY DEF PC
  <2>3. QED
    BY <1>2, <2>1, <2>2
<1>16. CASE Close
  BY <1>16 DEF Close, Holds, HoldFits
<1>17. CASE Interrupt \/ Closed \/ UNCHANGED vars
  BY <1>17 DEF Interrupt, Closed, vars, Holds, HoldFits
<1>18. QED
  BY <1>4, <1>5, <1>6, <1>7, <1>8, <1>9, <1>10, <1>11, <1>12, <1>13, <1>14,
     <1>15, <1>16, <1>17 DEF Next, Step

-----------------------------------------------------------------------------
(* No pair is lost or doubled *)

\* The occurrences of j but for what w holds, with deque q and records r.
Elsewhere(w, q, r, j) ==
    r[j] + Cardinality(SourcesOf(j)) + CountIn(q, j) + Cardinality(HoldersOf(j) \ {w})

LEMMA OccurrencesAre ==
    ASSUME TypeOK, NEW j \in Wanted
    PROVE  /\ Occurrences(j) = recorded[j] + Cardinality(SourcesOf(j))
                                 + CountIn(queue, j) + Cardinality(HoldersOf(j))
           /\ recorded[j] \in Nat /\ Cardinality(SourcesOf(j)) \in Nat
           /\ CountIn(queue, j) \in Nat /\ Cardinality(HoldersOf(j)) \in Nat
<1>1. recorded[j] \in Nat /\ queue \in Seq(Wanted)
  BY DEF TypeOK
<1>2. QED
  BY <1>1, FinitePlaces DEF Occurrences, SourcesOf, HoldersOf, CountIn

\* What w holds is one occurrence.
LEMMA OccurrencesBut ==
    ASSUME TypeOK, NEW w \in Workers, NEW j \in Wanted
    PROVE  /\ Occurrences(j) = Elsewhere(w, queue, recorded, j) + Ind(j, hold[w])
           /\ Elsewhere(w, queue, recorded, j) \in Nat
<1>1. hold \in [Workers -> SUBSET Wanted] /\ queue \in Seq(Wanted)
  BY DEF TypeOK
<1>2. /\ Cardinality(HoldersOf(j) \ {w}) \in Nat
      /\ Cardinality(HoldersOf(j)) = Cardinality(HoldersOf(j) \ {w}) + Ind(j, hold[w])
  <2>1. IsFiniteSet(HoldersOf(j))
    BY <1>1, FinitePlaces
  <2>2. w \in HoldersOf(j) <=> j \in hold[w]
    BY DEF HoldersOf
  <2>3. QED
    BY <2>1, <2>2, CountWithout DEF Ind
<1>3. Ind(j, hold[w]) \in Nat
  BY DEF Ind
<1>4. QED
  BY <1>2, <1>3, OccurrencesAre DEF Elsewhere

\* Starting the next operation moves a pair at most, from the deque to w.
LEMMA EndsPairs ==
    ASSUME TypeOK, TypeOK', NEW w \in Workers, NEW q \in Seq(Wanted), NEW exh, NEW m,
           Ends(w, q, exh, m), source' = source, NEW j \in Wanted
    PROVE  Occurrences(j)' = Elsewhere(w, q, recorded', j)
<1>1. /\ hold \in [Workers -> SUBSET Wanted] /\ recorded'[j] \in Nat
      /\ SourcesOf(j)' = SourcesOf(j)
  BY DEF TypeOK, SourcesOf
<1>2. /\ Occurrences(j)' = recorded'[j] + Cardinality(SourcesOf(j)')
                             + CountIn(queue', j) + Cardinality(HoldersOf(j)')
      /\ Cardinality(SourcesOf(j)) \in Nat
  <2>1. TypeOK' => Occurrences(j)' = recorded'[j] + Cardinality(SourcesOf(j)')
                             + CountIn(queue', j) + Cardinality(HoldersOf(j)')
    BY DEF Occurrences, SourcesOf, HoldersOf, CountIn
  <2>2. QED
    BY <2>1, OccurrencesAre
<1>3. \/ hold' = [hold EXCEPT ![w] = {}] /\ queue' = q
      \/ q # <<>> /\ hold' = [hold EXCEPT ![w] = {Head(q)}] /\ queue' = Tail(q)
  <2>1. CASE EndIteration(w, q, exh, m)
    BY <2>1, EndEffect
  <2>2. CASE StartNext(w, q, exh, m)
    BY <2>2, StartNextEffect
  <2>3. QED
    BY <2>1, <2>2 DEF Ends
<1>4. CASE hold' = [hold EXCEPT ![w] = {}] /\ queue' = q
  <2>1. /\ Cardinality(HoldersOf(j) \ {w}) \in Nat
        /\ Cardinality(HoldersOf(j))' = Cardinality(HoldersOf(j) \ {w}) + Ind(j, {})
    BY <1>1, <1>4, HoldMoves
  <2>2. Ind(j, {}) = 0
    BY DEF Ind
  <2>3. CountIn(q, j) \in Nat /\ CountIn(queue', j) = CountIn(q, j)
    BY <1>4, FinitePlaces
  <2>4. QED
    BY <1>1, <1>2, <2>1, <2>2, <2>3 DEF Elsewhere
<1>5. CASE q # <<>> /\ hold' = [hold EXCEPT ![w] = {Head(q)}] /\ queue' = Tail(q)
  <2>1. /\ Cardinality(HoldersOf(j) \ {w}) \in Nat
        /\ Cardinality(HoldersOf(j))' = Cardinality(HoldersOf(j) \ {w}) + Ind(j, {Head(q)})
    BY <1>1, <1>5, HoldMoves
  <2>2. Ind(j, {Head(q)}) \in Nat
    BY DEF Ind
  <2>3. /\ CountIn(q, j) = CountIn(queue', j) + Ind(j, {Head(q)})
        /\ CountIn(queue', j) \in Nat
    BY <1>5, PoppedCount, FinitePlaces, HeadTailProperties
  <2>4. QED
    BY <1>1, <1>2, <2>1, <2>2, <2>3 DEF Elsewhere
<1>6. QED
  BY <1>3, <1>4, <1>5

PairInv == Counted /\ Holds /\ NoPairLostOrDoubled

\* Recording j, which w holds alone, moves it from w's hands to the records.
LEMMA RecordedElsewhere ==
    ASSUME TypeOK, NEW w \in Workers, NEW k \in Wanted, hold[w] = {k},
           recorded' = [recorded EXCEPT ![k] = @ + 1], NEW j \in Wanted
    PROVE  Elsewhere(w, queue, recorded', j) = Occurrences(j)
<1>1. recorded \in [Wanted -> Nat]
  BY DEF TypeOK
<1>2. recorded'[j] = recorded[j] + Ind(j, hold[w])
  BY <1>1 DEF Ind
<1>3. /\ Cardinality(SourcesOf(j)) \in Nat /\ CountIn(queue, j) \in Nat
      /\ Cardinality(HoldersOf(j) \ {w}) \in Nat /\ Ind(j, hold[w]) \in Nat
      /\ recorded[j] \in Nat
  <2>1. queue \in Seq(Wanted) /\ IsFiniteSet(HoldersOf(j))
    BY FinitePlaces DEF TypeOK
  <2>2. Cardinality(HoldersOf(j) \ {w}) \in Nat
    BY <2>1, CountWithout
  <2>3. Ind(j, hold[w]) \in Nat
    BY DEF Ind
  <2>4. QED
    BY <1>1, <2>1, <2>2, <2>3, FinitePlaces
<1>4. Occurrences(j) = Elsewhere(w, queue, recorded, j) + Ind(j, hold[w])
  BY OccurrencesBut
<1>5. /\ Elsewhere(w, queue, recorded', j) =
           recorded'[j] + Cardinality(SourcesOf(j)) + CountIn(queue, j)
             + Cardinality(HoldersOf(j) \ {w})
      /\ Elsewhere(w, queue, recorded, j) =
           recorded[j] + Cardinality(SourcesOf(j)) + CountIn(queue, j)
             + Cardinality(HoldersOf(j) \ {w})
  BY Zenon DEF Elsewhere
<1>6. QED
  BY <1>2, <1>3, <1>4, <1>5

\* Until something fails every step leaves each pair in one place.
LEMMA StepKeepsOccurrences ==
    ASSUME Counted, Holds, Counted', NEW w \in Workers, Step(w), ~GiveUp(w), NEW j \in Wanted
    PROVE  Occurrences(j)' = Occurrences(j) /\ cancelled' = cancelled
<1>1. /\ TypeOK /\ TypeOK' /\ queue \in Seq(Wanted)
      /\ hold \in [Workers -> SUBSET Wanted] /\ recorded \in [Wanted -> Nat]
  BY DEF Counted, TypeOK
<1>2. ASSUME hold[w] = {} PROVE Elsewhere(w, queue, recorded, j) = Occurrences(j)
  <2>1. Ind(j, hold[w]) = 0
    BY <1>2 DEF Ind
  <2>2. QED
    BY <1>1, <2>1, OccurrencesBut
<1>3. CASE Begin(w)
  <2>1. hold[w] = {}
    BY <1>3 DEF Begin, Holds, HoldFits
  <2>2. QED
    BY <1>1, <1>2, <1>3, <2>1, EndsPairs DEF Begin, Ends
<1>4. CASE AcquireIterator(w) \/ ParseFails(w) \/ ScanReturns(w)
  BY <1>4 DEF AcquireIterator, ParseFails, ScanReturns, Occurrences
<1>5. CASE PullParseJob(w)
  <2>1. PICK t \in source : /\ source' = source \ {t}
                            /\ hold' = [hold EXCEPT ![w] = JobsOf(t)]
    BY <1>5 DEF PullParseJob
  <2>2. recorded' = recorded /\ queue' = queue /\ cancelled' = cancelled
    BY <1>5 DEF PullParseJob
  <2>3. hold[w] = {}
    BY <1>5 DEF PullParseJob, Holds, HoldFits
  <2>4. /\ Cardinality(HoldersOf(j) \ {w}) \in Nat
        /\ Cardinality(HoldersOf(j)') = Cardinality(HoldersOf(j) \ {w}) + Ind(j, JobsOf(t))
    BY <1>1, <2>1, HoldMoves
  <2>5. /\ Cardinality(SourcesOf(j)') \in Nat
        /\ Cardinality(SourcesOf(j)) = Cardinality(SourcesOf(j)') + Ind(j, JobsOf(t))
    <3>1. IsFiniteSet(SourcesOf(j))
      BY <1>1, FinitePlaces
    <3>2. /\ SourcesOf(j)' = SourcesOf(j) \ {t}
          /\ t \in SourcesOf(j) <=> j \in JobsOf(t)
      BY <2>1 DEF SourcesOf
    <3>3. /\ Cardinality(SourcesOf(j) \ {t}) \in Nat
          /\ Cardinality(SourcesOf(j)) = Cardinality(SourcesOf(j) \ {t})
                                           + (IF t \in SourcesOf(j) THEN 1 ELSE 0)
      BY <3>1, CountWithout
    <3>4. QED
      BY <3>2, <3>3 DEF Ind
  <2>6. Occurrences(j)' = recorded[j] + Cardinality(SourcesOf(j)')
                            + CountIn(queue, j) + Cardinality(HoldersOf(j)')
    BY <2>2 DEF Occurrences, SourcesOf, HoldersOf, CountIn
  <2>7. Occurrences(j) = recorded[j] + Cardinality(SourcesOf(j))
                            + CountIn(queue, j) + Cardinality(HoldersOf(j) \ {w})
    BY <1>2, <2>3 DEF Elsewhere
  <2>8. recorded[j] \in Nat /\ CountIn(queue, j) \in Nat /\ Ind(j, JobsOf(t)) \in Nat
    BY <1>1, FinitePlaces DEF Ind
  <2>9. QED
    BY <2>2, <2>4, <2>5, <2>6, <2>7, <2>8
<1>6. CASE SourceExhausted(w) \/ Wake(w)
  <2>1. hold[w] = {} /\ source' = source /\ recorded' = recorded /\ cancelled' = cancelled
    BY <1>6 DEF SourceExhausted, Wake, Holds, HoldFits
  <2>2. \E exh, m : Ends(w, queue, exh, m)
    BY <1>6 DEF SourceExhausted, Wake, Ends
  <2>3. QED
    BY <1>1, <1>2, <2>1, <2>2, EndsPairs
<1>7. CASE ParseSucceeds(w)
  <2> DEFINE q == queue \o ParsedJobs(w)
  <2>1. /\ source' = source /\ recorded' = recorded /\ cancelled' = cancelled
        /\ \E m : Ends(w, q, exhausted, m)
    BY <1>7 DEF ParseSucceeds, Ends
  <2>2. q \in Seq(Wanted) /\ CountIn(q, j) = CountIn(queue, j) + Ind(j, hold[w])
    BY <1>1, ExtendedCount DEF ParsedJobs
  <2> HIDE DEF q
  <2>3. Occurrences(j)' = Elsewhere(w, q, recorded, j)
    BY <1>1, <2>1, <2>2, EndsPairs
  <2>4. /\ CountIn(queue, j) \in Nat /\ Ind(j, hold[w]) \in Nat
        /\ Cardinality(SourcesOf(j)) \in Nat /\ recorded[j] \in Nat
        /\ Cardinality(HoldersOf(j) \ {w}) \in Nat
    <3>1. IsFiniteSet(HoldersOf(j))
      BY <1>1, FinitePlaces
    <3>2. Cardinality(HoldersOf(j) \ {w}) \in Nat
      BY <3>1, CountWithout
    <3>3. QED
      BY <1>1, <3>2, FinitePlaces DEF Ind
  <2>5. Occurrences(j) = Elsewhere(w, queue, recorded, j) + Ind(j, hold[w])
    BY <1>1, OccurrencesBut
  <2>6. /\ Elsewhere(w, queue, recorded, j) =
             recorded[j] + Cardinality(SourcesOf(j)) + CountIn(queue, j)
               + Cardinality(HoldersOf(j) \ {w})
        /\ Elsewhere(w, q, recorded, j) =
             recorded[j] + Cardinality(SourcesOf(j)) + CountIn(q, j)
               + Cardinality(HoldersOf(j) \ {w})
    BY Zenon DEF Elsewhere
  <2>7. QED
    BY <2>1, <2>2, <2>3, <2>4, <2>5, <2>6
<1>8. CASE RecordParseError(w)
  <2>1. PICK k \in hold[w] : /\ hold' = [hold EXCEPT ![w] = hold[w] \ {k}]
                             /\ recorded' = [recorded EXCEPT ![k] = @ + 1]
    BY <1>8 DEF RecordParseError
  <2>2. source' = source /\ queue' = queue /\ cancelled' = cancelled
    BY <1>8 DEF RecordParseError
  <2>3. recorded'[j] = recorded[j] + Ind(j, {k}) /\ recorded[j] \in Nat
    BY <1>1, <2>1 DEF Ind
  <2>4. Ind(j, hold[w]) = Ind(j, hold[w] \ {k}) + Ind(j, {k})
    BY <2>1 DEF Ind
  <2>5. /\ Cardinality(HoldersOf(j) \ {w}) \in Nat
        /\ Cardinality(HoldersOf(j)') = Cardinality(HoldersOf(j) \ {w})
                                          + Ind(j, hold[w] \ {k})
    BY <1>1, <2>1, HoldMoves
  <2>6. Occurrences(j)' = recorded'[j] + Cardinality(SourcesOf(j))
                            + CountIn(queue, j) + Cardinality(HoldersOf(j)')
    BY <2>2 DEF Occurrences, SourcesOf, HoldersOf, CountIn
  <2>7. /\ Cardinality(SourcesOf(j)) \in Nat /\ CountIn(queue, j) \in Nat
        /\ Ind(j, hold[w] \ {k}) \in Nat /\ Ind(j, {k}) \in Nat
    BY <1>1, FinitePlaces DEF Ind
  <2>8. QED
    BY <1>1, <2>2, <2>3, <2>4, <2>5, <2>6, <2>7, OccurrencesBut DEF Elsewhere
<1>9. CASE RecordLastParseError(w) \/ RecordScan(w)
  <2>1. source' = source /\ cancelled' = cancelled /\ \E exh, m : Ends(w, queue, exh, m)
    BY <1>9 DEF RecordLastParseError, RecordScan, Ends
  <2>2. \E k \in Wanted : hold[w] = {k} /\ recorded' = [recorded EXCEPT ![k] = @ + 1]
    BY <1>1, <1>9 DEF RecordLastParseError, RecordScan, Holds, HoldFits
  <2>3. Elsewhere(w, queue, recorded', j) = Occurrences(j)
    BY <1>1, <2>2, RecordedElsewhere
  <2>4. QED
    BY <1>1, <2>1, <2>3, EndsPairs
<1>10. QED
  BY <1>3, <1>4, <1>5, <1>6, <1>7, <1>8, <1>9 DEF Step

\* A worker that unwinds drops what it holds; one pair of that may have been
\* recorded.  No pair gains an occurrence.
LEMMA UnwindLosesAtMost ==
    ASSUME Counted, Holds, NEW w \in Workers, GiveUp(w) \/ Fail(w), NEW j \in Wanted
    PROVE  Occurrences(j)' \in Nat /\ Occurrences(j)' <= Occurrences(j) /\ cancelled'
<1>1. /\ TypeOK /\ queue \in Seq(Wanted)
      /\ hold \in [Workers -> SUBSET Wanted] /\ recorded \in [Wanted -> Nat]
  BY DEF Counted, TypeOK
<1>2. /\ hold' = [hold EXCEPT ![w] = {}]
      /\ source' = source /\ queue' = queue /\ cancelled'
  BY DEF GiveUp, Fail, Unwind
<1>3. /\ recorded'[j] \in Nat /\ recorded'[j] <= recorded[j] + Ind(j, hold[w])
      /\ recorded[j] \in Nat /\ Ind(j, hold[w]) \in Nat
  <2>1. \/ recorded' = recorded
        \/ \E k \in hold[w] : recorded' = [recorded EXCEPT ![k] = @ + 1]
    BY DEF GiveUp, Fail
  <2>2. CASE recorded' = recorded
    BY <1>1, <2>2 DEF Ind
  <2>3. CASE \E k \in hold[w] : recorded' = [recorded EXCEPT ![k] = @ + 1]
    <3>1. PICK k \in hold[w] : recorded' = [recorded EXCEPT ![k] = @ + 1]
      BY <2>3
    <3>2. CASE j = k
      BY <1>1, <3>1, <3>2 DEF Ind
    <3>3. CASE j # k
      BY <1>1, <3>1, <3>3 DEF Ind
    <3>4. QED
      BY <3>2, <3>3
  <2>4. QED
    BY <2>1, <2>2, <2>3
<1>4. /\ Cardinality(HoldersOf(j) \ {w}) \in Nat
      /\ Cardinality(HoldersOf(j)) = Cardinality(HoldersOf(j) \ {w}) + Ind(j, hold[w])
      /\ Cardinality(HoldersOf(j)') = Cardinality(HoldersOf(j) \ {w}) + Ind(j, {})
  BY <1>1, <1>2, HoldMoves
<1>5. Ind(j, {}) = 0
  BY DEF Ind
<1>6. Occurrences(j)' = recorded'[j] + Cardinality(SourcesOf(j))
                          + CountIn(queue, j) + Cardinality(HoldersOf(j)')
  BY <1>2 DEF Occurrences, SourcesOf, HoldersOf, CountIn
<1>7. QED
  BY <1>1, <1>2, <1>3, <1>4, <1>5, <1>6, OccurrencesAre

LEMMA PairInvInit == Init => PairInv
<1> SUFFICES ASSUME Init PROVE PairInv
  OBVIOUS
<1>1. Counted
  BY CountedInit
<1>2. Holds
  BY DEF Init, Holds, HoldFits
<1>3. ASSUME NEW j \in Wanted PROVE Occurrences(j) = 1
  <2>1. /\ recorded[j] = 0 /\ CountIn(queue, j) = 0 /\ Cardinality(HoldersOf(j)) = 0
    <3>1. {i \in DOMAIN queue : queue[i] = j} = {} /\ HoldersOf(j) = {} /\ recorded[j] = 0
      BY EmptySeq DEF Init, HoldersOf
    <3>2. QED
      BY <3>1, FS_EmptySet DEF CountIn
  <2>2. Cardinality(SourcesOf(j)) = 1
    <3>1. SourcesOf(j) = {j[1]}
      BY WantedAssumption DEF Init, SourcesOf, JobsOf
    <3>2. QED
      BY <3>1, FS_Singleton
  <2>3. QED
    BY <1>1, <2>1, <2>2, OccurrencesAre DEF Counted
<1>4. QED
  BY <1>1, <1>2, <1>3 DEF Init, PairInv, NoPairLostOrDoubled

LEMMA PairInvNext == PairInv /\ [Next]_vars => PairInv'
<1> SUFFICES ASSUME PairInv, [Next]_vars PROVE PairInv'
  OBVIOUS
<1>1. Counted /\ Holds /\ Counted' /\ Holds'
  BY CountedNext, HoldsNext DEF PairInv
<1>2. SUFFICES ASSUME NEW j \in Wanted
               PROVE  IF cancelled' THEN Occurrences(j)' <= 1 ELSE Occurrences(j)' = 1
  BY <1>1 DEF PairInv, NoPairLostOrDoubled
<1>3. /\ IF cancelled THEN Occurrences(j) <= 1 ELSE Occurrences(j) = 1
      /\ Occurrences(j) \in Nat
  BY <1>1, OccurrencesAre DEF Counted, PairInv, NoPairLostOrDoubled
<1>4. ASSUME Occurrences(j)' = Occurrences(j), cancelled' = cancelled \/ cancelled'
      PROVE  IF cancelled' THEN Occurrences(j)' <= 1 ELSE Occurrences(j)' = 1
  BY <1>3, <1>4
<1>5. ASSUME NEW w \in Workers, Step(w), ~GiveUp(w)
      PROVE  IF cancelled' THEN Occurrences(j)' <= 1 ELSE Occurrences(j)' = 1
  BY <1>1, <1>4, <1>5, StepKeepsOccurrences
<1>6. ASSUME NEW w \in Workers, GiveUp(w) \/ Fail(w)
      PROVE  IF cancelled' THEN Occurrences(j)' <= 1 ELSE Occurrences(j)' = 1
  <2>1. Occurrences(j)' \in Nat /\ Occurrences(j)' <= Occurrences(j) /\ cancelled'
    BY <1>1, <1>6, UnwindLosesAtMost
  <2>2. QED
    BY <1>3, <2>1
<1>7. CASE Interrupt \/ Close \/ Closed \/ UNCHANGED vars
  <2>1. UNCHANGED <<source, queue, recorded, hold>> /\ (cancelled' = cancelled \/ cancelled')
    BY <1>7 DEF Interrupt, Close, Closed, vars
  <2>2. Occurrences(j)' = Occurrences(j)
    BY <2>1 DEF Occurrences
  <2>3. QED
    BY <1>4, <2>1, <2>2
<1>8. QED
  BY <1>5, <1>6, <1>7 DEF Next

\* Until something fails every wanted pair is in exactly one place between
\* the parse jobs and the recorder, whichever way the workers interleave; and
\* a failure or an interrupt loses pairs but never records one twice.
THEOREM NoPairIsLostOrDoubled == Spec => []NoPairLostOrDoubled
<1>1. Init => PairInv
  BY PairInvInit
<1>2. PairInv /\ [Next]_vars => PairInv'
  BY PairInvNext
<1>3. PairInv => NoPairLostOrDoubled
  BY DEF PairInv
<1>4. QED
  BY <1>1, <1>2, <1>3, PTL DEF Spec

-----------------------------------------------------------------------------
(* The deque is bounded *)

\* From the choice to parse to the end of the parse.
OnParse == {"locking", "pulling", "parsing", "reporting"}

\* What a parse job adds beyond the job its worker goes on to pop, and the
\* deque at which nobody chooses to parse any more.
Surplus == Cardinality(Scanners) - 1
Threshold == (4 * MaxQueue - 1) \div 5

\* Every worker on a parse has its surplus still to come.
SurplusFits ==
    Len(queue) + Population(OnParse) * Surplus
        <= Threshold + Cardinality(Workers) * Surplus

LEMMA BoundConstants ==
    Surplus \in Nat /\ Threshold \in Nat /\ Cardinality(Workers) \in Nat
<1>1. Cardinality(Scanners) \in Nat /\ Cardinality(Scanners) # 0
  BY ScannersAssumption, FS_CardinalityType, FS_EmptySet
<1>2. Surplus \in Nat
  BY <1>1 DEF Surplus
<1>3. Threshold \in Nat
  BY MaxQueueAssumption DEF Threshold
<1>4. QED
  BY <1>2, <1>3, WorkersAssumption, FS_CardinalityType

LEMMA Times ==
    ASSUME NEW a \in Nat, NEW b \in Nat, NEW k \in Nat
    PROVE  /\ a * k \in Nat
           /\ (a + 1) * k = a * k + k
           /\ a <= b => a * k <= b * k
<1>1. a * k \in Nat
  OBVIOUS
<1>2. (a + 1) * k = a * k + k
  OBVIOUS
<1>3. ASSUME a <= b PROVE a * k <= b * k
  <2>1. PICK c \in Nat : b = a + c
    <3>1. b - a \in Nat /\ b = a + (b - a)
      BY <1>3
    <3>2. QED
      BY <3>1
  <2>2. b * k = a * k + c * k
    BY <2>1
  <2>3. a * k \in Nat /\ c * k \in Nat
    OBVIOUS
  <2>4. QED
    BY <2>2, <2>3
<1>4. QED
  BY <1>1, <1>2, <1>3

\* A parse job stands for one pair per scanner at most.
LEMMA JobFits ==
    ASSUME NEW H \in SUBSET Wanted, \A j, k \in H : j[1] = k[1]
    PROVE  Cardinality(H) \in Nat /\ Cardinality(H) <= Surplus + 1
<1> DEFINE f == [j \in H |-> j[2]]
<1>1. f \in Injection(H, Scanners)
  <2>1. f \in [H -> Scanners]
    BY WantedAssumption
  <2>2. ASSUME NEW j \in H, NEW k \in H, f[j] = f[k] PROVE j = k
    <3>1. j \in Transcripts \X Scanners /\ k \in Transcripts \X Scanners
      BY WantedAssumption
    <3>2. j[1] = k[1] /\ j[2] = k[2]
      BY <2>2
    <3>3. QED
      BY <3>1, <3>2
  <2>3. QED
    BY <2>1, <2>2 DEF Injection, IsInjective
<1>2. IsFiniteSet(H) /\ Cardinality(H) <= Cardinality(Scanners)
  BY <1>1, ScannersAssumption, FS_Injection
<1>3. QED
  BY <1>2, ScannersAssumption, FS_CardinalityType DEF Surplus

\* A worker parses only while the deque is short.
LEMMA ParseMeansShort ==
    ASSUME NEW len \in Nat, NEW exh, NEW parsing, Choose(len, exh, parsing) = "parse"
    PROVE  len <= Threshold
<1>1. len < MaxQueue /\ WorthParsing(len, parsing)
  <2>1. (len < MaxQueue /\ ~exh /\ WorthParsing(len, parsing))
          \/ Choose(len, exh, parsing) \in {"scan", "wait"}
    BY DEF Choose
  <2>2. QED
    BY <2>1
<1>2. MaxQueue \in Nat /\ MaxQueue > 0
  BY MaxQueueAssumption
<1>3. 5 * len <= 4 * MaxQueue - 1
  BY <1>1, <1>2 DEF WorthParsing
<1>4. QED
  BY <1>2, <1>3 DEF Threshold

\* Populations are within the workers.
LEMMA PopulationFits ==
    ASSUME NEW f, NEW places
    PROVE  PopOf(f, places) \in Nat /\ PopOf(f, places) <= Cardinality(Workers)
<1>1. {w \in Workers : f[w] \in places} \in SUBSET Workers
  OBVIOUS
<1>2. QED
  BY <1>1, WorkersAssumption, FS_Subset, FS_CardinalityType DEF PopOf

BoundInv == Counted /\ Holds /\ SurplusFits

\* An operation may leave one pair more than fits without w's own surplus:
\* either w pops it, or the deque is short.
LEMMA EndsBound ==
    ASSUME TypeOK, NEW w \in Workers, NEW q \in Seq(Wanted), NEW exh, NEW m,
           Ends(w, q, exh, m),
           Len(q) + (Population(OnParse) - Ind(pc[w], OnParse)) * Surplus
               <= Threshold + Cardinality(Workers) * Surplus + 1
    PROVE  SurplusFits'
<1> DEFINE P == Population(OnParse) - Ind(pc[w], OnParse)
           N == Cardinality(Workers)
<1>1. /\ pc \in Placements /\ Len(q) \in Nat
      /\ Surplus \in Nat /\ Threshold \in Nat /\ N \in Nat
  BY BoundConstants, LenProperties DEF TypeOK, Placements
<1>0. SurplusFits' <=> Len(queue') + Population(OnParse)' * Surplus
                         <= Threshold + N * Surplus
  BY DEF SurplusFits, Surplus, Threshold
<1>2. ASSUME NEW c \in PC, pc' = [pc EXCEPT ![w] = c]
      PROVE  /\ Population(OnParse)' = P + Ind(c, OnParse)
             /\ P \in Nat /\ Population(OnParse)' \in Nat /\ Population(OnParse)' <= N
  <2>1. /\ Population(OnParse) \in Nat
        /\ Population(OnParse) >= Ind(pc[w], OnParse)
        /\ Population(OnParse)' = Population(OnParse) + Ind(c, OnParse) - Ind(pc[w], OnParse)
    BY <1>1, <1>2, MovePopulation DEF Moves
  <2>2. Ind(c, OnParse) \in Nat /\ Ind(pc[w], OnParse) \in Nat
    BY DEF Ind
  <2>3. Population(OnParse)' = PopOf(pc', OnParse)
    BY DEF Population, PopOf
  <2>4. QED
    BY <2>1, <2>2, <2>3, PopulationFits
<1>3. \/ /\ pc' = [pc EXCEPT ![w] = "locking"]
         /\ Choose(Len(q), exh, m.parsing) = "parse" /\ queue' = q
      \/ /\ \E c \in {"waiting", "done"} : pc' = [pc EXCEPT ![w] = c]
         /\ q = <<>> /\ queue' = q
      \/ /\ pc' = [pc EXCEPT ![w] = "scanning"]
         /\ q # <<>> /\ queue' = Tail(q)
  <2>1. CASE EndIteration(w, q, exh, m)
    BY <2>1, EndEffect
  <2>2. CASE StartNext(w, q, exh, m)
    BY <2>2, StartNextEffect
  <2>3. QED
    BY <2>1, <2>2 DEF Ends
<1>4. {"locking", "waiting", "done", "scanning"} \subseteq PC
  BY DEF PC
<1>5. ASSUME NEW c \in PC, pc' = [pc EXCEPT ![w] = c], queue' = q, Len(q) <= Threshold
      PROVE  SurplusFits'
  <2>1. Population(OnParse)' \in Nat /\ Population(OnParse)' <= N
    BY <1>2, <1>5
  <2>2. /\ Population(OnParse)' * Surplus <= N * Surplus
        /\ Population(OnParse)' * Surplus \in Nat /\ N * Surplus \in Nat
    BY <1>1, <2>1, Times
  <2>3. QED
    BY <1>0, <1>1, <1>5, <2>2
<1>6. CASE pc' = [pc EXCEPT ![w] = "scanning"] /\ q # <<>> /\ queue' = Tail(q)
  <2>1. Ind("scanning", OnParse) = 0 /\ "scanning" \in PC
    BY <1>4 DEF Ind, OnParse
  <2> HIDE DEF P
  <2>2. Population(OnParse)' = P /\ P \in Nat
    <3>1. /\ Population(OnParse)' = P + Ind("scanning", OnParse)
          /\ P \in Nat
      BY <1>2, <1>6, <2>1, Zenon
    <3>2. QED
      BY <2>1, <3>1
  <2>3. Len(queue') = Len(q) - 1
    BY <1>6, HeadTailProperties
  <2>4. P * Surplus \in Nat /\ N * Surplus \in Nat
    BY <1>1, <2>2, Times
  <2>5. QED
    BY <1>0, <1>1, <2>2, <2>3, <2>4 DEF P
<1>7. CASE /\ pc' = [pc EXCEPT ![w] = "locking"]
           /\ Choose(Len(q), exh, m.parsing) = "parse" /\ queue' = q
  BY <1>1, <1>4, <1>5, <1>7, ParseMeansShort
<1>8. CASE /\ \E c \in {"waiting", "done"} : pc' = [pc EXCEPT ![w] = c]
           /\ q = <<>> /\ queue' = q
  <2>1. Len(q) = 0 /\ Len(q) <= Threshold
    BY <1>1, <1>8
  <2>2. PICK c \in {"waiting", "done"} : pc' = [pc EXCEPT ![w] = c]
    BY <1>8
  <2>3. c \in PC
    BY <1>4
  <2>4. QED
    BY <1>5, <1>8, <2>1, <2>2, <2>3, Zenon
<1>9. QED
  BY <1>3, <1>6, <1>7, <1>8

LEMMA BoundInvNext == BoundInv /\ [Next]_vars => BoundInv'
<1> SUFFICES ASSUME BoundInv, [Next]_vars PROVE BoundInv'
  OBVIOUS
<1> DEFINE N == Cardinality(Workers)
           P == Population(OnParse)
<1>1. /\ Counted /\ Holds /\ Counted' /\ Holds' /\ TypeOK
      /\ pc \in Placements /\ pc \in [Workers -> PC] /\ hold \in [Workers -> SUBSET Wanted]
      /\ queue \in Seq(Wanted) /\ Len(queue) \in Nat
  BY CountedNext, HoldsNext, LenProperties DEF BoundInv, Counted, TypeOK, Placements
<1>2. /\ Surplus \in Nat /\ Threshold \in Nat /\ N \in Nat
      /\ Len(queue) + P * Surplus <= Threshold + N * Surplus
  BY BoundConstants DEF BoundInv, SurplusFits
<1>3. SurplusFits' <=> Len(queue') + Population(OnParse)' * Surplus
                         <= Threshold + N * Surplus
  BY DEF SurplusFits, Surplus, Threshold
<1>4. SUFFICES SurplusFits'
  BY <1>1 DEF BoundInv
<1>5. ASSUME NEW w \in Workers, NEW c \in PC, pc' = [pc EXCEPT ![w] = c]
      PROVE  /\ P \in Nat /\ P >= Ind(pc[w], OnParse)
             /\ Population(OnParse)' = P + Ind(c, OnParse) - Ind(pc[w], OnParse)
  BY <1>1, <1>5, MovePopulation DEF Moves
<1>6. ASSUME NEW w \in Workers
      PROVE  P \in Nat /\ P >= Ind(pc[w], OnParse) /\ Ind(pc[w], OnParse) \in {0, 1}
  <2>1. PopOf(pc, OnParse) \in Nat /\ PopOf(pc, OnParse) >= Ind(pc[w], OnParse)
    <3>1. Moves(pc, pc, w, pc[w]) /\ pc[w] \in PC
      BY <1>1 DEF Moves
    <3>2. QED
      BY <1>1, <3>1, PopUpdate
  <2>2. QED
    BY <2>1 DEF Population, PopOf, Ind
<1>7. ASSUME NEW w \in Workers, NEW c \in PC, pc' = [pc EXCEPT ![w] = c],
             queue' = queue, Ind(c, OnParse) <= Ind(pc[w], OnParse)
      PROVE  SurplusFits'
  <2>1. /\ Ind(c, OnParse) \in {0, 1} /\ Ind(pc[w], OnParse) \in {0, 1}
        /\ P \in Nat /\ P >= Ind(pc[w], OnParse)
        /\ Population(OnParse)' = P + Ind(c, OnParse) - Ind(pc[w], OnParse)
    BY <1>5, <1>7 DEF Ind
  <2> HIDE DEF P, N
  <2>2. Population(OnParse)' \in Nat /\ Population(OnParse)' <= P
    BY <1>7, <2>1
  <2>3. Population(OnParse)' * Surplus <= P * Surplus
    BY <1>2, <2>1, <2>2, Times
  <2>4. Population(OnParse)' * Surplus \in Nat /\ P * Surplus \in Nat /\ N * Surplus \in Nat
    BY <1>2, <2>1, <2>2, Times
  <2>5. QED
    BY <1>1, <1>2, <1>3, <1>7, <2>3, <2>4 DEF N
\* Operations that leave the deque alone.
<1>8. ASSUME NEW w \in Workers, \E exh, m : Ends(w, queue, exh, m)
      PROVE  SurplusFits'
  <2>1. P - Ind(pc[w], OnParse) \in Nat /\ P - Ind(pc[w], OnParse) <= P /\ P \in Nat
    BY <1>6
  <2>2. (P - Ind(pc[w], OnParse)) * Surplus <= P * Surplus
    BY <1>2, <2>1, Times
  <2>3. (P - Ind(pc[w], OnParse)) * Surplus \in Nat /\ P * Surplus \in Nat
        /\ N * Surplus \in Nat
    BY <1>2, <2>1, Times
  <2>4. Len(queue) + (P - Ind(pc[w], OnParse)) * Surplus <= Threshold + N * Surplus + 1
    <3> HIDE DEF P, N
    <3>1. QED
      BY <1>1, <1>2, <2>2, <2>3
  <2>5. QED
    BY <1>1, <1>8, <2>4, EndsBound
<1>9. ASSUME NEW w \in Workers, ParseSucceeds(w) PROVE SurplusFits'
  <2> DEFINE q == queue \o ParsedJobs(w)
  <2>1. q \in Seq(Wanted) /\ Len(q) = Len(queue) + Cardinality(hold[w])
    BY <1>1, ExtendedCount DEF ParsedJobs
  <2>2. \E exh, m : Ends(w, q, exh, m)
    BY <1>9 DEF ParseSucceeds, Ends
  <2>3. Cardinality(hold[w]) \in Nat /\ Cardinality(hold[w]) <= Surplus + 1
    BY <1>1, JobFits DEF Holds, HoldFits
  <2>4. Ind(pc[w], OnParse) = 1
    BY <1>9 DEF ParseSucceeds, Ind, OnParse
  <2>5. P - 1 \in Nat /\ P \in Nat
    BY <1>6, <2>4
  <2>6. P * Surplus = (P - 1) * Surplus + Surplus /\ (P - 1) * Surplus \in Nat
    <3> HIDE DEF P
    <3>1. ((P - 1) + 1) * Surplus = (P - 1) * Surplus + Surplus /\ (P - 1) * Surplus \in Nat
      BY <1>2, <2>5, Times
    <3>2. (P - 1) + 1 = P
      BY <2>5
    <3>3. QED
      BY <3>1, <3>2
  <2>7. N * Surplus \in Nat
    BY <1>2, Times
  <2> HIDE DEF q
  <2>8. Len(q) + (P - Ind(pc[w], OnParse)) * Surplus <= Threshold + N * Surplus + 1
    <3> HIDE DEF P, N
    <3>1. QED
      BY <1>1, <1>2, <2>1, <2>3, <2>4, <2>6, <2>7
  <2>9. QED
    BY <1>1, <2>1, <2>2, <2>8, EndsBound
<1>10. ASSUME NEW w \in Workers, PullParseJob(w) \/ AcquireIterator(w) \/ ParseFails(w)
       PROVE  SurplusFits'
  <2>1. PICK c \in {"pulling", "parsing", "reporting"} :
           pc' = [pc EXCEPT ![w] = c] /\ queue' = queue
    BY <1>10 DEF PullParseJob, AcquireIterator, ParseFails
  <2>2. c \in PC /\ Ind(c, OnParse) = 1
    BY DEF PC, Ind, OnParse
  <2>3. Ind(pc[w], OnParse) = 1
    BY <1>10 DEF PullParseJob, AcquireIterator, ParseFails, Ind, OnParse
  <2>4. Ind(c, OnParse) <= Ind(pc[w], OnParse)
    BY <2>2, <2>3
  <2>5. QED
    BY <1>7, <2>1, <2>2, <2>4
<1>11. ASSUME NEW w \in Workers, ScanReturns(w) PROVE SurplusFits'
  <2>1. "recording" \in PC /\ Ind("recording", OnParse) = 0 /\ Ind(pc[w], OnParse) = 0
    BY <1>11 DEF ScanReturns, PC, Ind, OnParse
  <2>2. Ind("recording", OnParse) <= Ind(pc[w], OnParse)
    BY <2>1
  <2>3. QED
    BY <1>7, <1>11, <2>1, <2>2 DEF ScanReturns
<1>12. ASSUME NEW w \in Workers, GiveUp(w) \/ Fail(w) PROVE SurplusFits'
  BY <1>7, <1>12 DEF GiveUp, Fail, Unwind, PC, Ind, OnParse
<1>13. ASSUME NEW w \in Workers,
              \/ Begin(w) \/ SourceExhausted(w) \/ RecordLastParseError(w)
              \/ RecordScan(w) \/ Wake(w)
       PROVE  SurplusFits'
  <2>1. \E exh, m : Ends(w, queue, exh, m)
    BY <1>13 DEF Begin, SourceExhausted, RecordLastParseError, RecordScan, Wake, Ends
  <2>2. QED
    BY <1>8, <2>1
<1>14. ASSUME UNCHANGED <<pc, queue>> PROVE SurplusFits'
  BY <1>14 DEF BoundInv, SurplusFits, Surplus, Threshold, Population
<1>15. ASSUME \/ \E w \in Workers : RecordParseError(w)
              \/ Interrupt \/ Close \/ Closed \/ UNCHANGED vars
       PROVE  SurplusFits'
  BY <1>14, <1>15 DEF RecordParseError, Interrupt, Close, Closed, vars
<1>16. QED
  BY <1>9, <1>10, <1>11, <1>12, <1>13, <1>15 DEF Next, Step

\* The deque overshoots its limit by a bounded amount, however many workers
\* decide to parse at the same moment.
THEOREM DequeIsBounded == Spec => []QueueBounded
<1>1. Init => BoundInv
  <2> SUFFICES ASSUME Init PROVE BoundInv
    OBVIOUS
  <2>1. Counted /\ Holds
    BY CountedInit, PairInvInit DEF PairInv
  <2>2. Population(OnParse) = 0 /\ Len(queue) = 0
    <3>1. {w \in Workers : pc[w] \in OnParse} = {} /\ queue = <<>>
      BY DEF Init, OnParse
    <3>2. QED
      BY <3>1, FS_EmptySet, EmptySeq DEF Population
  <2>3. /\ Cardinality(Workers) * Surplus \in Nat /\ 0 * Surplus = 0
        /\ Surplus \in Nat /\ Threshold \in Nat
    BY BoundConstants, Times
  <2>4. SurplusFits
    BY <2>2, <2>3 DEF SurplusFits
  <2>5. QED
    BY <2>1, <2>4 DEF BoundInv
<1>2. BoundInv /\ [Next]_vars => BoundInv'
  BY BoundInvNext
<1>3. BoundInv => QueueBounded
  <2> SUFFICES ASSUME BoundInv PROVE QueueBounded
    OBVIOUS
  <2>1. Population(OnParse) \in Nat
    BY PopulationFits DEF Population, PopOf
  <2>2. Population(OnParse) * Surplus \in Nat /\ Cardinality(Workers) * Surplus \in Nat
    BY <2>1, BoundConstants, Times
  <2>3. Len(queue) \in Nat
    BY LenProperties DEF BoundInv, Counted, TypeOK
  <2>4. Len(queue) <= Threshold + Cardinality(Workers) * Surplus
    BY <2>2, <2>3, BoundConstants DEF BoundInv, SurplusFits
  <2>5. QED
    BY <2>4 DEF QueueBounded, Threshold, Surplus
<1>4. QED
  BY <1>1, <1>2, <1>3, PTL DEF Spec

-----------------------------------------------------------------------------
(* The pool takes no step its contract does not allow *)

RefineInv == PairInv /\ LeaveInv

\* A pair a worker holds has not been recorded.
LEMMA HeldMeansUnrecorded ==
    ASSUME PairInv, NEW w \in Workers, NEW j \in hold[w]
    PROVE  j \in Wanted /\ recorded[j] = 0
<1>1. TypeOK /\ j \in Wanted /\ Occurrences(j) \in Nat /\ Occurrences(j) <= 1
  <2>1. TypeOK /\ j \in Wanted
    BY DEF PairInv, Counted, TypeOK
  <2>2. Occurrences(j) \in Nat
    BY <2>1, OccurrencesAre
  <2>3. QED
    BY <2>1, <2>2 DEF PairInv, NoPairLostOrDoubled
<1>2. /\ Occurrences(j) = Elsewhere(w, queue, recorded, j) + 1
      /\ Elsewhere(w, queue, recorded, j) \in Nat
  BY <1>1, OccurrencesBut DEF Ind
<1>3. Elsewhere(w, queue, recorded, j) = 0
  BY <1>1, <1>2
<1>4. /\ recorded[j] \in Nat /\ Cardinality(SourcesOf(j)) \in Nat
      /\ CountIn(queue, j) \in Nat /\ Cardinality(HoldersOf(j) \ {w}) \in Nat
  <2>1. queue \in Seq(Wanted)
    BY <1>1 DEF TypeOK
  <2>2. IsFiniteSet(HoldersOf(j))
    BY <2>1, FinitePlaces
  <2>3. Cardinality(HoldersOf(j) \ {w}) \in Nat
    BY <2>2, CountWithout
  <2>4. QED
    BY <1>1, <2>3, OccurrencesAre
<1>5. QED
  BY <1>1, <1>3, <1>4 DEF Elsewhere

\* When the strategy ends and nothing has failed, every pair is recorded.
LEMMA AllRecordedAtTheEnd ==
    ASSUME PairInv, LeaveInv, ~cancelled, \A w \in Workers : pc[w] = "done", NEW j \in Wanted
    PROVE  recorded[j] = 1
<1>1. source = {} /\ queue = <<>>
  BY WorkersAssumption DEF LeaveInv, NoEarlyLeave
<1>2. HoldersOf(j) = {} /\ SourcesOf(j) = {} /\ {i \in DOMAIN queue : queue[i] = j} = {}
  BY <1>1, EmptySeq DEF HoldersOf, SourcesOf, PairInv, Holds, HoldFits
<1>3. /\ Cardinality(HoldersOf(j)) = 0 /\ Cardinality(SourcesOf(j)) = 0
      /\ CountIn(queue, j) = 0
  BY <1>2, FS_EmptySet, Zenon DEF CountIn
<1>4. Occurrences(j) = 1
  BY DEF PairInv, NoPairLostOrDoubled
<1>5. TypeOK
  BY DEF PairInv, Counted
<1>6. QED
  BY <1>3, <1>4, <1>5, OccurrencesAre

\* A step that records nothing and does not end the strategy is a stutter.
LEMMA SilentStep ==
    ASSUME recorded' = recorded, ~closed, ~closed'
    PROVE  UNCHANGED Strategy!strategyVars
BY DEF Strategy!strategyVars

\* Recording a pair that a worker holds is a Record step.
LEMMA RecordStep ==
    ASSUME PairInv, NEW w \in Workers, NEW j \in hold[w], ~closed, ~closed',
           recorded' = [recorded EXCEPT ![j] = @ + 1]
    PROVE  Strategy!StrategyNext
<1>1. j \in Wanted /\ recorded[j] = 0
  BY HeldMeansUnrecorded
<1>2. recorded' = [recorded EXCEPT ![j] = 1]
  BY <1>1
<1>3. Strategy!Record(j)
  BY <1>1, <1>2 DEF Strategy!Record
<1>4. QED
  BY <1>1, <1>3 DEF Strategy!StrategyNext

LEMMA StepRefines ==
    RefineInv /\ [Next]_vars => [Strategy!StrategyNext]_(Strategy!strategyVars)
<1> SUFFICES ASSUME RefineInv, [Next]_vars
             PROVE  Strategy!StrategyNext \/ UNCHANGED Strategy!strategyVars
  OBVIOUS
<1>1. PairInv /\ LeaveInv /\ TypeOK
  BY DEF RefineInv, PairInv, Counted
<1>2. ASSUME NEW w \in Workers, pc[w] # "done" PROVE ~closed
  BY <1>1, <1>2 DEF PairInv, Holds
<1>3. ASSUME NEW w \in Workers, Step(w) \/ Fail(w)
      PROVE  Strategy!StrategyNext \/ UNCHANGED Strategy!strategyVars
  <2>1. ~closed /\ ~closed'
    <3>1. pc[w] # "done" /\ closed' = closed
      BY <1>3 DEF Step, Begin, AcquireIterator, PullParseJob, SourceExhausted,
                  ParseSucceeds, ParseFails, RecordParseError, RecordLastParseError,
                  ScanReturns, RecordScan, Wake, GiveUp, Fail
    <3>2. QED
      BY <1>2, <3>1
  <2>2. \/ recorded' = recorded
        \/ \E j \in hold[w] : recorded' = [recorded EXCEPT ![j] = @ + 1]
    BY <1>3 DEF Step, Begin, AcquireIterator, PullParseJob, SourceExhausted,
                ParseSucceeds, ParseFails, RecordParseError, RecordLastParseError,
                ScanReturns, RecordScan, Wake, GiveUp, Fail
  <2>3. QED
    BY <1>1, <2>1, <2>2, SilentStep, RecordStep
<1>4. CASE Interrupt
  <2>1. recorded' = recorded /\ closed' = closed /\ ~closed
    BY <1>2, <1>4 DEF Interrupt
  <2>2. QED
    BY <2>1, SilentStep
<1>5. CASE Close
  <2>1. /\ ~closed /\ closed' /\ cancelled' = cancelled /\ recorded' = recorded
        /\ \A w \in Workers : pc[w] = "done"
    BY <1>5 DEF Close
  <2>2. CASE cancelled
    BY <2>1, <2>2 DEF Strategy!StrategyNext, Strategy!Raise
  <2>3. CASE ~cancelled
    <3>1. \A j \in Wanted : recorded[j] = 1
      BY <1>1, <2>1, <2>3, AllRecordedAtTheEnd
    <3>2. Strategy!Return
      BY <2>1, <2>3, <3>1 DEF Strategy!Return
    <3>3. QED
      BY <3>2 DEF Strategy!StrategyNext
  <2>4. QED
    BY <2>2, <2>3
<1>6. CASE Closed \/ UNCHANGED vars
  BY <1>6 DEF Closed, vars, Strategy!strategyVars
<1>7. QED
  BY <1>3, <1>4, <1>5, <1>6 DEF Next

\* The pool implements the safety part of what a strategy promises: it records
\* each pair at most once, returns only when every pair has been recorded, and
\* records nothing after it has returned or raised.  (That it ends, the rest
\* of ImplementsStrategy, is liveness.)
THEOREM PoolKeepsTheContract ==
    Spec => Strategy!StrategyInit /\ [][Strategy!StrategyNext]_(Strategy!strategyVars)
<1>1. Init => Strategy!StrategyInit
  BY DEF Init, Strategy!StrategyInit
<1>2. Init => RefineInv
  <2>1. Init => PairInv
    BY PairInvInit
  <2>2. Init => LeaveInv
    BY CountedInit DEF Init, LeaveInv, ExhaustedMeansNoSource, NoEarlyLeave
  <2>3. QED
    BY <2>1, <2>2 DEF RefineInv
<1>3. RefineInv /\ [Next]_vars => RefineInv'
  BY PairInvNext, LeaveInvNext DEF RefineInv
<1>4. RefineInv /\ [Next]_vars => [Strategy!StrategyNext]_(Strategy!strategyVars)
  BY StepRefines
<1>5. QED
  BY <1>1, <1>2, <1>3, <1>4, PTL DEF Spec
=============================================================================
