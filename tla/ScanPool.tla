------------------------------ MODULE ScanPool ------------------------------
(***************************************************************************)
(* The single-process execution strategy (_concurrency/single_process.py). *)
(* A fixed set of worker tasks of one event loop share a deque of scanner  *)
(* jobs.  Each worker repeatedly asks the scheduler whether to parse (pull *)
(* a transcript and turn it into scanner jobs), to scan (pop a job and run *)
(* its scanner) or to wait, and leaves when it finds every other live      *)
(* worker idle, nothing buffered and the transcripts exhausted.            *)
(*                                                                         *)
(* A task only loses control at an await, so one action below runs from    *)
(* the return of one await to the next await: the end of an operation, the *)
(* exit test, the scheduler's choice and the start of what it chose.       *)
(***************************************************************************)
EXTENDS Integers, Sequences, FiniteSets, SequencesExt

CONSTANTS
    Workers,         \* the worker tasks: range(task_count)
    Transcripts,     \* the transcripts of the scan
    Scanners,        \* the scanners of the scan
    Wanted,          \* pairs the parse jobs ask for (the others are recorded already)
    MaxQueue         \* max_scanner_job_queue_size = int(task_count * prefetch_multiple)

ASSUME WorkersAssumption == IsFiniteSet(Workers) /\ Workers # {}
ASSUME ScannersAssumption == IsFiniteSet(Scanners) /\ Scanners # {}
ASSUME WantedAssumption == Wanted \subseteq Transcripts \X Scanners /\ IsFiniteSet(Wanted)
ASSUME MaxQueueAssumption == MaxQueue \in Nat \ {0}

VARIABLES
    pc,              \* where each worker task is suspended
    hold,            \* the pairs a worker has taken and not yet passed on
    source,          \* transcripts parse_jobs has not yielded yet
    exhausted,       \* parse_jobs_exhausted
    queue,           \* scanner_job_deque
    metrics,         \* the counters of ScanMetrics the scheduler reads
    cancelled,       \* the task group's cancel scope has been cancelled
    recorded,        \* how many times record_results ran for a pair
    closed           \* the strategy has run its finally block

vars == <<pc, hold, source, exhausted, queue, metrics, cancelled, recorded, closed>>

\* Suspension points of _worker_task.  "new": not started; "locking": waiting
\* for the iterator's lock; "pulling": inside anext(parse_jobs); "reporting":
\* recording the reports of a failed parse; "waiting": asleep in _perform_wait.
PC == {"new", "locking", "pulling", "parsing", "reporting",
       "scanning", "recording", "waiting", "done"}

\* Where a worker is counted by task_count, tasks_parsing, tasks_scanning, tasks_idle.
Alive == PC \ {"done"}
Parsing == {"parsing", "reporting"}
Scanning == {"scanning", "recording"}
Idle == {"waiting"}

\* The scanner jobs that parse job t stands for.
JobsOf(t) == {j \in Wanted : j[1] = t}

Metrics == [count : Nat, idle : Nat, parsing : Nat, scanning : Nat]

TypeOK ==
    /\ pc \in [Workers -> PC]
    /\ hold \in [Workers -> SUBSET Wanted]
    /\ source \subseteq Transcripts
    /\ exhausted \in BOOLEAN
    /\ queue \in Seq(Wanted)
    /\ metrics \in Metrics
    /\ cancelled \in BOOLEAN
    /\ recorded \in [Wanted -> Nat]
    /\ closed \in BOOLEAN

Init ==
    /\ pc = [w \in Workers |-> "new"]
    /\ hold = [w \in Workers |-> {}]
    /\ source = {t \in Transcripts : JobsOf(t) # {}}
    /\ exhausted = FALSE
    /\ queue = <<>>
    /\ metrics = [count |-> Cardinality(Workers), idle |-> 0, parsing |-> 0, scanning |-> 0]
    /\ cancelled = FALSE
    /\ recorded = [j \in Wanted |-> 0]
    /\ closed = FALSE

-----------------------------------------------------------------------------
(* The scheduler *)

\* Rules 2, 3 and 5: nothing is buffered; or little is and fewer than two
\* workers parse; or the buffer is below 80% and nobody parses.
WorthParsing(len, parsing) ==
    \/ len = 0
    \/ 5 * len < MaxQueue /\ parsing < 2
    \/ 5 * len < 4 * MaxQueue /\ parsing = 0

\* _choose_next_action: rule 1 (a full buffer must be scanned) wins over the
\* parse rules, and scanning (rules 4 and 6) over waiting (rule 7).
Choose(len, exh, parsing) ==
    IF len < MaxQueue /\ ~exh /\ WorthParsing(len, parsing) THEN "parse"
    ELSE IF len > 0 THEN "scan"
    ELSE "wait"

\* Faulty variants of the exit test: the others need not be idle; the worker
\* that asks would have to be idle itself.
MayLeaveWhenDrained(q, exh, m) == exh /\ q = <<>>
MayLeaveAllIdle(q, exh, m) == exh /\ q = <<>> /\ m.idle = m.count

\* The exit test at the end of an iteration of _worker_task.
MayLeave(q, exh, m) == exh /\ q = <<>> /\ m.idle = m.count - 1

\* popleft(), and a faulty variant that reads the job without removing it.
NotPopped(q) == q
Popped(q) == Tail(q)

\* Consult the scheduler and run the chosen operation up to its first await.
StartNext(w, q, exh, m) ==
    \/ /\ Choose(Len(q), exh, m.parsing) = "parse"
       /\ pc' = [pc EXCEPT ![w] = "locking"]
       /\ hold' = [hold EXCEPT ![w] = {}]
       /\ queue' = q
       /\ metrics' = m
    \/ /\ Choose(Len(q), exh, m.parsing) = "scan"
       /\ pc' = [pc EXCEPT ![w] = "scanning"]
       /\ hold' = [hold EXCEPT ![w] = {Head(q)}]
       /\ queue' = Popped(q)
       /\ metrics' = [m EXCEPT !.scanning = @ + 1]
    \/ /\ Choose(Len(q), exh, m.parsing) = "wait"
       /\ pc' = [pc EXCEPT ![w] = "waiting"]
       /\ hold' = [hold EXCEPT ![w] = {}]
       /\ queue' = q
       /\ metrics' = [m EXCEPT !.idle = @ + 1]

\* What follows an operation of w that left the deque at q, the flag at exh
\* and the counters at m: leave (with the finally of _worker_task) or go on.
EndIteration(w, q, exh, m) ==
    /\ exhausted' = exh
    /\ \/ /\ MayLeave(q, exh, m)
          /\ pc' = [pc EXCEPT ![w] = "done"]
          /\ hold' = [hold EXCEPT ![w] = {}]
          /\ queue' = q
          /\ metrics' = [m EXCEPT !.count = @ - 1]
       \/ /\ ~MayLeave(q, exh, m)
          /\ StartNext(w, q, exh, m)

-----------------------------------------------------------------------------
(* The worker tasks *)

\* The task runs for the first time.  (A cancelled group still starts a task
\* that was spawned, and cancels it at its first await.)
Begin(w) ==
    /\ pc[w] = "new"
    /\ StartNext(w, queue, exhausted, metrics)
    /\ UNCHANGED <<source, exhausted, cancelled, recorded, closed>>

\* SerializedAsyncIterator: one task at a time is inside __anext__.
AcquireIterator(w) ==
    /\ ~cancelled
    /\ pc[w] = "locking"
    /\ \A v \in Workers : pc[v] # "pulling"
    /\ pc' = [pc EXCEPT ![w] = "pulling"]
    /\ UNCHANGED <<hold, source, exhausted, queue, metrics, cancelled, recorded, closed>>

\* anext(parse_jobs) returns a parse job, and parse_function is started.
PullParseJob(w) ==
    /\ ~cancelled
    /\ pc[w] = "pulling"
    /\ \E t \in source :
          /\ source' = source \ {t}
          /\ hold' = [hold EXCEPT ![w] = JobsOf(t)]
    /\ pc' = [pc EXCEPT ![w] = "parsing"]
    /\ metrics' = [metrics EXCEPT !.parsing = @ + 1]
    /\ UNCHANGED <<exhausted, queue, cancelled, recorded, closed>>

\* anext(parse_jobs) raises StopAsyncIteration.
SourceExhausted(w) ==
    /\ ~cancelled
    /\ pc[w] = "pulling"
    /\ source = {}
    /\ EndIteration(w, queue, TRUE, metrics)
    /\ UNCHANGED <<source, cancelled, recorded, closed>>

\* The scanner jobs of the parse job w holds.
ParsedJobs(w) == SetToSeq(hold[w])

\* parse_function succeeds: one scanner job per scanner of the parse job.
ParseSucceeds(w) ==
    /\ ~cancelled
    /\ pc[w] = "parsing"
    /\ EndIteration(w, queue \o ParsedJobs(w), exhausted,
                    [metrics EXCEPT !.parsing = @ - 1])
    /\ UNCHANGED <<source, cancelled, recorded, closed>>

\* parse_function returns error reports, one per scanner of the parse job.
ParseFails(w) ==
    /\ ~cancelled
    /\ pc[w] = "parsing"
    /\ pc' = [pc EXCEPT ![w] = "reporting"]
    /\ UNCHANGED <<hold, source, exhausted, queue, metrics, cancelled, recorded, closed>>

\* record_results returns for one report of a failed parse, not the last one.
RecordParseError(w) ==
    /\ ~cancelled
    /\ pc[w] = "reporting"
    /\ \E j \in hold[w] :
          /\ hold[w] # {j}
          /\ hold' = [hold EXCEPT ![w] = @ \ {j}]
          /\ recorded' = [recorded EXCEPT ![j] = @ + 1]
    /\ UNCHANGED <<pc, source, exhausted, queue, metrics, cancelled, closed>>

\* record_results returns for the last report of a failed parse.
RecordLastParseError(w) ==
    /\ ~cancelled
    /\ pc[w] = "reporting"
    /\ \E j \in hold[w] :
          /\ hold[w] = {j}
          /\ recorded' = [recorded EXCEPT ![j] = @ + 1]
    /\ EndIteration(w, queue, exhausted, [metrics EXCEPT !.parsing = @ - 1])
    /\ UNCHANGED <<source, cancelled, closed>>

\* scan_function returns the reports, and record_results is started.
ScanReturns(w) ==
    /\ ~cancelled
    /\ pc[w] = "scanning"
    /\ pc' = [pc EXCEPT ![w] = "recording"]
    /\ UNCHANGED <<hold, source, exhausted, queue, metrics, cancelled, recorded, closed>>

\* record_results returns: the scan is complete.
RecordScan(w) ==
    /\ ~cancelled
    /\ pc[w] = "recording"
    /\ \E j \in hold[w] : recorded' = [recorded EXCEPT ![j] = @ + 1]
    /\ EndIteration(w, queue, exhausted, [metrics EXCEPT !.scanning = @ - 1])
    /\ UNCHANGED <<source, cancelled, closed>>

\* The sleep of _perform_wait ends.
Wake(w) ==
    /\ ~cancelled
    /\ pc[w] = "waiting"
    /\ EndIteration(w, queue, exhausted, [metrics EXCEPT !.idle = @ - 1])
    /\ UNCHANGED <<source, cancelled, recorded, closed>>

-----------------------------------------------------------------------------
(* Failure and cancellation *)

\* Faulty variants: a parse whose reports cannot be recorded stays counted;
\* a worker counts as parsing from the moment it decides to parse.
FinallyOnlyScans(w) ==
    [metrics EXCEPT !.count = @ - 1,
                    !.scanning = IF pc[w] \in Scanning THEN @ - 1 ELSE @]
FinallyEarlyParser(w) ==
    [metrics EXCEPT !.count = @ - 1,
                    !.parsing = IF pc[w] \in {"pulling", "parsing"} THEN @ - 1 ELSE @]

\* The finally blocks of the operation w is in and of _worker_task.  A wait
\* has none: _perform_wait leaves tasks_idle incremented.
FinallyMetrics(w) ==
    [metrics EXCEPT !.count = @ - 1,
                    !.parsing = IF pc[w] \in Parsing THEN @ - 1 ELSE @,
                    !.scanning = IF pc[w] \in Scanning THEN @ - 1 ELSE @]

\* An exception, or a cancellation, takes w out of its loop.
Unwind(w) ==
    /\ pc' = [pc EXCEPT ![w] = "done"]
    /\ hold' = [hold EXCEPT ![w] = {}]
    /\ metrics' = FinallyMetrics(w)

\* The iterator, scan_function or record_results raises out of the worker,
\* and the task group cancels the other workers.  (parse_function turns its
\* exceptions into reports.)
Fail(w) ==
    /\ ~cancelled
    /\ pc[w] \in {"pulling", "reporting", "scanning", "recording"}
    /\ cancelled' = TRUE
    /\ Unwind(w)
    /\ UNCHANGED <<source, exhausted, queue, recorded, closed>>

\* The caller's scope is cancelled (the user interrupts the scan).
Interrupt ==
    /\ ~cancelled
    /\ \E w \in Workers : pc[w] # "done"
    /\ cancelled' = TRUE
    /\ UNCHANGED <<pc, hold, source, exhausted, queue, metrics, recorded, closed>>

\* A cancelled task gives up at its await.  A record_results that was suspended
\* (it is the caller's) may or may not have recorded by then.
GiveUp(w) ==
    /\ cancelled
    /\ pc[w] \notin {"new", "done"}
    /\ \/ UNCHANGED recorded
       \/ /\ pc[w] \in {"reporting", "recording"}
          /\ \E j \in hold[w] : recorded' = [recorded EXCEPT ![j] = @ + 1]
    /\ Unwind(w)
    /\ UNCHANGED <<source, exhausted, queue, cancelled, closed>>

\* The task group ends; the strategy's finally block resets the counters
\* (but task_count) and calls completed().
Close ==
    /\ ~closed
    /\ \A w \in Workers : pc[w] = "done"
    /\ closed' = TRUE
    /\ metrics' = [metrics EXCEPT !.idle = 0, !.parsing = 0, !.scanning = 0]
    /\ UNCHANGED <<pc, hold, source, exhausted, queue, cancelled, recorded>>

\* The strategy has ended: nothing is left to run.
Closed == closed /\ UNCHANGED vars

-----------------------------------------------------------------------------
\* The steps the event loop takes as soon as an await returns.
Step(w) ==
    \/ Begin(w) \/ AcquireIterator(w) \/ PullParseJob(w) \/ SourceExhausted(w)
    \/ ParseSucceeds(w) \/ ParseFails(w) \/ RecordParseError(w)
    \/ RecordLastParseError(w) \/ ScanReturns(w) \/ RecordScan(w) \/ Wake(w)
    \/ GiveUp(w)

Next ==
    \/ \E w \in Workers : Step(w) \/ Fail(w)
    \/ Interrupt
    \/ Close
    \/ Closed

\* Every await returns: scanners, parsers, sleeps and file writes end, and
\* anyio.Lock is first-in first-out.
Fairness == WF_vars(Close) /\ \A w \in Workers : WF_vars(Step(w))

Spec == Init /\ [][Next]_vars /\ Fairness

-----------------------------------------------------------------------------
(* Properties *)

Population(places) == Cardinality({w \in Workers : pc[w] \in places})

\* The counters the scheduler and the exit test read are the populations they
\* stand for, through every failure, parse error and cancellation.  (A worker
\* cancelled in its sleep stays counted as idle; nothing reads that any more.)
CountersExact ==
    /\ metrics.count = Population(Alive)
    /\ metrics.parsing = Population(Parsing)
    /\ metrics.scanning = Population(Scanning)
    /\ ~cancelled => metrics.idle = Population(Idle)

\* A worker leaves of its own accord only when the scan is over: it must not
\* take an idle moment of the others for the end while a parse or a scan that
\* may still produce work or a result is under way.
NoEarlyLeave ==
    ~cancelled /\ (\E w \in Workers : pc[w] = "done") =>
        /\ exhausted /\ source = {} /\ queue = <<>>
        /\ \A w \in Workers : pc[w] \in {"waiting", "done"}

\* Where a pair can be: how often it is recorded, plus the places it waits in.
Occurrences(j) ==
    recorded[j] + Cardinality({t \in source : j \in JobsOf(t)})
                + Cardinality({i \in DOMAIN queue : queue[i] = j})
                + Cardinality({w \in Workers : j \in hold[w]})

\* Until something fails no pair is lost or doubled on its way from the
\* parse jobs over the deque to the recorder; after a failure none is doubled.
NoPairLostOrDoubled ==
    \A j \in Wanted : IF cancelled THEN Occurrences(j) <= 1 ELSE Occurrences(j) = 1

\* The deque overshoots max_scanner_job_queue_size: the scheduler counts a
\* parser only once it has pulled its job, so every worker may decide to parse
\* before the first one is counted.  It is bounded all the same: below the 80%
\* of rule 5, plus what each worker's parse job adds beyond the job it pops.
QueueBounded ==
    Len(queue) <= (4 * MaxQueue - 1) \div 5
                    + Cardinality(Workers) * (Cardinality(Scanners) - 1)

\* Whatever fails, the strategy ends: no worker sleeps or waits for the lock
\* forever, and the last workers find the exit.
Terminates == <>closed

\* The pool implements what the caller of a strategy relies on.
Strategy == INSTANCE ConcurrencyStrategy WITH
    records <- recorded,
    outcome <- IF ~closed THEN "running" ELSE IF cancelled THEN "raised" ELSE "returned"

ImplementsStrategy == Strategy!StrategySpec
=============================================================================
