---------------------------- MODULE MultiProcess ----------------------------
(***************************************************************************)
(* The multi-process execution strategy (_concurrency/multi_process.py,    *)
(* _mp_subprocess.py, _mp_shutdown.py).  The main process feeds the parse  *)
(* jobs into a bounded queue and collects what the worker processes send   *)
(* upstream; each worker runs the single-process strategy on the jobs it   *)
(* takes, reduced here to what it holds and sends (see ScanPool).  When    *)
(* the producer and the collector are through, or one of them fails, or    *)
(* the user interrupts, the main process shuts its workers down.           *)
(*                                                                         *)
(* A multiprocessing queue keeps the order of the items of one process     *)
(* only, so upstream is one channel per worker.  A parse job stands for    *)
(* the results it produces.                                                *)
(***************************************************************************)
EXTENDS Integers, Sequences, FiniteSets

CONSTANTS
    Jobs,            \* what parse_jobs yields
    MaxProcesses,    \* max_processes
    TaskCount,       \* task_count
    PrefetchSize,    \* PARSE_JOB_PREFETCH_SIZE
    PipeRoom,        \* how many of a worker's items its feeder gets into the pipe unread
    Deaths           \* the worker states in which a process may die by itself

ASSUME MaxProcessesAssumption == MaxProcesses \in Nat \ {0, 1}
ASSUME TaskCountAssumption == TaskCount \in Nat \ {0}
ASSUME PrefetchAssumption == PrefetchSize \in Nat \ {0}
ASSUME DeathsAssumption == Deaths \subseteq {"starting", "waiting", "working", "ending"}

Workers == 0 .. MaxProcesses - 1

\* Items that are not jobs: the sentinel of the parse job queue, and the
\* control messages of the upstream queue.
NoMoreJobs == "none"
Control == {"ready", "complete", "error"}

ASSUME JobsAssumption == Jobs \cap (Control \cup {NoMoreJobs}) = {}

VARIABLES
    source,          \* parse jobs not yielded yet
    producer,        \* "feeding", "stopping" (in its finally) or "done"
    failed,          \* parse_jobs raised
    sentinels,       \* how many sentinels the producer has put
    parseQueue,      \* parse_job_queue
    state,           \* of each worker process
    armed,           \* its shutdown monitor waits on the condition
    notified,        \* its shutdown monitor was woken
    drained,         \* it has taken its sentinel
    held,            \* the jobs it has taken and not yet reported
    channel,         \* its items on the upstream queue
    collector,       \* "collecting" or "done"
    readyCount,      \* workers_ready_count
    finished,        \* workers_finished
    released,        \* workers_ready_event
    recorded,        \* how many times record_results ran for a job's results
    cancelled,       \* the task group of producer and collector is cancelled
    shutdown         \* "no", or the phase of shutdown_subprocesses

mainVars == <<source, producer, failed, sentinels, collector, readyCount, finished,
              released, recorded, cancelled, shutdown>>
workerVars == <<state, armed, notified, drained, held>>
vars == <<source, producer, failed, sentinels, parseQueue, state, armed, notified, drained,
          held, channel, collector, readyCount, finished, released, recorded, cancelled, shutdown>>

States == {"starting", "waiting", "working", "ending", "dead"}
ShutdownPhases == {"no", "joining", "killing", "over"}

TypeOK ==
    /\ source \in SUBSET Jobs
    /\ producer \in {"feeding", "stopping", "done"}
    /\ failed \in BOOLEAN
    /\ sentinels \in 0 .. MaxProcesses
    /\ parseQueue \in Seq(Jobs \cup {NoMoreJobs}) /\ Len(parseQueue) <= PrefetchSize
    /\ state \in [Workers -> States]
    /\ armed \in [Workers -> BOOLEAN] /\ notified \in [Workers -> BOOLEAN]
    /\ drained \in [Workers -> BOOLEAN]
    /\ held \in [Workers -> SUBSET Jobs]
    /\ channel \in [Workers -> Seq(Jobs \cup Control)]
    /\ collector \in {"collecting", "done"}
    /\ readyCount \in 0 .. MaxProcesses
    /\ finished \in 0 .. MaxProcesses
    /\ released \in BOOLEAN
    /\ recorded \in [Jobs -> Nat]
    /\ cancelled \in BOOLEAN
    /\ shutdown \in ShutdownPhases

Init ==
    /\ source = Jobs /\ producer = "feeding" /\ failed = FALSE /\ sentinels = 0
    /\ parseQueue = <<>>
    /\ state = [w \in Workers |-> "starting"]
    /\ armed = [w \in Workers |-> FALSE] /\ notified = [w \in Workers |-> FALSE]
    /\ drained = [w \in Workers |-> FALSE] /\ held = [w \in Workers |-> {}]
    /\ channel = [w \in Workers |-> <<>>]
    /\ collector = "collecting" /\ readyCount = 0 /\ finished = 0 /\ released = FALSE
    /\ recorded = [j \in Jobs |-> 0]
    /\ cancelled = FALSE /\ shutdown = "no"

\* The tasks are dealt out evenly; the first workers take the remainder.
TasksOf(w) == TaskCount \div MaxProcesses + (IF w < TaskCount % MaxProcesses THEN 1 ELSE 0)

\* A worker's pool keeps one job per task in hand and one per task prefetched.
HeldLimit(w) == 2 * TasksOf(w)

-----------------------------------------------------------------------------
(* The producer *)

\* parse_jobs yields a job, and there is room for it.
Feed ==
    /\ ~cancelled
    /\ producer = "feeding"
    /\ Len(parseQueue) < PrefetchSize
    /\ \E j \in source :
          /\ source' = source \ {j}
          /\ parseQueue' = Append(parseQueue, j)
    /\ UNCHANGED <<producer, failed, sentinels, collector, readyCount, finished, released,
                   recorded, cancelled, shutdown, channel, workerVars>>

\* parse_jobs is exhausted, or raises: either way the finally block follows.
StopFeeding ==
    /\ ~cancelled
    /\ producer = "feeding"
    /\ failed' \in (IF source = {} THEN BOOLEAN ELSE {TRUE})
    /\ producer' = "stopping"
    /\ UNCHANGED <<source, sentinels, collector, readyCount, finished, released, recorded,
                   cancelled, shutdown, parseQueue, channel, workerVars>>

\* Faulty variants: a sentinel too few, a sentinel too many.
OneSentinelShort == MaxProcesses - 1
OneSentinelMore == MaxProcesses + 1
SentinelsToSend == MaxProcesses

PutSentinel ==
    /\ ~cancelled
    /\ producer = "stopping"
    /\ sentinels < SentinelsToSend
    /\ Len(parseQueue) < PrefetchSize
    /\ parseQueue' = Append(parseQueue, NoMoreJobs)
    /\ sentinels' = sentinels + 1
    /\ UNCHANGED <<source, producer, failed, collector, readyCount, finished, released,
                   recorded, cancelled, shutdown, channel, workerVars>>

\* The producer ends; a failure cancels the collector.
EndProducer ==
    /\ ~cancelled
    /\ producer = "stopping"
    /\ sentinels = SentinelsToSend
    /\ producer' = "done"
    /\ cancelled' = failed
    /\ collector' = IF failed THEN "done" ELSE collector
    /\ UNCHANGED <<source, failed, sentinels, readyCount, finished, released, recorded,
                   shutdown, parseQueue, channel, workerVars>>

-----------------------------------------------------------------------------
(* The collector *)

\* Both tasks of the group give up at their await.  The producer's finally
\* block puts no sentinel: its first await is cancelled as well.
CancelTasks ==
    /\ cancelled' = TRUE
    /\ producer' = "done"
    /\ collector' = "done"

\* The next item of a worker arrives, and is one of these.
Receive(w, items) ==
    /\ collector = "collecting"
    /\ channel[w] # <<>>
    /\ Head(channel[w]) \in items
    /\ channel' = [channel EXCEPT ![w] = Tail(@)]

\* WorkerReady: the last one releases all of them.
CollectReady(w) ==
    /\ Receive(w, {"ready"})
    /\ readyCount' = readyCount + 1
    /\ released' = (readyCount + 1 = MaxProcesses)
    /\ UNCHANGED <<source, producer, failed, sentinels, collector, finished, recorded,
                   cancelled, shutdown, parseQueue, workerVars>>

\* ResultItem: record_results returns.
CollectResult(w) ==
    /\ Receive(w, Jobs)
    /\ recorded' = [recorded EXCEPT ![Head(channel[w])] = @ + 1]
    /\ UNCHANGED <<source, producer, failed, sentinels, collector, readyCount, finished,
                   released, cancelled, shutdown, parseQueue, workerVars>>

\* Faulty variant: the first worker to finish ends the collection.
AnyFinished(n) == n > 0
AllFinished(n) == n = MaxProcesses

\* WorkerComplete: the last one ends the loop.
CollectComplete(w) ==
    /\ Receive(w, {"complete"})
    /\ finished' = finished + 1
    /\ collector' = IF AllFinished(finished + 1) THEN "done" ELSE "collecting"
    /\ UNCHANGED <<source, producer, failed, sentinels, readyCount, released, recorded,
                   cancelled, shutdown, parseQueue, workerVars>>

\* An exception of a worker, or of record_results, is raised in the collector.
CollectorFails(w) ==
    /\ Receive(w, Jobs \cup {"error"})
    /\ CancelTasks
    /\ UNCHANGED <<source, failed, sentinels, readyCount, finished, released, recorded,
                   shutdown, parseQueue, workerVars>>

\* The user interrupts the scan: the task group is cancelled from outside.
Interrupt ==
    /\ shutdown = "no"
    /\ ~cancelled
    /\ CancelTasks
    /\ UNCHANGED <<source, failed, sentinels, readyCount, finished, released, recorded,
                   shutdown, parseQueue, channel, workerVars>>

-----------------------------------------------------------------------------
(* The worker processes *)

Put(w, item) == channel' = [channel EXCEPT ![w] = Append(@, item)]

\* The process is set up and says so.
Initialize(w) ==
    /\ state[w] = "starting"
    /\ state' = [state EXCEPT ![w] = "waiting"]
    /\ Put(w, "ready")
    /\ UNCHANGED <<mainVars, parseQueue, armed, notified, drained, held>>

\* workers_ready_event is set: the monitor and the work task are started.
Start(w) ==
    /\ state[w] = "waiting"
    /\ released
    /\ state' = [state EXCEPT ![w] = "working"]
    /\ UNCHANGED <<mainVars, parseQueue, channel, armed, notified, drained, held>>

\* The monitor's thread reaches condition.wait().
Arm(w) ==
    /\ state[w] = "working"
    /\ ~armed[w]
    /\ armed' = [armed EXCEPT ![w] = TRUE]
    /\ UNCHANGED <<mainVars, parseQueue, channel, state, notified, drained, held>>

\* The pool takes the next item of the parse job queue.
Take(w) ==
    /\ state[w] = "working"
    /\ TasksOf(w) > 0
    /\ ~drained[w]
    /\ Cardinality(held[w]) < HeldLimit(w)
    /\ parseQueue # <<>>
    /\ parseQueue' = Tail(parseQueue)
    /\ IF Head(parseQueue) = NoMoreJobs
       THEN drained' = [drained EXCEPT ![w] = TRUE] /\ UNCHANGED held
       ELSE held' = [held EXCEPT ![w] = @ \cup {Head(parseQueue)}] /\ UNCHANGED drained
    /\ UNCHANGED <<mainVars, channel, state, armed, notified>>

\* The results of a job are put on the upstream queue.
Report(w) ==
    /\ state[w] = "working"
    /\ \E j \in held[w] :
          /\ held' = [held EXCEPT ![w] = @ \ {j}]
          /\ Put(w, j)
    /\ UNCHANGED <<mainVars, parseQueue, state, armed, notified, drained>>

\* The work task ends: its finally block cancels the monitor.
EndWork(w, item) ==
    /\ state' = [state EXCEPT ![w] = "ending"]
    /\ held' = [held EXCEPT ![w] = {}]
    /\ Put(w, item)
    /\ UNCHANGED <<mainVars, parseQueue, armed, notified, drained>>

\* Faulty variant: the pool is done as soon as it has its sentinel.
DoneWhenDrained(w) == drained[w] \/ TasksOf(w) = 0
PoolDone(w) == (drained[w] /\ held[w] = {}) \/ TasksOf(w) = 0

\* The strategy returns; WorkerComplete is put.
Finish(w) ==
    /\ state[w] = "working"
    /\ PoolDone(w)
    /\ EndWork(w, "complete")

\* The strategy raises: the exception is sent upstream, and raised again.
WorkFails(w) ==
    /\ state[w] = "working"
    /\ EndWork(w, "error")

\* The monitor was woken: it cancels the worker's task group, which ends
\* without an exception, so that WorkerComplete is put here as well.
StopWork(w) ==
    /\ state[w] = "working"
    /\ notified[w]
    /\ EndWork(w, "complete")

\* The process exits once its feeder thread has written out its items.
Exit(w) ==
    /\ state[w] = "ending"
    /\ Len(channel[w]) <= PipeRoom
    /\ state' = [state EXCEPT ![w] = "dead"]
    /\ UNCHANGED <<mainVars, parseQueue, channel, armed, notified, drained, held>>

\* The process dies: a failure to set it up, a lack of memory, a signal.
\* What its feeder thread had not written yet is gone.
Die(w) ==
    /\ state[w] \in Deaths
    /\ state' = [state EXCEPT ![w] = "dead"]
    /\ \E n \in 0 .. Len(channel[w]) : channel' = [channel EXCEPT ![w] = SubSeq(@, 1, n)]
    /\ held' = [held EXCEPT ![w] = {}]
    /\ UNCHANGED <<mainVars, parseQueue, armed, notified, drained>>

-----------------------------------------------------------------------------
(* The main process shuts down *)

ShutdownUnchanged ==
    UNCHANGED <<source, producer, failed, sentinels, collector, readyCount, finished,
                released, recorded, cancelled>>

AllDead == \A w \in Workers : state[w] = "dead"

\* The task group has ended.  Phase 1: every waiting monitor is woken; a
\* worker whose monitor does not wait yet misses it.
Signal ==
    /\ producer = "done" /\ collector = "done"
    /\ shutdown = "no"
    /\ notified' = [w \in Workers |-> armed[w]]
    /\ shutdown' = "joining"
    /\ ShutdownUnchanged
    /\ UNCHANGED <<parseQueue, channel, state, armed, drained, held>>

\* Phase 2: both queues are drained while the workers exit.
DrainParseQueue ==
    /\ shutdown = "joining"
    /\ parseQueue # <<>>
    /\ parseQueue' = Tail(parseQueue)
    /\ UNCHANGED <<mainVars, channel, workerVars>>

DrainUpstream(w) ==
    /\ shutdown = "joining"
    /\ channel[w] # <<>>
    /\ channel' = [channel EXCEPT ![w] = Tail(@)]
    /\ UNCHANGED <<mainVars, parseQueue, workerVars>>

\* The two seconds are over, or everyone has exited.
StopJoining ==
    /\ shutdown = "joining"
    /\ shutdown' = "killing"
    /\ ShutdownUnchanged
    /\ UNCHANGED <<parseQueue, channel, workerVars>>

\* Faulty variant: only the workers that work are terminated.
Working == {w \in Workers : state[w] = "working"}
Survivors == {w \in Workers : state[w] # "dead"}

\* Phases 3 to 9: the survivors are terminated or killed, and the queues,
\* with whatever is left in them, are drained and closed.
CleanUp ==
    /\ shutdown = "killing"
    /\ state' = [w \in Workers |-> IF w \in Survivors THEN "dead" ELSE state[w]]
    /\ parseQueue' = <<>>
    /\ channel' = [w \in Workers |-> <<>>]
    /\ held' = [w \in Workers |-> {}]
    /\ shutdown' = "over"
    /\ ShutdownUnchanged
    /\ UNCHANGED <<armed, notified, drained>>

Over == shutdown = "over" /\ UNCHANGED vars

-----------------------------------------------------------------------------
WorkerStep(w) ==
    \/ Initialize(w) \/ Start(w) \/ Arm(w) \/ Take(w) \/ Report(w)
    \/ Finish(w) \/ StopWork(w) \/ Exit(w)

Collect(w) == CollectReady(w) \/ CollectResult(w) \/ CollectComplete(w) \/ CollectorFails(w)

Producing == Feed \/ StopFeeding \/ PutSentinel \/ EndProducer

ShuttingDown == Signal \/ StopJoining \/ CleanUp

Next ==
    \/ Producing \/ Interrupt \/ ShuttingDown \/ DrainParseQueue
    \/ \E w \in Workers :
          Collect(w) \/ DrainUpstream(w) \/ WorkerStep(w) \/ WorkFails(w) \/ Die(w)
    \/ Over

\* The operating system runs every process, and every scan ends.
Fairness ==
    /\ WF_vars(Producing) /\ WF_vars(ShuttingDown)
    /\ \A w \in Workers : WF_vars(Collect(w)) /\ WF_vars(WorkerStep(w))

Spec == Init /\ [][Next]_vars /\ Fairness

-----------------------------------------------------------------------------
(* Properties *)

\* How often item i is on the upstream queue.
OnChannels(i) ==
    Cardinality(UNION {{w} \X {n \in DOMAIN channel[w] : channel[w][n] = i} : w \in Workers})

\* Where a job can be, counted.
Places(j) ==
    recorded[j] + (IF j \in source THEN 1 ELSE 0)
    + Cardinality({i \in DOMAIN parseQueue : parseQueue[i] = j})
    + Cardinality({w \in Workers : j \in held[w]})
    + OnChannels(j)

\* While nothing has failed a job is in exactly one place on its way from the
\* producer over a worker to the recorder; afterwards it is never doubled.
NoJobLostOrDoubled ==
    \A j \in Jobs : IF cancelled \/ OnChannels("error") > 0 THEN Places(j) <= 1 ELSE Places(j) = 1

\* The collector leaves on its own only when nothing can come any more: no
\* result is on its way, and no worker has work.
CollectorLeavesLast ==
    collector = "done" /\ ~cancelled =>
        \A w \in Workers : state[w] \in {"ending", "dead"} /\ channel[w] = <<>> /\ held[w] = {}

\* When the strategy ends no worker process is left behind.
NoOrphans == shutdown = "over" => AllDead

\* Whatever fails, the strategy ends: neither the producer nor the collector
\* waits forever for a worker.
Terminates == <>(shutdown = "over")

\* It implements the contract of a strategy.
Strategy == INSTANCE ConcurrencyStrategy WITH
    Wanted <- Jobs,
    records <- recorded,
    outcome <- IF shutdown # "over" THEN "running" ELSE IF cancelled THEN "raised" ELSE "returned"

ImplementsStrategy == Strategy!StrategySpec
=============================================================================
