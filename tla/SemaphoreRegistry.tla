------------------------- MODULE SemaphoreRegistry -------------------------
(***************************************************************************)
(* Concurrency limits across processes (_concurrency/_mp_registry.py and   *)
(* _mp_semaphore.py).  A task of a worker process asks its registry for    *)
(* the semaphore of a key; the first time, the process requests it from    *)
(* the parent, which creates it in a dictionary shared by all processes,   *)
(* under its name.  The semaphores themselves are a shared value and a     *)
(* condition, acquired in a thread because waiting blocks.                 *)
(*                                                                         *)
(* A task follows a plan: it enters the semaphores of the plan one inside  *)
(* the other, and leaves them in the reverse order.                        *)
(***************************************************************************)
EXTENDS Integers, Sequences, FiniteSets, SequencesExt

CONSTANTS
    Processes,       \* the worker processes
    Tasks,           \* the tasks that need semaphores
    ProcessOf,       \* the process of a task
    Plan,            \* the uses of a task, each a [name, key], outermost first
    Limit,           \* the concurrency every use asks for
    Threads          \* the threads of a process

ASSUME ProcessOfAssumption == ProcessOf \in [Tasks -> Processes]
ASSUME LimitAssumption == Limit \in Nat \ {0}
ASSUME ThreadsAssumption == Threads \in Nat \ {0}

Uses == UNION {Range(Plan[t]) : t \in Tasks}
Names == {u.name : u \in Uses}
Keys == {u.key : u \in Uses}

ASSUME PlanAssumption == Plan \in [Tasks -> Seq(Uses) \ {<<>>}]

Absent == -1
Nobody == "nobody"
Unknown == "unknown"

ASSUME NamesAssumption == Nobody \notin Tasks /\ Unknown \notin Names

VARIABLES
    value,           \* of the semaphores in the shared dictionary
    requests,        \* the SemaphoreRequests on the upstream queue
    wrappers,        \* of each process: the semaphore it uses for a key
    lock,            \* of each process: the task that holds its registry's lock
    stage,           \* what a task is doing
    entered,         \* the uses a task is inside of
    serving,         \* the parent's collector runs
    cancelled        \* the processes whose tasks are cancelled

vars == <<value, requests, wrappers, lock, stage, entered, serving, cancelled>>

\* "running": between two calls; "locking": waiting for the registry's lock;
\* "requesting", "wrapped": waiting for a thread, for the request and for
\* acquire; "awaiting": in wait_for_semaphore; "acquiring", "woken": about to
\* look at the value; "sleeping": in the semaphore's condition; "leaving":
\* going back out of the semaphores it entered.
Stages == {"running", "locking", "requesting", "awaiting",
           "wrapped", "acquiring", "sleeping", "woken", "leaving", "done"}
InThread == {"awaiting", "acquiring", "sleeping", "woken"}

TypeOK ==
    /\ value \in [Names -> {Absent} \cup (0 .. Limit)]
    /\ requests \in SUBSET (Processes \X Names)
    /\ wrappers \in [Processes -> [Keys -> Names \cup {Unknown}]]
    /\ lock \in [Processes -> Tasks \cup {Nobody}]
    /\ \A p \in Processes : lock[p] # Nobody => stage[lock[p]] \in {"requesting", "awaiting"}
    /\ stage \in [Tasks -> Stages]
    /\ entered \in [Tasks -> Seq(Uses)]
    /\ serving \in BOOLEAN
    /\ cancelled \in SUBSET Processes

Init ==
    /\ value = [n \in Names |-> Absent]
    /\ requests = {}
    /\ wrappers = [p \in Processes |-> [k \in Keys |-> Unknown]]
    /\ lock = [p \in Processes |-> Nobody]
    /\ stage = [t \in Tasks |-> "running"]
    /\ entered = [t \in Tasks |-> <<>>]
    /\ serving = TRUE
    /\ cancelled = {}

\* The use a task is asking for, or will ask for next.
Wants(t) == Plan[t][Len(entered[t]) + 1]

\* The semaphore a use of the task works on: the one its process has cached
\* under the key.
Cache(t, use) == wrappers[ProcessOf[t]][use.key]
SemaphoreOf(t) == Cache(t, Wants(t))

Busy(p) == Cardinality({t \in Tasks : ProcessOf[t] = p /\ stage[t] \in InThread})
ThreadFree(t) == Busy(ProcessOf[t]) < Threads

Move(t, to) == stage' = [stage EXCEPT ![t] = to]

-----------------------------------------------------------------------------
(* The registry of a process *)

\* get_or_create is called.
Ask(t) ==
    /\ stage[t] = "running"
    /\ ProcessOf[t] \notin cancelled
    /\ Len(entered[t]) < Len(Plan[t])
    /\ Move(t, "locking")
    /\ UNCHANGED <<value, requests, wrappers, lock, entered, serving, cancelled>>

\* The lock is free and the key is cached: its wrapper is returned.
Cached(t) ==
    /\ stage[t] = "locking"
    /\ lock[ProcessOf[t]] = Nobody
    /\ SemaphoreOf(t) # Unknown
    /\ Move(t, "wrapped")
    /\ UNCHANGED <<value, requests, wrappers, lock, entered, serving, cancelled>>

\* The key is not cached: the task keeps the lock for the whole request.
TakeLock(t) ==
    /\ stage[t] = "locking"
    /\ lock[ProcessOf[t]] = Nobody
    /\ SemaphoreOf(t) = Unknown
    /\ lock' = [lock EXCEPT ![ProcessOf[t]] = t]
    /\ Move(t, "requesting")
    /\ UNCHANGED <<value, requests, wrappers, entered, serving, cancelled>>

\* wait_for_semaphore, under the shared condition: if the name is not in the
\* dictionary a request is sent.
Request(t) ==
    /\ stage[t] = "requesting"
    /\ ThreadFree(t)
    /\ requests' = IF value[Wants(t).name] = Absent
                   THEN requests \cup {<<ProcessOf[t], Wants(t).name>>}
                   ELSE requests
    /\ Move(t, "awaiting")
    /\ UNCHANGED <<value, wrappers, lock, entered, serving, cancelled>>

\* The name is in the dictionary (seen at a notification, or at the timeout
\* of the wait): the semaphore is wrapped, and cached under the key.
Obtain(t) ==
    /\ stage[t] = "awaiting"
    /\ value[Wants(t).name] # Absent
    /\ wrappers' = [wrappers EXCEPT ![ProcessOf[t]][Wants(t).key] = Wants(t).name]
    /\ lock' = [lock EXCEPT ![ProcessOf[t]] = Nobody]
    /\ Move(t, "wrapped")
    /\ UNCHANGED <<value, requests, entered, serving, cancelled>>

\* Faulty variant: the semaphore is made anew for every request.
AlwaysNew(n) == TRUE
IsNew(n) == value[n] = Absent

\* The parent handles a request: it creates the semaphore of the name, unless
\* another process's request was faster.
Serve(p, n) ==
    /\ serving
    /\ <<p, n>> \in requests
    /\ requests' = requests \ {<<p, n>>}
    /\ value' = IF IsNew(n) THEN [value EXCEPT ![n] = Limit] ELSE value
    /\ UNCHANGED <<wrappers, lock, stage, entered, serving, cancelled>>

-----------------------------------------------------------------------------
(* The semaphore *)

\* __aenter__ gets a thread for acquire.
BeginAcquire(t) ==
    /\ stage[t] = "wrapped"
    /\ ThreadFree(t)
    /\ Move(t, "acquiring")
    /\ UNCHANGED <<value, requests, wrappers, lock, entered, serving, cancelled>>

\* acquire finds a permit ...
Acquire(t) ==
    /\ stage[t] \in {"acquiring", "woken"}
    /\ value[SemaphoreOf(t)] > 0
    /\ value' = [value EXCEPT ![SemaphoreOf(t)] = @ - 1]
    /\ entered' = [entered EXCEPT ![t] = Append(@, Wants(t))]
    /\ Move(t, "running")
    /\ UNCHANGED <<requests, wrappers, lock, serving, cancelled>>

\* ... or waits.
Sleep(t) ==
    /\ stage[t] \in {"acquiring", "woken"}
    /\ value[SemaphoreOf(t)] = 0
    /\ Move(t, "sleeping")
    /\ UNCHANGED <<value, requests, wrappers, lock, entered, serving, cancelled>>

Sleepers(n) == {t \in Tasks : stage[t] = "sleeping" /\ SemaphoreOf(t) = n}

\* Faulty variant: a release wakes nobody while a permit is left.
NotifyIfEmpty(n) == IF value[n] = 0 THEN Sleepers(n) ELSE {}
\* The tasks one of which notify() wakes.
ToNotify(n) == Sleepers(n)

\* __aexit__: the innermost semaphore is released.
Release(t) ==
    /\ \/ stage[t] = "leaving"
       \/ stage[t] = "running" /\ Len(entered[t]) = Len(Plan[t])
    /\ LET n == Cache(t, Last(entered[t]))
           next == IF Len(entered[t]) = 1 THEN "done" ELSE "leaving"
       IN  /\ value' = [value EXCEPT ![n] = @ + 1]
           /\ \/ ToNotify(n) = {} /\ Move(t, next)
              \/ \E s \in ToNotify(n) : stage' = [stage EXCEPT ![s] = "woken", ![t] = next]
    /\ entered' = [entered EXCEPT ![t] = Front(@)]
    /\ UNCHANGED <<requests, wrappers, lock, serving, cancelled>>

-----------------------------------------------------------------------------
(* Cancellation *)

\* The collector ends; from now on nobody answers requests.
StopServing ==
    /\ serving
    /\ serving' = FALSE
    /\ UNCHANGED <<value, requests, wrappers, lock, stage, entered, cancelled>>

\* A task of the process raised, or the process is told to stop.
Cancel(p) ==
    /\ p \notin cancelled
    /\ cancelled' = cancelled \cup {p}
    /\ UNCHANGED <<value, requests, wrappers, lock, stage, entered, serving>>

\* A cancelled task gives up where it waits, and the registry's lock with it.
\* A thread inside acquire is not abandoned: the task waits for its permit.
GiveUp(t) ==
    /\ ProcessOf[t] \in cancelled
    /\ stage[t] \in {"running", "locking", "requesting", "awaiting", "wrapped"}
    /\ Move(t, IF entered[t] = <<>> THEN "done" ELSE "leaving")
    /\ lock' = [p \in Processes |-> IF lock[p] = t THEN Nobody ELSE lock[p]]
    /\ UNCHANGED <<value, requests, wrappers, entered, serving, cancelled>>

AllTasksDone == (\A t \in Tasks : stage[t] = "done") /\ UNCHANGED vars

-----------------------------------------------------------------------------
TaskStep(t) ==
    \/ Ask(t) \/ Cached(t) \/ TakeLock(t) \/ Request(t) \/ Obtain(t)
    \/ BeginAcquire(t) \/ Acquire(t) \/ Sleep(t) \/ Release(t) \/ GiveUp(t)

Next ==
    \/ \E t \in Tasks : TaskStep(t)
    \/ \E p \in Processes : Cancel(p) \/ \E n \in Names : Serve(p, n)
    \/ StopServing
    \/ AllTasksDone

\* Threads and event loops run, scanners return from the awaits inside their
\* semaphores, the collector reads the queue, and once it has stopped every
\* process is told.
Fairness ==
    /\ \A t \in Tasks : WF_vars(TaskStep(t))
    /\ \A p \in Processes, n \in Names : WF_vars(Serve(p, n))
    /\ \A p \in Processes : WF_vars(~serving /\ Cancel(p))

Spec == Init /\ [][Next]_vars /\ Fairness

-----------------------------------------------------------------------------
(* Properties *)

\* The tasks inside a use of key k, over all processes.
Inside(k) == {t \in Tasks : \E i \in DOMAIN entered[t] : entered[t][i].key = k}

\* "Workers in separate processes need to coordinate on the same semaphore":
\* over all processes at most Limit tasks are inside a use of one key.
KeyLimit == \A k \in Keys : Cardinality(Inside(k)) <= Limit

\* Every task gets through, or out when it is cancelled: requests are
\* answered, permits given back, and nobody keeps the registry's lock.
EveryTaskEnds == <>(\A t \in Tasks : stage[t] = "done")
=============================================================================
