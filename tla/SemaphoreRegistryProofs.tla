---------------------- MODULE SemaphoreRegistryProofs ----------------------
(***************************************************************************)
(* Theorems of SemaphoreRegistry, for any processes, tasks and plans, any  *)
(* limit and any number of threads.                                        *)
(***************************************************************************)
EXTENDS SemaphoreRegistry, TLAPS, FiniteSetTheorems, SequenceTheorems

\* The permits of a semaphore that tasks hold: a task and the place of its use.
Held(n) ==
    {h \in Tasks \X Nat : /\ h[2] \in DOMAIN entered[h[1]]
                          /\ Cache(h[1], entered[h[1]][h[2]]) = n}

\* A semaphore is made with Limit permits; they are in it or with tasks.
Balance ==
    \A n \in Names :
        /\ IsFiniteSet(Held(n))
        /\ IF value[n] = Absent THEN Held(n) = {} ELSE value[n] + Cardinality(Held(n)) = Limit

\* A cached semaphore exists, and is that of a use with the key.
CachedExist ==
    \A p \in Processes, k \in Keys : wrappers[p][k] # Unknown =>
        /\ value[wrappers[p][k]] # Absent
        /\ \E u \in Uses : u.key = k /\ u.name = wrappers[p][k]

\* What a task is inside of, its process has cached.
EnteredCached ==
    \A t \in Tasks : \A i \in DOMAIN entered[t] : Cache(t, entered[t][i]) # Unknown

\* A task that asks has a use to ask for; while it requests it holds the lock and
\* the key is not cached, and once it has a wrapper the key is.
Requesting == {"requesting", "awaiting"}
HasWrapper == {"wrapped", "acquiring", "sleeping", "woken"}
Asks(t) ==
    /\ stage[t] \notin {"running", "leaving", "done"} => Len(entered[t]) < Len(Plan[t])
    /\ stage[t] \in Requesting => lock[ProcessOf[t]] = t /\ SemaphoreOf(t) = Unknown
    /\ stage[t] \in HasWrapper => SemaphoreOf(t) # Unknown
    /\ stage[t] = "leaving" => entered[t] # <<>>
    /\ Len(entered[t]) <= Len(Plan[t])
Asking == \A t \in Tasks : Asks(t)

\* The lock of a registry is held by a task of its process.
LockOwn == \A p \in Processes : lock[p] # Nobody => ProcessOf[lock[p]] = p

IInv == TypeOK /\ Balance /\ CachedExist /\ EnteredCached /\ Asking /\ LockOwn

-----------------------------------------------------------------------------
(* Uses *)

USE DEF Absent

LEMMA UseFacts ==
    ASSUME NEW u \in Uses
    PROVE  u.name \in Names /\ u.key \in Keys /\ u.name # Unknown
BY NamesAssumption DEF Names, Keys

LEMMA PlanFacts ==
    ASSUME NEW t \in Tasks
    PROVE  Plan[t] \in Seq(Uses) /\ Len(Plan[t]) \in Nat \ {0} /\ ProcessOf[t] \in Processes
<1>1. Plan[t] \in Seq(Uses) /\ Plan[t] # <<>>
  BY PlanAssumption
<1>2. QED
  BY <1>1, EmptySeq, ProcessOfAssumption

\* The next use of a plan that is not at its end.
LEMMA WantsFacts ==
    ASSUME TypeOK, NEW t \in Tasks, Len(entered[t]) < Len(Plan[t])
    PROVE  /\ Wants(t) \in Uses /\ Wants(t).name \in Names /\ Wants(t).key \in Keys
           /\ SemaphoreOf(t) \in Names \cup {Unknown}
<1>1. entered[t] \in Seq(Uses)
  BY DEF TypeOK
<1>2. Wants(t) \in Uses
  BY <1>1, PlanFacts DEF Wants
<1>3. QED
  BY <1>2, UseFacts, PlanFacts DEF TypeOK, SemaphoreOf, Cache

\* The uses a task is inside of.
LEMMA EnteredFacts ==
    ASSUME TypeOK, NEW t \in Tasks, NEW i \in DOMAIN entered[t]
    PROVE  /\ entered[t][i] \in Uses /\ entered[t][i].key \in Keys
           /\ Cache(t, entered[t][i]) \in Names \cup {Unknown}
<1>1. entered[t] \in Seq(Uses)
  BY DEF TypeOK
<1>2. entered[t][i] \in Uses
  BY <1>1
<1>3. QED
  BY <1>2, UseFacts, PlanFacts DEF TypeOK, Cache

\* The use a task leaves is the last it entered.
LEMMA LastFacts ==
    ASSUME TypeOK, NEW t \in Tasks, entered[t] # <<>>
    PROVE  /\ Len(entered[t]) \in DOMAIN entered[t] /\ Len(entered[t]) \in Nat \ {0}
           /\ Last(entered[t]) = entered[t][Len(entered[t])]
           /\ Front(entered[t]) \in Seq(Uses)
           /\ Len(Front(entered[t])) = Len(entered[t]) - 1
           /\ \A i \in 1 .. Len(entered[t]) - 1 : Front(entered[t])[i] = entered[t][i]
<1>1. entered[t] \in Seq(Uses)
  BY DEF TypeOK
<1>2. Len(entered[t]) \in Nat \ {0}
  BY <1>1, EmptySeq
<1>3. QED
  BY <1>1, <1>2 DEF Last, Front

-----------------------------------------------------------------------------
(* Permits *)

\* Where neither the cache nor what is entered changes, so does no permit.
LEMMA HeldSame ==
    ASSUME UNCHANGED <<wrappers, entered>>, NEW n
    PROVE  Held(n)' = Held(n)
BY DEF Held, Cache

\* To cache a key that was not cached concerns no permit.
LEMMA HeldWhenObtained ==
    ASSUME IInv, NEW t \in Tasks, Obtain(t), NEW n \in Names
    PROVE  Held(n)' = Held(n)
<1>1. /\ SemaphoreOf(t) = Unknown /\ Len(entered[t]) < Len(Plan[t])
      /\ wrappers' = [wrappers EXCEPT ![ProcessOf[t]][Wants(t).key] = Wants(t).name]
      /\ entered' = entered
  BY DEF IInv, Asking, Asks, Obtain, Requesting
<1>2. ASSUME NEW u \in Tasks, NEW i \in DOMAIN entered[u]
      PROVE  Cache(u, entered[u][i])' = Cache(u, entered[u][i])
  <2>1. Cache(u, entered[u][i]) # Unknown /\ entered[u][i].key \in Keys
    BY EnteredFacts DEF IInv, EnteredCached
  <2>2. ~(ProcessOf[u] = ProcessOf[t] /\ entered[u][i].key = Wants(t).key)
    BY <1>1, <2>1 DEF SemaphoreOf, Cache
  <2>3. wrappers \in [Processes -> [Keys -> Names \cup {Unknown}]]
    BY DEF IInv, TypeOK
  <2>4. QED
    BY <1>1, <2>1, <2>2, <2>3, PlanFacts DEF Cache
<1>3. QED
  BY <1>1, <1>2 DEF Held

\* A permit more is held of the semaphore acquired, and of no other.
LEMMA HeldWhenAcquired ==
    ASSUME IInv, NEW t \in Tasks, Acquire(t), NEW n \in Names
    PROVE  LET h == <<t, Len(entered[t]) + 1>>
           IN  /\ h \notin Held(n)
               /\ Held(n)' = IF n = SemaphoreOf(t) THEN Held(n) \cup {h} ELSE Held(n)
<1> DEFINE h == <<t, Len(entered[t]) + 1>>
<1>1. /\ entered \in [Tasks -> Seq(Uses)] /\ entered[t] \in Seq(Uses)
      /\ entered' = [entered EXCEPT ![t] = Append(@, Wants(t))] /\ wrappers' = wrappers
  BY DEF IInv, TypeOK, Acquire
<1>2. Len(entered[t]) \in Nat /\ DOMAIN entered[t] = 1 .. Len(entered[t])
  BY <1>1
<1>3. /\ DOMAIN entered'[t] = 1 .. Len(entered[t]) + 1
      /\ entered'[t][Len(entered[t]) + 1] = Wants(t)
      /\ \A i \in DOMAIN entered[t] : entered'[t][i] = entered[t][i]
  <2>1. Wants(t) \in Uses
    BY WantsFacts DEF IInv, Asking, Asks, Acquire
  <2>2. QED
    BY <1>1, <1>2, <2>1, AppendProperties
<1>4. \A u \in Tasks : u # t => entered'[u] = entered[u]
  BY <1>1
<1>5. h \notin Held(n)
  BY <1>2 DEF Held
<1>6. ASSUME NEW g \in Tasks \X Nat
      PROVE  g \in Held(n)' <=> g \in Held(n) \/ (g = h /\ n = SemaphoreOf(t))
  <2>1. CASE g[1] # t
    BY <1>1, <1>4, <2>1 DEF Held, Cache
  <2>2. CASE g[1] = t /\ g[2] \in DOMAIN entered[t]
    BY <1>1, <1>2, <1>3, <2>2 DEF Held, Cache
  <2>3. CASE g = h
    BY <1>1, <1>2, <1>3, <2>3 DEF Held, Cache, SemaphoreOf
  <2>4. CASE g[1] = t /\ g[2] \notin DOMAIN entered[t] /\ g # h
    <3>1. g[2] \notin DOMAIN entered'[t]
      BY <1>2, <1>3, <2>4
    <3>2. QED
      BY <2>4, <3>1 DEF Held
  <2>5. QED
    BY <2>1, <2>2, <2>3, <2>4
<1>7. h \in Tasks \X Nat
  BY <1>2
<1>8. QED
  BY <1>5, <1>6, <1>7 DEF Held

\* A permit less is held of the semaphore released, and of no other.
LEMMA HeldWhenReleased ==
    ASSUME IInv, NEW t \in Tasks, Release(t), NEW n \in Names
    PROVE  LET h == <<t, Len(entered[t])>>
               m == Cache(t, Last(entered[t]))
           IN  /\ n = m => h \in Held(n)
               /\ Held(n)' = IF n = m THEN Held(n) \ {h} ELSE Held(n)
<1> DEFINE h == <<t, Len(entered[t])>>
           m == Cache(t, Last(entered[t]))
<1>1. /\ entered \in [Tasks -> Seq(Uses)] /\ entered[t] \in Seq(Uses)
      /\ entered' = [entered EXCEPT ![t] = Front(@)] /\ wrappers' = wrappers
  BY DEF IInv, TypeOK, Release
<1>2. Len(entered[t]) \in Nat /\ DOMAIN entered[t] = 1 .. Len(entered[t])
  BY <1>1
<1>3. entered[t] # <<>>
  BY <1>1, PlanFacts DEF IInv, Asking, Asks, Release
<1>4. /\ Len(entered[t]) \in DOMAIN entered[t]
      /\ Last(entered[t]) = entered[t][Len(entered[t])]
      /\ DOMAIN entered'[t] = 1 .. Len(entered[t]) - 1
      /\ \A i \in 1 .. Len(entered[t]) - 1 : entered'[t][i] = entered[t][i]
  BY <1>1, <1>3, LastFacts DEF IInv
<1>5. \A u \in Tasks : u # t => entered'[u] = entered[u]
  BY <1>1
<1>6. ASSUME NEW g \in Tasks \X Nat
      PROVE  g \in Held(n)' <=> g \in Held(n) /\ g # h
  <2>1. CASE g[1] # t
    BY <1>1, <1>5, <2>1 DEF Held, Cache
  <2>2. CASE g[1] = t /\ g # h /\ g[2] \in DOMAIN entered[t]
    <3>1. g[2] \in 1 .. Len(entered[t]) - 1
      BY <1>2, <2>2
    <3>2. QED
      BY <1>1, <1>4, <2>2, <3>1 DEF Held, Cache
  <2>3. CASE g = h \/ (g[1] = t /\ g[2] \notin DOMAIN entered[t])
    <3>1. g[2] \notin DOMAIN entered'[t]
      BY <1>2, <1>4, <2>3
    <3>2. QED
      BY <2>3, <3>1 DEF Held
  <2>4. QED
    BY <2>1, <2>2, <2>3
<1>7. h \in Held(n) <=> n = m
  BY <1>2, <1>4 DEF Held
<1>8. QED
  BY <1>6, <1>7 DEF Held

-----------------------------------------------------------------------------
(* What each kind of step does to permits *)

\* The values of one semaphore and its permits before and after a step.
Balanced(v, held) ==
    /\ IsFiniteSet(held)
    /\ IF v = Absent THEN held = {} ELSE v + Cardinality(held) = Limit

LEMMA BalanceIs == Balance <=> \A n \in Names : Balanced(value[n], Held(n))
BY DEF Balance, Balanced

\* A semaphore that is in use exists, and has a permit out.
LEMMA HeldExists ==
    ASSUME Balance, TypeOK, NEW n \in Names, NEW h \in Held(n)
    PROVE  value[n] \in 0 .. Limit - 1 /\ Cardinality(Held(n)) \in Nat \ {0}
<1>1. IsFiniteSet(Held(n)) /\ value[n] # Absent /\ value[n] + Cardinality(Held(n)) = Limit
  BY DEF Balance
<1>2. Cardinality(Held(n)) \in Nat \ {0}
  BY <1>1, FS_CardinalityType, FS_EmptySet
<1>3. QED
  BY <1>1, <1>2, LimitAssumption DEF TypeOK

\* The semaphore a task waits for, and that which it leaves.
LEMMA WaitsForExisting ==
    ASSUME IInv, NEW t \in Tasks, stage[t] \in HasWrapper
    PROVE  SemaphoreOf(t) \in Names /\ value[SemaphoreOf(t)] \in 0 .. Limit
<1>1. /\ Len(entered[t]) < Len(Plan[t]) /\ SemaphoreOf(t) # Unknown
  BY DEF IInv, Asking, Asks, HasWrapper
<1>2. SemaphoreOf(t) \in Names /\ Wants(t).key \in Keys
  BY <1>1, WantsFacts DEF IInv
<1>3. value[SemaphoreOf(t)] # Absent
  BY <1>1, <1>2, PlanFacts DEF IInv, CachedExist, SemaphoreOf, Cache
<1>4. QED
  BY <1>2, <1>3 DEF IInv, TypeOK

LEMMA LeavesExisting ==
    ASSUME IInv, NEW t \in Tasks, Release(t)
    PROVE  /\ entered[t] # <<>> /\ Cache(t, Last(entered[t])) \in Names
           /\ value[Cache(t, Last(entered[t]))] \in 0 .. Limit - 1
<1>1. entered[t] # <<>>
  <2>1. entered[t] \in Seq(Uses)
    BY DEF IInv, TypeOK
  <2>2. QED
    BY <2>1, PlanFacts DEF IInv, Asking, Asks, Release
<1>2. Cache(t, Last(entered[t])) \in Names
  BY <1>1, LastFacts, EnteredFacts DEF IInv, EnteredCached
<1>3. <<t, Len(entered[t])>> \in Held(Cache(t, Last(entered[t])))
  BY <1>2, HeldWhenReleased
<1>4. QED
  BY <1>1, <1>2, <1>3, HeldExists DEF IInv

\* Permits move between a semaphore and tasks, and are neither made nor lost.
LEMMA BalanceKept ==
    ASSUME IInv, [Next]_vars
    PROVE  Balance'
<1> USE DEF Balanced
<1>1. \A n \in Names : Balanced(value[n], Held(n))
  BY BalanceIs DEF IInv
<1>2. SUFFICES ASSUME NEW n \in Names PROVE Balanced(value'[n], Held(n)')
  BY DEF Balance
<1>3. value \in [Names -> {Absent} \cup (0 .. Limit)]
  BY DEF IInv, TypeOK
<1>4. CASE UNCHANGED <<value, wrappers, entered>>
  BY <1>1, <1>4, HeldSame
<1>5. ASSUME NEW t \in Tasks, Obtain(t) PROVE Balanced(value'[n], Held(n)')
  BY <1>1, <1>5, HeldWhenObtained DEF Obtain
<1>6. ASSUME NEW t \in Tasks, Acquire(t) PROVE Balanced(value'[n], Held(n)')
  <2> DEFINE h == <<t, Len(entered[t]) + 1>>
  <2>1. /\ value' = [value EXCEPT ![SemaphoreOf(t)] = @ - 1]
        /\ value[SemaphoreOf(t)] > 0
    BY <1>6 DEF Acquire
  <2>2. h \notin Held(n) /\ Held(n)' = IF n = SemaphoreOf(t) THEN Held(n) \cup {h} ELSE Held(n)
    BY <1>6, HeldWhenAcquired
  <2>3. CASE n = SemaphoreOf(t)
    <3>1. IsFiniteSet(Held(n)) /\ value[n] \in 0 .. Limit /\ value[n] > 0
      BY <1>1, <1>6, <2>1, <2>3, WaitsForExisting DEF Acquire, HasWrapper
    <3>2. IsFiniteSet(Held(n)') /\ Cardinality(Held(n)') = Cardinality(Held(n)) + 1
      <4>1. /\ IsFiniteSet(Held(n) \cup {h})
            /\ Cardinality(Held(n) \cup {h}) =
                 IF h \in Held(n) THEN Cardinality(Held(n)) ELSE Cardinality(Held(n)) + 1
        BY <3>1, FS_AddElement, Zenon
      <4>2. Held(n)' = Held(n) \cup {h} /\ h \notin Held(n)
        BY <2>2, <2>3
      <4>3. QED
        BY <4>1, <4>2
    <3>3. value'[n] = value[n] - 1 /\ value'[n] # Absent
      BY <1>3, <2>1, <2>3, <3>1, LimitAssumption
    <3>4. value[n] + Cardinality(Held(n)) = Limit /\ Cardinality(Held(n)) \in Nat
      BY <1>1, <3>1, FS_CardinalityType, LimitAssumption
    <3>5. QED
      BY <3>1, <3>2, <3>3, <3>4, LimitAssumption
  <2>4. CASE n # SemaphoreOf(t)
    BY <1>1, <1>3, <2>1, <2>2, <2>4
  <2>5. QED
    BY <2>3, <2>4
<1>7. ASSUME NEW t \in Tasks, Release(t) PROVE Balanced(value'[n], Held(n)')
  <2> DEFINE h == <<t, Len(entered[t])>>
             m == Cache(t, Last(entered[t]))
  <2>1. value' = [value EXCEPT ![m] = @ + 1]
    BY <1>7 DEF Release
  <2>2. (n = m => h \in Held(n)) /\ Held(n)' = IF n = m THEN Held(n) \ {h} ELSE Held(n)
    BY <1>7, HeldWhenReleased
  <2>3. CASE n = m
    <3>1. IsFiniteSet(Held(n)) /\ value[n] \in 0 .. Limit - 1
      BY <1>1, <1>7, <2>3, LeavesExisting
    <3>2. IsFiniteSet(Held(n)') /\ Cardinality(Held(n)') = Cardinality(Held(n)) - 1
      BY <2>2, <2>3, <3>1, FS_RemoveElement
    <3>3. value'[n] = value[n] + 1 /\ value'[n] # Absent
      BY <1>3, <2>1, <2>3, <3>1, LimitAssumption
    <3>4. value[n] + Cardinality(Held(n)) = Limit /\ Cardinality(Held(n)) \in Nat
      BY <1>1, <3>1, FS_CardinalityType, LimitAssumption
    <3>5. QED
      BY <3>1, <3>2, <3>3, <3>4, LimitAssumption
  <2>4. CASE n # m
    BY <1>1, <1>3, <2>1, <2>2, <2>4
  <2>5. QED
    BY <2>3, <2>4
<1>8. ASSUME NEW p \in Processes, NEW m \in Names, Serve(p, m) PROVE Balanced(value'[n], Held(n)')
  <2>1. Held(n)' = Held(n)
    BY <1>8, HeldSame DEF Serve
  <2>2. CASE value[n] = Absent
    BY <1>1, <1>3, <1>8, <2>1, <2>2, FS_EmptySet, LimitAssumption DEF Serve, IsNew
  <2>3. CASE value[n] # Absent
    <3>1. value'[n] = value[n]
      BY <1>3, <1>8, <2>3 DEF Serve, IsNew
    <3>2. QED
      BY <1>1, <2>1, <3>1
  <2>4. QED
    BY <2>2, <2>3
<1>9. QED
  BY <1>4, <1>5, <1>6, <1>7, <1>8
  DEF Next, vars, TaskStep, Ask, Cached, TakeLock, Request, BeginAcquire, Sleep, GiveUp,
      StopServing, Cancel, AllTasksDone

-----------------------------------------------------------------------------
(* What steps do to the registries *)

\* A value is set.
LEMMA SetValue ==
    ASSUME NEW f \in [Names -> {Absent} \cup (0 .. Limit)], NEW m \in Names, NEW v \in 0 .. Limit,
           NEW g, g = [f EXCEPT ![m] = v]
    PROVE  /\ g \in [Names -> {Absent} \cup (0 .. Limit)]
           /\ \A n \in Names : f[n] # Absent => g[n] # Absent
<1>1. v # Absent
  BY LimitAssumption
<1>2. g \in [Names -> {Absent} \cup (0 .. Limit)]
  OBVIOUS
<1>3. ASSUME NEW n \in Names, f[n] # Absent PROVE g[n] # Absent
  BY <1>1, <1>3
<1>4. QED
  BY <1>2, <1>3

\* No step takes a semaphore out of the dictionary.
LEMMA ValuesStay ==
    ASSUME IInv, [Next]_vars
    PROVE  /\ value' \in [Names -> {Absent} \cup (0 .. Limit)]
           /\ \A n \in Names : value[n] # Absent => value'[n] # Absent
<1>1. value \in [Names -> {Absent} \cup (0 .. Limit)]
  BY DEF IInv, TypeOK
<1>2. CASE UNCHANGED value
  BY <1>1, <1>2
<1>3. ASSUME NEW t \in Tasks, Acquire(t)
      PROVE  /\ value' \in [Names -> {Absent} \cup (0 .. Limit)]
             /\ \A n \in Names : value[n] # Absent => value'[n] # Absent
  <2>1. SemaphoreOf(t) \in Names /\ value[SemaphoreOf(t)] \in 0 .. Limit
    BY <1>3, WaitsForExisting DEF Acquire, HasWrapper
  <2>2. value' = [value EXCEPT ![SemaphoreOf(t)] = @ - 1] /\ value[SemaphoreOf(t)] > 0
    BY <1>3 DEF Acquire
  <2>3. value[SemaphoreOf(t)] - 1 \in 0 .. Limit
    BY <2>1, <2>2, LimitAssumption
  <2>4. QED
    BY <1>1, <2>1, <2>2, <2>3, SetValue
<1>4. ASSUME NEW t \in Tasks, Release(t)
      PROVE  /\ value' \in [Names -> {Absent} \cup (0 .. Limit)]
             /\ \A n \in Names : value[n] # Absent => value'[n] # Absent
  <2> DEFINE m == Cache(t, Last(entered[t]))
  <2>1. m \in Names /\ value[m] \in 0 .. Limit - 1
    BY <1>4, LeavesExisting
  <2>2. value' = [value EXCEPT ![m] = @ + 1]
    BY <1>4 DEF Release
  <2>3. value[m] + 1 \in 0 .. Limit
    BY <2>1, LimitAssumption
  <2>4. QED
    BY <1>1, <2>1, <2>2, <2>3, SetValue
<1>5. ASSUME NEW p \in Processes, NEW n \in Names, Serve(p, n)
      PROVE  /\ value' \in [Names -> {Absent} \cup (0 .. Limit)]
             /\ \A m \in Names : value[m] # Absent => value'[m] # Absent
  BY <1>1, <1>5, LimitAssumption DEF Serve
<1>6. QED
  BY <1>2, <1>3, <1>4, <1>5
  DEF Next, vars, TaskStep, Ask, Cached, TakeLock, Request, Obtain, BeginAcquire, Sleep, GiveUp,
      StopServing, Cancel, AllTasksDone

\* A key stays cached, and is cached for a use that has it.
LEMMA CacheGrows ==
    ASSUME IInv, [Next]_vars
    PROVE  /\ wrappers' \in [Processes -> [Keys -> Names \cup {Unknown}]]
           /\ \A p \in Processes, k \in Keys : wrappers[p][k] # Unknown => wrappers'[p][k] = wrappers[p][k]
           /\ CachedExist'
<1>1. wrappers \in [Processes -> [Keys -> Names \cup {Unknown}]] /\ CachedExist
  BY DEF IInv, TypeOK
<1>2. CASE UNCHANGED wrappers
  BY <1>1, <1>2, ValuesStay DEF CachedExist
<1>3. ASSUME NEW t \in Tasks, Obtain(t)
      PROVE  /\ wrappers' \in [Processes -> [Keys -> Names \cup {Unknown}]]
             /\ \A p \in Processes, k \in Keys : wrappers[p][k] # Unknown => wrappers'[p][k] = wrappers[p][k]
             /\ CachedExist'
  <2>1. Len(entered[t]) < Len(Plan[t]) /\ SemaphoreOf(t) = Unknown
    BY <1>3 DEF IInv, Asking, Asks, Obtain, Requesting
  <2>2. Wants(t) \in Uses /\ Wants(t).name \in Names /\ Wants(t).key \in Keys /\ ProcessOf[t] \in Processes
    BY <2>1, WantsFacts, PlanFacts DEF IInv
  <2>3. /\ wrappers' = [wrappers EXCEPT ![ProcessOf[t]][Wants(t).key] = Wants(t).name]
        /\ value' = value /\ value[Wants(t).name] # Absent
    BY <1>3 DEF Obtain
  <2>4. wrappers' \in [Processes -> [Keys -> Names \cup {Unknown}]]
    BY <1>1, <2>2, <2>3
  <2>5. \A p \in Processes, k \in Keys :
          IF p = ProcessOf[t] /\ k = Wants(t).key THEN wrappers'[p][k] = Wants(t).name
          ELSE wrappers'[p][k] = wrappers[p][k]
    BY <1>1, <2>2, <2>3
  <2>6. wrappers[ProcessOf[t]][Wants(t).key] = Unknown
    BY <2>1 DEF SemaphoreOf, Cache
  <2>7. CachedExist'
    BY <1>1, <2>2, <2>3, <2>5 DEF CachedExist
  <2>8. QED
    BY <2>4, <2>5, <2>6, <2>7
<1>4. QED
  BY <1>2, <1>3
  DEF Next, vars, TaskStep, Ask, Cached, TakeLock, Request, Acquire, BeginAcquire, Sleep, Release,
      GiveUp, Serve, StopServing, Cancel, AllTasksDone

\* What is entered stays a sequence of uses whose keys are cached.
LEMMA EnteredKept ==
    ASSUME IInv, [Next]_vars
    PROVE  entered' \in [Tasks -> Seq(Uses)] /\ EnteredCached'
<1>1. entered \in [Tasks -> Seq(Uses)] /\ EnteredCached
  BY DEF IInv, TypeOK
<1>2. ASSUME NEW u \in Tasks, NEW use \in Uses, Cache(u, use) # Unknown
      PROVE  Cache(u, use)' # Unknown
  BY <1>2, CacheGrows, UseFacts, PlanFacts DEF Cache
<1>3. CASE UNCHANGED entered
  <2>1. \A u \in Tasks : \A i \in DOMAIN entered[u] : Cache(u, entered[u][i])' # Unknown
    BY <1>1, <1>2, <1>3, EnteredFacts DEF IInv, EnteredCached
  <2>2. QED
    BY <1>1, <1>3, <2>1 DEF EnteredCached, Cache
<1>4. ASSUME NEW t \in Tasks, Acquire(t)
      PROVE  entered' \in [Tasks -> Seq(Uses)] /\ EnteredCached'
  <2>1. /\ entered' = [entered EXCEPT ![t] = Append(@, Wants(t))] /\ wrappers' = wrappers
        /\ Len(entered[t]) < Len(Plan[t]) /\ SemaphoreOf(t) # Unknown
    BY <1>4 DEF IInv, Asking, Asks, Acquire, HasWrapper
  <2>2. Wants(t) \in Uses
    BY <2>1, WantsFacts DEF IInv
  <2>3. entered' \in [Tasks -> Seq(Uses)]
    BY <1>1, <2>1, <2>2
  <2>4. /\ \A u \in Tasks : u # t => entered'[u] = entered[u]
        /\ \A i \in DOMAIN entered'[t] : entered'[t][i] = Wants(t) \/ (i \in DOMAIN entered[t] /\ entered'[t][i] = entered[t][i])
    BY <1>1, <2>1, <2>2
  <2>5. QED
    BY <1>1, <2>1, <2>3, <2>4 DEF EnteredCached, SemaphoreOf, Cache
<1>5. ASSUME NEW t \in Tasks, Release(t)
      PROVE  entered' \in [Tasks -> Seq(Uses)] /\ EnteredCached'
  <2>1. entered' = [entered EXCEPT ![t] = Front(@)] /\ wrappers' = wrappers
    BY <1>5 DEF Release
  <2>2. /\ Front(entered[t]) \in Seq(Uses) /\ Len(entered[t]) \in Nat \ {0}
        /\ Len(Front(entered[t])) = Len(entered[t]) - 1
        /\ \A i \in 1 .. Len(entered[t]) - 1 : Front(entered[t])[i] = entered[t][i]
    BY <1>5, LeavesExisting, LastFacts DEF IInv
  <2>3. entered' \in [Tasks -> Seq(Uses)]
    BY <1>1, <2>1, <2>2
  <2>4. /\ \A u \in Tasks : u # t => entered'[u] = entered[u]
        /\ \A i \in DOMAIN entered'[t] : i \in DOMAIN entered[t] /\ entered'[t][i] = entered[t][i]
    BY <1>1, <2>1, <2>2
  <2>5. QED
    BY <1>1, <2>1, <2>3, <2>4 DEF EnteredCached, Cache
<1>6. QED
  BY <1>3, <1>4, <1>5
  DEF Next, vars, TaskStep, Ask, Cached, TakeLock, Request, Obtain, BeginAcquire, Sleep, GiveUp,
      Serve, StopServing, Cancel, AllTasksDone

\* A task whose own state a step leaves alone, but for a sleeper that is woken,
\* asks as before if the step leaves the lock and the key it holds it for.
LEMMA AsksAsBefore ==
    ASSUME IInv, [Next]_vars, NEW u \in Tasks, entered'[u] = entered[u],
           stage'[u] = stage[u] \/ (stage[u] = "sleeping" /\ stage'[u] = "woken"),
           stage[u] \in Requesting => /\ lock'[ProcessOf[u]] = lock[ProcessOf[u]]
                                      /\ SemaphoreOf(u)' = SemaphoreOf(u)
    PROVE  Asks(u)'
<1>1. Asks(u)
  BY DEF IInv, Asking
<1>2. stage[u] \in HasWrapper => SemaphoreOf(u)' # Unknown
  <2>1. SUFFICES ASSUME stage[u] \in HasWrapper PROVE SemaphoreOf(u)' # Unknown
    OBVIOUS
  <2>2. Len(entered[u]) < Len(Plan[u]) /\ SemaphoreOf(u) # Unknown
    BY <1>1, <2>1 DEF Asks, HasWrapper
  <2>3. Wants(u).key \in Keys /\ Wants(u)' = Wants(u)
    BY <2>2, WantsFacts DEF IInv, Wants
  <2>4. QED
    BY <2>2, <2>3, CacheGrows, PlanFacts DEF SemaphoreOf, Cache
<1>3. QED
  BY <1>1, <1>2 DEF Asks, Requesting, HasWrapper

\* Every task asks as it should, and locks have the holders that they should.
Locks ==
    \A p \in Processes :
        /\ lock[p] \in Tasks \cup {Nobody}
        /\ lock[p] # Nobody => stage[lock[p]] \in Requesting /\ ProcessOf[lock[p]] = p

LEMMA AskingKept ==
    ASSUME IInv, [Next]_vars
    PROVE  /\ Asking' /\ Locks' /\ stage' \in [Tasks -> Stages]
           /\ lock' \in [Processes -> Tasks \cup {Nobody}]
<1>1. /\ stage \in [Tasks -> Stages] /\ lock \in [Processes -> Tasks \cup {Nobody}]
      /\ entered \in [Tasks -> Seq(Uses)]
      /\ wrappers \in [Processes -> [Keys -> Names \cup {Unknown}]]
      /\ Locks /\ Nobody \notin Tasks
  BY NamesAssumption DEF IInv, TypeOK, LockOwn, Locks, Requesting
<1>2. \A t \in Tasks : Asks(t)
  BY DEF IInv, Asking
<1> DEFINE Goal == /\ Asking' /\ Locks' /\ stage' \in [Tasks -> Stages]
                   /\ lock' \in [Processes -> Tasks \cup {Nobody}]
<1> USE DEF Requesting, HasWrapper, Stages
<1>3. CASE UNCHANGED <<stage, lock, entered, wrappers>>
  <2>1. Asking'
    BY <1>2, <1>3 DEF Asking, Asks, SemaphoreOf, Cache, Wants
  <2>2. QED
    BY <1>1, <1>3, <2>1 DEF Locks
\* Steps of a task that leave the locks, the cache and what is entered.
<1>4. ASSUME NEW t \in Tasks,
             \/ Ask(t) \/ Cached(t) \/ Request(t) \/ BeginAcquire(t) \/ Sleep(t)
      PROVE  Goal
  <2>1. UNCHANGED <<lock, entered, wrappers>>
    BY <1>4 DEF Ask, Cached, Request, BeginAcquire, Sleep
  <2>2. PICK to \in Stages :
          /\ stage' = [stage EXCEPT ![t] = to]
          /\ \/ stage[t] = "running" /\ to = "locking" /\ Len(entered[t]) < Len(Plan[t])
             \/ stage[t] = "locking" /\ to = "wrapped" /\ SemaphoreOf(t) # Unknown
             \/ stage[t] = "requesting" /\ to = "awaiting"
             \/ stage[t] \in HasWrapper /\ to \in HasWrapper
    BY <1>4 DEF Ask, Cached, Request, BeginAcquire, Sleep, Move
  <2>3. stage'[t] = to /\ \A u \in Tasks : u # t => stage'[u] = stage[u]
    BY <1>1, <2>2
  <2>4. \A u \in Tasks : SemaphoreOf(u)' = SemaphoreOf(u)
    BY <2>1 DEF SemaphoreOf, Cache, Wants
  <2>5. ASSUME NEW u \in Tasks PROVE Asks(u)'
    <3>1. CASE u # t
      BY <2>1, <2>3, <2>4, <3>1, AsksAsBefore
    <3>2. CASE u = t
      BY <1>2, <2>1, <2>2, <2>3, <2>4, <3>2 DEF Asks
    <3>3. QED
      BY <3>1, <3>2
  <2>6. stage' \in [Tasks -> Stages]
    BY <1>1, <2>2
  <2>7. Locks'
    BY <1>1, <2>1, <2>2, <2>3 DEF Locks
  <2>8. QED
    BY <1>1, <2>1, <2>5, <2>6, <2>7 DEF Asking
<1>5. ASSUME NEW t \in Tasks, TakeLock(t) PROVE Goal
  <2>1. /\ lock[ProcessOf[t]] = Nobody /\ SemaphoreOf(t) = Unknown /\ stage[t] = "locking"
        /\ lock' = [lock EXCEPT ![ProcessOf[t]] = t] /\ stage' = [stage EXCEPT ![t] = "requesting"]
        /\ UNCHANGED <<entered, wrappers>>
    BY <1>5 DEF TakeLock, Move
  <2>2. /\ stage'[t] = "requesting" /\ \A u \in Tasks : u # t => stage'[u] = stage[u]
        /\ lock'[ProcessOf[t]] = t /\ \A p \in Processes : p # ProcessOf[t] => lock'[p] = lock[p]
    BY <1>1, <2>1, PlanFacts
  <2>3. \A u \in Tasks : SemaphoreOf(u)' = SemaphoreOf(u)
    BY <2>1 DEF SemaphoreOf, Cache, Wants
  <2>4. ASSUME NEW u \in Tasks PROVE Asks(u)'
    <3>1. CASE u # t
      <4>1. stage[u] \in Requesting => ProcessOf[u] # ProcessOf[t]
        BY <1>1, <1>2, <2>1 DEF Asks
      <4>2. QED
        BY <2>1, <2>2, <2>3, <3>1, <4>1, PlanFacts, AsksAsBefore
    <3>2. CASE u = t
      BY <1>2, <2>1, <2>2, <2>3, <3>2 DEF Asks
    <3>3. QED
      BY <3>1, <3>2
  <2>5. stage' \in [Tasks -> Stages] /\ lock' \in [Processes -> Tasks \cup {Nobody}]
    BY <1>1, <2>1
  <2>6. Locks'
    BY <1>1, <2>1, <2>2 DEF Locks
  <2>7. QED
    BY <2>4, <2>5, <2>6 DEF Asking
<1>6. ASSUME NEW t \in Tasks, Obtain(t) PROVE Goal
  <2>1. /\ stage[t] = "awaiting" /\ stage' = [stage EXCEPT ![t] = "wrapped"] /\ entered' = entered
        /\ lock' = [lock EXCEPT ![ProcessOf[t]] = Nobody]
        /\ wrappers' = [wrappers EXCEPT ![ProcessOf[t]][Wants(t).key] = Wants(t).name]
    BY <1>6 DEF Obtain, Move
  <2>2. /\ stage'[t] = "wrapped" /\ \A u \in Tasks : u # t => stage'[u] = stage[u]
        /\ lock'[ProcessOf[t]] = Nobody /\ \A p \in Processes : p # ProcessOf[t] => lock'[p] = lock[p]
        /\ \A p \in Processes : p # ProcessOf[t] => wrappers'[p] = wrappers[p]
    BY <1>1, <2>1, PlanFacts
  <2>3. lock[ProcessOf[t]] = t
    BY <1>2, <2>1 DEF Asks
  <2>4. ASSUME NEW u \in Tasks, u # t PROVE Asks(u)'
    <3>1. stage[u] \in Requesting => ProcessOf[u] # ProcessOf[t]
      BY <1>2, <2>3, <2>4 DEF Asks
    <3>2. stage[u] \in Requesting => SemaphoreOf(u)' = SemaphoreOf(u)
      BY <2>1, <2>2, <3>1, PlanFacts DEF SemaphoreOf, Cache, Wants
    <3>3. QED
      BY <2>1, <2>2, <2>4, <3>1, <3>2, PlanFacts, AsksAsBefore
  <2>5. Asks(t)'
    <3>1. Len(entered[t]) < Len(Plan[t])
      BY <1>2, <2>1 DEF Asks
    <3>2. Wants(t).name \in Names /\ Wants(t).key \in Keys /\ Wants(t).name # Unknown /\ Wants(t)' = Wants(t)
      BY <2>1, <3>1, WantsFacts, UseFacts DEF IInv, Wants
    <3>3. SemaphoreOf(t)' # Unknown
      BY <1>1, <2>1, <3>2, PlanFacts DEF SemaphoreOf, Cache
    <3>4. QED
      BY <1>2, <2>1, <2>2, <3>1, <3>3 DEF Asks
  <2>6. stage' \in [Tasks -> Stages] /\ lock' \in [Processes -> Tasks \cup {Nobody}]
    BY <1>1, <2>1
  <2>7. Locks'
    BY <1>1, <2>2, <2>3 DEF Locks
  <2>8. QED
    BY <2>4, <2>5, <2>6, <2>7 DEF Asking
<1>7. ASSUME NEW t \in Tasks, Acquire(t) PROVE Goal
  <2>1. /\ stage[t] \in HasWrapper /\ stage' = [stage EXCEPT ![t] = "running"]
        /\ UNCHANGED <<lock, wrappers>> /\ entered' = [entered EXCEPT ![t] = Append(@, Wants(t))]
    BY <1>7 DEF Acquire, Move
  <2>2. /\ stage'[t] = "running" /\ entered'[t] = Append(entered[t], Wants(t))
        /\ \A u \in Tasks : u # t => stage'[u] = stage[u] /\ entered'[u] = entered[u]
    BY <1>1, <2>1
  <2>3. ASSUME NEW u \in Tasks, u # t PROVE Asks(u)'
    <3>1. SemaphoreOf(u)' = SemaphoreOf(u)
      BY <2>1, <2>2, <2>3 DEF SemaphoreOf, Cache, Wants
    <3>2. QED
      BY <2>1, <2>2, <2>3, <3>1, AsksAsBefore
  <2>4. Asks(t)'
    <3>1. Len(entered[t]) < Len(Plan[t]) /\ entered[t] \in Seq(Uses)
      BY <1>1, <1>2, <2>1 DEF Asks
    <3>2. Wants(t) \in Uses
      BY <3>1, WantsFacts DEF IInv
    <3>3. Len(entered'[t]) = Len(entered[t]) + 1 /\ Len(entered[t]) \in Nat
      BY <2>2, <3>1, <3>2
    <3>4. Len(entered'[t]) <= Len(Plan[t])
      BY <3>1, <3>3, PlanFacts
    <3>5. QED
      BY <2>2, <3>4 DEF Asks
  <2>5. stage' \in [Tasks -> Stages]
    BY <1>1, <2>1
  <2>6. Locks'
    BY <1>1, <2>1, <2>2 DEF Locks
  <2>7. QED
    BY <1>1, <2>1, <2>3, <2>4, <2>5, <2>6 DEF Asking
<1>8. ASSUME NEW t \in Tasks, Release(t) PROVE Goal
  <2> DEFINE next == IF Len(entered[t]) = 1 THEN "done" ELSE "leaving"
             m == Cache(t, Last(entered[t]))
  <2>1. /\ stage[t] \in {"leaving", "running"} /\ UNCHANGED <<lock, wrappers>>
        /\ entered' = [entered EXCEPT ![t] = Front(@)]
        /\ \/ stage' = [stage EXCEPT ![t] = next]
           \/ \E s \in ToNotify(m) : stage' = [stage EXCEPT ![s] = "woken", ![t] = next]
    BY <1>8 DEF Release, Move
  <2>2. \A s \in ToNotify(m) : s \in Tasks /\ stage[s] = "sleeping"
    BY DEF ToNotify, Sleepers
  <2>3. /\ stage'[t] = next /\ entered'[t] = Front(entered[t]) /\ stage' \in [Tasks -> Stages]
        /\ \A u \in Tasks : u # t => /\ entered'[u] = entered[u]
                                     /\ stage'[u] = stage[u] \/ (stage[u] = "sleeping" /\ stage'[u] = "woken")
    BY <1>1, <2>1, <2>2
  <2>4. ASSUME NEW u \in Tasks, u # t PROVE Asks(u)'
    <3>1. SemaphoreOf(u)' = SemaphoreOf(u)
      BY <2>1, <2>3, <2>4 DEF SemaphoreOf, Cache, Wants
    <3>2. QED
      BY <2>1, <2>3, <2>4, <3>1, AsksAsBefore
  <2>5. Asks(t)'
    <3>1. /\ Front(entered[t]) \in Seq(Uses) /\ Len(entered[t]) \in Nat \ {0}
          /\ Len(Front(entered[t])) = Len(entered[t]) - 1
      BY <1>8, LeavesExisting, LastFacts DEF IInv
    <3>2. Len(entered'[t]) = Len(entered[t]) - 1
      BY <2>3, <3>1
    <3>3. Len(entered'[t]) <= Len(Plan[t])
      BY <1>2, <3>1, <3>2, PlanFacts DEF Asks
    <3>4. stage'[t] = "leaving" => entered'[t] # <<>>
      <4>1. stage'[t] = "leaving" => Len(entered[t]) # 1
        BY <2>3
      <4>2. Len(entered'[t]) = 0 <=> Len(entered[t]) = 1
        BY <3>1, <3>2
      <4>3. Len(<<>>) = 0
        OBVIOUS
      <4>4. QED
        BY <4>1, <4>2, <4>3
    <3>5. stage'[t] \in {"done", "leaving"}
      BY <2>3
    <3>6. QED
      BY <3>3, <3>4, <3>5 DEF Asks
  <2>6. Locks'
    BY <1>1, <2>1, <2>3 DEF Locks
  <2>7. QED
    BY <1>1, <2>1, <2>3, <2>4, <2>5, <2>6 DEF Asking
<1>9. ASSUME NEW t \in Tasks, GiveUp(t) PROVE Goal
  <2> DEFINE to == IF entered[t] = <<>> THEN "done" ELSE "leaving"
  <2>1. /\ stage' = [stage EXCEPT ![t] = to] /\ UNCHANGED <<entered, wrappers>>
        /\ lock' = [p \in Processes |-> IF lock[p] = t THEN Nobody ELSE lock[p]]
    BY <1>9 DEF GiveUp, Move
  <2>2. stage'[t] = to /\ \A u \in Tasks : u # t => stage'[u] = stage[u]
    BY <1>1, <2>1
  <2>3. \A u \in Tasks : SemaphoreOf(u)' = SemaphoreOf(u)
    BY <2>1 DEF SemaphoreOf, Cache, Wants
  <2>4. ASSUME NEW u \in Tasks PROVE Asks(u)'
    <3>1. CASE u # t
      <4>1. stage[u] \in Requesting => lock'[ProcessOf[u]] = lock[ProcessOf[u]]
        BY <1>2, <2>1, <3>1, PlanFacts DEF Asks
      <4>2. QED
        BY <2>1, <2>2, <2>3, <3>1, <4>1, AsksAsBefore
    <3>2. CASE u = t
      BY <1>2, <2>1, <2>2, <3>2 DEF Asks
    <3>3. QED
      BY <3>1, <3>2
  <2>5. stage' \in [Tasks -> Stages] /\ lock' \in [Processes -> Tasks \cup {Nobody}]
    BY <1>1, <2>1
  <2>6. Locks'
    BY <1>1, <2>1, <2>2 DEF Locks
  <2>7. QED
    BY <2>4, <2>5, <2>6 DEF Asking
<1>10. QED
  <2>1. CASE \E t \in Tasks : TaskStep(t)
    BY <2>1, <1>4, <1>5, <1>6, <1>7, <1>8, <1>9 DEF TaskStep
  <2>2. CASE \E p \in Processes : Cancel(p) \/ \E n \in Names : Serve(p, n)
    BY <2>2, <1>3 DEF Cancel, Serve
  <2>3. CASE StopServing \/ AllTasksDone \/ UNCHANGED vars
    BY <2>3, <1>3 DEF StopServing, AllTasksDone, vars
  <2>4. QED
    BY <2>1, <2>2, <2>3 DEF Next

-----------------------------------------------------------------------------
(* Theorems *)

\* The other variables, which nothing above depends on.
LEMMA RequestsKept ==
    ASSUME IInv, [Next]_vars
    PROVE  requests' \in SUBSET (Processes \X Names) /\ serving' \in BOOLEAN /\ cancelled' \in SUBSET Processes
<1>1. requests \in SUBSET (Processes \X Names) /\ serving \in BOOLEAN /\ cancelled \in SUBSET Processes
  BY DEF IInv, TypeOK
<1>2. ASSUME NEW t \in Tasks, Request(t) PROVE requests' \in SUBSET (Processes \X Names)
  <2>1. Wants(t).name \in Names
    BY <1>2, WantsFacts DEF IInv, Asking, Asks, Request
  <2>2. QED
    BY <1>1, <1>2, <2>1, PlanFacts DEF Request
<1>3. ASSUME NEW t \in Tasks, TaskStep(t)
      PROVE  requests' \in SUBSET (Processes \X Names) /\ serving' = serving /\ cancelled' = cancelled
  BY <1>1, <1>2, <1>3
  DEF TaskStep, Ask, Cached, TakeLock, Request, Obtain, BeginAcquire, Acquire, Sleep, Release, GiveUp
<1>4. CASE \E t \in Tasks : TaskStep(t)
  BY <1>1, <1>3, <1>4
<1>5. CASE \E p \in Processes : Cancel(p) \/ \E n \in Names : Serve(p, n)
  BY <1>1, <1>5 DEF Cancel, Serve
<1>6. CASE StopServing \/ AllTasksDone \/ UNCHANGED vars
  BY <1>1, <1>6 DEF StopServing, AllTasksDone, vars
<1>7. QED
  BY <1>4, <1>5, <1>6 DEF Next

LEMMA InitKeepsAll == Init => IInv
<1> SUFFICES ASSUME Init PROVE IInv
  OBVIOUS
<1>1. TypeOK
  <2>1. <<>> \in Seq(Uses)
    OBVIOUS
  <2>2. QED
    BY <2>1 DEF Init, TypeOK, Stages
<1>2. \A n \in Names : Held(n) = {}
  BY DEF Init, Held
<1>3. Balance
  BY <1>2, FS_EmptySet DEF Init, Balance
<1>4. CachedExist /\ EnteredCached /\ LockOwn
  BY DEF Init, CachedExist, EnteredCached, LockOwn
<1>5. Asking
  BY PlanFacts DEF Init, Asking, Asks, Requesting, HasWrapper
<1>6. QED
  BY <1>1, <1>3, <1>4, <1>5 DEF IInv

LEMMA NextKeepsAll == IInv /\ [Next]_vars => IInv'
<1> SUFFICES ASSUME IInv, [Next]_vars PROVE IInv'
  OBVIOUS
<1>1. TypeOK' /\ LockOwn'
  BY ValuesStay, CacheGrows, EnteredKept, AskingKept, RequestsKept
  DEF TypeOK, LockOwn, Locks, Requesting
<1>2. QED
  BY <1>1, BalanceKept, CacheGrows, EnteredKept, AskingKept DEF IInv

\* The registry and its semaphores stay within their types; in particular no
\* semaphore has ever fewer than no permits or more than its limit.
THEOREM SemaphoreTypes == Spec => []TypeOK
<1>1. IInv => TypeOK
  BY DEF IInv
<1>2. QED
  BY <1>1, InitKeepsAll, NextKeepsAll, PTL DEF Spec

\* No permit is lost or made, whatever is cancelled and whenever: those in a
\* semaphore and those with tasks are Limit.
THEOREM PermitsBalance == Spec => []Balance
<1>1. IInv => Balance
  BY DEF IInv
<1>2. QED
  BY <1>1, InitKeepsAll, NextKeepsAll, PTL DEF Spec

\* The uses of a key name the same semaphore (mp_concurrency: a key is made of the
\* kind and the connection, a name of what the scanner calls it).
OneNamePerKey == \A u, v \in Uses : u.key = v.key => u.name = v.name

LEMMA BalanceLimitsKeys ==
    ASSUME IInv, OneNamePerKey
    PROVE  KeyLimit
<1>1. SUFFICES ASSUME NEW k \in Keys PROVE Cardinality(Inside(k)) <= Limit
  BY DEF KeyLimit
<1>2. PICK u \in Uses : u.key = k
  BY DEF Keys
<1>3. u.name \in Names
  BY UseFacts
<1>4. ASSUME NEW t \in Tasks, NEW i \in DOMAIN entered[t], entered[t][i].key = k
      PROVE  <<t, i>> \in Held(u.name)
  <2>1. /\ entered[t][i] \in Uses /\ Cache(t, entered[t][i]) # Unknown /\ ProcessOf[t] \in Processes
        /\ entered[t] \in Seq(Uses)
    BY EnteredFacts, PlanFacts DEF IInv, EnteredCached, TypeOK
  <2>2. Cache(t, entered[t][i]) = u.name
    <3>1. wrappers[ProcessOf[t]][k] # Unknown /\ Cache(t, entered[t][i]) = wrappers[ProcessOf[t]][k]
      BY <1>4, <2>1 DEF Cache
    <3>2. PICK v \in Uses : v.key = k /\ v.name = wrappers[ProcessOf[t]][k]
      BY <2>1, <3>1 DEF IInv, CachedExist
    <3>3. QED
      BY <1>2, <3>1, <3>2 DEF OneNamePerKey
  <2>3. i \in Nat
    BY <2>1
  <2>4. QED
    BY <2>2, <2>3 DEF Held
\* Each task inside is mapped to one of the permits it holds.
<1> DEFINE place(t) == CHOOSE i \in DOMAIN entered[t] : entered[t][i].key = k
           f == [t \in Inside(k) |-> <<t, place(t)>>]
<1>5. f \in Injection(Inside(k), Held(u.name))
  <2>1. \A t \in Inside(k) : t \in Tasks /\ place(t) \in DOMAIN entered[t] /\ entered[t][place(t)].key = k
    BY DEF Inside
  <2>2. \A t \in Inside(k) : f[t] = <<t, place(t)>> /\ f[t] \in Held(u.name)
    BY <1>4, <2>1
  <2>3. f \in [Inside(k) -> Held(u.name)]
    BY <2>2
  <2>4. \A s, t \in Inside(k) : f[s] = f[t] => s = t
    BY <2>2
  <2>5. QED
    BY <2>3, <2>4 DEF Injection, IsInjective
<1>6. IsFiniteSet(Held(u.name))
  BY <1>3 DEF IInv, Balance
<1>7. IsFiniteSet(Inside(k)) /\ Cardinality(Inside(k)) <= Cardinality(Held(u.name))
  BY <1>5, <1>6, FS_Injection
<1>8. Cardinality(Held(u.name)) <= Limit
  <2>1. CASE value[u.name] = Absent
    BY <1>3, <2>1, FS_EmptySet, LimitAssumption DEF IInv, Balance
  <2>2. CASE value[u.name] # Absent
    <3>1. value[u.name] \in 0 .. Limit /\ value[u.name] + Cardinality(Held(u.name)) = Limit
      BY <1>3, <2>2 DEF IInv, Balance, TypeOK
    <3>2. QED
      BY <1>6, <3>1, FS_CardinalityType, LimitAssumption
  <2>3. QED
    BY <2>1, <2>2
<1>9. QED
  BY <1>6, <1>7, <1>8, FS_CardinalityType, LimitAssumption

\* What the keys are for, where a key has one name: over all processes at most
\* Limit tasks are inside a use of a key.
THEOREM KeysAreLimited ==
    ASSUME OneNamePerKey
    PROVE  Spec => []KeyLimit
<1>1. IInv => KeyLimit
  BY BalanceLimitsKeys
<1>2. QED
  BY <1>1, InitKeepsAll, NextKeepsAll, PTL DEF Spec
=============================================================================
