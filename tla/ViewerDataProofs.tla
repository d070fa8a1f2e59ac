-------------------------- MODULE ViewerDataProofs --------------------------
(***************************************************************************)
(* Theorems on the data that the viewer holds: the updates by topic, the   *)
(* settings of a project, the cases of a validation set, and the sets, for *)
(* any topics, queries, fields, cases, sets and files and any bounds; and  *)
(* of the four joined (ViewerData).                                        *)
(***************************************************************************)
EXTENDS ViewerData, Counting

-----------------------------------------------------------------------------
(* Sequences *)

LEMMA RemoveIs ==
    ASSUME NEW S, NEW s \in Seq(S), NEW i \in 1 .. Len(s)
    PROVE  /\ Topic!RemoveAt(s, i) \in Seq(S)
           /\ Len(Topic!RemoveAt(s, i)) = Len(s) - 1
           /\ \A k \in 1 .. Len(s) - 1 : Topic!RemoveAt(s, i)[k] = s[IF k < i THEN k ELSE k + 1]
<1> DEFINE a == SubSeq(s, 1, i - 1)
           b == SubSeq(s, i + 1, Len(s))
<1>1. Len(s) \in Nat /\ i \in Int /\ 1 <= i /\ i <= Len(s)
  OBVIOUS
<1>2. /\ a \in Seq(S) /\ Len(a) = i - 1
      /\ \A k \in 1 .. i - 1 : a[k] = s[k]
  BY <1>1
<1>3. /\ b \in Seq(S) /\ Len(b) = Len(s) - i
      /\ \A k \in 1 .. Len(s) - i : b[k] = s[i + k]
  BY <1>1
<1>4. Topic!RemoveAt(s, i) = a \o b
  BY DEF Topic!RemoveAt
<1> HIDE DEF a, b
<1>5. a \o b \in Seq(S) /\ Len(a \o b) = Len(s) - 1
  <2>1. a \o b \in Seq(S) /\ Len(a \o b) = Len(a) + Len(b)
    BY <1>2, <1>3, ConcatProperties
  <2>2. QED
    BY <1>1, <1>2, <1>3, <2>1
<1>6. ASSUME NEW k \in 1 .. Len(s) - 1 PROVE (a \o b)[k] = s[IF k < i THEN k ELSE k + 1]
  <2>1. CASE k < i
    BY <1>1, <1>2, <1>3, <2>1
  <2>2. CASE ~(k < i)
    <3>1. k - (i - 1) \in 1 .. Len(s) - i /\ i + (k - (i - 1)) = k + 1
      BY <1>1, <2>2
    <3>2. (a \o b)[k] = b[k - (i - 1)]
      BY <1>1, <1>2, <1>3, <2>2
    <3>3. QED
      BY <1>3, <2>2, <3>1, <3>2
  <2>3. QED
    BY <2>1, <2>2
<1>7. QED
  BY <1>4, <1>5, <1>6

-----------------------------------------------------------------------------
(* Updates by topic: the invariant *)

Snapshots == [Topics -> Nat]
Cached == [data : Nat, invalid : BOOLEAN, fetch : Nat, mounted : BOOLEAN]

Typed ==
    /\ disableSSE \in BOOLEAN /\ notifying \in BOOLEAN /\ missed \in BOOLEAN
    /\ stream \in {"none", "sent", "waiting", "woken"} /\ (disableSSE => stream = "none")
    /\ content \in [Topics -> Nat \ {0}] /\ announced \in [Topics -> Nat] /\ versions \in Snapshots
    /\ wire \in Seq(Snapshots \cup {Topic!Nothing}) /\ seen \in Snapshots \cup {Topic!Nothing}
    /\ cache \in [TopicQueries -> Cached]
    /\ passedOver \in [TopicQueries -> {"no", "fetch", "answer"}]
    /\ spent \in [{"changes", "faults", "mounts", "polls"} -> Nat]

\* Asked is no content.
Bounded ==
    /\ spent["changes"] <= MaxChanges
    /\ \A t \in Topics : content[t] <= 1 + spent["changes"] /\ announced[t] <= content[t]

\* No message is ahead of the server, so that one whose version of a topic is
\* the server's was sent after the last change of it was announced.
Known(m) == m # Topic!Nothing => \A t \in Topics : m[t] <= versions[t]
Behind == (\A i \in DOMAIN wire : Known(wire[i])) /\ Known(seen)

\* An answer under way is no older than what it replaces, and no newer than
\* the content.
InFlight(c) == c.fetch \notin {Topic!Idle, Topic!Asked}
Ordered(c, newest) ==
    c.data <= newest /\ (InFlight(c) => c.data <= c.fetch /\ c.fetch <= newest)
InOrder == \A q \in TopicQueries : Ordered(cache[q], content[TopicOf[q]])

\* Of a topic whose version the client has seen, what it asks for or has
\* unmarked is all that was announced, but where it was passed over.
Caught(t) == seen # Topic!Nothing /\ seen[t] = versions[t]
UpToDate(c, over, wanted) ==
    /\ over # "fetch" /\ InFlight(c) => wanted <= c.fetch
    /\ over = "no" /\ ~c.invalid /\ c.data # Topic!NoData => wanted <= c.data
Current(q) ==
    /\ passedOver[q] = "fetch" => cache[q].invalid
    /\ Caught(TopicOf[q]) => UpToDate(cache[q], passedOver[q], announced[TopicOf[q]])

\* The last message of a stream between two notifications is the last word.
LastSent == IF wire = <<>> THEN seen ELSE Topic!Last(wire)
SentAll == (stream \in {"sent", "waiting"} /\ ~notifying /\ ~missed) => LastSent = versions

TInv ==
    /\ Typed /\ Bounded /\ Behind /\ InOrder /\ (\A q \in TopicQueries : Current(q))
    /\ SentAll /\ Topic!MarkedIsAsked

LEMMA TInvInit == ASSUME Topic!Assumptions, Topic!Init PROVE TInv
<1>1. Typed /\ wire = <<>> /\ seen = Topic!Nothing /\ stream = "none" /\ spent["changes"] = 0
  <2>1. cache \in [TopicQueries -> Cached]
    BY DEF Topic!Init, Cached, Topic!NoData, Topic!Idle
  <2>2. spent \in [{"changes", "faults", "mounts", "polls"} -> Nat] /\ spent["changes"] = 0
    BY DEF Topic!Init
  <2>3. content \in [Topics -> Nat \ {0}] /\ announced \in [Topics -> Nat] /\ versions \in Snapshots
    BY DEF Topic!Init, Snapshots
  <2>4. wire \in Seq(Snapshots \cup {Topic!Nothing})
    BY DEF Topic!Init
  <2>5. passedOver \in [TopicQueries -> {"no", "fetch", "answer"}]
    BY DEF Topic!Init
  <2>6. QED
    BY <2>1, <2>2, <2>3, <2>4, <2>5 DEF Topic!Init, Typed
<1>2. Bounded /\ Behind /\ SentAll
  BY <1>1 DEF Topic!Init, Bounded, Behind, Known, SentAll, Topic!Assumptions
<1>3. \A q \in TopicQueries : cache[q].data = 0 /\ cache[q].fetch = Topic!Idle /\ ~cache[q].invalid /\ passedOver[q] = "no"
  BY DEF Topic!Init, Topic!NoData, Topic!Idle
<1>4. \A q \in TopicQueries : TopicOf[q] \in Topics /\ content[TopicOf[q]] = 1
  BY DEF Topic!Init, Topic!Assumptions
<1>5. InOrder /\ Topic!MarkedIsAsked /\ \A q \in TopicQueries : Current(q)
  BY <1>1, <1>3, <1>4 DEF InOrder, Ordered, InFlight, Topic!MarkedIsAsked, Current, Caught, Topic!Idle
<1>6. QED
  BY <1>1, <1>2, <1>5 DEF TInv

-----------------------------------------------------------------------------
(* The steps *)

\* What the definitions say of one query and its topic.
LEMMA QueryFacts ==
    ASSUME Topic!Assumptions, Typed, Bounded, NEW q \in TopicQueries
    PROVE  /\ TopicOf[q] \in Topics /\ cache[q] \in Cached
           /\ content[TopicOf[q]] \in Nat \ {0} /\ announced[TopicOf[q]] \in Nat
           /\ content[TopicOf[q]] < Topic!Asked /\ announced[TopicOf[q]] <= content[TopicOf[q]]
           /\ Topic!Asked \in Nat /\ Topic!Asked # Topic!Idle
<1>1. /\ TopicOf[q] \in Topics /\ cache[q] \in Cached
      /\ content[TopicOf[q]] \in Nat \ {0} /\ announced[TopicOf[q]] \in Nat
  BY DEF Typed, Topic!Assumptions
<1>2. MaxChanges \in Nat /\ spent["changes"] \in Nat
  BY DEF Typed, Topic!Assumptions
<1>3. QED
  BY <1>1, <1>2 DEF Bounded, Topic!Asked, Topic!Idle

\* The steps of the stream and its messages: the client notices nothing.
LEMMA WireKeeps ==
    ASSUME TInv, UNCHANGED <<content, versions, announced, seen, cache, passedOver>>,
           spent'["changes"] = spent["changes"], spent["faults"] = 0 \/ spent'["faults"] # 0,
           Typed', \A i \in DOMAIN wire' : Known(wire'[i]), SentAll'
    PROVE  TInv' /\ Topic!NeverOlder
<1>1. \A m : Known(m)' <=> Known(m)
  BY DEF Known
<1>2. Behind'
  BY <1>1 DEF TInv, Behind
<1>3. Bounded' /\ InOrder' /\ Topic!MarkedIsAsked'
  BY DEF TInv, Bounded, InOrder, Topic!MarkedIsAsked
<1>4. \A q \in TopicQueries : Current(q)'
  BY DEF TInv, Current, Caught
<1>5. Topic!NeverOlder
  <2>1. \A q \in TopicQueries : cache[q].data \in Nat
    BY DEF TInv, Typed, Cached
  <2>2. QED
    BY <2>1 DEF Topic!NeverOlder
<1>6. QED
  BY <1>2, <1>3, <1>4, <1>5 DEF TInv

LEMMA NotifyAllKeeps == ASSUME TInv, Topic!NotifyAll PROVE TInv' /\ Topic!NeverOlder
<1>1. /\ notifying' = FALSE /\ stream' = (IF stream = "waiting" THEN "woken" ELSE stream)
      /\ missed' = (missed \/ (stream = "sent" /\ wire # <<>> /\ Topic!Last(wire) # versions)
                           \/ (stream = "sent" /\ wire = <<>> /\ seen # versions))
      /\ UNCHANGED <<disableSSE, content, versions, wire, seen, cache, announced, passedOver, spent>>
  BY DEF Topic!NotifyAll
<1>2. Typed'
  BY <1>1 DEF TInv, Typed
<1>3. SentAll'
  BY <1>1 DEF SentAll, LastSent
<1>4. \A i \in DOMAIN wire' : Known(wire'[i])
  BY <1>1 DEF TInv, Behind
<1>5. QED
  BY <1>1, <1>2, <1>3, <1>4, WireKeeps

\* Another message: what it says is the server's version.
LEMMA Appended ==
    ASSUME TInv, NEW m \in {versions, Topic!Nothing}
    PROVE  LET w == Append(wire, m)
           IN  /\ w \in Seq(Snapshots \cup {Topic!Nothing}) /\ w # <<>> /\ Topic!Last(w) = m
               /\ \A i \in DOMAIN w : Known(w[i])
<1> DEFINE w == Append(wire, m)
<1>1. /\ wire \in Seq(Snapshots \cup {Topic!Nothing}) /\ versions \in Snapshots
      /\ \A i \in DOMAIN wire : Known(wire[i])
  BY DEF TInv, Typed, Behind
<1>2. /\ w \in Seq(Snapshots \cup {Topic!Nothing}) /\ Len(w) = Len(wire) + 1 /\ Len(wire) \in Nat
      /\ \A i \in 1 .. Len(wire) : w[i] = wire[i]
      /\ w[Len(wire) + 1] = m
  BY <1>1
<1>3. Known(m)
  BY <1>1 DEF Known, Snapshots
<1>4. \A i \in DOMAIN w : Known(w[i])
  <2>1. ASSUME NEW i \in 1 .. Len(wire) + 1 PROVE Known(w[i])
    <3>1. CASE i = Len(wire) + 1
      BY <1>2, <1>3, <3>1
    <3>2. CASE i # Len(wire) + 1
      <4>1. i \in DOMAIN wire /\ w[i] = wire[i]
        BY <1>1, <1>2, <3>2
      <4>2. QED
        BY <1>1, <4>1
    <3>3. QED
      BY <3>1, <3>2
  <2>2. DOMAIN w = 1 .. Len(wire) + 1
    BY <1>2
  <2>3. QED
    BY <2>1, <2>2
<1>5. w # <<>> /\ Topic!Last(w) = m
  BY <1>2 DEF Topic!Last
<1>6. QED
  BY <1>2, <1>4, <1>5

LEMMA StreamKeeps == ASSUME TInv, Topic!Stream PROVE TInv' /\ Topic!NeverOlder
<1>1. UNCHANGED <<disableSSE, content, versions, notifying, announced, seen, cache, passedOver, spent>>
  BY DEF Topic!Stream, Topic!serverVars
<1>2. CASE Topic!Wait
  <2>1. stream = "sent" /\ stream' = "waiting" /\ UNCHANGED <<wire, missed>>
    BY <1>2 DEF Topic!Wait
  <2>2. Typed' /\ SentAll' /\ \A i \in DOMAIN wire' : Known(wire'[i])
    BY <1>1, <2>1 DEF TInv, Typed, SentAll, LastSent, Behind
  <2>3. QED
    BY <1>1, <2>2, WireKeeps
<1>3. CASE Topic!Connect \/ Topic!Wake
  <2>1. /\ ~disableSSE /\ stream' = "sent" /\ wire' = Append(wire, versions)
        /\ missed' \in BOOLEAN
    BY <1>3 DEF Topic!Connect, Topic!Wake, Topic!Send, TInv, Typed
  <2>2. /\ wire' \in Seq(Snapshots \cup {Topic!Nothing}) /\ wire' # <<>> /\ Topic!Last(wire') = versions
        /\ \A i \in DOMAIN wire' : Known(wire'[i])
    BY <2>1, Appended
  <2>3. Typed' /\ SentAll'
    BY <1>1, <2>1, <2>2 DEF TInv, Typed, SentAll, LastSent
  <2>4. QED
    BY <1>1, <2>2, <2>3, WireKeeps
<1>4. QED
  BY <1>2, <1>3 DEF Topic!Stream

LEMMA SpentIs ==
    ASSUME Typed, NEW what \in {"changes", "faults", "mounts", "polls"}, NEW bound, Topic!Due(what, bound)
    PROVE  /\ spent' \in [{"changes", "faults", "mounts", "polls"} -> Nat]
           /\ spent[what] < bound /\ spent'[what] = spent[what] + 1
           /\ \A other \in {"changes", "faults", "mounts", "polls"} \ {what} : spent'[other] = spent[other]
           /\ spent'["faults"] = 0 => spent["faults"] = 0
<1>1. spent[what] \in Nat /\ spent["faults"] \in Nat
  BY DEF Typed
<1>2. QED
  BY <1>1 DEF Topic!Due, Typed

LEMMA DropKeeps == ASSUME TInv, Topic!Drop PROVE TInv' /\ Topic!NeverOlder
<1>1. /\ stream' = "none" /\ wire' = <<>> /\ missed' = FALSE /\ Topic!Due("faults", MaxFaults)
      /\ UNCHANGED <<disableSSE, content, versions, notifying, announced, seen, cache, passedOver>>
  BY DEF Topic!Drop, Topic!serverVars
<1>2. /\ spent' \in [{"changes", "faults", "mounts", "polls"} -> Nat]
      /\ spent'["changes"] = spent["changes"] /\ (spent["faults"] = 0 \/ spent'["faults"] # 0)
  BY <1>1, SpentIs DEF TInv
<1>3. wire' \in Seq(Snapshots \cup {Topic!Nothing}) /\ DOMAIN wire' = {}
  BY <1>1
<1>4. Typed' /\ SentAll' /\ \A i \in DOMAIN wire' : Known(wire'[i])
  BY <1>1, <1>2, <1>3 DEF TInv, Typed, SentAll
<1>5. QED
  BY <1>1, <1>2, <1>4, WireKeeps

LEMMA PollKeeps == ASSUME TInv, Topic!Poll PROVE TInv' /\ Topic!NeverOlder
<1>1. /\ disableSSE /\ wire' = Append(wire, Topic!Nothing) /\ Topic!Due("polls", MaxPolls)
      /\ UNCHANGED <<disableSSE, content, versions, notifying, announced, stream, seen, cache, missed, passedOver>>
  BY DEF Topic!Poll, Topic!serverVars
<1>2. /\ spent' \in [{"changes", "faults", "mounts", "polls"} -> Nat]
      /\ spent'["changes"] = spent["changes"] /\ (spent["faults"] = 0 \/ spent'["faults"] # 0)
  BY <1>1, SpentIs DEF TInv
<1>3. wire' \in Seq(Snapshots \cup {Topic!Nothing}) /\ \A i \in DOMAIN wire' : Known(wire'[i])
  BY <1>1, Appended
<1>4. Typed' /\ SentAll'
  BY <1>1, <1>2, <1>3 DEF TInv, Typed, SentAll
<1>5. QED
  BY <1>1, <1>2, <1>3, <1>4, WireKeeps

LEMMA PollAnsweredKeeps ==
    ASSUME TInv, NEW i \in DOMAIN wire, Topic!PollAnswered(i)
    PROVE  TInv' /\ Topic!NeverOlder
<1>1. /\ wire' = [wire EXCEPT ![i] = versions]
      /\ UNCHANGED <<disableSSE, content, versions, notifying, announced, stream, seen, cache, missed,
                     passedOver, spent>>
  BY DEF Topic!PollAnswered, Topic!serverVars
<1>2. /\ wire \in Seq(Snapshots \cup {Topic!Nothing}) /\ versions \in Snapshots
      /\ DOMAIN wire = 1 .. Len(wire) /\ Len(wire) \in Nat
  BY DEF TInv, Typed
<1>3. /\ wire' \in Seq(Snapshots \cup {Topic!Nothing}) /\ Len(wire') = Len(wire)
      /\ DOMAIN wire' = DOMAIN wire /\ wire'[i] = versions
      /\ \A j \in DOMAIN wire \ {i} : wire'[j] = wire[j]
  BY <1>1, <1>2
<1>4. \A j \in DOMAIN wire' : Known(wire'[j])
  <2>1. Known(versions)
    BY <1>2 DEF Known, Snapshots
  <2>2. QED
    BY <1>3, <2>1 DEF TInv, Behind
<1>5. SentAll'
  <2>1. wire # <<>> /\ wire' # <<>> /\ Len(wire) \in DOMAIN wire
    BY <1>2, <1>3
  <2>2. Topic!Last(wire') = versions \/ Topic!Last(wire') = Topic!Last(wire)
    BY <1>3, <2>1 DEF Topic!Last
  <2>3. QED
    BY <1>1, <2>1, <2>2 DEF TInv, SentAll, LastSent
<1>6. Typed'
  BY <1>1, <1>3 DEF TInv, Typed
<1>7. QED
  BY <1>1, <1>4, <1>5, <1>6, WireKeeps

\* What a query has or asks for is no newer than the content that grows.
LEMMA ContentGrows ==
    ASSUME Topic!Assumptions, TInv, NEW t \in Topics, Topic!Due("changes", MaxChanges),
           content' = [content EXCEPT ![t] = @ + 1], cache' = cache
    PROVE  /\ content' \in [Topics -> Nat \ {0}] /\ content'[t] = content[t] + 1
           /\ \A u \in Topics : content[u] <= content'[u] /\ content'[u] <= 1 + spent'["changes"]
           /\ spent' \in [{"changes", "faults", "mounts", "polls"} -> Nat]
           /\ spent'["changes"] <= MaxChanges /\ spent'["faults"] = spent["faults"]
           /\ InOrder' /\ Topic!MarkedIsAsked' /\ Topic!NeverOlder
<1>1. /\ content \in [Topics -> Nat \ {0}] /\ spent["changes"] \in Nat /\ MaxChanges \in Nat
      /\ \A u \in Topics : content[u] <= 1 + spent["changes"]
  BY DEF TInv, Typed, Bounded, Topic!Assumptions
<1>2. /\ spent' \in [{"changes", "faults", "mounts", "polls"} -> Nat]
      /\ spent'["changes"] = spent["changes"] + 1 /\ spent["changes"] < MaxChanges
      /\ spent'["faults"] = spent["faults"]
  BY SpentIs DEF TInv
<1>3. /\ content' \in [Topics -> Nat \ {0}] /\ content'[t] = content[t] + 1
      /\ \A u \in Topics \ {t} : content'[u] = content[u]
  <2>1. content[t] + 1 \in Nat \ {0}
    BY <1>1
  <2>2. QED
    BY <1>1, <2>1
<1>4. ASSUME NEW u \in Topics PROVE content[u] <= content'[u] /\ content'[u] <= 1 + spent'["changes"]
  <2>1. content[u] \in Nat /\ content[u] <= 1 + spent["changes"]
    BY <1>1
  <2>2. QED
    BY <1>1, <1>2, <1>3, <2>1
<1>5. spent'["changes"] <= MaxChanges
  BY <1>1, <1>2
<1>6. ASSUME NEW q \in TopicQueries
      PROVE  Ordered(cache[q], content'[TopicOf[q]]) /\ cache[q].data \in Nat
  <2>1. /\ TopicOf[q] \in Topics /\ cache[q].data \in Nat /\ cache[q].fetch \in Nat
        /\ Ordered(cache[q], content[TopicOf[q]])
    BY DEF TInv, Typed, InOrder, Topic!Assumptions, Cached
  <2>2. /\ content[TopicOf[q]] \in Nat /\ content'[TopicOf[q]] \in Nat
        /\ content[TopicOf[q]] <= content'[TopicOf[q]]
    BY <1>1, <1>3, <1>4, <2>1
  <2>3. QED
    BY <2>1, <2>2 DEF Ordered
<1>7. InOrder'
  BY <1>6 DEF InOrder
<1>8. Topic!MarkedIsAsked' /\ Topic!NeverOlder
  BY <1>2, <1>6 DEF TInv, Topic!MarkedIsAsked, Topic!NeverOlder
<1>9. QED
  BY <1>2, <1>3, <1>4, <1>5, <1>7, <1>8

LEMMA UnannouncedKeeps ==
    ASSUME Topic!Assumptions, TInv, NEW t \in Topics, Topic!Unannounced(t)
    PROVE  TInv' /\ Topic!NeverOlder
<1>1. /\ Topic!Due("changes", MaxChanges) /\ content' = [content EXCEPT ![t] = @ + 1]
      /\ UNCHANGED <<disableSSE, versions, notifying, stream, wire, seen, cache, announced, missed, passedOver>>
  BY DEF Topic!Unannounced
<1>2. Typed' /\ InOrder' /\ Topic!MarkedIsAsked' /\ Topic!NeverOlder
  BY <1>1, ContentGrows DEF TInv, Typed
<1>3. Bounded'
  <2>1. ASSUME NEW u \in Topics PROVE announced[u] <= content'[u]
    <3>1. /\ announced[u] \in Nat /\ content[u] \in Nat /\ content'[u] \in Nat
          /\ announced[u] <= content[u] /\ content[u] <= content'[u]
      BY <1>1, ContentGrows DEF TInv, Typed, Bounded
    <3>2. QED
      BY <3>1
  <2>2. QED
    BY <1>1, <2>1, ContentGrows DEF Bounded
<1>4. Behind' /\ SentAll'
  BY <1>1 DEF TInv, Behind, Known, SentAll, LastSent
<1>5. \A q \in TopicQueries : Current(q)'
  BY <1>1 DEF TInv, Current, Caught
<1>6. QED
  BY <1>2, <1>3, <1>4, <1>5 DEF TInv

\* The versions grow: of a topic that has a new one nothing that was sent is
\* of the last change.
LEMMA VersionsGrow ==
    ASSUME TInv, versions' \in Snapshots, \A t \in Topics : versions[t] <= versions'[t]
    PROVE  /\ \A m \in Snapshots \cup {Topic!Nothing} : Known(m) => Known(m)'
           /\ \A t \in Topics : versions[t] < versions'[t] /\ seen' = seen => ~Caught(t)'
<1>1. versions \in Snapshots /\ seen \in Snapshots \cup {Topic!Nothing} /\ Known(seen)
  BY DEF TInv, Typed, Behind
<1>2. ASSUME NEW m \in Snapshots \cup {Topic!Nothing}, Known(m), m # Topic!Nothing, NEW t \in Topics
      PROVE  m[t] <= versions'[t]
  <2>1. m[t] \in Nat /\ versions[t] \in Nat /\ versions'[t] \in Nat /\ m[t] <= versions[t] /\ versions[t] <= versions'[t]
    BY <1>1, <1>2 DEF Known, Snapshots
  <2>2. QED
    BY <2>1
<1>3. ASSUME NEW t \in Topics, versions[t] < versions'[t], seen' = seen, Caught(t)' PROVE FALSE
  <2>1. /\ seen[t] \in Nat /\ versions[t] \in Nat /\ versions'[t] \in Nat
        /\ seen[t] <= versions[t] /\ seen[t] = versions'[t]
    BY <1>1, <1>3 DEF Known, Snapshots, Caught
  <2>2. QED
    BY <1>3, <2>1
<1>4. QED
  BY <1>2, <1>3 DEF Known

LEMMA AnnounceKeeps ==
    ASSUME Topic!Assumptions, TInv, NEW t \in Topics, Topic!Announce(t)
    PROVE  TInv' /\ Topic!NeverOlder
<1>1. /\ Topic!Due("changes", MaxChanges) /\ content' = [content EXCEPT ![t] = @ + 1]
      /\ announced' = [announced EXCEPT ![t] = content[t] + 1]
      /\ versions' = [versions EXCEPT ![t] = @ + 1] /\ notifying' = TRUE
      /\ UNCHANGED <<disableSSE, stream, wire, seen, cache, missed, passedOver>>
  BY DEF Topic!Announce
<1>2. /\ versions \in Snapshots /\ announced \in [Topics -> Nat] /\ content \in [Topics -> Nat \ {0}]
  BY DEF TInv, Typed
<1>3. /\ versions' \in Snapshots /\ versions[t] < versions'[t]
      /\ \A u \in Topics \ {t} : versions'[u] = versions[u]
      /\ \A u \in Topics : versions[u] <= versions'[u]
  <2>1. versions[t] \in Nat /\ versions'[t] = versions[t] + 1 /\ \A u \in Topics \ {t} : versions'[u] = versions[u]
    BY <1>1, <1>2 DEF Snapshots
  <2>2. \A u \in Topics : versions[u] \in Nat /\ versions[u] <= versions[u]
    BY <1>2 DEF Snapshots
  <2>3. versions' \in Snapshots
    BY <1>1, <1>2, <2>1 DEF Snapshots
  <2>4. QED
    BY <2>1, <2>2, <2>3
<1>4. /\ announced' \in [Topics -> Nat] /\ announced'[t] = content[t] + 1
      /\ \A u \in Topics \ {t} : announced'[u] = announced[u]
  <2>1. content[t] + 1 \in Nat
    BY <1>2
  <2>2. QED
    BY <1>1, <1>2, <2>1
<1>5. Typed' /\ InOrder' /\ Topic!MarkedIsAsked' /\ Topic!NeverOlder
  <2>1. wire' \in Seq(Snapshots \cup {Topic!Nothing}) /\ seen' \in Snapshots \cup {Topic!Nothing}
    BY <1>1 DEF TInv, Typed
  <2>2. QED
    BY <1>1, <1>3, <1>4, <2>1, ContentGrows DEF TInv, Typed
<1>6. Bounded'
  <2>1. ASSUME NEW u \in Topics PROVE announced'[u] <= content'[u]
    <3>1. CASE u = t
      <4>1. content[t] \in Nat /\ content'[t] = content[t] + 1
        BY <1>1, <1>2, ContentGrows
      <4>2. QED
        BY <1>4, <3>1, <4>1
    <3>2. CASE u # t
      <4>1. /\ announced[u] \in Nat /\ content[u] \in Nat /\ content'[u] \in Nat
            /\ announced[u] <= content[u] /\ content[u] <= content'[u]
        BY <1>1, ContentGrows DEF TInv, Typed, Bounded
      <4>2. QED
        BY <1>4, <3>2, <4>1
    <3>3. QED
      BY <3>1, <3>2
  <2>2. QED
    BY <1>1, <2>1, ContentGrows DEF Bounded
<1>7. Behind'
  <2>1. /\ \A i \in DOMAIN wire : wire[i] \in Snapshots \cup {Topic!Nothing} /\ Known(wire[i])
        /\ seen \in Snapshots \cup {Topic!Nothing} /\ Known(seen)
    BY DEF TInv, Typed, Behind
  <2>2. \A m \in Snapshots \cup {Topic!Nothing} : Known(m) => Known(m)'
    BY <1>3, VersionsGrow
  <2>3. QED
    BY <1>1, <2>1, <2>2 DEF Behind
<1>8. ASSUME NEW q \in TopicQueries PROVE Current(q)'
  <2>1. TopicOf[q] \in Topics
    BY DEF Topic!Assumptions
  <2>2. CASE TopicOf[q] = t
    BY <1>1, <1>3, <2>2, VersionsGrow DEF TInv, Current
  <2>3. CASE TopicOf[q] # t
    <3>1. announced'[TopicOf[q]] = announced[TopicOf[q]] /\ (Caught(TopicOf[q])' <=> Caught(TopicOf[q]))
      BY <1>1, <1>3, <1>4, <2>1, <2>3 DEF Caught
    <3>2. QED
      BY <1>1, <3>1 DEF TInv, Current
  <2>4. QED
    BY <2>2, <2>3
<1>9. SentAll'
  BY <1>1 DEF SentAll
<1>10. QED
  BY <1>5, <1>6, <1>7, <1>8, <1>9 DEF TInv

LEMMA RestartKeeps ==
    ASSUME Topic!Assumptions, TInv, Topic!Restart
    PROVE  TInv' /\ Topic!NeverOlder
<1>1. /\ versions' = [t \in Topics |-> versions[t] + 1] /\ stream' = "none" /\ missed' = FALSE
      /\ wire' = (IF disableSSE THEN wire ELSE <<>>) /\ Topic!Due("faults", MaxFaults)
      /\ UNCHANGED <<disableSSE, content, notifying, announced, seen, cache, passedOver>>
  BY DEF Topic!Restart
<1>2. /\ spent' \in [{"changes", "faults", "mounts", "polls"} -> Nat]
      /\ spent'["changes"] = spent["changes"] /\ (spent'["faults"] = 0 => spent["faults"] = 0)
  BY <1>1, SpentIs DEF TInv
<1>3. versions \in Snapshots /\ \A t \in Topics : versions[t] \in Nat /\ versions'[t] = versions[t] + 1
  BY <1>1 DEF TInv, Typed, Snapshots
<1>4. versions' \in Snapshots /\ \A t \in Topics : versions[t] < versions'[t] /\ versions[t] <= versions'[t]
  <2>1. versions' \in Snapshots
    BY <1>1, <1>3 DEF Snapshots
  <2>2. QED
    BY <1>3, <2>1
<1>5. /\ wire' \in Seq(Snapshots \cup {Topic!Nothing})
      /\ \A i \in DOMAIN wire' : wire'[i] \in Snapshots \cup {Topic!Nothing} /\ Known(wire'[i])
      /\ seen \in Snapshots \cup {Topic!Nothing} /\ Known(seen)
  BY <1>1 DEF TInv, Typed, Behind
<1>6. Typed'
  BY <1>1, <1>2, <1>4, <1>5 DEF TInv, Typed
<1>7. Bounded' /\ InOrder' /\ SentAll'
  BY <1>1, <1>2 DEF TInv, Bounded, InOrder, SentAll
<1>8. Topic!MarkedIsAsked'
  BY <1>1, <1>2 DEF TInv, Topic!MarkedIsAsked
<1>9. Behind'
  <2>1. \A m \in Snapshots \cup {Topic!Nothing} : Known(m) => Known(m)'
    BY <1>4, VersionsGrow
  <2>2. QED
    BY <1>1, <1>5, <2>1 DEF Behind
<1>10. \A q \in TopicQueries : Current(q)'
  <2>1. \A q \in TopicQueries : ~Caught(TopicOf[q])'
    BY <1>1, <1>4, VersionsGrow DEF Topic!Assumptions
  <2>2. QED
    BY <1>1, <2>1 DEF TInv, Current
<1>11. Topic!NeverOlder
  <2>1. \A q \in TopicQueries : cache[q].data \in Nat
    BY DEF TInv, Typed, Cached
  <2>2. QED
    BY <1>1, <2>1 DEF Topic!NeverOlder
<1>12. QED
  BY <1>6, <1>7, <1>8, <1>9, <1>10, <1>11 DEF TInv

-----------------------------------------------------------------------------
(* Messages *)

LEMMA InvalidatedIs ==
    ASSUME NEW c \in Cached, Topic!Asked \in Nat
    PROVE  /\ Topic!Invalidated(c) \in Cached /\ Topic!Invalidated(c).invalid
           /\ Topic!Invalidated(c).data = c.data /\ Topic!Invalidated(c).mounted = c.mounted
           /\ Topic!Invalidated(c).fetch = IF c.mounted /\ ~Topic!GoesOn(c) THEN Topic!Asked ELSE c.fetch
BY DEF Cached, Topic!Invalidated

\* An invalidated query asks anew, or is passed over, or is off the screen.
LEMMA InvalidatedKeeps ==
    ASSUME Topic!Asked \in Nat, Topic!Asked # Topic!Idle, NEW c \in Cached, NEW newest, NEW wanted, Ordered(c, newest)
    PROVE  /\ Ordered(Topic!Invalidated(c), newest)
           /\ UpToDate(Topic!Invalidated(c), IF Topic!GoesOn(c) THEN "fetch" ELSE "no", wanted)
           /\ c.mounted => Topic!Invalidated(c).fetch # Topic!Idle
<1>1. /\ Topic!Invalidated(c).invalid /\ Topic!Invalidated(c).data = c.data
      /\ Topic!Invalidated(c).fetch = IF c.mounted /\ ~Topic!GoesOn(c) THEN Topic!Asked ELSE c.fetch
  BY InvalidatedIs
<1>2. Ordered(Topic!Invalidated(c), newest)
  BY <1>1 DEF Ordered, InFlight
<1>3. ~Topic!GoesOn(c) => ~InFlight(Topic!Invalidated(c))
  BY <1>1 DEF Topic!GoesOn, InFlight
<1>4. UpToDate(Topic!Invalidated(c), IF Topic!GoesOn(c) THEN "fetch" ELSE "no", wanted)
  BY <1>1, <1>3 DEF UpToDate
<1>5. c.mounted => Topic!Invalidated(c).fetch # Topic!Idle
  BY <1>1 DEF Topic!GoesOn
<1>6. QED
  BY <1>2, <1>4, <1>5

LEMMA ReceiveKeeps ==
    ASSUME Topic!Assumptions, TInv, NEW i \in DOMAIN wire, Topic!Receive(i)
    PROVE  TInv' /\ Topic!NeverOlder
<1> DEFINE message == wire[i]
           changed == {t \in Topics : IF seen = Topic!Nothing THEN TRUE ELSE seen[t] # message[t]}
           named == {q \in TopicQueries : TopicOf[q] \in changed}
<1>1. /\ message # Topic!Nothing /\ (~disableSSE => i = 1)
      /\ wire' = Topic!RemoveAt(wire, i) /\ seen' = message
      /\ cache' = [q \in TopicQueries |-> IF q \in named THEN Topic!Invalidated(cache[q]) ELSE cache[q]]
      /\ passedOver' = [q \in TopicQueries |-> IF q \notin named THEN passedOver[q]
                                          ELSE IF Topic!GoesOn(cache[q]) THEN "fetch" ELSE "no"]
      /\ UNCHANGED <<disableSSE, content, versions, notifying, announced, stream, missed, spent>>
  BY DEF Topic!Receive, Topic!serverVars
<1>2. /\ wire \in Seq(Snapshots \cup {Topic!Nothing}) /\ Len(wire) \in Nat /\ i \in 1 .. Len(wire)
      /\ \A j \in DOMAIN wire : Known(wire[j])
  BY DEF TInv, Typed, Behind
<1>3. /\ wire' \in Seq(Snapshots \cup {Topic!Nothing}) /\ Len(wire') = Len(wire) - 1
      /\ DOMAIN wire' = 1 .. Len(wire) - 1
      /\ \A k \in 1 .. Len(wire) - 1 : wire'[k] = wire[IF k < i THEN k ELSE k + 1]
  <2>1. wire' = Topic!RemoveAt(wire, i)
    BY <1>1
  <2>2. /\ wire' \in Seq(Snapshots \cup {Topic!Nothing}) /\ Len(wire') = Len(wire) - 1
        /\ \A k \in 1 .. Len(wire) - 1 : wire'[k] = wire[IF k < i THEN k ELSE k + 1]
    BY <1>2, <2>1, RemoveIs
  <2>3. DOMAIN wire' = 1 .. Len(wire')
    BY <2>2
  <2>4. QED
    BY <2>2, <2>3
<1>4. message \in Snapshots /\ Known(message)
  BY <1>1, <1>2
<1>5. ASSUME NEW q \in TopicQueries
      PROVE  /\ q \in named => cache'[q] = Topic!Invalidated(cache[q])
                               /\ passedOver'[q] = IF Topic!GoesOn(cache[q]) THEN "fetch" ELSE "no"
             /\ q \notin named => cache'[q] = cache[q] /\ passedOver'[q] = passedOver[q]
  BY <1>1
<1>6. ASSUME NEW q \in TopicQueries PROVE Caught(TopicOf[q])' => q \in named \/ Caught(TopicOf[q])
  <2>1. TopicOf[q] \in Topics
    BY DEF Topic!Assumptions
  <2>2. QED
    BY <1>1, <2>1 DEF Caught
<1>7. cache' \in [TopicQueries -> Cached] /\ passedOver' \in [TopicQueries -> {"no", "fetch", "answer"}]
  <2>1. \A q \in TopicQueries : cache[q] \in Cached /\ Topic!Invalidated(cache[q]) \in Cached
    BY QueryFacts, InvalidatedIs DEF TInv
  <2>2. \A q \in TopicQueries : passedOver[q] \in {"no", "fetch", "answer"}
    BY DEF TInv, Typed
  <2> HIDE DEF named
  <2>3. QED
    BY <1>1, <2>1, <2>2
<1> HIDE DEF message, named
<1>8. Typed' /\ Bounded'
  BY <1>1, <1>3, <1>4, <1>7 DEF TInv, Typed, Bounded
<1>9. Behind'
  <2>1. \A m : Known(m)' <=> Known(m)
    BY <1>1 DEF Known
  <2>2. ASSUME NEW k \in DOMAIN wire' PROVE wire'[k] \in {wire[j] : j \in DOMAIN wire}
    <3>1. (IF k < i THEN k ELSE k + 1) \in DOMAIN wire
      BY <1>2, <1>3
    <3>2. QED
      BY <1>3, <3>1
  <2>3. QED
    BY <1>1, <1>2, <1>4, <2>1, <2>2 DEF Behind
<1>10. ASSUME NEW q \in TopicQueries
       PROVE  /\ Ordered(cache'[q], content[TopicOf[q]]) /\ Current(q)' /\ cache'[q].data = cache[q].data
              /\ (spent["faults"] = 0 /\ cache'[q].invalid /\ cache'[q].mounted) => cache'[q].fetch # Topic!Idle
  <2>1. /\ Ordered(cache[q], content[TopicOf[q]]) /\ Current(q)
        /\ (spent["faults"] = 0 /\ cache[q].invalid /\ cache[q].mounted) => cache[q].fetch # Topic!Idle
    BY DEF TInv, InOrder, Topic!MarkedIsAsked
  <2>2. cache[q] \in Cached /\ Topic!Asked \in Nat /\ Topic!Asked # Topic!Idle
    BY QueryFacts DEF TInv
  <2>3. CASE q \in named
    <3>1. cache'[q] = Topic!Invalidated(cache[q]) /\ passedOver'[q] = IF Topic!GoesOn(cache[q]) THEN "fetch" ELSE "no"
      BY <1>5, <2>3
    <3>2. /\ Ordered(cache'[q], content[TopicOf[q]])
          /\ UpToDate(cache'[q], passedOver'[q], announced[TopicOf[q]])
          /\ cache[q].mounted => cache'[q].fetch # Topic!Idle
      BY <2>1, <2>2, <3>1, InvalidatedKeeps
    <3>3. cache'[q].invalid /\ cache'[q].data = cache[q].data /\ cache'[q].mounted = cache[q].mounted
      BY <2>2, <3>1, InvalidatedIs
    <3>4. QED
      BY <1>1, <3>2, <3>3 DEF Current
  <2>4. CASE q \notin named
    <3>1. cache'[q] = cache[q] /\ passedOver'[q] = passedOver[q]
      BY <1>5, <2>4
    <3>2. Current(q)'
      BY <1>1, <1>6, <2>1, <2>4, <3>1 DEF Current
    <3>3. QED
      BY <2>1, <3>1, <3>2
  <2>5. QED
    BY <2>3, <2>4
<1>11. InOrder' /\ Topic!MarkedIsAsked' /\ Topic!NeverOlder
  <2>1. \A q \in TopicQueries : cache[q].data \in Nat
    BY DEF TInv, Typed, Cached
  <2>2. QED
    BY <1>1, <1>10, <2>1 DEF InOrder, Topic!MarkedIsAsked, Topic!NeverOlder
<1>12. SentAll'
  <2>1. SUFFICES ASSUME stream \in {"sent", "waiting"}, ~notifying, ~missed PROVE LastSent' = versions
    BY <1>1 DEF SentAll
  <2>2. i = 1 /\ LastSent = versions
    BY <1>1, <2>1 DEF TInv, Typed, SentAll
  <2>3. wire # <<>> /\ wire[Len(wire)] = versions
    BY <1>2, <2>2 DEF LastSent, Topic!Last
  <2>4. CASE Len(wire) = 1
    <3>1. wire' = <<>>
      BY <1>3, <2>4
    <3>2. seen' = versions
      BY <1>1, <2>2, <2>3, <2>4 DEF message
    <3>3. QED
      BY <3>1, <3>2 DEF LastSent
  <2>5. CASE Len(wire) # 1
    <3>1. Len(wire) - 1 \in 1 .. Len(wire) - 1 /\ ~(Len(wire) - 1 < 1) /\ (Len(wire) - 1) + 1 = Len(wire)
      <4>1. \A n \in Nat : 1 <= n /\ n # 1 => n - 1 \in 1 .. n - 1 /\ ~(n - 1 < 1) /\ (n - 1) + 1 = n
        OBVIOUS
      <4>2. Len(wire) \in Nat /\ 1 <= Len(wire)
        BY <1>2
      <4>3. QED
        BY <2>5, <4>1, <4>2
    <3>2. wire'[Len(wire) - 1] = wire[Len(wire)]
      BY <1>3, <2>2, <3>1
    <3>3. wire' # <<>> /\ Topic!Last(wire') = versions
      BY <1>3, <2>3, <3>1, <3>2 DEF Topic!Last
    <3>4. QED
      BY <3>3 DEF LastSent
  <2>6. QED
    BY <2>4, <2>5
<1>13. QED
  BY <1>8, <1>9, <1>10, <1>11, <1>12 DEF TInv

-----------------------------------------------------------------------------
(* Steps of one query *)

LEMMA QueryKeeps ==
    ASSUME Topic!Assumptions, TInv, NEW q \in TopicQueries, NEW c \in Cached, NEW over \in {"no", "fetch", "answer"},
           UNCHANGED <<disableSSE, content, versions, notifying, announced, stream, wire, seen, missed>>,
           spent' \in [{"changes", "faults", "mounts", "polls"} -> Nat],
           spent'["changes"] = spent["changes"], spent'["faults"] = 0 => spent["faults"] = 0,
           cache' = [cache EXCEPT ![q] = c], passedOver' = [passedOver EXCEPT ![q] = over],
           Ordered(c, content[TopicOf[q]]), over = "fetch" => c.invalid,
           Caught(TopicOf[q]) => UpToDate(c, over, announced[TopicOf[q]]),
           spent'["faults"] = 0 /\ c.invalid /\ c.mounted => c.fetch # Topic!Idle,
           cache[q].data <= c.data
    PROVE  TInv' /\ Topic!NeverOlder
<1>1. /\ cache \in [TopicQueries -> Cached] /\ passedOver \in [TopicQueries -> {"no", "fetch", "answer"}]
  BY DEF TInv, Typed
<1>2. /\ cache' \in [TopicQueries -> Cached] /\ cache'[q] = c
      /\ passedOver' \in [TopicQueries -> {"no", "fetch", "answer"}] /\ passedOver'[q] = over
      /\ \A p \in TopicQueries \ {q} : cache'[p] = cache[p] /\ passedOver'[p] = passedOver[p]
  BY <1>1
<1>3. Typed' /\ Bounded'
  BY <1>2 DEF TInv, Typed, Bounded
<1>4. Behind' /\ SentAll'
  BY DEF TInv, Behind, Known, SentAll, LastSent
<1>5. InOrder' /\ Topic!MarkedIsAsked'
  BY <1>2 DEF TInv, InOrder, Topic!MarkedIsAsked
<1>6. \A p \in TopicQueries : Current(p)'
  BY <1>2 DEF TInv, Current, Caught
<1>7. Topic!NeverOlder
  <2>1. \A p \in TopicQueries : cache[p].data \in Nat
    BY <1>1 DEF Cached
  <2>2. \A p \in TopicQueries : cache[p].data <= cache[p].data
    BY <2>1
  <2>3. QED
    BY <1>2, <2>2 DEF Topic!NeverOlder
<1>8. QED
  BY <1>3, <1>4, <1>5, <1>6, <1>7 DEF TInv

\* A query that asks: what it has stays, and its answer is to come.
LEMMA AskingKeeps ==
    ASSUME Topic!Assumptions, TInv, NEW q \in TopicQueries, NEW c \in Cached,
           c.data = cache[q].data, c.invalid = cache[q].invalid,
           c.fetch = cache[q].fetch \/ c.fetch = Topic!Asked
    PROVE  /\ Ordered(c, content[TopicOf[q]]) /\ (passedOver[q] = "fetch" => c.invalid)
           /\ Caught(TopicOf[q]) => UpToDate(c, passedOver[q], announced[TopicOf[q]])
           /\ cache[q].data <= c.data /\ passedOver[q] \in {"no", "fetch", "answer"}
           /\ passedOver = [passedOver EXCEPT ![q] = passedOver[q]]
<1>1. /\ Ordered(cache[q], content[TopicOf[q]]) /\ Current(q)
      /\ cache[q].data \in Nat /\ passedOver \in [TopicQueries -> {"no", "fetch", "answer"}]
  BY DEF TInv, Typed, InOrder, Cached
<1>2. InFlight(c) => InFlight(cache[q]) /\ c.fetch = cache[q].fetch
  BY DEF InFlight
<1>3. Ordered(c, content[TopicOf[q]])
  BY <1>1, <1>2 DEF Ordered
<1>4. Caught(TopicOf[q]) => UpToDate(c, passedOver[q], announced[TopicOf[q]])
  BY <1>1, <1>2 DEF Current, UpToDate
<1>5. QED
  BY <1>1, <1>3, <1>4 DEF Current

\* The fetch of a query whose data stays, or that begins or fails to ask.
LEMMA AskKeeps ==
    ASSUME Topic!Assumptions, TInv, NEW q \in TopicQueries, NEW c \in Cached,
           UNCHANGED <<disableSSE, content, versions, notifying, announced, stream, wire, seen, missed,
                       passedOver>>,
           spent' \in [{"changes", "faults", "mounts", "polls"} -> Nat],
           spent'["changes"] = spent["changes"], spent'["faults"] = 0 => spent["faults"] = 0,
           cache' = [cache EXCEPT ![q] = c],
           c.data = cache[q].data, c.invalid = cache[q].invalid,
           c.fetch = cache[q].fetch \/ c.fetch = Topic!Asked,
           spent'["faults"] = 0 /\ c.invalid /\ c.mounted => c.fetch # Topic!Idle
    PROVE  TInv' /\ Topic!NeverOlder
<1>1. /\ Ordered(c, content[TopicOf[q]]) /\ (passedOver[q] = "fetch" => c.invalid)
      /\ Caught(TopicOf[q]) => UpToDate(c, passedOver[q], announced[TopicOf[q]])
      /\ cache[q].data <= c.data /\ passedOver[q] \in {"no", "fetch", "answer"}
      /\ passedOver = [passedOver EXCEPT ![q] = passedOver[q]]
  BY AskingKeeps
<1>2. passedOver' = [passedOver EXCEPT ![q] = passedOver[q]]
  BY <1>1
<1>3. QED
  BY <1>1, <1>2, QueryKeeps

LEMMA MountKeeps ==
    ASSUME Topic!Assumptions, TInv, NEW q \in TopicQueries, Topic!Mount(q)
    PROVE  TInv' /\ Topic!NeverOlder
<1> DEFINE c == [cache[q] EXCEPT !.mounted = TRUE,
                                 !.fetch = IF @ = Topic!Idle /\ (cache[q].data = Topic!NoData \/ cache[q].invalid)
                                           THEN Topic!Asked ELSE @]
<1>1. /\ Topic!Due("mounts", MaxMounts)
      /\ UNCHANGED <<disableSSE, content, versions, notifying, announced, stream, wire, seen, missed,
                     passedOver>>
  BY DEF Topic!Mount, Topic!serverVars
<1>2. cache[q] \in Cached /\ Topic!Asked \in Nat /\ Topic!Asked # Topic!Idle
  BY QueryFacts DEF TInv
<1>3. /\ c \in Cached /\ c.data = cache[q].data /\ c.invalid = cache[q].invalid
      /\ c.fetch = cache[q].fetch \/ c.fetch = Topic!Asked
      /\ c.invalid => c.fetch # Topic!Idle
  BY <1>2 DEF Cached
<1>4. cache' = [cache EXCEPT ![q] = c]
  BY <1>2 DEF Topic!Mount, Cached
<1>5. /\ spent' \in [{"changes", "faults", "mounts", "polls"} -> Nat]
      /\ spent'["changes"] = spent["changes"] /\ (spent'["faults"] = 0 => spent["faults"] = 0)
  BY <1>1, SpentIs DEF TInv
<1> HIDE DEF c
<1>6. QED
  BY <1>1, <1>3, <1>4, <1>5, AskKeeps

LEMMA OfQueryKeeps ==
    ASSUME Topic!Assumptions, TInv, NEW q \in TopicQueries, Topic!OfQuery(q)
    PROVE  TInv' /\ Topic!NeverOlder
<1>1. UNCHANGED <<disableSSE, content, versions, notifying, announced, stream, wire, seen, missed,
                  passedOver, spent>>
  BY DEF Topic!OfQuery, Topic!serverVars
<1>2. /\ cache[q] \in Cached /\ Topic!Asked \in Nat /\ Topic!Asked # Topic!Idle /\ content[TopicOf[q]] \in Nat
      /\ announced[TopicOf[q]] \in Nat /\ announced[TopicOf[q]] <= content[TopicOf[q]]
      /\ spent' \in [{"changes", "faults", "mounts", "polls"} -> Nat]
      /\ passedOver' = [passedOver EXCEPT ![q] = passedOver[q]]
      /\ passedOver[q] \in {"no", "fetch", "answer"}
      /\ spent["faults"] = 0 /\ cache[q].invalid /\ cache[q].mounted => cache[q].fetch # Topic!Idle
  BY <1>1, QueryFacts DEF TInv, Typed, Topic!MarkedIsAsked
<1>3. CASE Topic!Unmount(q)
  <2> DEFINE c == [cache[q] EXCEPT !.mounted = FALSE]
  <2>1. /\ c \in Cached /\ c.data = cache[q].data /\ c.invalid = cache[q].invalid
        /\ c.fetch = cache[q].fetch /\ ~c.mounted
    BY <1>2 DEF Cached
  <2>2. cache' = [cache EXCEPT ![q] = c]
    BY <1>3 DEF Topic!Unmount
  <2> HIDE DEF c
  <2>3. QED
    BY <1>1, <1>2, <2>1, <2>2, AskKeeps
<1>4. CASE Topic!Interval(q) \/ Topic!Focus(q)
  <2> DEFINE c == [cache[q] EXCEPT !.fetch = IF @ = Topic!Idle THEN Topic!Asked ELSE @]
  <2>1. /\ c \in Cached /\ c.data = cache[q].data /\ c.invalid = cache[q].invalid
        /\ c.fetch = cache[q].fetch \/ c.fetch = Topic!Asked
        /\ c.fetch # Topic!Idle
    BY <1>2 DEF Cached
  <2>2. cache' = [cache EXCEPT ![q] = c]
    BY <1>4 DEF Topic!Interval, Topic!Focus, Topic!Refetch
  <2> HIDE DEF c
  <2>3. QED
    BY <1>1, <1>2, <2>1, <2>2, AskKeeps
\* What the server answers is all that was announced.
<1>5. CASE Topic!ServerAnswers(q)
  <2> DEFINE newest == content[TopicOf[q]]
             c == [cache[q] EXCEPT !.fetch = newest]
  <2>1. newest \in Nat /\ newest # Topic!Idle
    BY QueryFacts DEF TInv, Topic!Idle
  <2>2. /\ c \in Cached /\ c.data = cache[q].data /\ c.invalid = cache[q].invalid
        /\ c.fetch = newest /\ c.mounted = cache[q].mounted
    BY <1>2, <2>1 DEF Cached
  <2>3. cache' = [cache EXCEPT ![q] = c]
    BY <1>5 DEF Topic!ServerAnswers
  <2>4. /\ Ordered(cache[q], newest) /\ Current(q) /\ cache[q].data \in Nat
    BY <1>2 DEF TInv, InOrder, Cached
  <2> HIDE DEF c
  <2>5. Ordered(c, newest) /\ cache[q].data <= c.data
    BY <2>1, <2>2, <2>4 DEF Ordered
  <2>6. Caught(TopicOf[q]) => UpToDate(c, passedOver[q], announced[TopicOf[q]])
    BY <1>2, <2>2, <2>4 DEF Current, UpToDate
  <2>7. (passedOver[q] = "fetch" => c.invalid) /\ c.fetch # Topic!Idle
    BY <2>1, <2>2, <2>4 DEF Current
  <2>8. QED
    BY <1>1, <1>2, <2>2, <2>3, <2>5, <2>6, <2>7, QueryKeeps
<1>6. QED
  BY <1>3, <1>4, <1>5 DEF Topic!OfQuery

\* An answer that was not passed over has all that was announced.
LEMMA ArrivesKeeps ==
    ASSUME Topic!Assumptions, TInv, NEW q \in TopicQueries, Topic!Arrives(q)
    PROVE  TInv' /\ Topic!NeverOlder
<1> DEFINE c == [cache[q] EXCEPT !.data = cache[q].fetch, !.invalid = FALSE, !.fetch = Topic!Idle]
           over == IF passedOver[q] = "fetch" THEN "answer" ELSE "no"
<1>1. /\ InFlight(cache[q])
      /\ UNCHANGED <<disableSSE, content, versions, notifying, announced, stream, wire, seen, missed, spent>>
  BY DEF Topic!Arrives, Topic!serverVars, InFlight
<1>2. /\ cache[q] \in Cached /\ Ordered(cache[q], content[TopicOf[q]]) /\ Current(q)
      /\ spent' \in [{"changes", "faults", "mounts", "polls"} -> Nat]
      /\ passedOver \in [TopicQueries -> {"no", "fetch", "answer"}]
  BY <1>1, QueryFacts DEF TInv, Typed, InOrder
<1>3. c \in Cached /\ c.data = cache[q].fetch /\ ~c.invalid /\ c.fetch = Topic!Idle
  BY <1>2 DEF Cached, Topic!Idle
<1>4. /\ cache' = [cache EXCEPT ![q] = c]
      /\ passedOver' = [passedOver EXCEPT ![q] = over]
  BY <1>2 DEF Topic!Arrives
<1> HIDE DEF c
<1>5. Ordered(c, content[TopicOf[q]]) /\ cache[q].data <= c.data
  BY <1>1, <1>2, <1>3 DEF Ordered, InFlight
<1>6. Caught(TopicOf[q]) => UpToDate(c, over, announced[TopicOf[q]])
  BY <1>1, <1>2, <1>3 DEF Current, UpToDate, InFlight
<1>7. over \in {"no", "fetch", "answer"} /\ over # "fetch"
  OBVIOUS
<1> HIDE DEF over
<1>8. QED
  BY <1>1, <1>2, <1>3, <1>4, <1>5, <1>6, <1>7, QueryKeeps

\* A query whose fetch failed is still marked.
LEMMA FailsKeeps ==
    ASSUME Topic!Assumptions, TInv, NEW q \in TopicQueries, Topic!Fails(q)
    PROVE  TInv' /\ Topic!NeverOlder
<1> DEFINE c == [cache[q] EXCEPT !.fetch = Topic!Idle]
           over == IF passedOver[q] = "fetch" THEN "no" ELSE passedOver[q]
<1>1. /\ Topic!Due("faults", MaxFaults)
      /\ UNCHANGED <<disableSSE, content, versions, notifying, announced, stream, wire, seen, missed>>
  BY DEF Topic!Fails, Topic!serverVars
<1>2. /\ cache[q] \in Cached /\ Ordered(cache[q], content[TopicOf[q]]) /\ Current(q)
      /\ cache[q].data \in Nat /\ passedOver \in [TopicQueries -> {"no", "fetch", "answer"}]
      /\ spent["faults"] \in Nat
  BY QueryFacts DEF TInv, Typed, InOrder, Cached
<1>3. c \in Cached /\ c.data = cache[q].data /\ c.invalid = cache[q].invalid /\ c.fetch = Topic!Idle
  BY <1>2 DEF Cached, Topic!Idle
<1>4. /\ cache' = [cache EXCEPT ![q] = c]
      /\ passedOver' = [passedOver EXCEPT ![q] = over]
  BY <1>2 DEF Topic!Fails
<1>5. /\ spent' \in [{"changes", "faults", "mounts", "polls"} -> Nat]
      /\ spent'["changes"] = spent["changes"] /\ spent'["faults"] # 0
  <2>1. spent'["faults"] = spent["faults"] + 1
    BY <1>1, SpentIs DEF TInv
  <2>2. spent'["faults"] # 0
    BY <1>2, <2>1
  <2>3. QED
    BY <1>1, <2>2, SpentIs DEF TInv
<1> HIDE DEF c
<1>6. Ordered(c, content[TopicOf[q]]) /\ cache[q].data <= c.data
  BY <1>2, <1>3 DEF Ordered, InFlight
<1>7. Caught(TopicOf[q]) => UpToDate(c, over, announced[TopicOf[q]])
  BY <1>2, <1>3 DEF Current, UpToDate, InFlight
<1>8. over \in {"no", "fetch", "answer"} /\ over # "fetch"
  BY <1>2
<1> HIDE DEF over
<1>9. QED
  BY <1>1, <1>2, <1>3, <1>4, <1>5, <1>6, <1>7, <1>8, QueryKeeps

LEMMA TInvNext == ASSUME Topic!Assumptions, TInv, [Topic!Next]_(Topic!vars) PROVE TInv' /\ (Topic!NeverOlder \/ UNCHANGED Topic!vars)
<1>1. CASE UNCHANGED Topic!vars
  <2>1. UNCHANGED <<disableSSE, content, versions, notifying, stream, wire, seen, cache, announced,
                    missed, passedOver, spent>>
    BY <1>1 DEF Topic!vars
  <2>2. Typed' /\ SentAll' /\ spent["faults"] \in Nat
    BY <2>1 DEF TInv, Typed, SentAll, LastSent
  <2>3. \A i \in DOMAIN wire' : Known(wire'[i])
    BY <2>1 DEF TInv, Behind
  <2>4. QED
    BY <1>1, <2>1, <2>2, <2>3, WireKeeps
<1>2. ASSUME NEW t \in Topics, Topic!Announce(t) \/ Topic!Unannounced(t) PROVE TInv' /\ Topic!NeverOlder
  BY <1>2, AnnounceKeeps, UnannouncedKeeps
<1>3. CASE Topic!NotifyAll \/ Topic!Stream \/ Topic!Drop \/ Topic!Restart \/ Topic!Poll
  BY <1>3, NotifyAllKeeps, StreamKeeps, DropKeeps, RestartKeeps, PollKeeps
<1>4. ASSUME NEW i \in DOMAIN wire, Topic!PollAnswered(i) \/ Topic!Receive(i) PROVE TInv' /\ Topic!NeverOlder
  BY <1>4, PollAnsweredKeeps, ReceiveKeeps
<1>5. ASSUME NEW q \in TopicQueries, Topic!OfQuery(q) \/ Topic!Mount(q) \/ Topic!Arrives(q) \/ Topic!Fails(q) PROVE TInv' /\ Topic!NeverOlder
  BY <1>5, OfQueryKeeps, MountKeeps, ArrivesKeeps, FailsKeeps
<1>6. QED
  BY <1>1, <1>2, <1>3, <1>4, <1>5 DEF Topic!Next

LEMMA TInvHolds == ASSUME Topic!Assumptions PROVE Topic!Spec => []TInv
<1>1. TInv /\ [Topic!Next]_(Topic!vars) => TInv'
  BY TInvNext
<1>2. QED
  BY <1>1, TInvInit, PTL DEF Topic!Spec

-----------------------------------------------------------------------------
(* Theorems *)

\* State variables keep their types, and no query has what the server has not.
THEOREM TopicTypes == ASSUME Topic!Assumptions PROVE Topic!Spec => []Topic!TypeOK
<1>1. TInv => Topic!TypeOK
  BY DEF TInv, Typed, Topic!TypeOK, InOrder, Ordered
<1>2. QED
  BY <1>1, TInvHolds, PTL

\* What is on the screen is never replaced by something older, whatever is
\* fetched, invalidated and left meanwhile.
THEOREM ScreenNeverOlder == ASSUME Topic!Assumptions PROVE Topic!Spec => [][Topic!NeverOlder]_(Topic!vars)
<1>1. TInv /\ [Topic!Next]_(Topic!vars) => [Topic!NeverOlder]_(Topic!vars)
  BY TInvNext
<1>2. QED
  BY <1>1, TInvHolds, PTL DEF Topic!Spec

\* A viewer that has the server's versions and asks for nothing has all that
\* was announced, but where an invalidation passed a fetch over.
THEOREM SeenIsFresh == ASSUME Topic!Assumptions PROVE Topic!Spec => []Topic!FreshWhenSeen
<1>1. ASSUME Topic!Assumptions, TInv PROVE Topic!FreshWhenSeen
  <2>1. SUFFICES ASSUME seen = versions, NEW q \in TopicQueries, passedOver[q] = "no",
                        cache[q].data # Topic!NoData, ~cache[q].invalid
                 PROVE  cache[q].data >= announced[TopicOf[q]]
    BY DEF Topic!FreshWhenSeen
  <2>2. TopicOf[q] \in Topics /\ cache[q].data \in Nat /\ announced[TopicOf[q]] \in Nat
    BY <1>1, QueryFacts DEF TInv, Cached
  <2>3. Caught(TopicOf[q])
    <3>1. DOMAIN seen = Topics
      BY <1>1, <2>1 DEF TInv, Typed, Snapshots
    <3>2. seen # Topic!Nothing
      BY <2>2, <3>1 DEF Topic!Nothing
    <3>3. QED
      BY <2>1, <3>2 DEF Caught
  <2>4. announced[TopicOf[q]] <= cache[q].data
    BY <1>1, <2>1, <2>3 DEF TInv, Current, UpToDate
  <2>5. QED
    BY <2>2, <2>4
<1>2. QED
  BY <1>1, TInvHolds, PTL

\* What is marked is under way or off the screen, as long as nothing fails.
THEOREM MarkedIsUnderWay == ASSUME Topic!Assumptions PROVE Topic!Spec => []Topic!MarkedIsAsked
<1>1. TInv => Topic!MarkedIsAsked
  BY DEF TInv
<1>2. QED
  BY <1>1, TInvHolds, PTL

\* A stream that waits has sent the last version, unless a notification came
\* between what it sent and its wait.
THEOREM WaitingHasSentAll == ASSUME Topic!Assumptions PROVE Topic!Spec => []Topic!StreamSentAll
<1>1. TInv => Topic!StreamSentAll
  BY DEF TInv, SentAll, LastSent, Topic!StreamSentAll
<1>2. QED
  BY <1>1, TInvHolds, PTL

-----------------------------------------------------------------------------
(* The settings of a project: the invariant *)

Configs == Project!Config
Etags == {Project!Known(c) : c \in Configs}
Saves == [id : Nat, config : Configs, etag : {Project!NoEtag} \cup Etags,
          form : Project!Form, from : Project!Form, navigate : BOOLEAN,
          state : {"sent", "done", "conflict", "failed"}]

SettingsTyped ==
    /\ scoutYaml \in Configs /\ data \in {Project!NoData} \cup Etags
    /\ dataFetch \in {Project!Idle, Project!Asked} \cup {Project!Answer(c) : c \in Configs}
    /\ notice \in BOOLEAN /\ raced \in BOOLEAN /\ reloaded \in BOOLEAN /\ conflict \in BOOLEAN
    /\ edited \in {Project!NoForm} \cup Project!Form
    /\ original \in {Project!NoForm} \cup Project!Form
    /\ location \in {"editing", "blocked", "left"}
    /\ saves \subseteq Saves
    /\ used \in [{"edits", "saves", "foreign", "failures"} -> Nat]

\* No two saves under way have a number in common.
SavesNumbered ==
    /\ \A s \in saves : s.id <= used["saves"]
    /\ \A s, t \in saves : s.id = t.id => s = t

\* Two contents agree in what the page compares: all fields but the batch.
SameFields(a, b) == a.plain = b.plain /\ Project!Num(a.gen) = Project!Num(b.gen)

\* A save carries the fields of its form, and one that is not forced the etag of
\* what its form started from.
SaveFromEtag(s) ==
    /\ SameFields(s.config, s.form)
    /\ s.etag # Project!NoEtag => SameFields(s.from, s.etag[1])
SavesFromEtags == \A s \in saves : SaveFromEtag(s)

\* As long as the page is open the form started from what the query holds.
FormFromData ==
    location # "left" =>
      /\ lastSaved = data
      /\ data = Project!NoData => edited = Project!NoForm /\ original = Project!NoForm
      /\ data # Project!NoData => /\ edited \in Project!Form /\ original \in Project!Form
                                  /\ SameFields(original, data[1])

\* Without a race the file is on its way to the page, whatever the page holds,
\* and an answered save is the file.
OnItsWay ==
    ~raced =>
      /\ \A s \in saves : s.state = "done" => s.config = scoutYaml
      /\ \/ notice \/ dataFetch = Project!Asked \/ dataFetch = Project!Answer(scoutYaml)
         \/ dataFetch = Project!Idle /\ data = Project!Known(scoutYaml)

\* Who has sent a save, or heard of a conflict, has data.
Loaded == saves # {} \/ conflict => data # Project!NoData

SettingsInv ==
    /\ SettingsTyped /\ SavesNumbered /\ SavesFromEtags
    /\ FormFromData /\ OnItsWay /\ Loaded

-----------------------------------------------------------------------------
(* Configurations *)

\* A nested configuration has the number and the batch it was made of.
LEMMA GenerateIs ==
    ASSUME NEW num \in Project!Values, NEW batch \in Project!Batches
    PROVE  LET g == Project!GenerateOf(num, batch)
           IN  g \in Project!Generate /\ Project!Num(g) = num /\ Project!Batch(g) = batch
<1>1. [num |-> num, batch |-> batch] # [type |-> "null"]
  <2>1. "num" \in DOMAIN [num |-> num, batch |-> batch] /\ "num" \notin DOMAIN [type |-> "null"]
    OBVIOUS
  <2>2. QED
    BY <2>1, Zenon
<1>2. QED
  BY <1>1 DEF Project!GenerateOf, Project!Generate, Project!Num, Project!Batch, Project!Null

LEMMA PartsAre ==
    ASSUME NEW g \in Project!Generate
    PROVE  Project!Num(g) \in Project!Values /\ Project!Batch(g) \in Project!Batches
BY DEF Project!Num, Project!Batch, Project!Generate, Project!Values, Project!Batches

\* What a save sends is a configuration with the fields of the form.
LEMMA SentIs ==
    ASSUME NEW new \in Project!Form, NEW old \in Project!Form
    PROVE  /\ Project!computeConfigToSave(new, old) \in Configs
           /\ SameFields(Project!computeConfigToSave(new, old), new)
<1> DEFINE g == Project!cleanGenerateConfig(new.gen, old.gen)
<1>1. new.gen \in Project!Generate /\ old.gen \in Project!Generate /\ new.plain \in [PlainFields -> Project!Values]
  BY DEF Project!Form
<1>2. g \in Project!Generate /\ Project!Num(g) = Project!Num(new.gen)
  <2>1. CASE new.gen = Project!Null
    BY <2>1 DEF Project!cleanGenerateConfig, Project!Generate
  <2>2. CASE new.gen # Project!Null
    <3> DEFINE b == Project!cleanNestedConfig(new.gen.batch, Project!Batch(old.gen))
    <3>1. new.gen.num \in Project!Values /\ new.gen.batch \in Project!Batches
      BY <1>1, <2>2 DEF Project!Generate
    <3>2. b \in Project!Batches
      BY <3>1 DEF Project!cleanNestedConfig, Project!Batches
    <3>3. g = Project!GenerateOf(new.gen.num, b) /\ Project!Num(new.gen) = new.gen.num
      BY <2>2 DEF Project!cleanGenerateConfig, Project!Num
    <3> HIDE DEF b, g
    <3>4. QED
      BY <3>1, <3>2, <3>3, GenerateIs
  <2>3. QED
    BY <2>1, <2>2
<1>3. Project!Null \in Project!Values
  BY DEF Project!Values
<1> HIDE DEF g
<1>4. QED
  BY <1>1, <1>2, <1>3 DEF Project!computeConfigToSave, Configs, Project!Config, SameFields, g

\* Cleaning takes empty batches only.
LEMMA CleanedIs ==
    ASSUME NEW config \in Configs
    PROVE  Project!Cleaned(config) \in Configs /\ SameFields(Project!Cleaned(config), config)
<1> DEFINE b == IF Project!Batch(config.gen) = Project!Object(Project!Null)
                THEN Project!Null ELSE Project!Batch(config.gen)
           g == Project!GenerateOf(Project!Num(config.gen), b)
<1>1. config.gen \in Project!Generate
  BY DEF Configs, Project!Config
<1>2. Project!Num(config.gen) \in Project!Values /\ b \in Project!Batches
  BY <1>1, PartsAre DEF Project!Batches
<1>3. Project!Cleaned(config) = [config EXCEPT !.gen = g]
  BY DEF Project!Cleaned
<1> HIDE DEF b
<1>4. g \in Project!Generate /\ Project!Num(g) = Project!Num(config.gen)
  BY <1>2, GenerateIs
<1> HIDE DEF g
<1>5. QED
  BY <1>3, <1>4 DEF Configs, Project!Config, SameFields

\* A form that is filled shows what it is filled from.
LEMMA FilledIs ==
    ASSUME NEW config \in Configs
    PROVE  /\ Project!initializeEditedConfig(config) \in Project!Form
           /\ SameFields(Project!initializeEditedConfig(config), config)
BY DEF Project!initializeEditedConfig, Configs, Project!Config, Project!Form, SameFields

\* What is absent is no content.
LEMMA EtagFacts ==
    ASSUME NEW c, NEW d
    PROVE  /\ Project!Known(c) # <<>> /\ Project!Known(c)[1] = c
           /\ Project!Known(c) = Project!Known(d) => c = d
           /\ Project!Answer(c) \notin {Project!Idle, Project!Asked}
           /\ Project!Answer(c)[2] = c
           /\ Project!Asked # Project!Idle
BY DEF Project!Known, Project!Answer, Project!Idle, Project!Asked

LEMMA FormFacts == Project!NoForm \notin Project!Form
<1>1. SUFFICES ASSUME <<>> \in Project!Form PROVE FALSE
  BY DEF Project!NoForm
<1>2. "gen" \in DOMAIN <<>>
  BY <1>1 DEF Project!Form
<1>3. QED
  BY <1>2

LEMMA SettingsInit == ASSUME Project!Assumptions, Project!Init PROVE SettingsInv
<1>1. scoutYaml \in Configs
  BY DEF Project!Assumptions, Project!Init, Configs
<1>2. used \in [{"edits", "saves", "foreign", "failures"} -> Nat]
  BY DEF Project!Init
<1>3. SettingsTyped
  BY <1>1, <1>2 DEF Project!Init, SettingsTyped
<1>4. SavesNumbered /\ SavesFromEtags /\ FormFromData /\ OnItsWay /\ Loaded
  BY DEF Project!Init, SavesNumbered, SavesFromEtags, FormFromData, OnItsWay, Loaded,
         Project!NoForm, Project!NoData, Project!NoEtag
<1>5. QED
  BY <1>3, <1>4 DEF SettingsInv

-----------------------------------------------------------------------------
(* The query *)

\* The effect that fills the form.
LEMMA InitializeKeeps ==
    ASSUME SettingsTyped, FormFromData, location # "left", NEW config \in Configs,
           Project!Initialize(config), data' = Project!Known(config)
    PROVE  /\ FormFromData'
           /\ edited' \in Project!Form /\ original' \in Project!Form
<1>1. data' # Project!NoData /\ data'[1] = config
  BY EtagFacts DEF Project!NoData
<1>2. CASE edited # Project!NoForm /\ Project!OwnSave(config)
  <2>1. UNCHANGED <<edited, original, lastSaved>> /\ lastSaved = Project!Known(config)
    BY <1>2 DEF Project!Initialize, Project!OwnSave
  <2>2. data = Project!Known(config)
    BY <2>1 DEF FormFromData
  <2>3. edited \in Project!Form /\ original \in Project!Form
    BY <1>2 DEF FormFromData
  <2>4. SameFields(original, data[1]) /\ data = data'
    BY <1>2, <2>2 DEF FormFromData
  <2>5. SameFields(original', data'[1])
    BY <2>1, <2>4
  <2>6. QED
    BY <1>1, <1>2, <2>1, <2>2, <2>3, <2>5 DEF FormFromData
<1>3. CASE ~(edited # Project!NoForm /\ Project!OwnSave(config))
  <2>1. /\ edited' = Project!initializeEditedConfig(config) /\ original' = edited'
        /\ lastSaved' = Project!Known(config)
    BY <1>3 DEF Project!Initialize
  <2>2. edited' \in Project!Form /\ SameFields(original', config)
    BY <2>1, FilledIs
  <2>3. QED
    BY <1>1, <2>1, <2>2, FormFacts DEF FormFromData
<1>4. QED
  BY <1>2, <1>3

LEMMA NoticeKeeps == ASSUME SettingsInv, Project!NoticeArrives PROVE SettingsInv'
<1>1. /\ notice' = FALSE /\ dataFetch' = Project!Asked
      /\ UNCHANGED <<scoutYaml, data, edited, original, lastSaved, conflict, saves,
                     latest, location, reloaded, used, raced>>
  <2>1. Project!ConfigKey[2] = "project-config-inv" /\ 2 \in DOMAIN Project!ConfigKey
    BY DEF Project!ConfigKey
  <2>2. "project-config-inv" \in Project!Range(Project!ConfigKey)
    BY <2>1 DEF Project!Range
  <2>3. QED
    BY <2>2 DEF Project!NoticeArrives
<1>2. SettingsTyped'
  BY <1>1 DEF SettingsInv, SettingsTyped
<1>3. SavesNumbered' /\ SavesFromEtags' /\ FormFromData' /\ Loaded'
  BY <1>1 DEF SettingsInv, SavesNumbered, SavesFromEtags, FormFromData, Loaded
<1>4. OnItsWay'
  BY <1>1 DEF SettingsInv, OnItsWay
<1>5. QED
  BY <1>2, <1>3, <1>4 DEF SettingsInv

LEMMA ServerReadsKeeps == ASSUME SettingsInv, Project!ServerReads PROVE SettingsInv'
<1>1. /\ dataFetch' = Project!Answer(scoutYaml)
      /\ UNCHANGED <<scoutYaml, data, notice, edited, original, lastSaved, conflict, saves,
                     latest, location, reloaded, used, raced>>
  BY DEF Project!ServerReads
<1>2. SettingsTyped'
  BY <1>1 DEF SettingsInv, SettingsTyped
<1>3. SavesNumbered' /\ SavesFromEtags' /\ FormFromData' /\ Loaded'
  BY <1>1 DEF SettingsInv, SavesNumbered, SavesFromEtags, FormFromData, Loaded
<1>4. OnItsWay'
  BY <1>1 DEF SettingsInv, OnItsWay
<1>5. QED
  BY <1>2, <1>3, <1>4 DEF SettingsInv

LEMMA ConfigArrivesKeeps == ASSUME SettingsInv, Project!ConfigArrives PROVE SettingsInv'
<1>1. PICK c \in Configs : dataFetch = Project!Answer(c)
  BY DEF SettingsInv, SettingsTyped, Project!ConfigArrives
<1>2. /\ data' = Project!Known(c) /\ dataFetch' = Project!Idle
      /\ IF location = "left" THEN UNCHANGED <<edited, original, lastSaved>>
         ELSE Project!Initialize(c)
      /\ UNCHANGED <<scoutYaml, notice, conflict, saves, latest, location, reloaded, used, raced>>
  BY <1>1, EtagFacts DEF Project!ConfigArrives
<1>3. /\ FormFromData'
      /\ edited' \in {Project!NoForm} \cup Project!Form
      /\ original' \in {Project!NoForm} \cup Project!Form
  <2>1. CASE location = "left"
    BY <1>2, <2>1 DEF FormFromData, SettingsInv, SettingsTyped
  <2>2. CASE location # "left"
    BY <1>2, <2>2, InitializeKeeps DEF SettingsInv
  <2>3. QED
    BY <2>1, <2>2
<1>4. SettingsTyped'
  BY <1>2, <1>3 DEF SettingsInv, SettingsTyped, Etags
<1>5. SavesNumbered' /\ SavesFromEtags'
  BY <1>2 DEF SettingsInv, SavesNumbered, SavesFromEtags
<1>6. OnItsWay' /\ Loaded'
  BY <1>1, <1>2, EtagFacts DEF SettingsInv, OnItsWay, Loaded, Project!NoData
<1>7. QED
  BY <1>3, <1>4, <1>5, <1>6 DEF SettingsInv

-----------------------------------------------------------------------------
(* The form and leaving it *)

LEMMA EditKeeps ==
    ASSUME SettingsInv, NEW form \in Project!Form, Project!Edit(form)
    PROVE  SettingsInv'
<1>1. /\ edited # Project!NoForm /\ edited' = form
      /\ used' = [used EXCEPT !["edits"] = @ + 1]
      /\ UNCHANGED <<scoutYaml, data, dataFetch, notice, original, lastSaved,
                     conflict, saves, latest, location, reloaded, raced>>
  BY DEF Project!Edit, Project!Counted
<1>2. used' \in [{"edits", "saves", "foreign", "failures"} -> Nat] /\ used'["saves"] = used["saves"]
  BY <1>1 DEF SettingsInv, SettingsTyped
<1>3. SettingsTyped'
  BY <1>1, <1>2 DEF SettingsInv, SettingsTyped
<1>4. SavesNumbered' /\ SavesFromEtags'
  BY <1>1, <1>2 DEF SettingsInv, SavesNumbered, SavesFromEtags
<1>5. FormFromData'
  BY <1>1, FormFacts DEF SettingsInv, FormFromData
<1>6. OnItsWay' /\ Loaded'
  BY <1>1 DEF SettingsInv, OnItsWay, Loaded
<1>7. QED
  BY <1>3, <1>4, <1>5, <1>6 DEF SettingsInv

\* All that the page lets one do gives a form again.
LEMMA EditsKeep ==
    ASSUME SettingsInv,
           \/ \E f \in PlainFields, v \in Project!Values : Project!EditPlain(f, v)
           \/ \E v \in Project!Values : Project!EditNum(v) \/ Project!UpdateBatch(v)
           \/ \E on \in BOOLEAN : Project!SetBatchEnabled(on)
    PROVE  SettingsInv'
<1>1. ASSUME edited # Project!NoForm
      PROVE  edited \in Project!Form /\ edited.gen \in Project!Generate
             /\ edited.plain \in [PlainFields -> Project!Values]
  BY <1>1 DEF SettingsInv, SettingsTyped, Project!Form
<1>2. ASSUME edited # Project!NoForm, NEW num \in Project!Values, NEW batch \in Project!Batches,
             Project!Edit([edited EXCEPT !.gen = Project!GenerateOf(num, batch)])
      PROVE  SettingsInv'
  <2>1. Project!GenerateOf(num, batch) \in Project!Generate
    BY GenerateIs
  <2>2. [edited EXCEPT !.gen = Project!GenerateOf(num, batch)] \in Project!Form
    BY <1>1, <1>2, <2>1 DEF Project!Form
  <2>3. QED
    BY <1>2, <2>2, EditKeeps
<1>3. ASSUME NEW f \in PlainFields, NEW v \in Project!Values, Project!EditPlain(f, v)
      PROVE  SettingsInv'
  <2>1. edited # Project!NoForm /\ Project!Edit([edited EXCEPT !.plain[f] = v])
    BY <1>3 DEF Project!EditPlain
  <2>2. [edited EXCEPT !.plain[f] = v] \in Project!Form
    BY <1>1, <2>1 DEF Project!Form
  <2>3. QED
    BY <2>1, <2>2, EditKeeps
<1>4. ASSUME NEW v \in Project!Values, Project!EditNum(v) PROVE SettingsInv'
  BY <1>1, <1>2, <1>4, PartsAre DEF Project!EditNum
<1>5. ASSUME NEW v \in Project!Values, Project!UpdateBatch(v) PROVE SettingsInv'
  <2>1. Project!Object(v) \in Project!Batches
    BY DEF Project!Batches
  <2>2. QED
    BY <1>1, <1>2, <1>5, <2>1, PartsAre DEF Project!UpdateBatch
<1>6. ASSUME NEW on \in BOOLEAN, Project!SetBatchEnabled(on) PROVE SettingsInv'
  <2>1. (IF on THEN Project!On ELSE Project!Null) \in Project!Batches
    BY DEF Project!Batches
  <2>2. QED
    BY <1>1, <1>2, <1>6, <2>1, PartsAre DEF Project!SetBatchEnabled
<1>7. QED
  BY <1>3, <1>4, <1>5, <1>6

LEMMA NavigateKeeps ==
    ASSUME SettingsInv, Project!Navigate \/ Project!AnswerBlocker PROVE SettingsInv'
<1>1. /\ location # "left" /\ location' \in {"editing", "blocked", "left"}
      /\ UNCHANGED <<scoutYaml, data, dataFetch, notice, edited, original, lastSaved,
                     conflict, saves, latest, reloaded, used, raced>>
  BY DEF Project!Navigate, Project!AnswerBlocker
<1>2. SettingsTyped'
  BY <1>1 DEF SettingsInv, SettingsTyped
<1>3. SavesNumbered' /\ SavesFromEtags' /\ FormFromData' /\ OnItsWay' /\ Loaded'
  BY <1>1 DEF SettingsInv, SavesNumbered, SavesFromEtags, FormFromData, OnItsWay, Loaded
<1>4. QED
  BY <1>2, <1>3 DEF SettingsInv

LEMMA DiscardKeeps == ASSUME SettingsInv, Project!DiscardMyChanges PROVE SettingsInv'
<1>1. PICK c \in Configs : data = Project!Known(c)
  BY DEF SettingsInv, SettingsTyped, Loaded, Etags, Project!DiscardMyChanges
<1>2. /\ edited' = Project!initializeEditedConfig(c) /\ original' = edited' /\ lastSaved' = data
      /\ dataFetch' \in {dataFetch, Project!Asked}
      /\ conflict' = FALSE /\ reloaded' = TRUE
      /\ UNCHANGED <<scoutYaml, data, notice, saves, latest, location, used, raced>>
  BY <1>1, EtagFacts DEF Project!DiscardMyChanges, Project!Invalidated
<1>3. edited' \in Project!Form /\ SameFields(original', c)
  BY <1>2, FilledIs
<1>4. SettingsTyped'
  BY <1>2, <1>3 DEF SettingsInv, SettingsTyped
<1>5. SavesNumbered' /\ SavesFromEtags'
  BY <1>2 DEF SettingsInv, SavesNumbered, SavesFromEtags
<1>6. FormFromData'
  BY <1>1, <1>2, <1>3, EtagFacts, FormFacts DEF FormFromData, Project!NoData
<1>7. OnItsWay' /\ Loaded'
  BY <1>2 DEF SettingsInv, OnItsWay, Loaded
<1>8. QED
  BY <1>4, <1>5, <1>6, <1>7 DEF SettingsInv

-----------------------------------------------------------------------------
(* Saving *)

LEMMA SendKeeps ==
    ASSUME SettingsInv, location # "left", NEW etag, NEW navigate \in BOOLEAN,
           Project!Send(etag, navigate), etag \in {data, Project!NoEtag}
    PROVE  SettingsInv'
<1> DEFINE new == [id |-> latest', config |-> Project!computeConfigToSave(edited, original),
                   etag |-> etag, form |-> edited, from |-> original,
                   navigate |-> navigate, state |-> "sent"]
<1>1. /\ data # Project!NoData /\ edited # Project!NoForm
      /\ latest' = used["saves"] + 1 /\ saves' = saves \cup {new}
      /\ used' = [used EXCEPT !["saves"] = @ + 1]
      /\ UNCHANGED <<scoutYaml, data, dataFetch, notice, edited, original, lastSaved,
                     conflict, location, reloaded, raced>>
  BY DEF Project!Send, Project!Counted
<1>2. /\ used \in [{"edits", "saves", "foreign", "failures"} -> Nat]
      /\ used' \in [{"edits", "saves", "foreign", "failures"} -> Nat]
      /\ used'["saves"] = used["saves"] + 1 /\ used["saves"] \in Nat
  BY <1>1 DEF SettingsInv, SettingsTyped
<1>3. edited \in Project!Form /\ original \in Project!Form /\ SameFields(original, data[1])
  BY <1>1 DEF SettingsInv, FormFromData
<1>4. data \in Etags
  BY <1>1 DEF SettingsInv, SettingsTyped
<1>5. new \in Saves
  BY <1>1, <1>2, <1>3, <1>4, SentIs DEF Saves
<1>6. SaveFromEtag(new) /\ new.id = used["saves"] + 1 /\ new.state = "sent"
  BY <1>1, <1>3, SentIs DEF SaveFromEtag, SameFields
<1> HIDE DEF new
<1>7. SettingsTyped'
  BY <1>1, <1>2, <1>5 DEF SettingsInv, SettingsTyped
<1>8. SavesNumbered'
  <2>1. \A s \in saves : s.id \in Nat /\ s.id <= used["saves"]
    BY DEF SettingsInv, SettingsTyped, SavesNumbered, Saves
  <2>2. QED
    BY <1>1, <1>2, <1>6, <2>1 DEF SettingsInv, SavesNumbered
<1>9. SavesFromEtags' /\ FormFromData'
  BY <1>1, <1>6 DEF SettingsInv, SavesFromEtags, FormFromData
<1>10. OnItsWay' /\ Loaded'
  BY <1>1, <1>6 DEF SettingsInv, OnItsWay, Loaded
<1>11. QED
  BY <1>7, <1>8, <1>9, <1>10 DEF SettingsInv

\* A save that gets another state, and maybe a cleaned content, remains one.
LEMMA ReplacedKeeps ==
    ASSUME SettingsTyped, SavesNumbered, SavesFromEtags,
           NEW s \in saves, NEW t \in Saves,
           t.id = s.id, t.etag = s.etag, t.form = s.form, t.from = s.from,
           SameFields(t.config, s.config),
           saves' = (saves \ {s}) \cup {t}, used'["saves"] = used["saves"]
    PROVE  saves' \subseteq Saves /\ SavesNumbered' /\ SavesFromEtags'
<1>1. saves' \subseteq Saves
  BY DEF SettingsTyped
<1>2. SavesNumbered'
  BY DEF SavesNumbered
<1>3. SaveFromEtag(t)
  BY DEF SavesFromEtags, SaveFromEtag, SameFields
<1>4. SavesFromEtags'
  BY <1>3 DEF SavesFromEtags
<1>5. QED
  BY <1>1, <1>2, <1>4

\* The file as the server writes it.
LEMMA PutIs ==
    ASSUME SettingsInv, NEW config \in Configs, Project!Put(config)
    PROVE  /\ scoutYaml' = Project!Cleaned(config) /\ scoutYaml' \in Configs
           /\ SameFields(scoutYaml', config)
           /\ notice' = TRUE /\ reloaded' = FALSE /\ raced' \in BOOLEAN
           /\ ~raced' => ~raced /\ \A s \in saves : s.state # "done"
BY CleanedIs DEF Project!Put, SettingsInv, SettingsTyped

LEMMA ServerPutsKeeps ==
    ASSUME SettingsInv, NEW s \in saves, Project!ServerPuts(s) PROVE SettingsInv'
<1>1. s \in Saves /\ s.config \in Configs /\ s.state = "sent"
  BY DEF SettingsInv, SettingsTyped, Saves, Project!ServerPuts
<1>2. UNCHANGED <<data, dataFetch, edited, original, lastSaved, conflict, latest, location, used>>
  BY DEF Project!ServerPuts
<1>3. CASE s.etag # Project!NoEtag /\ s.etag # Project!Known(scoutYaml)
  <2> DEFINE t == [s EXCEPT !.state = "conflict"]
  <2>1. saves' = (saves \ {s}) \cup {t} /\ UNCHANGED <<scoutYaml, notice, raced, reloaded>>
    BY <1>3 DEF Project!ServerPuts
  <2>2. t \in Saves /\ t.id = s.id /\ t.etag = s.etag /\ t.form = s.form /\ t.from = s.from
        /\ SameFields(t.config, s.config) /\ t.state = "conflict"
    BY <1>1 DEF Saves, SameFields
  <2> HIDE DEF t
  <2>3. saves' \subseteq Saves /\ SavesNumbered' /\ SavesFromEtags'
    BY <1>2, <2>1, <2>2, ReplacedKeeps DEF SettingsInv
  <2>4. SettingsTyped'
    BY <1>2, <2>1, <2>3 DEF SettingsInv, SettingsTyped
  <2>5. FormFromData' /\ OnItsWay' /\ Loaded'
    BY <1>2, <2>1, <2>2 DEF SettingsInv, FormFromData, OnItsWay, Loaded
  <2>6. QED
    BY <2>3, <2>4, <2>5 DEF SettingsInv
<1>4. CASE ~(s.etag # Project!NoEtag /\ s.etag # Project!Known(scoutYaml))
  <2> DEFINE t == [s EXCEPT !.state = "done", !.config = Project!Cleaned(@)]
  <2>1. saves' = (saves \ {s}) \cup {t} /\ Project!Put(s.config)
    BY <1>4 DEF Project!ServerPuts
  <2>2. t \in Saves /\ t.id = s.id /\ t.etag = s.etag /\ t.form = s.form /\ t.from = s.from
        /\ SameFields(t.config, s.config) /\ t.config = Project!Cleaned(s.config)
    BY <1>1, CleanedIs DEF Saves, SameFields
  <2> HIDE DEF t
  <2>3. saves' \subseteq Saves /\ SavesNumbered' /\ SavesFromEtags'
    BY <1>2, <2>1, <2>2, ReplacedKeeps DEF SettingsInv
  <2>4. SettingsTyped'
    BY <1>1, <1>2, <2>1, <2>3, PutIs DEF SettingsInv, SettingsTyped
  <2>5. FormFromData' /\ Loaded'
    BY <1>2 DEF SettingsInv, FormFromData, Loaded
  <2>6. OnItsWay'
    BY <1>1, <2>1, <2>2, PutIs DEF OnItsWay
  <2>7. QED
    BY <2>3, <2>4, <2>5, <2>6 DEF SettingsInv
<1>5. QED
  BY <1>3, <1>4

LEMMA PutFailsKeeps ==
    ASSUME SettingsInv, NEW s \in saves, Project!PutFails(s) PROVE SettingsInv'
<1> DEFINE t == [s EXCEPT !.state = "failed"]
<1>1. s \in Saves
  BY DEF SettingsInv, SettingsTyped
<1>2. /\ saves' = (saves \ {s}) \cup {t} /\ used' = [used EXCEPT !["failures"] = @ + 1]
      /\ UNCHANGED <<scoutYaml, data, dataFetch, notice, edited, original, lastSaved,
                     conflict, latest, location, reloaded, raced>>
  BY DEF Project!PutFails, Project!Counted
<1>3. t \in Saves /\ t.id = s.id /\ t.etag = s.etag /\ t.form = s.form /\ t.from = s.from
      /\ SameFields(t.config, s.config) /\ t.state = "failed"
  BY <1>1 DEF Saves, SameFields
<1> HIDE DEF t
<1>4. used' \in [{"edits", "saves", "foreign", "failures"} -> Nat] /\ used'["saves"] = used["saves"]
  BY <1>2 DEF SettingsInv, SettingsTyped
<1>5. saves' \subseteq Saves /\ SavesNumbered' /\ SavesFromEtags'
  BY <1>2, <1>3, <1>4, ReplacedKeeps DEF SettingsInv
<1>6. SettingsTyped'
  BY <1>2, <1>4, <1>5 DEF SettingsInv, SettingsTyped
<1>7. FormFromData' /\ OnItsWay' /\ Loaded'
  BY <1>2, <1>3 DEF SettingsInv, FormFromData, OnItsWay, Loaded
<1>8. QED
  BY <1>5, <1>6, <1>7 DEF SettingsInv

LEMMA FewerSavesKeep ==
    ASSUME SettingsTyped, SavesNumbered, SavesFromEtags, NEW s, saves' = saves \ {s},
           UNCHANGED used
    PROVE  saves' \subseteq Saves /\ SavesNumbered' /\ SavesFromEtags'
BY DEF SettingsTyped, SavesNumbered, SavesFromEtags, SaveFromEtag, SameFields

LEMMA SaveSucceedsKeeps ==
    ASSUME SettingsInv, NEW s \in saves, Project!SaveSucceeds(s) PROVE SettingsInv'
<1>1. /\ s \in Saves /\ s.config \in Configs /\ s.form \in Project!Form
      /\ SameFields(s.config, s.form) /\ data # Project!NoData
  BY DEF SettingsInv, SettingsTyped, Saves, SavesFromEtags, SaveFromEtag, Loaded
<1>2. /\ s.state = "done" /\ saves' = saves \ {s} /\ data' = Project!Known(s.config)
      /\ UNCHANGED <<scoutYaml, dataFetch, notice, latest, reloaded, used, raced>>
  BY DEF Project!SaveSucceeds
<1>3. data' # Project!NoData /\ data'[1] = s.config
  BY <1>2, EtagFacts DEF Project!NoData
<1>4. saves' \subseteq Saves /\ SavesNumbered' /\ SavesFromEtags'
  BY <1>2, FewerSavesKeep DEF SettingsInv
<1>5. /\ FormFromData' /\ conflict' \in BOOLEAN /\ location' \in {"editing", "blocked", "left"}
      /\ edited' \in {Project!NoForm} \cup Project!Form
      /\ original' \in {Project!NoForm} \cup Project!Form
  <2>1. CASE location = "left"
    <3>1. UNCHANGED <<edited, original, lastSaved, conflict, location>>
      BY <2>1 DEF Project!SaveSucceeds
    <3>2. QED
      BY <2>1, <3>1 DEF SettingsInv, SettingsTyped, FormFromData
  <2>2. CASE location # "left" /\ s.id = latest
    <3>1. edited # Project!NoForm /\ edited \in Project!Form
      BY <1>1, <2>2, FormFacts DEF SettingsInv, FormFromData
    <3>2. /\ conflict' = FALSE /\ lastSaved' = data' /\ original' = s.form
          /\ location' = IF s.navigate /\ location = "blocked" THEN "left" ELSE location
          /\ edited' = edited
      BY <1>2, <2>2, <3>1 DEF Project!SaveSucceeds, Project!SavedForm
    <3>3. SameFields(original', data'[1])
      BY <1>1, <1>3, <3>2 DEF SameFields
    <3>4. FormFromData'
      BY <1>1, <1>3, <3>1, <3>2, <3>3, FormFacts DEF FormFromData
    <3>5. QED
      BY <1>1, <3>1, <3>2, <3>4 DEF SettingsInv, SettingsTyped
  <2>3. CASE location # "left" /\ s.id # latest
    <3>1. Project!Initialize(s.config) /\ UNCHANGED <<conflict, location>>
      BY <2>3 DEF Project!SaveSucceeds
    <3>2. QED
      BY <1>1, <1>2, <2>3, <3>1, InitializeKeeps DEF SettingsInv, SettingsTyped
  <2>4. QED
    BY <2>1, <2>2, <2>3
<1>6. SettingsTyped'
  BY <1>1, <1>2, <1>4, <1>5 DEF SettingsInv, SettingsTyped, Etags
<1>7. OnItsWay' /\ Loaded'
  BY <1>2, <1>3 DEF SettingsInv, OnItsWay, Loaded
<1>8. QED
  BY <1>4, <1>5, <1>6, <1>7 DEF SettingsInv

LEMMA SaveEndsBadlyKeeps ==
    ASSUME SettingsInv, NEW s \in saves, Project!SaveEndsBadly(s) PROVE SettingsInv'
<1>1. /\ saves' = saves \ {s} /\ s.state # "done" /\ conflict' \in BOOLEAN
      /\ location' \in {"editing", location} /\ (location = "left" => location' = "left")
      /\ UNCHANGED <<scoutYaml, data, dataFetch, notice, edited, original, lastSaved,
                     latest, reloaded, used, raced>>
  <2>1. conflict \in BOOLEAN
    BY DEF SettingsInv, SettingsTyped
  <2>2. QED
    BY <2>1 DEF Project!SaveEndsBadly
<1>2. saves' \subseteq Saves /\ SavesNumbered' /\ SavesFromEtags'
  BY <1>1, FewerSavesKeep DEF SettingsInv
<1>3. SettingsTyped'
  BY <1>1, <1>2 DEF SettingsInv, SettingsTyped
<1>4. FormFromData' /\ OnItsWay' /\ Loaded'
  BY <1>1 DEF SettingsInv, FormFromData, OnItsWay, Loaded
<1>5. QED
  BY <1>2, <1>3, <1>4 DEF SettingsInv

-----------------------------------------------------------------------------
(* Others *)

LEMMA OthersKeep ==
    ASSUME Project!Assumptions, SettingsInv, NEW config \in InitialSettings,
           Project!ForeignSave(config) \/ Project!EditorSave(config)
    PROVE  SettingsInv'
<1>1. config \in Configs
  BY DEF Project!Assumptions, Configs
<1>2. /\ used' = [used EXCEPT !["foreign"] = @ + 1]
      /\ UNCHANGED <<data, dataFetch, edited, original, lastSaved, conflict, saves, latest, location>>
      /\ \/ Project!Put(config)
         \/ scoutYaml' = config /\ raced' = TRUE /\ reloaded' = FALSE /\ notice' = notice
  BY DEF Project!ForeignSave, Project!EditorSave, Project!Counted
<1>3. used' \in [{"edits", "saves", "foreign", "failures"} -> Nat] /\ used'["saves"] = used["saves"]
  BY <1>2 DEF SettingsInv, SettingsTyped
<1>4. scoutYaml' \in Configs /\ notice' \in BOOLEAN /\ raced' \in BOOLEAN /\ reloaded' \in BOOLEAN
  BY <1>1, <1>2, PutIs DEF SettingsInv, SettingsTyped
<1>5. SettingsTyped'
  BY <1>2, <1>3, <1>4 DEF SettingsInv, SettingsTyped
<1>6. SavesNumbered' /\ SavesFromEtags' /\ FormFromData' /\ Loaded'
  BY <1>2, <1>3 DEF SettingsInv, SavesNumbered, SavesFromEtags, FormFromData, Loaded
<1>7. OnItsWay'
  BY <1>1, <1>2, PutIs DEF OnItsWay
<1>8. QED
  BY <1>5, <1>6, <1>7 DEF SettingsInv

LEMMA SettingsNext ==
    ASSUME Project!Assumptions, SettingsInv, [Project!Next]_Project!vars PROVE SettingsInv'
<1>1. CASE UNCHANGED Project!vars
  <2>1. UNCHANGED <<scoutYaml, data, dataFetch, notice, edited, original, lastSaved,
                    conflict, saves, latest, location, raced, reloaded, used>>
    BY <1>1 DEF Project!vars
  <2>2. SettingsTyped'
    BY <2>1 DEF SettingsInv, SettingsTyped
  <2>3. SavesNumbered' /\ SavesFromEtags' /\ FormFromData' /\ OnItsWay' /\ Loaded'
    BY <2>1 DEF SettingsInv, SavesNumbered, SavesFromEtags, FormFromData, OnItsWay, Loaded
  <2>4. QED
    BY <2>2, <2>3 DEF SettingsInv
<1>2. CASE Project!Answers
  BY <1>2, NoticeKeeps, ServerReadsKeeps, ConfigArrivesKeeps, ServerPutsKeeps,
     SaveSucceedsKeeps, SaveEndsBadlyKeeps DEF Project!Answers
<1>3. CASE Project!User
  <2>1. ASSUME Project!Save \/ Project!KeepMyChanges \/ Project!SaveAndNavigate
        PROVE  SettingsInv'
    <3>1. \E navigate \in BOOLEAN : location # "left" /\
             (Project!Send(data, navigate) \/ Project!Send(Project!NoEtag, navigate))
      BY <2>1 DEF Project!Save, Project!KeepMyChanges, Project!SaveAndNavigate
    <3>2. QED
      BY <3>1, SendKeeps
  <2>2. QED
    BY <1>3, <2>1, EditsKeep, DiscardKeeps, NavigateKeeps DEF Project!User
<1>4. CASE Project!Others
  BY <1>4, PutFailsKeeps, OthersKeep DEF Project!Others
<1>5. QED
  BY <1>1, <1>2, <1>3, <1>4 DEF Project!Next

LEMMA SettingsHold == ASSUME Project!Assumptions PROVE Project!Spec => []SettingsInv
<1>1. Project!Init => SettingsInv
  BY SettingsInit
<1>2. SettingsInv /\ [Project!Next]_Project!vars => SettingsInv'
  BY SettingsNext
<1>3. QED
  BY <1>1, <1>2, PTL DEF Project!Spec

-----------------------------------------------------------------------------
(* The settings of a project: theorems *)

\* Only the server's taking a save makes it done and changes the file: no save
\* under way is there twice.
LEMMA OnlyByTaking ==
    ASSUME Project!Assumptions, SettingsInv, Project!Next,
           NEW s \in saves, s.state = "sent", scoutYaml' # scoutYaml,
           [s EXCEPT !.state = "done", !.config = Project!Cleaned(@)] \in saves'
    PROVE  Project!ServerPuts(s)
<1> DEFINE done == [s EXCEPT !.state = "done", !.config = Project!Cleaned(@)]
<1>1. s \in Saves /\ \A r, q \in saves : r.id = q.id => r = q
  BY DEF SettingsInv, SettingsTyped, SavesNumbered
<1>2. done.id = s.id /\ done.state = "done"
  BY <1>1 DEF Saves
<1>3. done \notin saves
  BY <1>1, <1>2
<1> HIDE DEF done
<1>4. done \in saves'
  BY DEF done
<1>5. CASE \E config \in InitialSettings : Project!ForeignSave(config) \/ Project!EditorSave(config)
  BY <1>3, <1>4, <1>5 DEF Project!ForeignSave, Project!EditorSave
<1>6. ASSUME NEW r \in saves, Project!ServerPuts(r) PROVE Project!ServerPuts(s)
  <2>1. PICK t : saves' = (saves \ {r}) \cup {t} /\ t \in {[r EXCEPT !.state = "conflict"],
                   [r EXCEPT !.state = "done", !.config = Project!Cleaned(@)]}
    BY <1>6 DEF Project!ServerPuts
  <2>2. r \in Saves
    BY DEF SettingsInv, SettingsTyped
  <2>3. t.id = r.id
    BY <2>1, <2>2 DEF Saves
  <2>4. t = done
    BY <1>3, <1>4, <2>1
  <2>5. r = s
    BY <1>1, <1>2, <2>3, <2>4
  <2>6. QED
    BY <1>6, <2>5
<1>7. QED
  BY <1>5, <1>6 DEF Project!Next, Project!Answers, Project!User, Project!Others,
     Project!NoticeArrives, Project!ServerReads, Project!ConfigArrives, Project!SaveSucceeds,
     Project!SaveEndsBadly, Project!PutFails, Project!EditPlain, Project!EditNum,
     Project!UpdateBatch, Project!SetBatchEnabled, Project!Edit, Project!Save,
     Project!KeepMyChanges, Project!SaveAndNavigate, Project!Send, Project!DiscardMyChanges,
     Project!Navigate, Project!AnswerBlocker

\* State variables of the settings page keep their types.
THEOREM SettingsTypes == ASSUME Project!Assumptions PROVE Project!Spec => []Project!TypeOK
<1>1. SettingsInv => Project!TypeOK
  <2>1. SUFFICES ASSUME SettingsTyped PROVE Project!TypeOK
    BY DEF SettingsInv
  <2>2. data = Project!NoData \/ data[1] \in Configs
    BY <2>1, EtagFacts DEF SettingsTyped, Etags
  <2>3. dataFetch \in {Project!Idle, Project!Asked} \/ dataFetch[2] \in Configs
    BY <2>1, EtagFacts DEF SettingsTyped
  <2>4. \A s \in saves : /\ s.config \in Configs /\ s.form \in Project!Form
                         /\ s.state \in {"sent", "done", "conflict", "failed"}
    BY <2>1 DEF SettingsTyped, Saves
  <2>5. QED
    BY <2>1, <2>2, <2>3, <2>4 DEF SettingsTyped, Project!TypeOK, Configs
<1>2. QED
  BY <1>1, SettingsHold, PTL

LEMMA TakingKeepsOthers ==
    ASSUME Project!Assumptions, SettingsInv, Project!Next PROVE Project!KeepsOthersFields
<1>1. SUFFICES ASSUME NEW s \in saves, s.state = "sent", s.etag # Project!NoEtag, scoutYaml' # scoutYaml,
                      [s EXCEPT !.state = "done", !.config = Project!Cleaned(@)] \in saves',
                      NEW f \in PlainFields, s.form.plain[f] = s.from.plain[f]
               PROVE  scoutYaml'.plain[f] = scoutYaml.plain[f]
  BY DEF Project!KeepsOthersFields
<1>2. Project!ServerPuts(s)
  BY <1>1, OnlyByTaking
<1>3. s.etag = Project!Known(scoutYaml) /\ Project!Put(s.config)
  BY <1>1, <1>2 DEF Project!ServerPuts
<1>4. SameFields(s.config, s.form) /\ SameFields(s.from, scoutYaml) /\ s.config \in Configs
  BY <1>1, <1>3, EtagFacts DEF SettingsInv, SettingsTyped, Saves, SavesFromEtags, SaveFromEtag
<1>5. SameFields(scoutYaml', s.config)
  BY <1>3, <1>4, PutIs
<1>6. QED
  BY <1>1, <1>4, <1>5 DEF SameFields

\* No lost update: a save that is not forced leaves alone every field that the
\* user left alone, whatever others wrote and whichever answers came late
\* (handleSave, put_project_config).
THEOREM OthersFieldsKept == ASSUME Project!Assumptions PROVE Project!Spec => Project!NoLostUpdate
<1>1. SettingsInv /\ [Project!Next]_Project!vars => [Project!KeepsOthersFields]_Project!vars
  BY TakingKeepsOthers
<1>2. QED
  BY <1>1, SettingsHold, PTL DEF Project!Spec, Project!NoLostUpdate

\* Once all is answered the page holds the file, unless somebody changed it
\* untold or while the answer to a save was on its way.
THEOREM SettingsConverge == ASSUME Project!Assumptions PROVE Project!Spec => []Project!DataConverges
<1>1. SettingsInv => Project!DataConverges
  BY EtagFacts DEF SettingsInv, OnItsWay, Project!DataConverges, Project!Quiet
<1>2. QED
  BY <1>1, SettingsHold, PTL

\* What the form is compared with is what the query holds, so that a change is a
\* change of that.
THEOREM FormStartsFromData == ASSUME Project!Assumptions PROVE Project!Spec => []Project!OriginalIsData
<1>1. SettingsInv => Project!OriginalIsData
  <2>1. SUFFICES ASSUME SettingsInv, location # "left", original # Project!NoForm
                 PROVE  SameFields(original, data[1])
    BY DEF Project!OriginalIsData, SameFields
  <2>2. QED
    BY <2>1 DEF SettingsInv, FormFromData
<1>2. QED
  BY <1>1, SettingsHold, PTL

-----------------------------------------------------------------------------
(* The cases of a set: the invariant *)

NotBoth(c) == c.target = Case!NoValue \/ c.labels = Case!NoValue
ProperCase == {c \in Case!Case : Case!OneKind(c)}
ProperEntry == ProperCase \cup {Case!Absent}
Lists == [Cases -> ProperEntry]
SomeCase == {c \in Case!Case : NotBoth(c)} \cup {Case!Absent, Case!NoData}
SomeList == {Case!NoList} \cup Lists
States == {"sent", "done", "failed"}
Updates == [id : Nat, case : Cases, data : ProperCase, state : States,
            previousCase : SomeCase, previousList : SomeList]
Deletions == [id : Nat, by : {"editor", "panel"}, case : Cases, state : States]

\* What is stored, sent and listed has a target or labels, and what the editor
\* shows has not both.
CasesTyped ==
    /\ stored \in Lists /\ cached \in SomeCase /\ cachedList \in SomeList
    /\ DOMAIN fetch = Case!Queries
    /\ fetch["case"] \in {Case!Idle, Case!Asked} \cup {Case!Answered(e) : e \in ProperEntry}
    /\ fetch["list"] \in {Case!Idle, Case!Asked} \cup {Case!Answered(l) : l \in Lists}
    /\ upserts \subseteq Updates /\ deletes \subseteq Deletions
    /\ typing \in {Case!NoValue, "text"} /\ heldBack \in BOOLEAN
    /\ page \in {"editor", "panel"}
    /\ made \in [{"edits", "deletes", "faults"} -> Nat]

\* Without faults the list is on its way to the panel: an update, a deletion that
\* took something, the query or its answer, or it is there.
ListComes ==
    made["faults"] = 0 =>
      /\ \A u \in upserts : u.state # "failed"
      /\ \/ upserts # {} \/ \E d \in deletes : d.state = "done"
         \/ fetch["list"] = Case!Asked \/ fetch["list"] = Case!Answered(stored)
         \/ fetch["list"] = Case!Idle /\ cachedList = stored

\* The same of the case in the editor, as long as nothing is deleted.
CaseComes ==
    made["faults"] = 0 /\ made["deletes"] = 0 /\ page = "editor" =>
      /\ deletes = {}
      /\ \/ \E u \in upserts : u.case = Edited
         \/ fetch["case"] = Case!Asked \/ fetch["case"] = Case!Answered(stored[Edited])
         \/ fetch["case"] = Case!Idle /\ (heldBack \/ cached = stored[Edited])

CasesInv == CasesTyped /\ ListComes /\ CaseComes

LEMMA CaseFacts ==
    /\ Case!Absent \notin Case!Case /\ Case!NoData \notin Case!Case /\ Case!Absent # Case!NoData
    /\ Case!NewCase \in Case!Case
<1>1. "labels" \notin DOMAIN Case!Absent /\ "labels" \notin DOMAIN Case!NoData
  BY DEF Case!Absent, Case!NoData
<1>2. \A c \in Case!Case : "labels" \in DOMAIN c
  BY DEF Case!Case
<1>3. Case!Absent.target # Case!NoData.target
  BY DEF Case!Absent, Case!NoData
<1>4. Case!NewCase \in Case!Case
  BY DEF Case!NewCase, Case!Case, Case!NoValue, Case!Targets
<1>5. QED
  BY <1>1, <1>2, <1>3, <1>4

LEMMA AnswerFacts ==
    ASSUME NEW x
    PROVE  /\ Case!Answered(x) \notin {Case!Idle, Case!Asked} /\ Case!Answered(x)[2] = x
           /\ Case!Asked # Case!Idle
BY DEF Case!Answered, Case!Idle, Case!Asked

LEMMA CasesInit == ASSUME Case!Assumptions, Case!Init PROVE CasesInv
<1>1. stored \in Lists
  <2>1. stored \in [Cases -> Case!Entry]
    BY DEF Case!Init, Case!Assumptions
  <2>2. \A c \in Cases : stored[c] # Case!Absent => Case!OneKind(stored[c])
    BY DEF Case!Init, Case!Assumptions, Case!OneKind
  <2>3. \A c \in Cases : stored[c] \in ProperEntry
    BY <2>1, <2>2 DEF ProperEntry, ProperCase, Case!Entry
  <2>4. QED
    BY <2>1, <2>3 DEF Lists
<1>2. made \in [{"edits", "deletes", "faults"} -> Nat]
  BY DEF Case!Init
<1>3. /\ DOMAIN fetch = Case!Queries /\ fetch["case"] \in {Case!Idle, Case!Asked}
      /\ fetch["list"] = Case!Asked /\ (page = "editor" => fetch["case"] = Case!Asked)
  BY DEF Case!Init, Case!Queries, Case!Active
<1>4. cached \in SomeCase /\ cachedList \in SomeList
  BY DEF Case!Init, SomeCase, SomeList
<1>5. CasesTyped
  BY <1>1, <1>2, <1>3, <1>4 DEF Case!Init, CasesTyped
<1>6. ListComes /\ CaseComes
  BY <1>3 DEF Case!Init, ListComes, CaseComes
<1>7. QED
  BY <1>5, <1>6 DEF CasesInv

-----------------------------------------------------------------------------
(* Queries *)

LEMMA ServerReadsCaseKeeps ==
    ASSUME Case!Assumptions, CasesInv, NEW q \in Case!Queries, Case!ServerReads(q)
    PROVE  CasesInv'
<1>1. /\ fetch' = [fetch EXCEPT ![q] = Case!Answered(IF q = "case" THEN stored[Edited] ELSE stored)]
      /\ UNCHANGED <<stored, cached, cachedList, upserts, deletes, typing, heldBack, page, watched, made>>
  BY DEF Case!ServerReads
<1>2. /\ stored \in Lists /\ stored[Edited] \in ProperEntry /\ q \in {"case", "list"}
      /\ DOMAIN fetch = {"case", "list"}
  BY DEF CasesInv, CasesTyped, Lists, Case!Assumptions, Case!Queries
<1>3. /\ DOMAIN fetch' = Case!Queries
      /\ fetch'["case"] \in {fetch["case"], Case!Answered(stored[Edited])}
      /\ fetch'["list"] \in {fetch["list"], Case!Answered(stored)}
  BY <1>1, <1>2 DEF Case!Queries
<1>4. CasesTyped'
  BY <1>1, <1>2, <1>3 DEF CasesInv, CasesTyped
<1>5. ListComes' /\ CaseComes'
  BY <1>1, <1>3 DEF CasesInv, ListComes, CaseComes
<1>6. QED
  BY <1>4, <1>5 DEF CasesInv

LEMMA CaseArrivesKeeps == ASSUME CasesInv, Case!CaseArrives PROVE CasesInv'
<1>1. PICK e \in ProperEntry : fetch["case"] = Case!Answered(e)
  BY DEF CasesInv, CasesTyped, Case!CaseArrives, Case!HasAnswer
<1>2. /\ cached' = e /\ heldBack' = FALSE /\ fetch' = [fetch EXCEPT !["case"] = Case!Idle]
      /\ UNCHANGED <<stored, cachedList, upserts, deletes, typing, page, watched, made>>
  BY <1>1, AnswerFacts DEF Case!CaseArrives
<1>3. /\ DOMAIN fetch' = Case!Queries /\ fetch'["case"] = Case!Idle /\ fetch'["list"] = fetch["list"]
  BY <1>2 DEF CasesInv, CasesTyped, Case!Queries
<1>4. cached' \in SomeCase
  BY <1>2 DEF ProperEntry, ProperCase, SomeCase, NotBoth, Case!OneKind
<1>5. CasesTyped'
  BY <1>2, <1>3, <1>4 DEF CasesInv, CasesTyped
<1>6. ListComes'
  BY <1>2, <1>3 DEF CasesInv, ListComes
<1>7. CaseComes'
  <2>1. fetch["case"] = Case!Answered(stored[Edited]) => cached' = stored[Edited]
    BY <1>1, <1>2, AnswerFacts
  <2>2. fetch["case"] \notin {Case!Idle, Case!Asked}
    BY <1>1, AnswerFacts
  <2>3. QED
    BY <1>2, <1>3, <2>1, <2>2 DEF CasesInv, CaseComes
<1>8. QED
  BY <1>5, <1>6, <1>7 DEF CasesInv

LEMMA ListArrivesKeeps == ASSUME CasesInv, Case!ListArrives PROVE CasesInv'
<1>1. PICK l \in Lists : fetch["list"] = Case!Answered(l)
  BY DEF CasesInv, CasesTyped, Case!ListArrives, Case!HasAnswer
<1>2. /\ cachedList' = l /\ fetch' = [fetch EXCEPT !["list"] = Case!Idle]
      /\ UNCHANGED <<stored, cached, upserts, deletes, typing, heldBack, page, watched, made>>
  BY <1>1, AnswerFacts DEF Case!ListArrives
<1>3. /\ DOMAIN fetch' = Case!Queries /\ fetch'["list"] = Case!Idle /\ fetch'["case"] = fetch["case"]
  BY <1>2 DEF CasesInv, CasesTyped, Case!Queries
<1>4. cachedList' \in SomeList
  BY <1>2 DEF SomeList
<1>5. CasesTyped'
  BY <1>2, <1>3, <1>4 DEF CasesInv, CasesTyped
<1>6. ListComes'
  <2>1. fetch["list"] = Case!Answered(stored) => cachedList' = stored
    BY <1>1, <1>2, AnswerFacts
  <2>2. fetch["list"] \notin {Case!Idle, Case!Asked}
    BY <1>1, AnswerFacts
  <2>3. QED
    BY <1>2, <1>3, <2>1, <2>2 DEF CasesInv, ListComes
<1>7. CaseComes'
  BY <1>2, <1>3 DEF CasesInv, CaseComes
<1>8. QED
  BY <1>5, <1>6, <1>7 DEF CasesInv

\* invalidateQueries asks for the list wherever the page is, and for the case
\* beside the editor.
LEMMA CasesAsked ==
    ASSUME CasesTyped, NEW qs \in SUBSET Case!Queries, Case!Invalidate(qs)
    PROVE  /\ DOMAIN fetch' = Case!Queries
           /\ fetch'["case"] = IF "case" \in qs /\ page = "editor" THEN Case!Asked ELSE fetch["case"]
           /\ fetch'["list"] = IF "list" \in qs THEN Case!Asked ELSE fetch["list"]
BY DEF Case!Invalidate, Case!Active, Case!Queries, CasesTyped

-----------------------------------------------------------------------------
(* Updates *)

\* The list with some cases replaced is a list.
LEMMA ListWithIs ==
    ASSUME CasesTyped, NEW sent \in SUBSET Cases, NEW new \in [sent -> ProperCase],
           NEW before \in SUBSET sent
    PROVE  Case!ListWith(new, before) \in SomeList
<1>1. CASE cachedList = Case!NoList
  BY <1>1 DEF Case!ListWith, SomeList
<1>2. CASE cachedList # Case!NoList
  <2>1. cachedList \in Lists
    BY <1>2 DEF CasesTyped, SomeList
  <2>2. \A c \in Cases : (IF c \in before /\ cachedList[c] # Case!Absent THEN new[c] ELSE cachedList[c])
                           \in ProperEntry
    BY <2>1 DEF Lists, ProperEntry
  <2>3. QED
    BY <1>2, <2>2 DEF Case!ListWith, SomeList, Lists
<1>3. QED
  BY <1>1, <1>2

\* Updates of one kind are sent: those of the case in the editor are among them.
LEMMA SendUpdatesKeeps ==
    ASSUME CasesInv, NEW sent \in SUBSET Cases, sent # {}, page = "editor" => Edited \in sent,
           NEW new \in [sent -> ProperCase], NEW before \in [sent -> SUBSET sent],
           Case!SendUpdates(new, before), Case!Counted("edits", MaxEdits),
           typing' \in {Case!NoValue, "text"}, heldBack' \in BOOLEAN,
           UNCHANGED <<stored, deletes, page>>
    PROVE  CasesInv'
<1> DEFINE update(c) == [id |-> made["edits"], case |-> c, data |-> new[c], state |-> "sent",
             previousCase |-> IF c = Edited THEN cached ELSE Case!NoData,
             previousList |-> Case!ListWith(new, before[c])]
<1>1. /\ fetch' = [q \in Case!Queries |->
                     IF q \in {"list"} \cup (IF Edited \in sent THEN {"case"} ELSE {})
                     THEN Case!Idle ELSE fetch[q]]
      /\ cached' = IF Edited \in sent /\ cached \in Case!Case THEN new[Edited] ELSE cached
      /\ cachedList' = Case!ListWith(new, sent)
      /\ upserts' = upserts \cup {update(c) : c \in sent}
  BY DEF Case!SendUpdates
<1>2. /\ made' \in [{"edits", "deletes", "faults"} -> Nat] /\ made["edits"] \in Nat
      /\ made'["faults"] = made["faults"] /\ made'["deletes"] = made["deletes"]
  BY DEF Case!Counted, CasesInv, CasesTyped
<1>3. \A c \in sent : update(c) \in Updates /\ update(c).state = "sent" /\ update(c).case = c
  <2>1. SUFFICES ASSUME NEW c \in sent PROVE update(c) \in Updates
    OBVIOUS
  <2>2. Case!ListWith(new, before[c]) \in SomeList
    BY ListWithIs DEF CasesInv
  <2>3. cached \in SomeCase /\ Case!NoData \in SomeCase
    BY DEF CasesInv, CasesTyped, SomeCase
  <2>4. QED
    BY <1>2, <2>2, <2>3 DEF Updates, States
<1>4. cached' \in SomeCase
  <2>1. \A c \in sent : new[c] \in SomeCase
    BY DEF ProperCase, SomeCase, NotBoth, Case!OneKind
  <2>2. cached \in SomeCase
    BY DEF CasesInv, CasesTyped
  <2>3. QED
    BY <1>1, <2>1, <2>2
<1>5. cachedList' \in SomeList
  BY <1>1, ListWithIs DEF CasesInv
<1>6. /\ DOMAIN fetch' = Case!Queries /\ fetch'["list"] = Case!Idle
      /\ fetch'["case"] \in {fetch["case"], Case!Idle}
  BY <1>1 DEF Case!Queries
<1> HIDE DEF update
<1>7. upserts' \subseteq Updates
  BY <1>1, <1>3 DEF CasesInv, CasesTyped
<1>8. CasesTyped'
  BY <1>2, <1>4, <1>5, <1>6, <1>7 DEF CasesInv, CasesTyped
<1>9. ListComes'
  BY <1>1, <1>2, <1>3 DEF CasesInv, ListComes
<1>10. CaseComes'
  <2>1. page = "editor" => \E u \in upserts' : u.case = Edited
    BY <1>1, <1>3
  <2>2. QED
    BY <1>2, <2>1 DEF CasesInv, CaseComes
<1>11. QED
  BY <1>8, <1>9, <1>10 DEF CasesInv

\* An update goes on in another state.
LEMMA MovedOn ==
    ASSUME CasesTyped, NEW u \in upserts, NEW state \in States,
           upserts' = (upserts \ {u}) \cup {[u EXCEPT !.state = state]}
    PROVE  /\ upserts' \subseteq Updates /\ upserts' # {}
           /\ \A w \in upserts' : w \in upserts \/ w.state = state
           /\ (\E w \in upserts : w.case = Edited) => \E w \in upserts' : w.case = Edited
           /\ u.case = Edited => \E w \in upserts' : w.case = Edited
<1> DEFINE v == [u EXCEPT !.state = state]
<1>1. u \in Updates
  BY DEF CasesTyped
<1>2. v \in Updates /\ v.state = state /\ v.case = u.case
  BY <1>1 DEF Updates
<1> HIDE DEF v
<1>3. upserts' = (upserts \ {u}) \cup {v}
  BY DEF v
<1>4. QED
  BY <1>2, <1>3 DEF CasesTyped

LEMMA ServerUpsertsKeeps ==
    ASSUME CasesInv, NEW u \in upserts, Case!ServerUpserts(u) PROVE CasesInv'
<1>1. u \in Updates /\ u.data \in ProperCase /\ u.case \in Cases /\ Case!OneKind(u.data)
  BY DEF CasesInv, CasesTyped, Updates, ProperCase
<1>2. /\ stored' = [stored EXCEPT ![u.case] = u.data]
      /\ upserts' = (upserts \ {u}) \cup {[u EXCEPT !.state = "done"]}
      /\ UNCHANGED <<cached, cachedList, fetch, deletes, typing, heldBack, page, watched, made>>
  BY <1>1 DEF Case!ServerUpserts
<1>3. stored' \in Lists /\ (u.case # Edited => stored'[Edited] = stored[Edited])
  BY <1>1, <1>2 DEF CasesInv, CasesTyped, Lists, ProperEntry
<1>4. /\ upserts' \subseteq Updates /\ upserts' # {}
      /\ \A w \in upserts' : w \in upserts \/ w.state = "done"
      /\ (\E w \in upserts : w.case = Edited) => \E w \in upserts' : w.case = Edited
      /\ u.case = Edited => \E w \in upserts' : w.case = Edited
  BY <1>2, MovedOn DEF CasesInv, States
<1>5. CasesTyped'
  BY <1>2, <1>3, <1>4 DEF CasesInv, CasesTyped
<1>6. ListComes' /\ CaseComes'
  BY <1>2, <1>3, <1>4 DEF CasesInv, ListComes, CaseComes
<1>7. QED
  BY <1>5, <1>6 DEF CasesInv

\* A fault is counted, and the invariants promise nothing more.
LEMMA FaultIs ==
    ASSUME CasesTyped, Case!Counted("faults", MaxFaults)
    PROVE  made' \in [{"edits", "deletes", "faults"} -> Nat] /\ made'["faults"] # 0
BY DEF Case!Counted, CasesTyped

LEMMA UpsertLostKeeps ==
    ASSUME CasesInv, NEW u \in upserts, Case!UpsertLost(u) PROVE CasesInv'
<1>1. /\ upserts' = (upserts \ {u}) \cup {[u EXCEPT !.state = "failed"]}
      /\ UNCHANGED <<stored, cached, cachedList, fetch, deletes, typing, heldBack, page, watched>>
      /\ made' \in [{"edits", "deletes", "faults"} -> Nat] /\ made'["faults"] # 0
  BY FaultIs DEF Case!UpsertLost, CasesInv
<1>2. upserts' \subseteq Updates
  BY <1>1, MovedOn DEF CasesInv, States
<1>3. CasesTyped'
  BY <1>1, <1>2 DEF CasesInv, CasesTyped
<1>4. ListComes' /\ CaseComes'
  BY <1>1 DEF ListComes, CaseComes
<1>5. QED
  BY <1>3, <1>4 DEF CasesInv

LEMMA UpdateSucceedsKeeps ==
    ASSUME CasesInv, NEW u \in upserts, Case!UpdateSucceeds(u) PROVE CasesInv'
<1>1. /\ upserts' = upserts \ {u}
      /\ UNCHANGED <<stored, cached, cachedList, deletes, typing, heldBack, page, watched, made>>
      /\ Case!Invalidate(Case!ToInvalidate(u))
  BY DEF Case!UpdateSucceeds
<1>2. /\ Case!ToInvalidate(u) \in SUBSET Case!Queries /\ "list" \in Case!ToInvalidate(u)
      /\ u.case = Edited => "case" \in Case!ToInvalidate(u)
  BY DEF Case!ToInvalidate, Case!Queries
<1>3. /\ DOMAIN fetch' = Case!Queries
      /\ fetch'["case"] = IF "case" \in Case!ToInvalidate(u) /\ page = "editor" THEN Case!Asked ELSE fetch["case"]
      /\ fetch'["list"] = Case!Asked
  BY <1>1, <1>2, CasesAsked DEF CasesInv
<1>4. CasesTyped'
  BY <1>1, <1>3 DEF CasesInv, CasesTyped
<1>5. ListComes'
  BY <1>1, <1>3 DEF CasesInv, ListComes
<1>6. CaseComes'
  BY <1>1, <1>2, <1>3 DEF CasesInv, CaseComes
<1>7. QED
  BY <1>4, <1>5, <1>6 DEF CasesInv

LEMMA UpdateFailsKeeps ==
    ASSUME CasesInv, NEW u \in upserts, Case!UpdateFails(u) PROVE CasesInv'
<1>1. /\ u.state = "failed" /\ upserts' = upserts \ {u}
      /\ cached' \in {u.previousCase, cached} /\ cachedList' \in {u.previousList, cachedList}
      /\ UNCHANGED <<stored, fetch, deletes, typing, heldBack, page, watched, made>>
  BY DEF Case!UpdateFails
<1>2. u.previousCase \in SomeCase /\ u.previousList \in SomeList
  BY DEF CasesInv, CasesTyped, Updates
<1>3. CasesTyped'
  BY <1>1, <1>2 DEF CasesInv, CasesTyped
<1>4. made'["faults"] # 0
  BY <1>1 DEF CasesInv, ListComes
<1>5. ListComes' /\ CaseComes'
  BY <1>4 DEF ListComes, CaseComes
<1>6. QED
  BY <1>3, <1>5 DEF CasesInv

-----------------------------------------------------------------------------
(* The editor *)

\* What a field can be changed to.  The label that is there is not offered.
FieldValues(field) ==
    CASE field = "target" -> Case!Targets \ {Case!NoValue}
      [] field = "labels" -> (LabelSets \cup {Case!NoValue}) \ {Case!Shown.labels}
      [] field = "predicate" -> {"eq", "gt"}
      [] field = "split" -> Splits \cup {Case!NoValue}
Fields == {"target", "labels", "predicate", "split"}

LEMMA ShownIs ==
    ASSUME CasesInv
    PROVE  Case!Shown \in Case!Case /\ NotBoth(Case!Shown)
<1>1. CASE cached \in Case!Case
  <2>1. NotBoth(cached)
    BY <1>1, CaseFacts DEF CasesInv, CasesTyped, SomeCase
  <2>2. QED
    BY <1>1, <2>1 DEF Case!Shown
<1>2. CASE cached \notin Case!Case
  BY <1>2, CaseFacts DEF Case!Shown, Case!NewCase, NotBoth
<1>3. QED
  BY <1>1, <1>2

\* The case that an edit makes: never with both, and one of them if it is sent.
LEMMA UpdatedIs ==
    ASSUME Case!Assumptions, CasesInv, NEW field \in Fields, NEW value \in FieldValues(field)
    PROVE  LET c == Case!Updated(field, value)
           IN  c \in Case!Case /\ NotBoth(c) /\ (~Case!IsNewEmpty(c) => Case!OneKind(c))
<1> DEFINE base == IF cached \in Case!Case THEN Case!Cleared(field, value) ELSE Case!NewCase
           c == [base EXCEPT ![field] = value]
<1>1. Case!Shown \in Case!Case /\ NotBoth(Case!Shown) /\ Case!NewCase \in Case!Case
  BY ShownIs, CaseFacts
<1>2. cached \notin Case!Case => Case!Shown = Case!NewCase
  BY DEF Case!Shown
<1>3. Case!NoValue \notin LabelSets
  BY DEF Case!Assumptions
<1>4. Case!Updated(field, value) = c
  BY DEF Case!Updated
<1>5. CASE field = "target"
  <2>1. value \in Case!Targets /\ value # Case!NoValue
    BY <1>5 DEF FieldValues
  <2>2. base \in Case!Case /\ base.labels = Case!NoValue
    BY <1>1, <1>5 DEF Case!Cleared, Case!Case, Case!NewCase, Case!NoValue, Case!Shown
  <2>3. c \in Case!Case /\ c.labels = Case!NoValue /\ c.target = value
    BY <1>5, <2>1, <2>2 DEF Case!Case
  <2>4. QED
    BY <1>4, <2>1, <2>3 DEF NotBoth, Case!OneKind
<1>6. CASE field = "labels"
  <2>1. value \in LabelSets \cup {Case!NoValue} /\ value # Case!Shown.labels
    BY <1>6 DEF FieldValues
  <2>2. base \in Case!Case /\ base.target = Case!NoValue
    BY <1>1, <1>6 DEF Case!Cleared, Case!Case, Case!Targets, Case!NewCase, Case!NoValue, Case!Shown
  <2>3. c \in Case!Case /\ c.target = Case!NoValue /\ c.labels = value
    BY <1>6, <2>1, <2>2 DEF Case!Case
  <2>4. CASE value = Case!NoValue
    <3>1. Case!Shown.target = Case!NoValue
      BY <1>1, <2>1, <2>4 DEF NotBoth
    <3>2. Case!IsNewEmpty(c)
      BY <2>3, <2>4, <3>1 DEF Case!IsNewEmpty, Case!IsEmptyTarget
    <3>3. QED
      BY <1>4, <2>3, <3>2 DEF NotBoth
  <2>5. CASE value # Case!NoValue
    BY <1>4, <2>3, <2>5 DEF NotBoth, Case!OneKind
  <2>6. QED
    BY <2>4, <2>5
<1>7. CASE field \in {"predicate", "split"}
  <2>1. base = Case!Shown
    BY <1>2, <1>7 DEF Case!Cleared
  <2>2. /\ c \in Case!Case /\ c.target = Case!Shown.target /\ c.labels = Case!Shown.labels
    BY <1>1, <1>7, <2>1 DEF FieldValues, Case!Case
  <2>3. NotBoth(c)
    BY <1>1, <2>2 DEF NotBoth
  <2>4. ~Case!IsNewEmpty(c) => c.target # Case!NoValue \/ c.labels # Case!NoValue
    BY <2>2 DEF Case!IsNewEmpty, Case!IsEmptyTarget
  <2>5. QED
    BY <1>4, <2>2, <2>3, <2>4 DEF NotBoth, Case!OneKind
<1>8. QED
  BY <1>5, <1>6, <1>7 DEF Fields

LEMMA FieldChangeKeeps ==
    ASSUME Case!Assumptions, CasesInv, NEW field \in Fields, NEW value \in FieldValues(field),
           Case!FieldChange(field, value), typing' \in {Case!NoValue, "text"}
    PROVE  CasesInv'
<1> DEFINE c == Case!Updated(field, value)
<1>1. c \in Case!Case /\ NotBoth(c) /\ (~Case!IsNewEmpty(c) => c \in ProperCase)
  BY UpdatedIs DEF ProperCase
<1>2. page = "editor" /\ Case!Counted("edits", MaxEdits) /\ UNCHANGED <<stored, deletes, page, watched>>
  BY DEF Case!FieldChange
<1>3. CASE Case!IsNewEmpty(c)
  <2>1. cached' = c /\ heldBack' = TRUE /\ UNCHANGED <<cachedList, fetch, upserts>>
    BY <1>3 DEF Case!FieldChange
  <2>2. /\ made' \in [{"edits", "deletes", "faults"} -> Nat]
        /\ made'["faults"] = made["faults"] /\ made'["deletes"] = made["deletes"]
    BY <1>2 DEF Case!Counted, CasesInv, CasesTyped
  <2>3. cached' \in SomeCase
    BY <1>1, <2>1 DEF SomeCase
  <2>4. CasesTyped'
    BY <1>2, <2>1, <2>2, <2>3 DEF CasesInv, CasesTyped
  <2>5. ListComes' /\ CaseComes'
    BY <1>2, <2>1, <2>2 DEF CasesInv, ListComes, CaseComes
  <2>6. QED
    BY <2>4, <2>5 DEF CasesInv
<1>4. CASE ~Case!IsNewEmpty(c)
  <2> DEFINE new == [x \in {Edited} |-> c]
             before == [x \in {Edited} |-> {}]
  <2>1. Case!SendUpdates(new, before) /\ heldBack' = FALSE
    BY <1>4 DEF Case!FieldChange
  <2>2. new \in [{Edited} -> ProperCase] /\ before \in [{Edited} -> SUBSET {Edited}]
    BY <1>1, <1>4
  <2>3. {Edited} \in SUBSET Cases
    BY DEF Case!Assumptions
  <2> HIDE DEF new, before
  <2>4. QED
    BY <1>2, <2>1, <2>2, <2>3, SendUpdatesKeeps
<1>5. QED
  BY <1>3, <1>4

LEMMA EditorKeeps ==
    ASSUME Case!Assumptions, CasesInv,
           \/ \E v \in Case!Targets \ {Case!NoValue, "text"} : Case!ChooseTarget(v)
           \/ \E l \in LabelSets \cup {Case!NoValue} : Case!ChangeLabels(l)
           \/ \E s \in Splits \cup {Case!NoValue} : Case!ChooseSplit(s)
           \/ \E p \in {"eq", "gt"} : Case!ChoosePredicate(p)
           \/ Case!TypingPauses
    PROVE  CasesInv'
<1>1. typing \in {Case!NoValue, "text"}
  BY DEF CasesInv, CasesTyped
<1>2. ASSUME NEW v \in Case!Targets \ {Case!NoValue, "text"}, Case!ChooseTarget(v) PROVE CasesInv'
  BY <1>1, <1>2, FieldChangeKeeps DEF Case!ChooseTarget, Fields, FieldValues
<1>3. ASSUME NEW l \in LabelSets \cup {Case!NoValue}, Case!ChangeLabels(l) PROVE CasesInv'
  <2>1. "labels" \in Fields /\ l \in FieldValues("labels")
    BY <1>3 DEF Case!ChangeLabels, Fields, FieldValues
  <2>2. QED
    BY <1>1, <1>3, <2>1, FieldChangeKeeps DEF Case!ChangeLabels
<1>4. ASSUME NEW s \in Splits \cup {Case!NoValue}, Case!ChooseSplit(s) PROVE CasesInv'
  <2>1. "split" \in Fields /\ s \in FieldValues("split")
    BY DEF Fields, FieldValues
  <2>2. QED
    BY <1>1, <1>4, <2>1, FieldChangeKeeps DEF Case!ChooseSplit
<1>5. ASSUME NEW p \in {"eq", "gt"}, Case!ChoosePredicate(p) PROVE CasesInv'
  <2>1. "predicate" \in Fields /\ p \in FieldValues("predicate")
    BY DEF Fields, FieldValues
  <2>2. QED
    BY <1>1, <1>5, <2>1, FieldChangeKeeps DEF Case!ChoosePredicate
<1>6. CASE Case!TypingPauses
  <2>1. /\ typing = "text" /\ typing' = Case!NoValue /\ Case!FieldChange("target", typing)
    BY <1>1, <1>6 DEF Case!TypingPauses
  <2>2. "target" \in Fields /\ typing \in FieldValues("target")
    BY <2>1 DEF Fields, FieldValues, Case!Targets, Case!NoValue
  <2>3. QED
    BY <2>1, <2>2, FieldChangeKeeps
<1>7. QED
  BY <1>2, <1>3, <1>4, <1>5, <1>6

\* Typing, and leaving the editor while it is debounced.
LEMMA TypingKeeps ==
    ASSUME CasesInv, Case!TypeTarget \/ Case!LeaveEditor PROVE CasesInv'
<1>1. /\ typing' \in {Case!NoValue, "text"}
      /\ UNCHANGED <<stored, cached, cachedList, fetch, upserts, deletes, heldBack, page, watched, made>>
  BY DEF Case!TypeTarget, Case!LeaveEditor
<1>2. CasesTyped'
  BY <1>1 DEF CasesInv, CasesTyped
<1>3. ListComes' /\ CaseComes'
  BY <1>1 DEF CasesInv, ListComes, CaseComes
<1>4. QED
  BY <1>2, <1>3 DEF CasesInv

-----------------------------------------------------------------------------
(* Deletions *)

LEMMA DeleteKeeps ==
    ASSUME CasesInv, NEW ids \in SUBSET Cases, Case!Delete(ids)
    PROVE  CasesInv'
<1> DEFINE deletion(c) == [id |-> made["deletes"], by |-> page, case |-> c, state |-> "sent"]
<1>1. /\ Case!Counted("deletes", MaxDeletes)
      /\ deletes' = deletes \cup {deletion(c) : c \in ids}
      /\ UNCHANGED <<stored, cached, cachedList, fetch, upserts, typing, heldBack, page>>
  BY DEF Case!Delete
<1>2. /\ made' \in [{"edits", "deletes", "faults"} -> Nat] /\ made'["faults"] = made["faults"]
      /\ made["deletes"] \in Nat /\ made'["deletes"] = made["deletes"] + 1
  BY <1>1 DEF Case!Counted, CasesInv, CasesTyped
<1>3. made'["deletes"] # 0
  BY <1>2
<1>4. \A c \in ids : deletion(c) \in Deletions
  BY <1>2 DEF Deletions, States, CasesInv, CasesTyped
<1> HIDE DEF deletion
<1>5. CasesTyped'
  BY <1>1, <1>2, <1>4 DEF CasesInv, CasesTyped
<1>6. ListComes' /\ CaseComes'
  BY <1>1, <1>2, <1>3 DEF CasesInv, ListComes, CaseComes
<1>7. QED
  BY <1>5, <1>6 DEF CasesInv

\* A deletion goes on in another state.
LEMMA DeletionMovedOn ==
    ASSUME CasesTyped, NEW d \in deletes, NEW state \in States,
           deletes' = (deletes \ {d}) \cup {[d EXCEPT !.state = state]}
    PROVE  /\ deletes' \subseteq Deletions
           /\ (\E e \in deletes \ {d} : e.state = "done") \/ state = "done"
                => \E e \in deletes' : e.state = "done"
<1> DEFINE e == [d EXCEPT !.state = state]
<1>1. d \in Deletions
  BY DEF CasesTyped
<1>2. e \in Deletions /\ e.state = state
  BY <1>1 DEF Deletions
<1> HIDE DEF e
<1>3. deletes' = (deletes \ {d}) \cup {e}
  BY DEF e
<1>4. QED
  BY <1>2, <1>3 DEF CasesTyped

LEMMA ServerDeletesKeeps ==
    ASSUME CasesInv, NEW d \in deletes, Case!ServerDeletes(d) PROVE CasesInv'
<1> DEFINE state == IF stored[d.case] = Case!Absent THEN "failed" ELSE "done"
<1>1. /\ d.state = "sent" /\ deletes' = (deletes \ {d}) \cup {[d EXCEPT !.state = state]}
      /\ stored' = [stored EXCEPT ![d.case] = Case!Absent]
      /\ UNCHANGED <<cached, cachedList, fetch, upserts, typing, heldBack, page, watched, made>>
  BY DEF Case!ServerDeletes
<1>2. d.case \in Cases /\ stored \in Lists
  BY DEF CasesInv, CasesTyped, Deletions
<1>3. stored' \in Lists /\ (stored[d.case] = Case!Absent => stored' = stored)
  BY <1>1, <1>2 DEF Lists, ProperEntry
<1>4. state \in States
  BY DEF States
<1>5. /\ deletes' \subseteq Deletions
      /\ (\E e \in deletes \ {d} : e.state = "done") \/ state = "done"
            => \E e \in deletes' : e.state = "done"
  <2> HIDE DEF state
  <2>1. QED
    BY <1>1, <1>4, DeletionMovedOn DEF CasesInv
<1>6. CasesTyped'
  BY <1>1, <1>3, <1>5 DEF CasesInv, CasesTyped
<1>7. ListComes'
  BY <1>1, <1>3, <1>5 DEF CasesInv, ListComes
<1>8. CaseComes'
  BY <1>1 DEF CasesInv, CaseComes
<1>9. QED
  BY <1>6, <1>7, <1>8 DEF CasesInv

LEMMA DeleteLostKeeps ==
    ASSUME CasesInv, NEW d \in deletes, Case!DeleteLost(d) PROVE CasesInv'
<1>1. /\ deletes' = (deletes \ {d}) \cup {[d EXCEPT !.state = "failed"]}
      /\ UNCHANGED <<stored, cached, cachedList, fetch, upserts, typing, heldBack, page, watched>>
      /\ made' \in [{"edits", "deletes", "faults"} -> Nat] /\ made'["faults"] # 0
  BY FaultIs DEF Case!DeleteLost, CasesInv
<1>2. deletes' \subseteq Deletions
  BY <1>1, DeletionMovedOn DEF CasesInv, States
<1>3. CasesTyped'
  BY <1>1, <1>2 DEF CasesInv, CasesTyped
<1>4. ListComes' /\ CaseComes'
  BY <1>1 DEF ListComes, CaseComes
<1>5. QED
  BY <1>3, <1>4 DEF CasesInv

LEMMA DeletionsEndKeeps ==
    ASSUME CasesInv, NEW n, Case!DeletionsEnd(n) PROVE CasesInv'
<1> DEFINE call == {d \in deletes : d.id = n}
           succeeded == \E d \in call : d.state = "done"
<1>1. /\ call # {} /\ deletes' = deletes \ call
      /\ IF succeeded THEN Case!Invalidate({"list"}) ELSE UNCHANGED fetch
      /\ cached' \in {cached, Case!Absent} /\ heldBack' \in {heldBack, FALSE}
      /\ UNCHANGED <<stored, cachedList, upserts, typing, page, watched, made>>
  BY DEF Case!DeletionsEnd
<1>2. /\ DOMAIN fetch' = Case!Queries /\ fetch'["case"] = fetch["case"]
      /\ fetch'["list"] = IF succeeded THEN Case!Asked ELSE fetch["list"]
  <2>1. CASE succeeded
    <3>1. {"list"} \in SUBSET Case!Queries /\ Case!Invalidate({"list"})
      BY <1>1, <2>1 DEF Case!Queries
    <3>2. QED
      BY <2>1, <3>1, CasesAsked DEF CasesInv
  <2>2. CASE ~succeeded
    BY <1>1, <2>2 DEF CasesInv, CasesTyped
  <2>3. QED
    BY <2>1, <2>2
<1>3. CasesTyped'
  BY <1>1, <1>2 DEF CasesInv, CasesTyped, SomeCase
<1>4. ListComes'
  BY <1>1, <1>2 DEF CasesInv, ListComes
<1>5. CaseComes'
  BY <1>1 DEF CasesInv, CaseComes
<1>6. QED
  BY <1>3, <1>4, <1>5 DEF CasesInv

-----------------------------------------------------------------------------
(* The panel, and other windows *)

LEMMA PanelSplitsKeeps ==
    ASSUME CasesInv, NEW ids \in SUBSET Cases, NEW s \in Splits \cup {Case!NoValue},
           Case!PanelSplits(ids, s)
    PROVE  CasesInv'
<1> DEFINE new == [c \in ids |-> [cachedList[c] EXCEPT !.split = s]]
           before(turn) == [c \in ids |-> {d \in ids : turn[d] < turn[c]}]
<1>1. /\ page = "panel" /\ cachedList # Case!NoList /\ ids # {}
      /\ \A c \in ids : cachedList[c] # Case!Absent
      /\ Case!Counted("edits", MaxEdits)
      /\ UNCHANGED <<stored, deletes, typing, heldBack, page>>
      /\ \E turn : Case!SendUpdates(new, before(turn))
  BY DEF Case!PanelSplits
<1>2. PICK turn : Case!SendUpdates(new, before(turn))
  BY <1>1
<1>3. new \in [ids -> ProperCase]
  <2>1. SUFFICES ASSUME NEW c \in ids PROVE [cachedList[c] EXCEPT !.split = s] \in ProperCase
    OBVIOUS
  <2>2. cachedList[c] \in Case!Case /\ Case!OneKind(cachedList[c])
    BY <1>1 DEF CasesInv, CasesTyped, SomeList, Lists, ProperEntry, ProperCase
  <2> DEFINE d == [cachedList[c] EXCEPT !.split = s]
  <2>3. d \in Case!Case /\ d.target = cachedList[c].target /\ d.labels = cachedList[c].labels
    BY <2>2 DEF Case!Case
  <2>4. QED
    BY <2>2, <2>3 DEF ProperCase, Case!OneKind
<1>4. before(turn) \in [ids -> SUBSET ids]
  OBVIOUS
<1>5. typing' \in {Case!NoValue, "text"} /\ heldBack' \in BOOLEAN
  BY <1>1 DEF CasesInv, CasesTyped
<1> HIDE DEF new, before
<1>6. QED
  BY <1>1, <1>2, <1>3, <1>4, <1>5, SendUpdatesKeeps

LEMMA ForeignChangeKeeps ==
    ASSUME Case!Assumptions, CasesInv, NEW c \in Cases, Case!ForeignChange(c)
    PROVE  CasesInv'
<1>1. PICK f \in InitialCases : stored' = [stored EXCEPT ![c] = f[c]]
  BY DEF Case!ForeignChange
<1>2. /\ UNCHANGED <<cached, cachedList, fetch, upserts, deletes, typing, heldBack, page, watched>>
      /\ made' \in [{"edits", "deletes", "faults"} -> Nat] /\ made'["faults"] # 0
  BY FaultIs DEF Case!ForeignChange, CasesInv
<1>3. f[c] \in ProperEntry
  <2>1. f[c] \in Case!Entry
    BY DEF Case!Assumptions
  <2>2. f[c] # Case!Absent => Case!OneKind(f[c])
    BY DEF Case!Assumptions, Case!OneKind
  <2>3. QED
    BY <2>1, <2>2 DEF ProperEntry, ProperCase, Case!Entry
<1>4. stored' \in Lists
  BY <1>1, <1>3 DEF CasesInv, CasesTyped, Lists
<1>5. CasesTyped'
  BY <1>2, <1>4 DEF CasesInv, CasesTyped
<1>6. ListComes' /\ CaseComes'
  BY <1>2 DEF ListComes, CaseComes
<1>7. QED
  BY <1>5, <1>6 DEF CasesInv

LEMMA CasesNext ==
    ASSUME Case!Assumptions, CasesInv, [Case!Next]_(Case!vars) PROVE CasesInv'
<1>1. CASE Case!Answers
  <2>1. ASSUME NEW q \in Case!Queries, Case!ServerReads(q) PROVE CasesInv'
    BY <2>1, ServerReadsCaseKeeps
  <2>2. CASE Case!CaseArrives
    BY <2>2, CaseArrivesKeeps
  <2>3. CASE Case!ListArrives
    BY <2>3, ListArrivesKeeps
  <2>4. ASSUME NEW u \in upserts, Case!ServerUpserts(u) \/ Case!UpdateSucceeds(u) \/ Case!UpdateFails(u)
        PROVE  CasesInv'
    BY <2>4, ServerUpsertsKeeps, UpdateSucceedsKeeps, UpdateFailsKeeps
  <2>5. ASSUME NEW d \in deletes, Case!ServerDeletes(d) \/ Case!DeletionsEnd(d.id) PROVE CasesInv'
    BY <2>5, ServerDeletesKeeps, DeletionsEndKeeps
  <2>6. QED
    BY <1>1, <2>1, <2>2, <2>3, <2>4, <2>5 DEF Case!Answers
<1>2. CASE Case!User
  <2>1. CASE Case!TypeTarget \/ Case!LeaveEditor
    BY <2>1, TypingKeeps
  <2>2. CASE Case!EditorDeletes
    <3>1. Case!Delete({Edited}) /\ {Edited} \in SUBSET Cases
      BY <2>2 DEF Case!EditorDeletes, Case!Assumptions
    <3>2. QED
      BY <3>1, DeleteKeeps
  <2>3. ASSUME NEW ids \in SUBSET Cases, Case!PanelDeletes(ids) PROVE CasesInv'
    BY <2>3, DeleteKeeps DEF Case!PanelDeletes
  <2>4. ASSUME NEW ids \in SUBSET Cases, NEW s \in Splits \cup {Case!NoValue}, Case!PanelSplits(ids, s)
        PROVE  CasesInv'
    BY <2>4, PanelSplitsKeeps
  <2>5. CASE \/ \E v \in Case!Targets \ {Case!NoValue, "text"} : Case!ChooseTarget(v)
             \/ \E l \in LabelSets \cup {Case!NoValue} : Case!ChangeLabels(l)
             \/ \E s \in Splits \cup {Case!NoValue} : Case!ChooseSplit(s)
             \/ \E p \in {"eq", "gt"} : Case!ChoosePredicate(p)
             \/ Case!TypingPauses
    BY <2>5, EditorKeeps
  <2>6. QED
    BY <1>2, <2>1, <2>2, <2>3, <2>4, <2>5 DEF Case!User
<1>3. CASE Case!Faults
  BY <1>3, UpsertLostKeeps, DeleteLostKeeps, ForeignChangeKeeps DEF Case!Faults
<1>4. CASE UNCHANGED Case!vars
  BY <1>4 DEF Case!vars, CasesInv, CasesTyped, ListComes, CaseComes
<1>5. QED
  BY <1>1, <1>2, <1>3, <1>4 DEF Case!Next

LEMMA CasesHold == ASSUME Case!Assumptions PROVE Case!Spec => []CasesInv
<1>1. Case!Init => CasesInv
  BY CasesInit
<1>2. CasesInv /\ [Case!Next]_(Case!vars) => CasesInv'
  BY CasesNext
<1>3. QED
  BY <1>1, <1>2, PTL DEF Case!Spec

\* What the file, the caches and the requests of the two pages hold
\* (useValidations.ts): cases that are whole, and answers that are of their query.
THEOREM CasesTypes == ASSUME Case!Assumptions PROVE Case!Spec => []Case!TypeOK
<1>1. CasesInv => Case!TypeOK
  <2>1. SUFFICES ASSUME CasesInv PROVE Case!TypeOK
    OBVIOUS
  <2>2. /\ ProperCase \subseteq Case!Case /\ ProperEntry \subseteq Case!Entry
        /\ SomeCase \subseteq Case!Entry \cup {Case!NoData}
    BY DEF ProperEntry, ProperCase, SomeCase, Case!Entry
  <2>3. Lists \subseteq [Cases -> Case!Entry]
    BY <2>2 DEF Lists
  <2>4. Case!HasAnswer("case") => fetch["case"][2] \in Case!Entry
    <3>1. SUFFICES ASSUME Case!HasAnswer("case") PROVE fetch["case"][2] \in Case!Entry
      OBVIOUS
    <3>2. PICK e \in ProperEntry : fetch["case"] = Case!Answered(e)
      BY <2>1, <3>1 DEF CasesInv, CasesTyped, Case!HasAnswer
    <3>3. QED
      BY <2>2, <3>2, AnswerFacts
  <2>5. Case!HasAnswer("list") => fetch["list"][2] \in [Cases -> Case!Entry]
    <3>1. SUFFICES ASSUME Case!HasAnswer("list") PROVE fetch["list"][2] \in [Cases -> Case!Entry]
      OBVIOUS
    <3>2. PICK l \in Lists : fetch["list"] = Case!Answered(l)
      BY <2>1, <3>1 DEF CasesInv, CasesTyped, Case!HasAnswer
    <3>3. QED
      BY <2>3, <3>2, AnswerFacts
  <2>6. \A u \in upserts : u.case \in Cases /\ u.data \in Case!Case /\ u.state \in States
    BY <2>1, <2>2 DEF CasesInv, CasesTyped, Updates
  <2>7. \A d \in deletes : d.case \in Cases /\ d.state \in States
    BY <2>1 DEF CasesInv, CasesTyped, Deletions
  <2>8. /\ stored \in [Cases -> Case!Entry] /\ cached \in Case!Entry \cup {Case!NoData}
        /\ cachedList = Case!NoList \/ cachedList \in [Cases -> Case!Entry]
        /\ typing \in {Case!NoValue, "text"} /\ heldBack \in BOOLEAN /\ page \in {"editor", "panel"}
    BY <2>1, <2>2, <2>3 DEF CasesInv, CasesTyped, SomeList
  <2>9. QED
    BY <2>4, <2>5, <2>6, <2>7, <2>8 DEF Case!TypeOK, States
<1>2. QED
  BY <1>1, CasesHold, PTL

\* The server never has to refuse an update for its kind, whatever the editor and
\* the panel build from caches that are empty, old or rolled back
\* (handleFieldChange, ValidationCaseEditor.tsx).
THEOREM EditsHaveOneKind ==
    ASSUME Case!Assumptions PROVE Case!Spec => []Case!UpdatesHaveOneKind
<1>1. CasesInv => Case!UpdatesHaveOneKind
  BY DEF CasesInv, CasesTyped, Updates, ProperCase, Case!UpdatesHaveOneKind
<1>2. QED
  BY <1>1, CasesHold, PTL

\* Once every request is answered the panel shows the file (useValidations.ts).
THEOREM PanelConverges ==
    ASSUME Case!Assumptions PROVE Case!Spec => []Case!ListConverges
<1>1. CasesInv => Case!ListConverges
  <2>1. SUFFICES ASSUME CasesInv, Case!Settled, Case!Undisturbed PROVE cachedList = stored
    BY DEF Case!ListConverges
  <2>2. upserts = {} /\ deletes = {} /\ fetch["list"] = Case!Idle
    BY <2>1 DEF Case!Settled, Case!Queries
  <2>3. QED
    BY <2>1, <2>2, AnswerFacts DEF CasesInv, ListComes, Case!Undisturbed
<1>2. QED
  BY <1>1, CasesHold, PTL

\* The editor then shows its case as the file has it, if nothing was deleted and
\* nothing is held back (ValidationCaseEditor.tsx, useValidations.ts).
THEOREM EditorShowsFile ==
    ASSUME Case!Assumptions PROVE Case!Spec => []Case!EditorConverges
<1>1. CasesInv => Case!EditorConverges
  <2>1. SUFFICES ASSUME CasesInv, Case!Settled, Case!Undisturbed,
                        made["deletes"] = 0, page = "editor"
                 PROVE  heldBack \/ cached = stored[Edited]
    BY DEF Case!EditorConverges
  <2>2. upserts = {} /\ fetch["case"] = Case!Idle
    BY <2>1 DEF Case!Settled, Case!Queries
  <2>3. QED
    BY <2>1, <2>2, AnswerFacts DEF CasesInv, CaseComes, Case!Undisturbed
<1>2. QED
  BY <1>1, CasesHold, PTL

-----------------------------------------------------------------------------
(* The files of a project: the invariant *)

Names == CaseSets \cup {Set!None}
KnownSets == {Set!NoData} \cup {Set!Data(d) : d \in SUBSET CaseSets}
KnownCases == {Set!NoData} \cup {Set!Data(d) : d \in SUBSET Cases}
Changes == [op : {"delete", "rename"}, uri : CaseSets, new : Names, state : {"sent", "done", "failed"}]
Transfers == [op : {"copy", "move"}, from : CaseSets, to : CaseSets, ids : SUBSET Cases, visible : SUBSET Cases,
              state : {"creating", "copying", "deleting"}, left : SUBSET Cases,
              failed : SUBSET Cases, deleted : SUBSET Cases]
Counts == [{"changes", "transfers", "failures"} -> Nat]

FilesTyped ==
    /\ DOMAIN files \subseteq CaseSets /\ \A s \in DOMAIN files : files[s] \subseteq Cases
    /\ sets \in KnownSets
    /\ setsFetch \in {Set!Idle, Set!Asked} \cup {Set!Answer(d) : d \in SUBSET CaseSets}
    /\ list \in [CaseSets -> KnownCases]
    /\ listFetch \in [CaseSets -> {Set!Idle, Set!Asked} \cup {Set!Answer(d) : d \in SUBSET Cases}]
    /\ selected \in Names /\ ticked \subseteq Cases /\ filtering \in BOOLEAN
    /\ change \in Changes \cup {Set!Nothing} /\ transfer \in Transfers \cup {Set!Nothing}
    /\ gone \subseteq CaseSets /\ lost \subseteq Cases /\ count \in Counts

\* The page knows no file that never was one, and has asked for none.
Ever == DOMAIN files \cup gone
NamesKnown ==
    /\ sets # Set!NoData => sets.data \subseteq Ever
    /\ setsFetch.state = "answered" => setsFetch.data \subseteq Ever
    /\ selected # Set!None => selected \in Ever
    /\ \A s \in CaseSets \ Ever : list[s] = Set!NoData /\ listFetch[s] = Set!Idle
    /\ change # Set!Nothing /\ change.op = "rename" =>
         change.new \in CaseSets /\ (change.state = "done" => change.new \in Ever)

\* Nothing else changes the files while cases are copied or moved.  What was
\* copied is in the target, which is another file than the source.
Arrived == transfer.visible \ (transfer.failed \cup
             (IF transfer.state = "deleting" THEN {} ELSE transfer.left))
Transferring ==
    transfer # Set!Nothing =>
      /\ change = Set!Nothing /\ selected = transfer.from /\ transfer.to # transfer.from
      /\ transfer.visible \subseteq transfer.ids
      /\ transfer.state = "creating" => transfer.left = transfer.visible /\ transfer.failed = {}
      /\ transfer.state # "deleting" => transfer.left \subseteq transfer.visible \ transfer.failed /\ lost = {}
      /\ transfer.state = "deleting" => transfer.left \subseteq transfer.ids
      /\ Arrived # {} => transfer.to \in DOMAIN files /\ Arrived \subseteq files[transfer.to]
      /\ Set!FullMoveKeepsCases

\* The list of files is on its way to the page, or there.
SetsCome ==
    \/ setsFetch \in {Set!Asked, Set!Answer(DOMAIN files)}
    \/ setsFetch = Set!Idle /\ sets = Set!Data(DOMAIN files)
    \/ change # Set!Nothing /\ change.state = "done"

\* So are the cases of each file that no transfer has changed, if its name was
\* never another's, and those of the selected one are there or asked for.
Fresh(s) ==
    \/ listFetch[s] \in {Set!Asked, Set!Answer(files[s])}
    \/ listFetch[s] = Set!Idle /\ list[s] \in {Set!NoData, Set!Data(files[s])}
Touched(s) ==
    transfer # Set!Nothing /\
      \/ s = transfer.to /\ transfer.state = "copying" /\ Arrived # {}
      \/ s = transfer.from /\ transfer.state = "deleting" /\ transfer.deleted # {}
ListsFresh ==
    \A s \in DOMAIN files \ gone :
      /\ Fresh(s) \/ Touched(s)
      /\ s = selected => listFetch[s] # Set!Idle \/ list[s] # Set!NoData

SetsInv == FilesTyped /\ NamesKnown /\ Transferring /\ SetsCome /\ ListsFresh

LEMMA SetFacts ==
    /\ Set!NoData.known = FALSE /\ Set!Idle # Set!Asked
    /\ Set!Idle.state # "answered" /\ Set!Asked.state # "answered"
    /\ Set!Nothing \notin Changes /\ Set!Nothing \notin Transfers /\ Set!None \notin Nat \ {Set!None}
    /\ \A d : /\ Set!Data(d).known = TRUE /\ Set!Data(d).data = d /\ Set!Data(d) # Set!NoData
              /\ Set!Answer(d).state = "answered" /\ Set!Answer(d).data = d
              /\ Set!Answer(d) \notin {Set!Idle, Set!Asked}
<1>1. /\ Set!NoData.known = FALSE /\ Set!Idle.state = "idle" /\ Set!Asked.state = "asked"
      /\ Set!Nothing.op = "none"
  BY DEF Set!NoData, Set!Idle, Set!Asked, Set!Nothing
<1>2. \A d : /\ Set!Data(d).known = TRUE /\ Set!Data(d).data = d
             /\ Set!Answer(d).state = "answered" /\ Set!Answer(d).data = d
  BY DEF Set!Data, Set!Answer
<1>3. \A d : Set!Data(d) # Set!NoData /\ Set!Answer(d) \notin {Set!Idle, Set!Asked}
  BY <1>1, <1>2
<1>4. (\A c \in Changes : c.op # "none") /\ (\A t \in Transfers : t.op # "none")
  BY DEF Changes, Transfers
<1>5. QED
  BY <1>1, <1>2, <1>3, <1>4

LEMMA MinIs ==
    ASSUME Set!Assumptions, NEW S \in SUBSET CaseSets, S # {}
    PROVE  Set!Min(S) \in S
<1>1. S \in SUBSET Nat
  BY DEF Set!Assumptions
<1>2. \E m \in S : \A n \in S : m <= n
  BY <1>1, LeastNatural
<1>3. QED
  BY <1>2 DEF Set!Min

LEMMA SetsInit == ASSUME Set!Assumptions, Set!Init PROVE SetsInv
<1>1. DOMAIN files \subseteq CaseSets /\ \A s \in DOMAIN files : files[s] \subseteq Cases
  BY DEF Set!Init, Set!Assumptions
<1>2. /\ sets = Set!NoData /\ setsFetch = Set!Asked
      /\ list = [s \in CaseSets |-> Set!NoData] /\ listFetch = [s \in CaseSets |-> Set!Idle]
      /\ selected = Set!None /\ ticked = {} /\ filtering = FALSE
      /\ change = Set!Nothing /\ transfer = Set!Nothing /\ gone = {} /\ lost = {}
      /\ count = [changes |-> 0, transfers |-> 0, failures |-> 0]
  BY DEF Set!Init
<1>3. count \in Counts
  BY <1>2 DEF Counts
<1>4. FilesTyped
  BY <1>1, <1>2, <1>3 DEF FilesTyped, KnownSets, KnownCases, Names
<1>5. NamesKnown /\ Transferring /\ SetsCome
  BY <1>2, SetFacts DEF NamesKnown, Transferring, SetsCome
<1>6. ListsFresh
  <2>1. ASSUME NEW s \in DOMAIN files \ gone PROVE Fresh(s) /\ s # selected
    <3>1. s \in CaseSets /\ s # Set!None
      BY <1>1 DEF Set!Assumptions
    <3>2. QED
      BY <1>2, <3>1 DEF Fresh
  <2>2. QED
    BY <2>1 DEF ListsFresh
<1>7. QED
  BY <1>4, <1>5, <1>6 DEF SetsInv

-----------------------------------------------------------------------------
(* Queries *)

LEMMA ServerListsSetsKeeps == ASSUME SetsInv, Set!ServerListsSets PROVE SetsInv'
<1>1. /\ setsFetch' = Set!Answer(DOMAIN files)
      /\ UNCHANGED <<files, sets, list, listFetch, selected, ticked, filtering,
                     change, transfer, lost, count, gone>>
  BY DEF Set!ServerListsSets
<1>2. FilesTyped'
  BY <1>1 DEF SetsInv, FilesTyped
<1>3. NamesKnown'
  BY <1>1, SetFacts DEF SetsInv, NamesKnown, Ever
<1>4. Transferring' /\ ListsFresh'
  BY <1>1 DEF SetsInv, Transferring, Arrived, Set!FullMoveKeepsCases, ListsFresh, Fresh, Touched
<1>5. SetsCome'
  BY <1>1 DEF SetsCome
<1>6. QED
  BY <1>2, <1>3, <1>4, <1>5 DEF SetsInv

\* Selecting a file asks for its cases unless they are there or asked for.
LEMMA SelectIs ==
    ASSUME Set!Assumptions, SetsInv, NEW uri \in Ever \cup {Set!None}, NEW known \in KnownSets,
           known # Set!NoData => known.data \subseteq Ever, Set!Select(uri, known, listFetch)
    PROVE  /\ selected' \in Ever \cup {Set!None} /\ ticked' = {}
           /\ listFetch' = [s \in CaseSets |->
                IF s = selected' /\ list[s] = Set!NoData /\ listFetch[s] = Set!Idle
                THEN Set!Asked ELSE listFetch[s]]
<1>1. /\ selected' = Set!AutoSelected(uri, known) /\ ticked' = {}
      /\ listFetch' = Set!FetchFor(selected', listFetch)
  BY DEF Set!Select
<1>2. selected' \in Ever \cup {Set!None}
  <2>1. CASE uri = Set!None /\ known.known /\ known.data # {}
    <3>1. known # Set!NoData /\ known.data \in SUBSET CaseSets
      BY <2>1, SetFacts DEF KnownSets
    <3>2. Set!Min(known.data) \in known.data
      BY <2>1, <3>1, MinIs
    <3>3. QED
      BY <1>1, <2>1, <3>1, <3>2 DEF Set!AutoSelected
  <2>2. CASE ~(uri = Set!None /\ known.known /\ known.data # {})
    BY <1>1, <2>2 DEF Set!AutoSelected
  <2>3. QED
    BY <2>1, <2>2
<1>3. Ever \subseteq CaseSets /\ Set!None \notin CaseSets
  BY DEF SetsInv, FilesTyped, Ever, Set!Assumptions
<1>4. DOMAIN listFetch = CaseSets /\ listFetch = [s \in CaseSets |-> listFetch[s]]
  BY DEF SetsInv, FilesTyped
<1>5. \A s \in CaseSets : list[s].known = (list[s] # Set!NoData)
  <2>1. \A k \in KnownCases : k.known = (k # Set!NoData)
    BY SetFacts DEF KnownCases
  <2>2. QED
    BY <2>1 DEF SetsInv, FilesTyped
<1>6. CASE selected' = Set!None
  BY <1>1, <1>2, <1>3, <1>4, <1>6 DEF Set!FetchFor
<1>7. CASE selected' # Set!None
  <2>1. selected' \in CaseSets
    BY <1>2, <1>3, <1>7
  <2>2. CASE list[selected'] = Set!NoData /\ listFetch[selected'] = Set!Idle
    <3>1. listFetch' = [listFetch EXCEPT ![selected'] = Set!Asked]
      BY <1>1, <1>5, <1>7, <2>1, <2>2 DEF Set!FetchFor
    <3>2. QED
      BY <1>1, <1>2, <1>4, <2>1, <2>2, <3>1
  <2>3. CASE ~(list[selected'] = Set!NoData /\ listFetch[selected'] = Set!Idle)
    <3>1. listFetch' = listFetch
      BY <1>1, <1>5, <2>1, <2>3 DEF Set!FetchFor
    <3>2. QED
      BY <1>1, <1>2, <1>4, <2>3, <3>1
  <2>4. QED
    BY <2>2, <2>3
<1>8. QED
  BY <1>6, <1>7

LEMMA SelectKeeps ==
    ASSUME Set!Assumptions, SetsInv, NEW uri \in Ever \cup {Set!None}, NEW known \in KnownSets,
           known # Set!NoData => known.data \subseteq Ever, Set!Select(uri, known, listFetch),
           transfer = Set!Nothing, UNCHANGED <<files, list, transfer, lost, count, gone>>,
           filtering' \in BOOLEAN, sets' \in {sets, known}, change' \in {change, Set!Nothing},
           setsFetch' \in {setsFetch, Set!Idle, Set!Asked}, SetsCome'
    PROVE  SetsInv'
<1>1. /\ selected' \in Ever \cup {Set!None} /\ ticked' = {}
      /\ listFetch' = [s \in CaseSets |->
           IF s = selected' /\ list[s] = Set!NoData /\ listFetch[s] = Set!Idle
           THEN Set!Asked ELSE listFetch[s]]
  BY SelectIs
<1>2. Ever \subseteq CaseSets /\ Ever' = Ever
  BY DEF SetsInv, FilesTyped, Ever
<1>3. FilesTyped'
  BY <1>1, <1>2 DEF SetsInv, FilesTyped, Names
<1>4. NamesKnown'
  <2>1. /\ sets' # Set!NoData => sets'.data \subseteq Ever
        /\ setsFetch'.state = "answered" => setsFetch'.data \subseteq Ever
    BY SetFacts DEF SetsInv, NamesKnown
  <2>2. \A s \in CaseSets \ Ever : list[s] = Set!NoData /\ listFetch'[s] = Set!Idle
    <3>1. ASSUME NEW s \in CaseSets \ Ever PROVE s # selected'
      BY <1>1 DEF Set!Assumptions
    <3>2. QED
      BY <1>1, <3>1 DEF SetsInv, NamesKnown
  <2>3. change' # Set!Nothing => change' = change
    OBVIOUS
  <2>4. QED
    BY <1>1, <1>2, <2>1, <2>2, <2>3 DEF SetsInv, NamesKnown
<1>5. Transferring'
  BY DEF Transferring
<1>6. ListsFresh'
  <2>1. SUFFICES ASSUME NEW s \in DOMAIN files \ gone
                 PROVE  Fresh(s)' /\ (s = selected' => listFetch'[s] # Set!Idle \/ list'[s] # Set!NoData)
    BY DEF ListsFresh
  <2>2. Fresh(s) /\ s \in CaseSets
    BY <1>2 DEF SetsInv, ListsFresh, Touched, Ever
  <2>3. QED
    BY <1>1, <2>2, SetFacts DEF Fresh
<1>7. QED
  BY <1>3, <1>4, <1>5, <1>6 DEF SetsInv

LEMMA SetsArriveKeeps == ASSUME Set!Assumptions, SetsInv, Set!SetsArrive PROVE SetsInv'
<1>1. PICK d \in SUBSET CaseSets : setsFetch = Set!Answer(d)
  BY SetFacts DEF SetsInv, FilesTyped, Set!SetsArrive
<1>2. /\ sets' = Set!Data(d) /\ setsFetch' = Set!Idle /\ d \subseteq Ever
      /\ UNCHANGED <<files, list, filtering, change, transfer, lost, count, gone>>
  BY <1>1, SetFacts DEF SetsInv, NamesKnown, Set!SetsArrive
<1>3. SetsCome'
  BY <1>1, <1>2, SetFacts DEF SetsInv, SetsCome
<1>4. sets' \in KnownSets /\ sets'.data \subseteq Ever
  BY <1>2, SetFacts DEF KnownSets
<1>5. CASE selected = Set!None
  <2>1. Set!Select(Set!None, sets', listFetch)
    BY <1>5 DEF Set!SetsArrive
  <2>2. transfer = Set!Nothing
    BY <1>5 DEF SetsInv, Transferring, FilesTyped, Transfers, Set!Assumptions
  <2>3. filtering' \in BOOLEAN
    BY <1>2 DEF SetsInv, FilesTyped
  <2>4. QED
    BY <1>2, <1>3, <1>4, <2>1, <2>2, <2>3, SelectKeeps
<1>6. CASE selected # Set!None
  <2>1. UNCHANGED <<selected, ticked, listFetch>>
    BY <1>6 DEF Set!SetsArrive
  <2>2. FilesTyped' /\ NamesKnown'
    BY <1>2, <1>4, <2>1, SetFacts DEF SetsInv, FilesTyped, NamesKnown, Ever
  <2>3. Transferring' /\ ListsFresh'
    BY <1>2, <2>1 DEF SetsInv, Transferring, Arrived, Set!FullMoveKeepsCases, ListsFresh, Fresh, Touched
  <2>4. QED
    BY <1>3, <2>2, <2>3 DEF SetsInv
<1>7. QED
  BY <1>5, <1>6

LEMMA ServerListsCasesKeeps ==
    ASSUME SetsInv, NEW s \in CaseSets, Set!ServerListsCases(s) PROVE SetsInv'
<1>1. /\ listFetch[s] = Set!Asked
      /\ listFetch' = [listFetch EXCEPT ![s] = IF s \in DOMAIN files THEN Set!Answer(files[s]) ELSE Set!Idle]
      /\ UNCHANGED <<files, sets, setsFetch, list, selected, ticked, filtering,
                     change, transfer, lost, count, gone>>
  BY DEF Set!ServerListsCases
<1>2. FilesTyped'
  BY <1>1 DEF SetsInv, FilesTyped
<1>3. NamesKnown'
  BY <1>1, <1>2, SetFacts DEF SetsInv, FilesTyped, NamesKnown, Ever
<1>4. Transferring' /\ SetsCome'
  BY <1>1 DEF SetsInv, Transferring, Arrived, Set!FullMoveKeepsCases, SetsCome
<1>5. ListsFresh'
  BY <1>1, SetFacts DEF SetsInv, FilesTyped, ListsFresh, Fresh, Touched, Arrived
<1>6. QED
  BY <1>2, <1>3, <1>4, <1>5 DEF SetsInv

LEMMA CasesArriveKeeps ==
    ASSUME SetsInv, NEW s \in CaseSets, Set!CasesArrive(s) PROVE SetsInv'
<1>1. PICK d \in SUBSET Cases : listFetch[s] = Set!Answer(d)
  BY SetFacts DEF SetsInv, FilesTyped, Set!CasesArrive
<1>2. /\ list' = [list EXCEPT ![s] = Set!Data(d)] /\ listFetch' = [listFetch EXCEPT ![s] = Set!Idle]
      /\ UNCHANGED <<files, sets, setsFetch, selected, ticked, filtering, change,
                     transfer, lost, count, gone>>
  BY <1>1, SetFacts DEF Set!CasesArrive
<1>3. FilesTyped'
  BY <1>2 DEF SetsInv, FilesTyped, KnownCases
<1>4. s \in Ever
  BY <1>1, SetFacts DEF SetsInv, NamesKnown
<1>5. NamesKnown'
  BY <1>2, <1>4 DEF SetsInv, FilesTyped, NamesKnown, Ever
<1>6. Transferring' /\ SetsCome'
  BY <1>2 DEF SetsInv, Transferring, Arrived, Set!FullMoveKeepsCases, SetsCome
<1>7. ListsFresh'
  <2>1. SUFFICES ASSUME NEW r \in DOMAIN files \ gone
                 PROVE  /\ Fresh(r)' \/ Touched(r)
                        /\ r = selected => listFetch'[r] # Set!Idle \/ list'[r] # Set!NoData
    BY <1>2 DEF ListsFresh, Touched, Arrived
  <2>2. /\ Fresh(r) \/ Touched(r)
        /\ r \in CaseSets
        /\ r = selected => listFetch[r] # Set!Idle \/ list[r] # Set!NoData
    BY DEF SetsInv, ListsFresh, FilesTyped
  <2>3. CASE r = s
    <3>1. list'[r] = Set!Data(d) /\ listFetch'[r] = Set!Idle
      BY <1>2, <2>3 DEF SetsInv, FilesTyped
    <3>2. Fresh(r) => d = files[r]
      BY <1>1, <2>3, SetFacts DEF Fresh
    <3>3. QED
      BY <1>2, <2>2, <3>1, <3>2, SetFacts DEF Fresh
  <2>4. CASE r # s
    BY <1>2, <2>2, <2>4 DEF Fresh, SetsInv, FilesTyped
  <2>5. QED
    BY <2>3, <2>4
<1>8. QED
  BY <1>3, <1>5, <1>6, <1>7 DEF SetsInv

-----------------------------------------------------------------------------
(* Selecting *)

LEMMA SelectSetKeeps ==
    ASSUME Set!Assumptions, SetsInv, NEW uri \in CaseSets, Set!SelectSet(uri) PROVE SetsInv'
<1>1. /\ transfer = Set!Nothing /\ sets.known /\ uri \in sets.data /\ filtering' = FALSE
      /\ Set!Select(uri, sets, listFetch)
      /\ UNCHANGED <<files, sets, setsFetch, list, change, transfer, lost, count, gone>>
  BY DEF Set!SelectSet, Set!Free
<1>2. sets \in KnownSets /\ sets # Set!NoData /\ sets.data \subseteq Ever
  BY <1>1, SetFacts DEF SetsInv, FilesTyped, NamesKnown
<1>3. SetsCome'
  BY <1>1 DEF SetsInv, SetsCome
<1>4. QED
  BY <1>1, <1>2, <1>3, SelectKeeps

\* Ticking and filtering concern the page only.
LEMMA TickingKeeps ==
    ASSUME SetsInv, (\E c \in Cases : Set!Tick(c)) \/ Set!TickAll \/ Set!Filter PROVE SetsInv'
<1>1. UNCHANGED <<files, sets, setsFetch, list, listFetch, selected, change, transfer, lost, count, gone>>
  BY DEF Set!Tick, Set!TickAll, Set!Filter
<1>2. Set!Visible(selected) \subseteq Cases \/ selected = Set!None
  <2>1. ASSUME selected # Set!None PROVE Set!Visible(selected) \subseteq Cases
    <3>1. list[selected] \in KnownCases
      BY <2>1 DEF SetsInv, FilesTyped, Names
    <3>2. list[selected].known => list[selected].data \subseteq Cases
      BY <3>1, SetFacts DEF KnownCases
    <3>3. QED
      BY <3>2 DEF Set!Visible
  <2>2. QED
    BY <2>1
<1>3. ticked' \subseteq Cases /\ filtering' \in BOOLEAN
  BY <1>2 DEF SetsInv, FilesTyped, Set!Tick, Set!TickAll, Set!Filter
<1>4. FilesTyped' /\ NamesKnown'
  BY <1>1, <1>3 DEF SetsInv, FilesTyped, NamesKnown, Ever
<1>5. Transferring' /\ SetsCome' /\ ListsFresh'
  BY <1>1 DEF SetsInv, Transferring, Arrived, Set!FullMoveKeepsCases, SetsCome, ListsFresh, Fresh, Touched
<1>6. QED
  BY <1>4, <1>5 DEF SetsInv

-----------------------------------------------------------------------------
(* Deleting and renaming a file *)

LEMMA BeginKeeps ==
    ASSUME Set!Assumptions, SetsInv, Set!DeleteSet \/ \E s \in CaseSets : Set!RenameSet(s)
    PROVE  SetsInv'
<1>1. PICK op \in {"delete", "rename"}, new \in Names :
        Set!Begin(op, new) /\ (op = "rename" => new \in CaseSets)
  BY DEF Set!DeleteSet, Set!RenameSet, Names
<1>2. /\ transfer = Set!Nothing /\ selected # Set!None
      /\ Set!Counted("changes", MaxSetChanges)
      /\ change' = [op |-> op, uri |-> selected, new |-> new, state |-> "sent"]
      /\ change = Set!Nothing
      /\ UNCHANGED <<files, sets, setsFetch, list, listFetch, selected, ticked,
                     filtering, transfer, lost, gone>>
  BY <1>1 DEF Set!Begin, Set!Free
<1>3. /\ change' \in Changes /\ change'.op = op /\ change'.new = new /\ change'.state = "sent"
  BY <1>2 DEF SetsInv, FilesTyped, Names, Changes
<1>4. count' \in Counts
  BY <1>2 DEF Set!Counted, SetsInv, FilesTyped, Counts
<1>5. FilesTyped' /\ NamesKnown'
  BY <1>1, <1>2, <1>3, <1>4 DEF SetsInv, FilesTyped, NamesKnown, Ever
<1>6. SetsCome'
  BY <1>2 DEF SetsInv, SetsCome
<1>7. Transferring' /\ ListsFresh'
  BY <1>2 DEF SetsInv, Transferring, ListsFresh, Fresh, Touched
<1>8. QED
  BY <1>5, <1>6, <1>7 DEF SetsInv

\* While a file is deleted or renamed no cases are copied or moved.
LEMMA ChangeIs ==
    ASSUME SetsInv, change # Set!Nothing
    PROVE  change \in Changes /\ transfer = Set!Nothing
BY DEF SetsInv, FilesTyped, Transferring

LEMMA ServerChangesKeeps == ASSUME Set!Assumptions, SetsInv, Set!ServerChanges PROVE SetsInv'
<1> DEFINE refused == \/ change.uri \notin DOMAIN files
                      \/ change.op = "rename" /\ change.new \in DOMAIN files
           others == DOMAIN files \ {change.uri}
<1>1. /\ change # Set!Nothing /\ change.state = "sent"
      /\ change' = [change EXCEPT !.state = IF refused THEN "failed" ELSE "done"]
      /\ files' = IF refused THEN files
                  ELSE IF change.op = "delete" THEN [s \in others |-> files[s]]
                  ELSE [s \in others \cup {change.new} |->
                          IF s = change.new THEN files[change.uri] ELSE files[s]]
      /\ gone' = IF refused THEN gone ELSE gone \cup {change.uri}
      /\ UNCHANGED <<sets, setsFetch, list, listFetch, selected, ticked,
                     filtering, transfer, lost, count>>
  BY DEF Set!ServerChanges
<1>2. change \in Changes /\ transfer = Set!Nothing
  BY <1>1, ChangeIs
<1>3. /\ change' \in Changes /\ change' # Set!Nothing /\ change'.op = change.op /\ change'.new = change.new
      /\ change'.uri = change.uri /\ change'.state = IF refused THEN "failed" ELSE "done"
  <2>1. change' \in Changes /\ change'.op = change.op /\ change'.new = change.new
        /\ change'.uri = change.uri /\ change'.state = IF refused THEN "failed" ELSE "done"
    BY <1>1, <1>2 DEF Changes
  <2>2. QED
    BY <2>1, SetFacts
<1>4. CASE refused
  <2>1. UNCHANGED <<files, gone>>
    BY <1>1, <1>4
  <2>2. FilesTyped' /\ NamesKnown'
    BY <1>1, <1>3, <1>4, <2>1 DEF SetsInv, FilesTyped, NamesKnown, Ever
  <2>3. SetsCome'
    BY <1>1, <2>1 DEF SetsInv, SetsCome
  <2>4. Transferring' /\ ListsFresh'
    BY <1>1, <1>2, <2>1 DEF SetsInv, Transferring, ListsFresh, Fresh, Touched
  <2>5. QED
    BY <2>2, <2>3, <2>4 DEF SetsInv
<1>5. CASE ~refused
  <2>1. change.uri \in DOMAIN files /\ gone' = gone \cup {change.uri} /\ change'.state = "done"
    BY <1>1, <1>3, <1>5
  <2>2. change.op = "rename" => change.new \in CaseSets \ DOMAIN files
    BY <1>1, <1>2, <1>5 DEF SetsInv, NamesKnown
  <2>3. change.op \in {"delete", "rename"}
    BY <1>2 DEF Changes
  <2>4. /\ DOMAIN files' = others \cup (IF change.op = "delete" THEN {} ELSE {change.new})
        /\ \A s \in others : files'[s] = files[s]
        /\ change.op = "rename" => files'[change.new] = files[change.uri]
    <3>1. CASE change.op = "delete"
      <4>1. files' = [s \in others |-> files[s]]
        BY <1>1, <1>5, <3>1
      <4>2. QED
        BY <3>1, <4>1
    <3>2. CASE change.op = "rename"
      <4>1. files' = [s \in others \cup {change.new} |->
                        IF s = change.new THEN files[change.uri] ELSE files[s]]
        BY <1>1, <1>5, <3>2
      <4>2. QED
        BY <2>2, <3>2, <4>1
    <3>3. QED
      BY <2>3, <3>1, <3>2
  <2> HIDE DEF refused
  <2>5. FilesTyped'
    <3>1. DOMAIN files' \subseteq CaseSets /\ \A s \in DOMAIN files' : files'[s] \subseteq Cases
      BY <2>1, <2>2, <2>3, <2>4 DEF SetsInv, FilesTyped
    <3>2. gone' \subseteq CaseSets
      BY <2>1 DEF SetsInv, FilesTyped
    <3>3. QED
      BY <1>1, <1>3, <3>1, <3>2 DEF SetsInv, FilesTyped
  <2>6. Ever' = Ever \cup (IF change.op = "delete" THEN {} ELSE {change.new})
    BY <2>1, <2>4 DEF Ever
  <2>7. NamesKnown'
    BY <1>1, <1>3, <2>2, <2>3, <2>6 DEF SetsInv, NamesKnown
  <2>8. SetsCome'
    BY <1>3, <2>1 DEF SetsCome
  <2>9. ListsFresh'
    <3>1. SUFFICES ASSUME NEW s \in DOMAIN files' \ gone'
                   PROVE  Fresh(s)' /\ (s = selected => listFetch[s] # Set!Idle \/ list[s] # Set!NoData)
      BY <1>1 DEF ListsFresh
    <3>2. CASE s \in others
      BY <1>1, <1>2, <2>1, <2>4, <3>1, <3>2 DEF SetsInv, ListsFresh, Fresh, Touched
    <3>3. CASE s \notin others
      <4>1. s = change.new /\ change.op = "rename"
        BY <2>3, <2>4, <3>1, <3>3
      <4>2. s \in CaseSets \ Ever /\ s # Set!None
        BY <2>1, <2>2, <3>1, <4>1 DEF Ever, Set!Assumptions
      <4>3. list[s] = Set!NoData /\ listFetch[s] = Set!Idle /\ s # selected
        BY <4>2 DEF SetsInv, NamesKnown
      <4>4. QED
        BY <1>1, <4>3 DEF Fresh
    <3>4. QED
      BY <3>2, <3>3
  <2>10. Transferring'
    BY <1>1, <1>2 DEF Transferring
  <2>11. QED
    BY <2>5, <2>7, <2>8, <2>9, <2>10 DEF SetsInv
<1>6. QED
  BY <1>4, <1>5

LEMMA ChangeSucceedsKeeps == ASSUME Set!Assumptions, SetsInv, Set!ChangeSucceeds PROVE SetsInv'
<1>1. /\ change # Set!Nothing /\ change.state = "done" /\ change' = Set!Nothing /\ setsFetch' = Set!Asked
      /\ UNCHANGED <<files, sets, list, transfer, lost, count, gone>>
  BY DEF Set!ChangeSucceeds
<1>2. change \in Changes /\ transfer = Set!Nothing
  BY <1>1, ChangeIs
<1>3. sets \in KnownSets /\ (sets # Set!NoData => sets.data \subseteq Ever)
  BY DEF SetsInv, FilesTyped, NamesKnown
<1>4. SetsCome'
  BY <1>1 DEF SetsCome
<1>5. CASE change.op = "delete"
  <2>1. Set!Select(Set!None, sets, listFetch) /\ filtering' = FALSE
    BY <1>5 DEF Set!ChangeSucceeds
  <2>2. QED
    BY <1>1, <1>2, <1>3, <1>4, <2>1, SelectKeeps
<1>6. CASE change.op = "rename"
  <2>1. Set!Select(change.new, sets, listFetch) /\ UNCHANGED filtering
    BY <1>6 DEF Set!ChangeSucceeds
  <2>2. change.new \in Ever /\ filtering \in BOOLEAN
    BY <1>1, <1>6 DEF SetsInv, NamesKnown, FilesTyped
  <2>3. QED
    BY <1>1, <1>2, <1>3, <1>4, <2>1, <2>2, SelectKeeps
<1>7. QED
  BY <1>2, <1>5, <1>6 DEF Changes

LEMMA ChangeFailsKeeps == ASSUME SetsInv, Set!ChangeFails PROVE SetsInv'
<1>1. /\ change # Set!Nothing /\ change.state = "failed" /\ change' = Set!Nothing
      /\ UNCHANGED <<files, sets, setsFetch, list, listFetch, selected, ticked,
                     filtering, transfer, lost, count, gone>>
  BY DEF Set!ChangeFails
<1>2. FilesTyped' /\ NamesKnown'
  BY <1>1 DEF SetsInv, FilesTyped, NamesKnown, Ever
<1>3. SetsCome' /\ Transferring' /\ ListsFresh'
  BY <1>1, ChangeIs DEF SetsInv, SetsCome, Transferring, ListsFresh, Fresh, Touched
<1>4. QED
  BY <1>2, <1>3 DEF SetsInv

-----------------------------------------------------------------------------
(* Copying and moving cases *)

\* What is known while cases are copied or moved.
LEMMA TransferIs ==
    ASSUME SetsInv, transfer # Set!Nothing
    PROVE  /\ transfer \in Transfers /\ change = Set!Nothing
           /\ selected = transfer.from /\ transfer.from \in CaseSets
           /\ transfer.to \in CaseSets /\ transfer.to # transfer.from
BY DEF SetsInv, FilesTyped, Transferring, Transfers

\* A transfer that ends leaves nothing to keep but the lists.
LEMMA NoTransfer == ASSUME transfer' = Set!Nothing PROVE Transferring' /\ \A s : ~Touched(s)'
BY DEF Transferring, Touched

LEMMA SubmitKeeps ==
    ASSUME Set!Assumptions, SetsInv, NEW op \in {"copy", "move"}, NEW to \in CaseSets, Set!Submit(op, to)
    PROVE  SetsInv'
<1> DEFINE state == IF to \in sets.data THEN "copying" ELSE "creating"
<1>1. /\ change = Set!Nothing /\ selected # Set!None /\ to # selected
      /\ Set!Counted("transfers", MaxTransfers)
      /\ transfer' = [op |-> op, from |-> selected, to |-> to, ids |-> ticked,
                      visible |-> Set!VisibleTicked, state |-> state,
                      left |-> Set!VisibleTicked, failed |-> {}, deleted |-> {}]
      /\ lost' = {} /\ transfer = Set!Nothing
      /\ UNCHANGED <<files, sets, setsFetch, list, listFetch, selected, ticked,
                     filtering, change, gone>>
  BY DEF Set!Submit, Set!Free
<1>2. Set!VisibleTicked \subseteq ticked /\ ticked \subseteq Cases /\ selected \in CaseSets
  BY <1>1 DEF Set!VisibleTicked, SetsInv, FilesTyped, Names
<1>3. count' \in Counts
  BY <1>1 DEF Set!Counted, SetsInv, FilesTyped, Counts
<1>4. state \in {"copying", "creating"}
  OBVIOUS
<1> HIDE DEF state
<1>5. /\ transfer' \in Transfers /\ transfer'.from = selected /\ transfer'.to = to
      /\ transfer'.ids = ticked /\ transfer'.visible = Set!VisibleTicked
      /\ transfer'.state = state /\ transfer'.left = Set!VisibleTicked /\ transfer'.failed = {}
  BY <1>1, <1>2, <1>4 DEF Transfers
<1>6. FilesTyped' /\ NamesKnown' /\ SetsCome'
  BY <1>1, <1>3, <1>5 DEF SetsInv, FilesTyped, NamesKnown, Ever, SetsCome
<1>7. Transferring'
  <2>1. Arrived' = {}
    BY <1>4, <1>5 DEF Arrived
  <2>2. QED
    BY <1>1, <1>2, <1>4, <1>5, <2>1 DEF Transferring, Set!FullMoveKeepsCases
<1>8. ListsFresh'
  BY <1>1 DEF SetsInv, ListsFresh, Fresh, Touched
<1>9. QED
  BY <1>6, <1>7, <1>8 DEF SetsInv

LEMMA CreateTargetKeeps == ASSUME Set!Assumptions, SetsInv, Set!CreateTarget PROVE SetsInv'
<1>1. /\ transfer # Set!Nothing /\ transfer.state = "creating"
      /\ UNCHANGED <<sets, list, listFetch, selected, ticked, filtering, change, lost, count, gone>>
  BY DEF Set!CreateTarget
<1>2. /\ transfer \in Transfers /\ change = Set!Nothing
      /\ selected = transfer.from /\ transfer.from \in CaseSets
      /\ transfer.to \in CaseSets /\ transfer.to # transfer.from
  BY <1>1, TransferIs
<1>3. CASE transfer.to \in DOMAIN files
  <2>1. transfer' = Set!Nothing /\ UNCHANGED <<files, setsFetch>>
    BY <1>3 DEF Set!CreateTarget
  <2>2. FilesTyped' /\ NamesKnown' /\ SetsCome'
    BY <1>1, <2>1 DEF SetsInv, FilesTyped, NamesKnown, Ever, SetsCome
  <2>3. ListsFresh'
    BY <1>1, <2>1 DEF SetsInv, ListsFresh, Fresh, Touched
  <2>4. QED
    BY <2>1, <2>2, <2>3, NoTransfer DEF SetsInv
<1>4. CASE transfer.to \notin DOMAIN files
  <2>1. /\ files' = [s \in DOMAIN files \cup {transfer.to} |->
                       IF s = transfer.to THEN {} ELSE files[s]]
        /\ transfer' = [transfer EXCEPT !.state = "copying"] /\ setsFetch' = Set!Asked
    BY <1>4 DEF Set!CreateTarget
  <2>2. /\ DOMAIN files' = DOMAIN files \cup {transfer.to} /\ files'[transfer.to] = {}
        /\ \A s \in DOMAIN files : files'[s] = files[s]
    BY <1>4, <2>1
  <2>3. /\ transfer' \in Transfers /\ transfer'.from = transfer.from /\ transfer'.to = transfer.to
        /\ transfer'.ids = transfer.ids /\ transfer'.visible = transfer.visible
        /\ transfer'.state = "copying" /\ transfer'.left = transfer.visible /\ transfer'.failed = {}
    BY <1>1, <1>2, <2>1 DEF Transfers, SetsInv, Transferring
  <2>4. Ever' = Ever \cup {transfer.to}
    BY <1>1, <2>2 DEF Ever
  <2>5. FilesTyped'
    BY <1>1, <1>2, <2>1, <2>2, <2>3 DEF SetsInv, FilesTyped
  <2>6. NamesKnown'
    BY <1>1, <1>2, <2>1, <2>4, SetFacts DEF SetsInv, NamesKnown
  <2>7. Transferring'
    <3>1. Arrived' = {}
      BY <2>3 DEF Arrived
    <3>2. QED
      BY <1>1, <1>2, <2>3, <3>1 DEF SetsInv, Transferring, Set!FullMoveKeepsCases
  <2>8. ListsFresh'
    <3>1. SUFFICES ASSUME NEW s \in DOMAIN files' \ gone
                   PROVE  Fresh(s)' /\ (s = selected => listFetch[s] # Set!Idle \/ list[s] # Set!NoData)
      BY <1>1 DEF ListsFresh
    <3>2. CASE s \in DOMAIN files
      <4>1. ~Touched(s)
        BY <1>1 DEF Touched
      <4>2. QED
        BY <1>1, <2>2, <3>1, <3>2, <4>1 DEF SetsInv, ListsFresh, Fresh
    <3>3. CASE s \notin DOMAIN files
      <4>1. s = transfer.to /\ s \in CaseSets \ Ever /\ s # selected
        BY <1>2, <2>2, <3>1, <3>3 DEF Ever
      <4>2. list[s] = Set!NoData /\ listFetch[s] = Set!Idle
        BY <4>1 DEF SetsInv, NamesKnown
      <4>3. QED
        BY <1>1, <4>1, <4>2 DEF Fresh
    <3>4. QED
      BY <3>2, <3>3
  <2>9. SetsCome'
    BY <2>1 DEF SetsCome
  <2>10. QED
    BY <2>5, <2>6, <2>7, <2>8, <2>9 DEF SetsInv
<1>5. QED
  BY <1>3, <1>4

LEMMA CopyOneKeeps ==
    ASSUME SetsInv, NEW c \in Cases, Set!CopyOne(c) PROVE SetsInv'
<1>1. /\ transfer # Set!Nothing /\ transfer.state = "copying" /\ c \in transfer.left
      /\ transfer.to \in DOMAIN files
      /\ files' = [files EXCEPT ![transfer.to] = @ \cup {c}]
      /\ transfer' = [transfer EXCEPT !.left = @ \ {c}]
      /\ UNCHANGED <<sets, setsFetch, list, listFetch, selected, ticked, filtering,
                     change, lost, count, gone>>
  BY DEF Set!CopyOne
<1>2. /\ transfer \in Transfers /\ change = Set!Nothing
      /\ selected = transfer.from /\ transfer.from \in CaseSets
      /\ transfer.to \in CaseSets /\ transfer.to # transfer.from
  BY <1>1, TransferIs
<1>3. /\ DOMAIN files' = DOMAIN files /\ files'[transfer.to] = files[transfer.to] \cup {c}
      /\ \A s \in DOMAIN files \ {transfer.to} : files'[s] = files[s]
  BY <1>1
<1>4. /\ transfer' \in Transfers /\ transfer'.from = transfer.from /\ transfer'.to = transfer.to
      /\ transfer'.ids = transfer.ids /\ transfer'.visible = transfer.visible
      /\ transfer'.state = "copying" /\ transfer'.left = transfer.left \ {c}
      /\ transfer'.failed = transfer.failed /\ transfer'.deleted = transfer.deleted
  BY <1>1, <1>2 DEF Transfers
<1>5. transfer.left \subseteq transfer.visible \ transfer.failed /\ lost = {}
  BY <1>1 DEF SetsInv, Transferring
<1>6. Arrived' = Arrived \cup {c}
  BY <1>1, <1>4, <1>5 DEF Arrived
<1>7. FilesTyped'
  BY <1>1, <1>3, <1>4 DEF SetsInv, FilesTyped
<1>8. NamesKnown' /\ SetsCome'
  BY <1>1, <1>3 DEF SetsInv, NamesKnown, Ever, SetsCome
<1>9. Transferring'
  BY <1>1, <1>2, <1>3, <1>4, <1>5, <1>6 DEF SetsInv, Transferring, Set!FullMoveKeepsCases
<1>10. ListsFresh'
  <2>1. SUFFICES ASSUME NEW s \in DOMAIN files \ gone
                 PROVE  /\ Fresh(s)' \/ Touched(s)'
                        /\ s = selected => listFetch[s] # Set!Idle \/ list[s] # Set!NoData
    BY <1>1, <1>3 DEF ListsFresh
  <2>2. CASE s = transfer.to
    BY <1>2, <1>4, <1>6, <2>2, SetFacts DEF Touched
  <2>3. CASE s # transfer.to
    <3>1. ~Touched(s)
      BY <1>1, <2>3 DEF Touched
    <3>2. QED
      BY <1>1, <1>3, <2>1, <2>3, <3>1 DEF SetsInv, ListsFresh, Fresh
  <2>4. QED
    BY <2>2, <2>3
<1>11. QED
  BY <1>7, <1>8, <1>9, <1>10 DEF SetsInv

LEMMA CopyFailsKeeps ==
    ASSUME SetsInv, NEW c \in Cases, Set!CopyFails(c) PROVE SetsInv'
<1>1. /\ transfer # Set!Nothing /\ transfer.state = "copying" /\ c \in transfer.left
      /\ Set!Counted("failures", MaxFailures) \/ UNCHANGED count
      /\ transfer' = [transfer EXCEPT !.left = @ \ {c}, !.failed = @ \cup {c}]
      /\ UNCHANGED <<files, sets, setsFetch, list, listFetch, selected, ticked,
                     filtering, change, lost, gone>>
  BY DEF Set!CopyFails
<1>2. /\ transfer \in Transfers /\ change = Set!Nothing
      /\ selected = transfer.from /\ transfer.from \in CaseSets
      /\ transfer.to \in CaseSets /\ transfer.to # transfer.from
  BY <1>1, TransferIs
<1>3. /\ transfer' \in Transfers /\ transfer'.from = transfer.from /\ transfer'.to = transfer.to
      /\ transfer'.ids = transfer.ids /\ transfer'.visible = transfer.visible
      /\ transfer'.state = "copying" /\ transfer'.left = transfer.left \ {c}
      /\ transfer'.failed = transfer.failed \cup {c} /\ transfer'.deleted = transfer.deleted
  BY <1>1, <1>2 DEF Transfers
<1>4. transfer.left \subseteq transfer.visible \ transfer.failed /\ lost = {}
  BY <1>1 DEF SetsInv, Transferring
<1>5. Arrived' = Arrived
  BY <1>1, <1>3, <1>4 DEF Arrived
<1>6. count' \in Counts
  BY <1>1 DEF Set!Counted, SetsInv, FilesTyped, Counts
<1>7. FilesTyped' /\ NamesKnown' /\ SetsCome'
  BY <1>1, <1>3, <1>6 DEF SetsInv, FilesTyped, NamesKnown, Ever, SetsCome
<1>8. Transferring'
  BY <1>1, <1>2, <1>3, <1>4, <1>5 DEF SetsInv, Transferring, Set!FullMoveKeepsCases
<1>9. ListsFresh'
  <2>1. \A s : Touched(s) => Touched(s)'
    BY <1>1, <1>2, <1>3, <1>5, SetFacts DEF Touched
  <2>2. QED
    BY <1>1, <2>1 DEF SetsInv, ListsFresh, Fresh
<1>10. QED
  BY <1>7, <1>8, <1>9 DEF SetsInv

\* After invalidateQueries the cases of the file are asked for, if it is the
\* selected one, or no longer held.
LEMMA ListInvalidatedKeeps ==
    ASSUME SetsInv, NEW uri \in CaseSets, uri = selected => selected # Set!None, Set!InvalidateList(uri),
           UNCHANGED <<files, gone, selected>>
    PROVE  /\ list' \in [CaseSets -> KnownCases]
           /\ listFetch' \in [CaseSets -> {Set!Idle, Set!Asked} \cup {Set!Answer(d) : d \in SUBSET Cases}]
           /\ \A s \in CaseSets \ Ever : list'[s] = Set!NoData /\ listFetch'[s] = Set!Idle
           /\ Fresh(uri)' /\ (uri = selected => listFetch'[uri] # Set!Idle)
           /\ \A s \in CaseSets \ {uri} : list'[s] = list[s] /\ listFetch'[s] = listFetch[s]
<1>1. CASE uri = selected
  <2>1. listFetch' = [listFetch EXCEPT ![uri] = Set!Asked] /\ list' = list
    BY <1>1 DEF Set!InvalidateList
  <2>2. uri \in Ever
    BY <1>1 DEF SetsInv, NamesKnown
  <2>3. QED
    BY <2>1, <2>2, SetFacts DEF SetsInv, FilesTyped, NamesKnown, Fresh
<1>2. CASE uri # selected
  <2>1. listFetch' = [listFetch EXCEPT ![uri] = Set!Idle] /\ list' = [list EXCEPT ![uri] = Set!NoData]
    BY <1>2 DEF Set!InvalidateList
  <2>2. Set!NoData \in KnownCases
    BY DEF KnownCases
  <2>3. QED
    BY <1>2, <2>1, <2>2 DEF SetsInv, FilesTyped, NamesKnown, Fresh
<1>3. QED
  BY <1>1, <1>2

LEMMA CopiesSettleKeeps == ASSUME Set!Assumptions, SetsInv, Set!CopiesSettle PROVE SetsInv'
<1>1. /\ transfer # Set!Nothing /\ transfer.state = "copying" /\ transfer.left = {}
      /\ UNCHANGED <<files, sets, setsFetch, selected, filtering, change, lost, count, gone>>
  BY DEF Set!CopiesSettle, Set!AllCopiesAnswered
<1>2. /\ transfer \in Transfers /\ change = Set!Nothing
      /\ selected = transfer.from /\ transfer.from \in CaseSets
      /\ transfer.to \in CaseSets /\ transfer.to # transfer.from
  BY <1>1, TransferIs
<1>3. ticked' \subseteq Cases /\ selected # Set!None
  BY <1>2 DEF SetsInv, FilesTyped, Set!CopiesSettle, Set!Assumptions
<1>4. CASE ~Set!MayGoOn
  <2>1. transfer' = Set!Nothing /\ UNCHANGED <<list, listFetch, ticked>>
    BY <1>4 DEF Set!CopiesSettle
  <2>2. FilesTyped' /\ NamesKnown' /\ SetsCome'
    BY <1>1, <2>1 DEF SetsInv, FilesTyped, NamesKnown, Ever, SetsCome
  <2>3. \A s : ~Touched(s)
    <3>1. Arrived = {}
      BY <1>1, <1>4 DEF Arrived, Set!MayGoOn
    <3>2. QED
      BY <1>1, <3>1 DEF Touched
  <2>4. ListsFresh'
    BY <1>1, <2>1, <2>3 DEF SetsInv, ListsFresh, Fresh
  <2>5. QED
    BY <2>1, <2>2, <2>4, NoTransfer DEF SetsInv
<1>5. CASE Set!MayGoOn
  <2> SUFFICES ASSUME NEW uri \in CaseSets, uri = transfer.to PROVE SetsInv'
    BY <1>2
  <2>1. Set!InvalidateList(uri) /\ uri # selected
    BY <1>2, <1>5 DEF Set!CopiesSettle
  <2>2. /\ list' \in [CaseSets -> KnownCases]
        /\ listFetch' \in [CaseSets -> {Set!Idle, Set!Asked} \cup {Set!Answer(d) : d \in SUBSET Cases}]
        /\ \A s \in CaseSets \ Ever : list'[s] = Set!NoData /\ listFetch'[s] = Set!Idle
        /\ Fresh(uri)'
        /\ \A s \in CaseSets \ {uri} : list'[s] = list[s] /\ listFetch'[s] = listFetch[s]
    BY <1>1, <2>1, ListInvalidatedKeeps
  <2>3. ASSUME NEW s \in DOMAIN files \ gone
        PROVE  /\ Fresh(s)'
               /\ s = selected => listFetch'[s] # Set!Idle \/ list'[s] # Set!NoData
    <3>1. s \in CaseSets
      BY DEF SetsInv, FilesTyped
    <3>2. CASE s = uri
      BY <2>1, <2>2, <3>2
    <3>3. CASE s # uri
      <4>1. ~Touched(s)
        BY <1>1, <3>3 DEF Touched
      <4>2. QED
        BY <1>1, <2>2, <3>1, <3>3, <4>1 DEF SetsInv, ListsFresh, Fresh
    <3>4. QED
      BY <3>2, <3>3
  <2>4. ListsFresh' /\ NamesKnown' /\ SetsCome'
    BY <1>1, <2>2, <2>3 DEF SetsInv, ListsFresh, NamesKnown, Ever, SetsCome
  <2>5. CASE transfer.op = "move"
    <3>1. transfer' = [transfer EXCEPT !.state = "deleting", !.left = transfer.ids]
      BY <1>5, <2>5 DEF Set!CopiesSettle, Set!ToDelete
    <3>2. /\ transfer' \in Transfers /\ transfer'.from = transfer.from /\ transfer'.to = transfer.to
          /\ transfer'.ids = transfer.ids /\ transfer'.visible = transfer.visible
          /\ transfer'.state = "deleting" /\ transfer'.left = transfer.ids
          /\ transfer'.failed = transfer.failed
      BY <1>2, <3>1 DEF Transfers
    <3>3. Arrived' = Arrived
      BY <1>1, <3>2 DEF Arrived
    <3>4. Transferring'
      BY <1>1, <1>2, <3>2, <3>3 DEF SetsInv, Transferring, Set!FullMoveKeepsCases
    <3>5. FilesTyped'
      BY <1>1, <1>3, <2>2, <3>2 DEF SetsInv, FilesTyped
    <3>6. QED
      BY <2>4, <3>4, <3>5 DEF SetsInv
  <2>6. CASE transfer.op # "move"
    <3>1. transfer' = Set!Nothing
      BY <1>5, <2>6 DEF Set!CopiesSettle
    <3>2. FilesTyped'
      BY <1>1, <1>3, <2>2, <3>1 DEF SetsInv, FilesTyped
    <3>3. QED
      BY <2>4, <3>1, <3>2, NoTransfer DEF SetsInv
  <2>7. QED
    BY <2>5, <2>6
<1>6. QED
  BY <1>4, <1>5

LEMMA DeleteOneKeeps ==
    ASSUME SetsInv, NEW c \in Cases, Set!DeleteOne(c) PROVE SetsInv'
<1> DEFINE there == transfer.from \in DOMAIN files /\ c \in files[transfer.from]
<1>1. /\ transfer # Set!Nothing /\ transfer.state = "deleting" /\ c \in transfer.left
      /\ transfer' = [transfer EXCEPT !.left = @ \ {c}, !.deleted = IF there THEN @ \cup {c} ELSE @]
      /\ files' = IF there THEN [files EXCEPT ![transfer.from] = @ \ {c}] ELSE files
      /\ lost' = IF there /\ \A s \in DOMAIN files \ {transfer.from} : c \notin files[s]
                 THEN lost \cup {c} ELSE lost
      /\ UNCHANGED <<sets, setsFetch, list, listFetch, selected, ticked, filtering,
                     change, count, gone>>
  BY DEF Set!DeleteOne
<1>2. /\ transfer \in Transfers /\ change = Set!Nothing
      /\ selected = transfer.from /\ transfer.from \in CaseSets
      /\ transfer.to \in CaseSets /\ transfer.to # transfer.from
  BY <1>1, TransferIs
<1>3. /\ DOMAIN files' = DOMAIN files
      /\ \A s \in DOMAIN files : files'[s] \subseteq files[s]
      /\ \A s \in DOMAIN files \ {transfer.from} : files'[s] = files[s]
      /\ ~there => files' = files
  BY <1>1
<1>4. /\ transfer' \in Transfers /\ transfer'.from = transfer.from /\ transfer'.to = transfer.to
      /\ transfer'.ids = transfer.ids /\ transfer'.visible = transfer.visible
      /\ transfer'.state = "deleting" /\ transfer'.left = transfer.left \ {c}
      /\ transfer'.failed = transfer.failed
      /\ transfer'.deleted = IF there THEN transfer.deleted \cup {c} ELSE transfer.deleted
  BY <1>1, <1>2 DEF Transfers
<1>5. Arrived' = Arrived
  BY <1>1, <1>4 DEF Arrived
<1>6. lost' \subseteq Cases
  BY <1>1 DEF SetsInv, FilesTyped
<1>7. FilesTyped'
  BY <1>1, <1>3, <1>4, <1>6 DEF SetsInv, FilesTyped
<1>8. NamesKnown' /\ SetsCome'
  BY <1>1, <1>3 DEF SetsInv, NamesKnown, Ever, SetsCome
<1>9. Transferring'
  <2>1. Arrived # {} => transfer.to \in DOMAIN files /\ Arrived \subseteq files[transfer.to]
    BY <1>1 DEF SetsInv, Transferring
  <2>2. Arrived # {} => transfer.to \in DOMAIN files' /\ Arrived \subseteq files'[transfer.to]
    BY <1>2, <1>3, <2>1
  <2>3. ASSUME transfer.ids = transfer.visible, transfer.failed = {}
        PROVE  lost' \cap transfer.ids = {}
    <3>1. lost \cap transfer.ids = {} /\ c \in transfer.ids
      BY <1>1, <2>3 DEF SetsInv, Transferring, Set!FullMoveKeepsCases
    <3>2. c \in Arrived
      BY <1>1, <2>3, <3>1 DEF Arrived
    <3>3. transfer.to \in DOMAIN files \ {transfer.from} /\ c \in files[transfer.to]
      BY <1>2, <2>1, <3>2
    <3>4. lost' = lost
      BY <1>1, <3>3
    <3>5. QED
      BY <3>1, <3>4
  <2>4. QED
    BY <1>1, <1>2, <1>4, <1>5, <2>2, <2>3 DEF SetsInv, Transferring, Set!FullMoveKeepsCases
<1>10. ListsFresh'
  <2>1. SUFFICES ASSUME NEW s \in DOMAIN files \ gone
                 PROVE  /\ Fresh(s)' \/ Touched(s)'
                        /\ s = selected => listFetch[s] # Set!Idle \/ list[s] # Set!NoData
    BY <1>1, <1>3 DEF ListsFresh
  <2>2. s = selected => listFetch[s] # Set!Idle \/ list[s] # Set!NoData
    BY DEF SetsInv, ListsFresh
  <2>3. CASE s = transfer.from /\ there
    <3>1. transfer' # Set!Nothing /\ transfer'.deleted # {}
      BY <1>4, <2>3, SetFacts
    <3>2. QED
      BY <1>4, <2>2, <2>3, <3>1 DEF Touched
  <2>4. CASE ~(s = transfer.from /\ there)
    <3>1. files'[s] = files[s]
      BY <1>3, <2>1, <2>4
    <3>2. Touched(s) => Touched(s)'
      BY <1>1, <1>4, <1>2, SetFacts DEF Touched
    <3>3. QED
      BY <1>1, <2>1, <2>2, <3>1, <3>2 DEF SetsInv, ListsFresh, Fresh
  <2>5. QED
    BY <2>3, <2>4
<1>11. QED
  BY <1>7, <1>8, <1>9, <1>10 DEF SetsInv

LEMMA DeleteFailsKeeps ==
    ASSUME SetsInv, NEW c \in Cases, Set!DeleteFails(c) PROVE SetsInv'
<1>1. /\ transfer # Set!Nothing /\ transfer.state = "deleting" /\ c \in transfer.left
      /\ Set!Counted("failures", MaxFailures)
      /\ transfer' = [transfer EXCEPT !.left = @ \ {c}]
      /\ UNCHANGED <<files, sets, setsFetch, list, listFetch, selected, ticked,
                     filtering, change, lost, gone>>
  BY DEF Set!DeleteFails
<1>2. /\ transfer \in Transfers /\ change = Set!Nothing
      /\ selected = transfer.from /\ transfer.from \in CaseSets
      /\ transfer.to \in CaseSets /\ transfer.to # transfer.from
  BY <1>1, TransferIs
<1>3. /\ transfer' \in Transfers /\ transfer'.from = transfer.from /\ transfer'.to = transfer.to
      /\ transfer'.ids = transfer.ids /\ transfer'.visible = transfer.visible
      /\ transfer'.state = "deleting" /\ transfer'.left = transfer.left \ {c}
      /\ transfer'.failed = transfer.failed /\ transfer'.deleted = transfer.deleted
  BY <1>1, <1>2 DEF Transfers
<1>4. Arrived' = Arrived
  BY <1>1, <1>3 DEF Arrived
<1>5. count' \in Counts
  BY <1>1 DEF Set!Counted, SetsInv, FilesTyped, Counts
<1>6. FilesTyped' /\ NamesKnown' /\ SetsCome'
  BY <1>1, <1>3, <1>5 DEF SetsInv, FilesTyped, NamesKnown, Ever, SetsCome
<1>7. Transferring'
  BY <1>1, <1>2, <1>3, <1>4 DEF SetsInv, Transferring, Set!FullMoveKeepsCases
<1>8. ListsFresh'
  <2>1. \A s : Touched(s) => Touched(s)'
    BY <1>1, <1>2, <1>3, SetFacts DEF Touched
  <2>2. QED
    BY <1>1, <2>1 DEF SetsInv, ListsFresh, Fresh
<1>9. QED
  BY <1>6, <1>7, <1>8 DEF SetsInv

LEMMA MoveEndsKeeps == ASSUME Set!Assumptions, SetsInv, Set!MoveEnds PROVE SetsInv'
<1>1. /\ transfer # Set!Nothing /\ transfer.state = "deleting" /\ transfer' = Set!Nothing
      /\ UNCHANGED <<files, sets, setsFetch, selected, filtering, change, lost, count, gone>>
  BY DEF Set!MoveEnds
<1>2. /\ transfer \in Transfers /\ change = Set!Nothing
      /\ selected = transfer.from /\ transfer.from \in CaseSets
      /\ transfer.to \in CaseSets /\ transfer.to # transfer.from
  BY <1>1, TransferIs
<1>3. ticked' \subseteq Cases /\ selected # Set!None
  BY <1>2 DEF SetsInv, FilesTyped, Set!MoveEnds, Set!Assumptions
<1>4. CASE transfer.deleted = {}
  <2>1. UNCHANGED <<list, listFetch, ticked>>
    BY <1>4 DEF Set!MoveEnds
  <2>2. FilesTyped' /\ NamesKnown' /\ SetsCome'
    BY <1>1, <2>1 DEF SetsInv, FilesTyped, NamesKnown, Ever, SetsCome
  <2>3. ListsFresh'
    BY <1>1, <1>4, <2>1 DEF SetsInv, ListsFresh, Fresh, Touched
  <2>4. QED
    BY <1>1, <2>2, <2>3, NoTransfer DEF SetsInv
<1>5. CASE transfer.deleted # {}
  <2> SUFFICES ASSUME NEW uri \in CaseSets, uri = transfer.from PROVE SetsInv'
    BY <1>2
  <2>1. Set!InvalidateList(uri) /\ uri = selected
    BY <1>2, <1>5 DEF Set!MoveEnds
  <2>2. /\ list' \in [CaseSets -> KnownCases]
        /\ listFetch' \in [CaseSets -> {Set!Idle, Set!Asked} \cup {Set!Answer(d) : d \in SUBSET Cases}]
        /\ \A s \in CaseSets \ Ever : list'[s] = Set!NoData /\ listFetch'[s] = Set!Idle
        /\ Fresh(uri)' /\ listFetch'[uri] # Set!Idle
        /\ \A s \in CaseSets \ {uri} : list'[s] = list[s] /\ listFetch'[s] = listFetch[s]
    BY <1>1, <1>3, <2>1, ListInvalidatedKeeps
  <2>3. ASSUME NEW s \in DOMAIN files \ gone
        PROVE  /\ Fresh(s)'
               /\ s = selected => listFetch'[s] # Set!Idle \/ list'[s] # Set!NoData
    <3>1. s \in CaseSets
      BY DEF SetsInv, FilesTyped
    <3>2. CASE s = uri
      BY <2>2, <3>2
    <3>3. CASE s # uri
      <4>1. ~Touched(s)
        BY <1>1, <3>3 DEF Touched
      <4>2. QED
        BY <1>1, <2>1, <2>2, <3>1, <3>3, <4>1 DEF SetsInv, ListsFresh, Fresh
    <3>4. QED
      BY <3>2, <3>3
  <2>4. ListsFresh' /\ NamesKnown' /\ SetsCome'
    BY <1>1, <2>2, <2>3 DEF SetsInv, ListsFresh, NamesKnown, Ever, SetsCome
  <2>5. FilesTyped'
    BY <1>1, <1>3, <2>2 DEF SetsInv, FilesTyped
  <2>6. QED
    BY <1>1, <2>4, <2>5, NoTransfer DEF SetsInv
<1>6. QED
  BY <1>4, <1>5

LEMMA SetsNext ==
    ASSUME Set!Assumptions, SetsInv, [Set!Next]_(Set!vars) PROVE SetsInv'
<1>1. CASE Set!Requests
  <2>1. CASE Set!ServerListsSets \/ Set!SetsArrive
    BY <2>1, ServerListsSetsKeeps, SetsArriveKeeps
  <2>2. ASSUME NEW s \in CaseSets, Set!ServerListsCases(s) \/ Set!CasesArrive(s) PROVE SetsInv'
    BY <2>2, ServerListsCasesKeeps, CasesArriveKeeps
  <2>3. CASE Set!ServerChanges \/ Set!ChangeSucceeds \/ Set!ChangeFails
    BY <2>3, ServerChangesKeeps, ChangeSucceedsKeeps, ChangeFailsKeeps
  <2>4. CASE Set!CreateTarget \/ Set!CopiesSettle \/ Set!MoveEnds
    BY <2>4, CreateTargetKeeps, CopiesSettleKeeps, MoveEndsKeeps
  <2>5. ASSUME NEW c \in Cases,
               Set!CopyOne(c) \/ Set!CopyFails(c) \/ Set!DeleteOne(c) \/ Set!DeleteFails(c)
        PROVE  SetsInv'
    BY <2>5, CopyOneKeeps, CopyFailsKeeps, DeleteOneKeeps, DeleteFailsKeeps
  <2>6. QED
    BY <1>1, <2>1, <2>2, <2>3, <2>4, <2>5 DEF Set!Requests
<1>2. CASE Set!User
  <2>1. ASSUME NEW s \in CaseSets, Set!SelectSet(s) PROVE SetsInv'
    BY <2>1, SelectSetKeeps
  <2>2. CASE Set!DeleteSet \/ \E s \in CaseSets : Set!RenameSet(s)
    BY <2>2, BeginKeeps
  <2>3. CASE (\E c \in Cases : Set!Tick(c)) \/ Set!TickAll \/ Set!Filter
    BY <2>3, TickingKeeps
  <2>4. ASSUME NEW op \in {"copy", "move"}, NEW s \in CaseSets, Set!Submit(op, s) PROVE SetsInv'
    BY <2>4, SubmitKeeps
  <2>5. QED
    BY <1>2, <2>1, <2>2, <2>3, <2>4 DEF Set!User
<1>3. CASE UNCHANGED Set!vars
  BY <1>3 DEF Set!vars, SetsInv, FilesTyped, NamesKnown, Ever, Transferring, Arrived,
              Set!FullMoveKeepsCases, SetsCome, ListsFresh, Fresh, Touched
<1>4. QED
  BY <1>1, <1>2, <1>3 DEF Set!Next

LEMMA SetsHold == ASSUME Set!Assumptions PROVE Set!Spec => []SetsInv
<1>1. Set!Init => SetsInv
  BY SetsInit
<1>2. SetsInv /\ [Set!Next]_(Set!vars) => SetsInv'
  BY SetsNext
<1>3. QED
  BY <1>1, <1>2, PTL DEF Set!Spec

\* What the files, the queries and the dialogs of the panel hold
\* (ValidationPanel.tsx, CopyMoveCasesModal.tsx).
THEOREM SetsTypes == ASSUME Set!Assumptions PROVE Set!Spec => []Set!TypeOK
<1>1. SetsInv => Set!TypeOK
  <2>1. SUFFICES ASSUME FilesTyped PROVE Set!TypeOK
    BY DEF SetsInv
  <2>2. sets.known => sets.data \subseteq CaseSets
    BY <2>1, SetFacts DEF FilesTyped, KnownSets
  <2>3. \A s \in CaseSets : list[s].known => list[s].data \subseteq Cases
    <3>1. \A k \in KnownCases : k.known => k.data \subseteq Cases
      BY SetFacts DEF KnownCases
    <3>2. QED
      BY <2>1, <3>1 DEF FilesTyped
  <2>4. change.op \in {"none", "delete", "rename"} /\ transfer.op \in {"none", "copy", "move"}
    <3>1. Set!Nothing.op = "none"
      BY DEF Set!Nothing
    <3>2. QED
      BY <2>1, <3>1 DEF FilesTyped, Changes, Transfers
  <2>5. QED
    BY <2>1, <2>2, <2>3, <2>4 DEF FilesTyped, Names, Set!TypeOK
<1>2. QED
  BY <1>1, SetsHold, PTL

\* A move of cases that are all shown, and all copied, loses none of them, in
\* whatever order the requests of both files are taken (handleSubmit,
\* CopyMoveCasesModal.tsx).
THEOREM FullMoveLosesNothing ==
    ASSUME Set!Assumptions PROVE Set!Spec => []Set!FullMoveKeepsCases
<1>1. SetsInv => Set!FullMoveKeepsCases
  BY DEF SetsInv, Transferring, Set!FullMoveKeepsCases
<1>2. QED
  BY <1>1, SetsHold, PTL

\* Once all is answered the panel lists the files of the project and the cases
\* of the selected one, unless its name was another's once (ValidationPanel.tsx,
\* useValidations.ts).
THEOREM PanelListsFiles ==
    ASSUME Set!Assumptions PROVE Set!Spec => []Set!ListsConverge
<1>1. SetsInv => Set!ListsConverge
  <2>1. SUFFICES ASSUME SetsInv, Set!Settled PROVE
             /\ sets = Set!Data(DOMAIN files)
             /\ selected \in DOMAIN files \ gone => list[selected] = Set!Data(files[selected])
    BY DEF Set!ListsConverge
  <2>2. /\ change = Set!Nothing /\ transfer = Set!Nothing /\ setsFetch = Set!Idle
        /\ \A s \in CaseSets : listFetch[s] = Set!Idle
    BY <2>1 DEF Set!Settled
  <2>3. sets = Set!Data(DOMAIN files)
    BY <2>1, <2>2, SetFacts DEF SetsInv, SetsCome
  <2>4. ASSUME selected \in DOMAIN files \ gone PROVE list[selected] = Set!Data(files[selected])
    <3>1. listFetch[selected] = Set!Idle
      BY <2>1, <2>2, <2>4 DEF SetsInv, FilesTyped
    <3>2. Fresh(selected) /\ list[selected] # Set!NoData
      BY <2>1, <2>2, <2>4, <3>1 DEF SetsInv, ListsFresh, Touched
    <3>3. QED
      BY <3>1, <3>2, SetFacts DEF Fresh
  <2>5. QED
    BY <2>3, <2>4
<1>2. QED
  BY <1>1, SetsHold, PTL

-----------------------------------------------------------------------------
(* The parts joined *)

\* A behaviour of the viewer's data is one of a single part, all along.
LEMMA TopicOnly == DataSpec => (Topic!Spec /\ [](part = "topic")) \/ []~(part = "topic")
<1>1. DataInit /\ part = "topic" => Topic!Init
  BY DEF DataInit
<1>2. part = "topic" /\ [DataNext]_DataVars => [Topic!Next]_(Topic!vars) /\ (part = "topic")'
  BY DEF DataNext, DataVars, topicVars, Topic!vars
<1>3. ~(part = "topic") /\ [DataNext]_DataVars => ~(part = "topic")'
  BY DEF DataNext, DataVars
<1>4. QED
  BY <1>1, <1>2, <1>3, PTL DEF DataSpec, Topic!Spec

LEMMA ProjectOnly == DataSpec => (Project!Spec /\ [](part = "project")) \/ []~(part = "project")
<1>1. DataInit /\ part = "project" => Project!Init
  BY DEF DataInit
<1>2. part = "project" /\ [DataNext]_DataVars => [Project!Next]_(Project!vars) /\ (part = "project")'
  BY DEF DataNext, DataVars, projectVars, Project!vars
<1>3. ~(part = "project") /\ [DataNext]_DataVars => ~(part = "project")'
  BY DEF DataNext, DataVars
<1>4. QED
  BY <1>1, <1>2, <1>3, PTL DEF DataSpec, Project!Spec

LEMMA CaseOnly == DataSpec => (Case!Spec /\ [](part = "case")) \/ []~(part = "case")
<1>1. DataInit /\ part = "case" => Case!Init
  BY DEF DataInit
<1>2. part = "case" /\ [DataNext]_DataVars => [Case!Next]_(Case!vars) /\ (part = "case")'
  BY DEF DataNext, DataVars, caseVars, Case!vars
<1>3. ~(part = "case") /\ [DataNext]_DataVars => ~(part = "case")'
  BY DEF DataNext, DataVars
<1>4. QED
  BY <1>1, <1>2, <1>3, PTL DEF DataSpec, Case!Spec

LEMMA SetOnly == DataSpec => (Set!Spec /\ [](part = "set")) \/ []~(part = "set")
<1>1. DataInit /\ part = "set" => Set!Init
  BY DEF DataInit
<1>2. part = "set" /\ [DataNext]_DataVars => [Set!Next]_(Set!vars) /\ (part = "set")'
  BY DEF DataNext, DataVars, setVars, Set!vars
<1>3. ~(part = "set") /\ [DataNext]_DataVars => ~(part = "set")'
  BY DEF DataNext, DataVars
<1>4. QED
  BY <1>1, <1>2, <1>3, PTL DEF DataSpec, Set!Spec

\* Once everything is answered, the pages show what the server holds: topics,
\* settings, cases and sets.
THEOREM PagesShowServer == ASSUME DataAssumptions PROVE DataSpec => []PagesConverge
<1>1. Topic!Assumptions /\ Project!Assumptions /\ Case!Assumptions /\ Set!Assumptions
  BY DEF DataAssumptions
<1>2. Topic!Spec => []Topic!FreshWhenSeen /\ []Topic!MarkedIsAsked /\ []Topic!StreamSentAll
  BY <1>1, SeenIsFresh, MarkedIsUnderWay, WaitingHasSentAll
<1>3. Project!Spec => []Project!DataConverges /\ []Project!OriginalIsData
  BY <1>1, SettingsConverge, FormStartsFromData
<1>4. Case!Spec => []Case!ListConverges /\ []Case!EditorConverges
  BY <1>1, PanelConverges, EditorShowsFile
<1>5. Set!Spec => []Set!ListsConverge
  BY <1>1, PanelListsFiles
<1>6. QED
  BY <1>2, <1>3, <1>4, <1>5, TopicOnly, ProjectOnly, CaseOnly, SetOnly, PTL DEF PagesConverge

\* No update of a case is refused for its kind, and a move whose copies
\* succeeded loses no case.
THEOREM NoCaseIsLost == ASSUME DataAssumptions PROVE DataSpec => []CasesKept
<1>1. Case!Assumptions /\ Set!Assumptions
  BY DEF DataAssumptions
<1>2. Case!Spec => []Case!UpdatesHaveOneKind
  BY <1>1, EditsHaveOneKind
<1>3. Set!Spec => []Set!FullMoveKeepsCases
  BY <1>1, FullMoveLosesNothing
<1>4. QED
  BY <1>2, <1>3, CaseOnly, SetOnly, PTL DEF CasesKept

\* No save that is not forced changes what its user left alone, and nothing on
\* the screen is replaced by something older.
THEOREM NothingIsOverwritten == ASSUME DataAssumptions PROVE DataSpec => NoLostUpdate
<1>1. Topic!Assumptions /\ Project!Assumptions
  BY DEF DataAssumptions
<1>2. ASSUME TInv, [Topic!Next]_(Topic!vars) PROVE Topic!NeverOlder
  <2>1. CASE UNCHANGED Topic!vars
    <3>1. cache' = cache /\ \A q \in TopicQueries : cache[q].data \in Nat
      BY <1>2, <2>1 DEF Topic!vars, TInv, Typed, Cached
    <3>2. QED
      BY <3>1 DEF Topic!NeverOlder
  <2>2. QED
    BY <1>1, <1>2, <2>1, TInvNext
<1>3. ASSUME SettingsInv, [Project!Next]_(Project!vars) PROVE Project!KeepsOthersFields
  <2>1. CASE UNCHANGED Project!vars
    BY <2>1 DEF Project!vars, Project!KeepsOthersFields
  <2>2. CASE Project!Next
    BY <1>1, <1>3, <2>2, TakingKeepsOthers
  <2>3. QED
    BY <1>3, <2>1, <2>2
<1>4. [DataNext]_DataVars => [Topic!Next]_(Topic!vars) \/ part # "topic"
  BY DEF DataNext, DataVars, topicVars, Topic!vars
<1>5. [DataNext]_DataVars => [Project!Next]_(Project!vars) \/ part # "project"
  BY DEF DataNext, DataVars, projectVars, Project!vars
<1>6. (part = "topic" => TInv) /\ (part = "project" => SettingsInv) /\ [DataNext]_DataVars
      => [ /\ part = "topic" => Topic!NeverOlder
           /\ part = "project" => Project!KeepsOthersFields ]_DataVars
  BY <1>2, <1>3, <1>4, <1>5
<1>7. QED
  BY <1>1, <1>6, TInvHolds, SettingsHold, TopicOnly, ProjectOnly, PTL DEF DataSpec, NoLostUpdate
=============================================================================
