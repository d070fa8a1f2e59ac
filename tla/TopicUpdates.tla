---------------------------- MODULE TopicUpdates ----------------------------
(***************************************************************************)
(* How the viewer hears that something changed on the server.  The server  *)
(* keeps a version of each topic and streams the versions to browsers      *)
(* (_api_v2_topics.py); VS Code asks for them every ten seconds            *)
(* (api-scout-server.ts).  A topic that has another version than last time *)
(* invalidates the queries that name it (useTopicInvalidation.ts), which   *)
(* are otherwise never asked again, or not for a while.                    *)
(*                                                                         *)
(* What a query returns is the number of changes of its topic that it saw. *)
(***************************************************************************)
EXTENDS Naturals, Sequences, FiniteSets, SequencesExt

CONSTANTS Topics,
          Queries,      \* those with a topic in their key
          TopicOf,      \* [Queries -> Topics]
          Polled,       \* the queries with a refetchInterval
          MaxChanges, MaxFaults, MaxMounts, MaxPolls \* bounds

Assumptions ==
  /\ Topics # {} /\ TopicOf \in [Queries -> Topics] /\ Polled \subseteq Queries
  /\ {MaxChanges, MaxFaults, MaxMounts, MaxPolls} \subseteq Nat

VARIABLES disableSSE,   \* VS Code
          content,      \* of each topic what the server would answer
          versions,     \* _versions
          notifying,    \* notify_topics is between its versions and notify_all
          stream,       \* event_generator: "none", "sent" (at its yield), "waiting" or "woken"
          wire,         \* messages to the client; of polls also those not yet answered
          seen,         \* versions of useTopicUpdates, Nothing before the first message
          cache,        \* react-query's: of each query data, invalid, fetch, mounted
          announced,    \* of each topic the content that was last announced (no state of the code)
          missed,       \* a notification found the stream busy (no state of the code)
          passedOver,   \* of each query "fetch" if it was invalidated and its fetch goes on, "answer"
                        \* after that one's, else "no" (no state of the code)
          spent

vars == <<disableSSE, content, versions, notifying, stream, wire, seen, cache, announced,
          missed, passedOver, spent>>
serverVars == <<content, versions, notifying, announced>>

Nothing == [t \in {} |-> 0]
NoData == 0            \* contents and versions start with 1
Idle == 0
Asked == MaxChanges + 2   \* no content is
Due(what, bound) == spent[what] < bound /\ spent' = [spent EXCEPT ![what] = @ + 1]

TypeOK ==
  /\ {disableSSE, notifying, missed} \subseteq BOOLEAN
  /\ stream \in {"none", "sent", "waiting", "woken"} /\ (disableSSE => stream = "none")
  /\ \A q \in Queries : cache[q].data <= content[TopicOf[q]]
  /\ passedOver \in [Queries -> {"no", "fetch", "answer"}]

-----------------------------------------------------------------------------
(* The server *)

\* A handler writes, and tells of it: the versions are set at once, the condition
\* is notified when its lock is free.
Announce(t) ==
  /\ ~notifying /\ Due("changes", MaxChanges)
  /\ content' = [content EXCEPT ![t] = @ + 1] /\ announced' = [announced EXCEPT ![t] = content[t] + 1]
  /\ versions' = [versions EXCEPT ![t] = @ + 1] /\ notifying' = TRUE
  /\ UNCHANGED <<disableSSE, stream, wire, seen, cache, missed, passedOver>>
NotifyAll ==
  /\ notifying /\ notifying' = FALSE
  /\ stream' = IF stream = "waiting" THEN "woken" ELSE stream
  /\ missed' = (missed \/ (stream = "sent" /\ wire # <<>> /\ Last(wire) # versions)
                       \/ (stream = "sent" /\ wire = <<>> /\ seen # versions))
  /\ UNCHANGED <<disableSSE, content, versions, wire, seen, cache, announced, passedOver, spent>>
\* Nobody tells of a file that is edited by hand, nor of a scan that ends.
Unannounced(t) ==
  /\ Due("changes", MaxChanges) /\ content' = [content EXCEPT ![t] = @ + 1]
  /\ UNCHANGED <<disableSSE, versions, notifying, stream, wire, seen, cache, announced, missed, passedOver>>

Send == stream' = "sent" /\ wire' = Append(wire, versions)
Connect == ~disableSSE /\ stream = "none" /\ Send /\ UNCHANGED missed
Wait == stream = "sent" /\ stream' = "waiting" /\ UNCHANGED <<wire, missed>>
Wake == stream = "woken" /\ Send /\ missed' = FALSE
\* onerror: the client connects again after five seconds.
Drop ==
  /\ stream # "none" /\ Due("faults", MaxFaults)
  /\ stream' = "none" /\ wire' = <<>> /\ missed' = FALSE
  /\ UNCHANGED <<disableSSE, serverVars, seen, cache, passedOver>>
\* Every version of a server that was started again is new.
Restart ==
  /\ ~notifying /\ Due("faults", MaxFaults)
  /\ versions' = [t \in Topics |-> versions[t] + 1] /\ stream' = "none" /\ missed' = FALSE
  /\ wire' = IF disableSSE THEN wire ELSE <<>>
  /\ UNCHANGED <<disableSSE, content, notifying, announced, seen, cache, passedOver>>
Stream ==
  /\ Connect \/ Wait \/ Wake
  /\ UNCHANGED <<disableSSE, serverVars, seen, cache, passedOver, spent>>

Poll ==
  /\ disableSSE /\ Due("polls", MaxPolls) /\ wire' = Append(wire, Nothing)
  /\ UNCHANGED <<disableSSE, serverVars, stream, seen, cache, missed, passedOver>>
PollAnswered(i) ==
  /\ wire[i] = Nothing /\ wire' = [wire EXCEPT ![i] = versions]
  /\ UNCHANGED <<disableSSE, serverVars, stream, seen, cache, missed, passedOver, spent>>

-----------------------------------------------------------------------------
(* The queries *)

\* Of an active query that is invalidated the fetch starts anew, but for a first one, which goes on
\* as those of other queries do.
GoesOn(c) == c.fetch # Idle /\ ~(c.mounted /\ c.data # NoData)
Invalidated(c) ==
  [c EXCEPT !.invalid = TRUE, !.fetch = IF c.mounted /\ ~GoesOn(c) THEN Asked ELSE @]

\* A message of the stream, in order, or the answer to a poll, in any.  The first
\* message renders the app.
Receive(i) ==
  LET message == wire[i]
      changed == {t \in Topics : IF seen = Nothing THEN TRUE ELSE seen[t] # message[t]}
      named == {q \in Queries : TopicOf[q] \in changed}
  IN /\ message # Nothing /\ (~disableSSE => i = 1)
     /\ wire' = RemoveAt(wire, i) /\ seen' = message
     /\ cache' = [q \in Queries |-> IF q \in named THEN Invalidated(cache[q]) ELSE cache[q]]
     /\ passedOver' = [q \in Queries |-> IF q \notin named THEN passedOver[q]
                                         ELSE IF GoesOn(cache[q]) THEN "fetch" ELSE "no"]
     /\ UNCHANGED <<disableSSE, serverVars, stream, missed, spent>>

Refetch(q) == cache' = [cache EXCEPT ![q].fetch = IF @ = Idle THEN Asked ELSE @]
Mount(q) ==
  /\ seen # Nothing /\ ~cache[q].mounted /\ Due("mounts", MaxMounts)
  /\ cache' = [cache EXCEPT ![q].mounted = TRUE,
                            ![q].fetch = IF @ = Idle /\ (cache[q].data = NoData \/ cache[q].invalid)
                                         THEN Asked ELSE @]
  /\ UNCHANGED <<disableSSE, serverVars, stream, wire, seen, missed, passedOver>>
Unmount(q) == cache[q].mounted /\ cache' = [cache EXCEPT ![q].mounted = FALSE]
Interval(q) == q \in Polled /\ cache[q].mounted /\ cache[q].fetch = Idle /\ Refetch(q)
\* The window gets the focus.
Focus(q) == cache[q].mounted /\ cache[q].invalid /\ cache[q].fetch = Idle /\ Refetch(q)
ServerAnswers(q) ==
  cache[q].fetch = Asked /\ cache' = [cache EXCEPT ![q].fetch = content[TopicOf[q]]]
OfQuery(q) ==
  /\ Unmount(q) \/ Interval(q) \/ Focus(q) \/ ServerAnswers(q)
  /\ UNCHANGED <<disableSSE, serverVars, stream, wire, seen, missed, passedOver, spent>>
Arrives(q) ==
  /\ cache[q].fetch \notin {Idle, Asked}
  /\ cache' = [cache EXCEPT ![q].data = cache[q].fetch, ![q].invalid = FALSE, ![q].fetch = Idle]
  /\ passedOver' = [passedOver EXCEPT ![q] = IF @ = "fetch" THEN "answer" ELSE "no"]
  /\ UNCHANGED <<disableSSE, serverVars, stream, wire, seen, missed, spent>>
\* The last of its retries failed.
Fails(q) ==
  /\ cache[q].fetch = Asked /\ Due("faults", MaxFaults)
  /\ cache' = [cache EXCEPT ![q].fetch = Idle]
  /\ passedOver' = [passedOver EXCEPT ![q] = IF @ = "fetch" THEN "no" ELSE @]
  /\ UNCHANGED <<disableSSE, serverVars, stream, wire, seen, missed>>

-----------------------------------------------------------------------------
Init ==
  /\ disableSSE \in BOOLEAN
  /\ content = [t \in Topics |-> 1] /\ versions = [t \in Topics |-> 1] /\ announced = [t \in Topics |-> 1]
  /\ notifying = FALSE /\ stream = "none" /\ wire = <<>> /\ seen = Nothing
  /\ cache = [q \in Queries |-> [data |-> NoData, invalid |-> FALSE, fetch |-> Idle, mounted |-> FALSE]]
  /\ missed = FALSE /\ passedOver = [q \in Queries |-> "no"]
  /\ spent = [w \in {"changes", "faults", "mounts", "polls"} |-> 0]

Next ==
  \/ \E t \in Topics : Announce(t) \/ Unannounced(t)
  \/ NotifyAll \/ Stream \/ Drop \/ Restart \/ Poll
  \/ \E i \in DOMAIN wire : PollAnswered(i) \/ Receive(i)
  \/ \E q \in Queries : OfQuery(q) \/ Mount(q) \/ Arrives(q) \/ Fails(q)

Spec == Init /\ [][Next]_vars

-----------------------------------------------------------------------------
(* Properties *)

\* What is on the screen is never replaced by something older.
NeverOlder == \A q \in Queries : cache[q].data <= cache'[q].data

\* A viewer that has the server's versions, and asks for nothing, has all that was
\* announced; but for a query that was invalidated while its first fetch, or one of
\* a page that was left, was under way, and for one whose fetch failed, which is
\* still marked.
FreshWhenSeen ==
  seen = versions =>
    \A q \in Queries :
      (passedOver[q] = "no" /\ cache[q].data # NoData /\ cache[q].fetch = Idle /\ ~cache[q].invalid) =>
        cache[q].data >= announced[TopicOf[q]]

\* What is marked is under way or off the screen, unless a fetch failed.
MarkedIsAsked ==
  \A q \in Queries : (spent["faults"] = 0 /\ cache[q].invalid /\ cache[q].mounted) => cache[q].fetch # Idle

\* A stream that waits has sent all, unless a notification came between the two.
StreamSentAll ==
  (stream = "waiting" /\ ~notifying /\ ~missed) =>
    IF wire = <<>> THEN seen = versions ELSE Last(wire) = versions
=============================================================================
