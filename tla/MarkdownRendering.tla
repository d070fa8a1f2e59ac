--------------------------- MODULE MarkdownRendering ---------------------------
(***************************************************************************)
(* Texts that are rendered from markdown behind the scenes                 *)
(* (MarkdownDiv.tsx): the effect of each text on the page, the queue that  *)
(* all of them share and its cache.  A text shows its source until its     *)
(* task is done.                                                           *)
(*                                                                         *)
(* Tasks end in microtasks: once the effects of a render are through, all  *)
(* of them run before anything else, in one step here.  An effect that     *)
(* puts the source back makes its text render a second time, before these  *)
(* microtasks when an event of the user started it, and after them         *)
(* otherwise.                                                              *)
(***************************************************************************)
EXTENDS Naturals, Sequences, FiniteSets, SequencesExt

CONSTANTS Divs,            \* places for a text, in the order of their effects
          Sources,         \* what a text can be
          MaxConcurrent, MaxCacheSize,
          MaxPasses        \* bound: renders of the page

Assumptions ==
  /\ \A d \in Divs : d \in Nat
  /\ Cardinality(Divs) <= MaxCacheSize     \* a text still finds itself in the cache
  /\ {MaxConcurrent, MaxCacheSize} \subseteq Nat \ {0} /\ MaxPasses \in Nat

VARIABLES markdown,        \* of each place its source, or None
          renderedHtml,    \* what it shows: <<"source", s>> or <<"html", s>>
          task,            \* of each place its last task, or NoTask
          queue,           \* tasks that wait, the first one first
          running,         \* tasks begun
          cancelled,       \* tasks whose result is not wanted
          skipped,         \* tasks that the queue was told to leave out
          renderCache,     \* sources rendered, the oldest first
          again,           \* places whose effect put the source back
          passes

vars == <<markdown, renderedHtml, task, queue, running, cancelled, skipped, renderCache, again, passes>>

None == "none"
NoTask == <<>>
Blank == <<"source", None>>
Shows == {<<kind, s>> : kind \in {"source", "html"}, s \in Sources \cup {None}}

TypeOK ==
  /\ markdown \in [Divs -> Sources \cup {None}] /\ renderedHtml \in [Divs -> Shows]
  /\ cancelled \cup skipped \cup running \subseteq Divs \X Nat
  /\ Len(renderCache) <= MaxCacheSize /\ Cardinality(running) <= MaxConcurrent
  /\ again \subseteq Divs

Init ==
  /\ markdown = [d \in Divs |-> None] /\ renderedHtml = [d \in Divs |-> Blank]
  /\ task = [d \in Divs |-> NoTask] /\ queue = <<>> /\ running = {}
  /\ cancelled = {} /\ skipped = {} /\ renderCache = <<>> /\ again = {} /\ passes = 0

InOrder(S) == SetToSortSeq(S, <)
\* cancel(): the queue leaves out its first task, whosever it is.
Waiting(out) == SelectSeq(queue, LAMBDA t : t \notin out)
CancelOne(out, d) ==
  IF task[d] = NoTask \/ Waiting(out) = <<>> THEN out ELSE out \cup {Waiting(out)[1]}
\* enqueue(): a task begins at once while there is room, with the first one that waits.
Enqueued(q, d) ==
  LET all == SelectSeq(Append(q.queue, <<d, passes + 1>>), LAMBDA t : t \notin skipped')
  IN  IF Cardinality(q.running) >= MaxConcurrent
      THEN [q EXCEPT !.queue = Append(@, <<d, passes + 1>>)]
      ELSE [queue |-> Tail(all), running |-> q.running \cup {all[1]}]

\* The effects of the places S: those of before are cleaned up, then the new ones run.
\* Whose text is in the cache has it at once; another shows its source and gets a task.
Effects(S, source) ==
  LET Cached(d) == source[d] \in ToSet(renderCache)
      new == {d \in S : source[d] # None /\ ~Cached(d)}
      q == FoldLeft(Enqueued, [queue |-> queue, running |-> running], InOrder(new))
  IN  /\ skipped' = FoldLeft(CancelOne, skipped, InOrder(S))
      /\ cancelled' = cancelled \cup {task[d] : d \in {x \in S : task[x] # NoTask}}
      /\ queue' = q.queue /\ running' = q.running
      /\ task' = [d \in Divs |-> IF d \in new THEN <<d, passes + 1>>
                                 ELSE IF d \in S THEN NoTask ELSE task[d]]
      /\ renderedHtml' = [d \in Divs |-> IF d \notin S THEN renderedHtml[d]
                            ELSE IF source[d] = None THEN Blank
                            ELSE <<IF Cached(d) THEN "html" ELSE "source", source[d]>>]

\* The page renders with other texts.  A new text shows its source from the start; one that
\* replaces another one shows it by the effect, and renders again.
Pass(source) ==
  LET S == {d \in Divs : source[d] # markdown[d]} IN
  /\ passes < MaxPasses /\ passes' = passes + 1 /\ running = {} /\ again = {} /\ S # {}
  /\ markdown' = source /\ Effects(S, source)
  /\ again' = {d \in S : markdown[d] # None /\ source[d] # None /\ renderedHtml'[d][1] = "source"}
  /\ UNCHANGED renderCache
RenderAgain ==
  /\ again # {} /\ again' = {} /\ passes' = passes + 1
  /\ Effects(again, markdown) /\ UNCHANGED <<markdown, renderCache>>

\* The microtasks.  (Faulty variant: the end of a task does not begin the next one.)
Finish(done, left) ==
  LET wanted == SelectSeq(done, LAMBDA t : t \notin cancelled /\ markdown[t[1]] # None)
      Add(cache, t) ==
        LET s == markdown[t[1]]
        IN  IF s \in ToSet(cache) THEN cache
            ELSE Append(IF Len(cache) >= MaxCacheSize THEN Tail(cache) ELSE cache, s)
      at == {t[1] : t \in ToSet(wanted)}
  IN  /\ renderCache' = FoldLeft(Add, renderCache, wanted)
      /\ renderedHtml' = [d \in Divs |-> IF d \in at THEN <<"html", markdown[d]>> ELSE renderedHtml[d]]
      /\ queue' = left
InTurn == SetToSortSeq(running, LAMBDA s, t : s[1] < t[1])
FinishBegun == Finish(InTurn, queue)
FinishAll == Finish(InTurn \o Waiting(skipped), <<>>)
TasksEnd ==
  /\ running # {} /\ running' = {} /\ FinishAll
  /\ UNCHANGED <<markdown, task, cancelled, skipped, again, passes>>

Next ==
  \/ \E source \in [Divs -> Sources \cup {None}] : Pass(source)
  \/ RenderAgain \/ TasksEnd
Spec == Init /\ [][Next]_vars

-----------------------------------------------------------------------------
(* Properties *)

Quiet == running = {} /\ again = {}

\* Every text on the page is rendered in the end, and as what it is now.  Left out is a text
\* whose task was taken from the queue for another's: it keeps showing its source (cancel
\* marks the first task of the queue, not its own).
Robbed(d) == task[d] \in skipped \ cancelled
TextsRendered ==
  Quiet => \A d \in Divs : markdown[d] # None /\ ~Robbed(d) =>
             renderedHtml[d] = <<"html", markdown[d]>>

\* No text is rendered but by its own task, and none waits while there is room.
NoneIdle == running = {} => Waiting(skipped) = <<>>
=============================================================================
