------------------------------ MODULE EventTree ------------------------------
(***************************************************************************)
(* The events of a transcript as the viewer shows them: the recorded list  *)
(* is filtered and repaired, nested into a tree by its spans (or, in older *)
(* logs, its steps), the tree is rearranged, and listed twice, in full and *)
(* as an outline, with what is collapsed left out (TranscriptBody.tsx and  *)
(* components/transcript).  A transcript is recorded first, then opened.   *)
(***************************************************************************)
EXTENDS Integers, Sequences, SequencesExt

CONSTANTS Kinds,       \* kinds of transcripts: what each records
          Templates,   \* of each kind the events and spans that occur in it
          MaxEvents,   \* bound, of each kind: recorded events
          MaxInputs    \* bound, of each kind: inputs of the user

Assumptions ==
  \A k \in Kinds : /\ MaxEvents[k] \in Nat /\ MaxInputs[k] \in Nat
                   /\ \A t \in Templates[k] : {"event", "type"} \subseteq DOMAIN t

VARIABLES kind, withIds,     \* whether its events have a uuid
          events, opened,
          eventNodes,        \* the tree, as useEventNodes remembers it
          excludedTypes,     \* of the event filter
          collapsedEvents,   \* of each list the nodes that were touched, or Untouched
          allCollapsed,      \* the last use of Collapse and Expand
          tab, eventParam,   \* of the address
          selectedTranscriptTab, transcriptOutlineId,
          inputs

streamVars == <<kind, withIds, events, opened>>
collapseVars == <<collapsedEvents, allCollapsed>>
placeVars == <<tab, eventParam, selectedTranscriptTab, transcriptOutlineId>>
vars == <<streamVars, eventNodes, excludedTypes, collapseVars, placeVars, inputs>>

None == <<>>
NoSpan == 0
Untouched == [touched |-> FALSE]
Scopes == {"events", "outline"}
Tabs == {"transcript-messages", "transcript-events", "transcript-info"}
Default == {"sample_init", "sandbox", "state", "store"}
Collapsible == {"step", "span_begin", "tool", "subtask"}

-----------------------------------------------------------------------------
(* The list of events *)

Begins(e) == e.event = "span_begin" \/ (e.event = "step" /\ e.type # "end")
Ends(e) == e.event = "span_end" \/ (e.event = "step" /\ e.type = "end")

\* A step or a span that wraps something; the name stands in place of the type.
Wrapper(event, name) ==
  [event |-> event, type |-> name, n |-> 0, parent |-> NoSpan, pending |-> FALSE,
   span |-> IF name = "sandboxes" THEN -1 ELSE IF name = "scorers" THEN -2 ELSE NoSpan]
HasSpans(es) == \E i \in DOMAIN es : es[i].event = "span_begin"

\* collapseSampleInit
WithInitStep(es) ==
  LET first == SelectInSeq(es, LAMBDA e : e.event = "sample_init")
  IN  IF \/ \E i \in DOMAIN es : es[i].event \in {"span_begin", "span_end"}
         \/ \E i \in DOMAIN es : es[i].event = "step" /\ es[i].type = "init"
         \/ first = 0
      THEN es
      ELSE SubSeq(es, 1, first - 1)
           \o <<Wrapper("step", "sample_init"), es[first], Wrapper("step", "end")>>
           \o SubSeq(es, first + 1, Len(es))

\* groupSandboxEvents: runs of sandbox events get a wrapper.
Grouped(es) ==
  LET begin == Wrapper(IF HasSpans(es) THEN "span_begin" ELSE "step", "sandboxes")
      end == Wrapper(IF HasSpans(es) THEN "span_end" ELSE "step",
                     IF HasSpans(es) THEN "sandboxes" ELSE "end")
      sandbox(i) == i \in DOMAIN es /\ es[i].event = "sandbox"
      at(i) == (IF sandbox(i) /\ ~sandbox(i - 1) THEN <<begin>> ELSE <<>>) \o <<es[i]>>
               \o (IF sandbox(i) /\ ~sandbox(i + 1) THEN <<end>> ELSE <<>>)
  IN  FlattenSeq([i \in DOMAIN es |-> at(i)])

FixedUp(es) == Grouped(WithInitStep(SelectSeq(es, LAMBDA e : ~e.pending)))

\* injectScorersSpan: what the first scorer records is moved below a span of its own
\* when the scorer ends.
Scoring == Wrapper("span_begin", "scorers")
Collect(acc, e) ==
  LET into == IF e.event = "span_begin" /\ e.type = "scorer" /\ ~acc.done
              THEN e.span ELSE acc.into
      below == [i \in DOMAIN acc.held |->
                  IF acc.held[i].event = "span_begin" /\ acc.held[i].parent = NoSpan
                  THEN [acc.held[i] EXCEPT !.parent = Scoring.span] ELSE acc.held[i]]
  IN  IF into = NoSpan THEN [acc EXCEPT !.out = Append(@, e)]
      ELSE IF e.event = "span_end" /\ e.span = into
           THEN [out |-> acc.out \o <<Scoring>> \o below \o <<Wrapper("span_end", "scorers"), e>>,
                 held |-> <<>>, done |-> TRUE, into |-> NoSpan]
           ELSE [acc EXCEPT !.held = Append(@, e), !.into = into]
WithScorers(es) ==
  IF \E i \in DOMAIN es : es[i].event = "span_begin" /\ es[i].type = "scorers"
  THEN es
  ELSE FoldLeft(Collect, [out |-> <<>>, held |-> <<>>, done |-> FALSE, into |-> NoSpan], es).out

-----------------------------------------------------------------------------
(* The tree *)

\* resolveParentForEvent: the last span of that id that began so far
ParentBySpan(es) ==
  LET key(i) == IF es[i].event = "span_begin" THEN es[i].parent ELSE es[i].span
  IN  [i \in DOMAIN es |->
         SelectLastInSubSeq(es, 1, i - 1,
                            LAMBDA e : e.event = "span_begin" /\ e.span = key(i))]
\* treeifyWithSteps: the innermost step that is not over
ParentByStack(es) ==
  LET stack[i \in 0..Len(es)] ==
        IF i = 0 THEN <<0>>
        ELSE IF Begins(es[i]) THEN Append(stack[i - 1], i)
        ELSE IF Ends(es[i]) /\ Len(stack[i - 1]) > 1 THEN Front(stack[i - 1])
        ELSE stack[i - 1]
  IN  [i \in DOMAIN es |-> Last(stack[i - 1])]

\* createNode: without a uuid a node is known by its place in the tree.
RECURSIVE Nodes(_, _, _, _)
Nodes(es, parent, p, path) ==
  LET mine == SelectSeq([i \in DOMAIN es |-> i], LAMBDA i : parent[i] = p /\ ~Ends(es[i]))
      id(k) == IF withIds /\ es[mine[k]].n # 0 THEN <<-1, es[mine[k]].n>>
               ELSE Append(path, k - 1)
  IN  [k \in DOMAIN mine |->
         [ev |-> es[mine[k]], id |-> id(k), depth |-> Len(path),
          kids |-> Nodes(es, parent, mine[k], Append(path, k - 1))]]

RECURSIVE ReduceDepth(_, _), SetDepth(_, _)
ReduceDepth(nodes, by) ==
  [i \in DOMAIN nodes |->
     [nodes[i] EXCEPT !.kids = ReduceDepth(@, 1), !.depth = @ - by]]
SetDepth(nodes, depth) ==
  [i \in DOMAIN nodes |->
     [nodes[i] EXCEPT !.kids = SetDepth(@, depth + 1), !.depth = depth]]

\* (Faulty variant: the call also stays among its siblings.)
ElevatedTwice(node, event) ==
  LET at == SelectInSeq(node.kids, LAMBDA c : c.ev.event = event)
  IN  IF at = 0 THEN node
      ELSE [node.kids[at] EXCEPT !.depth = node.depth,
                                 !.kids = SetDepth(node.kids, node.depth + 1)]
\* elevateChildNode: a call takes the place of its span, the rest goes below it.
Elevated(node, event) ==
  LET at == SelectInSeq(node.kids, LAMBDA c : c.ev.event = event)
  IN  IF at = 0 THEN node
      ELSE [node.kids[at] EXCEPT !.depth = node.depth,
                                 !.kids = SetDepth(RemoveAt(node.kids, at), node.depth + 1)]
\* skipFirstChildNode, skipThisNode, discardNode
WithoutFirst(node) ==
  [node EXCEPT !.kids = ReduceDepth(Head(node.kids).kids, 1) \o Tail(node.kids)]
OnlyFirst(node) ==
  [Head(node.kids) EXCEPT !.depth = node.depth, !.kids = ReduceDepth(@, 2)]
Discarded(node) == ReduceDepth(node.kids, 1)

Is(node, event, type) == node.ev.event = event /\ node.ev.type = type
IsHandoff(node) ==
  LET kids == node.kids
  IN  /\ kids # <<>> /\ kids[1].ev.event = "tool"
      /\ \/ Len(kids) = 1 /\ kids[1].ev.type = "agent"
         \/ /\ Len(kids) = 2 /\ kids[2].ev.event = "store"
            /\ Len(kids[1].kids) = 2 /\ Is(kids[1].kids[1], "span_begin", "agent")
IsAgentSolver(node) ==
  LET kids == node.kids
  IN  /\ Len(kids) \in {2, 3} /\ Is(kids[1], "span_begin", "agent")
      /\ kids[2].ev.event = "state"
      /\ Len(kids) = 3 => kids[3].ev.event = "store"

\* transformTree: the kids first
RECURSIVE Transformed(_)
Transformed(nodes) ==
  LET one(n) ==
        CASE Is(n, "span_begin", "tool") -> <<Elevated(n, "tool")>>
          [] Is(n, "span_begin", "subtask") -> <<Elevated(n, "subtask")>>
          [] Is(n, "span_begin", "solver") /\ IsAgentSolver(n) -> <<WithoutFirst(n)>>
          [] Is(n, "span_begin", "handoff") /\ IsHandoff(n) -> <<OnlyFirst(n)>>
          [] Is(n, "span_begin", "solvers") -> Discarded(n)
          [] OTHER -> <<n>>
  IN  FlattenSeq([i \in DOMAIN nodes |->
                    one([nodes[i] EXCEPT !.kids = Transformed(@)])])

RECURSIVE FilterEmpty(_)
FilterEmpty(nodes) ==
  SelectSeq([i \in DOMAIN nodes |-> [nodes[i] EXCEPT !.kids = FilterEmpty(@)]],
            LAMBDA n : n.ev.event \in {"span_begin", "step"} => n.kids # <<>>)

TreeWithout(types) ==
  LET es == FixedUp(SelectSeq(events, LAMBDA e : e.event \notin types))
      all == WithScorers(es)
  IN  IF HasSpans(es) THEN FilterEmpty(Transformed(Nodes(all, ParentBySpan(all), 0, <<>>)))
      ELSE FilterEmpty(Nodes(all, ParentByStack(all), 0, <<>>))

-----------------------------------------------------------------------------
(* The two lists *)

RECURSIVE FlatTree(_, _)
FlatTree(nodes, hidden) ==
  FlattenSeq([i \in DOMAIN nodes |->
    <<nodes[i]>> \o (IF nodes[i].id \in hidden THEN <<>>
                     ELSE FlatTree(nodes[i].kids, hidden))])
AllNodes(tree) == FlatTree(tree, {})
IdsOf(nodes) == {nodes[i].id : i \in DOMAIN nodes}

\* collapseFilters
DefaultCollapsed(tree) ==
  IdsOf(SelectSeq(AllNodes(tree), LAMBDA n :
    \/ n.ev.event \in {"step", "span_begin"} /\ n.ev.type \in {"sandboxes", "init", "sample_init"}
    \/ n.ev.event = "tool" /\ n.ev.type = "plain"
    \/ n.ev.event = "subtask"))
AllCollapsible(tree) == IdsOf(SelectSeq(AllNodes(tree), LAMBDA n : n.ev.event \in Collapsible))

CollapsedIn(scope) ==
  IF collapsedEvents[scope] = Untouched THEN DefaultCollapsed(eventNodes)
  ELSE {id \in collapsedEvents[scope].known : collapsedEvents[scope].is[id]}
Listed == FlatTree(eventNodes, CollapsedIn("events"))

Removed == {"logger", "info", "state", "store", "approval", "input", "sandbox"}
\* The visitors of the outline: a node is dropped with all that is below it; acc.rows is
\* what is listed, acc.scorers and acc.scorer what noScorerChildren has met.
RECURSIVE Visited(_, _, _, _)
Visited(nodes, hidden, shown, acc) ==
  LET visit(a, n) ==
        LET kept == /\ n.ev.event \notin Removed
                    /\ ~(n.ev.event \in {"step", "span_begin"} /\ n.ev.type = "sandboxes")
            begins == Is(n, "span_begin", "scorers") \/ n.ev.type = "scorer"
            b == CASE Is(n, "span_begin", "scorers") -> [a EXCEPT !.scorers = TRUE]
                   [] n.ev.type = "scorer" -> [a EXCEPT !.scorer = n.depth]
                   [] OTHER -> a
        IN  IF ~kept \/ (~begins /\ a.scorers /\ a.scorer >= 0 /\ n.depth = a.scorer + 1)
            THEN a
            ELSE Visited(n.kids, hidden, shown /\ n.id \notin hidden,
                         IF shown THEN [b EXCEPT !.rows = Append(@, n)] ELSE b)
  IN  FoldLeft(visit, acc, nodes)

\* makeTurns: a call of the model and the tools it called become a turn.
Turn(model) == <<[model EXCEPT !.ev = Wrapper("span_begin", "turn")]>>
NoTurn == [model |-> <<>>, tools |-> 0, rows |-> <<>>]
MakeTurns(rows) ==
  LET has(t) == t.model # <<>>
      made(t, force) == [NoTurn EXCEPT !.rows =
        t.rows \o (IF has(t) /\ (force \/ t.tools > 0) THEN Turn(t.model[1]) ELSE <<>>)]
      next(t, n) ==
        CASE n.ev.event = "model" /\ has(t) /\ t.tools = 0 -> made(t, TRUE)
          [] n.ev.event = "model" /\ ~(has(t) /\ t.tools = 0) -> [made(t, FALSE) EXCEPT !.model = <<n>>]
          [] n.ev.event = "tool" -> [t EXCEPT !.tools = @ + 1]
          [] OTHER -> [made(t, FALSE) EXCEPT !.rows = Append(@, n)]
  IN  made(FoldLeft(next, NoTurn, rows), FALSE).rows
\* collapseTurns, collapseScoring: of a run of them only the first is left.
FirstOfRun(rows, In(_), same(_, _)) ==
  LET follows(i) == i > 1 /\ In(rows[i]) /\ In(rows[i - 1]) /\ same(rows[i], rows[i - 1])
      next(acc, i) == IF follows(i) THEN acc ELSE Append(acc, rows[i])
  IN  FoldLeft(next, <<>>, [i \in DOMAIN rows |-> i])
CollapseTurns(rows) ==
  FirstOfRun(rows, LAMBDA n : Is(n, "span_begin", "turn"), LAMBDA a, b : a.depth = b.depth)
CollapseScoring(rows) == FirstOfRun(rows, LAMBDA n : n.ev.event = "score", LAMBDA a, b : TRUE)

Outline ==
  CollapseScoring(CollapseTurns(MakeTurns(
    Visited(eventNodes, CollapsedIn("outline"), TRUE,
            [scorers |-> FALSE, scorer |-> -1, rows |-> <<>>]).rows)))

\* findNearestOutlineAbove
NearestOutlineAbove(id) ==
  LET all == AllNodes(eventNodes)
      rows == IdsOf(Outline)
      at == SelectInSeq(all, LAMBDA n : n.id = id)
      above == SelectLastInSubSeq(all, 1, at, LAMBDA n : n.id \in rows)
  IN  IF at = 0 \/ above = 0 THEN transcriptOutlineId ELSE all[above].id

-----------------------------------------------------------------------------
(* The transcript is recorded *)

TypeOK ==
  /\ kind \in Kinds /\ withIds \in BOOLEAN /\ opened \in BOOLEAN
  /\ Len(events) <= 2 * MaxEvents[kind] + 1
  /\ DOMAIN collapsedEvents = Scopes /\ allCollapsed \in {"undefined", "yes", "no"}
  /\ {tab, selectedTranscriptTab} \subseteq Tabs /\ inputs \in 0..MaxInputs[kind]

\* The filter and the tab are kept from one transcript to the next.
Init ==
  /\ kind \in Kinds /\ withIds \in BOOLEAN
  /\ events = <<>> /\ opened = FALSE /\ eventNodes = <<>>
  /\ excludedTypes \in {Default, {}}
  /\ collapsedEvents = [s \in Scopes |-> Untouched] /\ allCollapsed = "undefined"
  /\ tab = "transcript-messages" /\ selectedTranscriptTab = tab
  /\ eventParam = None /\ transcriptOutlineId = None
  /\ inputs = 0

\* What began and is not over, the outermost first.
Opened ==
  LET step(st, i) == IF Begins(events[i]) THEN Append(st, i)
                     ELSE IF Ends(events[i]) THEN Front(st) ELSE st
  IN  FoldLeft(step, <<>>, [i \in DOMAIN events |-> i])
Within == IF Opened = <<>> THEN NoSpan ELSE events[Last(Opened)].span

Event(t, k, within) ==
  [event |-> t.event, type |-> t.type, n |-> Len(events) + k,
   span |-> IF t.event = "span_begin" THEN Len(events) + k ELSE within,
   parent |-> within, pending |-> "pending" \in DOMAIN t]
\* The span of a tool's call starts with the event of the call.
Record(t) ==
  /\ ~opened /\ Len(events) < MaxEvents[kind]
  /\ events' = events \o <<Event(t, 1, Within)>>
                \o (IF "call" \in DOMAIN t
                    THEN <<Event([event |-> t.type, type |-> t.call], 2, Len(events) + 1)>> ELSE <<>>)
  /\ UNCHANGED <<kind, withIds, opened, eventNodes, excludedTypes, collapseVars, placeVars, inputs>>
End ==
  /\ ~opened /\ Opened # <<>>
  /\ LET begin == events[Last(Opened)]
     IN  events' = Append(events,
           [begin EXCEPT !.n = Len(events) + 1,
                         !.event = IF @ = "step" THEN "step" ELSE "span_end",
                         !.type = IF begin.event = "step" THEN "end" ELSE @])
  /\ UNCHANGED <<kind, withIds, opened, eventNodes, excludedTypes, collapseVars, placeVars, inputs>>
\* The address it is opened with names a tab.
Open ==
  /\ ~opened /\ events # <<>> /\ opened' = TRUE /\ eventNodes' = TreeWithout(excludedTypes)
  /\ tab' \in {"transcript-messages", "transcript-events"}
  /\ UNCHANGED <<kind, withIds, events, excludedTypes, collapseVars, selectedTranscriptTab,
                 eventParam, transcriptOutlineId, inputs>>

-----------------------------------------------------------------------------
(* The user *)

Input ==
  /\ opened /\ inputs < MaxInputs[kind] /\ inputs' = inputs + 1
  /\ UNCHANGED streamVars

Only(ids) == [touched |-> TRUE, known |-> ids, is |-> [id \in ids |-> TRUE]]
\* (Faulty variant: every list starts from nothing.)
SetAfresh(scope, id, collapsed) == [touched |-> TRUE, known |-> {id}, is |-> [i \in {id} |-> collapsed]]
\* setTranscriptCollapsedEvent: a list that was never touched starts from nothing.
Set(scope, id, collapsed) ==
  LET known == IF collapsedEvents[scope] = Untouched THEN {} ELSE collapsedEvents[scope].known
  IN  [touched |-> TRUE, known |-> known \cup {id},
       is |-> [i \in known \cup {id} |-> IF i = id THEN collapsed ELSE collapsedEvents[scope].is[i]]]

\* The effect of TranscriptBody after the tree or the last use of the button changed
Reset(tree, mode) ==
  collapsedEvents' =
    IF mode = "yes"
    THEN [collapsedEvents EXCEPT !["events"] = Only(AllCollapsible(tree))]
    ELSE IF mode = "no" /\ DefaultCollapsed(tree) # {}
    THEN [collapsedEvents EXCEPT !["events"] = Only(DefaultCollapsed(tree))]
    ELSE collapsedEvents

Exclude(types) ==
  /\ Input /\ tab = "transcript-events" /\ types # excludedTypes
  /\ excludedTypes' = types /\ eventNodes' = TreeWithout(types)
  /\ Reset(TreeWithout(types), allCollapsed) /\ UNCHANGED <<allCollapsed, placeVars>>
ToggleEventType(type) ==
  Exclude(IF type \in excludedTypes THEN excludedTypes \ {type} ELSE excludedTypes \cup {type})
SetDebugFilter == Exclude({})
SetDefaultFilter == Exclude(Default)

CollapseEvents ==
  /\ Input /\ tab = "transcript-events"
  /\ LET mode == IF allCollapsed = "yes" THEN "no" ELSE "yes"
     IN  allCollapsed' = mode /\ Reset(eventNodes, mode)
  /\ UNCHANGED <<excludedTypes, eventNodes, placeVars>>

\* useCollapseTranscriptEvent: a row takes itself for collapsed only if the store says so.
Toggle(scope, id) ==
  LET stored == collapsedEvents[scope]
      now == stored # Untouched /\ id \in stored.known /\ stored.is[id]
  IN  /\ Input /\ tab = "transcript-events"
      /\ collapsedEvents' = [collapsedEvents EXCEPT ![scope] = Set(scope, id, ~now)]
      /\ UNCHANGED <<excludedTypes, eventNodes, allCollapsed, placeVars>>
ToggleEvent == \E id \in IdsOf(Listed) : Toggle("events", id)
ToggleRow == \E id \in IdsOf(Outline) : Toggle("outline", id)

\* A row of the outline is a link to its event.
FollowLink ==
  /\ Input /\ tab = "transcript-events"
  /\ \E id \in IdsOf(Outline) : eventParam' = id
  /\ UNCHANGED <<excludedTypes, eventNodes, collapseVars, tab, selectedTranscriptTab, transcriptOutlineId>>
Scroll ==
  /\ Input /\ tab = "transcript-events"
  /\ \E id \in IdsOf(Listed) : transcriptOutlineId' = NearestOutlineAbove(id)
  /\ UNCHANGED <<excludedTypes, eventNodes, collapseVars, tab, selectedTranscriptTab, eventParam>>
\* An address with an event leads back to the events at once.
ChooseTab(t) ==
  /\ Input /\ t # tab
  /\ tab' = (IF eventParam # None THEN "transcript-events" ELSE t)
  /\ selectedTranscriptTab' = tab'
  /\ UNCHANGED <<excludedTypes, eventNodes, collapseVars, eventParam, transcriptOutlineId>>

Next ==
  \/ \E t \in Templates[kind] : Record(t)
  \/ End \/ Open
  \/ \E i \in DOMAIN events : ToggleEventType(events[i].event)
  \/ SetDebugFilter \/ SetDefaultFilter \/ CollapseEvents
  \/ ToggleEvent \/ ToggleRow \/ FollowLink \/ Scroll
  \/ \E t \in Tabs : ChooseTab(t)
Spec == Init /\ [][Next]_vars

-----------------------------------------------------------------------------
(* Properties *)

Numbers(nodes) == SelectSeq([i \in DOMAIN nodes |-> nodes[i].ev.n], LAMBDA n : n # 0)
\* The tree holds no event twice, and in the order in which they were recorded, however
\* its spans were taken apart (transformTree).
InOrder ==
  LET ns == Numbers(AllNodes(eventNodes))
  IN  \A i, j \in DOMAIN ns : i < j => ns[i] < ns[j]

\* Once all spans are over, every event that is not filtered out is in the tree, as long as
\* the ends of spans are not filtered out; only what a handoff stored is dropped with its
\* span (injectScorersSpan, transformTree, filterEmpty).
Stored(e) ==
  e.event = "store" /\ \E i \in DOMAIN events :
    events[i].event = "span_begin" /\ events[i].span = e.span /\ events[i].type = "handoff"
NothingLost ==
  opened /\ Opened = <<>> /\ "span_end" \notin excludedTypes =>
    LET shown == ToSet(Numbers(AllNodes(eventNodes))) IN
    \A i \in DOMAIN events :
      \/ Begins(events[i]) \/ Ends(events[i]) \/ Stored(events[i])
      \/ events[i].pending \/ events[i].event \in excludedTypes \/ i \in shown

\* But below a handoff, the depth of an event is its level in the tree (reduceDepth,
\* setDepth), which is what it is indented by.
RECURSIVE AtLevel(_, _)
AtLevel(nodes, level) ==
  \A i \in DOMAIN nodes : nodes[i].depth = level /\ AtLevel(nodes[i].kids, level + 1)
DepthIsLevel ==
  (\A i \in DOMAIN events : events[i].type # "handoff") => AtLevel(eventNodes, 0)

\* No two events share an id, and the outline has one row for each of some events: its
\* links lead to them (makeTurns, collapseTurns, collapseScoring).
Distinct(nodes) == \A i, j \in DOMAIN nodes : nodes[i].id = nodes[j].id => i = j
OutlineOfTree ==
  Distinct(AllNodes(eventNodes)) /\ Distinct(Outline) /\ IdsOf(Outline) \subseteq IdsOf(AllNodes(eventNodes))

\* Once one was touched, opening or closing an event shows or hides nothing but what is
\* below it (setTranscriptCollapsedEvent).
ToggleStaysLocal ==
  /\ collapsedEvents["events"] # Untouched /\ collapsedEvents' # collapsedEvents
  /\ allCollapsed' = allCollapsed /\ excludedTypes' = excludedTypes
  => LET all == AllNodes(eventNodes)
         old == IdsOf(Listed)
         new == IdsOf(Listed')
     IN  \E i \in DOMAIN all : (old \cup new) \ (old \cap new) \subseteq IdsOf(AllNodes(all[i].kids))
=============================================================================
