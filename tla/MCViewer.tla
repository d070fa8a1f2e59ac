------------------------------ MODULE MCViewer ------------------------------
(***************************************************************************)
(* All the parts of the viewer: the data of ViewerData, the tasks and      *)
(* controls of ViewerTasks, and the others.  So that a state stays small   *)
(* the others take the same variables: what a module declares as its nth   *)
(* variable is xn here.                                                    *)
(***************************************************************************)
EXTENDS FiniteSets, TLC, ViewerData, ViewerTasks

CONSTANTS e, o, dev, l1

VARIABLES x1, x2, x3, x4, x5, x6, x7, x8, x9, x10, x11, x12, x13, x14, x15, x16

otherVars == <<x1, x2, x3, x4, x5, x6, x7, x8, x9, x10, x11, x12, x13, x14, x15, x16>>
vars == <<DataVars, ControlVars, TaskVars, otherVars>>

\* What a part with fewer variables leaves unused: those after the nth.
Unused15 == x16 = Unused
Unused14 == x15 = Unused /\ Unused15
Unused13 == x14 = Unused /\ Unused14
Unused12 == x13 = Unused /\ Unused13
Unused11 == x12 = Unused /\ Unused12
Unused10 == x11 = Unused /\ Unused11
Unused9 == x10 = Unused /\ Unused10
Unused8 == x9 = Unused /\ Unused9
Unused7 == x8 = Unused /\ Unused8
Unused6 == x7 = Unused /\ Unused7
Unused5 == x6 = Unused /\ Unused6
Unused4 == x5 = Unused /\ Unused5
OthersUnused == x1 = Unused /\ x2 = Unused /\ x3 = Unused /\ x4 = Unused /\ Unused4
After15 == <<x16>>
After14 == <<x15, After15>>
After13 == <<x14, After14>>
After12 == <<x13, After13>>
After11 == <<x12, After12>>
After10 == <<x11, After11>>
After9 == <<x10, After10>>
After8 == <<x9, After9>>
After7 == <<x8, After8>>
After6 == <<x7, After7>>
After5 == <<x6, After6>>
After4 == <<x5, After5>>

-----------------------------------------------------------------------------
NoValue == "null"
Labelled == [target |-> NoValue, labels |-> l1, predicate |-> NoValue, split |-> dev]
Targeted == [target |-> "boolean", labels |-> NoValue, predicate |-> NoValue, split |-> NoValue]
Fields == {"model", "limit"}
Null == [type |-> "null"]
One == [type |-> "value", value |-> 1]

\* The constants of ViewerData
MCTopics == {"scans"}
MCTopicOf == [q \in MCTopics |-> q]
MCInitialSettings ==
  {[plain |-> [f \in Fields |-> Null], gen |-> Null, other |-> Null],
   [plain |-> [f \in Fields |-> IF f = "model" THEN One ELSE Null],
    gen |-> [num |-> One, batch |-> [type |-> "object", size |-> One]],
    other |-> One]}
MCInitialCases == {[c \in {e, o} |-> IF c = e THEN Labelled ELSE Targeted]}
MCInitialSets == {[s \in {2} |-> {e, o}]}

\* The constants of the controls
MCColumns == <<"id", "model", "score">>
MCDefaultVisible == <<"id", "model">>
MCSize == [c \in {"id", "model", "score"} |-> 2]
MCMinSize == [c \in {"id", "model", "score"} |-> 1]
MCMaxSize == [c \in {"id", "model", "score"} |-> 3]
MCFilterTexts == {<<>>, <<"x">>, <<"1">>, <<"1", "1">>, <<"1", "2", "1">>}
MCLabelTexts == {<<>>, <<"a">>, <<"a", "b">>, <<"b">>, <<"a", " ">>, <<"a", "b", "c">>}
MCSuggestions == <<<<"a">>, <<"a", "b">>, <<"a", "b", "c">>>>
KvLines == {<<>>, <<"t">>, <<"t", "1">>, <<"/p", "x">>, <<"n", "1">>}
MCLineTexts == {<<>>} \cup {<<k>> : k \in KvLines} \cup {<<k, m>> : k, m \in KvLines}
MCNumberIn == [v \in {"1"} |-> "1"]
Property(k, d, v) == [key |-> k, kind |-> d, val |-> v]
MCForeignValues == {[type |-> "null"],
  [type |-> "object", entries |-> <<Property("t", "boolean", "x"), Property("n", "number", "1")>>],
  [type |-> "object", entries |-> <<Property("t", "string", "1"), Property("n", "string", "x")>>]}
MCCited == [x \in {"t", "u"} |-> IF x = "t" THEN {"m1", "m2"} ELSE {"m2", "m3"}]

Grid == INSTANCE GridSelection WITH
  result <- x1, rows <- x2, rowSelection <- x3, focused <- x4, pressed <- x5,
  inputs <- x6,
  Rows <- {"a", "b", "c", "d"},
  Results <- {<<"a", "b", "c", "d">>, <<"d", "b", "c", "a">>, <<"b", "d">>},
  PageSize <- 3, MaxInputs <- 4

\* getTranscript, alone: a call of two requests
Load == INSTANCE ServerCalls WITH
  proxied <- x1, stage <- x2, attempt <- x3, requests <- x4, wire <- x5,
  fetched <- x6, pending <- x7, nextRequestId <- x8, work <- x9, posted <- x10,
  parsed <- x11, value <- x12, shared <- x13, faults <- x14,
  Calls <- {"transcript"}, Parts <- [c \in {"transcript"} |-> 2],
  Ids <- {0, 1}, PoolSize <- 2, Retries <- 1, MaxFaults <- 2

ScannerResults == [s \in {"refusal", "reward"} |-> IF s = "refusal" THEN <<"a1", "a2", "a3">> ELSE <<"b1">>]
Summary(v, l, err, d) == [value |-> v, label |-> l, error |-> err, validation |-> d]
Summaries == [r \in {"a1", "a2", "a3", "b1"} |->
  CASE r = "a1" -> Summary(1, 0, 0, 1) [] r = "a2" -> Summary(0, 1, 1, 0)
    [] r = "a3" -> Summary(1, 1, 0, 2) [] r = "b1" -> Summary(1, 0, 0, 0)]
ResultsOf == INSTANCE ResultsList WITH
  complete <- x1, scanner <- x2, fetching <- x3, cached <- x4, viewed <- x5,
  summaries <- x6, isLoading <- x7, parses <- x8, failed <- x9,
  selectedFilter <- x10, searching <- x11, sortResults <- x12,
  groupResultsBy <- x13, selectedScanResult <- x14, visible <- x15,
  inputs <- x16,
  Scanners <- {"refusal", "reward"}, Results <- ScannerResults, Row <- Summaries,
  Found <- {"a1", "a2", "b1"}, Columns <- {"Validation", "Label"}, MaxInputs <- 4

Ev(x, t) == [event |-> x, type |-> t]
Sp(t) == Ev("span_begin", t)
CallSpan(t, c) == Sp(t) @@ [call |-> c]
Recorded == [solvers |-> {Sp("solvers"), Sp("solver"), Sp("agent"), Ev("state", ""), Ev("store", "")},
  tools |-> {CallSpan("tool", "plain"), Ev("model", ""), Ev("sandbox", ""), Ev("model", "") @@ [pending |-> TRUE]},
  handoff |-> {Sp("handoff"), CallSpan("tool", "agent"), Sp("agent"), Ev("store", "")},
  scorers |-> {Sp("scorers"), Sp("scorer"), Sp("solver"), Ev("score", "")},
  steps |-> {Ev("step", "solver"), Ev("sandbox", ""), Ev("sample_init", "")}]
EventsOf == INSTANCE EventTree WITH
  kind <- x1, withIds <- x2, events <- x3, opened <- x4, eventNodes <- x5,
  excludedTypes <- x6, collapsedEvents <- x7, allCollapsed <- x8, tab <- x9,
  eventParam <- x10, selectedTranscriptTab <- x11, transcriptOutlineId <- x12,
  inputs <- x13,
  Kinds <- DOMAIN Recorded, Templates <- Recorded,
  MaxEvents <- [k \in DOMAIN Recorded |-> IF k = "handoff" THEN 4 ELSE 3],
  MaxInputs <- [k \in DOMAIN Recorded |-> IF k \in {"handoff", "solvers"} THEN 0 ELSE 1]

FileNames == {"", "a", "b.csv", "/"}
SelectorOf == INSTANCE SetSelector WITH
  files <- x1, listed <- x2, fetching <- x3, store <- x4, param <- x5,
  navigation <- x6, isOpen <- x7, showCreateModal <- x8, newSetName <- x9,
  validationError <- x10, createError <- x11, creation <- x12, chosen <- x13,
  counts <- x14,
  Names <- FileNames, Blank <- "",
  Extension <- [n \in FileNames |-> IF n = "b.csv" THEN "valid" ELSE "none"],
  ValidFilename <- {"a", "b.csv"}, File <- [n \in FileNames |-> IF n = "a" THEN 1 ELSE 3],
  InitialSets <- {{}, {2}, {2, 3}}, MaxChoices <- 2, MaxCreated <- 1, MaxForeign <- 1

Markdown == INSTANCE MarkdownRendering WITH
  markdown <- x1, renderedHtml <- x2, task <- x3, queue <- x4, running <- x5,
  cancelled <- x6, skipped <- x7, renderCache <- x8, again <- x9, passes <- x10,
  Divs <- 1..2, Sources <- {"x", "y", "z"}, MaxConcurrent <- 1, MaxCacheSize <- 2, MaxPasses <- 3

Item(k, t, s) == [event |-> k, text |-> t, shown |-> s]
LetterA == <<"a">>
LettersAB == <<"a", "b">>
MCLists == {
  <<Item("model", [text |-> LetterA, toolCalls |-> LettersAB], <<"text", "toolCalls">>),
    Item("tool", [result |-> LettersAB, error |-> LetterA], <<"error">>),
    Item("score", [value |-> LetterA], <<"value">>),
    Item("model", [summary |-> <<"b">>], <<"summary">>),
    Item("tool", [arguments |-> LetterA], <<"arguments">>)>>,
  <<Item("info", [data |-> LetterA], <<"data">>), Item("state", [change |-> LettersAB], <<>>),
    Item("error", [message |-> LettersAB], <<"message">>), Item("step", [name |-> LetterA], <<"name">>)>>}

\* The constants of the tasks
MCParts == [c \in {"scan", "scans"} |-> 1]
MCTerms == {<<>>, LetterA, LettersAB, <<"q", "a">>}
MCMaxClicks == [w \in BOOLEAN |-> IF w THEN 3 ELSE 4]

NoUuid == <<"none", 0>>
Typed(t, v) == [type |-> t, v |-> v]
ResultOf(u, l, v) == [uuid |-> u, label |-> l, value |-> v, type |-> "none"]
RowOf(t, u, type, v) ==
  [transcript |-> t, uuid |-> u, type |-> type, value |-> v, readable |-> TRUE, results |-> <<>>,
   label |-> "none", target |-> <<>>, verdict |-> [kind |-> "none"], model |-> "m", metadata |-> "null"]
PlainRow == RowOf("t1", <<"uuid", "u1">>, "number", Typed("string", "7"))
Older == [RowOf("t2", NoUuid, "object", Typed("string", "{}")) EXCEPT !.model = "absent", !.metadata = "n"]
Broken == [RowOf("t2", <<"uuid", "u2">>, "array", Typed("string", "x")) EXCEPT !.model = "absent"]
Many == [RowOf("t3", <<"uuid", "u3">>, "resultset", Typed("string", "[]")) EXCEPT
  !.results = <<ResultOf(<<"uuid", "r1">>, "x", Typed("boolean", "true")), ResultOf(NoUuid, "y", Typed("string", "x"))>>,
  !.target = [x |-> "positive", z |-> "negative", y |-> "negative"],
  !.verdict = [kind |-> "labels", of |-> [x |-> TRUE, z |-> TRUE]]]
More == [RowOf("t4", <<"uuid", "u4">>, "resultset", Typed("string", "[]")) EXCEPT
  !.results = <<ResultOf(<<"uuid", "r3">>, "x", Typed("number", "7"))>>]
SomeTables ==
  {<<PlainRow, Older>>, <<PlainRow, Many, More>>, <<Many, Older, [More EXCEPT !.results = <<>>]>>,
   <<[Many EXCEPT !.readable = FALSE], PlainRow>>, <<PlainRow, Broken>>}
Table == INSTANCE ScanResults WITH
  rows <- x1, fresh <- x2, uuid <- x3, parses <- x4, scanResultData <- x5,
  isLoading <- x6, received <- x7, visits <- x8, tables <- x9,
  Tables <- SomeTables, Numerals <- {"7"}, Json <- {"{}"}, MaxTables <- 2, MaxVisits <- 2

ChatText(t, c) == [type |-> "text", text |-> t, cites |-> c]
ChatItem(t, x) == [type |-> t, text |-> x]
ChatContents ==
  [user |-> {<<ChatText("a", <<1, 0>>), ChatText("b", <<0>>)>>}, system |-> {<<ChatText("s", <<>>)>>},
   assistant |-> {<<ChatItem("reasoning", "r"), ChatItem("redacted", "r"), ChatText("c", <<>>),
                    ChatItem("tool_use", "s"), ChatText("c", <<2, 1>>)>>}]
ToolCall(f, x) == [function |-> f, args |-> x]
CallsMade ==
  {<<ToolCall("Bash", [command |-> "some", description |-> "some", timeout |-> "empty"]),
     ToolCall("answer", [command |-> "some"])>>,
   <<ToolCall("bash", [cmd |-> "empty"]), ToolCall("python", [code |-> "some"])>>}
ToolAnswers ==
  {[content |-> <<ChatText("o", <<>>), ChatItem("image", "i"), ChatItem("document", "d")>>, error |-> <<>>],
   [content |-> <<ChatText("o", <<>>)>>, error |-> <<ChatText("e", <<>>)>>]}
CallStyles == {"complete", "compact", "omit"}
Chat == INSTANCE ChatMessages WITH
  messages <- x1, named <- x2, rows <- x3, toolCallStyle <- x4,
  initialMessageId <- x5,
  Texts <- ChatContents, CallLists <- CallsMade, Answers <- ToolAnswers, Styles <- CallStyles,
  MaxMessages <- [s \in CallStyles |-> IF s = "complete" THEN 4 ELSE 3]

LeafAt(k, v) == [key |-> k, value |-> [kind |-> "leaf", leaf |-> v, entries |-> <<>>]]
Branch(k, d, es) == [key |-> k, value |-> [kind |-> d, leaf |-> "", entries |-> es]]
KeyOf(n) == [store |-> "", id |-> 0, name |-> n]
InStore(n) == [store |-> "S", id |-> 1, name |-> n]
Metadata == <<Branch(KeyOf("a"), "object", <<LeafAt(KeyOf("b"), "long"), LeafAt(KeyOf("c"), "x")>>), LeafAt(KeyOf("d"), "x")>>
ListRecord == <<Branch(KeyOf("a"), "array", <<LeafAt(KeyOf("b"), "x"), Branch(KeyOf("c"), "object", <<LeafAt(KeyOf("d"), "x")>>)>>)>>
StoreRecord ==
  <<LeafAt(KeyOf("d"), "y"), LeafAt(InStore("instance"), "1"),
    Branch(InStore("k"), "object", <<LeafAt(KeyOf("m"), "y"), LeafAt(KeyOf("e"), "long")>>), LeafAt(InStore("n"), "x")>>
LateInstance ==
  <<LeafAt(InStore("n"), "x"), LeafAt(InStore("instance"), "1"),
    Branch(KeyOf("o"), "object", <<LeafAt(InStore("instance"), "1"), LeafAt(InStore("m"), "x")>>)>>
ShownRecords == <<{Metadata, ListRecord}, {Metadata}, {StoreRecord, LateInstance, Metadata}>>
TreeOf == INSTANCE RecordTree WITH
  mounted <- x1, record <- x2, collapsedIds <- x3, items <- x4, panels <- x5,
  focus <- x6, mounts <- x7, inputs <- x8,
  Trees <- 1..3, Id <- <<"m", "m", "s">>, Records <- ShownRecords, processStore <- <<FALSE, FALSE, TRUE>>,
  MaxMounts <- 2, MaxInputs <- 3

Change(op, p, v) == [op |-> op, path |-> p, value |-> v]
Replaced(p, v, r) == Change("replace", p, v) @@ [replaced |-> r]
MessageChanges ==
  {Change("add", <<"messages", "1">>, "assistant"), Change("add", <<"messages", "0">>, "user"),
   Change("remove", <<"messages", "0", "source">>, "input"),
   Replaced(<<"messages", "0", "role">>, "system", "user"), Replaced(<<"messages", "0", "content">>, "new", "old")}
ToolChanges ==
  {Change("add", <<"tools", "0">>, "bash"), Change("add", <<"tools", "1">>, "python"),
   Replaced(<<"tool_choice">>, "auto", "none"), Change("test", <<"tools">>, "x")}
StoreChanges ==
  {Change("add", <<"HumanAgentState:logs">>, "logs"), Replaced(<<"a", "n">>, "2", "1"),
   Change("remove", <<"a", "m">>, "1"), Change("copy", <<"b", "k">>, "1"),
   Change("move", <<"b", "l">>, "1") @@ [from |-> <<"c", "l">>]}
StateOf == INSTANCE StateChanges WITH
  pool <- x1, changes <- x2, isStore <- x3, drawn <- x4, collapsed <- x5,
  asked <- x6, inputs <- x7,
  Changes <- {MessageChanges, ToolChanges, StoreChanges},
  Indexes <- [x \in {"0", "1"} |-> IF x = "0" THEN 0 ELSE 1], MaxChanges <- 4, MaxInputs <- 3

ScrollOf == INSTANCE Scrolling WITH
  stored <- x1, page <- x2, pending <- x3, pendingOld <- x4, outline <- x5,
  frame <- x6, recent <- x7, current <- x8, selected <- x9, history <- x10,
  spent <- x11,
  Edges <- <<0, 20, 50, 70, 95, 110, 130>>, View <- 60, Offset <- 5, Drawn <- {0, 90, 130},
  Stops <- {0, 66, 70}, Outlines <- {{1, 3}, {1, 2, 3, 5}}, MaxAttempts <- 5, MaxScrolls <- 2, MaxOpens <- 2

PagesOf == INSTANCE PagedRows WITH
  table <- x1, sorting <- x2, query <- x3, viewed <- x4, asOf <- x5, spent <- x6,
  Ids <- 1 .. 4, Values <- {1, 2}, FirstTables <- {<<2, 100, 1, 100>>, <<1, 1, 2, 201>>},
  Sortings <- {"none", "desc"}, PageSize <- 2, MaxChanges <- 1, MaxInputs <- 2

ASSUME /\ DataAssumptions /\ ControlAssumptions /\ TaskAssumptions
       /\ Load!Assumptions /\ Grid!Assumptions /\ ResultsOf!Assumptions
       /\ EventsOf!Assumptions /\ SelectorOf!Assumptions /\ Markdown!Assumptions
       /\ Table!Assumptions /\ Chat!Assumptions /\ TreeOf!Assumptions
       /\ StateOf!Assumptions /\ ScrollOf!Assumptions /\ PagesOf!Assumptions

-----------------------------------------------------------------------------
OthersInit ==
  \/ part = "rows" /\ Grid!Init /\ Unused6
  \/ part = "load" /\ Load!Init /\ Unused14
  \/ part = "results" /\ ResultsOf!Init
  \/ part = "events" /\ EventsOf!Init /\ Unused13
  \/ part = "selector" /\ SelectorOf!Init /\ Unused14
  \/ part = "markdown" /\ Markdown!Init /\ Unused10
  \/ part = "table" /\ Table!Init /\ Unused9
  \/ part = "chat" /\ Chat!Init /\ Unused5
  \/ part = "tree" /\ TreeOf!Init /\ Unused8
  \/ part = "state" /\ StateOf!Init /\ Unused7
  \/ part = "scroll" /\ ScrollOf!Init /\ Unused11
  \/ part = "paged" /\ PagesOf!Init /\ Unused6

OthersNext ==
  \/ part = "rows" /\ Grid!Next /\ UNCHANGED After6
  \/ part = "load" /\ Load!Next /\ UNCHANGED After14
  \/ part = "results" /\ ResultsOf!Next
  \/ part = "events" /\ EventsOf!Next /\ UNCHANGED After13
  \/ part = "selector" /\ SelectorOf!Next /\ UNCHANGED After14
  \/ part = "markdown" /\ Markdown!Next /\ UNCHANGED After10
  \/ part = "table" /\ Table!Next /\ UNCHANGED After9
  \/ part = "chat" /\ Chat!Next /\ UNCHANGED After5
  \/ part = "tree" /\ TreeOf!Next /\ UNCHANGED After8
  \/ part = "state" /\ StateOf!Next /\ UNCHANGED After7
  \/ part = "scroll" /\ ScrollOf!Next /\ UNCHANGED After11
  \/ part = "paged" /\ PagesOf!Next /\ UNCHANGED After6

Init ==
  \/ DataInit /\ task = Absent /\ ControlAbsent /\ TaskAbsent /\ OthersUnused
  \/ ControlInit /\ part = Unused /\ DataUnused /\ TaskAbsent /\ OthersUnused
  \/ TaskInit /\ part = Unused /\ DataUnused /\ ControlAbsent /\ OthersUnused
  \/ OthersInit /\ task = Absent /\ DataUnused /\ ControlAbsent /\ TaskAbsent

Next ==
  /\ UNCHANGED <<part, task>>
  /\ \/ DataNext /\ UNCHANGED <<ControlVars, TaskVars, otherVars>>
     \/ ControlNext /\ UNCHANGED <<DataVars, TaskVars, otherVars>>
     \/ TaskNext /\ UNCHANGED <<DataVars, ControlVars, otherVars>>
     \/ OthersNext /\ UNCHANGED <<DataVars, ControlVars, TaskVars>>

Spec == Init /\ [][Next]_vars

-----------------------------------------------------------------------------
\* Every part keeps its types (TypeOK of each module).
TypeOK ==
  /\ part = "case" => Case!TypeOK
  /\ part = "set" => Set!TypeOK
  /\ part = "project" => Project!TypeOK
  /\ task = "columns" => Layout!TypeOK
  /\ task = "filter" => Filter!TypeOK
  /\ part = "rows" => Grid!TypeOK
  /\ task = "call" => Call!TypeOK
  /\ part = "load" => Load!TypeOK
  /\ part = "results" => ResultsOf!TypeOK
  /\ task = "place" => Place!TypeOK
  /\ part = "events" => EventsOf!TypeOK
  /\ task = "input" => Input!TypeOK
  /\ part = "selector" => SelectorOf!TypeOK
  /\ task = "field" => Field!TypeOK
  /\ task = "ref" => Ref!TypeOK
  /\ part = "markdown" => Markdown!TypeOK
  /\ task = "find" => Find!TypeOK
  /\ part = "table" => Table!TypeOK
  /\ part = "chat" => Chat!TypeOK
  /\ part = "tree" => TreeOf!TypeOK
  /\ part = "state" => StateOf!TypeOK
  /\ part = "topic" => Topic!TypeOK
  /\ part = "scroll" => ScrollOf!TypeOK
  /\ part = "paged" => PagesOf!TypeOK

\* The tree of the events holds each of them once, in order, at its level, and
\* the links of the outline lead into it (treeify.ts, transform.ts, tree-
\* visitors.ts). So do the rows of a record hold its values (RecordTree.tsx),
\* the messages their tool calls and answers and the numbers of what cites
\* them (messages.ts, ChatMessageRow.tsx), the view of a change all that
\* changed (StateEventView.tsx), the rows of a scanner's table its results,
\* each with an identifier of its own (arrow.ts), and the pages of a sorted
\* table its rows, none of them twice (_pagination_helpers.py). The list has
\* the results of its scanner (useScanResultSummaries.ts) and the one that is
\* open can be stepped from (ScannerResultNav.tsx), a transcript is between
\* those beside it (useAdjacentTranscriptIds.ts), a link to a message finds it
\* (messages.ts).
EventsInPlace ==
  /\ part = "events" => EventsOf!InOrder
  /\ part = "events" => EventsOf!NothingLost
  /\ part = "events" => EventsOf!DepthIsLevel
  /\ part = "events" => EventsOf!OutlineOfTree
  /\ part = "results" => ResultsOf!RowsOfScanner
  /\ part = "results" => ResultsOf!ViewedInReach
  /\ part = "chat" => Chat!LinkFindsMessage
  /\ part = "chat" => Chat!AnswersAtTheirCalls
  /\ part = "chat" => Chat!ArgumentsShownOnce
  /\ part = "chat" => Chat!CitationsNumbered
  /\ part = "chat" => Chat!LastTurnIsEnd
  /\ part = "tree" => TreeOf!RowsAreTree
  /\ part = "tree" => TreeOf!EveryValueHasRow
  /\ part = "state" => StateOf!NoChangeHidden
  /\ part = "state" => StateOf!CopiesAreEqual
  /\ part = "state" => StateOf!AddedMessagesShown
  /\ part = "state" => StateOf!ToolsAreNew
  /\ part = "table" => Table!EveryResultHasItsRow
  /\ part = "table" => Table!MadeUpAreMissing
  /\ part = "table" => Table!IdentifiersDiffer
  /\ part = "paged" => PagesOf!PagesCoverTable
  /\ part = "paged" => PagesOf!EachOnce
  /\ part = "paged" => PagesOf!NextIsAskedFor
  /\ part = "paged" => PagesOf!Beside

\* What is on the screen belongs to what it was opened for: a transcript to
\* the two requests of its call (getTranscript), what is rendered to its text
\* (MarkdownDiv.tsx), the page of a result to its row (useScannerResult.ts), a
\* collapsed panel to what was asked, the text of a message to what is
\* searched (messageSearchText.ts), a scroll position to the page it was left
\* at (scrolling.ts), and the set that is edited to what was chosen
\* (ValidationSetSelector.tsx).
OnScreenIsCurrent ==
  /\ part = "load" => Load!OwnAnswer
  /\ part = "load" => Load!NoCallForgotten
  /\ part = "markdown" => Markdown!TextsRendered
  /\ part = "markdown" => Markdown!NoneIdle
  /\ part = "table" => Table!PageShowsItsResult
  /\ part = "table" => Table!ListAndPageAgree
  /\ part = "chat" => Chat!ShownIsFound
  /\ part = "chat" => Chat!ShownIsCopied
  /\ part = "tree" => TreeOf!ClosedLeavesNothing
  /\ part = "state" => StateOf!CollapsedAsAsked
  /\ part = "scroll" => ScrollOf!PositionKept
  /\ part = "scroll" => ScrollOf!ReturnsWhereLeft
  /\ part = "scroll" => ScrollOf!NearestAbove
  /\ part = "selector" => SelectorOf!ChosenIsEdited
  /\ part = "selector" => SelectorOf!SomeSetIsEdited

\* A column that is dropped lands where it was shown (handleDrop); messages
\* that are added leave the rows above them (resolveMessages); a field keeps
\* its text and its other entries (FormFields.tsx); a toggle changes its own
\* node of the events (store.ts) and what is below it in a record
\* (RecordTree.tsx).
LayoutKept ==
  [][ /\ task = "columns" => Layout!LandsWhereShown
      /\ part = "chat" => Chat!RowsStay
      /\ task = "field" => Field!KeepsTyped
      /\ task = "field" => Field!KeepsOtherProperties
      /\ part = "events" => EventsOf!ToggleStaysLocal
      /\ part = "tree" => TreeOf!TogglesBelow ]_vars

\* A range of rows ends at the focused one, and extending it downwards keeps
\* it (handleKeyDown); keys stay in their tree (RecordTree.tsx); further down
\* the outline marks no earlier event (TranscriptOutline.tsx); the list that
\* one comes back to from a result has that result selected
\* (ScannerResultPanel.tsx).
RangesFollowFocus ==
  [][ /\ part = "rows" => Grid!RangeEndsAtFocus
      /\ part = "rows" => Grid!ExtendsDown
      /\ part = "tree" => TreeOf!KeysStayInTree
      /\ part = "scroll" => ScrollOf!OutlineFollows
      /\ part = "results" => ResultsOf!BackToViewed ]_vars
=============================================================================
