---------------------------- MODULE ViewerTasks -----------------------------
(***************************************************************************)
(* What the user does with the viewer.  Tasks of the viewer as a whole:    *)
(* calls to the server, searches in a list, going from page to page.       *)
(* Controls of a page: the columns of a table, the editor of their         *)
(* filters, the input that adds a label, the fields of the settings, the   *)
(* previews of what a text cites.  Tasks and controls share no state; a    *)
(* behaviour is one of a single task or control.                           *)
(***************************************************************************)
EXTENDS Naturals

VARIABLE task          \* which task or control it is

\* The value of a variable that it does not have.
Absent == "absent"

-----------------------------------------------------------------------------
(* Tasks *)

CONSTANTS RpcCalls, Parts, CallIds, PoolSize, Retries, MaxTaskFaults,
          Lists, Terms, Quote, Window, MaxSearches, MaxEvents,
          Scans, Results, Scanners, ResultTabs, OtherTabs, MaxClicks

VARIABLES proxied, stage, attempt, requests, netWire, fetched, pending, nextRequestId,
          work, posted, parsed, value, shared, faults,
          items, top, sel, open, term, debounce, currentSearchTerm, lastFoundItem,
          lastNoResultTerm, noResults, searches, pendingSearch, fallback, scrollTo,
          scrolling, stopTimers, centre, events,
          webview, embedded, route, past, future, loaded, store, disk, saving, returns,
          clicks

Call == INSTANCE ServerCalls WITH
  wire <- netWire, Calls <- RpcCalls, Ids <- CallIds, MaxFaults <- MaxTaskFaults
Find == INSTANCE FindInPage WITH pending <- pendingSearch
Place == INSTANCE Routing WITH page <- route, inputs <- clicks, MaxInputs <- MaxClicks

TaskAssumptions == Call!Assumptions /\ Find!Assumptions /\ Place!Assumptions

\* The variables of each task, and what they are in the others.
callVars == <<proxied, stage, attempt, requests, netWire, fetched, pending, nextRequestId,
              work, posted, parsed, value, shared, faults>>
findVars == <<items, top, sel, open, term, debounce, currentSearchTerm, lastFoundItem,
              lastNoResultTerm, noResults, searches, pendingSearch, fallback, scrollTo,
              scrolling, stopTimers, centre, events>>
placeVars == <<webview, embedded, route, past, future, loaded, store, disk, saving, returns,
               clicks>>
TaskVars == <<task, callVars, findVars, placeVars>>

CallAbsent ==
  /\ proxied = Absent /\ stage = Absent /\ attempt = Absent
  /\ requests = Absent /\ netWire = Absent /\ fetched = Absent
  /\ pending = Absent /\ nextRequestId = Absent /\ work = Absent
  /\ posted = Absent /\ parsed = Absent /\ value = Absent /\ shared = Absent
  /\ faults = Absent
FindAbsent ==
  /\ items = Absent /\ top = Absent /\ sel = Absent /\ open = Absent
  /\ term = Absent /\ debounce = Absent /\ currentSearchTerm = Absent
  /\ lastFoundItem = Absent /\ lastNoResultTerm = Absent /\ noResults = Absent
  /\ searches = Absent /\ pendingSearch = Absent /\ fallback = Absent
  /\ scrollTo = Absent /\ scrolling = Absent /\ stopTimers = Absent
  /\ centre = Absent /\ events = Absent
PlaceAbsent ==
  /\ webview = Absent /\ embedded = Absent /\ route = Absent /\ past = Absent
  /\ future = Absent /\ loaded = Absent /\ store = Absent /\ disk = Absent
  /\ saving = Absent /\ returns = Absent /\ clicks = Absent
TaskAbsent ==
  CallAbsent /\ FindAbsent /\ PlaceAbsent

TaskInit ==
  \/ task = "call" /\ Call!Init /\ FindAbsent /\ PlaceAbsent
  \/ task = "find" /\ Find!Init /\ CallAbsent /\ PlaceAbsent
  \/ task = "place" /\ Place!Init /\ CallAbsent /\ FindAbsent

TaskNext ==
  /\ UNCHANGED task
  /\ \/ task = "call" /\ Call!Next /\ UNCHANGED <<findVars, placeVars>>
     \/ task = "find" /\ Find!Next /\ UNCHANGED <<callVars, placeVars>>
     \/ task = "place" /\ Place!Next /\ UNCHANGED <<callVars, findVars>>

TaskSpec == TaskInit /\ [][TaskNext]_TaskVars

-----------------------------------------------------------------------------
(* Controls *)

CONSTANTS AllColumns, DefaultVisible, Size, MinSize, MaxSize, Widths, MaxColumnEvents,
          StringColumns, NumberColumns, FilterTexts, NumberWords, MaxFilterEvents,
          LabelTexts, suggestions, maxSuggestions, charactersBeforeSuggesting,
          MaxInputEvents,
          LineTexts, NumberIn, PathLike, ForeignValues, Rejected, PlainTexts,
          MaxFieldEvents,
          CitingTexts, Cited, InInput, MaxMouseMoves

VARIABLES visible, order, sizing, manual, filters, drag, columnEvents,
          conditions, editor, suggestFor, filterMoves,
          typed, isOpen, highlightedIndex, isBrowseMode, hasTyped, popoverOpen,
          newLabelValue, labels, inputEvents,
          edit, text, plain, disabled, debouncedError, timer, number, choice, fieldEvents,
          mouse, showingRefPopover, currentRef, shouldShow, hoverTimer, dismissalTimer,
          isOver, rendered, attached, inputLoaded, leftLink, mouseMoves

Layout == INSTANCE TableColumns WITH events <- columnEvents, MaxEvents <- MaxColumnEvents
Filter == INSTANCE FilterEditing WITH
  moves <- filterMoves, Texts <- FilterTexts, Numbers <- NumberWords,
  MaxEvents <- MaxFilterEvents
Input == INSTANCE Autocomplete WITH
  value <- typed, events <- inputEvents, Texts <- LabelTexts, MaxEvents <- MaxInputEvents
Field == INSTANCE FormFields WITH
  value <- edit, events <- fieldEvents, Invalid <- Rejected, MaxEvents <- MaxFieldEvents
Ref == INSTANCE References WITH
  moves <- mouseMoves, Texts <- CitingTexts, MaxMoves <- MaxMouseMoves

ControlAssumptions ==
  /\ Layout!Assumptions /\ Filter!Assumptions /\ Input!Assumptions
  /\ Field!Assumptions /\ Ref!Assumptions

layoutVars == <<visible, order, sizing, manual, filters, drag, columnEvents>>
filterVars == <<conditions, editor, suggestFor, filterMoves>>
inputVars == <<typed, isOpen, highlightedIndex, isBrowseMode, hasTyped, popoverOpen,
               newLabelValue, labels, inputEvents>>
fieldVars == <<edit, text, plain, disabled, debouncedError, timer, number, choice, fieldEvents>>
refVars == <<mouse, showingRefPopover, currentRef, shouldShow, hoverTimer, dismissalTimer,
             isOver, rendered, attached, inputLoaded, leftLink, mouseMoves>>
ControlVars == <<task, layoutVars, filterVars, inputVars, fieldVars, refVars>>

LayoutAbsent ==
  /\ visible = Absent /\ order = Absent /\ sizing = Absent /\ manual = Absent
  /\ filters = Absent /\ drag = Absent /\ columnEvents = Absent
FilterAbsent ==
  /\ conditions = Absent /\ editor = Absent /\ suggestFor = Absent
  /\ filterMoves = Absent
InputAbsent ==
  /\ typed = Absent /\ isOpen = Absent /\ highlightedIndex = Absent
  /\ isBrowseMode = Absent /\ hasTyped = Absent /\ popoverOpen = Absent
  /\ newLabelValue = Absent /\ labels = Absent /\ inputEvents = Absent
FieldAbsent ==
  /\ edit = Absent /\ text = Absent /\ plain = Absent /\ disabled = Absent
  /\ debouncedError = Absent /\ timer = Absent /\ number = Absent
  /\ choice = Absent /\ fieldEvents = Absent
RefAbsent ==
  /\ mouse = Absent /\ showingRefPopover = Absent /\ currentRef = Absent
  /\ shouldShow = Absent /\ hoverTimer = Absent /\ dismissalTimer = Absent
  /\ isOver = Absent /\ rendered = Absent /\ attached = Absent
  /\ inputLoaded = Absent /\ leftLink = Absent /\ mouseMoves = Absent
ControlAbsent ==
  LayoutAbsent /\ FilterAbsent /\ InputAbsent /\ FieldAbsent /\ RefAbsent

ControlInit ==
  \/ task = "columns" /\ Layout!Init /\ FilterAbsent /\ InputAbsent /\ FieldAbsent /\ RefAbsent
  \/ task = "filter" /\ Filter!Init /\ LayoutAbsent /\ InputAbsent /\ FieldAbsent /\ RefAbsent
  \/ task = "input" /\ Input!Init /\ LayoutAbsent /\ FilterAbsent /\ FieldAbsent /\ RefAbsent
  \/ task = "field" /\ Field!Init /\ LayoutAbsent /\ FilterAbsent /\ InputAbsent /\ RefAbsent
  \/ task = "ref" /\ Ref!Init /\ LayoutAbsent /\ FilterAbsent /\ InputAbsent /\ FieldAbsent

ControlNext ==
  /\ UNCHANGED task
  /\ \/ task = "columns" /\ Layout!Next /\ UNCHANGED <<filterVars, inputVars, fieldVars, refVars>>
     \/ task = "filter" /\ Filter!Next /\ UNCHANGED <<layoutVars, inputVars, fieldVars, refVars>>
     \/ task = "input" /\ Input!Next /\ UNCHANGED <<layoutVars, filterVars, fieldVars, refVars>>
     \/ task = "field" /\ Field!Next /\ UNCHANGED <<layoutVars, filterVars, inputVars, refVars>>
     \/ task = "ref" /\ Ref!Next /\ UNCHANGED <<layoutVars, filterVars, inputVars, fieldVars>>

ControlSpec == ControlInit /\ [][ControlNext]_ControlVars

-----------------------------------------------------------------------------
(* Properties *)

\* A call returns the answers to its own last attempt, and as long as it is
\* open something is under way for it (jsonrpc.ts, json-worker.ts); the latest
\* search gets an answer, and one that found nothing is right (FindBand.tsx).
CallsGetTheirAnswers ==
  /\ task = "call" => Call!OwnAnswer
  /\ task = "call" => Call!NoCallForgotten
  /\ task = "find" => Find!LatestIsAnswered
  /\ task = "find" => Find!NoResultsIsTrue

\* The pages use what the address names, and that is what is saved
\* (ScanPanel.tsx, ScannerResultPanel.tsx, store.ts).
AddressIsShown ==
  /\ task = "place" => Place!StoreFollowsAddress
  /\ task = "place" => Place!SavedIsCurrent

\* A webview comes back to the scan that was open (useRoutingInitializer), and
\* the next match is behind the last one (FindBand.tsx).
GoesOnWhereLeft ==
  [][ /\ task = "place" => Place!ReturnsToScan
      /\ task = "find" => Find!NextGoesOn ]_TaskVars

\* What a control shows belongs to what it is for: widths stay within their
\* limits (clampSize), conditions have the shape of their operator
\* (buildCondition), suggestions are those of the editor's column
\* (useTranscriptsFilterBarProps), the one that is marked is in the list
\* (AutocompleteInput.tsx), a field's text says its value and an error is
\* about the text (FormFields.tsx), and one popover is open at most, at its
\* reference (PopOver.tsx).
ControlsAgree ==
  /\ task = "columns" => Layout!WidthsWithinLimits
  /\ task = "filter" => Filter!ConditionsWellFormed
  /\ task = "filter" => Filter!SuggestionsOfColumn
  /\ task = "input" => Input!HighlightInList
  /\ task = "field" => Field!TextSaysValue
  /\ task = "field" => Field!ErrorOnlyWhileWrong
  /\ task = "ref" => Ref!AwayMeansClosed
  /\ task = "ref" => Ref!OnePopover

\* What the user did not touch stays: a column resized by hand keeps its width
\* (applyAutoSizing), opening and closing the editor of a filter changes
\* nothing (useColumnFilterPopover.ts), a label is what was typed
\* (AutocompleteInput.tsx), a popover stays while the mouse is on it
\* (PopOver.tsx).
UntouchedKept ==
  [][ /\ task = "columns" => Layout!KeepsManual
      /\ task = "filter" => Filter!KeepsUntouched
      /\ task = "input" => Input!AddsWhatIsTyped
      /\ task = "ref" => Ref!OnlyLeftIsDismissed
      /\ task = "ref" => Ref!StaysUnderMouse ]_ControlVars
=============================================================================
