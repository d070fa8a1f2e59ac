# Inspect Scout in TLA+

Specifications of [inspect_scout](../src), a tool that runs *scanners* over the transcripts of
LLM evaluations, and of its *viewer*, a web application. The modules cover the parts of the
scanner that are concurrent or that must survive a crash: how work is spread over tasks and
processes, how results are recorded and resumed, how limits are shared, and how the transcript
database keeps its index. In the viewer they cover what has state of its own: calls and caches,
pages that edit what the server holds, tables, results, routes, and how a transcript's events and
messages become what is on the screen. Each is checked with TLC on small instances. For the
strategies, the semaphores, the recorder, the transcript database, and the viewer's data, tasks
and controls TLAPS proves the main properties for every value of the constants.

Paths below are relative to `src/src/inspect_scout/`, those of TypeScript files to its
`_view/www/src/`; `file.py:12` is a line of that file.
`PROJECT.json` lists components, runs, mutants, theorems, hazards and the lines each definition
models.

1. [The system](#1-the-system)
2. [Modules](#2-modules)
3. [What the models say, part by part](#3-what-the-models-say-part-by-part)
4. [Runs](#4-runs)
5. [Where code and documentation disagree](#5-where-code-and-documentation-disagree)
6. [Proofs](#6-proofs)
7. [Assumptions: atomicity, faults, fairness](#7-assumptions-atomicity-faults-fairness)
8. [What is not modelled](#8-what-is-not-modelled)
9. [Plan](#9-plan)

## 1. The system

A scan is a set of transcripts times a set of scanners. Every (transcript, scanner) *pair* ends
as a row in the scanner's result table, or as an error to be retried. The path of a pair:

    transcripts --parse_jobs--> strategy --record_results--> recorder --sync--> results
       |                          |                             |
    transcript database        worker tasks / processes      buffer dir -> scan dir
    (data + index files)       + shared semaphores           (resume, complete)

| Component | State | Operations | What is hard | What makes it correct |
|---|---|---|---|---|
| Strategy contract `_concurrency/common.py` | none | one call | it is implicit in its caller | every wanted pair is recorded at most once; it returns only if all are |
| Worker pool `_concurrency/single_process.py`, `_iterator.py` | job deque, counters, `parse_jobs_exhausted`, tasks | parse, scan, wait; a scheduler; an exit test | the last worker is found by counting the others across awaits | nobody leaves early or never; counters exact; deque bounded |
| Multi-process strategy `multi_process.py`, `_mp_subprocess.py`, `_mp_shutdown.py` | two queues, start barrier, counters of ready and finished workers, shutdown condition | feed, take, report, collect, shut down | queue order only per process; a failing worker; signals that come too early | no job lost or doubled; the collector leaves last; the end leaves no process |
| Shared semaphores `_mp_registry.py`, `_mp_semaphore.py` | shared dictionary by name, caches by key, condition variables | get_or_create, acquire, release | requests race; lost wakeups; cancellation inside acquire | limits hold over all processes; every task ends |
| Recorder `_recorder/buffer.py`, `file.py` | buffer dir (pair files, summary, errors), scan dir (spec, tables, summary, errors) | init, snapshot, record, sync, status, cleanup | each call is several writes, any of which may be the last | nothing recorded is lost or scanned twice; "complete" is true |
| Scan sessions `_scan.py`, `_scancontext.py` | phase of the session | scan, resume, complete, interruption handler | the handler covers more than the scan | resuming goes on where the last session stopped |
| Transcript database `_transcript/database/parquet/` | parquet files, index files, manifests | insert, commit (session and index compaction), rebuild, connect | readers list files that commits delete; names carry whole seconds | what was inserted can be found at every moment |
| Local file cache `_transcript/local_files_cache.py`, index cache `index_cache.py` | marker and cached files shared by processes | resolve, save | markers without a lease | no endless wait, no torn copy |
| Active scans store `_recorder/active_scans_store.py` | one entry per process | put, delete, read | stores of other versions | readers never fail |
| View server `_view/` | topic versions, validation files, the project file, running scans | stream of topics, pages of rows, cases, conditional save | notification during a yield; a cursor over a table that changes; two writers | clients see every change; nothing is overwritten unseen |
| Observe `_observe/` | nested contexts | enter, exit, commit | flags set before the write succeeds | each leaf is written once |
| Viewer: calls, topics, pages of rows | requests by id, pool of parsers, query cache, pages | call, retry, invalidate, refetch, next page | answers that overtake each other; ids drawn twice; changes between an answer and its arrival | each call gets its own answer; what is shown is what the server holds |
| Viewer: validation sets, project settings | query cache, texts held back, selections, open saves | edit, save, conflict, copy, move, delete, rename | optimistic updates, saves in any order, two editors | no edit is lost or sent to another set |
| Viewer: tables, filters, suggestions | columns, widths, conditions, selected rows, the open editor | resize, drag, filter, select by mouse and keys | rows and columns change under selections | what the user did not touch stays |
| Viewer: results, routes | summaries, address, history, saved store | select, step, sort, go back, reload | store and address written by effects, one after the other | the page shows what its address names |
| Viewer: events, messages, records | none; collapsed sets | fix up, nest, filter, outline, join, number | trees from unfinished or unusual recordings | everything recorded is shown once, in its place |
| Viewer: texts, citations, find, scroll | queue, timers, positions | render, hover, search, restore | timers that fire for what is gone | what is on the screen belongs to what it was opened for |
| Readers, queries, scanners, IR, import sources, CLI | none shared | conversions, I/O, presentation | formats | outside these models |

The strategies call `record_results`, which the session hands to the recorder. The
multi-process strategy runs one worker pool in each process. Scanners inside those pools acquire
semaphores through their process's registry, whose requests travel on the same upstream queue as
the results. The transcript database and the recorder share nothing but the disk.

## 2. Modules

| Module | Models | Composes |
|---|---|---|
| `ConcurrencyStrategy` | abstract: what the caller of a strategy relies on | |
| `ScanPool` | `single_process.py`, `_iterator.py` | implements `ConcurrencyStrategy` |
| `ScanPoolProofs` | theorems of `ScanPool`: types, counters, exit; pairs, deque, contract | |
| `MultiProcess` | `multi_process.py`, `_mp_subprocess.py`, `_mp_shutdown.py` | implements `ConcurrencyStrategy` |
| `MultiProcessProofs` | theorems of `MultiProcess`: types, collector, shutdown; jobs, contract | |
| `Counting` | lemmas about elements of finite sets and sequences, counted; least and greatest numbers of a set | used by the pool's, the processes' and the viewer's proofs |
| `SemaphoreRegistry` | `_mp_registry.py`, `_mp_semaphore.py` | |
| `SemaphoreRegistryProofs` | theorems of `SemaphoreRegistry` | |
| `ScanLedger` | abstract: results are only added, a closed scan stays as it is | |
| `ScanRecorder` | `_recorder/buffer.py`, `_recorder/file.py`, the sessions of `_scan.py` | implements `ScanLedger` |
| `ScanRecorderProofs` | theorems of `ScanRecorder` | |
| `TranscriptIndex` | `_transcript/database/parquet/transcripts.py`, `index.py` | |
| `TranscriptIndexProofs` | theorems of `TranscriptIndex` | |
| `ValidationEditing` | the editor of a case, `useValidations.ts`, the endpoints of cases | part of `ViewerData` |
| `ValidationSets` | the page of validation sets, copy and move of cases | part of `ViewerData` |
| `SetSelector` | the choice of a set beside a transcript, creation of one | part of `MCViewer` |
| `ProjectEditing` | the project page, `useProjectConfig.ts`, `configUtils.ts`, the conditional save | part of `ViewerData` |
| `FormFields` | the fields of that page | part of `ViewerTasks` |
| `TableColumns` | which columns, in which order, how wide | part of `ViewerTasks` |
| `FilterEditing` | filters of columns and their editor | part of `ViewerTasks` |
| `GridSelection` | focused and selected rows | part of `MCViewer` |
| `Autocomplete` | an input with suggestions, labels of a case | part of `ViewerTasks` |
| `PagedRows` | the infinite query, `_pagination_helpers.py`, previous and next transcript | part of `MCViewer` |
| `ServerCalls` | `jsonrpc.ts`, `json-worker.ts`, retries | part of `ViewerTasks`, and of `MCViewer` |
| `TopicUpdates` | `_api_v2_topics.py`, `useTopicInvalidation.ts`, the query cache | part of `ViewerData` |
| `ResultsList` | the list of a scanner's results | part of `MCViewer` |
| `ScanResults` | `arrow.ts`, `arrowHelpers.ts`, the page of a result | part of `MCViewer` |
| `Routing` | addresses, history, saved store | part of `ViewerTasks` |
| `EventTree` | `treeify.ts`, `transform.ts`, the outline, what is collapsed | part of `MCViewer` |
| `StateChanges` | `StateEventView.tsx`, `StateEventRenderers.tsx` | part of `MCViewer` |
| `ChatMessages` | `messages.ts`, `ChatMessageRow.tsx`, search texts, citations | part of `MCViewer` |
| `RecordTree` | `RecordTree.tsx`, `record_processors/store.ts` | part of `MCViewer` |
| `MarkdownRendering` | `MarkdownDiv.tsx`: queue and cache | part of `MCViewer` |
| `References` | `PopOver.tsx`, `MarkdownDivWithReferences.tsx`, `refs.tsx` | part of `ViewerTasks` |
| `FindInPage` | `FindBand.tsx`, `LiveVirtualList.tsx`, `eventSearchText.ts` | part of `ViewerTasks` |
| `Scrolling` | `scrolling.ts`: positions, the outline that follows | part of `MCViewer` |
| `ViewerData` | what the viewer holds of the server's data | joins `TopicUpdates`, `ProjectEditing`, `ValidationEditing`, `ValidationSets` |
| `ViewerDataProofs` | theorems of `ViewerData` and its parts | |
| `ViewerTasks` | what the user does with the viewer: tasks, and the controls of a page | joins `ServerCalls`, `FindInPage`, `Routing`; `TableColumns`, `FilterEditing`, `Autocomplete`, `FormFields`, `References` |
| `ViewerTasksProofs` | theorems of `ViewerTasks` and its parts | |
| `MC*` | the instances for TLC; one `.cfg` per run | `MCViewer` joins `ViewerData`, `ViewerTasks` and the viewer's other modules |

Both strategies implement the same abstract specification. This lets the recorder and the
sessions be modelled against the contract rather than against either strategy: in `ScanRecorder`
a session records its pairs one at a time in any order, and may be interrupted anywhere. One
at a time is what the code does: `RecorderBuffer.record` has no await inside, so no other task comes in
between. (`ScanPool` does not rely on it: there `record_results` is the caller's, and may suspend.)

Modules also hold a few definitions commented *Faulty variant*. The specification does
not use them: each one is a plausible mistake in the definition that follows it. For those that
`PROJECT.json` lists as `mutants`, one for each property of each passing run, replacing that definition
makes TLC report the property violated. They show that each property depends on the code it is about.

## 3. What the models say, part by part

### 3.1 Worker pool (`ScanPool`)

A task loses control only at an await. So one action runs from the return of an await to the
next: the end of the operation, the exit test, the scheduler's choice, and the start of what
was chosen, in one step (`EndIteration`, `StartNext`).

| TLA+ | Code |
|---|---|
| `pc[w]` | the await `_worker_task` is suspended in (`single_process.py:263-306`) |
| `hold[w]` | the parse job or scanner job in a local variable |
| `queue`, `exhausted` | `scanner_job_deque`, `parse_jobs_exhausted` |
| `metrics` | `task_count`, `tasks_idle`, `tasks_parsing`, `tasks_scanning` |
| `Choose`, `WorthParsing` | `_choose_next_action`, rules 1 to 7 |
| `MayLeave` | the exit test (`:292`) |
| `AcquireIterator` | the lock of `SerializedAsyncIterator` |
| `PullParseJob` ... `Wake` | the three operations `_perform_parse`, `_perform_scan`, `_perform_wait` |
| `Fail`, `Interrupt`, `GiveUp`, `Close` | an exception, an outer cancellation, its delivery to each task, the `finally` |

`tasks_parsing` is increased only after `anext` has returned, so several workers may decide to parse
before the first is counted. The deque then grows beyond `max_scanner_job_queue_size`;
`QueueBounded` says how far.

Two details are as in the code and easily overlooked. A cancelled `_perform_wait` leaves
`tasks_idle` incremented (`CountersExact` claims the idle counter only while nothing is
cancelled). A cancelled task group still starts tasks that were spawned and not yet run
(`Begin` has no guard on `cancelled`).

### 3.2 Multi-process strategy (`MultiProcess`)

The producer feeds a bounded queue and ends with one sentinel per worker. Workers announce
themselves, wait at a barrier, take jobs, report results and completion. The collector counts.
A `multiprocessing.Queue` keeps the order of one sender only, so upstream is one channel per
worker and the collector takes the head of any. A worker's pool is reduced to the set of jobs it
holds: `ScanPool` is what it does inside.

| TLA+ | Code |
|---|---|
| `Feed`, `StopFeeding`, `PutSentinel`, `EndProducer` | `_producer` and its `finally` |
| `CollectReady`, `CollectResult`, `CollectComplete`, `CollectorFails` | `_upstream_collector` |
| `Initialize`, `Start`, `Arm`, `Take`, `Report`, `Finish`, `WorkFails`, `StopWork`, `Exit` | `_worker_main`, `_work_task`, `_shutdown_monitor_task`, `subprocess_main` |
| `Signal`, `DrainParseQueue`, `DrainUpstream`, `StopJoining`, `CleanUp` | the phases of `shutdown_subprocesses` |
| `Die` | a process that ends by itself (in the states of `Deaths`) |

`Arm` is separate from `Start` because `notify_all` reaches only monitors that already wait. A
worker that starts later misses the signal and must be terminated. `Exit` waits for `PipeRoom`: a
process joins its feeder thread, which blocks while the pipe is full. The shutdown has to drain
upstream for that reason.

### 3.3 Semaphores (`SemaphoreRegistry`)

A task follows a `Plan`: it enters semaphores one inside the other and leaves in reverse order.
`TakeLock`, `Request`, `Serve` and `Obtain` are the first use of a key by a process; `Cached` is every
later one. `BeginAcquire`, `Acquire`, `Sleep` and `Release` are the semaphore proper: a shared
value and a condition, acquired in a thread. A cancelled task waits for its permit inside
`acquire`, because the thread is not abandoned, and then gives it back.

### 3.4 Recorder and sessions (`ScanRecorder`, `ScanLedger`)

One action per write of a file. `record` is three: the pair's file (`ReplaceFile`), the summary
(`CountScan`), the errors file (`AppendError`). `sync` is, for each scanner in order, opening and
filling a table (`OpenTable`, `WriteTable`, `SkipTable`), then summary and errors (`WriteSummary`,
`WriteErrors`), then the removal of the buffer entry by entry (`RemoveFile` ... `RemoveBuffer`).
`Crash` may come between any two. `Interrupted` is `handle_scan_interrupted`, which itself runs
`sync(complete=False)`. `Create`, `Resume` and `ForceComplete` are the three commands, with their
refusals.

| TLA+ | Code |
|---|---|
| `file[p]`, `dirs`, `bufferScans`, `bufferErrors`, `bufferDir` | the buffer directory |
| `table[p]`, `outScans`, `outComplete`, `outErrors`, `spec` | the scan directory |
| `at`, `todo`, `current`, `memScans`, `next`, `verdict` | the session's process |
| `done`, `forced`, `sessions` | history, for the properties and for the bound |

A row is reduced to "ok" or "error". The scanners of `Vacuous` pairs report nothing for them, and
`record` then returns at once, so that no file exists and the pair is scanned again on each
resume (`RecordNothing`). Some phases are *exposed* to the environment only if a run says so
(`Exposed`): `snapshotting` (`_scan.json` is rewritten in place), `cleaning` (the removal of the
buffer), `synced` (between the final sync and the end of the session). In the last two the code
really can lose work, which the runs and the proofs keep apart from all the rest.

`ScanLedger` is what a user may rely on: results are entered and never withdrawn, a scan is closed
when every result is in or on the user's word, and stays closed.

### 3.5 Transcript index (`TranscriptIndex`)

Data files and index files are records with the fields their names carry: session, time in whole
seconds, and a number in place of the random part. `Discover` is `_discover_index_files`, the
function that decides which files count, for queries, for a compaction and for a reader alike. An insert
is two writes (`WriteData`, `AppendIndex`), or the removal of the first (`FailIndex`). A commit
compacts the session's parquet files (`WriteCompacted`, `IndexCompacted`, `DeleteSessionFile`)
and then the index (`DiscoverIndex`, `ListIndex`, `MergeIndex`, `DeleteIndexFile`), deleting
what it has *listed*, which is a second look at the directory. A reader lists (`ReadDirectory`)
and reads (`ReadIndex`), and starts again if a file is gone (`RetryRead`).

### 3.6 The viewer (`ViewerData`, `ViewerTasks`, `MCViewer`)

The viewer is one process: JavaScript runs an event handler or a callback to its end, and then
what React renders and runs after that render. So an action is a handler (a click, a key, an answer, a
timer) with everything it causes before the next one; the modules say where effects of their own
order matter. What interleaves is the user, timers, answers of the server, other windows, and the
server itself.

The viewer's 23 modules share no variables, and each could have an instance of its own. They are joined, so
that a property of the viewer is one formula. `ViewerData` joins four: `part` picks one at
the start, and a behaviour is one of that part alone, the variables of the others staying `Unused`. `ViewerTasks` does the
same with three tasks (`TaskSpec`) and five controls (`ControlSpec`), picked by `task`. Both declare their
parts' constants and variables as their own, so that they are proved about for any
values. `MCViewer` extends them and adds the remaining eleven modules, and once more `ServerCalls`, with a
call that consists of two requests (`load`). Those twelve parts have their constants fixed, and so that a state stays
small they take the same variables `x1` ... `x16`, each as many as it declares. A property
of the joined modules is a conjunction of what the parts promise of one kind; a comment in
each module says what its conjuncts mean and where the code does not keep them.

| Module | An action is | Promises (joined into) |
|---|---|---|
| `TopicUpdates` | a change, a notification, a step of the stream, a poll, a step of a fetch | `FreshWhenSeen`, `MarkedIsAsked`, `StreamSentAll` (`PagesConverge`), `NeverOlder` (`NoLostUpdate`) |
| `ProjectEditing` | an edit, a save taken or answered, a reload, a change on disk | `DataConverges`, `OriginalIsData` (`PagesConverge`), `KeepsOthersFields` (`NoLostUpdate`) |
| `ValidationEditing` | an edit, a pause in typing, a request taken or answered, a foreign change | `ListConverges`, `EditorConverges` (`PagesConverge`), `UpdatesHaveOneKind` (`CasesKept`) |
| `ValidationSets` | a choice, a dialog, each copy and deletion, a refetch | `ListsConverge` (`PagesConverge`), `FullMoveKeepsCases` (`CasesKept`) |
| `ServerCalls` | a request, an answer, a parse, a failing worker | `OwnAnswer`, `NoCallForgotten` (`CallsGetTheirAnswers`; of `load`, `OnScreenIsCurrent`) |
| `FindInPage` | typing, a key, a search, a scroll, a drawn window, a timer | `LatestIsAnswered`, `NoResultsIsTrue` (`CallsGetTheirAnswers`), `NextGoesOn` (`GoesOnWhereLeft`) |
| `Routing` | following a link, back and forward, a load, a save, a message | `StoreFollowsAddress`, `SavedIsCurrent` (`AddressIsShown`), `ReturnsToScan` (`GoesOnWhereLeft`) |
| `TableColumns` | showing, dragging, resizing, automatic sizing, reset | `WidthsWithinLimits` (`ControlsAgree`), `KeepsManual` (`UntouchedKept`), `LandsWhereShown` (`LayoutKept`) |
| `FilterEditing` | opening, typing, choosing an operator, closing in each way | `ConditionsWellFormed`, `SuggestionsOfColumn` (`ControlsAgree`), `KeepsUntouched` (`UntouchedKept`) |
| `Autocomplete` | typing, a key, a click, adding and removing labels | `HighlightInList` (`ControlsAgree`), `AddsWhatIsTyped` (`UntouchedKept`) |
| `FormFields` | typing, leaving, a new value from outside, a timer | `TextSaysValue`, `ErrorOnlyWhileWrong` (`ControlsAgree`), `KeepsTyped`, `KeepsOtherProperties` (`LayoutKept`) |
| `References` | a move of the mouse, a timer, a text that is drawn or goes | `AwayMeansClosed`, `OnePopover` (`ControlsAgree`), `OnlyLeftIsDismissed`, `StaysUnderMouse` (`UntouchedKept`) |
| `PagedRows` | a page asked for or answered, a refetch, a change of the table | `PagesCoverTable`, `EachOnce`, `NextIsAskedFor`, `Beside` (`EventsInPlace`) |
| `SetSelector` | a choice, the address that follows it, a creation | `ChosenIsEdited`, `SomeSetIsEdited` (`OnScreenIsCurrent`) |
| `GridSelection` | a click or key with its modifiers, new rows | `RangeEndsAtFocus`, `ExtendsDown` (`RangesFollowFocus`) |
| `ResultsList` | choosing a scanner, an answer, a parse, filter, search, sort, a key, opening, stepping | `RowsOfScanner`, `ViewedInReach` (`EventsInPlace`), `BackToViewed` (`RangesFollowFocus`) |
| `ScanResults` | a table that arrives, a result opened, the end of its parse | `EveryResultHasItsRow`, `MadeUpAreMissing`, `IdentifiersDiffer` (`EventsInPlace`), `PageShowsItsResult`, `ListAndPageAgree` (`OnScreenIsCurrent`) |
| `EventTree` | an event recorded, opening, a toggle, a filter, a tab | `InOrder`, `NothingLost`, `DepthIsLevel`, `OutlineOfTree` (`EventsInPlace`), `ToggleStaysLocal` (`LayoutKept`) |
| `StateChanges` | a change recorded, drawing, a toggle | `NoChangeHidden`, `CopiesAreEqual`, `AddedMessagesShown`, `ToolsAreNew` (`EventsInPlace`), `CollapsedAsAsked` (`OnScreenIsCurrent`) |
| `ChatMessages` | a message, a link followed | `AnswersAtTheirCalls`, `ArgumentsShownOnce`, `CitationsNumbered`, `LastTurnIsEnd`, `LinkFindsMessage` (`EventsInPlace`), `ShownIsFound`, `ShownIsCopied` (`OnScreenIsCurrent`), `RowsStay` (`LayoutKept`) |
| `RecordTree` | mounting, unmounting, a click or key, a panel | `RowsAreTree`, `EveryValueHasRow` (`EventsInPlace`), `ClosedLeavesNothing` (`OnScreenIsCurrent`), `TogglesBelow` (`LayoutKept`), `KeysStayInTree` (`RangesFollowFocus`) |
| `MarkdownRendering` | the effects of one render with the microtasks that follow | `TextsRendered`, `NoneIdle` (`OnScreenIsCurrent`) |
| `Scrolling` | opening, drawing, an attempt to restore, a scroll, a timer | `PositionKept`, `ReturnsWhereLeft`, `NearestAbove` (`OnScreenIsCurrent`), `OutlineFollows` (`RangesFollowFocus`) |

Libraries (react-query's cache, the browser's find, history and layout, virtual lists) are modelled from how this code
uses them, and marked external in `PROJECT.json`.

## 4. Runs

Passing runs check deadlock: the end of a run is an explicit stuttering action (`Closed`, `Over`,
`Rest`, `AllTasksDone`), and anything else that stops is an error. The exception is `viewer`, which rests
whenever the user has nothing more to do within the bounds.

| Run | Instance | Distinct states | Properties |
|---|---|---|---|
| `pool` | 3 workers, 3 transcripts, 2 scanners, one pair already recorded, queue 2 | 88 k | `TypeOK`, `CountersExact`, `NoEarlyLeave`, `NoPairLostOrDoubled`, `QueueBounded`, `Terminates`, `ImplementsStrategy` |
| `mp` | 2 processes, 3 jobs (symmetric), queue of 2, a process may die while starting | 504 k | `TypeOK`, `NoJobLostOrDoubled`, `CollectorLeavesLast`, `NoOrphans` |
| `mp_live` | 2 processes, 2 jobs, queue of 1, no deaths | 330 k | `Terminates`, `ImplementsStrategy` |
| `mp_crash` | 2 processes, 1 job, a process may die at any time | violated | `Terminates` |
| `sem` | 2 processes with 2 tasks each, 2 keys nested, limit 2, 2 threads | 173 k | `TypeOK`, `KeyLimit`, `EveryTaskEnds` |
| `sem_models` | the same tasks, 2 names of one key, limit 1 | violated | `KeyLimit` |
| `recorder` | 2 transcripts, 2 scanners, 2 sessions, nothing exposed | 730 k | `TypeOK`, `WorkKept`, `NeverLost`, `CompleteKeepsAll`, `ErrorListExact`, `ImplementsLedger` |
| `recorder_exposed` | 2 transcripts, 1 scanner, 3 sessions, one vacuous pair, everything exposed | 65 k | `CompleteIsWhole` |
| `recorder_late` | 2 transcripts, 1 scanner, 2 sessions, failures after the sync | violated | `WorkKept` |
| `index` | 1 writer, 1 reader, 2 transcripts (symmetric), 1 session, 2 seconds, 7 files | 2.07 M | `TypeOK`, `Findable`, `DataKept`, `ReaderComplete` |
| `index_session` | the same, 3 seconds, 6 files | violated | `SessionIndexed` |
| `viewer` | the 24 parts, each on its own instance (in `MCViewer.tla` and its `.cfg`) | 999 k | `TypeOK`, `PagesConverge`, `CasesKept`, `CallsGetTheirAnswers`, `ControlsAgree`, `AddressIsShown`, `EventsInPlace`, `OnScreenIsCurrent`, `NoLostUpdate`, `UntouchedKept`, `GoesOnWhereLeft`, `LayoutKept`, `RangesFollowFocus` |

What they show, and why these bounds:

* **pool.** With three workers one can be asleep and one inside an operation while the third takes the
  exit test, which is the case `NoEarlyLeave` is about. Two scanners and one recorded pair give parse jobs of
  two sizes, so a failed parse has a last report and others. Three transcripts and a queue of 2 reach rule 1
  (full), the 80% rule, and the overshoot that `QueueBounded` bounds. Liveness is checked on the same
  instance. In a queue this short the 20% rule says no more than that nothing is buffered; instances with
  queues of 3 (four transcripts too) and of 6, where it says more, were also explored without an error.
* **mp.** Two processes already give unordered channels, a worker that finishes first, and one that
  never gets ready; a queue of one or two makes the producer block on jobs and on sentinels.
  `PipeRoom = 1` makes a worker's exit wait for the drain.
* **sem.** Four tasks contend for two permits, with one task nested in a second semaphore, and two
  processes race to create a name. Each process has as many threads as tasks. With one thread
  (`Threads = 1`) TLC finds a deadlock: a task that holds a permit cannot get a thread for the inner
  semaphore because the waiting tasks hold all of them. The code has 40 threads by default, so
  whether this can happen depends on how many tasks a process runs.
* **recorder.** Two scanners are needed for tables of different age, two transcripts for tables
  that are partly full, two sessions for a resume after any point of the first. Proofs extend it to any number of
  each. `recorder_exposed` has three sessions, so that one can go on from what a
  session left that already went on from a partly removed buffer.
* **index.** Two seconds separate "same second" from "later", the only thing the names can tell.
  Seven files are enough for two inserts in a session, their compaction, and a manifest. Two
  seconds allow two manifests, the most recent of which must win. Instances with three seconds and
  six files were also explored without an error.
* **viewer.** Each instance is as small as its hardest case allows, and its bounds (`MaxEdits`,
  `MaxFaults`, `MaxInputs` ...) count what the user, the network or another window does, never what the
  code does about it. *Calls*: one instance with two calls of one request and one with a call of two; two ids, so that an id is
  drawn twice; two faults and up to two retries, so that answers of an old attempt are under way. *Cases*: two cases, two edits, a
  deletion and a fault, which is a save that overtakes another one and an answer that undoes a later
  edit. *Project*: two saves and a change on disk between load and save. *Pages of rows*: four rows with
  equal and missing values, pages of two, one change, which puts a page's end between equal values and at a
  missing one. *Topics*: one query, two changes, one fault: a change before, during and after a fetch.
  *Events*: up to four recorded events with their spans from a set per kind of log, which reaches
  every rearrangement (solvers, agents, handoffs, scorers, sandboxes, steps). *Find*: lists of four and
  five events, windows of two, so that a match is drawn, behind the window, or before it. *Texts*: two
  texts, three sources, one task at a time, a cache of two.

## 5. Where code and documentation disagree

Each of these is a run that TLC must find violated.

* **`recorder_late`** (`_scan.py:826`). The interruption handler also covers what follows the
  final sync: removing the entry of the active scans, closing the reader, the display, the
  notification of the viewer. An exception or a cancellation there runs `sync(complete=False)` on a scan that is complete
  and whose buffer is gone. The summary becomes incomplete; `scan resume` then starts on an empty
  buffer and scans every pair again. `design/scout.qmd` promises resumption "without losing any
  of the existing work".
* **`mp_crash`** (`multi_process.py:229`). The collector's only exit is a `WorkerComplete` from
  every process, and nothing watches the processes. A killed worker, or one that fails before its
  exceptions are reported upstream, hangs the scan. `design/exception_handling.md` lists worker crashes among the
  exceptions that "must propagate to the top level".
* **`sem_models`** (`_mp_registry.py:189`). Caches are by key, requests and the shared dictionary
  by name. Two names of one key, met in different orders by two processes, become two semaphores
  for one key, and the key's limit is exceeded.
* **`index_session`** (`index.py:63`). The pattern for incremental index files does not match the
  names given to those of a session. Once there is a manifest they are not discovered, and the next commit
  deletes them without having merged them. The parquet files stay (`DataKept` holds), so a rebuild of the
  index brings the transcripts back.

## 6. Proofs

All theorems are for arbitrary constants under the assumptions named in the modules (finite sets
of workers and scanners, positive limits, and so on). TLC evaluates those assumptions in every run.

### ScanPoolProofs (1998 obligations)

| Theorem | Statement |
|---|---|
| `TypeCorrect` | `Spec => []TypeOK`; in particular no counter goes below zero |
| `CountersAreExact` | `Spec => []CountersExact` |
| `NobodyLeavesEarly` | `Spec => []NoEarlyLeave` |
| `NoPairIsLostOrDoubled` | `Spec => []NoPairLostOrDoubled` |
| `DequeIsBounded` | `Spec => []QueueBounded` |
| `PoolKeepsTheContract` | `Spec =>` the initial condition and `[Next]` of `ConcurrencyStrategy`: `ImplementsStrategy` without its liveness |

`TypeOK` alone is not inductive: `tasks_parsing - 1` is a natural number only because somebody
parses. So types and counters are proved together (`Counted`). The argument has three layers.
`CountWithout` and `PopUpdate` say how a cardinality changes when one worker moves. `MoveCounts`,
`StartNextCounts`, `EndIterationCounts` and `UnwindCounts` do this for the pieces actions are made
of: an operation hands over counters that are right for everyone but the worker itself
(`ExactBut`), and the next step puts it back in. `CountedNext` has one step per action.

`NoEarlyLeave` needs `LeaveInv`, which adds that an exhausted iterator has no transcripts left. Its
heart is `LastOneAwake`: if the exit test succeeds, `tasks_idle = task_count - 1` holds, and the idle
workers are a subset of the other live workers with the same cardinality, so they are all of
them. Hence nobody else is inside a parse or a scan.

`NoPairIsLostOrDoubled` is a conservation law over four places: the iterator, the deque, the workers' hands, the
records. `Holds` says what a worker has in hand in each phase (nothing while it chooses, the pairs
of one transcript after a parse, one pair while it scans), without which an action could drop what nobody
expects it to hold. `PoppedCount` and `ExtendedCount` count a pair in a deque that loses its head or gains
a parse job's pairs, `HoldMoves` counts it in the hands; `StepKeepsOccurrences` puts them together for each
action, and `UnwindLosesAtMost` says that a failure takes away and never adds.

`DequeIsBounded` is not inductive: that a parse begins at a short deque says nothing of the moment at which it delivers.
`SurplusFits` gives each worker on a parse its surplus in advance, so that delivering moves a surplus
from the workers' side of the sum to the deque's.

`PoolKeepsTheContract` needs that a pair is recorded once (`NoPairIsLostOrDoubled`), and that all are when the pool
returns: `HeldMeansUnrecorded` and `AllRecordedAtTheEnd`, by `NobodyLeavesEarly`'s invariant.

### ScanRecorderProofs (562 obligations)

| Theorem | Supposes | Statement |
|---|---|---|
| `RecorderTypes` | nothing | `Spec => []TypeOK` |
| `WorkIsKept` | `Spared` | `Spec => []WorkKept` |
| `NothingIsLost` | `Spared` | `Spec => []NeverLost` |
| `CompleteScansKeepAll` | `Spared` | `Spec => []CompleteKeepsAll` |
| `RecorderImplementsLedger` | `Spared` | `Spec => ImplementsLedger` |
| `CompleteScansAreWhole` | nothing | `Spec => []CompleteIsWhole` |
| `ErrorsAreListed` | nothing | whenever `record` has returned, the errors listed are those on file, of the pairs that report and are not to be retried |
| `ErrorListIsExact` | `Vacuous = {}` | `Spec => []ErrorListExact` |

`Spared` says that `Exposed` contains neither `cleaning` nor `synced`. `recorder_late` shows that
without it `WorkIsKept` fails. `CompleteScansAreWhole` holds whatever is exposed.

The inductive invariant `Kept` follows the recorded pairs from the buffer to the tables: until
the removal begins, the buffer holds everything recorded; `sync` fills the tables scanner by
scanner, so those below `next` hold everything recorded for them; when the removal begins the
tables hold it all and the summary says complete, so no session can begin between. None of
`WorkKept`, `NeverLost` and `CompleteKeepsAll` is inductive by itself, and all three follow from `Kept`.

For the refinement, `Accounted` adds where each pair without a result is: still to do, on the list of
errors, or in the middle of `record`. A session that is through with an empty list has
therefore a result for every pair, which is the guard of the ledger's `Finish`. `LedgerStep`
maps each action: `ReplaceFile` to `Enter`, `ForceComplete` to `Accept`, the steps that make `Complete`
true to `Finish`, all others to stuttering.

`WholeInv` is the argument that does not depend on what earlier sessions left: the session that
completes the scan has itself seen to each pair not on file.

`ListInv` is the argument about errors. Between the replacement of a pair's file and the line that `record`
appends, file and list differ for exactly the pair at hand, and that pair is not to do any more, so that no
retry can come between. A pair whose retry reports nothing keeps its old error file and leaves the new list: hence the
restriction to pairs that report, and the hypothesis of the second theorem.

### MultiProcessProofs (2048 obligations)

| Theorem | Supposes | Statement |
|---|---|---|
| `ProcessTypes` | nothing | `Spec => []TypeOK` |
| `CollectorIsLast` | nothing | `Spec => []CollectorLeavesLast` |
| `NobodyIsLeftBehind` | nothing | `Spec => []NoOrphans` |
| `NoJobIsDoubled` | nothing | `Spec => []JobOnce`: no job is in two places, none is recorded twice |
| `NoJobIsLostOrDoubled` | `Deaths` within `starting`, `waiting` | `Spec => []NoJobLostOrDoubled` |
| `ProcessesKeepTheContract` | nothing | `Spec =>` the initial condition and `[Next]` of `ConcurrencyStrategy`: `ImplementsStrategy` without its liveness |

The collector leaves when it has counted as many `complete` as there are processes. `CollectorIsLast` says that
this means the right thing, in whichever order the messages of the processes were merged. `Orderly` describes what
is on the way from one worker (`Fits`: `ready` comes first and once, a farewell last, and who has said farewell has no
jobs), and `ReadyCounted`, `FinishedCounted` name, for each counter, a set of that many workers whose message
is no longer on its way. Counted as many as there are, the set is all of them. `EveryEffect` reduces
every action to one of six effects on a worker, its channel and its jobs.

`JobMoves` is the conservation law: each action takes a job from one of the five places (source, queue, hands, channels,
records) to another, and only a failure, a death at work (`Loses`) or what follows a cancellation takes it away. The
channels are counted as one set of positions (`OnChannels`), split into one worker's and the others'
(`OwnAndOthers`). That a worker which says `complete` has left nothing behind needs the order of the queue:
the sentinels follow the jobs (`FedInOrder`), the producer puts them when all is fed (`FedAll`), and who reports to be complete has
taken one (`Completed`).

Without the hypothesis of `NoJobIsLostOrDoubled` a job may vanish with its process and no failure be on its way: that is `mp_crash`, where
the collector then waits forever. The contract survives it. `JobTally` says why: either every job is somewhere,
or a worker has ended that can never be counted, so that the collector will not leave, and the strategy not return, of itself.

### SemaphoreRegistryProofs (899 obligations)

| Theorem | Supposes | Statement |
|---|---|---|
| `SemaphoreTypes` | nothing | `Spec => []TypeOK` |
| `PermitsBalance` | nothing | `Spec => []Balance` |
| `KeysAreLimited` | `OneNamePerKey` | `Spec => []KeyLimit` |

`Balance`: the permits in a semaphore and those that tasks hold are the limit together, through
cancellations, which do not take a thread out of `acquire`. A task holds what its process
had cached at that key when it entered, so the law needs that caches only grow (`CacheGrows`) and point to
semaphores that exist (`CachedExist`, `EnteredCached`). `KeysAreLimited` then counts the tasks
inside a key by the permits of the key's only name. `OneNamePerKey` cannot be left out: `sem_models` violates
`KeyLimit` with two names of one key.

### TranscriptIndexProofs (1904 obligations)

| Theorem | Supposes | Statement |
|---|---|---|
| `IndexTypes` | nothing | `Spec => []TypeOK` |
| `NoTranscriptIsDeleted` | nothing | `Spec => []DataKept` |
| `SavedAreFound` | `OneWriter` | `Spec => []Findable` |
| `ReadersMissNothing` | `OneWriter` | `Spec => []ReaderComplete` |

The first two hold for any set of writers at work at once, while the runs have one. A parquet file is deleted by an insert
that fails and by a session's compaction. `DataKept` alone does not survive either: the file might be the only one that holds
a transcript. `Kept` asks for a *settled* file, one that nobody is about to take back, and `Apart` says that
no two writers share a session or an unfinished file, so that what one writer deletes is not what keeps
another's transcripts. `Numbered` makes new files different from all before. The types need
that the merge of index files names each transcript once (`OnePerIdPicks`) and that there is a newest manifest
(`NewestIsOne`, by the well-foundedness of the natural numbers).

`Findable` and `ReaderComplete` are about the index too, which is a set of small files that a compaction
replaces by one manifest and then deletes. `FInv` adds to the first invariant what relates the two. `Seen`: what was saved is
named by a file that discovery finds, at every moment of a compaction. `Sound`: no row of it, in any
index file however old, leads to a deleted parquet file, because a merge picks any of the rows of one id.
This is so although a session's compaction does delete files that rows still name: those rows
(`Lost`) are of transcripts written again outside the session (`Backed`), which the insert
at work must know of, lest it saves one a second time. `Place` says for each phase of a
writer what it knows, has listed and is about to name; before the deletion of the old index files begins, the
newest manifest names everything (`Replaces`). A reader keeps the list it discovered (`Listed`), and if every file of that list is still there
when it reads them, it has all that was saved when it began. With a second writer `Place` is not kept: what one has listed, another changes.

### ViewerDataProofs (3314 obligations)

`DataAssumptions` are those of the four modules together; each theorem about one module supposes that one's
`Assumptions` only.

| Theorem | Statement |
|---|---|
| `PagesShowServer` | `DataSpec => []PagesConverge` |
| `NoCaseIsLost` | `DataSpec => []CasesKept` |
| `NothingIsOverwritten` | `DataSpec => NoLostUpdate` |
| `TopicTypes`, `SettingsTypes`, `CasesTypes`, `SetsTypes` | `Spec => []TypeOK` of `TopicUpdates`, `ProjectEditing`, `ValidationEditing`, `ValidationSets` |
| `SeenIsFresh`, `MarkedIsUnderWay`, `WaitingHasSentAll` | `[]FreshWhenSeen`, `[]MarkedIsAsked`, `[]StreamSentAll` of `TopicUpdates` |
| `ScreenNeverOlder` | `[][NeverOlder]_vars` of `TopicUpdates` |
| `SettingsConverge`, `FormStartsFromData` | `[]DataConverges`, `[]OriginalIsData` of `ProjectEditing` |
| `OthersFieldsKept` | `[][KeepsOthersFields]_vars` of `ProjectEditing` |
| `EditsHaveOneKind`, `PanelConverges`, `EditorShowsFile` | `[]UpdatesHaveOneKind`, `[]ListConverges`, `[]EditorConverges` of `ValidationEditing` |
| `FullMoveLosesNothing`, `PanelListsFiles` | `[]FullMoveKeepsCases`, `[]ListsConverge` of `ValidationSets` |

The first three state properties that the run `viewer` checks, for a behaviour of one part: a short lemma per part says that it stays
one of that part, and the part's theorems give the conjuncts.

*Topics.* There is a topic, each query is of one. `FreshWhenSeen` speaks of the moment when client and server agree;
the invariant `Current` speaks of one topic whose version the client has seen (`Caught`), whatever else is outstanding. No message is
ahead of the server (`Behind`), so that one with the present version of a topic was sent after the last announcement of
it; receiving it, the client marked every query of the topic, and what it has asked for since then
is at least as new as what was announced. The exceptions are carried along: a fetch that goes on though its query was
invalidated (`passedOver`). `NeverOlder` needs that an answer under way is no older than the data it will replace (`InOrder`).

*Settings.* `SettingsInv` follows a save from the form to the file. A save carries the fields of the form it
was made from, and the etag of the configuration that this form had started from (`SavesFromEtags`), and its
number tells it from the others under way (`SavesNumbered`). So the server, which takes a save only if the
file has that etag, takes from it exactly what the user changed: that is `KeepsOthersFields`. As long as the page is open
the form started from what the query holds (`FormFromData`). `OnItsWay` is convergence without the end: if no two
writers raced, then the file is what the query holds, or is in an answer, or will be asked for. Who saves has data (`Loaded`).

*Cases.* What is stored, listed or sent has a target or labels, not both and not neither; what the editor shows has not both
(`CasesTyped`), though the user may switch between the two. This needs that the file
kept to it from the start, as the code's own validation demands (`_validation/types.py:57`). `ListComes` and `CaseComes` say by which
ways the content of the file is coming to a page that does not show it yet: an update or a deletion whose answer will invalidate the query, the
query, or its answer. They hold as long as no request failed, and of the editor's case as long as nothing was deleted;
these are the cases in which `ListConverges` and `EditorConverges` promise something.

*Sets.* `Transferring`: while cases are copied or moved nothing else changes the files, and every case that is not left
or failed is already in the target, another file than the source. What is deleted from the source is therefore in the
target, which is `FullMoveKeepsCases`. `NamesKnown`, `SetsCome` and `ListsFresh` are the ways on which the names of files and the lists of
their cases reach the page; a list that a transfer has changed (`Touched`) is asked for again at the transfer's end.

### ViewerTasksProofs (4278 obligations)

`TaskAssumptions` and `ControlAssumptions` are those of the modules together.

| Theorem | Supposes | Statement |
|---|---|---|
| `AnswersForAll` | `TaskAssumptions` | `TaskSpec => []CallsGetTheirAnswers` |
| `AddressForAll` | `TaskAssumptions` | `TaskSpec => []AddressIsShown` |
| `GoesOn` | `TaskAssumptions` | `TaskSpec => GoesOnWhereLeft` |
| `ControlsShowTheirs` | `ControlAssumptions` | `ControlSpec => []ControlsAgree` |
| `NothingTouchedByItself` | `ControlAssumptions` | `ControlSpec => UntouchedKept` |
| `CallsTypes`, `FindTypes`, `PlaceTypes` | the module's | `Spec => []TypeOK` of `ServerCalls`, `FindInPage`, `Routing` |
| `CallsGetOwnAnswer`, `NoCallIsForgotten` | the module's | `[]OwnAnswer`, `[]NoCallForgotten` of `ServerCalls` |
| `LatestSearchAnswered`, `NoResultsForAReason`, `NextNeverGoesBack` | the module's | `[]LatestIsAnswered`, `[]NoResultsIsTrue`, `[][NextGoesOn]_vars` of `FindInPage` |
| `AddressFollowed`, `SavedAsShown`, `WebviewReturns` | the module's | `[]StoreFollowsAddress`, `[]SavedIsCurrent`, `[][ReturnsToScan]_vars` of `Routing` |
| `WidthsStayInLimits` | the module's | `[]WidthsWithinLimits` of `TableColumns` |
| `ConditionsFit`, `SuggestsForItsColumn` | the module's | `[]ConditionsWellFormed`, `[]SuggestionsOfColumn` of `FilterEditing` |
| `HighlightStays`, `LabelIsTyped` | nothing | `[]HighlightInList`, `[][AddsWhatIsTyped]_vars` of `Autocomplete` |
| `TextIsSaved`, `ErrorIsAboutText` | nothing | `[]TextSaysValue`, `[]ErrorOnlyWhileWrong` of `FormFields` |
| `NoPreviewLeft`, `OnePreview`, `PreviewStays` | the module's | `[]AwayMeansClosed`, `[]OnePopover`, `[][OnlyLeftIsDismissed /\ StaysUnderMouse]_vars` of `References` |

The first five state properties that the run `viewer` checks.

*Calls.* Every call has a request, there is a worker. Two maps have to be right: the transport's from ids to handlers, and the pool's from
numbers to requests. For the first, an id drawn twice is possible, and `Transport` says what the calls that it
did not hit can count on: their messages have their ids for themselves (`OwnIds`), and message and handler
come and go together (`Handled`, `Expected`). That a new attempt's requests are not confused
with late answers to the last one needs `Dated`: no message is of an attempt that was not made. For the second, numbers are
never used again, so that what the workers have in hand (`AtHand`) under the number of a pending request
is the text of that request (`OwnJobs`). It may be there for a request that nobody waits for any more, which a
failed worker has rejected. `Remembered` says that each part of an open call is on one of these ways
(`Sought`); a step either moves it on, or rejects the call and so ends it.

*Find.* The lists are not empty, and the parts that an item shows have positions within the item. Of a search for the next match
that nothing disturbed, `AnswersRight` says that what it found is behind the place from which it began, or that it found nothing
because no item behind the drawn ones has the term, or the first that has it does not show it. A search
that waits for the list to scroll has to keep this promise in the meantime: `WaitingInOrder` says where the selection and the
drawn window are until then, with the help of `WithinReach` (the selection, and what was found last, are not below the drawn
items). `CalledWaits`: the callback that is to come is that of a search that waits for it.

*Routes.* The two invariants and `PlaceSaved` (what will be saved is the store, what is saved was one) are inductive together. An
effect of a page runs only when what it depends on has changed. So a lemma about all navigation takes two conditions on the store:
`Prepared`, that it says already what the new page will not take from its address because the
page before had the same name and parameters, and `Follows`, that it says afterwards what the page needs.

*Controls.* `WidthsInv`: every width, by hand or automatic, is a number between the limits of its column, and of a column
that exists (`ClampIs`: clamping makes it so, and leaves what was). `FilterInv` says of each column which conditions an editor can build for it (`Fits`), and that an editor shows the
condition of its column as long as it is not touched. That is what makes the round trip work: closing
it then changes nothing. `HighlightInList` is inductive by itself. `FieldInv` adds to the two properties the error
that is still held back by its timer. `RefInv` relates the timers of a preview to the mouse: the delay runs only
while the mouse is on the link, and a preview that is shown has the mouse on it or on its link, or is about to go, because of the link that was left (`RefTimed`).

The assumptions on constants say what the code guarantees: a column is a string or a number column and not both, and columns are listed once; a width's
limits leave room for it; no scan, condition or citation is the value that stands for none; the tabs of a result and
those of other pages differ.

### Model-checked only

* Liveness (`Terminates`, `EveryTaskEnds`, and the fairness of `ImplementsStrategy`): the prover does not
  handle `ENABLED` and fairness.
* `EventsInPlace`, `OnScreenIsCurrent`, `LayoutKept` and `RangesFollowFocus` of the viewer. What they are about is built from data: trees of
  events and records (`EventTree` and `RecordTree` declare `RECURSIVE` operators), and rows, messages and columns that are
  filtered, sorted and folded. What such a definition computes for every input needs induction over the data. `OnScreenIsCurrent` also has a
  part that is proved, `OwnAnswer` and `NoCallForgotten` of a call of two requests: the theorems of `ServerCalls` are for any.
* `TypeOK` of `MCViewer` as a whole. The theorems of types are for seven of its parts.

## 7. Assumptions: atomicity, faults, fairness

**Atomicity.** In the pool: await to await. Between processes: one queue or shared-memory operation. On
disk: one write, with two steps where a torn file can be met later (`_scan.json`, tables), and one step
where the code writes aside and renames. Appending to the errors file and writing a parquet file
are one step; a parquet file torn by a crash is a hazard listed without a property.

**Faults.** The pool: any parse, scan, record or iterator call fails; cancellation at any await. The
processes: any exception in a worker, a death in the states of `Deaths`, an interrupt of the main process. The
recorder: a crash between any two writes, a failing write at any of them, an interrupt. The
database: a crash or a failing write at each step, a file that cannot be deleted. A torn summary of the
buffer is read as a fresh one, as the code does. The viewer: any request fails before or after the server has
taken it, answers arrive in any order, a worker that parses fails, the stream of topics breaks or the
server restarts, another window or an editor changes the files; timers of different lengths fire in the
order of their lengths, and anything may happen between.

**Fairness.**

| Module | Assumed | Why |
|---|---|---|
| `ScanPool` | weak fairness of each worker's steps and of `Close`; none of `Fail`, `Interrupt` | the event loop runs ready tasks; scanners and parsers return (Inspect's own limits end them); `anyio.Lock` is first-in first-out |
| `MultiProcess` | weak fairness of the producer, the collector on each channel, each worker, and the shutdown; none of failures, interrupts or deaths | the operating system schedules each process; the feeder thread of each queue delivers |
| `SemaphoreRegistry` | weak fairness of each task's steps and of serving a request; once the collector has stopped, every process is cancelled | threads run; the parent reads the queue; the shutdown signals or terminates every process |
| `ScanRecorder`, `TranscriptIndex` | none | safety only |
| `MCViewer` | none | safety only: what must be the case eventually is stated of the states in which everything was answered (`PagesConverge`), or as the promise that something is under way (`NoCallForgotten`, `LatestIsAnswered`) |

`StopJoining` is a timeout of two seconds in the code. The model lets it happen at any time after
`Signal`, which covers every speed of the workers.

**Bounds.** `MaxSessions` (sessions of a scan), `MaxTime` and `MaxFiles` (seconds and files of a
database) are guards in the models. The theorems of `ScanRecorder` hold for any `MaxSessions`,
those of `TranscriptIndex` for any times, files and writers.

## 8. What is not modelled

* *Several users at once.* Commands on one scan come one after the other, although nothing stops `scan complete`
  in a second process beside a running session. In the runs the database has one writer.
  (`NoTranscriptIsDeleted` is proved for any number, the theorems about the index for one.) With two writers TLC finds `Findable` violated, by a rebuild that runs while an insert fails: it indexes
  the parquet file which the insert then deletes.
* *Contents.* Rows, metrics, validation results, reports, the wording of errors.
* *Spawning.* All processes exist from the start. If one cannot be spawned the code never reaches
  the shutdown; planned. More than 50 workers without tasks would block the producer on sentinels
  nobody takes (`PARSE_JOB_PREFETCH_SIZE`); `MaxProcesses = 3, TaskCount = 1, PrefetchSize = 1` shows it.
* *A torn `_scan.json`.* `Resume` is refused for good, which the model has (`spec = "torn"`), but no property forbids it.
* *Counts in summaries* are kept in the recorder's state, without a property: a pair retried in a
  later session is counted twice and nothing decides on the count.
* *Manifests of one second.* `WriteManifest` waits for a later second than the last manifest's; in the code
  the random part of the name would decide.
* *Rows of deleted files.* Without a manifest, a compacted session's old index files win over the new one
  (`Rank`), and their rows name deleted parquet files. Transcripts inserted with a session are therefore not part of `Findable`.
* *After a failed insert* an id counts as inserted, from when its row was read, so that a second insert on the same
  connection skips it. A torn parquet file, and two processes that delete what the other has just listed, are as little modelled.
* Local file cache (a marker whose process died is waited for without an end), index cache (one
  temporary name for all processes), active scans, observe nesting, deletion of a scan, and the stateless parts:
  see the components in `PROJECT.json`, each with its reason.
* *The viewer's drawing*: layout, styles, wording, dates, the views of most events, image and audio contents, the
  terminal and code editors, what the browser and the libraries do inside. The rows that `PROJECT.json`
  maps are a third of its lines; the rest are such views, generated types, and cell formats.

### What the viewer does not keep

The conjuncts of the viewer's properties leave out the cases below, each with a guard, a bound or a
history variable that the module's comment names. They are what the code does, found while it was modelled.

| Where | What happens |
|---|---|
| `_pagination_helpers.py:47`, `condition.py:60` | A page that ends with a missing sort value makes the next page's request fail; rows without a value behind one with a value are never listed. `useAdjacentTranscriptIds.ts:50` repeats the failing request without an end. |
| `useTopicInvalidation.ts:33` | An invalidation during a query's first fetch, or one of a page that was left, is lost. |
| `_api_v2_topics.py:43` | A notification while the stream yields is lost until the next one. |
| `jsonrpc.ts:142` | An id drawn twice gives a call another's answer and leaves the other open. |
| `ValidationCaseTargetEditor.tsx:81` | What is typed as a target is saved when typing pauses, to the set that is chosen by then. |
| `ProjectPanel.tsx:303` | The key that is invalidated is no beginning of the query's key: discarding one's changes asks the server for nothing. |
| `configUtils.ts:170` | What the form does not show (scanners, worklist and others) is left out of what is saved, and so removed from the file. |
| `useProjectConfig.ts:23` | The topic's invalidation loads the settings again, and the form with changes is overwritten. |
| `FormFields.tsx:151` | Editing one line converts the types of the others. |
| `useColumnSizing.ts:61` | Resizing one column takes all of them for resized by hand. |
| `DataGrid.tsx:504`, `:268` | The anchor of a range is the first key of an object, so that extending upwards does not keep it; a column shown after the order was chosen cannot be moved. |
| `useColumnFilter.ts:134` | Of a list of two values only the first is shown, and applied again. |
| `AutocompleteInput.tsx:229` | Enter on a marked suggestion adds the text that was typed. |
| `ScannerResultsList.tsx:233` | Enter opens the result `undefined` when no visible row is selected. |
| `app/utils/arrow.ts:233` | Rows made up for absent labels take target and verdict of the first row. |
| `treeify.ts:258` | The events of a scorer's span without an end are not shown. |
| `StateEventView.tsx:296` | `setPath` descends only into keys that it has just made. |
| `useCollapsibleIds.ts:28` | The default depth of a record's tree is never applied. |
| `messages.ts:94` | An answer that comes after a message of the user is not shown at its call. |
| `FindBand.tsx:74` | A term that had no results in one direction is not searched in the other. |
| `MarkdownDiv.tsx:208` | `cancel()` marks the first task of the queue, not its own. |
| `scrolling.ts:24` | A page left within a second of its last scroll is stored as scrolled to the top. |

## 9. Plan

Order of importance: what loses or repeats a user's work first, then what hangs, then what misleads.

Done: the strategies and their contract, semaphores, recorder and sessions with their ledger, transcript index;
theorems of the pool, the recorder, the processes, the semaphores, the database, and of the viewer's topics, editors, sets, calls, find, routes and controls; the viewer's calls, topics, pages, editors, tables, results, routes, and
the way from events and messages to the screen.

Next, models:

1. `LocalFilesCache`: processes, marker and file, with crashes and cancellation. Expected: waiting
   for a marker whose owner is gone never ends.
2. `MultiProcess`: a spawn that fails half-way; `ScanRecorder`: a second process that completes a scan
   under a running session.
3. Observe contexts over `TranscriptIndex`; the index cache; the active scans.
4. The viewer: `TopicUpdates` under the editors (`ValidationEditing`, `ProjectEditing`) in place of their own
   foreign changes; liveness of `ServerCalls` and `TopicUpdates`.

Next, proofs:

1. `MarkdownRendering`: no task is left idle in the queue. `SetSelector`: what was chosen is edited.
2. `Scrolling`: a position is kept. `GridSelection`: a range ends at the focus. `ScanResults`: identifiers differ.
