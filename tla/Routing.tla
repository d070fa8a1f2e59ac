-------------------------------- MODULE Routing --------------------------------
(***************************************************************************)
(* Where the viewer is (AppRouter.tsx, url.ts): the address and the        *)
(* browser's history, the store that the pages write their address to and  *)
(* that is saved after a pause (store.ts), the messages of the extension,  *)
(* and the return to the last page when VS Code brings a webview back.     *)
(* What React runs after a render is part of the step that caused it.      *)
(***************************************************************************)
EXTENDS Integers, Sequences, SequencesExt

CONSTANTS Scans, Results, Scanners,
          ResultTabs,   \* tabs of a result that the address may name
          OtherTabs,    \* and those it may not: Error and Metadata
          MaxInputs     \* bound: clicks, messages and returns, of a webview and of a browser

None == "none"
Bad == "not_a_scan"
Assumptions ==
  /\ MaxInputs \in [BOOLEAN -> Nat] /\ ResultTabs \cap OtherTabs = {}
  /\ Scans \cap {None, Bad} = {}

VARIABLES webview,        \* in VS Code; in a browser nothing is saved
          embedded,       \* the message in the document (getEmbeddedAppMessage)
          page, past, future,
          loaded,         \* scans whose status is there
          store,
          disk, saving,   \* what is saved, and what setItem will save
          returns,        \* of the webview, or reloads of the browser's page
          inputs

historyVars == <<past, future>>
savedVars == <<disk, saving>>
vars == <<webview, embedded, page, historyVars, loaded, store, savedVars, returns, inputs>>

ScanTab == "scan-detail-tabs-info"
Tabs == ResultTabs \cup OtherTabs \cup {ScanTab, None}
NoParams == [scanner |-> None, tab |-> None, validation |-> FALSE]

At(name, scan, result, params) ==
  [name |-> name, scan |-> scan, result |-> result, params |-> params]
Root == At("root", None, None, NoParams)
ScansPage == At("scans", None, None, NoParams)
Transcripts == At("transcripts", None, None, NoParams)
ScanRoute(s, params) == At("scan", s, None, [params EXCEPT !.tab = None])
ResultRoute(s, r, params) == At("result", s, r, params)

InitialStore ==
  [location |-> None, scanner |-> None, selected |-> None, displayed |-> None,
   resultsTab |-> None, resultTab |-> None, singleFile |-> FALSE,
   hasEmbedded |-> FALSE, hasRouted |-> FALSE]

Nothing == [type |-> "nothing"]
UpdateRoute(p, mode) == [type |-> "updateRoute", route |-> p, mode |-> mode]
UpdateState(s, scanner) == [type |-> "updateState", scan |-> s, scanner |-> scanner]
Routes == {ScansPage} \cup {ScanRoute(s, NoParams) : s \in Scans \cup {Bad}}
Messages == {UpdateRoute(p, m) : p \in Routes, m \in {"full", "single-file"}}
            \cup {UpdateState(s, c) : s \in Scans, c \in Scanners \cup {None}}

Saved(v) == [type |-> "saved", state |-> v]
NotSaved == [type |-> "none"]

TypeOK ==
  /\ page.name \in {"scans", "transcripts", "scan", "result"}
  /\ page.scan \in Scans \cup {None} /\ page.result \in Results \cup {None}
  /\ page.params.tab \in Tabs /\ loaded \subseteq Scans
  /\ store.location \in Scans \cup {None} /\ store.scanner \in Scanners \cup {None}
  /\ store.resultsTab \in {ScanTab, None}
  /\ store.resultTab \in ResultTabs \cup OtherTabs \cup {None}
  /\ inputs \in 0..MaxInputs[webview]

-----------------------------------------------------------------------------
(* Saving: persist, createDebouncedPersistStorage *)

\* partialize leaves out what starts anew.  (Faulty variant: it does not.)
PersistedWhole(s) == s
Persisted(s) == [s EXCEPT !.hasRouted = FALSE]

\* debounce keeps the arguments of the last call.  (Faulty variant: of the first.)
FirstArgs(s) == IF saving = NotSaved THEN Saved(Persisted(s)) ELSE saving
Args(s) == Saved(Persisted(s))

SetStore(s) ==
  /\ store' = s
  /\ saving' = IF webview THEN Args(s) ELSE NotSaved

\* debouncedSetItem is called at last.
SaveNow ==
  /\ saving # NotSaved
  /\ disk' = saving /\ saving' = NotSaved
  /\ UNCHANGED <<webview, embedded, page, historyVars, loaded, store, returns, inputs>>

-----------------------------------------------------------------------------
(* Pages *)

\* ScanOrScanResultsRoute sends what is no scan to the list of scans.
Landing(p) == IF p.name = "scan" /\ p.scan = Bad THEN ScansPage ELSE p

\* The scanner of the address goes to the store at every change of the
\* parameters.  (Faulty variant: when the page appears.)
ScannerOnMount(s, mounts, changed, p) ==
  IF mounts /\ p.params.scanner # None THEN p.params.scanner ELSE s.scanner
ScannerFor(s, mounts, changed, p) ==
  IF (mounts \/ changed) /\ p.params.scanner # None THEN p.params.scanner ELSE s.scanner

\* clearScansState
ScansMounted(s) == [s EXCEPT !.scanner = None, !.selected = None, !.displayed = None]

\* ScanPanel: its body, there if the status is, takes the tab before the panel
\* clears the state of a scan (clearScanState).
ScanShown(s, mounts, changed, p) ==
  [s EXCEPT !.location = p.scan,
            !.scanner = ScannerFor(s, mounts, changed, p),
            !.resultsTab = CASE mounts -> None
                             [] ~mounts /\ changed /\ p.params.tab = ScanTab /\ p.scan \in loaded -> ScanTab
                             [] OTHER -> @,
            !.resultTab = IF mounts THEN None ELSE @]

\* ScannerResultPanel
ResultShown(s, mounts, changed, p) ==
  [s EXCEPT !.location = p.scan,
            !.scanner = ScannerFor(s, mounts, changed, p),
            !.selected = p.result, !.displayed = p.result,
            !.resultTab = IF (mounts \/ changed) /\ p.params.tab \in ResultTabs
                          THEN p.params.tab ELSE @]

\* The store after the effects of page p, coming from page q.
Effects(s, q, p) ==
  LET mounts == q.name # p.name
      changed == q.params # p.params
  IN  CASE p.name = "scans" -> IF mounts THEN ScansMounted(s) ELSE s
        [] p.name = "scan" -> ScanShown(s, mounts, changed, p)
        [] p.name = "result" -> ResultShown(s, mounts, changed, p)
        [] p.name = "transcripts" -> s

\* The document appears: RootIndexRedirect and useRoutingInitializer after
\* useWindowMessaging, which reads the embedded message once.
Handled(s) == IF s.hasEmbedded THEN Nothing ELSE embedded

AfterMessage(s, msg) ==
  CASE msg.type = "updateRoute" -> [s EXCEPT !.singleFile = (msg.mode = "single-file")]
    [] msg.type = "updateState" ->
         [s EXCEPT !.singleFile = TRUE,
                   !.scanner = IF msg.scanner # None THEN msg.scanner ELSE @]
    [] msg.type = "nothing" -> s

MessageRoute(msg, otherwise) ==
  CASE msg.type = "updateRoute" -> Landing(msg.route)
    [] msg.type = "updateState" -> ScanRoute(msg.scan, NoParams)
    [] msg.type = "nothing" -> otherwise

\* The legacy message is skipped when a scanner was restored.
Embedded(s) == LET m == Handled(s)
               IN  IF m.type = "updateState" /\ s.scanner # None THEN Nothing ELSE m

StartPage(s, p) ==
  LET q == MessageRoute(Embedded(s), IF p = Root THEN Transcripts ELSE p)
  IN  IF ~s.hasRouted /\ q \in {ScansPage, Transcripts} /\ s.location # None
      THEN IF s.displayed # None THEN ResultRoute(s.location, s.displayed, NoParams)
           ELSE ScanRoute(s.location, NoParams)
      ELSE q

StartStore(s, p) ==
  [Effects(AfterMessage(s, Embedded(s)), Root, StartPage(s, p))
     EXCEPT !.hasEmbedded = TRUE, !.hasRouted = TRUE]

-----------------------------------------------------------------------------
(* Steps *)

\* A browser opens an address of its own, a webview the root.
Init ==
  /\ webview \in BOOLEAN
  /\ embedded \in IF webview THEN Messages \cup {Nothing} ELSE {Nothing}
  /\ loaded = {}
  /\ \E p \in IF webview THEN {Root} ELSE Routes \ {ScanRoute(Bad, NoParams)} :
       /\ page = StartPage(InitialStore, p)
       /\ store = StartStore(InitialStore, p)
  /\ past = <<>> /\ future = <<>>
  /\ disk = NotSaved
  /\ saving = IF webview THEN Saved(Persisted(store)) ELSE NotSaved
  /\ returns = 0 /\ inputs = 0

Input == inputs < MaxInputs[webview] /\ inputs' = inputs + 1

Replace(s, p) ==
  /\ page' = Landing(p)
  /\ SetStore(Effects(s, page, page'))
  /\ UNCHANGED <<webview, embedded, historyVars, loaded, disk, returns>>

Push(s, p) ==
  /\ page' = Landing(p)
  /\ SetStore(Effects(s, page, page'))
  /\ past' = Append(past, page) /\ future' = <<>>
  /\ UNCHANGED <<webview, embedded, loaded, disk, returns>>

\* Links: a row of the list of scans, a result of the scan that is there.
ClickScan(s) == Input /\ page.name = "scans" /\ Push(store, ScanRoute(s, NoParams))
ClickResult(r) ==
  /\ Input /\ page.name = "scan" /\ page.scan \in loaded /\ store.resultsTab = None
  /\ Push(store, ResultRoute(page.scan, r, page.params))

\* handlePrevious, handleNext
StepTo(r) ==
  /\ Input /\ page.name = "result" /\ r # page.result
  /\ Push(store, ResultRoute(page.scan, r, page.params))

\* The sidebar of the scan: handleClick.
ChooseScanner(c) ==
  /\ Input /\ page.name = "scan" /\ page.scan \in loaded
  /\ Replace([store EXCEPT !.scanner = c], [page EXCEPT !.params.scanner = c])

\* handleTabChange: the scan's forgets the other parameters.
ChooseScanTab ==
  /\ Input /\ page.name = "scan" /\ page.scan \in loaded
  /\ Push([store EXCEPT !.resultsTab = ScanTab],
          [page EXCEPT !.params = [NoParams EXCEPT !.tab = ScanTab]])
ChooseResultTab(t) ==
  /\ Input /\ page.name = "result"
  /\ Push([store EXCEPT !.resultTab = t], [page EXCEPT !.params.tab = t])

ToggleValidation ==
  /\ Input /\ page.name = "result"
  /\ Push(store, [page EXCEPT !.params.validation = ~@])

\* ScansNavbar; a webview of a single file only goes back to its scan.
NavbarBack ==
  /\ Input
  /\ \/ page.name = "result" /\ Push(store, ScanRoute(page.scan, page.params))
     \/ page.name = "scan" /\ ~store.singleFile /\ Push(store, ScansPage)
Home ==
  /\ Input /\ page.name \in {"scan", "result"} /\ ~store.singleFile
  /\ Push(store, ScansPage)

\* handleSelectActivity
SelectActivity(p) == Input /\ ~store.singleFile /\ p # page /\ Push(store, p)

\* The browser's own buttons.
BrowserBack ==
  /\ Input /\ past # <<>>
  /\ page' = Last(past) /\ past' = Front(past) /\ future' = <<page>> \o future
  /\ SetStore(Effects(store, page, page'))
  /\ UNCHANGED <<webview, embedded, loaded, disk, returns>>
BrowserForward ==
  /\ Input /\ future # <<>>
  /\ page' = Head(future) /\ future' = Tail(future) /\ past' = Append(past, page)
  /\ SetStore(Effects(store, page, page'))
  /\ UNCHANGED <<webview, embedded, loaded, disk, returns>>

\* processAppMessage, from the extension
Message(msg) ==
  /\ Input /\ webview
  /\ Replace(AfterMessage(store, msg), MessageRoute(msg, page))

\* The status of the scan arrives, and its body takes the tab of the address.
ScanArrives ==
  /\ page.name \in {"scan", "result"} /\ page.scan \notin loaded
  /\ loaded' = loaded \cup {page.scan}
  /\ IF page.name = "scan" /\ page.params.tab = ScanTab
     THEN SetStore([store EXCEPT !.resultsTab = ScanTab]) ELSE UNCHANGED <<store, saving>>
  /\ UNCHANGED <<webview, embedded, page, historyVars, disk, returns, inputs>>

\* VS Code drops the webview, or the machine stops, and brings it back later;
\* a browser's page is loaded anew at its address.
Return ==
  LET s == IF webview /\ disk # NotSaved THEN disk.state ELSE InitialStore
      p == IF webview THEN Root ELSE page
  IN
  /\ Input
  /\ returns' = returns + 1
  /\ page' = StartPage(s, p)
  /\ loaded' = {}
  /\ LET after == StartStore(s, p)
     IN  /\ store' = after
         /\ saving' = IF webview THEN Saved(Persisted(after)) ELSE NotSaved
  /\ IF webview THEN past' = <<>> /\ future' = <<>> ELSE UNCHANGED historyVars
  /\ UNCHANGED <<webview, embedded, disk>>

Next ==
  \/ \E s \in Scans : ClickScan(s)
  \/ \E r \in Results : ClickResult(r) \/ StepTo(r)
  \/ \E c \in Scanners : ChooseScanner(c)
  \/ ChooseScanTab
  \/ \E t \in ResultTabs \cup OtherTabs : ChooseResultTab(t)
  \/ ToggleValidation
  \/ NavbarBack \/ Home
  \/ \E p \in {ScansPage, Transcripts} : SelectActivity(p)
  \/ BrowserBack \/ BrowserForward
  \/ \E msg \in Messages : Message(msg)
  \/ ScanArrives
  \/ SaveNow
  \/ Return

Spec == Init /\ [][Next]_vars

-----------------------------------------------------------------------------
(* Properties *)

\* Wherever links, messages and the browser's buttons lead, the pages use what
\* the address says: the scanner and the result it names, its tab if it may have
\* one, and the scan that is remembered for the next return.
StoreFollowsAddress ==
  page.name \in {"scan", "result"} =>
    /\ store.location = page.scan
    /\ page.params.scanner \in {None, store.scanner}
    /\ page.name = "result" => /\ page.result = store.selected
                               /\ page.result = store.displayed
                               /\ page.params.tab \in ResultTabs => page.params.tab = store.resultTab

\* When nothing is waiting to be saved, what is saved is what the viewer shows.
SavedIsCurrent ==
  webview /\ saving = NotSaved => disk = Saved([store EXCEPT !.hasRouted = FALSE])

\* A webview that saved comes back to the scan that was open.
ReturnsToScan ==
  webview /\ saving = NotSaved /\ page.name \in {"scan", "result"} /\ returns' # returns =>
    page'.scan = page.scan
=============================================================================
