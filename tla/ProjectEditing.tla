--------------------------- MODULE ProjectEditing ---------------------------
(***************************************************************************)
(* The settings page of a project (ProjectPanel.tsx, SettingsContent.tsx,  *)
(* configUtils.ts, useNestedConfig.ts) over the query that holds scout.yaml*)
(* (useProjectConfig.ts) and the server, which takes a save only when its  *)
(* If-Match is the hash of the file.  Other windows save through the server*)
(* too, which tells this one; an editor changes the file untold.           *)
(***************************************************************************)
EXTENDS Naturals, FiniteSets, Sequences, SequencesExt

CONSTANTS Plain,       \* fields of the page that hold one value
          Vals,        \* non-null values
          InitialFiles,\* contents scout.yaml may have, also those others write
          MaxEdits,    \* bound: fields changed
          MaxSaves,    \* bound: saves sent
          MaxForeign,  \* bound: changes from another window or an editor
          MaxFailures  \* bound: saves that fail other than by a conflict

VARIABLES scoutYaml,   \* the file; its hash stands for its content
          data,        \* the query: the config whose etag is its content
          dataFetch,   \* Idle, Asked or the answer on its way
          notice,      \* the server has told of a change of project-config
          edited,      \* editedConfig
          original,    \* originalConfig
          lastSaved,   \* lastSavedEtagRef
          conflict,    \* conflictError
          saves,       \* saves sent and not yet answered
          latest,      \* the save mutation observes
          location,    \* "editing", "blocked" by unsaved changes, or "left"
          raced,       \* the file changed untold, or while a save's answer was on
                       \* its way (no state of the code)
          reloaded,    \* discarded since the file changed last (no state of the code)
          spent        \* edits, saves, foreign changes and failures so far

vars == <<scoutYaml, data, dataFetch, notice, edited, original, lastSaved,
          conflict, saves, latest, location, raced, reloaded, spent>>

-----------------------------------------------------------------------------
(* Configurations *)

\* null, undefined and a missing key are one once the server has read them.
Null == [type |-> "null"]
Value(v) == [type |-> "value", value |-> v]
Values == {Null} \cup {Value(v) : v \in Vals}

\* batch is off, true, or an object with a size.
On == [type |-> "on"]
Object(size) == [type |-> "object", size |-> size]
Batches == {Null, On} \cup {Object(s) : s \in Values}

\* generate_config: a number of its own and the nested batch, or null.
Generate == {Null} \cup [num: Values, batch: Batches]
Num(g) == IF g = Null THEN Null ELSE g.num
Batch(g) == IF g = Null THEN Null ELSE g.batch
GenerateOf(num, batch) ==
  IF num = Null /\ batch = Null THEN Null ELSE [num |-> num, batch |-> batch]

\* other stands for the fields the page does not show (scanners, worklist, ...).
Config == [plain: [Plain -> Values], gen: Generate, other: Values]
Form == [plain: [Plain -> Values], gen: Generate]

Assumptions ==
  /\ InitialFiles \subseteq Config
  /\ {MaxEdits, MaxSaves, MaxForeign, MaxFailures} \subseteq Nat

initializeEditedConfig(config) == [plain |-> config.plain, gen |-> config.gen]

\* An object keeps what changed or has content; when nothing is left of one
\* that was on before, it becomes true.
cleanNestedConfig(new, old) ==
  IF new \in {Null, On} THEN new
  ELSE IF new.size # Null \/ old \in {Null, On} \/ old.size # Null THEN new
  ELSE On

cleanGenerateConfig(new, old) ==
  IF new = Null THEN Null
  ELSE GenerateOf(new.num, cleanNestedConfig(new.batch, Batch(old)))

\* Only the keys of the form have an edited value: the others count as
\* unchanged and empty, and are left out.
computeConfigToSave(new, old) ==
  [plain |-> new.plain, gen |-> cleanGenerateConfig(new.gen, old.gen), other |-> Null]

\* _clean_empty_values: empty objects go with the nulls.
Cleaned(config) ==
  LET batch == IF Batch(config.gen) = Object(Null) THEN Null ELSE Batch(config.gen)
  IN  [config EXCEPT !.gen = GenerateOf(Num(config.gen), batch)]

-----------------------------------------------------------------------------
NoData == <<>>
Known(config) == <<config>>
Idle == <<>>
Asked == <<"asked">>
Answer(config) == <<"answer", config>>
NoForm == <<>>
NoEtag == <<>>

TypeOK ==
  /\ scoutYaml \in Config
  /\ data = NoData \/ data[1] \in Config
  /\ dataFetch \in {Idle, Asked} \/ dataFetch[2] \in Config
  /\ {notice, raced, reloaded} \subseteq BOOLEAN
  /\ edited = NoForm \/ edited \in Form
  /\ original = NoForm \/ original \in Form
  /\ conflict \in BOOLEAN
  /\ \A s \in saves : /\ s.config \in Config /\ s.form \in Form
                      /\ s.state \in {"sent", "done", "conflict", "failed"}
  /\ location \in {"editing", "blocked", "left"}

Counted(what, bound) ==
  /\ spent[what] < bound
  /\ spent' = [spent EXCEPT ![what] = @ + 1]

Init ==
  /\ scoutYaml \in InitialFiles
  /\ data = NoData /\ dataFetch = Asked /\ notice = FALSE
  /\ edited = NoForm /\ original = NoForm /\ lastSaved = NoEtag
  /\ conflict = FALSE /\ saves = {} /\ latest = 0
  /\ location = "editing" /\ raced = FALSE /\ reloaded = FALSE
  /\ spent = [edits |-> 0, saves |-> 0, foreign |-> 0, failures |-> 0]

-----------------------------------------------------------------------------
(* The query *)

ConfigKey == <<"project-config", "project-config-inv">>

\* invalidateQueries by key takes the queries whose key begins with it.
Invalidated(key) == IF IsPrefix(key, ConfigKey) THEN Asked ELSE dataFetch

\* A topic takes the queries whose key includes its name.
NoticeArrives ==
  /\ notice
  /\ notice' = FALSE
  /\ dataFetch' = IF "project-config-inv" \in Range(ConfigKey) THEN Asked ELSE dataFetch
  /\ UNCHANGED <<scoutYaml, data, edited, original, lastSaved, conflict, saves,
                 latest, location, reloaded, spent, raced>>

ServerReads ==
  /\ dataFetch = Asked
  /\ dataFetch' = Answer(scoutYaml)
  /\ UNCHANGED <<scoutYaml, data, notice, edited, original, lastSaved, conflict,
                 saves, latest, location, reloaded, spent, raced>>

\* The effect that initializes the form: also when the etag is neither that of
\* the form nor that of the page's own save.  (The faulty variant spares a form
\* with changes.)
OwnSaveOrEdited(config) == lastSaved = Known(config) \/ edited # original
OwnSave(config) == lastSaved = Known(config)
Initialize(config) ==
  IF edited # NoForm /\ OwnSave(config)
  THEN UNCHANGED <<edited, original, lastSaved>>
  ELSE /\ edited' = initializeEditedConfig(config)
       /\ original' = edited'
       /\ lastSaved' = Known(config)

ConfigArrives ==
  /\ dataFetch \notin {Idle, Asked}
  /\ data' = Known(dataFetch[2])
  /\ dataFetch' = Idle
  /\ IF location = "left" THEN UNCHANGED <<edited, original, lastSaved>>
     ELSE Initialize(dataFetch[2])
  /\ UNCHANGED <<scoutYaml, notice, conflict, saves, latest, location, reloaded, spent, raced>>

-----------------------------------------------------------------------------
(* The form *)

Edit(form) ==
  /\ location = "editing" /\ edited # NoForm /\ form # edited
  /\ Counted("edits", MaxEdits)
  /\ edited' = form
  /\ UNCHANGED <<scoutYaml, data, dataFetch, notice, original, lastSaved,
                 conflict, saves, latest, location, reloaded, raced>>

EditPlain(f, v) == edited # NoForm /\ Edit([edited EXCEPT !.plain[f] = v])

\* updateGenerateConfig merges, drops nulls, and makes nothing left a null.
EditNum(v) ==
  edited # NoForm /\ Edit([edited EXCEPT !.gen = GenerateOf(v, Batch(@))])

SetBatchEnabled(on) ==
  edited # NoForm /\ Edit([edited EXCEPT !.gen = GenerateOf(Num(@), IF on THEN On ELSE Null)])

UpdateBatch(size) ==
  /\ edited # NoForm /\ Batch(edited.gen) # Null
  /\ Edit([edited EXCEPT !.gen = GenerateOf(Num(@), Object(size))])

HasChanges == edited # original

-----------------------------------------------------------------------------
(* Saving *)

Pending == \E s \in saves : s.id = latest

\* handleSave, handleSaveWithFocusRestore and handleSaveAndNavigate: without an
\* etag the save is forced.
Send(etag, navigate) ==
  /\ data # NoData /\ edited # NoForm
  /\ Counted("saves", MaxSaves)
  /\ latest' = spent.saves + 1
  /\ saves' = saves \cup
       {[id |-> latest', config |-> computeConfigToSave(edited, original),
         etag |-> etag, form |-> edited, from |-> original,
         navigate |-> navigate, state |-> "sent"]}
  /\ UNCHANGED <<scoutYaml, data, dataFetch, notice, edited, original, lastSaved,
                 conflict, location, reloaded, raced>>

\* The button needs changes, the shortcut does not.
Save == location = "editing" /\ ~Pending /\ Send(data, FALSE)

KeepMyChanges == location = "editing" /\ conflict /\ Send(NoEtag, FALSE)

SaveAndNavigate == location = "blocked" /\ Send(data, TRUE)

\* put_project_config.  All that write through the server tell the windows; the
\* faulty variant does not.
PutSilently(config) ==
  /\ scoutYaml' = Cleaned(config)
  /\ raced' = (raced \/ \E s \in saves : s.state = "done")
  /\ reloaded' = FALSE
  /\ UNCHANGED notice
Put(config) ==
  /\ scoutYaml' = Cleaned(config)
  /\ raced' = (raced \/ \E s \in saves : s.state = "done")
  /\ notice' = TRUE
  /\ reloaded' = FALSE

ServerPuts(s) ==
  LET refused == s.etag # NoEtag /\ s.etag # Known(scoutYaml) IN
  /\ s.state = "sent"
  /\ saves' = (saves \ {s}) \cup {IF refused THEN [s EXCEPT !.state = "conflict"]
                ELSE [s EXCEPT !.state = "done", !.config = Cleaned(@)]}
  /\ IF refused THEN UNCHANGED <<scoutYaml, notice, raced, reloaded>> ELSE Put(s.config)
  /\ UNCHANGED <<data, dataFetch, edited, original, lastSaved, conflict, latest,
                 location, spent>>

PutFails(s) ==
  /\ s.state = "sent"
  /\ Counted("failures", MaxFailures)
  /\ saves' = (saves \ {s}) \cup {[s EXCEPT !.state = "failed"]}
  /\ UNCHANGED <<scoutYaml, data, dataFetch, notice, edited, original, lastSaved,
                 conflict, latest, location, reloaded, raced>>

\* The form is compared with what was sent from now on, not, as in the faulty
\* variant, with what it holds when the answer comes.
FormNow(s) == edited
SavedForm(s) == s.form

\* Both onSuccess run before the page renders the new data: that of the query
\* always, that of the call only for the latest one and while the page is open.
SaveSucceeds(s) ==
  /\ s.state = "done"
  /\ saves' = saves \ {s}
  /\ data' = Known(s.config)
  /\ CASE location = "left" -> UNCHANGED <<edited, original, lastSaved, conflict, location>>
       [] location # "left" /\ s.id = latest ->
            /\ conflict' = FALSE
            /\ lastSaved' = Known(s.config)
            /\ original' = SavedForm(s)
            /\ location' = IF s.navigate /\ location = "blocked" THEN "left" ELSE location
            /\ edited' = IF edited = NoForm THEN initializeEditedConfig(s.config) ELSE edited
       [] location # "left" /\ s.id # latest ->
            Initialize(s.config) /\ UNCHANGED <<conflict, location>>
  /\ UNCHANGED <<scoutYaml, dataFetch, notice, latest, reloaded, spent, raced>>

SaveEndsBadly(s) ==
  LET seen == s.id = latest /\ location # "left" IN
  /\ s.state \in {"conflict", "failed"}
  /\ saves' = saves \ {s}
  /\ conflict' = (conflict \/ (seen /\ s.state = "conflict"))
  /\ location' = IF seen /\ s.navigate THEN "editing" ELSE location
  /\ UNCHANGED <<scoutYaml, data, dataFetch, notice, edited, original, lastSaved,
                 latest, reloaded, spent, raced>>

\* handleReload empties the form, and the effect fills it from the query.
DiscardMyChanges ==
  /\ location = "editing" /\ conflict
  /\ conflict' = FALSE
  /\ edited' = initializeEditedConfig(data[1])
  /\ original' = edited'
  /\ lastSaved' = data
  /\ dataFetch' = Invalidated(<<"project-config-inv">>)
  /\ reloaded' = TRUE
  /\ UNCHANGED <<scoutYaml, data, notice, saves, latest, location, spent, raced>>

-----------------------------------------------------------------------------
(* Leaving *)

Navigate ==
  /\ location = "editing"
  /\ location' = IF HasChanges THEN "blocked" ELSE "left"
  /\ UNCHANGED <<scoutYaml, data, dataFetch, notice, edited, original, lastSaved,
                 conflict, saves, latest, reloaded, spent, raced>>

\* Don't Save, or Cancel.
AnswerBlocker ==
  /\ location = "blocked"
  /\ location' \in {"left", "editing"}
  /\ UNCHANGED <<scoutYaml, data, dataFetch, notice, edited, original, lastSaved,
                 conflict, saves, latest, reloaded, spent, raced>>

-----------------------------------------------------------------------------
(* Others *)

ForeignSave(config) ==
  /\ config # scoutYaml
  /\ Counted("foreign", MaxForeign)
  /\ Put(config)
  /\ UNCHANGED <<data, dataFetch, edited, original, lastSaved, conflict, saves,
                 latest, location>>

EditorSave(config) ==
  /\ config # scoutYaml
  /\ Counted("foreign", MaxForeign)
  /\ scoutYaml' = config
  /\ raced' = TRUE
  /\ reloaded' = FALSE
  /\ UNCHANGED <<data, dataFetch, notice, edited, original, lastSaved, conflict,
                 saves, latest, location>>

-----------------------------------------------------------------------------
Answers ==
  \/ NoticeArrives \/ ServerReads \/ ConfigArrives
  \/ \E s \in saves : ServerPuts(s) \/ SaveSucceeds(s) \/ SaveEndsBadly(s)

User ==
  \/ \E f \in Plain, v \in Values : EditPlain(f, v)
  \/ \E v \in Values : EditNum(v) \/ UpdateBatch(v)
  \/ \E on \in BOOLEAN : SetBatchEnabled(on)
  \/ Save \/ KeepMyChanges \/ SaveAndNavigate \/ DiscardMyChanges
  \/ Navigate \/ AnswerBlocker

Others ==
  \/ \E s \in saves : PutFails(s)
  \/ \E config \in InitialFiles : ForeignSave(config) \/ EditorSave(config)

Next == Answers \/ User \/ Others
Spec == Init /\ [][Next]_vars

-----------------------------------------------------------------------------
(* Properties *)

\* No lost update: a save that is not forced changes a field of scout.yaml only
\* where the user did, whatever other windows and editors wrote and whichever
\* answers came late (handleSave, put_project_config).
KeepsOthersFields ==
  \A s \in saves :
    s.state = "sent" /\ s.etag # NoEtag /\ scoutYaml' # scoutYaml
      /\ [s EXCEPT !.state = "done", !.config = Cleaned(@)] \in saves'
    => \A f \in Plain : s.form.plain[f] = s.from.plain[f]
                          => scoutYaml'.plain[f] = scoutYaml.plain[f]
NoLostUpdate == [][KeepsOthersFields]_vars

\* Once everything is answered and every notice taken, the page shows the file,
\* unless an editor changed it, or somebody did while the answer to a save of
\* the page was on its way: that answer then replaces newer data.
Quiet == dataFetch = Idle /\ ~notice /\ saves = {}
DataConverges ==
  Quiet /\ ~raced => data = Known(scoutYaml)

\* What the form compares with is what the query holds, so that changes are
\* changes of that: also when a save, its notice and a reload overtake.  (A
\* batch whose size was cleared is saved as off, later as on.)
OriginalIsData ==
  Quiet /\ location # "left" /\ original # NoForm /\ latest = spent.saves
    => /\ original.plain = data[1].plain
       /\ Num(original.gen) = Num(data[1].gen)

\* After Discard My Changes the page holds the file: "the init effect will
\* re-initialize from server" (ProjectPanel.tsx:303).
ReloadShowsServer == reloaded /\ Quiet => data = Known(scoutYaml)

\* Saving the form leaves alone what it does not show: what goes into the file
\* "includes values that have changed or have content" (configUtils.ts:171).
OtherFieldsKept ==
  [][\A s \in saves : s.state = "sent" /\ s.etag # NoEtag /\ scoutYaml' # scoutYaml
       /\ [s EXCEPT !.state = "done", !.config = Cleaned(@)] \in saves'
       => scoutYaml'.other = scoutYaml.other]_vars

\* The form changes by the user's hand only: "Automatic refetching is
\* disabled", the user "chooses to reload or force save" (useProjectConfig.ts:23).
EditsKept ==
  [][edited' # edited => spent'.edits # spent.edits \/ edited = NoForm \/ ~HasChanges
                         \/ (reloaded' /\ ~reloaded)]_vars
=============================================================================
