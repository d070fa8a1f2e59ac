--------------------------- MODULE ValidationSets ---------------------------
(***************************************************************************)
(* The panel of validation sets (ValidationPanel.tsx): the list of files,  *)
(* the file selected in it, the cases ticked in that file, and the dialogs *)
(* that delete or rename the file and copy or move the ticked cases to     *)
(* another (CopyMoveCasesModal.tsx).  Of a case only its presence in a file*)
(* matters here; what is inside it is ValidationEditing's.                 *)
(***************************************************************************)
EXTENDS Naturals, FiniteSets, FiniteSetsExt

CONSTANTS Sets,        \* possible files, numbers in the order they are listed
          Cases,       \* ids of cases
          Matching,    \* the cases the split filter and the search let through
          InitialFiles,\* contents of the project at the start
          MaxChanges,  \* bound: files deleted or renamed
          MaxTransfers,\* bound: copies and moves
          MaxFailures  \* bound: requests that fail

VARIABLES files,       \* of each existing file the ids of its cases
          sets,        \* query ["validationSets"]
          setsFetch,   \* that query: Idle, Asked, or its answer on the way
          list,        \* queries ["validationCases", uri], of each possible file
          listFetch,   \* those queries
          selected,    \* selectedValidationSetUri
          ticked,      \* validationCaseSelection
          filtering,   \* a split filter or a search text is set
          change,      \* the deletion or renaming of a file under way
          transfer,    \* the copy or move under way
          gone,        \* names of files deleted or renamed (no state of the code)
          lost,        \* cases the last copy or move left in no file
          count        \* changes, transfers and failures so far

vars == <<files, sets, setsFetch, list, listFetch, selected, ticked, filtering,
          change, transfer, gone, lost, count>>

None == 0
NoData == [known |-> FALSE]
Data(d) == [known |-> TRUE, data |-> d]
Idle == [state |-> "idle"]
Asked == [state |-> "asked"]
Answer(d) == [state |-> "answered", data |-> d]
Nothing == [op |-> "none"]

Assumptions ==
  /\ Sets \subseteq Nat \ {None}
  /\ Matching \subseteq Cases
  /\ \A f \in InitialFiles :
       DOMAIN f \subseteq Sets /\ \A s \in DOMAIN f : f[s] \subseteq Cases
  /\ {MaxChanges, MaxTransfers, MaxFailures} \subseteq Nat

TypeOK ==
  /\ DOMAIN files \subseteq Sets /\ \A s \in DOMAIN files : files[s] \subseteq Cases
  /\ sets.known => sets.data \subseteq Sets
  /\ \A s \in Sets : list[s].known => list[s].data \subseteq Cases
  /\ selected \in Sets \cup {None}
  /\ ticked \subseteq Cases
  /\ filtering \in BOOLEAN
  /\ change.op \in {"none", "delete", "rename"}
  /\ transfer.op \in {"none", "copy", "move"}
  /\ lost \subseteq Cases

\* filteredCases, and the ticked ones among them (selectedCases).
Visible(s) == IF ~list[s].known THEN {}
              ELSE IF filtering THEN list[s].data \cap Matching ELSE list[s].data
VisibleTicked == ticked \cap Visible(selected)

\* The effect "Auto-select first validation set when loaded": it runs in the
\* render that finds nothing selected.
AutoSelected(uri, known) ==
  IF uri = None /\ known.known /\ known.data # {} THEN Min(known.data) ELSE uri

\* A newly selected file's cases are fetched unless they are in the cache.
FetchFor(uri, fetches) ==
  IF uri # None /\ ~list[uri].known /\ fetches[uri] = Idle
  THEN [fetches EXCEPT ![uri] = Asked] ELSE fetches

\* setSelectedValidationSetUri, which unticks all cases, then the effect.
Select(uri, known, fetches) ==
  /\ selected' = AutoSelected(uri, known)
  /\ ticked' = {}
  /\ listFetch' = FetchFor(selected', fetches)

\* invalidateQueries for the cases of uri: only the query of the selected file
\* is in use; another one is dropped here, as it runs again when selected.  (The
\* faulty variant invalidates nothing.)
InvalidateNone(uri) == UNCHANGED <<list, listFetch>>
InvalidateList(uri) ==
  /\ listFetch' = IF uri = selected THEN [listFetch EXCEPT ![uri] = Asked]
                  ELSE [listFetch EXCEPT ![uri] = Idle]
  /\ list' = IF uri = selected THEN list ELSE [list EXCEPT ![uri] = NoData]

Counted(what, bound) ==
  /\ count[what] < bound
  /\ count' = [count EXCEPT ![what] = @ + 1]

Init ==
  /\ files \in InitialFiles
  /\ sets = NoData /\ setsFetch = Asked
  /\ list = [s \in Sets |-> NoData] /\ listFetch = [s \in Sets |-> Idle]
  /\ selected = None /\ ticked = {} /\ filtering = FALSE
  /\ change = Nothing /\ transfer = Nothing /\ gone = {} /\ lost = {}
  /\ count = [changes |-> 0, transfers |-> 0, failures |-> 0]

-----------------------------------------------------------------------------
(* Queries *)

ServerListsSets ==
  /\ setsFetch = Asked
  /\ setsFetch' = Answer(DOMAIN files)
  /\ UNCHANGED <<files, sets, list, listFetch, selected, ticked, filtering,
                 change, transfer, lost, count, gone>>

SetsArrive ==
  /\ setsFetch.state = "answered"
  /\ sets' = Data(setsFetch.data)
  /\ setsFetch' = Idle
  /\ IF selected = None THEN Select(None, sets', listFetch)
     ELSE UNCHANGED <<selected, ticked, listFetch>>
  /\ UNCHANGED <<files, list, filtering, change, transfer, lost, count, gone>>

\* The server answers 404 for a file that is gone, and the query keeps its data.
ServerListsCases(s) ==
  /\ listFetch[s] = Asked
  /\ listFetch' = [listFetch EXCEPT ![s] =
                     IF s \in DOMAIN files THEN Answer(files[s]) ELSE Idle]
  /\ UNCHANGED <<files, sets, setsFetch, list, selected, ticked, filtering,
                 change, transfer, lost, count, gone>>

CasesArrive(s) ==
  /\ listFetch[s].state = "answered"
  /\ list' = [list EXCEPT ![s] = Data(listFetch[s].data)]
  /\ listFetch' = [listFetch EXCEPT ![s] = Idle]
  /\ UNCHANGED <<files, sets, setsFetch, selected, ticked, filtering, change,
                 transfer, lost, count, gone>>

-----------------------------------------------------------------------------
(* Selecting *)

Free == transfer = Nothing

\* handleSelectSet clears selection and filters before it selects.
SelectSet(uri) ==
  /\ Free /\ sets.known /\ uri \in sets.data \ {selected}
  /\ Select(uri, sets, listFetch)
  /\ filtering' = FALSE
  /\ UNCHANGED <<files, sets, setsFetch, list, change, transfer, lost, count, gone>>

Tick(c) ==
  /\ Free /\ selected # None /\ c \in Visible(selected)
  /\ ticked' = IF c \in ticked THEN ticked \ {c} ELSE ticked \cup {c}
  /\ UNCHANGED <<files, sets, setsFetch, list, listFetch, selected, filtering,
                 change, transfer, lost, count, gone>>

\* Select all and deselect all act on the visible cases.
TickAll ==
  /\ Free /\ selected # None /\ Visible(selected) # {}
  /\ ticked' = IF Visible(selected) \subseteq ticked
               THEN ticked \ Visible(selected) ELSE ticked \cup Visible(selected)
  /\ UNCHANGED <<files, sets, setsFetch, list, listFetch, selected, filtering,
                 change, transfer, lost, count, gone>>

\* The filter box: cases ticked before stay ticked when it hides them.
Filter ==
  /\ Free /\ selected # None
  /\ filtering' = ~filtering
  /\ UNCHANGED <<files, sets, setsFetch, list, listFetch, selected, ticked,
                 change, transfer, lost, count, gone>>

-----------------------------------------------------------------------------
(* Deleting and renaming a file *)

Begin(op, new) ==
  /\ Free /\ change = Nothing /\ selected # None
  /\ Counted("changes", MaxChanges)
  /\ change' = [op |-> op, uri |-> selected, new |-> new, state |-> "sent"]
  /\ UNCHANGED <<files, sets, setsFetch, list, listFetch, selected, ticked,
                 filtering, transfer, lost, gone>>

DeleteSet == Begin("delete", None)
RenameSet(new) == Begin("rename", new)

\* Both refuse a file that is gone; renaming refuses a name that is taken.
ServerChanges ==
  LET refused == \/ change.uri \notin DOMAIN files
                 \/ change.op = "rename" /\ change.new \in DOMAIN files
      others == DOMAIN files \ {change.uri}
  IN  /\ change # Nothing /\ change.state = "sent"
      /\ change' = [change EXCEPT !.state = IF refused THEN "failed" ELSE "done"]
      /\ files' = IF refused THEN files
                  ELSE IF change.op = "delete" THEN [s \in others |-> files[s]]
                  ELSE [s \in others \cup {change.new} |->
                          IF s = change.new THEN files[change.uri] ELSE files[s]]
      /\ gone' = IF refused THEN gone ELSE gone \cup {change.uri}
      /\ UNCHANGED <<sets, setsFetch, list, listFetch, selected, ticked,
                     filtering, transfer, lost, count>>

\* onSuccess of the hook runs the list of sets again; that of the panel then
\* clears the selection, and the effect selects from the list of before, or it
\* selects the renamed file.
ChangeSucceeds ==
  /\ change # Nothing /\ change.state = "done"
  /\ change' = Nothing
  /\ setsFetch' = Asked
  /\ IF change.op = "delete"
     THEN Select(None, sets, listFetch) /\ filtering' = FALSE
     ELSE Select(change.new, sets, listFetch) /\ UNCHANGED filtering
  /\ UNCHANGED <<files, sets, list, transfer, lost, count, gone>>

ChangeFails ==
  /\ change # Nothing /\ change.state = "failed"
  /\ change' = Nothing
  /\ UNCHANGED <<files, sets, setsFetch, list, listFetch, selected, ticked,
                 filtering, transfer, lost, count, gone>>

-----------------------------------------------------------------------------
(* Copying and moving cases: handleSubmit *)

\* To an existing file, or to a new one that is created first.  What is ticked
\* and what of it is visible are those of the click.
Submit(op, to) ==
  /\ Free /\ change = Nothing /\ ticked # {} /\ selected # None
  /\ sets.known /\ to \in Sets \ {selected}
  /\ Counted("transfers", MaxTransfers)
  /\ transfer' = [op |-> op, from |-> selected, to |-> to, ids |-> ticked,
                  visible |-> VisibleTicked, state |->
                    IF to \in sets.data THEN "copying" ELSE "creating",
                  left |-> VisibleTicked, failed |-> {}, deleted |-> {}]
  /\ lost' = {}
  /\ UNCHANGED <<files, sets, setsFetch, list, listFetch, selected, ticked,
                 filtering, change, gone>>

\* Creating refuses a file that exists; success lists the sets again.
CreateTarget ==
  /\ transfer # Nothing /\ transfer.state = "creating"
  /\ IF transfer.to \in DOMAIN files
     THEN transfer' = Nothing /\ UNCHANGED <<files, setsFetch>>
     ELSE /\ files' = [s \in DOMAIN files \cup {transfer.to} |->
                         IF s = transfer.to THEN {} ELSE files[s]]
          /\ transfer' = [transfer EXCEPT !.state = "copying"]
          /\ setsFetch' = Asked
  /\ UNCHANGED <<sets, list, listFetch, selected, ticked, filtering, change,
                 lost, count, gone>>

\* One of the upserts sent at once is answered.
CopyOne(c) ==
  /\ transfer # Nothing /\ transfer.state = "copying" /\ c \in transfer.left
  /\ transfer.to \in DOMAIN files
  /\ files' = [files EXCEPT ![transfer.to] = @ \cup {c}]
  /\ transfer' = [transfer EXCEPT !.left = @ \ {c}]
  /\ UNCHANGED <<sets, setsFetch, list, listFetch, selected, ticked, filtering,
                 change, lost, count, gone>>

CopyFails(c) ==
  /\ transfer # Nothing /\ transfer.state = "copying" /\ c \in transfer.left
  /\ IF transfer.to \in DOMAIN files THEN Counted("failures", MaxFailures)
     ELSE UNCHANGED count
  /\ transfer' = [transfer EXCEPT !.left = @ \ {c}, !.failed = @ \cup {c}]
  /\ UNCHANGED <<files, sets, setsFetch, list, listFetch, selected, ticked,
                 filtering, change, lost, gone>>

\* All copies are answered.  When every one failed the dialog stays; else a
\* move goes on, after the target's cases were invalidated.
MayGoOn == transfer.failed = {} \/ transfer.failed # transfer.visible

\* Promise.allSettled, and a faulty variant that goes on at the first answer.
OneCopyAnswered == transfer.left # transfer.visible
AllCopiesAnswered == transfer.left = {}

\* The ids a move then deletes from the source.
ToDelete == transfer.ids

CopiesSettle ==
  /\ transfer # Nothing /\ transfer.state = "copying" /\ AllCopiesAnswered
  /\ IF MayGoOn
     THEN /\ InvalidateList(transfer.to)
          /\ IF transfer.op = "move"
             THEN transfer' = [transfer EXCEPT !.state = "deleting", !.left = ToDelete]
                  /\ UNCHANGED ticked
             ELSE transfer' = Nothing /\ ticked' = {}
     ELSE /\ transfer' = Nothing
          /\ UNCHANGED <<list, listFetch, ticked>>
  /\ UNCHANGED <<files, sets, setsFetch, selected, filtering, change, lost, count, gone>>

DeleteOne(c) ==
  /\ transfer # Nothing /\ transfer.state = "deleting" /\ c \in transfer.left
  /\ LET there == transfer.from \in DOMAIN files /\ c \in files[transfer.from] IN
     /\ transfer' = [transfer EXCEPT !.left = @ \ {c},
                                     !.deleted = IF there THEN @ \cup {c} ELSE @]
     /\ files' = IF there THEN [files EXCEPT ![transfer.from] = @ \ {c}] ELSE files
     /\ lost' = IF there /\ \A s \in DOMAIN files \ {transfer.from} : c \notin files[s]
                THEN lost \cup {c} ELSE lost
  /\ UNCHANGED <<sets, setsFetch, list, listFetch, selected, ticked, filtering,
                 change, count, gone>>

DeleteFails(c) ==
  /\ transfer # Nothing /\ transfer.state = "deleting" /\ c \in transfer.left
  /\ Counted("failures", MaxFailures)
  /\ transfer' = [transfer EXCEPT !.left = @ \ {c}]
  /\ UNCHANGED <<files, sets, setsFetch, list, listFetch, selected, ticked,
                 filtering, change, lost, gone>>

\* useBulkDeleteValidationCases: the source's cases run again if one deletion
\* succeeded; if none did, the dialog stays and the cases stay ticked.
MoveEnds ==
  /\ transfer # Nothing /\ transfer.state = "deleting" /\ transfer.left = {}
  /\ transfer' = Nothing
  /\ IF transfer.deleted # {}
     THEN InvalidateList(transfer.from) /\ ticked' = {}
     ELSE UNCHANGED <<list, listFetch, ticked>>
  /\ UNCHANGED <<files, sets, setsFetch, selected, filtering, change, lost, count, gone>>

-----------------------------------------------------------------------------
Requests ==
  \/ ServerListsSets \/ SetsArrive
  \/ \E s \in Sets : ServerListsCases(s) \/ CasesArrive(s)
  \/ ServerChanges \/ ChangeSucceeds \/ ChangeFails
  \/ CreateTarget \/ CopiesSettle \/ MoveEnds
  \/ \E c \in Cases : CopyOne(c) \/ CopyFails(c) \/ DeleteOne(c) \/ DeleteFails(c)

User ==
  \/ \E s \in Sets : SelectSet(s) \/ RenameSet(s)
  \/ \E c \in Cases : Tick(c)
  \/ TickAll \/ Filter \/ DeleteSet
  \/ \E op \in {"copy", "move"}, s \in Sets : Submit(op, s)

Next == Requests \/ User
Spec == Init /\ [][Next]_vars

-----------------------------------------------------------------------------
(* Properties *)

\* A moved case is in the target or still in the source (handleSubmit,
\* CopyMoveCasesModal.tsx).
MovedCasesKept == lost = {}

\* No case is lost by a move of visible cases whose copies all succeeded, in
\* whatever order the requests of both files are taken.
FullMoveKeepsCases ==
  transfer # Nothing /\ transfer.ids = transfer.visible /\ transfer.failed = {}
    => lost \cap transfer.ids = {}

\* Once all is answered, the list of files is the project's, and the cases
\* shown are those of the selected file, unless its name was once another's:
\* deleting or renaming a file leaves its cases in the cache.
Settled == /\ change = Nothing /\ transfer = Nothing /\ setsFetch = Idle
           /\ \A s \in Sets : listFetch[s] = Idle
ListsConverge ==
  Settled => /\ sets = Data(DOMAIN files)
             /\ selected \in DOMAIN files \ gone => list[selected] = Data(files[selected])
=============================================================================
