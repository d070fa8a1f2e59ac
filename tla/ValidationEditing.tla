------------------------- MODULE ValidationEditing -------------------------
(***************************************************************************)
(* Editing the cases of one validation set: the editor beside a transcript *)
(* (ValidationCaseEditor.tsx), which changes one case field by field, and  *)
(* the panel (ValidationPanel.tsx), which changes and deletes several, over*)
(* the query cache (useValidations.ts) and the file on the server.         *)
(*                                                                         *)
(* An edit is written into the cache at once and sent as a whole case.  Its*)
(* success makes the queries run again, its failure puts back what the     *)
(* cache held when it was made.  Requests travel on connections of their   *)
(* own: the server takes them in any order, and answers overtake.          *)
(***************************************************************************)
EXTENDS Naturals, FiniteSets, Functions

CONSTANTS Cases,       \* ids of cases
          Edited,      \* the transcript beside which the editor is open
          Splits,      \* names a case can be assigned to
          LabelSets,   \* non-null values of the labels field
          InitialFiles,\* contents the file may have at the start
          MaxEdits,    \* bound: edits made, each sending one or more upserts
          MaxDeletes,  \* bound: deletions asked for
          MaxFaults    \* bound: requests that fail, and changes from another window

VARIABLES stored,      \* the file: of each id its case, or Absent
          cached,      \* query ["validationCase", Edited]
          cachedList,  \* query ["validationCases"]: of each id its case
          fetch,       \* of each query: Idle, Asked, or the answer on its way
          upserts,     \* updates sent and not yet answered
          deletes,     \* deletions sent and not yet answered
          typing,      \* the debounced text of an "other" target
          heldBack,    \* the editor changed the cache without sending
          page,        \* which of the two is open: "editor" or "panel"
          watched,     \* the update and the deletion whose progress the page shows
          made         \* edits, deletions and faults so far

vars == <<stored, cached, cachedList, fetch, upserts, deletes, typing,
          heldBack, page, watched, made>>

NoValue == "null"
Empty == "empty"                     \* "Other" was chosen, nothing typed yet
Targets == {NoValue, Empty, "boolean", "text"}
Case == [target: Targets, labels: LabelSets \cup {NoValue},
         predicate: {NoValue, "eq", "gt"}, split: Splits \cup {NoValue}]

\* The file has no such case.  Of the case query this is null, its answer to
\* a 404.
Absent == [target |-> "absent"]
Entry == Case \cup {Absent}

Assumptions ==
  /\ Edited \in Cases
  /\ InitialFiles \subseteq [Cases -> Entry] /\ NoValue \notin LabelSets
  \* A case has a target or labels, never both or neither (_validation/types.py).
  /\ \A f \in InitialFiles, c \in Cases :
       f[c] # Absent => (f[c].target = NoValue) # (f[c].labels = NoValue)
  /\ {MaxEdits, MaxDeletes, MaxFaults} \subseteq Nat

NoData == [target |-> "no data"]
NoList == <<>>
Idle == <<>>
Asked == <<"asked">>
Answered(data) == <<"answered", data>>
HasAnswer(q) == fetch[q] \notin {Idle, Asked}
Queries == {"case", "list"}
Nothing == <<>>

TypeOK ==
  /\ stored \in [Cases -> Entry]
  /\ cached \in Entry \cup {NoData}
  /\ cachedList = NoList \/ cachedList \in [Cases -> Entry]
  /\ HasAnswer("case") => fetch["case"][2] \in Entry
  /\ HasAnswer("list") => fetch["list"][2] \in [Cases -> Entry]
  /\ \A u \in upserts : /\ u.case \in Cases /\ u.data \in Case
                        /\ u.state \in {"sent", "done", "failed"}
  /\ \A d \in deletes : d.case \in Cases /\ d.state \in {"sent", "done", "failed"}
  /\ typing \in {NoValue, "text"}
  /\ heldBack \in BOOLEAN
  /\ page \in {"editor", "panel"}

NewCase == [target |-> NoValue, labels |-> NoValue,
            predicate |-> NoValue, split |-> NoValue]

\* The queries of the page: the editor uses both, the panel the list.
Active == IF page = "editor" THEN Queries ELSE {"list"}

\* invalidateQueries: a query in use runs again, a running one from the start.
Invalidate(qs) ==
  fetch' = [q \in Queries |-> IF q \in qs \cap Active THEN Asked ELSE fetch[q]]

Init ==
  /\ page \in {"editor", "panel"}
  /\ stored \in InitialFiles
  /\ cached = NoData /\ cachedList = NoList
  /\ fetch = [q \in Queries |-> IF q \in Active THEN Asked ELSE Idle]
  /\ upserts = {} /\ deletes = {}
  /\ typing = NoValue /\ heldBack = FALSE
  /\ watched = [update |-> Nothing, delete |-> Nothing]
  /\ made = [edits |-> 0, deletes |-> 0, faults |-> 0]

Counted(what, bound) ==
  /\ made[what] < bound
  /\ made' = [made EXCEPT ![what] = @ + 1]

-----------------------------------------------------------------------------
(* Queries *)

ServerReads(q) ==
  /\ fetch[q] = Asked
  /\ fetch' = [fetch EXCEPT ![q] = Answered(IF q = "case" THEN stored[Edited] ELSE stored)]
  /\ UNCHANGED <<stored, cached, cachedList, upserts, deletes, typing,
                 heldBack, page, watched, made>>

CaseArrives ==
  /\ HasAnswer("case")
  /\ cached' = fetch["case"][2]
  /\ heldBack' = FALSE
  /\ fetch' = [fetch EXCEPT !["case"] = Idle]
  /\ UNCHANGED <<stored, cachedList, upserts, deletes, typing, page, watched, made>>

ListArrives ==
  /\ HasAnswer("list")
  /\ cachedList' = fetch["list"][2]
  /\ fetch' = [fetch EXCEPT !["list"] = Idle]
  /\ UNCHANGED <<stored, cached, upserts, deletes, typing, heldBack,
                 page, watched, made>>

\* Leaving the editor within the 600 ms drops the debounced text.
LeaveEditor ==
  /\ typing # NoValue
  /\ typing' = NoValue
  /\ UNCHANGED <<stored, cached, cachedList, fetch, upserts, deletes,
                 heldBack, page, watched, made>>

-----------------------------------------------------------------------------
(* Updates: useUpdateValidationCase *)

\* onMutate, for the whole cases new[c] of the ids c in its domain: cancel the
\* running queries, remember the cache, show the edits where there is data.
\* The first update of several remembers the cache without any of them, each
\* later one with those before it.
ListWith(new, before) ==
  IF cachedList = NoList THEN NoList
  ELSE [c \in Cases |-> IF c \in before /\ cachedList[c] # Absent
                         THEN new[c] ELSE cachedList[c]]

SendUpdates(new, before) ==
  LET sent == DOMAIN new
      shows == Edited \in sent /\ cached \in Case
      cancelled == {"list"} \cup (IF Edited \in sent THEN {"case"} ELSE {})
  IN  /\ fetch' = [q \in Queries |-> IF q \in cancelled THEN Idle ELSE fetch[q]]
      /\ cached' = IF shows THEN new[Edited] ELSE cached
      /\ cachedList' = ListWith(new, sent)
      /\ upserts' = upserts \cup
           {[id |-> made.edits, case |-> c, data |-> new[c], state |-> "sent",
             previousCase |-> IF c = Edited THEN cached ELSE NoData,
             previousList |-> ListWith(new, before[c])] : c \in sent}

\* upsert_validation_case refuses a case with both or neither of the two.
OneKind(c) == (c.target = NoValue) # (c.labels = NoValue)

ServerUpserts(u) ==
  /\ u.state = "sent"
  /\ IF OneKind(u.data)
     THEN /\ stored' = [stored EXCEPT ![u.case] = u.data]
          /\ upserts' = (upserts \ {u}) \cup {[u EXCEPT !.state = "done"]}
     ELSE /\ upserts' = (upserts \ {u}) \cup {[u EXCEPT !.state = "failed"]}
          /\ UNCHANGED stored
  /\ UNCHANGED <<cached, cachedList, fetch, deletes, typing, heldBack, page, watched, made>>

\* The request is lost, or the file cannot be written.
UpsertLost(u) ==
  /\ u.state = "sent"
  /\ Counted("faults", MaxFaults)
  /\ upserts' = (upserts \ {u}) \cup {[u EXCEPT !.state = "failed"]}
  /\ UNCHANGED <<stored, cached, cachedList, fetch, deletes, typing, heldBack, page, watched>>

\* onSuccess, and faulty variants that forget one of the queries.
OnlyTheCase(u) == IF u.case = Edited THEN {"case"} ELSE {}
OnlyTheList(u) == {"list"}
ToInvalidate(u) == {"list"} \cup (IF u.case = Edited THEN {"case"} ELSE {})

UpdateSucceeds(u) ==
  /\ u.state = "done"
  /\ upserts' = upserts \ {u}
  /\ Invalidate(ToInvalidate(u))
  /\ UNCHANGED <<stored, cached, cachedList, deletes, typing, heldBack, page, watched, made>>

\* onError: both queries go back to what they held, without running again.
UpdateFails(u) ==
  /\ u.state = "failed"
  /\ upserts' = upserts \ {u}
  /\ cached' = IF u.previousCase \in Case THEN u.previousCase ELSE cached
  /\ cachedList' = IF u.previousList # NoList THEN u.previousList ELSE cachedList
  /\ UNCHANGED <<stored, fetch, deletes, typing, heldBack, page, watched, made>>

-----------------------------------------------------------------------------
(* The editor *)

Shown == IF cached \in Case THEN cached ELSE NewCase

IsEmptyTarget(c) == c.target \in {NoValue, Empty}
IsOtherTarget(v) == v \in {Empty, "text"}

\* Setting target clears labels, setting labels clears target and predicate, a
\* boolean target clears the predicate and any other one defaults it to "eq".
\* A case the cache does not have is started from nothing.  (The faulty variant
\* clears nothing.)
NothingCleared(field, value) == Shown
Cleared(field, value) ==
  CASE field = "target" /\ IsOtherTarget(value) ->
         [Shown EXCEPT !.labels = NoValue, !.predicate = IF @ = NoValue THEN "eq" ELSE @]
    [] field = "target" /\ ~IsOtherTarget(value) ->
         [Shown EXCEPT !.labels = NoValue, !.predicate = NoValue]
    [] field = "labels" -> [Shown EXCEPT !.target = NoValue, !.predicate = NoValue]
    [] OTHER -> Shown

Updated(field, value) ==
  [(IF cached \in Case THEN Cleared(field, value) ELSE NewCase)
     EXCEPT ![field] = value]

\* isNewEmptyCase: nothing to save and no earlier target to clear.
IsNewEmpty(updated) ==
  /\ IsEmptyTarget(updated)
  /\ updated.labels = NoValue
  /\ IsEmptyTarget(Shown)

FieldChange(field, value) ==
  LET updated == Updated(field, value) IN
  /\ page = "editor"
  /\ Counted("edits", MaxEdits)
  /\ IF IsNewEmpty(updated)
     THEN /\ cached' = updated
          /\ heldBack' = TRUE
          /\ UNCHANGED <<cachedList, fetch, upserts>>
     ELSE /\ SendUpdates([c \in {Edited} |-> updated], [c \in {Edited} |-> {}])
          /\ heldBack' = FALSE
  /\ UNCHANGED <<stored, deletes, page, watched>>

\* The radio buttons of the target.  One pressed while text is still being
\* debounced does not cancel it.
ChooseTarget(v) == FieldChange("target", v) /\ UNCHANGED typing

\* Adding, toggling or removing a label gives another value; removing the last
\* one gives null.
ChangeLabels(l) ==
  /\ l # Shown.labels
  /\ FieldChange("labels", l)
  /\ UNCHANGED typing

ChooseSplit(s) ==
  /\ s # Shown.split
  /\ FieldChange("split", s)
  /\ UNCHANGED typing

\* Offered for an "other" target only.
ChoosePredicate(p) ==
  /\ IsOtherTarget(Shown.target) /\ p # Shown.predicate
  /\ FieldChange("predicate", p)
  /\ UNCHANGED typing

\* A key in the text field restarts the 600 ms after which the text is passed on.
TypeTarget ==
  /\ page = "editor" /\ IsOtherTarget(Shown.target)
  /\ typing = NoValue
  /\ typing' = "text"
  /\ UNCHANGED <<stored, cached, cachedList, fetch, upserts, deletes,
                 heldBack, page, watched, made>>

TypingPauses ==
  /\ typing # NoValue
  /\ typing' = NoValue
  /\ FieldChange("target", typing)

-----------------------------------------------------------------------------
(* Deletions: useDeleteValidationCase, useBulkDeleteValidationCases *)

Deleting == \E d \in deletes : <<d.id>> = watched["delete"]
Updating == \E u \in upserts : <<u.id, u.case>> = watched["update"]

Delete(ids) ==
  /\ ~Deleting
  /\ Counted("deletes", MaxDeletes)
  /\ watched' = [watched EXCEPT !["delete"] = <<made.deletes>>]
  /\ deletes' = deletes \cup
       {[id |-> made.deletes, by |-> page, case |-> c, state |-> "sent"] : c \in ids}
  /\ UNCHANGED <<stored, cached, cachedList, fetch, upserts, typing, heldBack, page>>

\* The editor offers it for a case that shows a value.
EditorDeletes ==
  /\ page = "editor"
  /\ ~IsEmptyTarget(Shown) \/ Shown.labels # NoValue
  /\ Delete({Edited})

PanelDeletes(ids) ==
  /\ page = "panel" /\ cachedList # NoList /\ ~Updating
  /\ ids # {} /\ \A c \in ids : cachedList[c] # Absent
  /\ Delete(ids)

\* A case already gone is refused with 404.
ServerDeletes(d) ==
  /\ d.state = "sent"
  /\ deletes' = (deletes \ {d}) \cup
       {[d EXCEPT !.state = IF stored[d.case] = Absent THEN "failed" ELSE "done"]}
  /\ stored' = [stored EXCEPT ![d.case] = Absent]
  /\ UNCHANGED <<cached, cachedList, fetch, upserts, typing, heldBack, page, watched, made>>

DeleteLost(d) ==
  /\ d.state = "sent"
  /\ Counted("faults", MaxFaults)
  /\ deletes' = (deletes \ {d}) \cup {[d EXCEPT !.state = "failed"]}
  /\ UNCHANGED <<stored, cached, cachedList, fetch, upserts, typing, heldBack, page, watched>>

\* All deletions of a call are answered.  The list runs again if one succeeded;
\* the editor also empties its own query, the panel leaves it as it is.
DeletionsEnd(n) ==
  LET call == {d \in deletes : d.id = n}
      succeeded == \E d \in call : d.state = "done"
      byEditor == \E d \in call : d.by = "editor"
  IN  /\ call # {} /\ \A d \in call : d.state # "sent"
      /\ deletes' = deletes \ call
      /\ IF succeeded THEN Invalidate({"list"}) ELSE UNCHANGED fetch
      /\ IF succeeded /\ byEditor
         THEN cached' = Absent /\ heldBack' = FALSE
         ELSE UNCHANGED <<cached, heldBack>>
      /\ UNCHANGED <<stored, cachedList, upserts, typing, page, watched, made>>

-----------------------------------------------------------------------------
(* The panel *)

\* The updates are sent one after another, each remembering the cache as the
\* ones before it left it, and the page shows the progress of the last.
PanelSplits(ids, s) ==
  /\ page = "panel" /\ cachedList # NoList /\ ~Updating /\ ~Deleting
  /\ ids # {} /\ \A c \in ids : cachedList[c] # Absent
  /\ Counted("edits", MaxEdits)
  /\ \E turn \in Bijection(ids, 1 .. Cardinality(ids)) :
       /\ SendUpdates([c \in ids |-> [cachedList[c] EXCEPT !.split = s]],
                      [c \in ids |-> {d \in ids : turn[d] < turn[c]}])
       /\ \E last \in ids : /\ turn[last] = Cardinality(ids)
                            /\ watched' = [watched EXCEPT !["update"] = <<made.edits, last>>]
  /\ UNCHANGED <<stored, deletes, typing, heldBack, page>>

\* Another window changes or deletes a case.
ForeignChange(c) ==
  /\ Counted("faults", MaxFaults)
  /\ \E e \in {f[c] : f \in InitialFiles} \ {stored[c]} :
       stored' = [stored EXCEPT ![c] = e]
  /\ UNCHANGED <<cached, cachedList, fetch, upserts, deletes, typing, heldBack, page, watched>>

-----------------------------------------------------------------------------
Answers ==
  \/ \E q \in Queries : ServerReads(q)
  \/ CaseArrives
  \/ ListArrives
  \/ \E u \in upserts : ServerUpserts(u) \/ UpdateSucceeds(u) \/ UpdateFails(u)
  \/ \E d \in deletes : ServerDeletes(d) \/ DeletionsEnd(d.id)

User ==
  \/ LeaveEditor
  \/ \E v \in Targets \ {NoValue, "text"} : ChooseTarget(v)
  \/ \E l \in LabelSets \cup {NoValue} : ChangeLabels(l)
  \/ \E s \in Splits \cup {NoValue} : ChooseSplit(s)
  \/ \E p \in {"eq", "gt"} : ChoosePredicate(p)
  \/ TypeTarget
  \/ TypingPauses
  \/ EditorDeletes
  \/ \E ids \in SUBSET Cases : PanelDeletes(ids)
  \/ \E ids \in SUBSET Cases, s \in Splits \cup {NoValue} : PanelSplits(ids, s)

Faults ==
  \/ \E u \in upserts : UpsertLost(u)
  \/ \E d \in deletes : DeleteLost(d)
  \/ \E c \in Cases : ForeignChange(c)

Next == Answers \/ User \/ Faults

Spec == Init /\ [][Next]_vars

-----------------------------------------------------------------------------
(* Properties *)

Settled == upserts = {} /\ deletes = {} /\ \A q \in Queries : fetch[q] = Idle
Undisturbed == made.faults = 0

\* The server never has to refuse an update for its kind: whatever the editor
\* and the panel build from caches that may be empty, old or rolled back has
\* either a target or labels (handleFieldChange, ValidationCaseEditor.tsx).
UpdatesHaveOneKind == \A u \in upserts : OneKind(u.data)

\* Once every request is answered the panel shows the file, in whatever order
\* updates and deletions were taken and answered (useValidations.ts).
ListConverges == Settled /\ Undisturbed => cachedList = stored

\* The same of the editor, as long as nothing was deleted, except for a case
\* it holds back from the server.
EditorConverges ==
  Settled /\ Undisturbed /\ made.deletes = 0 /\ page = "editor"
    => heldBack \/ cached = stored[Edited]

\* An edit of a case the editor shows as the file has it is sent: only "a NEW
\* case with empty target" is kept from the server (ValidationCaseEditor.tsx:251).
SavedCaseEditsSent ==
  [][made'.edits # made.edits /\ cached = stored[Edited] /\ cached # Absent
       => upserts' # upserts]_vars
=============================================================================
