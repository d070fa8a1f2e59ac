----------------------------- MODULE SetSelector -----------------------------
(***************************************************************************)
(* Which validation set the editor beside a transcript works on: the       *)
(* select box (ValidationSetSelector.tsx), the dialog that creates a set   *)
(* (Modal.tsx), and the two places that hold the choice, the store and the *)
(* address (ValidationCaseEditor.tsx).  A set is known by its position in  *)
(* the project's directory.                                                *)
(*                                                                         *)
(* Choosing a set writes the store at once and the address a moment later. *)
(* An effect lets a valid address win: until the address has followed, it  *)
(* puts the old choice back.                                               *)
(***************************************************************************)
EXTENDS Integers, Sequences, SequencesExt

CONSTANTS Names,           \* what can be typed as a name, blank or not
          Blank,
          Extension,       \* of each name: "none", "begun", "valid" or "other"
          ValidFilename,   \* names that isValidFilename accepts
          File,            \* of each name the set that it creates
          InitialSets,     \* contents the directory may have at the start
          MaxChoices, MaxCreated, MaxForeign    \* bounds

Assumptions ==
  /\ Blank \in Names /\ ValidFilename \subseteq Names
  /\ Extension \in [Names -> {"none", "begun", "valid", "other"}]
  /\ DOMAIN File = Names /\ {File[n] : n \in Names} \subseteq Nat \ {0}

VARIABLES files,           \* the directory
          listed,          \* query of the sets, NotYet before the first answer
          fetching,        \* its fetch: Idle, Asked or the answer
          store,           \* editorSelectedValidationSetUri, or None
          param,           \* validationSet of the address, or None
          navigation,      \* the address that is being navigated to, or None
          isOpen, showCreateModal, newSetName, validationError, createError,
          creation,        \* the request that creates a set
          chosen,          \* the choice last made, None before
          counts           \* of choices, creations and changes elsewhere

boxVars == <<isOpen, showCreateModal, newSetName, validationError>>
vars == <<files, listed, fetching, store, param, navigation, boxVars, createError,
          creation, chosen, counts>>

None == 0
NotYet == <<None>>
Idle == "idle"
Asked == "asked"
Still == <<>>
NoCreation == [file |-> None, state |-> Idle]
Sets == {File[n] : n \in Names} \cup UNION InitialSets

TypeOK ==
  /\ files \subseteq Sets
  /\ listed = NotYet \/ ToSet(listed) \subseteq Sets
  /\ {store, param, chosen} \subseteq Sets \cup {None}
  /\ navigation \in {Still} \cup {<<s>> : s \in Sets \cup {None}}
  /\ {isOpen, showCreateModal, validationError, createError} \subseteq BOOLEAN
  /\ newSetName \in Names

Init ==
  /\ files \in InitialSets /\ listed = NotYet /\ fetching = <<Asked, {}>>
  /\ store \in Sets \cup {None} /\ param \in Sets \cup {None}
  /\ navigation = Still
  /\ isOpen = FALSE /\ showCreateModal = FALSE /\ newSetName = Blank
  /\ validationError = FALSE /\ createError = FALSE
  /\ creation = NoCreation
  /\ chosen = None /\ counts = [choices |-> 0, created |-> 0, foreign |-> 0]

InOrder(S) == SetToSortSeq(S, <)
Count(what, max) == counts[what] < max /\ counts' = [counts EXCEPT ![what] = @ + 1]

\* The effect of the editor, run when the sets, the address or the store changed.
Settled(sets, address, held) ==
  IF sets \in {NotYet, <<>>} THEN held
  ELSE IF address \in ToSet(sets) THEN address
  ELSE IF held = None THEN sets[1]
  ELSE held

\* handleValidationSetSelect.  (Faulty variant: the address does not follow.)
SelectInStore(s) ==
  /\ chosen' = s /\ store' = Settled(listed, param, s)
  /\ UNCHANGED <<param, navigation>>
Select(s) ==
  /\ chosen' = s /\ store' = Settled(listed, param, s)
  /\ navigation' = <<s>> /\ UNCHANGED param

\* The navigation is a transition of React: it may take a while, and a later one replaces it.
Navigate ==
  /\ navigation # Still /\ param' = navigation[1] /\ navigation' = Still
  /\ store' = Settled(listed, param', store)
  /\ UNCHANGED <<files, listed, fetching, boxVars, createError, creation, chosen, counts>>

-----------------------------------------------------------------------------
(* The select box *)

Loaded == listed # NotYet        \* showPanel
elsewhere == <<files, listed, fetching, createError, creation>>

\* The button, with the mouse or a key; the modal covers it.
Trigger ==
  /\ Loaded /\ ~showCreateModal /\ isOpen' = ~isOpen
  /\ UNCHANGED <<elsewhere, store, param, navigation, showCreateModal, newSetName,
                 validationError, chosen, counts>>
\* A click outside, Escape, or another width of the button
Dismiss ==
  /\ isOpen /\ isOpen' = FALSE
  /\ UNCHANGED <<elsewhere, store, param, navigation, showCreateModal, newSetName,
                 validationError, chosen, counts>>

\* The arrow keys choose at once.  With no set at all they choose none.
Next2(by) ==
  LET current == IF store \in ToSet(listed)
                 THEN CHOOSE i \in DOMAIN listed : listed[i] = store ELSE 0
      moved == current + by
  IN  IF listed = <<>> THEN None
      ELSE IF moved < 1 THEN listed[1]
      ELSE IF moved > Len(listed) THEN listed[Len(listed)] ELSE listed[moved]
Arrow(by) ==
  /\ isOpen /\ Count("choices", MaxChoices) /\ Select(Next2(by))
  /\ UNCHANGED <<elsewhere, boxVars>>
ClickItem ==
  /\ isOpen /\ isOpen' = FALSE /\ Count("choices", MaxChoices)
  /\ \E s \in ToSet(listed) : Select(s)
  /\ UNCHANGED <<elsewhere, showCreateModal, newSetName, validationError>>

-----------------------------------------------------------------------------
(* Creating a set *)

ClickCreate ==
  /\ isOpen /\ Count("choices", MaxChoices)
  /\ isOpen' = FALSE /\ showCreateModal' = TRUE
  /\ newSetName' = Blank /\ validationError' = FALSE
  /\ UNCHANGED <<elsewhere, store, param, navigation, chosen>>
TypeName(n) ==
  /\ showCreateModal /\ n # newSetName /\ newSetName' = n /\ validationError' = FALSE
  /\ UNCHANGED <<elsewhere, store, param, navigation, isOpen, showCreateModal, chosen, counts>>
ModalClosed ==
  /\ showCreateModal' = FALSE /\ newSetName' = Blank /\ validationError' = FALSE
  /\ UNCHANGED isOpen
Hide ==
  /\ showCreateModal /\ ModalClosed
  /\ UNCHANGED <<elsewhere, store, param, navigation, chosen, counts>>

\* handleCreateSubmit and, when the extension is a valid one or none, handleCreateSet
Submit ==
  /\ showCreateModal /\ newSetName # Blank
  /\ UNCHANGED <<files, listed, fetching, store, param, navigation, chosen>>
  /\ \/ /\ Extension[newSetName] \in {"begun", "other"} /\ validationError' = TRUE
        /\ UNCHANGED <<isOpen, showCreateModal, newSetName, createError, creation, counts>>
     \/ /\ Extension[newSetName] \in {"none", "valid"} /\ ModalClosed
        /\ IF newSetName \notin ValidFilename \/ File[newSetName] \in ToSet(listed)
           THEN createError' = TRUE /\ UNCHANGED <<creation, counts>>
           ELSE /\ creation = NoCreation /\ Count("created", MaxCreated)
                /\ creation' = [file |-> File[newSetName], state |-> "sent"]
                /\ createError' = FALSE

\* create_validation: a file that exists is left alone.
ServerCreates ==
  /\ creation.state = "sent"
  /\ \/ /\ creation.file \notin files /\ files' = files \cup {creation.file}
        /\ creation' = [creation EXCEPT !.state = "done"]
     \/ creation.file \in files /\ creation' = [creation EXCEPT !.state = "failed"] /\ UNCHANGED files
  /\ UNCHANGED <<listed, fetching, store, param, navigation, boxVars, createError, chosen, counts>>
\* The new set is chosen before the list of the sets knows it.
Created ==
  /\ creation.state = "done" /\ creation' = NoCreation /\ createError' = FALSE
  /\ fetching' = <<Asked, {}>> /\ Select(creation.file)
  /\ UNCHANGED <<files, listed, boxVars, counts>>
CreationFails ==
  /\ creation.state = "failed" /\ creation' = NoCreation /\ createError' = TRUE
  /\ UNCHANGED <<files, listed, fetching, store, param, navigation, boxVars, chosen, counts>>

-----------------------------------------------------------------------------
(* The list of the sets *)

ServerLists ==
  /\ fetching = <<Asked, {}>> /\ fetching' = <<"answer", files>>
  /\ UNCHANGED <<files, listed, store, param, navigation, boxVars, createError, creation, chosen, counts>>
SetsArrive ==
  /\ fetching[1] = "answer" /\ fetching' = <<Idle, {}>> /\ listed' = InOrder(fetching[2])
  /\ store' = Settled(listed', param, store)
  /\ UNCHANGED <<files, param, navigation, boxVars, createError, creation, chosen, counts>>
\* Another window creates a file or deletes one; the list is asked for again when the
\* window has the focus.
ForeignChange ==
  /\ Count("foreign", MaxForeign)
  /\ \E s \in Sets : files' = IF s \in files THEN files \ {s} ELSE files \cup {s}
  /\ fetching' = <<Asked, {}>>
  /\ UNCHANGED <<listed, store, param, navigation, boxVars, createError, creation, chosen>>

Next ==
  \/ Navigate \/ Trigger \/ Dismiss \/ Arrow(1) \/ Arrow(-1) \/ ClickItem
  \/ ClickCreate \/ (\E n \in Names : TypeName(n)) \/ Hide \/ Submit
  \/ ServerCreates \/ Created \/ CreationFails \/ ServerLists \/ SetsArrive \/ ForeignChange
Spec == Init /\ [][Next]_vars

-----------------------------------------------------------------------------
(* Properties *)

Quiet == navigation = Still /\ fetching[1] = Idle /\ creation = NoCreation

\* Once address and list have caught up, the editor works on the set that was chosen
\* last, also on one that was only just created: the effect that put the older choice
\* back has been overruled (handleValidationSetSelect, the effect of the editor).
ChosenIsEdited == Quiet /\ chosen \in ToSet(listed) => store = chosen

\* Nothing is edited without a set as long as there is one to fall back to.
SomeSetIsEdited == Loaded /\ listed # <<>> => store # None
=============================================================================
