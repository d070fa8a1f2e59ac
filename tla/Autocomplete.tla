----------------------------- MODULE Autocomplete -----------------------------
(***************************************************************************)
(* An input with suggestions (AutocompleteInput.tsx) in the popover that   *)
(* adds a label to a case (ValidationCaseLabelsEditor.tsx).  A text is a   *)
(* sequence of letters; what React runs after a render is part of the step *)
(* that caused the render.                                                 *)
(***************************************************************************)
EXTENDS Integers, Sequences, Functions

CONSTANTS Texts,           \* what can be typed
          suggestions,     \* the labels that exist, in order
          maxSuggestions,
          charactersBeforeSuggesting,
          MaxEvents        \* bound: events of the user

Assumptions ==
  /\ <<>> \in Texts /\ Range(suggestions) \subseteq Texts
  /\ {maxSuggestions, charactersBeforeSuggesting, MaxEvents} \subseteq Nat

VARIABLES value, isOpen, highlightedIndex, isBrowseMode, hasTyped,
          popoverOpen, newLabelValue,
          labels,          \* of the case: a partial function to truth values
          events

inputVars == <<value, isOpen, highlightedIndex, isBrowseMode, hasTyped>>
vars == <<inputVars, popoverOpen, newLabelValue, labels, events>>

TypeOK ==
  /\ value \in Texts /\ {isOpen, isBrowseMode, hasTyped, popoverOpen, newLabelValue} \subseteq BOOLEAN
  /\ highlightedIndex \in 0..Len(suggestions)
  /\ DOMAIN labels \subseteq Texts \ {<<>>} /\ events \in 0..MaxEvents

Fresh ==
  /\ value = <<>> /\ isOpen = FALSE /\ highlightedIndex = 0
  /\ isBrowseMode = FALSE /\ hasTyped = FALSE
Init ==
  /\ Fresh /\ popoverOpen = FALSE /\ newLabelValue = TRUE
  /\ labels = [l \in {} |-> TRUE] /\ events = 0

\* filteredSuggestions; what is typed out in full is not suggested.
Includes(s, t) == \E i \in 0..Len(s) - Len(t) : SubSeq(s, i + 1, i + Len(t)) = t
Suggested(text, browse) ==
  IF browse THEN suggestions
  ELSE IF Len(text) < charactersBeforeSuggesting THEN <<>>
  ELSE LET fit == SelectSeq(suggestions, LAMBDA s : s # text /\ Includes(s, text))
       IN  SubSeq(fit, 1, IF Len(fit) < maxSuggestions THEN Len(fit) ELSE maxSuggestions)
filteredSuggestions == Suggested(value, isBrowseMode)
showDropdown == isOpen /\ filteredSuggestions # <<>>

Event == popoverOpen /\ events < MaxEvents /\ events' = events + 1

\* The list changed: nothing is highlighted.  (Faulty variant: the highlight stays.)
KeepHighlight(text, browse) == UNCHANGED highlightedIndex
Highlight(text, browse) ==
  highlightedIndex' = IF Suggested(text, browse) = filteredSuggestions THEN highlightedIndex ELSE 0
\* The value and the mode change together.
Becomes(text, browse, open) ==
  /\ value' = text /\ isBrowseMode' = browse /\ isOpen' = open
  /\ Highlight(text, browse)

-----------------------------------------------------------------------------
(* The input *)

Type(text) ==
  /\ Event /\ text # value /\ hasTyped' = TRUE
  /\ Becomes(text, FALSE, TRUE) /\ UNCHANGED <<popoverOpen, newLabelValue, labels>>

ToggleBrowse ==
  /\ Event /\ suggestions # <<>>
  /\ IF isOpen /\ isBrowseMode THEN Becomes(value, FALSE, FALSE) ELSE Becomes(value, TRUE, TRUE)
  /\ UNCHANGED <<hasTyped, popoverOpen, newLabelValue, labels>>

Focus ==
  /\ Event /\ hasTyped /\ filteredSuggestions # <<>> /\ ~isOpen
  /\ Becomes(value, isBrowseMode, TRUE)
  /\ UNCHANGED <<hasTyped, popoverOpen, newLabelValue, labels>>

\* selectSuggestion, by the mouse or the Tab key
Select(i) ==
  /\ Becomes(filteredSuggestions[i], FALSE, FALSE)
  /\ UNCHANGED <<hasTyped, popoverOpen, newLabelValue, labels>>
Click == Event /\ showDropdown /\ \E i \in DOMAIN filteredSuggestions : Select(i)
Tab == Event /\ showDropdown /\ highlightedIndex > 0 /\ Select(highlightedIndex)
Hover ==
  /\ Event /\ showDropdown /\ highlightedIndex' \in DOMAIN filteredSuggestions
  /\ UNCHANGED <<value, isOpen, isBrowseMode, hasTyped, popoverOpen, newLabelValue, labels>>

Arrow(by) ==
  /\ Event /\ showDropdown
  /\ highlightedIndex' \in DOMAIN filteredSuggestions \cup {0}
  /\ highlightedIndex' = highlightedIndex + by
  /\ UNCHANGED <<value, isOpen, isBrowseMode, hasTyped, popoverOpen, newLabelValue, labels>>

\* A click elsewhere in the popover
ClickOutside ==
  /\ Event /\ isOpen /\ isOpen' = FALSE
  /\ UNCHANGED <<value, highlightedIndex, isBrowseMode, hasTyped, popoverOpen, newLabelValue, labels>>

-----------------------------------------------------------------------------
(* The popover; it unmounts the input when it closes. *)

Closed ==
  /\ popoverOpen' = FALSE /\ newLabelValue' = TRUE
  /\ value' = <<>> /\ isOpen' = FALSE /\ highlightedIndex' = 0
  /\ isBrowseMode' = FALSE /\ hasTyped' = FALSE
Trimmed(text) == SelectSeq(text, LAMBDA c : c # " ")
\* handleAddLabel: a blank name is no label, and the popover stays.
Add(text) ==
  LET name == Trimmed(text)
  IN  IF name = <<>> THEN UNCHANGED <<inputVars, popoverOpen, newLabelValue, labels>>
      ELSE /\ labels' = [l \in DOMAIN labels \cup {name} |->
                           IF l = name THEN newLabelValue ELSE labels[l]]
           /\ Closed

OpenPopover ==
  /\ ~popoverOpen /\ events < MaxEvents /\ events' = events + 1 /\ popoverOpen' = TRUE
  /\ UNCHANGED <<inputVars, newLabelValue, labels>>
ChooseValue ==
  /\ Event /\ newLabelValue' = ~newLabelValue /\ isOpen' = FALSE
  /\ UNCHANGED <<value, highlightedIndex, isBrowseMode, hasTyped, popoverOpen, labels>>
AddButton == Event /\ Trimmed(value) # <<>> /\ Add(value)
Cancel == Event /\ Closed /\ UNCHANGED labels
\* A click outside the popover closes it, but what was typed is still there until it is
\* opened again.
Leave == Event /\ Closed /\ UNCHANGED labels

\* Enter adds the label as it was typed: the commit does not see the value that the
\* highlighted suggestion has just set.
Enter ==
  /\ Event
  /\ IF Trimmed(value) # <<>> \/ ~showDropdown \/ highlightedIndex = 0 THEN Add(value)
     ELSE Select(highlightedIndex)
\* The first Escape closes the list, the second one the popover.
Escape ==
  /\ Event
  /\ IF showDropdown
     THEN /\ isOpen' = FALSE
          /\ UNCHANGED <<value, highlightedIndex, isBrowseMode, hasTyped, popoverOpen, newLabelValue, labels>>
     ELSE Closed /\ UNCHANGED labels

ToggleLabel(l) ==
  /\ ~popoverOpen /\ events < MaxEvents /\ events' = events + 1
  /\ labels' = [labels EXCEPT ![l] = ~@] /\ UNCHANGED <<inputVars, popoverOpen, newLabelValue>>
RemoveLabel(l) ==
  /\ ~popoverOpen /\ events < MaxEvents /\ events' = events + 1
  /\ labels' = [k \in DOMAIN labels \ {l} |-> labels[k]]
  /\ UNCHANGED <<inputVars, popoverOpen, newLabelValue>>

Next ==
  \/ \E t \in Texts : Type(t)
  \/ ToggleBrowse \/ Focus \/ Click \/ Tab \/ Hover \/ Arrow(1) \/ Arrow(-1) \/ ClickOutside
  \/ OpenPopover \/ ChooseValue \/ AddButton \/ Cancel \/ Leave \/ Enter \/ Escape
  \/ \E l \in DOMAIN labels : ToggleLabel(l) \/ RemoveLabel(l)
Spec == Init /\ [][Next]_vars

-----------------------------------------------------------------------------
(* Properties *)

\* What is highlighted is a row of the list as it is shown now, not as it was before the
\* text changed: the Tab key takes that row (the effect on filteredSuggestions).
HighlightInList == highlightedIndex \in DOMAIN filteredSuggestions \cup {0}

\* A label is only added from an open popover, and it is what stood in the input;
\* the other labels of the case stay (handleAddLabel).
AddsWhatIsTyped ==
  \A l \in DOMAIN labels' \ DOMAIN labels :
    /\ popoverOpen /\ l = Trimmed(value) /\ ~popoverOpen'
    /\ \A k \in DOMAIN labels : k \in DOMAIN labels' /\ labels'[k] = labels[k]
=============================================================================
