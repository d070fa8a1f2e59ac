--------------------------- MODULE FilterEditing ---------------------------
(***************************************************************************)
(* Editing the filters of a table's columns: from the button in a header   *)
(* (ColumnFilterControl.tsx), from the chip of a filter (FilterBar.tsx),   *)
(* and from the button that adds one (useAddFilterPopover.ts), with the    *)
(* texts of the editor turned into conditions and back (useColumnFilter.ts)*)
(***************************************************************************)
EXTENDS Naturals, Sequences, Functions

CONSTANTS StringColumns, \* columns that hold strings
          NumberColumns, \* columns that hold numbers
          Texts,         \* what may be typed: sequences of words, read as a
                         \* list by the operators that take one
          Numbers,       \* the words that are numbers
          MaxEvents      \* bound: editors opened, inputs changed, chips removed

Columns == StringColumns \cup NumberColumns

VARIABLES conditions,  \* columnFilters: of each column its condition, if any
          editor,      \* the editor that is open, or Closed
          suggestFor,  \* the column whose values are fetched as suggestions
          moves        \* events so far

vars == <<conditions, editor, suggestFor, moves>>

NoColumn == "none"

\* One operator of each kind.
OPERATORS_BY_TYPE(c) ==
  IF c \in NumberColumns THEN {"=", "IN", "BETWEEN", "IS NULL"}
  ELSE {"=", "LIKE", "IN", "IS NULL"}
Operators == UNION {OPERATORS_BY_TYPE(c) : c \in Columns}

\* The right side of a condition: null, one text, or an array of texts, be it
\* the list of IN or the two ends of BETWEEN.
NullRight == [type |-> "null"]
Scalar(t) == [type |-> "scalar", text |-> t]
Array(s) == [type |-> "array", items |-> s]
Simple(op, right) == [operator |-> op, right |-> right]

NoFilter == [operator |-> "no filter"]
Unset == [operator |-> "null"]           \* added without a value
Invalid == [operator |-> "undefined"]    \* what was typed is no value
IsCondition(f) == f.operator \in Operators

Closed == [where |-> "closed"]
IsOpen == editor # Closed

Assumptions ==
  /\ StringColumns \cap NumberColumns = {} /\ NoColumn \notin Columns
  /\ \A t \in Texts : t \in Seq(Range(t))
  /\ <<>> \in Texts /\ MaxEvents \in Nat

TypeOK ==
  /\ DOMAIN conditions = Columns
  /\ \A c \in Columns : conditions[c] \in {NoFilter, Unset}
                          \/ conditions[c].operator \in OPERATORS_BY_TYPE(c)
  /\ IsOpen => /\ editor.where \in {"header", "chip", "add"}
               /\ editor.column \in Columns \cup {NoColumn}
               /\ editor.column = NoColumn => editor.where = "add"
               /\ editor.column # NoColumn =>
                    editor.operator \in OPERATORS_BY_TYPE(editor.column)
  /\ suggestFor \in Columns \cup {NoColumn}

-----------------------------------------------------------------------------
(* Texts to conditions and back *)

IsNumber(t) == Len(t) = 1 /\ t[1] \in Numbers
Parses(c, t) == c \in NumberColumns => IsNumber(t)

parseListValue(t) == [i \in DOMAIN t |-> <<t[i]>>]
Wildcards(t) == IF "%" \in Range(t) THEN t ELSE <<"%">> \o t

\* A range needs both ends, which the faulty variant does not look at.
BuildHalfRange(c, value, value2) == Simple("BETWEEN", Array(<<value, value2>>))
BuildRange(c, value, value2) ==
  IF value2 = <<>> THEN Unset
  ELSE IF Parses(c, value) /\ Parses(c, value2)
       THEN Simple("BETWEEN", Array(<<value, value2>>)) ELSE Invalid

buildCondition(c, op, value, value2) ==
  CASE op = "IS NULL" -> Simple(op, NullRight)
    [] op # "IS NULL" /\ value = <<>> -> Unset
    [] op = "IN" /\ value # <<>> ->
         LET items == parseListValue(value) IN
         IF \A i \in DOMAIN items : Parses(c, items[i]) THEN Simple(op, Array(items))
         ELSE Invalid
    [] op = "BETWEEN" /\ value # <<>> -> BuildRange(c, value, value2)
    [] op \in {"=", "LIKE"} /\ value # <<>> ->
         IF ~Parses(c, value) THEN Invalid
         ELSE Simple(op, Scalar(IF op = "LIKE" THEN Wildcards(value) ELSE value))

\* The items of a list have one word each.
Joined(items) == [i \in DOMAIN items |-> items[i][1]]

\* An array of two is read as the ends of a range (of which the faulty variant
\* forgets the second).
formatFilterValue(right) ==
  CASE right.type = "null" -> <<>>
    [] right.type = "scalar" -> right.text
    [] right.type = "array" -> IF Len(right.items) = 2 THEN right.items[1]
                               ELSE Joined(right.items)
NoSecondValue(right) == <<>>
formatFilterValue2(right) ==
  IF right.type = "array" /\ Len(right.items) = 2 THEN right.items[2] ELSE <<>>

\* What the editor shows of a filter.  (A faulty default fits strings only.)
likeForAll == "LIKE"
defaultOperator == "="
Showing(where, c) ==
  LET f == IF c # NoColumn /\ IsCondition(conditions[c]) THEN conditions[c]
           ELSE Simple(defaultOperator, NullRight)
  IN  [where |-> where, column |-> c, operator |-> f.operator,
       value |-> formatFilterValue(f.right), value2 |-> formatFilterValue2(f.right),
       touched |-> FALSE]

Event == moves < MaxEvents /\ moves' = moves + 1

Init ==
  /\ conditions = [c \in Columns |-> NoFilter]
  /\ editor = Closed /\ suggestFor = NoColumn /\ moves = 0

-----------------------------------------------------------------------------
(* Opening *)

\* The column whose values are suggested; the faulty variant keeps the first.
SuggestFirst(c) == suggestFor' = IF suggestFor = NoColumn THEN c ELSE suggestFor
Suggest(c) == suggestFor' = c

OpenHeader(c) ==
  /\ Event /\ ~IsOpen
  /\ editor' = Showing("header", c)
  /\ Suggest(c)
  /\ UNCHANGED conditions

\* editFilter: a filter without a condition has no chip.
OpenChip(c) ==
  /\ Event /\ ~IsOpen /\ IsCondition(conditions[c])
  /\ editor' = Showing("chip", c)
  /\ Suggest(c)
  /\ UNCHANGED conditions

OpenAdd ==
  /\ Event /\ ~IsOpen
  /\ editor' = Showing("add", NoColumn)
  /\ UNCHANGED <<conditions, suggestFor>>

\* handleColumnChange; the list of columns goes once one is chosen.
ChooseColumn(c) ==
  /\ IsOpen /\ editor.column = NoColumn
  /\ editor' = Showing("add", c)
  /\ Suggest(c)
  /\ UNCHANGED <<conditions, moves>>

-----------------------------------------------------------------------------
(* The inputs *)

Input(changed) ==
  /\ Event
  /\ editor' = [changed EXCEPT !.touched = TRUE]
  /\ UNCHANGED <<conditions, suggestFor>>

HasColumn == IsOpen /\ editor.column # NoColumn

setOperator(op) ==
  /\ HasColumn /\ op \in OPERATORS_BY_TYPE(editor.column) \ {editor.operator}
  /\ Input([editor EXCEPT !.operator = op])

setValue(t) ==
  /\ HasColumn /\ editor.operator # "IS NULL" /\ t # editor.value
  /\ Input([editor EXCEPT !.value = t])

setValue2(t) ==
  /\ HasColumn /\ editor.operator = "BETWEEN" /\ t # editor.value2
  /\ Input([editor EXCEPT !.value2 = t])

-----------------------------------------------------------------------------
(* Closing *)

Built == buildCondition(editor.column, editor.operator, editor.value, editor.value2)

\* handleColumnFilterChange of the table, handleFilterChange of the bar.
Change(c, condition) ==
  conditions' = [conditions EXCEPT ![c] = IF condition = Unset THEN NoFilter ELSE condition]

\* commitAndClose: not while what was typed is no value.  The effect of the
\* closing passes the condition on; that of an added filter is passed as it is.
Apply ==
  /\ HasColumn /\ Built # Invalid
  /\ IF editor.where = "add" THEN conditions' = [conditions EXCEPT ![editor.column] = Built]
     ELSE Change(editor.column, Built)
  /\ editor' = Closed
  /\ UNCHANGED <<suggestFor, moves>>

\* cancelAndClose.  Neither this nor Apply tells of the closing; the effect that
\* tells when an added filter's editor closes never finds that it was open.
Escape ==
  /\ IsOpen
  /\ editor' = Closed
  /\ UNCHANGED <<conditions, suggestFor, moves>>

\* A press outside closes the editor, which passes on what can be passed on;
\* the one that adds is closed without.
ClickOutside ==
  /\ IsOpen
  /\ IF editor.where = "add" \/ Built = Invalid THEN UNCHANGED conditions
     ELSE Change(editor.column, Built)
  /\ suggestFor' = IF editor.where = "add" THEN suggestFor ELSE NoColumn
  /\ editor' = Closed
  /\ UNCHANGED moves

\* The close button of a chip.
removeFilter(c) ==
  /\ Event /\ ~IsOpen /\ IsCondition(conditions[c])
  /\ conditions' = [conditions EXCEPT ![c] = NoFilter]
  /\ UNCHANGED <<editor, suggestFor>>

-----------------------------------------------------------------------------
Next ==
  \/ \E c \in Columns : OpenHeader(c) \/ OpenChip(c) \/ ChooseColumn(c) \/ removeFilter(c)
  \/ OpenAdd
  \/ \E op \in Operators : setOperator(op)
  \/ \E t \in Texts : setValue(t) \/ setValue2(t)
  \/ Apply \/ Escape \/ ClickOutside

Spec == Init /\ [][Next]_vars

-----------------------------------------------------------------------------
(* Properties *)

\* Whatever operators and texts were tried before, the conditions that reach
\* the query have the shape their operator takes and values of their column's
\* type (buildCondition).
WellFormed(c, f) ==
  CASE f.operator = "IS NULL" -> f.right = NullRight
    [] f.operator \in {"=", "LIKE"} -> f.right.type = "scalar" /\ f.right.text # <<>>
                                         /\ Parses(c, f.right.text)
    [] f.operator = "IN" -> f.right.type = "array" /\ f.right.items # <<>>
                              /\ \A i \in DOMAIN f.right.items : Parses(c, f.right.items[i])
    [] f.operator = "BETWEEN" -> f.right.type = "array" /\ Len(f.right.items) = 2
                                   /\ \A i \in 1 .. 2 : Parses(c, f.right.items[i])
ConditionsWellFormed ==
  \A c \in Columns : IsCondition(conditions[c]) => WellFormed(c, conditions[c])

\* An editor that is opened and closed again with nothing touched changes no
\* condition: what is shown of one stands for it.  (Not for an IN of two values:
\* only the first is shown.)
IsPairList(f) == f.operator = "IN" /\ Len(f.right.items) = 2
KeepsUntouched ==
  IsOpen /\ editor' = Closed /\ ~editor.touched =>
    \A c \in Columns : IsCondition(conditions[c]) /\ ~IsPairList(conditions[c])
                         => conditions'[c] = conditions[c]
UntouchedKept == [][KeepsUntouched]_vars

\* The same of every condition: "For arrays (IN/NOT IN or BETWEEN tuple), join
\* with comma for IN/NOT IN" (useColumnFilter.ts:134).
KeepsAllUntouched ==
  IsOpen /\ editor' = Closed /\ ~editor.touched =>
    \A c \in Columns : IsCondition(conditions[c]) => conditions'[c] = conditions[c]
AllUntouchedKept == [][KeepsAllUntouched]_vars

\* The suggestions an editor offers are those of its own column, whichever
\* editor was open before and however it was closed (useTranscriptsFilterBarProps).
SuggestionsOfColumn == HasColumn => suggestFor = editor.column
=============================================================================
