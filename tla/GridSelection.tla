--------------------------- MODULE GridSelection ---------------------------
(***************************************************************************)
(* Rows of a table (DataGrid.tsx): the focused row and the selected ones,  *)
(* under clicks and keys, while the rows themselves change: another page is*)
(* appended, or a sort, a filter or a poll replaces them.  Neither focus   *)
(* nor selection is dropped then: both may name rows that are not shown.   *)
(***************************************************************************)
EXTENDS Integers, Sequences, SequencesExt, FiniteSets, FiniteSetsExt

CONSTANTS Rows,        \* ids of rows
          Results,     \* what the query may answer: sequences of rows
          PageSize,    \* rows per page
          MaxInputs    \* bound: clicks, keys and new results

Assumptions ==
  /\ \A r \in Results : IsInjective(r) /\ Range(r) \subseteq Rows
  /\ PageSize \in Nat \ {0} /\ MaxInputs \in Nat

VARIABLES result,        \* what the server holds for the current query
          rows,          \* the rows loaded of it
          rowSelection,  \* keys of the object in their order, with their values
          focused,       \* focusedRowId
          pressed,       \* the last input: what it asked for (no state of the code)
          inputs         \* inputs so far

vars == <<result, rows, rowSelection, focused, pressed, inputs>>

NoRow == "none"

TypeOK ==
  /\ IsPrefix(rows, result)
  /\ \A i, j \in DOMAIN rowSelection :
       /\ rowSelection[i].row \in Rows /\ rowSelection[i].selected \in BOOLEAN
       /\ i # j => rowSelection[i].row # rowSelection[j].row
  /\ focused \in Rows \cup {NoRow}

\* The keys whose value is true, in the order they were set.
selectedRows == LET s == SelectSeq(rowSelection, LAMBDA e : e.selected)
                IN  [i \in DOMAIN s |-> s[i].row]
Selected == Range(selectedRows)
Only(s) == [i \in DOMAIN s |-> [row |-> s[i], selected |-> TRUE]]

findIndex(r) == IF Contains(rows, r) THEN CHOOSE i \in DOMAIN rows : rows[i] = r ELSE 0
RowRange(i, j) == IF i <= j THEN SubSeq(rows, i, j) ELSE SubSeq(rows, j, i)

Input(kind) == /\ inputs < MaxInputs /\ inputs' = inputs + 1
               /\ pressed' = kind
               /\ UNCHANGED <<result, rows>>

FirstPage(r) == SubSeq(r, 1, IF Len(r) < PageSize THEN Len(r) ELSE PageSize)

Init ==
  /\ result \in Results /\ rows = FirstPage(result)
  /\ rowSelection = <<>> /\ focused = NoRow
  /\ pressed = "nothing" /\ inputs = 0

-----------------------------------------------------------------------------
(* handleRowClick: the row is focused whatever else happens *)

\* A plain click goes to the row's page, one with Ctrl opens it elsewhere.
Click(i) ==
  /\ Input("click")
  /\ focused' = rows[i]
  /\ UNCHANGED rowSelection

\* From the row selected last, which need not be loaded, to the one clicked.
ShiftClick(i) ==
  LET last == findIndex(Last(selectedRows)) IN
  /\ Input("shift click")
  /\ focused' = rows[i]
  /\ rowSelection' = IF selectedRows = <<>> THEN Only(<<rows[i]>>)
                     ELSE IF last = 0 THEN rowSelection ELSE Only(RowRange(last, i))

-----------------------------------------------------------------------------
(* handleKeyDown *)

\* Where the arrow leads; without a focused row both lead to the first one.
ArrowTarget(down, ctrl) ==
  LET i == findIndex(focused) IN
  IF down THEN IF ctrl \/ i = Len(rows) THEN Len(rows) ELSE i + 1
  ELSE IF ctrl \/ i <= 1 THEN 1 ELSE i - 1

Arrow(down, ctrl) ==
  LET i == ArrowTarget(down, ctrl) IN
  /\ rows # <<>> /\ i # findIndex(focused)
  /\ Input("arrow")
  /\ focused' = rows[i]
  /\ rowSelection' = Only(<<rows[i]>>)

\* Extends from the first of the selected rows, the anchor.  (Faulty variants:
\* from the last one; or to the row that was focused before.)
AnchorLast == findIndex(Last(selectedRows))
Anchor == findIndex(Head(selectedRows))
ExtendedToOld(anchor, i) ==
  Only(RowRange(anchor, IF findIndex(focused) = 0 THEN anchor ELSE findIndex(focused)))
ExtendedTo(anchor, i) == Only(RowRange(anchor, i))

ShiftArrow(down, ctrl) ==
  LET i == ArrowTarget(down, ctrl) IN
  /\ rows # <<>> /\ i # findIndex(focused)
  /\ Input(IF down THEN "extend down" ELSE "extend up")
  /\ focused' = rows[i]
  /\ rowSelection' = IF selectedRows = <<>> THEN Only(<<rows[i]>>)
                     ELSE IF Anchor = 0 THEN rowSelection ELSE ExtendedTo(Anchor, i)

\* An existing key keeps its place among the keys.
Space ==
  LET known == {i \in DOMAIN rowSelection : rowSelection[i].row = focused} IN
  /\ findIndex(focused) # 0
  /\ Input("space")
  /\ rowSelection' =
       IF known = {} THEN Append(rowSelection, [row |-> focused, selected |-> TRUE])
       ELSE LET k == CHOOSE i \in known : TRUE
            IN  [rowSelection EXCEPT ![k].selected = ~@]
  /\ UNCHANGED focused

SelectAll ==
  /\ rows # <<>> /\ Input("select all")
  /\ rowSelection' = Only(rows)
  /\ UNCHANGED focused

Escape ==
  /\ rows # <<>> /\ Input("escape")
  /\ rowSelection' = <<>>
  /\ UNCHANGED focused

-----------------------------------------------------------------------------
(* The rows *)

\* checkScrollNearEnd: the next page.
NextPage ==
  /\ Len(rows) < Len(result)
  /\ rows' = SubSeq(result, 1, Min({Len(result), Len(rows) + PageSize}))
  /\ UNCHANGED <<result, rowSelection, focused, pressed, inputs>>

\* A sort or filter, or the poll of the list of scans.
NewResult(r) ==
  /\ inputs < MaxInputs /\ inputs' = inputs + 1
  /\ result' = r /\ rows' = FirstPage(r)
  /\ pressed' = "nothing"
  /\ UNCHANGED <<rowSelection, focused>>

Next ==
  \/ \E i \in DOMAIN rows : Click(i) \/ ShiftClick(i)
  \/ \E down, ctrl \in BOOLEAN : Arrow(down, ctrl) \/ ShiftArrow(down, ctrl)
  \/ Space \/ SelectAll \/ Escape \/ NextPage
  \/ \E r \in Results : NewResult(r)

Spec == Init /\ [][Next]_vars

-----------------------------------------------------------------------------
(* Properties *)

\* Selecting a range changes the selection to loaded rows without a gap, with
\* the focused one at an end of them, although anchor and last row come from
\* the order in which an object lists its keys.
RangeEndsAtFocus ==
  inputs' # inputs /\ pressed' \in {"shift click", "extend up", "extend down"}
    /\ rowSelection' # rowSelection =>
      \E i, j \in DOMAIN rows : /\ Range(RowRange(i, j)) = Selected'
                                /\ rows[i] = focused'
RangesEndAtFocus == [][RangeEndsAtFocus]_vars

\* Going on downwards keeps what was selected.
ExtendsDown ==
  inputs' # inputs /\ pressed = "extend down" /\ pressed' = "extend down"
    /\ findIndex(Head(selectedRows)) < findIndex(focused)
    /\ focused \in Selected
      => Selected \subseteq Selected'
DownKeepsSelection == [][ExtendsDown]_vars

\* "Shift + arrow: extend selection" (DataGrid.tsx): so does going on upwards.
ExtendsUp ==
  inputs' # inputs /\ pressed = "extend up" /\ pressed' = "extend up"
    /\ focused \in Selected
      => Selected \subseteq Selected'
UpKeepsSelection == [][ExtendsUp]_vars
=============================================================================
