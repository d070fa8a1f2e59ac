---------------------------- MODULE TableColumns ----------------------------
(***************************************************************************)
(* The columns of the tables of transcripts and scans: which are shown     *)
(* (ColumnsPopover.tsx, useFilterBarHandlers.ts), in which order           *)
(* (DataGrid.tsx), and how wide (useColumnSizing.ts).  Each step is an     *)
(* event handler with the effects of the render it causes.                 *)
(***************************************************************************)
EXTENDS Integers, Sequences, SequencesExt, FiniteSets

CONSTANTS AllColumns,     \* DEFAULT_COLUMN_ORDER
          DefaultVisible, \* DEFAULT_VISIBLE_COLUMNS
          Size,           \* the size each column's definition gives
          MinSize,        \* the least and
          MaxSize,        \* the greatest it allows
          Widths,         \* widths a column may be dragged to
          MaxEvents       \* bound: events

Columns == Range(AllColumns)
Assumptions ==
  /\ AllColumns \in Seq(Columns) /\ IsInjective(AllColumns)
  /\ DefaultVisible \in Seq(Columns) /\ IsInjective(DefaultVisible)
  /\ {Size, MinSize, MaxSize} \subseteq [Columns -> Int]
  /\ \A c \in Columns : MinSize[c] <= Size[c] /\ Size[c] <= MaxSize[c]
  /\ Widths \subseteq Int /\ MaxEvents \in Nat

VARIABLES visible,    \* visibleColumns
          order,      \* columnOrder; empty until a column is moved
          sizing,     \* columnSizing: widths of some columns
          manual,     \* manuallyResizedColumns
          filters,    \* columns with a filter
          drag,       \* the column dragged, the one under it, the side shown
          events      \* events so far

vars == <<visible, order, sizing, manual, filters, drag, events>>

NoColumn == "none"
NotDragging == [column |-> NoColumn, over |-> NoColumn, side |-> "none"]

TypeOK ==
  /\ IsInjective(visible) /\ Range(visible) \subseteq Columns
  /\ IsInjective(order) /\ Range(order) \subseteq Columns
  /\ DOMAIN sizing \subseteq Columns /\ \A c \in DOMAIN sizing : sizing[c] \in Int
  /\ manual \subseteq Columns /\ filters \subseteq Columns
  /\ drag \in [column : Columns \cup {NoColumn}, over : Columns \cup {NoColumn},
               side : {"left", "right", "none"}]

\* Nothing else is clicked while a header is dragged.
Event == drag = NotDragging /\ events < MaxEvents /\ events' = events + 1

\* TranscriptsGrid derives an order while none was chosen.
effectiveColumnOrder ==
  IF order # <<>> THEN order
  ELSE SelectSeq(AllColumns, LAMBDA c : Contains(visible, c))

\* The table shows the columns in that order, then those it does not name.
Headers ==
  SelectSeq(effectiveColumnOrder, LAMBDA c : Contains(visible, c))
    \o SelectSeq(visible, LAMBDA c : ~Contains(effectiveColumnOrder, c))

-----------------------------------------------------------------------------
(* Widths.  Of clampSize and applyAutoSizing there are faulty variants: one  *)
(* without the limits, one that sizes all columns.                           *)

Unclamped(c, w) == w
clampSize(c, w) ==
  IF w > MaxSize[c] THEN MaxSize[c] ELSE IF w < MinSize[c] THEN MinSize[c] ELSE w

\* Both strategies give the defined size: the one that fits the content has no
\* table element to measure, as the grid keeps its own reference to the table.
computeSizes(columns) == [c \in Range(columns) |-> Size[c]]

\* applyAutoSizing: of a column that was resized by hand the width is kept.
SizeAll(columns) == sizing' = computeSizes(columns)
applyAutoSizing(columns) ==
  sizing' = [c \in Range(columns) |-> IF c \in manual \cap DOMAIN sizing
                                      THEN sizing[c] ELSE computeSizes(columns)[c]]

\* handleColumnSizingChange is given all widths, those of the other columns
\* unchanged, and takes each of them for one set by hand.
Resize(c, w) ==
  LET newSizing == [d \in DOMAIN sizing \cup {c} |-> IF d = c THEN w ELSE sizing[d]]
  IN  /\ Event /\ Contains(visible, c)
      /\ sizing' = [d \in DOMAIN newSizing |-> clampSize(d, newSizing[d])]
      /\ manual' = manual \cup DOMAIN newSizing
      /\ UNCHANGED <<visible, order, filters, drag>>

resetColumnSize(c) ==
  /\ Event /\ Contains(visible, c)
  /\ sizing' = [d \in DOMAIN sizing \cup {c} |->
                  IF d = c THEN computeSizes(visible)[c] ELSE sizing[d]]
  /\ manual' = manual \ {c}
  /\ UNCHANGED <<visible, order, filters, drag>>

\* The table is opened (again) with data: it sizes its columns once.
FirstData ==
  /\ Event
  /\ applyAutoSizing(visible)
  /\ UNCHANGED <<visible, order, manual, filters, drag>>

-----------------------------------------------------------------------------
(* Showing and hiding, and the filters of columns *)

\* Every change of visibleColumns sizes the columns anew.
onVisibleColumnsChange(columns) ==
  /\ visible' = columns
  /\ applyAutoSizing(columns)

\* A column is among those shown once at most.
Without(columns, c) == RemoveAt(columns, CHOOSE i \in DOMAIN columns : columns[i] = c)

toggleColumn(c) ==
  /\ Event
  /\ onVisibleColumnsChange(IF Contains(visible, c) THEN Without(visible, c)
                            ELSE Append(visible, c))
  /\ UNCHANGED <<order, manual, filters, drag>>

setSelection(columns) ==
  /\ Event
  /\ onVisibleColumnsChange(columns)
  /\ UNCHANGED <<order, manual, filters, drag>>

\* The column of a new filter is shown, and takes its place in the order.
handleAddFilter(c) ==
  /\ Event
  /\ filters' = filters \cup {c}
  /\ IF Contains(visible, c) THEN UNCHANGED <<visible, sizing>>
     ELSE onVisibleColumnsChange(Append(visible, c))
  /\ order' = IF order # <<>> /\ ~Contains(order, c) THEN Append(order, c) ELSE order
  /\ UNCHANGED <<manual, drag>>

removeFilter(c) ==
  /\ Event /\ c \in filters
  /\ filters' = filters \ {c}
  /\ UNCHANGED <<visible, order, sizing, manual, drag>>

-----------------------------------------------------------------------------
(* Moving a column *)

Index(c) == IF Contains(effectiveColumnOrder, c)
            THEN CHOOSE i \in DOMAIN effectiveColumnOrder : effectiveColumnOrder[i] = c
            ELSE 0

handleDragStart(c) ==
  /\ Event /\ Contains(Headers, c)
  /\ drag' = [drag EXCEPT !.column = c]
  /\ UNCHANGED <<visible, order, sizing, manual, filters>>

\* A move from left to right shows the right side of the column under it.
Side(c, target) == IF Index(c) < Index(target) THEN "right" ELSE "left"

handleDragOver(target) ==
  /\ drag.column # NoColumn /\ Contains(Headers, target) /\ target # drag.column
  /\ drag' = [drag EXCEPT !.over = target, !.side = Side(drag.column, target)]
  /\ UNCHANGED <<visible, order, sizing, manual, filters, events>>

handleDragLeave ==
  /\ drag.over # NoColumn
  /\ drag' = [drag EXCEPT !.over = NoColumn, !.side = "none"]
  /\ UNCHANGED <<visible, order, sizing, manual, filters, events>>

\* A header is dropped on one the order names, as the order names it itself.
\* (The faulty variant always inserts before the target.)
MovedBefore(c, target) ==
  InsertAt(RemoveAt(effectiveColumnOrder, Index(c)),
           IF Index(c) < Index(target) THEN Index(target) - 1 ELSE Index(target), c)
Moved(c, target) ==
  InsertAt(RemoveAt(effectiveColumnOrder, Index(c)), Index(target), c)

handleDrop(target) ==
  /\ drag.column # NoColumn /\ target \in {drag.over, drag.column}
  /\ target # NoColumn
  /\ order' = IF drag.column = target \/ Index(drag.column) = 0 \/ Index(target) = 0
              THEN order ELSE Moved(drag.column, target)
  /\ drag' = NotDragging
  /\ UNCHANGED <<visible, sizing, manual, filters, events>>

handleDragEnd ==
  /\ drag # NotDragging
  /\ drag' = NotDragging
  /\ UNCHANGED <<visible, order, sizing, manual, filters, events>>

-----------------------------------------------------------------------------
Init ==
  /\ visible = DefaultVisible /\ order = <<>>
  /\ sizing = <<>> /\ manual = {} /\ filters = {}
  /\ drag = NotDragging /\ events = 0

Next ==
  \/ \E c \in Columns : \/ \E w \in Widths : Resize(c, w)
                        \/ resetColumnSize(c) \/ toggleColumn(c)
                        \/ handleAddFilter(c) \/ removeFilter(c)
                        \/ handleDragStart(c) \/ handleDragOver(c) \/ handleDrop(c)
  \/ FirstData \/ setSelection(DefaultVisible) \/ setSelection(AllColumns)
  \/ handleDragLeave \/ handleDragEnd

Spec == Init /\ [][Next]_vars

-----------------------------------------------------------------------------
(* Properties *)

\* No width leaves the limits of its column, whatever is dragged, hidden,
\* shown again or reset (handleColumnSizingChange, applyAutoSizing).
WidthsWithinLimits ==
  \A c \in DOMAIN sizing : MinSize[c] <= sizing[c] /\ sizing[c] <= MaxSize[c]

\* Showing and hiding columns, filters and a new visit leave the width of a
\* column that was resized by hand, and resizing one leaves that of the others
\* (applyAutoSizing: "preserves manually resized columns").
Touched == {c \in manual \cap DOMAIN sizing \cap DOMAIN sizing' : sizing[c] # sizing'[c]}
KeepsManual == /\ \A c, d \in Touched : c = d
               /\ visible' # visible => Touched = {}
ManualWidthsKept == [][KeepsManual]_vars

\* A column that is dropped goes next to the one it was dropped on, on the side
\* the header showed, and no other two change places (handleDrop).
Before(s, c, d) == \E i, j \in DOMAIN s : i < j /\ s[i] = c /\ s[j] = d
LandsWhereShown ==
  order' # order /\ drag.column # NoColumn /\ drag' = NotDragging =>
    LET i == IF drag.side = "right" THEN 0 ELSE 1 IN
    /\ \E k \in 1 .. Len(Headers') - 1 :
         Headers'[k + i] = drag.over /\ Headers'[k + 1 - i] = drag.column
    /\ \A c, d \in Columns \ {drag.column} :
         Before(Headers, c, d) <=> Before(Headers', c, d)
DropLandsWhereShown == [][LandsWhereShown]_vars

\* Every header can be moved.  (It cannot, once an order was chosen, if the
\* column was shown by the picker later: the order does not name it.)
Movable == \A c \in Range(visible) : Index(c) # 0

\* What was not resized is not taken for resized: "Track which columns have
\* been manually resized" (useColumnSizing.ts).
OneResizedAtATime == [][Cardinality(manual' \ manual) <= 1]_vars
=============================================================================
