----------------------------- MODULE Scrolling ------------------------------
(***************************************************************************)
(* Where a page is scrolled to.  The position of a tab is stored a second  *)
(* after the last scroll and restored when the tab is opened again, for    *)
(* which its content has to be drawn (useStatefulScrollPosition).  While   *)
(* the transcript scrolls, the outline beside it follows (useScrollTrack): *)
(* it selects the nearest of its entries above the event that lies closest *)
(* to a point that moves from the top of the view to its bottom.           *)
(*                                                                         *)
(* Lengths are in units of 10 pixels.  A tab has one key, whichever result *)
(* it shows.  That its element is hidden when another tab is selected is   *)
(* not modelled.                                                           *)
(***************************************************************************)
EXTENDS Integers, Sequences

CONSTANTS Edges,        \* the upper edges of the events, and the end of the last
          View, Offset, \* of the container; topOffset
          Drawn,        \* the heights the content may have, 0 before it is there
          Stops,        \* where the user scrolls to
          Outlines,     \* what the outline may list: sets of events
          MaxAttempts, MaxScrolls, MaxOpens \* of the code; bounds

Events == 1 .. (Len(Edges) - 1)
Full == Edges[Len(Edges)]

Assumptions ==
  /\ Edges \in Seq(Nat) /\ Edges[1] = 0 /\ \A e \in Events : Edges[e] < Edges[e + 1]
  /\ {View, Offset, MaxAttempts, MaxScrolls, MaxOpens} \subseteq Nat
  /\ 0 < Offset /\ Offset < View /\ Full \in Drawn /\ \A h \in Drawn : h \in 0 .. Full
  /\ \A o \in Outlines : o \subseteq Events

VARIABLES stored,       \* scrollPositions of the tab, None if undefined
          page,         \* of the tab that is open: content, top, saved and attempts of its restoring
          pending,      \* the debounced handler of this page has a scroll to store
          pendingOld,   \* that of a page that was left
          outline,      \* the entries of the outline
          frame,        \* rafRef: a check is due with the next frame
          recent,       \* lastCheckRef is less than 100 ms ago
          current,      \* currentVisibleRef, None for null
          selected,     \* transcriptOutlineId
          history,      \* no state of the code: see Init
          spent

vars == <<stored, page, pending, pendingOld, outline, frame, recent, current, selected, history, spent>>

None == -1
Done == -1
Closed == [content |-> None, top |-> 0, saved |-> None, attempts |-> Done]
Open == page.content # None
Lesser(a, b) == IF a < b THEN a ELSE b
MaxTop(content) == IF content > View THEN content - View ELSE 0

TypeOK ==
  /\ stored \in -1 .. Full /\ page.top \in 0 .. MaxTop(page.content) /\ page.attempts \in -1 .. MaxAttempts
  /\ {pending, pendingOld, frame, recent} \subseteq BOOLEAN /\ (pending => Open)
  /\ outline \in Outlines /\ {current, selected} \subseteq Events \cup {None}

-----------------------------------------------------------------------------
(* The event to show in the outline, of a view that begins at top *)

\* The point times 10 * Unit(max).  It leaves the upper edge for the last fifth of the way.
Unit(max) == IF max = 0 THEN 1 ELSE max ^ 3
AtBottom(top, max) == max > 0 /\ 100 * top >= 99 * max
Slide(top, max) == IF 5 * top > 4 * max THEN 9 * (View - Offset) * (5 * top - 4 * max) ^ 3 ELSE 0
Point(top, max) ==
  IF AtBottom(top, max) THEN 10 * Unit(max) * (top + View - 5)
                        ELSE 10 * Unit(max) * (top + Offset) + Slide(top, max)
Distance(e, top, max) ==
  LET d == 5 * Unit(max) * (Edges[e] + Edges[e + 1]) - Point(top, max)
  IN IF d < 0 THEN -d ELSE d
InView(top) == {e \in Events : Edges[e + 1] >= top + Offset /\ Edges[e] <= top + View}
Topmost(top, content) ==
  LET max == MaxTop(content)
      there == {e \in InView(top) : Edges[e + 1] <= content}
      closest == {e \in there : \A f \in there : Distance(e, top, max) <= Distance(f, top, max)}
  IN IF there = {} THEN None ELSE CHOOSE e \in closest : \A f \in closest : e <= f

\* findNearestOutlineAbove
Above(e) == {a \in outline : a <= e}

Checked(top, content, opened) ==
  LET now == Topmost(top, content)
  IN /\ current' = now
     /\ selected' = IF now # current /\ now # None /\ Above(now) # {}
                    THEN CHOOSE a \in Above(now) : \A b \in Above(now) : b <= a
                    ELSE selected
     /\ history' = [history EXCEPT !.checkedAt = top, !.changed = @ /\ (now = current \/ now = None),
                                   !.moved = IF opened THEN stored # None /\ content < Full /\ MaxTop(content) > 0 ELSE @]
Unchecked == UNCHANGED <<current, selected, history>>

\* The listeners of "scroll".
Scrolled == pending' = TRUE /\ frame' = TRUE

-----------------------------------------------------------------------------
(* The tab *)

\* Content that is there at once is restored at once, else it is looked for each second.
OpenTab(c) ==
  /\ ~Open /\ spent.opens < MaxOpens /\ spent' = [spent EXCEPT !.opens = @ + 1]
  /\ LET top == IF stored = None THEN 0 ELSE Lesser(stored, MaxTop(c))
     IN /\ page' = [content |-> c, top |-> top, saved |-> stored,
                    attempts |-> IF stored = None \/ MaxTop(c) > 0 THEN Done ELSE 0]
        /\ pending' = (top # 0) /\ frame' = FALSE /\ recent' = TRUE /\ Checked(top, c, TRUE)
  /\ UNCHANGED <<stored, pendingOld, outline>>

ContentDrawn(c) ==
  /\ Open /\ c > page.content /\ page' = [page EXCEPT !.content = c]
  /\ history' = [history EXCEPT !.checkedAt = None]
  /\ UNCHANGED <<stored, pending, pendingOld, outline, frame, recent, current, selected, spent>>

\* A second later: the saved position, wherever the user has scrolled to since.
Restore ==
  /\ page.attempts # Done
  /\ IF MaxTop(page.content) > 0
     THEN LET top == Lesser(page.saved, MaxTop(page.content))
          IN /\ page' = [page EXCEPT !.top = top, !.attempts = Done]
             /\ history' = [history EXCEPT !.moved = @ \/ page.content < Full]
             /\ IF top # page.top THEN Scrolled ELSE UNCHANGED <<pending, frame>>
     ELSE /\ page' = [page EXCEPT !.attempts = IF @ >= MaxAttempts THEN Done ELSE @ + 1]
          /\ history' = [history EXCEPT !.moved = @ \/ page.attempts >= MaxAttempts]
          /\ UNCHANGED <<pending, frame>>
  /\ UNCHANGED <<stored, pendingOld, outline, recent, current, selected, spent>>

Scroll(top) ==
  /\ Open /\ top # page.top /\ top <= MaxTop(page.content)
  /\ spent.scrolls < MaxScrolls /\ spent' = [spent EXCEPT !.scrolls = @ + 1]
  /\ page' = [page EXCEPT !.top = top] /\ Scrolled
  /\ history' = [history EXCEPT !.moved = page.attempts = Done]
  /\ UNCHANGED <<stored, pendingOld, outline, recent, current, selected>>

\* The debounced handler, a second after the last scroll.
Store ==
  /\ pending /\ pending' = FALSE /\ stored' = page.top
  /\ history' = [history EXCEPT !.zeroed = FALSE]
  /\ UNCHANGED <<page, pendingOld, outline, frame, recent, current, selected, spent>>
\* That of a page that is gone reads the element all the same, which is scrolled to 0.
StoreOld ==
  /\ pendingOld /\ pendingOld' = FALSE /\ stored' = 0
  /\ history' = [history EXCEPT !.zeroed = TRUE]
  /\ UNCHANGED <<page, pending, outline, frame, recent, current, selected, spent>>

Leave ==
  /\ Open /\ page' = Closed
  /\ pending' = FALSE /\ pendingOld' = (pendingOld \/ pending) /\ frame' = FALSE
  /\ current' = None /\ recent' = FALSE
  /\ history' = [history EXCEPT !.left = IF pending THEN None
                                          ELSE IF page.top = 0 /\ page.saved = stored THEN @ ELSE page.top,
                                !.checkedAt = None, !.changed = FALSE]
  /\ UNCHANGED <<stored, outline, selected, spent>>

-----------------------------------------------------------------------------
(* The outline *)

\* With the next frame, or each second; not within 100 ms of another check.
Check(due) ==
  /\ Open /\ due /\ frame' = FALSE
  /\ IF recent THEN Unchecked /\ UNCHANGED recent
               ELSE Checked(page.top, page.content, FALSE) /\ recent' = TRUE
  /\ UNCHANGED <<stored, page, pending, pendingOld, outline, spent>>
Frame == Check(frame)
EachSecond == ~frame /\ Check(TRUE)
SomeTimeLater ==
  /\ recent /\ recent' = FALSE
  /\ UNCHANGED <<stored, page, pending, pendingOld, outline, frame, spent>> /\ Unchecked

\* The user expands or collapses entries.
OutlineChanges(o) ==
  /\ Open /\ o # outline /\ outline' = o
  /\ history' = [history EXCEPT !.changed = TRUE]
  /\ UNCHANGED <<stored, page, pending, pendingOld, frame, recent, current, selected, spent>>

-----------------------------------------------------------------------------
\* history: where the tab was left if that was stored (None if not), whether the page was
\* scrolled by the user or restored before all was drawn, whether a page that was gone
\* stored 0, where the outline was last checked (with the
\* same content), and whether it changed since.
Init ==
  /\ stored = None /\ page = Closed /\ pending = FALSE /\ pendingOld = FALSE
  /\ outline \in Outlines /\ frame = FALSE /\ recent = FALSE /\ current = None /\ selected = None
  /\ history = [left |-> None, moved |-> FALSE, zeroed |-> FALSE, checkedAt |-> None, changed |-> FALSE]
  /\ spent = [opens |-> 0, scrolls |-> 0]

Next ==
  \/ \E c \in Drawn : OpenTab(c) \/ ContentDrawn(c)
  \/ \E top \in Stops : Scroll(top)
  \/ Restore \/ Store \/ StoreOld \/ Leave
  \/ Frame \/ EachSecond \/ SomeTimeLater
  \/ \E o \in Outlines : OutlineChanges(o)

Spec == Init /\ [][Next]_vars

-----------------------------------------------------------------------------
(* Properties *)

\* What is stored is where the tab was left, or where it is now, unless a page that was
\* left within a second of its last scroll stored 0.
PositionKept ==
  (~pending /\ ~history.zeroed) =>
    \/ ~Open /\ history.left \in {None, stored}
    \/ Open /\ (stored = page.top \/ (stored = page.saved /\ page.top = 0))

\* A tab that is opened again comes to where it was left, whatever the user does while
\* it is looked for, if all was drawn by then.
ReturnsWhereLeft ==
  (Open /\ page.attempts = Done /\ ~history.moved /\ ~history.zeroed /\ history.left # None) =>
    page.top = history.left

\* The further down in the same content, the later the event that is shown.
OutlineFollows ==
  (history.checkedAt # None /\ history'.checkedAt # None /\ current # None /\ current' # None) =>
    /\ history'.checkedAt > history.checkedAt => current' >= current
    /\ history'.checkedAt < history.checkedAt => current' <= current

\* What is selected is the nearest entry at or above the event that is shown.
NearestAbove ==
  (current # None /\ ~history.changed /\ Above(current) # {}) =>
    selected \in Above(current) /\ \A a \in Above(current) : a <= selected
=============================================================================
