----------------------------- MODULE FindInPage -----------------------------
(***************************************************************************)
(* Searching in a list of events of which only a window is drawn           *)
(* (FindBand.tsx).  The browser's find sees the window; behind it the data *)
(* of the list are searched (LiveVirtualList.tsx, eventSearchText.ts), the *)
(* list is scrolled to the match, and once that is drawn the browser is    *)
(* asked again.  In between the user may type, scroll or search on.        *)
(***************************************************************************)
EXTENDS Naturals, Sequences, FiniteSets, FiniteSetsExt, SequencesExt

CONSTANTS Lists,        \* lists of events: [event, text of each part, shown parts]
          Terms,        \* what is typed, sequences of characters
          Quote,        \* the character "
          Window,       \* number of items that are drawn
          MaxSearches,  \* bound: searches that were not refused
          MaxEvents     \* bound: what the user does

VARIABLES items,
          top,          \* first item that is drawn: visibleRange.startIndex
          sel,          \* position of the browser's selection
          open, term,   \* the band and its text
          debounce,     \* debounceTimerRef
          currentSearchTerm, lastFoundItem, lastNoResultTerm,
          noResults,    \* "No results" is shown
          searches,     \* the searches in their order
          pending,      \* pendingSearchCallback: a search or 0
          fallback,     \* searches whose 200 ms have not passed
          scrollTo,     \* item the list was told to scroll to, or 0
          scrolling,    \* isCurrentlyScrolling
          stopTimers,   \* timers of 100 ms since the scrolling stopped
          centre,       \* found items to be centred in 100 ms
          events

boxVars == <<open, term, debounce, currentSearchTerm, lastNoResultTerm, noResults>>
bandVars == <<boxVars, lastFoundItem>>
listVars == <<top, sel, scrollTo, scrolling>>
waitVars == <<pending, fallback, stopTimers>>
vars == <<items, listVars, bandVars, searches, waitVars, centre, events>>

Steps == 10                       \* positions of one item; Steps * i is before it

Assumptions ==
  /\ <<>> \in Terms /\ Window \in Nat \ {0} /\ {MaxSearches, MaxEvents} \subseteq Nat
  /\ \A l \in Lists : /\ l \in Seq(Range(l)) /\ l # <<>>
                       /\ \A i \in DOMAIN l : DOMAIN l[i].shown \subseteq 1..Steps - 1

ItemAt(pos) == pos \div Steps
Bottom == Min({Len(items), top + Window - 1})

TypeOK ==
  /\ items \in Lists /\ top \in DOMAIN items /\ term \in Terms
  /\ pending \in {0} \cup DOMAIN searches /\ fallback \subseteq DOMAIN searches
  /\ scrollTo \in {0} \cup DOMAIN items

-----------------------------------------------------------------------------
(* What is searched *)

\* eventSearchText: of each kind of event the parts whose text is searched.
SearchedParts(e) ==
  CASE e.event = "model" -> {"model", "input", "text", "toolUse"} \cup
                            {IF "reasoning" \in DOMAIN e.text THEN "reasoning" ELSE "summary"}
    [] e.event = "tool" -> {"title", "function", "arguments", "result", "error"}
    [] e.event = "error" -> {"message", "traceback"}
    [] e.event = "logger" -> {"message", "filename"}
    [] e.event \in {"info", "compaction"} -> {"source", "data"}
    [] e.event = "subtask" -> {"name", "type", "input", "result"}
    [] e.event \in {"step", "span_begin"} -> {"name", "type"}
    [] OTHER -> {}

Includes(text, part) ==
  \E i \in 0..Len(text) - Len(part) : SubSeq(text, i + 1, i + Len(part)) = part
\* prepareSearchTerm: the term as it is, without quotes, and as it is in JSON.
Variants(t) ==
  {t, SelectSeq(t, LAMBDA c : c # Quote),
   FlattenSeq([i \in DOMAIN t |-> IF t[i] = Quote THEN <<"\\", Quote>> ELSE <<t[i]>>])}
SearchInItem(e, t) ==
  \E p \in SearchedParts(e) \cap DOMAIN e.text, v \in Variants(t) : Includes(e.text[p], v)

\* Where the browser sees the term: in the shown parts of the drawn items.
PlacesIn(S, t) ==
  UNION {{Steps * i + k : k \in {n \in DOMAIN items[i].shown :
            Includes(items[i].text[items[i].shown[n]], t)}} : i \in S}
\* searchInData: the first item behind the drawn ones whose text has the term.
SearchInData(t, back) ==
  LET hits == {i \in IF back THEN 1..top - 1 ELSE Bottom + 1..Len(items) : SearchInItem(items[i], t)}
  IN IF hits = {} THEN 0 ELSE IF back THEN Max(hits) ELSE Min(hits)
\* window.find from the selection on, without the item found last; 0 is none.
Find(t, back, last) ==
  LET S == {p \in PlacesIn(top..Bottom, t) \ {last} : IF back THEN p < sel ELSE p > sel}
  IN IF S = {} THEN 0 ELSE IF back THEN Max(S) ELSE Min(S)

\* The list is drawn from item n on.  A selection whose item goes moves to the
\* edge of the list; what was found last is known by its element, so that it is
\* another one if its item goes and comes again.
Kept(pos, n) == IF ItemAt(pos) \in n..n + Window - 1 THEN pos ELSE 0
DrawnFrom(n, known) ==
  /\ top' = n
  /\ lastFoundItem' = Kept(lastFoundItem, n)
  /\ searches' = [s \in DOMAIN known |-> [known[s] EXCEPT !.last = Kept(@, n)]]
  /\ sel' = LET end == n + Window - 1
            IN IF ItemAt(sel) < n THEN 0 ELSE IF ItemAt(sel) > end THEN Steps * (end + 1) ELSE sel
Centred(i) == Max({1, Min({i - Window \div 2, Len(items) - Window + 1})})
\* Searches that wait see their list moved by somebody else.
Disturbed == [s \in DOMAIN searches |->
                IF searches[s].waits THEN [searches[s] EXCEPT !.undisturbed = FALSE] ELSE searches[s]]

-----------------------------------------------------------------------------
(* Searches *)

\* handleSearch from the result on; r is 0 when there is none.
Ends(t, r, last) ==
  /\ noResults' = IF open THEN r = 0 ELSE noResults
  /\ lastNoResultTerm' = IF open THEN IF r = 0 THEN t ELSE <<>> ELSE lastNoResultTerm
  /\ IF r = 0 THEN lastFoundItem' = last /\ UNCHANGED <<sel, centre>>
     ELSE sel' = r /\ lastFoundItem' = (IF open THEN r ELSE last)
          /\ centre' = IF open THEN centre \cup {ItemAt(r)} ELSE centre

User == events < MaxEvents /\ events' = events + 1 /\ UNCHANGED items

\* handleSearch.  Known to have no result: that is shown again.
Refused == lastNoResultTerm # <<>> /\ IsPrefix(lastNoResultTerm, term)
StartSearch(back) ==
  /\ open /\ term # <<>>
  /\ IF Refused
     THEN noResults' = TRUE /\ currentSearchTerm' = term
          /\ lastFoundItem' = (IF currentSearchTerm = term THEN lastFoundItem ELSE 0)
          /\ UNCHANGED <<lastNoResultTerm, sel, centre, searches, waitVars, scrollTo>>
     ELSE
       /\ Len(searches) < MaxSearches
       /\ currentSearchTerm' = term
       /\ LET last == IF currentSearchTerm = term THEN lastFoundItem ELSE 0
              r == Find(term, back, last)
              i == IF r = 0 THEN SearchInData(term, back) ELSE 0
              s == Len(searches) + 1
          IN /\ searches' = Append(Disturbed, [term |-> term, back |-> back, last |-> last, from |-> sel,
                              beyond |-> Bottom, waits |-> i # 0, result |-> r, undisturbed |-> TRUE])
             /\ IF i # 0
                THEN /\ pending' = s /\ fallback' = fallback \cup {s} /\ scrollTo' = i
                     /\ lastFoundItem' = last
                     /\ lastNoResultTerm' = <<>>
                     /\ UNCHANGED <<noResults, sel, centre, stopTimers>>
                ELSE Ends(term, r, last) /\ UNCHANGED <<waitVars, scrollTo>>
  /\ UNCHANGED <<top, scrolling, open, term>>
Press == \E back \in BOOLEAN : User /\ StartSearch(back) /\ UNCHANGED debounce

\* onContentReady: the promise of search s resolves and the browser looks again.
ContentReady(s) ==
  LET r == Find(searches[s].term, searches[s].back, searches[s].last)
  IN /\ searches' = [searches EXCEPT ![s].waits = FALSE, ![s].result = r,
                                     ![s].undisturbed = @ /\ scrollTo = 0]
     /\ Ends(searches[s].term, r, lastFoundItem)
     /\ UNCHANGED <<items, top, scrollTo, scrolling, open, term, debounce, currentSearchTerm, events>>

\* 200 ms have passed.
Fallback(s) ==
  /\ s \in fallback /\ fallback' = fallback \ {s} /\ UNCHANGED stopTimers
  /\ IF pending = s THEN pending' = 0 /\ ContentReady(s)
     ELSE UNCHANGED <<items, listVars, bandVars, searches, pending, centre, events>>
SearchFallback == \E s \in fallback : Fallback(s)

\* 100 ms after the scrolling stopped.
AfterStop ==
  /\ stopTimers > 0 /\ stopTimers' = stopTimers - 1 /\ pending' = 0 /\ UNCHANGED fallback
  /\ IF pending # 0 THEN ContentReady(pending)
     ELSE UNCHANGED <<items, listVars, bandVars, searches, centre, events>>

-----------------------------------------------------------------------------
(* The list *)

ListScrolls ==
  /\ scrollTo # 0 /\ scrollTo' = 0 /\ scrolling' = TRUE
  /\ DrawnFrom(Centred(scrollTo), searches)
  /\ UNCHANGED <<items, boxVars, waitVars, centre, events>>
ListStops ==
  /\ scrolling /\ scrolling' = FALSE
  /\ stopTimers' = stopTimers + (IF pending # 0 THEN 1 ELSE 0)
  /\ UNCHANGED <<items, top, sel, scrollTo, bandVars, searches, pending, fallback, centre, events>>
UserScrolls ==
  /\ User
  /\ \E n \in 1..Len(items) - Window + 1 : n # top /\ DrawnFrom(n, Disturbed)
  /\ scrolling' = TRUE
  /\ UNCHANGED <<scrollTo, boxVars, waitVars, centre>>
\* scrollIntoView of what was found, if it is still drawn.
CentreFound ==
  \E i \in centre :
    /\ centre' = centre \ {i}
    /\ IF i \in top..Bottom THEN DrawnFrom(Centred(i), Disturbed)
       ELSE UNCHANGED <<top, sel, lastFoundItem, searches>>
    /\ UNCHANGED <<items, scrollTo, scrolling, boxVars, waitVars, events>>

-----------------------------------------------------------------------------
(* The band *)

\* handleInputChange
Type(t) ==
  /\ User /\ open /\ t # term /\ term' = t /\ debounce' = TRUE
  /\ UNCHANGED <<listVars, open, currentSearchTerm, lastFoundItem, lastNoResultTerm,
                 noResults, searches, waitVars, centre>>
TypingPauses ==
  /\ debounce /\ debounce' = FALSE /\ UNCHANGED <<items, events>>
  /\ \/ StartSearch(FALSE)
     \/ term = <<>> /\ UNCHANGED <<listVars, open, term, currentSearchTerm, lastFoundItem,
                                  lastNoResultTerm, noResults, searches, waitVars, centre>>
\* A band that is opened again starts afresh.
Close ==
  /\ User /\ open /\ open' = FALSE /\ debounce' = FALSE
  /\ UNCHANGED <<listVars, term, currentSearchTerm, lastFoundItem, lastNoResultTerm,
                 noResults, searches, waitVars, centre>>

Init ==
  /\ items \in Lists /\ top = 1 /\ sel = 0
  /\ open = TRUE /\ term = <<>> /\ debounce = FALSE /\ currentSearchTerm = <<>>
  /\ lastFoundItem = 0 /\ lastNoResultTerm = <<>> /\ noResults = FALSE
  /\ searches = <<>> /\ pending = 0 /\ fallback = {} /\ scrollTo = 0
  /\ scrolling = FALSE /\ stopTimers = 0 /\ centre = {} /\ events = 0

Next ==
  \/ \E t \in Terms : Type(t)
  \/ Press \/ TypingPauses \/ Close \/ SearchFallback \/ AfterStop
  \/ ListScrolls \/ ListStops \/ UserScrolls \/ CentreFound
Spec == Init /\ [][Next]_vars

-----------------------------------------------------------------------------
(* Properties *)

\* The search that was started last is answered: as long as it waits, it is the
\* one that is called back, and something is to do that.  (An earlier one that
\* still waited then is never called: there is one place for a callback.)
LatestIsAnswered ==
  LET s == Len(searches)
  IN s > 0 /\ searches[s].waits => pending = s /\ s \in fallback

\* A search whose list nobody else moved has "No results" for a reason: nothing
\* of what is drawn and searched follows in its direction, or the data had the
\* term in an item that does not show it, where the search gives up.
NoResultsIsTrue ==
  \A s \in DOMAIN searches :
    LET q == searches[s]
        rest == IF q.back THEN 1..ItemAt(q.from) - 1 ELSE q.beyond + 1..Len(items)
        hits == {i \in rest : SearchInItem(items[i], q.term)}
    IN ~q.waits /\ q.undisturbed /\ q.result = 0 /\ ~q.back /\ hits # {}
         => PlacesIn({Min(hits)}, q.term) = {}

\* Without such a detour Next goes on: it never selects what comes before.
NextGoesOn ==
  \A s \in DOMAIN searches' :
    LET q == searches'[s]
    IN ~q.back /\ q.undisturbed /\ q.result # 0 /\ ~q.waits => q.result > q.from
=============================================================================
