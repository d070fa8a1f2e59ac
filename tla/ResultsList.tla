----------------------------- MODULE ResultsList -----------------------------
(***************************************************************************)
(* The results of a scan (ScannerResultsList.tsx and the panels around it):*)
(* the table of the chosen scanner is fetched and parsed in the background,*)
(* filtered, searched and sorted, shown as a list with a selected row, and *)
(* a result is opened on a page of its own, from which one steps to those  *)
(* before and after it.  What React runs after a render is part of the step*)
(* that caused the render.                                                 *)
(***************************************************************************)
EXTENDS Integers, Sequences, SequencesExt

CONSTANTS Scanners,
          Results,    \* of each scanner the rows of its table, in order
          Row,        \* of each row its value, label, error and validation, 0 if it has none
          Found,      \* rows that the search text occurs in
          Columns,    \* headers to click on
          MaxInputs   \* bound: inputs of the user

Assumptions ==
  /\ \A s \in Scanners : Results[s] \in Seq(DOMAIN Row)
  /\ \A r \in DOMAIN Row :
       {Row[r].value, Row[r].label, Row[r].error, Row[r].validation} \subseteq Nat
  /\ Found \subseteq DOMAIN Row
  /\ MaxInputs \in Nat

VARIABLES complete,                \* whether the scan is
          scanner, fetching, cached,
          viewed,                  \* the result whose page is open, or None
          summaries, isLoading,    \* useScanResultSummaries
          parses,                  \* parses under way; one of them may be live
          failed,                  \* history: the last parse failed
          selectedFilter, searching, sortResults, groupResultsBy,
          selectedScanResult, visible,
          inputs

tableVars == <<scanner, fetching, cached>>
parseVars == <<summaries, isLoading, parses, failed>>
optionVars == <<selectedFilter, searching, sortResults, groupResultsBy>>
vars == <<complete, tableVars, viewed, parseVars, optionVars, selectedScanResult, visible, inputs>>

None == "none"
Ids == DOMAIN Row \cup {None, "undefined"}
\* The list is there.  (Faulty variant: it stays there behind a page.)
MountedBehind == scanner \in cached /\ Results[scanner] # <<>>
Mounted == viewed = None /\ scanner \in cached /\ Results[scanner] # <<>>

TypeOK ==
  /\ scanner \in Scanners /\ fetching \cup cached \subseteq Scanners
  /\ viewed \in Ids /\ selectedScanResult \in Ids
  /\ summaries \in Seq(DOMAIN Row) /\ visible \in Seq(DOMAIN Row)
  /\ selectedFilter \in {None, "positive", "all"}
  /\ \A i, j \in DOMAIN sortResults :
       sortResults[i].column = sortResults[j].column => i = j
  /\ groupResultsBy \in {None, "label"} /\ inputs \in 0..MaxInputs

Init ==
  /\ complete \in BOOLEAN
  /\ scanner \in Scanners /\ fetching = {scanner} /\ cached = {}
  /\ viewed = None
  /\ summaries = <<>> /\ isLoading = FALSE /\ parses = {} /\ failed = FALSE
  /\ selectedFilter = None /\ searching = FALSE
  /\ sortResults = <<>> /\ groupResultsBy = None
  /\ selectedScanResult = None /\ visible = <<>>
  /\ inputs = 0

-----------------------------------------------------------------------------
(* What the list shows *)

\* sortByColumns: the first column that tells the rows apart decides; "Result" is
\* none of the columns it knows.
Compare(a, b, by) ==
  LET d(i) == CASE by[i].column = "Label" -> Row[a].label - Row[b].label
                [] by[i].column = "Value" -> Row[a].value - Row[b].value
                [] by[i].column = "Error" -> Row[a].error - Row[b].error
                [] by[i].column = "Validation" -> (Row[a].validation - Row[b].validation)
                [] OTHER -> 0
      told == SelectInSeq(by, LAMBDA c : \E i \in DOMAIN by : by[i] = c /\ d(i) # 0)
  IN  IF told = 0 THEN 0 ELSE IF by[told].direction = "asc" THEN d(told) ELSE -d(told)

Sorted(rows, by) ==
  LET Put(r, s) == LET k == SelectInSeq(s, LAMBDA x : Compare(r, x, by) < 0)
                   IN  IF k = 0 THEN Append(s, r) ELSE InsertAt(s, k, r)
  IN  FoldLeft(LAMBDA s, r : Put(r, s), <<>>, rows)

\* filteredSummaries
Filtered(rows, filter, search, by) ==
  Sorted(SelectSeq(rows, LAMBDA r : /\ search => r \in Found
                                    /\ filter \in {None, "positive"} => Row[r].value # 0), by)

Has(rows, field) == \E i \in DOMAIN rows : Row[rows[i]][field] # 0

\* The sort that takes over when there is none.
DefaultSort(rows, filter, by) ==
  CASE rows = <<>> \/ by # <<>> -> by
    [] filter = "all" /\ Has(rows, "error") -> <<[column |-> "Error", direction |-> "desc"]>>
    [] Has(rows, "validation") -> <<[column |-> "Validation", direction |-> "desc"]>>
    [] OTHER -> by

\* The effects of the list after a render: default filter and sort, a first
\* selection (of the rows as they were before that sort), the visible results.
Rendered(filter, search, by) ==
  LET known == IF filter = None /\ ~complete THEN "all" ELSE filter
      before == Filtered(summaries', known, search, by)
      sort == DefaultSort(before, known, by)
  IN
  /\ selectedFilter' = known /\ searching' = search /\ sortResults' = sort
  /\ selectedScanResult' = IF selectedScanResult = None /\ before # <<>>
                           THEN before[1] ELSE selectedScanResult
  /\ visible' = Filtered(summaries', known, search, sort)

CurrentIndex == SelectInSeq(visible, LAMBDA r : r = selectedScanResult)
LabelsOf(rows) == {Row[rows[i]].label : i \in DOMAIN rows}

\* groupOptions: of the groups only the one by label is kept here.
MayGroup == \E r \in LabelsOf(visible) : r # 0

\* Whether rows are on the screen: not while a table is parsed.
Listed == Mounted /\ ~isLoading

-----------------------------------------------------------------------------
(* Tables: useScanDataframe, useScanResultSummaries *)

\* The effect's cleanup when the table changes or the list goes.
Cancelled == {[p EXCEPT !.live = FALSE] : p \in parses}

\* A list appears with nothing in it and parses the table.
Mount(s, search) ==
  /\ summaries' = <<>> /\ isLoading' = TRUE /\ failed' = FALSE
  /\ parses' = Cancelled \cup {[of |-> s, live |-> TRUE]}
  /\ Rendered(selectedFilter, search, sortResults)

Gone ==
  /\ parses' = Cancelled /\ isLoading' = FALSE /\ summaries' = <<>>
  /\ UNCHANGED <<failed, selectedFilter, searching, sortResults, selectedScanResult, visible>>

Input == inputs < MaxInputs /\ inputs' = inputs + 1

\* handleClick of the sidebar.  A list whose next table is there stays, with the
\* rows of the last one until that table is parsed.
ChooseScanner(s) ==
  /\ Input /\ viewed = None /\ s # scanner
  /\ scanner' = s
  /\ fetching' = IF s \in cached THEN fetching ELSE fetching \cup {s}
  /\ CASE s \notin cached \/ Results[s] = <<>> -> Gone
       [] s \in cached /\ Results[s] # <<>> /\ ~Mounted -> Mount(s, searching)
       [] s \in cached /\ Results[s] # <<>> /\ Mounted ->
            /\ parses' = Cancelled \cup {[of |-> s, live |-> TRUE]}
            /\ isLoading' = TRUE /\ failed' = FALSE
            /\ UNCHANGED <<summaries, selectedFilter, searching, sortResults,
                           selectedScanResult, visible>>
  /\ UNCHANGED <<complete, cached, viewed, groupResultsBy>>

TableArrives(s) ==
  /\ s \in fetching
  /\ fetching' = fetching \ {s} /\ cached' = cached \cup {s}
  /\ IF viewed = None /\ s = scanner /\ Results[s] # <<>> THEN Mount(s, searching)
     ELSE UNCHANGED <<parseVars, selectedFilter, searching, sortResults,
                      selectedScanResult, visible>>
  /\ UNCHANGED <<complete, scanner, viewed, groupResultsBy, inputs>>

\* A parse that was cancelled is not heard of.  (Faulty variant: it is.)
HeardOfAll(p) == TRUE
HeardOf(p) == p.live

ParseEnds(p, ok) ==
  /\ p \in parses
  /\ parses' = parses \ {p}
  /\ IF HeardOf(p) /\ Mounted
     THEN /\ summaries' = IF ok THEN Results[p.of] ELSE <<>>
          /\ isLoading' = FALSE /\ failed' = ~ok
          /\ Rendered(selectedFilter, searching, sortResults)
     ELSE UNCHANGED <<summaries, isLoading, failed, selectedFilter, searching, sortResults,
                      selectedScanResult, visible>>
  /\ UNCHANGED <<complete, tableVars, viewed, groupResultsBy, inputs>>

-----------------------------------------------------------------------------
(* The list's inputs *)

ListKept == UNCHANGED <<complete, tableVars, viewed, parseVars>>

\* setSelectedFilter, setScansSearchText, setGroupResultsBy
ChangeFilter(f) ==
  /\ Input /\ Mounted /\ ListKept
  /\ Rendered(f, searching, sortResults) /\ UNCHANGED groupResultsBy
Search ==
  /\ Input /\ Mounted /\ ListKept
  /\ Rendered(selectedFilter, ~searching, sortResults) /\ UNCHANGED groupResultsBy
GroupBy(g) ==
  /\ Input /\ Mounted /\ MayGroup /\ groupResultsBy' = g
  /\ UNCHANGED <<selectedFilter, searching, sortResults, selectedScanResult, visible>>
  /\ ListKept

\* handleSort: ascending, descending, gone; with shift the other columns stay.
HandleSort(column, shift) ==
  LET at == SelectInSeq(sortResults, LAMBDA c : c.column = column)
      next == [column |-> column,
               direction |-> IF at = 0 THEN "asc" ELSE "desc"]
      others == SelectSeq(sortResults, LAMBDA c : c.column # column)
      by == IF at # 0 /\ sortResults[at].direction = "desc"
            THEN IF shift THEN others ELSE <<>>
            ELSE IF ~shift THEN <<next>>
                 ELSE IF at = 0 THEN Append(sortResults, next)
                      ELSE ReplaceAt(sortResults, at, next)
  IN
  /\ Input /\ Mounted /\ ListKept
  /\ Rendered(selectedFilter, searching, by) /\ UNCHANGED groupResultsBy

\* handleGlobalKeyDown: arrows move by one row, with ctrl to an end.
Target(key) ==
  CASE key = "up" -> IF CurrentIndex > 1 THEN CurrentIndex - 1 ELSE 0
    [] key = "down" -> IF CurrentIndex > 0 /\ CurrentIndex < Len(visible)
                       THEN CurrentIndex + 1 ELSE 0
    [] key = "first" -> IF visible # <<>> THEN 1 ELSE 0
    [] key = "last" -> Len(visible)

Move(key) ==
  /\ Input /\ Mounted /\ Target(key) # 0
  /\ selectedScanResult' = visible[Target(key)]
  /\ UNCHANGED <<optionVars, visible>> /\ ListKept

-----------------------------------------------------------------------------
(* Pages of results *)

\* The first effect of the page of a result selects it.  (Faulty variant: the row
\* that was left stays selected.)
LeftSelection(r) == selectedScanResult
Selection(r) == r

Open(r) ==
  /\ viewed' = r
  /\ selectedScanResult' = Selection(r)
  /\ parses' = Cancelled /\ isLoading' = FALSE /\ summaries' = <<>>
  /\ UNCHANGED <<complete, tableVars, failed, optionVars, visible>>

\* A click on a row; Enter, which opens "undefined" when no visible row is selected.
ClickRow(r) == Input /\ Listed /\ r \in ToSet(visible) /\ Open(r)
Enter ==
  /\ Input /\ Mounted
  /\ Open(IF CurrentIndex = 0 THEN "undefined" ELSE visible[CurrentIndex])

\* ScannerResultNav, NextPreviousNav
ViewedIndex == SelectInSeq(visible, LAMBDA r : r = viewed)
CanStep(d) == ViewedIndex # 0 /\ ViewedIndex + d \in DOMAIN visible
Step(d) ==
  /\ Input /\ viewed # None /\ CanStep(d)
  /\ Open(visible[ViewedIndex + d])

\* The breadcrumb back to the scan: clearScanState forgets search and groups.
BackToScan ==
  /\ Input /\ viewed # None
  /\ viewed' = None /\ groupResultsBy' = None
  /\ IF scanner \in cached /\ Results[scanner] # <<>>
     THEN Mount(scanner, FALSE)
     ELSE /\ searching' = FALSE
          /\ UNCHANGED <<parseVars, selectedFilter, sortResults, selectedScanResult, visible>>
  /\ UNCHANGED <<complete, tableVars>>

Next ==
  \/ \E s \in Scanners : ChooseScanner(s) \/ TableArrives(s)
  \/ \E p \in parses, ok \in BOOLEAN : ParseEnds(p, ok)
  \/ \E f \in {"positive", "all"} : ChangeFilter(f)
  \/ Search
  \/ \E g \in {None, "label"} : GroupBy(g)
  \/ \E c \in Columns, shift \in BOOLEAN : HandleSort(c, shift)
  \/ \E key \in {"up", "down", "first", "last"} : Move(key)
  \/ \E r \in DOMAIN Row : ClickRow(r)
  \/ Enter
  \/ \E d \in {-1, 1} : Step(d)
  \/ BackToScan

Spec == Init /\ [][Next]_vars

-----------------------------------------------------------------------------
(* Properties *)

\* Once nothing is loading, the list is made from the table of the chosen
\* scanner, whatever was chosen and parsed before.
RowsOfScanner ==
  Mounted /\ ~isLoading /\ ~failed => summaries = Results[scanner]

\* The result that is open is one of those that the list showed last, so that its
\* neighbours can be stepped to.
ViewedInReach == viewed \notin {None, "undefined"} => ViewedIndex # 0

\* The list that one comes back to has the result selected that was open.
BackToViewed == viewed # None /\ viewed' = None => selectedScanResult' = viewed
=============================================================================
