------------------------------ MODULE PagedRows -----------------------------
(***************************************************************************)
(* Tables that are loaded page by page while one scrolls, and the previous *)
(* and next transcript of the one that is viewed, taken from those pages   *)
(* (useAdjacentTranscriptIds.ts).  The server resumes behind the last row  *)
(* of a page, by the values of the columns that are sorted by and the id   *)
(* (_pagination_helpers.py); rows come, go and change meanwhile.           *)
(*                                                                         *)
(* One column is sorted by.  The database puts rows without a value last   *)
(* in either direction; it compares none with them and refuses a condition *)
(* that has no value for its parameter.                                    *)
(***************************************************************************)
EXTENDS Naturals, Sequences, SequencesExt

CONSTANTS Ids,              \* of rows, numbers
          Values,           \* of the column, numbers
          FirstTables,      \* what the table may hold: functions of Ids to Values, Null or NotYet
          Sortings,         \* of "none", "asc" and "desc"
          PageSize,
          MaxChanges, MaxInputs \* bounds

Null == 100
Gone == 200
NotYet == 201

Assumptions ==
  /\ Ids \subseteq Nat /\ Values \subseteq 0 .. 99 /\ Sortings \subseteq {"none", "asc", "desc"}
  /\ FirstTables \subseteq [Ids -> Values \cup {Null, NotYet}] /\ PageSize \in Nat \ {0}
  /\ {MaxChanges, MaxInputs} \subseteq Nat

VARIABLES table,     \* the server's
          sorting,   \* of the store
          query,     \* react-query's, of each sorting: pages, fetch, failed
          viewed,    \* transcriptId of the page that is shown, NoId at the table
          asOf,      \* of each sorting what changed since the first of its pages was read:
                     \* 0 nothing, 1 rows, 2 values (no state of the code): fetched and shown
          spent

vars == <<table, sorting, query, viewed, asOf, spent>>

NoId == 0
Rows(t) == {r \in Ids : t[r] \notin {Gone, NotYet}}

TypeOK ==
  /\ table \in [Ids -> Values \cup {Null, Gone, NotYet}] /\ sorting \in Sortings
  /\ viewed \in Ids \cup {NoId}
  /\ \A s \in Sortings : \A i \in DOMAIN query[s].pages :
       Len(query[s].pages[i].items) <= PageSize /\ Range(query[s].pages[i].items) \subseteq Ids

-----------------------------------------------------------------------------
(* The server *)

\* Row a with value v stands before row b with value w.
Precedes(s, a, v, b, w) ==
  IF s = "none" \/ v = w THEN a < b
  ELSE w = Null \/ (v # Null /\ (IF s = "asc" THEN v < w ELSE v > w))
Sorted(t, s) == SetToSortSeq(Rows(t), LAMBDA a, b : Precedes(s, a, t[a], b, t[b]))

\* The condition for the rows behind a cursor.
Behind(t, s, cursor) ==
  {r \in Rows(t) :
     IF s = "none" THEN r > cursor.id
     ELSE \/ t[r] # Null /\ (IF s = "asc" THEN t[r] > cursor.value ELSE t[r] < cursor.value)
          \/ t[r] = cursor.value /\ r > cursor.id}
Refused(s, cursor) == s # "none" /\ cursor.id # NoId /\ cursor.value = Null
Start == [id |-> NoId, value |-> Null]
End == [id |-> NoId, value |-> Gone]

Answer(t, s, cursor) ==
  LET all == IF cursor = Start THEN Sorted(t, s)
             ELSE SelectSeq(Sorted(t, s), LAMBDA r : r \in Behind(t, s, cursor))
      items == SubSeq(all, 1, IF Len(all) < PageSize THEN Len(all) ELSE PageSize)
  IN [items |-> items,
      next |-> IF Len(items) = PageSize THEN [id |-> Last(items), value |-> t[Last(items)]] ELSE End]

-----------------------------------------------------------------------------
(* The query: a fetch reads the next page, or all pages there are anew. *)

Idle == [kind |-> "idle", pages |-> <<>>, count |-> 0]
Flat(q) == FlattenSeq([i \in DOMAIN q.pages |-> q.pages[i].items])
HasNext(q) == q.pages # <<>> /\ Last(q.pages).next # End
Fetching(kind, q) == [q EXCEPT !.fetch = [kind |-> kind, pages |-> <<>>, count |-> Len(q.pages)]]
With(q, pages) == [q EXCEPT !.pages = pages, !.fetch = Idle, !.failed = FALSE]

Current == query[sorting]
SetQuery(q) == query' = [query EXCEPT ![sorting] = q]
\* A query that has no pages is fetched when it is mounted.
Mounted(q) == IF q.pages = <<>> /\ q.fetch = Idle THEN Fetching("all", q) ELSE q

\* Where the fetch goes on: getNextPageParam of the page before.
Param(q) ==
  IF q.fetch.kind = "next" THEN Last(q.pages).next
  ELSE IF q.fetch.pages = <<>> THEN Start ELSE Last(q.fetch.pages).next
Complete(f) == f.pages # <<>> /\ (Len(f.pages) >= f.count \/ Last(f.pages).next = End)

PageArrives(s) ==
  LET q == query[s]
      page == Answer(table, s, Param(q))
      read == [q.fetch EXCEPT !.pages = Append(@, page)]
  IN /\ q.fetch # Idle /\ ~Refused(s, Param(q))
     /\ query' = [query EXCEPT ![s] =
          IF q.fetch.kind = "next" THEN With(q, Append(q.pages, page))
          ELSE IF Complete(read) THEN With(q, read.pages) ELSE [q EXCEPT !.fetch = read]]
     /\ asOf' = [asOf EXCEPT ![s] =
          IF q.fetch.kind = "next" THEN @
          ELSE LET since == IF q.fetch.pages = <<>> THEN 0 ELSE @.fetched
               IN [fetched |-> since, shown |-> IF Complete(read) THEN since ELSE @.shown]]
     /\ UNCHANGED <<table, sorting, viewed, spent>>
PageRefused(s) ==
  /\ query[s].fetch # Idle /\ Refused(s, Param(query[s]))
  /\ query' = [query EXCEPT ![s] = [@ EXCEPT !.fetch = Idle, !.failed = TRUE]]
  /\ UNCHANGED <<table, sorting, viewed, asOf, spent>>

\* refetchInterval and invalidation; they wait for a fetch that is under way.
Refetch ==
  /\ Current.pages # <<>> /\ Current.fetch = Idle
  /\ spent.inputs < MaxInputs /\ spent' = [spent EXCEPT !.inputs = @ + 1]
  /\ SetQuery(Fetching("all", Current))
  /\ UNCHANGED <<table, sorting, viewed, asOf>>

-----------------------------------------------------------------------------
(* The pages of the viewer *)

Input == spent.inputs < MaxInputs /\ spent' = [spent EXCEPT !.inputs = @ + 1]

\* The grid's; an error takes its place.
ScrollNearEnd ==
  /\ viewed = NoId /\ HasNext(Current) /\ ~Current.failed /\ Current.fetch = Idle
  /\ SetQuery(Fetching("next", Current))
  /\ UNCHANGED <<table, sorting, viewed, asOf, spent>>
Sort(s) ==
  /\ viewed = NoId /\ s # sorting /\ Input
  /\ sorting' = s /\ query' = [query EXCEPT ![s] = Mounted(@)]
  /\ UNCHANGED <<table, viewed, asOf>>

\* By a click on a row, or by a link to whichever transcript.
View(r) == Input /\ viewed' = r /\ SetQuery(Mounted(Current)) /\ UNCHANGED <<table, sorting, asOf>>
Back == viewed # NoId /\ View(NoId)

\* findPosition and getAdjacentIds
Positions(q, r) == {<<p, i>> \in (DOMAIN q.pages) \X (1 .. PageSize) :
                      i <= Len(q.pages[p].items) /\ q.pages[p].items[i] = r}
Position(q, r) == CHOOSE x \in Positions(q, r) : \A y \in Positions(q, r) : x[1] <= y[1]
AdjacentIds(q, r) ==
  LET p == Position(q, r)[1]
      i == Position(q, r)[2]
      items == q.pages[p].items
      First(n) == IF n <= Len(q.pages) /\ q.pages[n].items # <<>> THEN q.pages[n].items[1] ELSE NoId
  IN <<IF i > 1 THEN items[i - 1] ELSE IF p > 1 THEN Last(q.pages[p - 1].items) ELSE NoId,
       IF i < Len(items) THEN items[i + 1] ELSE First(p + 1)>>
Located == viewed # NoId /\ Positions(Current, viewed) # {}
Step(which) ==
  /\ Located /\ ~Current.failed
  /\ LET r == AdjacentIds(Current, viewed)[which] IN r # NoId /\ View(r)
Previous == Step(1)
Following == Step(2)

\* An effect, also after a failure; a refetch of all is cancelled for it.
NeedsNextPage ==
  /\ Located /\ Position(Current, viewed) = <<Len(Current.pages), Len(Last(Current.pages).items)>>
  /\ HasNext(Current) /\ Current.fetch.kind # "next"
FetchNeighbours ==
  /\ NeedsNextPage /\ SetQuery(Fetching("next", Current))
  /\ UNCHANGED <<table, sorting, viewed, asOf, spent>>

-----------------------------------------------------------------------------
Changed(r, v, what) ==
  /\ spent.changes < MaxChanges /\ spent' = [spent EXCEPT !.changes = @ + 1]
  /\ table' = [table EXCEPT ![r] = v]
  /\ asOf' = [s \in Sortings |-> [k \in {"fetched", "shown"} |-> IF asOf[s][k] < what THEN what ELSE asOf[s][k]]]
  /\ UNCHANGED <<sorting, query, viewed>>
Insert(r, v) == table[r] = NotYet /\ Changed(r, v, 1)
Delete(r) == r \in Rows(table) /\ Changed(r, Gone, 1)
Revalue(r, v) == r \in Rows(table) /\ table[r] # v /\ Changed(r, v, 2)

Init ==
  /\ table \in FirstTables /\ sorting = "none" /\ viewed = NoId
  /\ query = [s \in Sortings |->
                LET q == [pages |-> <<>>, fetch |-> Idle, failed |-> FALSE]
                IN IF s = "none" THEN Mounted(q) ELSE q]
  /\ asOf = [s \in Sortings |-> [fetched |-> 0, shown |-> 0]]
  /\ spent = [changes |-> 0, inputs |-> 0]

Next ==
  \/ \E s \in Sortings : PageArrives(s) \/ PageRefused(s) \/ Sort(s)
  \/ Refetch \/ ScrollNearEnd \/ Back \/ Previous \/ Following \/ FetchNeighbours
  \/ \E r \in Ids : View(r) \/ Delete(r) \/ \E v \in Values \cup {Null} : Insert(r, v) \/ Revalue(r, v)

Spec == Init /\ [][Next]_vars

-----------------------------------------------------------------------------
(* Properties *)

\* What was loaded of a table that stays the same is its beginning, and all of it when
\* there is no next page; but for rows without a value behind one that has a value.
PagesCoverTable ==
  \A s \in Sortings :
    (query[s].pages # <<>> /\ asOf[s].shown = 0) =>
      LET loaded == Flat(query[s])
      IN /\ IsPrefix(loaded, Sorted(table, s))
         /\ ~HasNext(query[s]) =>
               \A r \in Rows(table) \ Range(loaded) :
                 s # "none" /\ table[r] = Null /\ loaded # <<>> /\ table[Last(loaded)] # Null

\* Rows that come and go between two pages lead to none that is listed twice.
EachOnce ==
  \A s \in Sortings : asOf[s].shown < 2 => IsInjective(Flat(query[s]))

\* The previous and next transcript are those beside it in the table that was loaded.
Beside ==
  (Located /\ asOf[sorting].shown < 2) =>
    LET loaded == Flat(Current)
        n == CHOOSE n \in DOMAIN loaded : loaded[n] = viewed
    IN AdjacentIds(Current, viewed) =
         <<IF n > 1 THEN loaded[n - 1] ELSE NoId, IF n < Len(loaded) THEN loaded[n + 1] ELSE NoId>>

\* A transcript that has no next one is the last, or one is asked for.
NextIsAskedFor ==
  (Located /\ AdjacentIds(Current, viewed)[2] = NoId) =>
    ~HasNext(Current) \/ NeedsNextPage \/ Current.fetch.kind = "next"
=============================================================================
