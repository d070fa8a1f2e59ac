----------------------------- MODULE ScanResults -----------------------------
(***************************************************************************)
(* From the table of a scanner to what the viewer shows of it.  The server *)
(* sends a row for each transcript.  Values get back their types           *)
(* (utils/arrow.ts), a row with a set of results becomes one row for each, *)
(* and labels that were expected to be absent get rows of their own        *)
(* (app/utils/arrow.ts).  The list and the page of a result read the rows  *)
(* by different code (arrowHelpers.ts), the latter while the user goes from*)
(* result to result and the table may come anew.                           *)
(***************************************************************************)
EXTENDS Naturals, Sequences, FiniteSets, FiniteSetsExt, SequencesExt

CONSTANTS Tables,     \* what the server may send: sequences of rows
          Numerals,   \* texts that are numbers
          Json,       \* texts that are JSON
          MaxTables,  \* bound: times the table comes
          MaxVisits   \* bound: results opened

VARIABLES rows,           \* the query's data, NoRows before
          fresh,          \* random identifiers so far
          uuid,           \* of the address, NoId elsewhere
          parses,         \* parses under way, of the page's effect
          scanResultData, isLoading,
          received,       \* the last table (no state of the code)
          visits, tables

vars == <<rows, fresh, uuid, parses, scanResultData, isLoading, received, visits, tables>>

Assumptions == {MaxTables, MaxVisits} \subseteq Nat

None == "none"
NoId == <<"none", 0>>
NoRows == <<>>
NoData == [id |-> NoId]
Null == [type |-> "null", v |-> None]
Failed == [type |-> "failed", v |-> None]
NoVerdict == [kind |-> "none"]

TypeOK ==
  /\ \A i \in DOMAIN rows : rows[i].type # "resultset"
  /\ isLoading \in BOOLEAN /\ Cardinality({p \in parses : ~p.cancelled}) <= 1

-----------------------------------------------------------------------------
(* The table as it comes *)

\* castValue: texts of the transport become what value_type says, or null.
CastValue(val, type) ==
  CASE val.type = "null" \/ type \notin {"boolean", "number"} \/ val.type = type -> val
    [] type = "boolean" /\ val.type # type ->
         IF val.v \in {"true", "false"} THEN [type |-> type, v |-> val.v] ELSE Null
    [] type = "number" /\ val.type # type ->
         IF val.v \in Numerals THEN [type |-> type, v |-> val.v] ELSE Null

\* extractLabelValidation: of a verdict on labels the part for this label.
LabelVerdict(verdict, label) ==
  IF verdict.kind # "labels" \/ label = None THEN verdict
  ELSE IF label \in DOMAIN verdict.of THEN [kind |-> "whole", is |-> verdict.of[label]]
  ELSE NoVerdict

Identified(uuidOr, n) == IF uuidOr # NoId THEN uuidOr ELSE <<"random", n>>

\* The rows of one set of results.  An empty one stays as a row without value,
\* one that cannot be read goes.
Exploded(row, n) ==
  IF ~row.readable THEN <<>>
  ELSE IF row.results = <<>> THEN <<[row EXCEPT !.value = Null, !.type = "null"]>>
  ELSE [k \in DOMAIN row.results |->
          LET r == row.results[k]
          IN [row EXCEPT !.id = Identified(r.uuid, n + k), !.label = r.label, !.value = r.value,
                         !.type = IF r.type # None THEN r.type ELSE r.value.type,
                         !.verdict = LabelVerdict(row.verdict, r.label)]]

\* createSyntheticRows: the labels that the first row's target expects to be
\* negative and no row has.  The verdict was replaced by that of the first row's
\* label, unless it has none.
Synthetic(exploded, first, n) ==
  IF exploded = <<>> THEN <<>>
  ELSE LET target == exploded[1].target
           verdicts == exploded[1].verdict
           present == {exploded[i].label : i \in DOMAIN exploded}
           missing == SetToSeq({l \in DOMAIN target : l \notin present /\ target[l] = "negative"})
       IN [k \in DOMAIN missing |->
             [first EXCEPT !.id = <<"random", n + k>>, !.label = missing[k], !.value = Null,
                           !.type = "null",
                           !.verdict = IF verdicts.kind = "labels" THEN LabelVerdict(verdicts, missing[k])
                                       ELSE NoVerdict]
             @@ [synthetic |-> TRUE]]

\* expandResultsetRows
Wide == 10   \* more than the results of a row
Expanded(table, n) ==
  LET all == [i \in DOMAIN table |->
                [table[i] EXCEPT !.value = CastValue(@, table[i].type)]
                @@ [id |-> Identified(table[i].uuid, n + Wide * i)]]
      sets == SelectSeq(all, LAMBDA r : r.type = "resultset")
      others == SelectSeq(all, LAMBDA r : r.type # "resultset")
      exploded == FlattenSeq([i \in DOMAIN sets |-> Exploded(sets[i], n + Wide * i)])
  IN IF sets = <<>> THEN all
     ELSE IF exploded = <<>> THEN others
     ELSE others \o exploded \o Synthetic(exploded, sets[1], n)

-----------------------------------------------------------------------------
(* What is read of a row *)

\* parseSimpleValue
SimpleValue(val, type) ==
  IF type \notin {"array", "object"} \/ val.type = "null" THEN val
  ELSE IF val.v \in Json THEN [type |-> type, v |-> val.v] ELSE Failed

\* resolveTranscriptPropertiesFromMetadata: for scans older than the column.
Resolved(model, metadata) ==
  IF model # "absent" THEN model ELSE IF metadata = "null" THEN "absent" ELSE metadata

\* parseScanResultSummaries, of one row
Summary(row) ==
  [id |-> row.id, label |-> row.label, verdict |-> row.verdict,
   value |-> SimpleValue(row.value, row.type), model |-> Resolved(row.model, row.metadata)]
Summaries ==
  LET S == [i \in DOMAIN rows |-> Summary(rows[i])]
  IN IF \E i \in DOMAIN S : S[i].value = Failed THEN <<>> ELSE S

\* parseScanResultData.  There metadata that are null are no empty ones.
Detail(row) ==
  [id |-> row.id, label |-> row.label, verdict |-> row.verdict,
   value |-> IF row.model = "absent" /\ row.metadata = "null" THEN Failed
             ELSE SimpleValue(row.value, row.type),
   model |-> Resolved(row.model, row.metadata)]

-----------------------------------------------------------------------------
(* The page of a result *)

\* useScanResultData: another row (of another table, or another address) cancels
\* the parse under way.
Cancelled == {[p EXCEPT !.cancelled = TRUE] : p \in parses}
Show(known, id) ==
  LET found == SelectSeq(known, LAMBDA r : r.id = id)
  IN IF found = <<>>
     THEN scanResultData' = NoData /\ isLoading' = FALSE /\ parses' = Cancelled
     ELSE /\ parses' = Cancelled \cup {[row |-> found[1], cancelled |-> FALSE, n |-> visits + tables]}
          /\ isLoading' = TRUE /\ UNCHANGED scanResultData

\* The table comes, or comes again after a notice that the scan changed.
TableArrives ==
  /\ tables < MaxTables /\ tables' = tables + 1
  /\ \E t \in Tables :
       /\ received' = t
       /\ rows' = Expanded(t, fresh)
       /\ fresh' = fresh + Wide * (Len(t) + 1)
       /\ Show(rows', uuid)
  /\ UNCHANGED <<uuid, visits>>

Open ==
  /\ visits < MaxVisits /\ visits' = visits + 1
  /\ \E id \in {rows[i].id : i \in DOMAIN rows} \cup {NoId} :
       id # uuid /\ uuid' = id /\ Show(rows, id)
  /\ UNCHANGED <<rows, fresh, received, tables>>

ParseEnds ==
  \E p \in parses :
    /\ parses' = parses \ {p}
    /\ IF p.cancelled THEN UNCHANGED <<scanResultData, isLoading>>
       ELSE /\ isLoading' = FALSE
            /\ scanResultData' = IF Detail(p.row).value = Failed THEN NoData ELSE Detail(p.row)
    /\ UNCHANGED <<rows, fresh, uuid, received, visits, tables>>

Init ==
  /\ rows = NoRows /\ fresh = 0 /\ uuid = NoId /\ parses = {}
  /\ scanResultData = NoData /\ isLoading = FALSE
  /\ received = <<>> /\ visits = 0 /\ tables = 0

Next == TableArrives \/ Open \/ ParseEnds
Spec == Init /\ [][Next]_vars

-----------------------------------------------------------------------------
(* Properties *)

\* Every result of a set that can be read has one row, with its own value and the
\* verdict on its own label; a row without set is there as it came.
EveryResultHasItsRow ==
  \A i \in DOMAIN received :
    LET row == received[i]
    IN IF row.type # "resultset" THEN \E j \in DOMAIN rows : rows[j].transcript = row.transcript
       ELSE row.readable =>
         \A k \in DOMAIN row.results :
           LET r == row.results[k]
               own == {j \in DOMAIN rows : /\ rows[j].transcript = row.transcript
                                           /\ rows[j].label = r.label /\ rows[j].value = r.value}
           IN /\ own # {}
              /\ (row.verdict.kind = "labels" /\ r.label \in DOMAIN row.verdict.of) =>
                   \A j \in own : rows[j].verdict = [kind |-> "whole", is |-> row.verdict.of[r.label]]

\* A row that was made up is for a label that no result has, so that no label
\* of a transcript has two rows for this.
MadeUpAreMissing ==
  \A i, j \in DOMAIN rows :
    "synthetic" \in DOMAIN rows[i] /\ rows[i].label = rows[j].label => i = j

\* A row is found by its identifier alone.
IdentifiersDiffer == \A i, j \in DOMAIN rows : rows[i].id = rows[j].id => i = j

\* Once nothing is loading, the page shows the result of its address or, when
\* that is in no row or cannot be parsed, none.
PageShowsItsResult ==
  ~isLoading => scanResultData.id \in {uuid, NoId}

\* The list and the page of a result agree on it.
ListAndPageAgree ==
  ~isLoading /\ scanResultData # NoData =>
    \A i \in DOMAIN Summaries : Summaries[i].id = scanResultData.id => Summaries[i] = scanResultData
=============================================================================
