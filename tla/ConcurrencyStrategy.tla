------------------------ MODULE ConcurrencyStrategy ------------------------
(***************************************************************************)
(* What a concurrency strategy of inspect_scout promises its caller, the   *)
(* body of _scan_async_inner: it is handed the wanted (transcript,         *)
(* scanner) pairs, it records the outcome of each pair at most once, and   *)
(* it returns only when every pair has been recorded, or raises.           *)
(***************************************************************************)
EXTENDS Naturals

CONSTANT Wanted      \* the (transcript, scanner) pairs this call must scan

VARIABLES
    records,         \* how many times record_results was called for a pair
    outcome          \* what the call did: "running", "returned" or "raised"

strategyVars == <<records, outcome>>

StrategyTypeOK ==
    /\ records \in [Wanted -> {0, 1}]
    /\ outcome \in {"running", "returned", "raised"}

StrategyInit ==
    /\ records = [j \in Wanted |-> 0]
    /\ outcome = "running"

\* record_results(transcript, scanner, reports) for a pair not yet recorded.
Record(j) ==
    /\ outcome = "running"
    /\ records[j] = 0
    /\ records' = [records EXCEPT ![j] = 1]
    /\ UNCHANGED outcome

\* The awaited strategy returns.
Return ==
    /\ outcome = "running"
    /\ \A j \in Wanted : records[j] = 1
    /\ outcome' = "returned"
    /\ UNCHANGED records

\* A scanner, the recorder or the user (cancellation) brings the call down.
Raise ==
    /\ outcome = "running"
    /\ outcome' = "raised"
    /\ UNCHANGED records

StrategyNext == Return \/ Raise \/ \E j \in Wanted : Record(j)

StrategySpec ==
    /\ StrategyInit
    /\ [][StrategyNext]_strategyVars
    /\ WF_strategyVars(StrategyNext)
=============================================================================
