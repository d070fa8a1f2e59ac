----------------------------- MODULE ScanLedger -----------------------------
(***************************************************************************)
(* What the recorder of a scan promises the user: results are entered one  *)
(* by one and never taken back, and a scan that has been closed stays as   *)
(* it is.  It is closed when every result is in, or by the user's word.    *)
(***************************************************************************)
CONSTANTS
    Pairs,           \* transcript and scanner
    Excused          \* the pairs that need no result

VARIABLES
    ledger,          \* the pairs with a result
    accepted,        \* the user asked for it to be completed as it is
    closed           \* the scan is complete

LedgerInit == ledger = {} /\ accepted = FALSE /\ closed = FALSE

\* A scanner's result for a transcript is recorded.
Enter(p) ==
    /\ ~closed
    /\ p \notin ledger
    /\ ledger' = ledger \cup {p}
    /\ UNCHANGED <<accepted, closed>>

\* The user gives up on the results that are missing.
Accept ==
    /\ ~closed
    /\ accepted' = TRUE
    /\ UNCHANGED <<ledger, closed>>

\* The scan is complete: every pair has its result, or need not have one.
Finish ==
    /\ ~closed
    /\ accepted \/ Pairs \ Excused \subseteq ledger
    /\ closed' = TRUE
    /\ UNCHANGED <<ledger, accepted>>

LedgerNext == (\E p \in Pairs : Enter(p)) \/ Accept \/ Finish

LedgerSpec == LedgerInit /\ [][LedgerNext]_<<ledger, accepted, closed>>
=============================================================================
