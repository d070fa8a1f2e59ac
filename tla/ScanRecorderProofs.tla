------------------------- MODULE ScanRecorderProofs -------------------------
(***************************************************************************)
(* Theorems of ScanRecorder, for any transcripts, any number of scanners,  *)
(* and any number of sessions.  RecorderTypes, CompleteScansAreWhole and   *)
(* ErrorsAreListed hold without more, ErrorListIsExact where every pair    *)
(* reports something.  The others suppose Spared: that the process does    *)
(* not die inside the removal of the buffer, and that nothing fails        *)
(* between the sync of a session and its end, the two phases in which the  *)
(* code does lose work.                                                    *)
(***************************************************************************)
EXTENDS ScanRecorder, TLAPS

-----------------------------------------------------------------------------
(* Types *)

\* The phases that need the buffer directory.
InBuffer == {"open", "snapshotting", "scanning", "metrics", "cleaning"} \cup Recording

\* TypeOK, with what it needs of the phases.
Typed ==
    /\ TypeOK
    /\ at \in InBuffer => bufferDir
    /\ at = "writing" => next \in Scanners

LEMMA TypedInit == Init => Typed
<1> SUFFICES ASSUME Init PROVE Typed
  OBVIOUS
<1> USE DEF Init
<1>1. file \in [Pairs -> Rows] /\ table \in [Pairs -> Rows] /\ \A p \in Pairs : file[p] = "none"
  BY DEF Rows
<1>2. next \in 1 .. NumScanners + 1
  BY NumScannersAssumption
<1>3. at \in Phases /\ at \notin Recording /\ at \notin InBuffer
  BY DEF Phases, Recording, InBuffer
<1>4. QED
  BY <1>1, <1>2, <1>3 DEF Typed, TypeOK, Verdicts

LEMMA TypedNext == Typed /\ [Next]_vars => Typed'
<1> SUFFICES ASSUME Typed, [Next]_vars
             PROVE  Typed'
  OBVIOUS
<1> USE NumScannersAssumption DEF Typed, TypeOK, buffer, out, history, Phases, Recording, InBuffer, Verdicts, Rows
<1>1. CASE Create
  BY <1>1 DEF Create, StartSession, OpenBuffer, TruncateErrors
<1>2. CASE Resume
  BY <1>2 DEF Resume, StartSession, OpenBuffer, TruncateErrors
<1>3. CASE OpenSpec
  BY <1>3 DEF OpenSpec
<1>4. CASE Snapshot
  BY <1>4 DEF Snapshot
<1>5. ASSUME NEW p \in Pairs, RecordNothing(p)
      PROVE  Typed'
  BY <1>5 DEF RecordNothing
<1>6. ASSUME NEW p \in Pairs, NEW row \in Rows, ReplaceFile(p, row)
      PROVE  Typed'
  <2>1. p[2] \in Scanners
    BY DEF Pairs
  <2>2. current' # NoPair /\ current' \in Pairs \X Rows
    BY <1>6 DEF ReplaceFile, NoPair
  <2>. QED
    BY <1>6, <2>1, <2>2 DEF ReplaceFile
<1>7. CASE CountScan
  BY <1>7 DEF CountScan
<1>8. CASE AppendError
  BY <1>8 DEF AppendError, EndRecord
<1>9. CASE RecordMetrics
  BY <1>9 DEF RecordMetrics
<1>10. CASE SyncResults
  BY <1>10 DEF SyncResults, BeginSync, EndRecord
<1>11. CASE Interrupted
  BY <1>11 DEF Interrupted, BeginSync, EndRecord
<1>12. CASE ForceComplete
  BY <1>12 DEF ForceComplete, BeginSync, EndRecord
<1>13. CASE OpenTable
  BY <1>13 DEF OpenTable, RowsOf
<1>14. CASE WriteTable
  BY <1>14 DEF WriteTable, RowsOf, Scanners
<1>15. CASE SkipTable
  BY <1>15 DEF SkipTable, Scanners
<1>16. CASE WriteSummary
  BY <1>16 DEF WriteSummary, Completes
<1>17. CASE WriteErrors
  BY <1>17 DEF WriteErrors, CleansUp, Completes
<1>18. ASSUME NEW p \in Pairs, RemoveFile(p)
       PROVE  Typed'
  BY <1>18 DEF RemoveFile
<1>19. ASSUME NEW s \in Scanners, RemoveScannerDir(s)
       PROVE  Typed'
  BY <1>19 DEF RemoveScannerDir
<1>20. CASE RemoveSummary
  BY <1>20 DEF RemoveSummary
<1>21. CASE RemoveBuffer
  BY <1>21 DEF RemoveBuffer
<1>22. CASE Leave
  BY <1>22 DEF Leave
<1>23. CASE FailLate
  BY <1>23 DEF FailLate, BeginSync, EndRecord
<1>24. CASE Crash
  BY <1>24 DEF Crash, EndRecord
<1>25. CASE UNCHANGED vars
  BY <1>25 DEF vars
<1>26. QED
  BY <1>1, <1>2, <1>3, <1>4, <1>5, <1>6, <1>7, <1>8, <1>9, <1>10, <1>11, <1>12, <1>13,
     <1>14, <1>15, <1>16, <1>17, <1>18, <1>19, <1>20, <1>21, <1>22, <1>23, <1>24, <1>25
     DEF Next, Rest

\* Every variable keeps its type, and the directories their shape: no file of
\* a pair without its scanner's directory, no directory without a buffer.
THEOREM RecorderTypes == Spec => []TypeOK
<1>1. Typed => TypeOK
  BY DEF Typed
<1>2. QED
  BY <1>1, TypedInit, TypedNext, PTL DEF Spec
-----------------------------------------------------------------------------
(* Nothing recorded is lost *)

\* No crash inside the removal of the buffer, no failure after the sync.
Spared == Exposed \cap {"cleaning", "synced"} = {}

Idle == {"off", "synced"}
Saving == {"syncing", "writing"}

\* The tables of the scanners below n hold all that was recorded for them.
SavedBelow(n) == \A p \in done : p[2] < n => table[p] = "ok"
Saved == \A p \in done : table[p] = "ok"
Buffered == \A p \in done : file[p] = "ok"

\* Until its removal, the buffer holds all that was recorded; sync fills the
\* tables from it, scanner by scanner; and once the removal begins the tables
\* hold everything and the scan is complete, so that no session follows.
Kept ==
    /\ spec = "none" => at = "off" /\ done = {} /\ ~bufferDir /\ ~outComplete
    /\ at \notin Idle => bufferDir
    /\ bufferDir /\ at # "cleaning" => Buffered
    /\ at \in Saving => SavedBelow(next)
    /\ at = "status" => Saved /\ (outComplete <=> Completes)
    /\ at = "cleaning" => Saved /\ outComplete
    /\ ~bufferDir /\ spec # "none" => Saved /\ outComplete
    /\ todo \cap done = {}
    /\ at \in {"off", "open", "snapshotting"} => todo = {}

LEMMA KeptInit == Init => Kept
BY DEF Init, Kept, Idle, Saving, Saved, Buffered, SavedBelow

LEMMA KeptNext ==
    ASSUME Spared, Typed, Kept, [Next]_vars
    PROVE  Kept'
<1> USE NumScannersAssumption DEF Spared, Typed, TypeOK, Kept, Idle, Saving, Saved, Buffered, SavedBelow,
        buffer, out, history, Recording, Scanners, Pairs
<1>1. CASE Create
  BY <1>1 DEF Create, StartSession, OpenBuffer, TruncateErrors
<1>2. CASE Resume
  BY <1>2 DEF Resume, StartSession, OpenBuffer, TruncateErrors, Complete
<1>3. CASE OpenSpec
  BY <1>3 DEF OpenSpec
<1>4. CASE Snapshot
  BY <1>4 DEF Snapshot, IsRecorded
<1>5. ASSUME NEW p \in Pairs, RecordNothing(p)
      PROVE  Kept'
  BY <1>5 DEF RecordNothing
<1>6. ASSUME NEW p \in Pairs, NEW row \in Rows, ReplaceFile(p, row)
      PROVE  Kept'
  BY <1>6 DEF ReplaceFile
<1>7. CASE CountScan
  BY <1>7 DEF CountScan
<1>8. CASE AppendError
  BY <1>8 DEF AppendError, EndRecord
<1>9. CASE RecordMetrics
  BY <1>9 DEF RecordMetrics
<1>10. CASE SyncResults
  BY <1>10 DEF SyncResults, BeginSync, EndRecord
<1>11. CASE Interrupted
  BY <1>11 DEF Interrupted, BeginSync, EndRecord
<1>12. CASE ForceComplete
  BY <1>12 DEF ForceComplete, BeginSync, EndRecord, Complete
<1>13. CASE OpenTable
  BY <1>13 DEF OpenTable, RowsOf
<1>14. CASE WriteTable
  BY <1>14 DEF WriteTable, RowsOf
<1>15. CASE SkipTable
  BY <1>15 DEF SkipTable
<1>16. CASE WriteSummary
  <2>1. \A p \in done : p[2] < next
    BY <1>16 DEF WriteSummary
  <2>2. Saved
    BY <1>16, <2>1 DEF WriteSummary
  <2>3. QED
    BY <1>16, <2>2 DEF WriteSummary, Completes
<1>17. CASE WriteErrors
  BY <1>17 DEF WriteErrors, CleansUp, Completes
<1>18. ASSUME NEW p \in Pairs, RemoveFile(p)
      PROVE  Kept'
  BY <1>18 DEF RemoveFile
<1>19. ASSUME NEW s \in Scanners, RemoveScannerDir(s)
      PROVE  Kept'
  BY <1>19 DEF RemoveScannerDir
<1>20. CASE RemoveSummary
  BY <1>20 DEF RemoveSummary
<1>21. CASE RemoveBuffer
  BY <1>21 DEF RemoveBuffer
<1>22. CASE Leave
  BY <1>22 DEF Leave
<1>23. CASE Crash
  BY <1>23 DEF Crash, EndRecord
<1>24. CASE UNCHANGED vars
  BY <1>24 DEF vars, Completes
<1>25. ~FailLate
  BY DEF FailLate
<1>26. QED
  BY <1>1, <1>2, <1>3, <1>4, <1>5, <1>6, <1>7, <1>8, <1>9, <1>10, <1>11, <1>12, <1>13, <1>14, <1>15, <1>16, <1>17, <1>18, <1>19, <1>20, <1>21, <1>22, <1>23, <1>24, <1>25
     DEF Next, Rest

\* A session never scans a pair again that an earlier one recorded without an
\* error.
THEOREM WorkIsKept ==
    ASSUME Spared
    PROVE  Spec => []WorkKept
<1>1. Kept => WorkKept
  BY DEF Kept, WorkKept
<1>2. QED
  BY <1>1, TypedInit, TypedNext, KeptInit, KeptNext, PTL DEF Spec

\* What was recorded is in the buffer or in the tables, at every moment.
THEOREM NothingIsLost ==
    ASSUME Spared
    PROVE  Spec => []NeverLost
<1>1. Kept => NeverLost
  BY DEF Kept, NeverLost, Buffered, Saved
<1>2. QED
  BY <1>1, TypedInit, TypedNext, KeptInit, KeptNext, PTL DEF Spec

\* A complete scan has it in the tables.
THEOREM CompleteScansKeepAll ==
    ASSUME Spared
    PROVE  Spec => []CompleteKeepsAll
<1>1. Kept => CompleteKeepsAll
  BY DEF Kept, CompleteKeepsAll, Complete, Saved
<1>2. QED
  BY <1>1, TypedInit, TypedNext, KeptInit, KeptNext, PTL DEF Spec
-----------------------------------------------------------------------------
(* The recorder implements the ledger *)

\* Every pair that must have a result is still to be scanned, recorded without
\* an error, or on the list of errors, for which record() may be on its way.
\* So a session that has nothing left to scan and no errors has it all.
Accounted ==
    /\ \A p \in Pairs : file[p] = "ok" => p \in done
    /\ at \in {"scanning", "metrics"} \cup Recording =>
          \A p \in Pairs \ Vacuous :
             \/ p \in todo \cup done \cup bufferErrors
             \/ at \in Recording /\ current = <<p, "error">>
    /\ at = "metrics" => todo = {}
    /\ verdict = "complete" => Pairs \ Vacuous \subseteq done
    /\ verdict = "forced" => forced
    /\ at = "cleaning" => Completes

LEMMA AccountedInit == Init => Accounted
BY DEF Init, Accounted, Recording

LEMMA AccountedNext ==
    ASSUME Spared, Typed, Kept, Accounted, [Next]_vars
    PROVE  Accounted'
<1> USE DEF Spared, Typed, TypeOK, Kept, Idle, Buffered, Accounted, Completes,
        buffer, out, history, Recording
<1>1. CASE Create
  BY <1>1 DEF Create, StartSession, OpenBuffer, TruncateErrors
<1>2. CASE Resume
  BY <1>2 DEF Resume, StartSession, OpenBuffer, TruncateErrors, Complete
<1>3. CASE OpenSpec
  BY <1>3 DEF OpenSpec
<1>4. CASE Snapshot
  BY <1>4 DEF Snapshot, IsRecorded
<1>5. ASSUME NEW p \in Pairs, RecordNothing(p)
      PROVE  Accounted'
  BY <1>5 DEF RecordNothing
<1>6. ASSUME NEW p \in Pairs, NEW row \in Rows, ReplaceFile(p, row)
      PROVE  Accounted'
  BY <1>6 DEF ReplaceFile
<1>7. CASE CountScan
  BY <1>7 DEF CountScan
<1>8. CASE AppendError
  BY <1>8 DEF AppendError, EndRecord
<1>9. CASE RecordMetrics
  BY <1>9 DEF RecordMetrics
<1>10. CASE SyncResults
  BY <1>10 DEF SyncResults, BeginSync, EndRecord, NoErrors
<1>11. CASE Interrupted
  BY <1>11 DEF Interrupted, BeginSync, EndRecord
<1>12. CASE ForceComplete
  BY <1>12 DEF ForceComplete, BeginSync, EndRecord, Complete
<1>13. CASE OpenTable
  BY <1>13 DEF OpenTable, RowsOf
<1>14. CASE WriteTable
  BY <1>14 DEF WriteTable, RowsOf
<1>15. CASE SkipTable
  BY <1>15 DEF SkipTable
<1>16. CASE WriteSummary
  BY <1>16 DEF WriteSummary
<1>17. CASE WriteErrors
  BY <1>17 DEF WriteErrors, CleansUp
<1>18. ASSUME NEW p \in Pairs, RemoveFile(p)
      PROVE  Accounted'
  BY <1>18 DEF RemoveFile
<1>19. ASSUME NEW s \in Scanners, RemoveScannerDir(s)
      PROVE  Accounted'
  BY <1>19 DEF RemoveScannerDir
<1>20. CASE RemoveSummary
  BY <1>20 DEF RemoveSummary
<1>21. CASE RemoveBuffer
  BY <1>21 DEF RemoveBuffer
<1>22. CASE Leave
  BY <1>22 DEF Leave
<1>23. CASE Crash
  BY <1>23 DEF Crash, EndRecord
<1>24. CASE UNCHANGED vars
  BY <1>24 DEF vars
<1>25. ~FailLate
  BY DEF FailLate
<1>26. QED
  BY <1>1, <1>2, <1>3, <1>4, <1>5, <1>6, <1>7, <1>8, <1>9, <1>10, <1>11, <1>12,
     <1>13, <1>14, <1>15, <1>16, <1>17, <1>18, <1>19, <1>20, <1>21, <1>22, <1>23, <1>24, <1>25
     DEF Next, Rest

\* A step of the recorder is a step of the ledger, or none.
LEMMA LedgerStep ==
    ASSUME Spared, Typed, Kept, Accounted, [Next]_vars
    PROVE  [Ledger!LedgerNext]_<<done, forced, Complete>>
<1> USE DEF Spared, Typed, TypeOK, Kept, Idle, Accounted, buffer, out, history, Recording, Complete
<1>1. CASE Create
  BY <1>1 DEF Create, StartSession, OpenBuffer
<1>2. CASE Resume
  BY <1>2 DEF Resume, StartSession, OpenBuffer
<1>3. CASE OpenSpec
  BY <1>3 DEF OpenSpec
<1>4. CASE Snapshot
  BY <1>4 DEF Snapshot
<1>5. ASSUME NEW p \in Pairs, RecordNothing(p)
      PROVE  [Ledger!LedgerNext]_<<done, forced, Complete>>
  BY <1>5 DEF RecordNothing
<1>6. ASSUME NEW p \in Pairs, NEW row \in Rows, ReplaceFile(p, row)
      PROVE  [Ledger!LedgerNext]_<<done, forced, Complete>>
  <2>1. p \notin done /\ ~Complete /\ UNCHANGED <<forced, Complete>>
    BY <1>6 DEF ReplaceFile
  <2>2. CASE row = "ok"
    <3>1. Ledger!Enter(p)
      BY <1>6, <2>1, <2>2 DEF ReplaceFile, Ledger!Enter
    <3>2. QED
      BY <3>1 DEF Ledger!LedgerNext
  <2>3. CASE row # "ok"
    BY <1>6, <2>1, <2>3 DEF ReplaceFile
  <2>4. QED
    BY <2>2, <2>3
<1>7. CASE CountScan
  BY <1>7 DEF CountScan
<1>8. CASE AppendError
  BY <1>8 DEF AppendError
<1>9. CASE RecordMetrics
  BY <1>9 DEF RecordMetrics
<1>10. CASE SyncResults
  BY <1>10 DEF SyncResults
<1>11. CASE Interrupted
  BY <1>11 DEF Interrupted
<1>12. CASE ForceComplete
  <2>1. Ledger!Accept
    BY <1>12 DEF ForceComplete, Ledger!Accept
  <2>2. QED
    BY <2>1 DEF Ledger!LedgerNext
<1>13. CASE OpenTable
  BY <1>13 DEF OpenTable
<1>14. CASE WriteTable
  BY <1>14 DEF WriteTable
<1>15. CASE SkipTable
  BY <1>15 DEF SkipTable
<1>16. CASE WriteSummary
  BY <1>16 DEF WriteSummary
<1>17. CASE WriteErrors
  BY <1>17 DEF WriteErrors
<1>18. ASSUME NEW p \in Pairs, RemoveFile(p)
      PROVE  [Ledger!LedgerNext]_<<done, forced, Complete>>
  BY <1>18 DEF RemoveFile
<1>19. ASSUME NEW s \in Scanners, RemoveScannerDir(s)
      PROVE  [Ledger!LedgerNext]_<<done, forced, Complete>>
  BY <1>19 DEF RemoveScannerDir
<1>20. CASE RemoveSummary
  BY <1>20 DEF RemoveSummary
<1>21. CASE RemoveBuffer
  <2>1. ~Complete /\ Complete' /\ UNCHANGED <<done, forced>>
    BY <1>21 DEF RemoveBuffer
  <2>2. forced \/ Pairs \ Vacuous \subseteq done
    BY <1>21 DEF RemoveBuffer, Completes
  <2>3. Ledger!Finish
    BY <2>1, <2>2 DEF Ledger!Finish
  <2>4. QED
    BY <2>3 DEF Ledger!LedgerNext
<1>22. CASE Leave
  BY <1>22 DEF Leave
<1>23. CASE Crash
  BY <1>23 DEF Crash
<1>24. CASE UNCHANGED vars
  BY <1>24 DEF vars
<1>25. ~FailLate
  BY DEF FailLate
<1>26. QED
  BY <1>1, <1>2, <1>3, <1>4, <1>5, <1>6, <1>7, <1>8, <1>9, <1>10, <1>11, <1>12,
     <1>13, <1>14, <1>15, <1>16, <1>17, <1>18, <1>19, <1>20, <1>21, <1>22, <1>23, <1>24, <1>25
     DEF Next, Rest

\* Recording, completing and status, over crashes and failed writes, implement
\* a ledger that is only added to, and closed once.
THEOREM RecorderImplementsLedger ==
    ASSUME Spared
    PROVE  Spec => ImplementsLedger
<1>1. Init => Ledger!LedgerInit
  BY DEF Init, Ledger!LedgerInit, Complete
<1>2. QED
  BY <1>1, TypedInit, TypedNext, KeptInit, KeptNext, AccountedInit, AccountedNext, LedgerStep, PTL
     DEF Spec, ImplementsLedger, Ledger!LedgerSpec
-----------------------------------------------------------------------------
(* A scan that completes of its own is whole, whatever strikes *)

Required == Pairs \ Vacuous
InFiles == \A p \in Required : file[p] = "ok"
InTablesBelow(n) == \A p \in Required : p[2] < n => table[p] = "ok"
InTables == \A p \in Required : table[p] = "ok"

\* What earlier sessions recorded may be gone; but the session that completes
\* the scan has seen to every pair again, and the buffer it syncs has them all.
WholeInv ==
    /\ at \in {"scanning", "metrics"} \cup Recording =>
          \A p \in Required :
             \/ p \in todo \cup bufferErrors \/ file[p] = "ok"
             \/ at \in Recording /\ current = <<p, "error">>
    /\ at = "metrics" => todo = {}
    /\ at = "writing" => next \in dirs
    /\ verdict = "complete" =>
          /\ at \in Saving => InFiles /\ InTablesBelow(next)
          /\ at \in {"status", "cleaning"} => InTables
    /\ verdict = "forced" => forced
    /\ at = "cleaning" => Completes
    /\ Complete /\ ~forced => InTables

LEMMA WholeInit == Init => WholeInv
BY DEF Init, WholeInv, Recording, Saving, Complete

LEMMA WholeNext ==
    ASSUME Typed, WholeInv, [Next]_vars
    PROVE  WholeInv'
<1> USE NumScannersAssumption DEF Typed, TypeOK, WholeInv, Required, InFiles, InTablesBelow, InTables,
        Complete, Completes, Saving, InBuffer, buffer, out, history, Recording, Scanners, Pairs
<1>1. CASE Create
  BY <1>1 DEF Create, StartSession, OpenBuffer
<1>2. CASE Resume
  BY <1>2 DEF Resume, StartSession, OpenBuffer
<1>3. CASE OpenSpec
  BY <1>3 DEF OpenSpec
<1>4. CASE Snapshot
  BY <1>4 DEF Snapshot, IsRecorded
<1>5. ASSUME NEW p \in Pairs, RecordNothing(p)
      PROVE  WholeInv'
  BY <1>5 DEF RecordNothing
<1>6. ASSUME NEW p \in Pairs, NEW row \in Rows, ReplaceFile(p, row)
      PROVE  WholeInv'
  BY <1>6 DEF ReplaceFile
<1>7. CASE CountScan
  BY <1>7 DEF CountScan
<1>8. CASE AppendError
  BY <1>8 DEF AppendError, EndRecord
<1>9. CASE RecordMetrics
  BY <1>9 DEF RecordMetrics
<1>10. CASE SyncResults
  BY <1>10 DEF SyncResults, BeginSync, EndRecord, NoErrors
<1>11. CASE Interrupted
  BY <1>11 DEF Interrupted, BeginSync
<1>12. CASE ForceComplete
  BY <1>12 DEF ForceComplete, BeginSync
<1>13. CASE OpenTable
  BY <1>13 DEF OpenTable, RowsOf
<1>14. CASE WriteTable
  BY <1>14 DEF WriteTable, RowsOf
<1>15. CASE SkipTable
  BY <1>15 DEF SkipTable
<1>16. CASE WriteSummary
  BY <1>16 DEF WriteSummary
<1>17. CASE WriteErrors
  BY <1>17 DEF WriteErrors, CleansUp
<1>18. ASSUME NEW p \in Pairs, RemoveFile(p)
      PROVE  WholeInv'
  BY <1>18 DEF RemoveFile
<1>19. ASSUME NEW s \in Scanners, RemoveScannerDir(s)
      PROVE  WholeInv'
  BY <1>19 DEF RemoveScannerDir
<1>20. CASE RemoveSummary
  BY <1>20 DEF RemoveSummary
<1>21. CASE RemoveBuffer
  BY <1>21 DEF RemoveBuffer
<1>22. CASE Leave
  BY <1>22 DEF Leave
<1>23. CASE FailLate
  BY <1>23 DEF FailLate, BeginSync
<1>24. CASE Crash
  BY <1>24 DEF Crash
<1>25. CASE UNCHANGED vars
  BY <1>25 DEF vars
<1>26. QED
  BY <1>1, <1>2, <1>3, <1>4, <1>5, <1>6, <1>7, <1>8, <1>9, <1>10, <1>11, <1>12,
     <1>13, <1>14, <1>15, <1>16, <1>17, <1>18, <1>19, <1>20, <1>21, <1>22, <1>23, <1>24, <1>25
     DEF Next, Rest

\* A scan that completed of its own has a result of every pair that must have
\* one: no assumption on where a crash or a failure may strike.
THEOREM CompleteScansAreWhole == Spec => []CompleteIsWhole
<1>1. WholeInv => CompleteIsWhole
  BY DEF WholeInv, CompleteIsWhole, InTables, Required
<1>2. QED
  BY <1>1, TypedInit, TypedNext, WholeInit, WholeNext, PTL DEF Spec
-----------------------------------------------------------------------------
(* The list of errors *)

\* The errors listed are those on file, for the pairs that are not to be
\* scanned any more; but record() may be on its way to list the one it is at.
ListInv ==
    /\ at \in {"open", "snapshotting"} => bufferErrors = {}
    /\ at \in Recording => current[1] \notin todo /\ file[current[1]] = current[2]
    /\ at \in {"scanning", "metrics"} \cup Recording =>
          \A p \in Required :
             p \in bufferErrors <=>
                /\ p \notin todo /\ file[p] = "error"
                /\ at \in Recording => current[1] # p

LEMMA ListInit == Init => ListInv
BY DEF Init, ListInv, Recording

LEMMA ListNext ==
    ASSUME Typed, ListInv, [Next]_vars
    PROVE  ListInv'
<1> USE DEF Typed, TypeOK, ListInv, Required, buffer, out, history, Recording
<1>1. CASE Create \/ Resume
  BY <1>1 DEF Create, Resume, StartSession, OpenBuffer, TruncateErrors
<1>2. CASE OpenSpec
  BY <1>2 DEF OpenSpec
<1>3. CASE Snapshot
  BY <1>3 DEF Snapshot, IsRecorded
<1>4. ASSUME NEW p \in Pairs, RecordNothing(p)
      PROVE  ListInv'
  BY <1>4 DEF RecordNothing
<1>5. ASSUME NEW p \in Pairs, NEW row \in Rows, ReplaceFile(p, row)
      PROVE  ListInv'
  <2>1. /\ at = "scanning" /\ p \in todo /\ at' = "replaced" /\ todo' = todo \ {p}
        /\ file' = [file EXCEPT ![p] = row] /\ current' = <<p, row>> /\ bufferErrors' = bufferErrors
    BY <1>5 DEF ReplaceFile
  <2>2. current'[1] = p /\ current'[2] = row /\ file'[p] = row
    BY <2>1
  <2>3. ASSUME NEW q \in Required
        PROVE  q \in bufferErrors' <=> q \notin todo' /\ file'[q] = "error" /\ p # q
    <3>1. q \in bufferErrors <=> q \notin todo /\ file[q] = "error"
      BY <2>1
    <3>2. CASE q = p
      BY <2>1, <3>1, <3>2
    <3>3. CASE q # p
      BY <2>1, <3>1, <3>3
    <3>4. QED
      BY <3>2, <3>3
  <2>4. QED
    BY <2>1, <2>2, <2>3
<1>6. CASE CountScan
  BY <1>6 DEF CountScan
<1>7. CASE AppendError
  <2>1. /\ at = "counted" /\ at' = "scanning" /\ todo' = todo /\ file' = file
        /\ current[1] \notin todo /\ file[current[1]] = current[2]
        /\ bufferErrors' = IF current[2] = "error" THEN bufferErrors \cup {current[1]} ELSE bufferErrors
    BY <1>7 DEF AppendError
  <2>2. ASSUME NEW q \in Required
        PROVE  q \in bufferErrors' <=> q \notin todo /\ file[q] = "error"
    <3>1. q \in bufferErrors <=> q \notin todo /\ file[q] = "error" /\ current[1] # q
      BY <2>1
    <3>2. QED
      BY <2>1, <3>1
  <2>3. QED
    BY <2>1, <2>2
<1>8. CASE RecordMetrics
  BY <1>8 DEF RecordMetrics
<1>9. CASE SyncResults \/ Interrupted \/ ForceComplete \/ FailLate
  BY <1>9 DEF SyncResults, Interrupted, ForceComplete, FailLate, BeginSync
<1>10. CASE OpenTable \/ WriteTable \/ SkipTable \/ WriteSummary \/ WriteErrors
  BY <1>10 DEF OpenTable, WriteTable, SkipTable, WriteSummary, WriteErrors
<1>11. ASSUME NEW p \in Pairs, RemoveFile(p)
       PROVE  ListInv'
  BY <1>11 DEF RemoveFile
<1>12. ASSUME NEW s \in Scanners, RemoveScannerDir(s)
       PROVE  ListInv'
  BY <1>12 DEF RemoveScannerDir
<1>13. CASE RemoveSummary \/ RemoveBuffer \/ Leave \/ Crash
  BY <1>13 DEF RemoveSummary, RemoveBuffer, Leave, Crash
<1>14. CASE UNCHANGED vars
  BY <1>14 DEF vars
<1>15. QED
  BY <1>1, <1>2, <1>3, <1>4, <1>5, <1>6, <1>7, <1>8, <1>9, <1>10, <1>11, <1>12, <1>13, <1>14
     DEF Next, Rest

\* Whenever record() has returned, of the pairs that have to report exactly
\* those with an error on file are listed, but those still to be retried:
\* wherever a crash or a failure may strike.
THEOREM ErrorsAreListed ==
    Spec => [](at \in {"scanning", "metrics"} =>
                 \A p \in Pairs \ Vacuous :
                    p \in bufferErrors <=> p \notin todo /\ file[p] = "error")
<1>1. ListInv => (at \in {"scanning", "metrics"} =>
                    \A p \in Pairs \ Vacuous :
                       p \in bufferErrors <=> p \notin todo /\ file[p] = "error")
  BY DEF ListInv, Required, Recording
<1>2. QED
  BY <1>1, TypedInit, TypedNext, ListInit, ListNext, PTL DEF Spec

\* The list is exact where every pair has to report.
THEOREM ErrorListIsExact ==
    ASSUME Vacuous = {}
    PROVE  Spec => []ErrorListExact
<1>1. Typed /\ ListInv => ErrorListExact
  BY DEF Typed, TypeOK, ListInv, Required, Recording, ErrorListExact
<1>2. QED
  BY <1>1, TypedInit, TypedNext, ListInit, ListNext, PTL DEF Spec
=============================================================================
