---------------------------- MODULE ScanRecorder ----------------------------
(***************************************************************************)
(* How a scan is recorded, interrupted, resumed and completed:             *)
(* _recorder/buffer.py, _recorder/file.py and the parts of _scan.py and    *)
(* _scancontext.py that drive them.                                        *)
(*                                                                         *)
(* A session (scan, scan resume) writes one small file per transcript and  *)
(* scanner into a buffer directory, together with a summary and a list of  *)
(* errors.  sync copies the buffer into the scan directory as one table    *)
(* per scanner, and removes the buffer when the scan is complete.  A       *)
(* session may be interrupted, a write may fail, and the process may die   *)
(* between any two writes; a later session goes on from the files.         *)
(*                                                                         *)
(* Every step that changes a file is an action of its own.  A write that   *)
(* replaces a file in place is two steps where the torn file can be met.   *)
(***************************************************************************)
EXTENDS Integers, FiniteSets

CONSTANTS
    Transcripts,     \* the transcripts of the scan
    NumScanners,     \* the scanners, numbered in the sorted order of sync
    Vacuous,         \* the pairs whose scanner has nothing to report
    Exposed,         \* the delicate phases the environment may strike in
    MaxSessions      \* bound: sessions and commands run on the scan

ASSUME NumScannersAssumption == NumScanners \in Nat
ASSUME VacuousAssumption == Vacuous \subseteq Transcripts \X (1 .. NumScanners)
ASSUME ExposedAssumption == Exposed \subseteq {"snapshotting", "cleaning", "synced"}

Scanners == 1 .. NumScanners
Pairs == Transcripts \X Scanners
Rows == {"none", "ok", "error"}

VARIABLES
    \* the buffer directory
    bufferDir,       \* it exists
    dirs,            \* the scanners whose subdirectory exists
    file,            \* what the file of a pair holds ("error": some scan_error is set)
    bufferScans,     \* the scans counted by the summary file
    bufferErrors,    \* the pairs listed by the errors file
    \* the scan directory
    spec,            \* _scan.json: "none", "bare" (no snapshot), "full" or "torn"
    table,           \* what the scanner's table says of a pair
    outScans,        \* the scans counted by the summary
    outComplete,     \* the summary's complete flag
    outErrors,       \* the pairs listed by the errors file
    \* the process working on the scan
    at,              \* its phase, "off" between sessions
    todo,            \* the pairs the session has still to scan
    current,         \* the pair record() is working on, with its row
    memScans,        \* the scans counted by the summary in memory
    next,            \* the next scanner sync writes
    verdict,         \* why sync runs: it completes the scan if "complete" or "forced"
    \* history
    sessions,        \* sessions and commands run so far
    done,            \* the pairs recorded without an error
    forced           \* scan_complete was run

buffer == <<bufferDir, dirs, file, bufferScans, bufferErrors>>
out == <<table, outScans, outComplete, outErrors>>
history == <<sessions, done, forced>>
vars == <<bufferDir, dirs, file, bufferScans, bufferErrors, spec,
          table, outScans, outComplete, outErrors,
          at, todo, current, memScans, next, verdict, sessions, done, forced>>

Recording == {"replaced", "counted"}
Phases == {"off", "open", "snapshotting", "scanning", "metrics",
           "syncing", "writing", "status", "cleaning", "synced"} \cup Recording
NoPair == <<>>
Verdicts == {"complete", "errors", "interrupted", "forced"}

\* Types, and how the variables of one directory or process hang together.
TypeOK ==
    /\ bufferDir \in BOOLEAN
    /\ dirs \in SUBSET Scanners /\ (dirs # {} => bufferDir)
    /\ file \in [Pairs -> Rows] /\ \A p \in Pairs : file[p] # "none" => p[2] \in dirs
    /\ bufferScans \in Nat
    /\ bufferErrors \in SUBSET Pairs
    /\ spec \in {"none", "bare", "full", "torn"}
    /\ table \in [Pairs -> Rows]
    /\ outScans \in Nat
    /\ outComplete \in BOOLEAN
    /\ outErrors \in SUBSET Pairs
    /\ at \in Phases
    /\ todo \in SUBSET Pairs
    /\ current \in {NoPair} \cup (Pairs \X Rows) /\ (current # NoPair <=> at \in Recording)
    /\ memScans \in Nat
    /\ next \in 1 .. NumScanners + 1
    /\ verdict \in Verdicts
    /\ sessions \in Nat
    /\ done \in SUBSET Pairs
    /\ forced \in BOOLEAN

Init ==
    /\ bufferDir = FALSE /\ dirs = {} /\ file = [p \in Pairs |-> "none"]
    /\ bufferScans = 0 /\ bufferErrors = {}
    /\ spec = "none"
    /\ table = [p \in Pairs |-> "none"]
    /\ outScans = 0 /\ outComplete = FALSE /\ outErrors = {}
    /\ at = "off" /\ todo = {} /\ current = NoPair /\ memScans = 0
    /\ next = 1 /\ verdict = "interrupted"
    /\ sessions = 0 /\ done = {} /\ forced = FALSE

\* FileRecorder.status: the buffer directory, while it exists, means incomplete.
Complete == ~bufferDir /\ outComplete

\* is_recorded: the file exists and no row of it has an error; a faulty
\* variant that is content with the file.
FileExists(p) == file[p] # "none"
IsRecorded(p) == file[p] = "ok"

-----------------------------------------------------------------------------
(* A session starts *)

\* Faulty variant: the errors of earlier sessions are kept.
KeepBufferErrors == bufferErrors' = bufferErrors

\* RecorderBuffer.__init__ truncates the errors file ...
TruncateErrors == bufferErrors' = {}

\* ... after it has made the directory and read, or created, the summary.
OpenBuffer ==
    /\ bufferDir' = TRUE
    /\ memScans' = bufferScans
    /\ TruncateErrors
    /\ UNCHANGED <<dirs, file, bufferScans>>

StartSession ==
    /\ at = "off"
    /\ sessions < MaxSessions
    /\ sessions' = sessions + 1
    /\ UNCHANGED <<table, outScans, outComplete, outErrors, current, next, verdict, done, forced>>

\* scan: init() makes the scan directory and writes the spec, without a
\* snapshot of the transcripts as yet, and the buffer.
Create ==
    /\ StartSession
    /\ spec = "none"
    /\ spec' = "bare"
    /\ at' = "open"
    /\ OpenBuffer
    /\ UNCHANGED todo

\* scan resume: refused for a complete scan and for one without a snapshot.
Resume ==
    /\ StartSession
    /\ spec = "full"
    /\ ~Complete
    /\ at' = "open"
    /\ OpenBuffer
    /\ UNCHANGED <<spec, todo>>

\* snapshot_transcripts rewrites _scan.json in place.
OpenSpec ==
    /\ at = "open"
    /\ at' = "snapshotting"
    /\ spec' = "torn"
    /\ UNCHANGED <<todo, current, memScans, next, verdict>>
    /\ UNCHANGED <<buffer, out, history>>

\* The spec is written; _parse_jobs skips what is recorded.
Snapshot ==
    /\ at = "snapshotting"
    /\ spec' = "full"
    /\ at' = "scanning"
    /\ todo' = {p \in Pairs : ~IsRecorded(p)}
    /\ UNCHANGED <<current, memScans, next, verdict>>
    /\ UNCHANGED <<buffer, out, history>>

-----------------------------------------------------------------------------
(* record(): a transcript has been scanned by a scanner *)

\* No results, no records: record() returns at once.
RecordNothing(p) ==
    /\ at = "scanning"
    /\ p \in todo \cap Vacuous
    /\ todo' = todo \ {p}
    /\ UNCHANGED <<spec, at, current, memScans, next, verdict>>
    /\ UNCHANGED <<buffer, out, history>>

\* The pair's file is written aside and moved into its place.  Any pair may
\* come with an error: its transcript could not be parsed, its scanner raised.
ReplaceFile(p, row) ==
    /\ at = "scanning"
    /\ p \in todo
    /\ row \in (IF p \in Vacuous THEN {"error"} ELSE {"ok", "error"})
    /\ todo' = todo \ {p}
    /\ dirs' = dirs \cup {p[2]}
    /\ file' = [file EXCEPT ![p] = row]
    /\ at' = "replaced"
    /\ current' = <<p, row>>
    /\ done' = IF row = "ok" THEN done \cup {p} ELSE done
    /\ UNCHANGED <<bufferDir, bufferScans, bufferErrors, spec, memScans, next, verdict, sessions, forced>>
    /\ UNCHANGED out

\* The summary is updated and its file rewritten.
CountScan ==
    /\ at = "replaced"
    /\ memScans' = memScans + 1
    /\ bufferScans' = memScans + 1
    /\ at' = "counted"
    /\ UNCHANGED <<bufferDir, dirs, file, bufferErrors, spec, todo, current, next, verdict>>
    /\ UNCHANGED <<out, history>>

\* Faulty variant: the record is not closed.
KeepRecord == current' = current
EndRecord == current' = NoPair

\* An error is appended to the errors file; record() returns.
AppendError ==
    /\ at = "counted"
    /\ bufferErrors' = IF current[2] = "error" THEN bufferErrors \cup {current[1]} ELSE bufferErrors
    /\ at' = "scanning"
    /\ EndRecord
    /\ UNCHANGED <<bufferDir, dirs, file, bufferScans, spec, todo, memScans, next, verdict>>
    /\ UNCHANGED <<out, history>>

-----------------------------------------------------------------------------
(* The session ends: sync *)

\* The complete argument of sync.
Completes == verdict \in {"complete", "forced"}

\* Faulty variant: the first scanner is passed over.
BeginSyncLate(why) ==
    /\ at' = "syncing"
    /\ next' = 2
    /\ verdict' = why
    /\ EndRecord

BeginSync(why) ==
    /\ at' = "syncing"
    /\ next' = 1
    /\ verdict' = why
    /\ EndRecord

\* The strategy has returned; the final metrics are written to the summary.
RecordMetrics ==
    /\ at = "scanning"
    /\ todo = {}
    /\ bufferScans' = memScans
    /\ at' = "metrics"
    /\ UNCHANGED <<bufferDir, dirs, file, bufferErrors, spec, todo, current, memScans, next, verdict>>
    /\ UNCHANGED <<out, history>>

\* Faulty variant: a scan that returned is complete.
AlwaysComplete == TRUE

\* complete=len(errors) == 0
NoErrors == bufferErrors = {}

SyncResults ==
    /\ at = "metrics"
    /\ BeginSync(IF NoErrors THEN "complete" ELSE "errors")
    /\ UNCHANGED <<spec, todo, memScans>>
    /\ UNCHANGED <<buffer, out, history>>

\* An exception, or a cancellation, before the results are synced ends in
\* handle_scan_interrupted: from the strategy, from a write of record(), or
\* from a write of sync itself.
Interrupted ==
    /\ at \in {"open", "scanning", "metrics", "syncing", "writing", "status"} \cup Recording
    /\ at \in {"syncing", "writing", "status"} => verdict \in {"complete", "errors"}
    /\ BeginSync("interrupted")
    /\ UNCHANGED <<spec, todo, memScans>>
    /\ UNCHANGED <<buffer, out, history>>

\* scan complete: refused for a complete scan, otherwise sync(complete=True).
ForceComplete ==
    /\ at = "off"
    /\ sessions < MaxSessions
    /\ spec \in {"bare", "full"}
    /\ ~Complete
    /\ BeginSync("forced")
    /\ sessions' = sessions + 1
    /\ forced' = TRUE
    /\ UNCHANGED <<spec, todo, memScans, done>>
    /\ UNCHANGED <<buffer, out>>

RowsOf(s, rows) == [p \in Pairs |-> IF p[2] = s THEN rows[p] ELSE table[p]]

\* The table of the next scanner is opened for writing ...
OpenTable ==
    /\ at = "syncing"
    /\ next \in dirs
    /\ table' = RowsOf(next, [p \in Pairs |-> "none"])
    /\ at' = "writing"
    /\ UNCHANGED <<spec, outScans, outComplete, outErrors, todo, current, memScans, next, verdict>>
    /\ UNCHANGED <<buffer, history>>

\* ... and filled with the rows of the scanner's files.
WriteTable ==
    /\ at = "writing"
    /\ table' = RowsOf(next, file)
    /\ at' = "syncing"
    /\ next' = next + 1
    /\ UNCHANGED <<spec, outScans, outComplete, outErrors, todo, current, memScans, verdict>>
    /\ UNCHANGED <<buffer, history>>

\* A scanner without a directory in the buffer is passed over.
SkipTable ==
    /\ at = "syncing"
    /\ next \in Scanners \ dirs
    /\ next' = next + 1
    /\ UNCHANGED <<spec, at, todo, current, memScans, verdict>>
    /\ UNCHANGED <<buffer, out, history>>

\* _sync_status_files, first half: the buffer's summary, or a fresh one,
\* with the complete flag.
WriteSummary ==
    /\ at = "syncing"
    /\ next = NumScanners + 1
    /\ outScans' = bufferScans
    /\ outComplete' = Completes
    /\ at' = "status"
    /\ UNCHANGED <<spec, table, outErrors, todo, current, memScans, next, verdict>>
    /\ UNCHANGED <<buffer, history>>

\* Faulty variant: the buffer goes whatever the verdict.
CleansUpAlways == TRUE
CleansUp == Completes

\* Second half: the errors.  Then the buffer goes, if the scan is complete.
WriteErrors ==
    /\ at = "status"
    /\ outErrors' = bufferErrors
    /\ at' = IF CleansUp /\ bufferDir THEN "cleaning" ELSE "synced"
    /\ UNCHANGED <<spec, table, outScans, outComplete, todo, current, memScans, next, verdict>>
    /\ UNCHANGED <<buffer, history>>

\* rmtree removes one entry after the other, in the order of the directory.
RemoveFile(p) ==
    /\ at = "cleaning"
    /\ file[p] # "none"
    /\ file' = [file EXCEPT ![p] = "none"]
    /\ UNCHANGED <<bufferDir, dirs, bufferScans, bufferErrors, spec, at, todo, current, memScans, next, verdict>>
    /\ UNCHANGED <<out, history>>

RemoveScannerDir(s) ==
    /\ at = "cleaning"
    /\ s \in dirs
    /\ \A p \in Pairs : p[2] = s => file[p] = "none"
    /\ dirs' = dirs \ {s}
    /\ UNCHANGED <<bufferDir, file, bufferScans, bufferErrors, spec, at, todo, current, memScans, next, verdict>>
    /\ UNCHANGED <<out, history>>

RemoveSummary ==
    /\ at = "cleaning"
    /\ bufferScans > 0
    /\ bufferScans' = 0
    /\ UNCHANGED <<bufferDir, dirs, file, bufferErrors, spec, at, todo, current, memScans, next, verdict>>
    /\ UNCHANGED <<out, history>>

\* The errors file and the directory itself.
RemoveBuffer ==
    /\ at = "cleaning"
    /\ dirs = {} /\ bufferScans = 0
    /\ bufferDir' = FALSE
    /\ bufferErrors' = {}
    /\ at' = "synced"
    /\ UNCHANGED <<dirs, file, bufferScans, spec, todo, current, memScans, next, verdict>>
    /\ UNCHANGED <<out, history>>

\* The session's process ends: its reader is closed, the user is told.
Leave ==
    /\ at = "synced"
    /\ at' = "off"
    /\ todo' = {}
    /\ memScans' = 0
    /\ UNCHANGED <<spec, current, next, verdict>>
    /\ UNCHANGED <<buffer, out, history>>

\* Between sync and the end of the session _scan_async_inner still removes
\* the scan from the active scans, closes the reader, reports and notifies:
\* an exception or a cancellation there ends in handle_scan_interrupted too.
FailLate ==
    /\ at = "synced"
    /\ "synced" \in Exposed
    /\ verdict \in {"complete", "errors"}
    /\ BeginSync("interrupted")
    /\ UNCHANGED <<spec, todo, memScans>>
    /\ UNCHANGED <<buffer, out, history>>

\* The process dies, or gives up rmtree at a file it cannot remove.  A death
\* inside the write of the summary leaves an empty file, read as a fresh one.
Crash ==
    /\ at # "off"
    /\ at \in {"snapshotting", "cleaning"} => at \in Exposed
    /\ bufferScans' \in (IF at \in {"replaced", "scanning"} THEN {bufferScans, 0} ELSE {bufferScans})
    /\ at' = "off"
    /\ todo' = {}
    /\ memScans' = 0
    /\ EndRecord
    /\ UNCHANGED <<bufferDir, dirs, file, bufferErrors, spec, next, verdict>>
    /\ UNCHANGED <<out, history>>

\* The scan is complete, or nobody works on it any more.
Rest ==
    /\ at = "off"
    /\ Complete \/ spec = "torn" \/ sessions = MaxSessions
    /\ UNCHANGED vars

Next ==
    \/ Create \/ Resume \/ OpenSpec \/ Snapshot
    \/ \E p \in Pairs : RecordNothing(p) \/ \E row \in Rows : ReplaceFile(p, row)
    \/ CountScan \/ AppendError
    \/ RecordMetrics \/ SyncResults \/ Interrupted \/ ForceComplete
    \/ OpenTable \/ WriteTable \/ SkipTable \/ WriteSummary \/ WriteErrors
    \/ \E p \in Pairs : RemoveFile(p)
    \/ \E s \in Scanners : RemoveScannerDir(s)
    \/ RemoveSummary \/ RemoveBuffer
    \/ Leave \/ FailLate \/ Crash \/ Rest

Spec == Init /\ [][Next]_vars

-----------------------------------------------------------------------------
(* Properties *)

\* "It is possible to resume without losing any of the existing work": no
\* session scans a pair again that an earlier one recorded without an error.
WorkKept == todo \cap done = {}

\* What has been recorded is on disk, in the buffer or in the scanner's
\* table, through every interruption, overwritten table and removal.
NeverLost == \A p \in done : file[p] = "ok" \/ table[p] = "ok"

\* A scan that shows as complete, at any moment, has in its tables all that
\* was ever recorded without an error.
CompleteKeepsAll == Complete => \A p \in done : table[p] = "ok"

\* A scan that completed of its own has a result for every pair, whatever
\* struck its sessions; no pair was skipped, and none overwritten.
CompleteIsWhole == Complete /\ ~forced => \A p \in Pairs \ Vacuous : table[p] = "ok"

\* Whenever record() has returned, the errors file, which decides between
\* complete and not, lists the pairs with an error on file but those still
\* to be retried.
ErrorListExact ==
    at \in {"scanning", "metrics"} =>
        bufferErrors = {p \in Pairs \ todo : file[p] = "error"}

\* Recording and completing, seen from outside: see ScanLedger.
Ledger == INSTANCE ScanLedger WITH
    Pairs <- Pairs, Excused <- Vacuous,
    ledger <- done, accepted <- forced, closed <- Complete

ImplementsLedger == Ledger!LedgerSpec
=============================================================================
