--------------------------- MODULE TranscriptIndex ---------------------------
(***************************************************************************)
(* The transcript database on disk and its index                           *)
(* (_transcript/database/parquet/transcripts.py and index.py).             *)
(*                                                                         *)
(* An insert writes a parquet file, then an index file whose name carries  *)
(* the time of the parquet file, and the session it was written in if any. *)
(* A commit first compacts the session's parquet files into one, then      *)
(* merges the index files into a manifest and deletes all others.  The     *)
(* index is what queries see: the newest manifest and the index files that *)
(* are as new.  A process may die between any two writes.                  *)
(*                                                                         *)
(* Names of files carry whole seconds and a random part.  The model gives  *)
(* every file a number, and lets no two manifests fall in one second.      *)
(***************************************************************************)
EXTENDS Integers, FiniteSets

CONSTANTS
    Transcripts,     \* the transcripts to insert
    Writers,         \* processes that insert, commit and rebuild
    Sessions,        \* session ids that may be used (by observe)
    MaxTime,         \* bound: seconds
    MaxFiles         \* bound: files written

ASSUME MaxTimeAssumption == MaxTime \in Nat
ASSUME MaxFilesAssumption == MaxFiles \in Nat

NoSession == "none"
ASSUME SessionsAssumption == NoSession \notin Sessions

VARIABLES
    clock,           \* the time, in seconds
    count,           \* files named so far
    data,            \* the parquet files
    index,           \* the index files
    pc,              \* what a writer is doing
    known,           \* _transcript_ids of a writer's connection
    session,         \* the session of a writer
    file,            \* the parquet file a writer is about to index
    chosen,          \* the index files a writer has discovered
    doomed,          \* the files a writer has listed for deletion
    saved,           \* history: transcripts inserted without a session
    traced,          \* history: transcripts inserted in a session
    reader,          \* what the reader is doing
    listed,          \* the index files the reader has discovered
    expected         \* what was saved when the reader began

writerVars == <<pc, known, session, file, chosen, doomed>>
readerVars == <<reader, listed, expected>>
vars == <<clock, count, data, index, pc, known, session, file, chosen, doomed,
          saved, traced, reader, listed, expected>>

DataFiles == [number : 1 .. MaxFiles, session : Sessions \cup {NoSession},
              time : 0 .. MaxTime, ids : SUBSET Transcripts]
Rows == [id : Transcripts, number : 1 .. MaxFiles]
IndexFiles == [kind : {"incremental", "manifest"}, session : Sessions \cup {NoSession},
               number : 1 .. MaxFiles, time : 0 .. MaxTime, rows : SUBSET Rows]
NoFile == [number |-> 0, session |-> NoSession, time |-> 0, ids |-> {}]

Phases == {"off", "open", "inserting", "written", "compacting", "compacted", "tidying",
           "discovering", "listing", "merging", "deleting", "rebuilding"}

\* A row that names the same transcript twice in one file would show it twice.
OneRowEach(rows) == \A r, q \in rows : r.id = q.id => r = q

TypeOK ==
    /\ clock \in 0 .. MaxTime
    /\ count \in 0 .. MaxFiles
    /\ \A d \in data : d \in DataFiles
    /\ \A f \in index : /\ f.kind \in {"incremental", "manifest"}
                        /\ f.number \in 1 .. MaxFiles /\ f.time \in 0 .. MaxTime
                        /\ f.rows \subseteq Rows /\ OneRowEach(f.rows)
    /\ pc \in [Writers -> Phases]
    /\ known \in [Writers -> SUBSET Transcripts]
    /\ session \in [Writers -> Sessions \cup {NoSession}]
    /\ file \in [Writers -> DataFiles \cup {NoFile}]
    /\ saved \subseteq Transcripts /\ traced \subseteq Transcripts
    /\ reader \in {"idle", "listed"}
    /\ expected \subseteq Transcripts

Init ==
    /\ clock = 0 /\ count = 0 /\ data = {} /\ index = {}
    /\ pc = [w \in Writers |-> "off"]
    /\ known = [w \in Writers |-> {}]
    /\ session = [w \in Writers |-> NoSession]
    /\ file = [w \in Writers |-> NoFile]
    /\ chosen = [w \in Writers |-> {}] /\ doomed = [w \in Writers |-> {}]
    /\ saved = {} /\ traced = {}
    /\ reader = "idle" /\ listed = {} /\ expected = {}

-----------------------------------------------------------------------------
(* Discovery *)

Manifests(files) == {f \in files : f.kind = "manifest"}
Incrementals(files) == files \ Manifests(files)

Newest(files) == CHOOSE m \in Manifests(files) : \A n \in Manifests(files) : n.time <= m.time

\* Faulty variant: an index file of the manifest's own second is left out.
OlderThan(f, manifest) == f.time <= manifest.time

\* _extract_timestamp knows no name with a session id in it, and a name
\* without a time does not count as new.
Outdated(f, manifest) == f.session # NoSession \/ f.time < manifest.time

\* _discover_index_files
Discover(files) ==
    IF Manifests(files) = {} THEN files
    ELSE {Newest(files)} \cup
         {f \in Incrementals(files) : ~Outdated(f, Newest(files))}

AllRows(files) == UNION {f.rows : f \in files}
IdsOf(rows) == {r.id : r \in rows}

\* Without an index the parquet files are read themselves.
DataRows == UNION {{[id |-> t, number |-> d.number] : t \in d.ids} : d \in data}
Visible == IF index = {} THEN DataRows ELSE AllRows(Discover(index))

\* Sorted by name, manifests come first, then the index files by time; those
\* with a session id come last, as such an id hardly ever begins with a year.
Rank(f) == IF f.kind = "manifest" THEN 0
           ELSE IF f.session = NoSession THEN 1 + f.time ELSE 2 + MaxTime

\* One row per transcript, picked out of the rows of a set of files.
OnePerId(rows) == {CHOOSE r \in rows : r.id = t : t \in IdsOf(rows)}

\* _read_and_deduplicate_index_files: the row of the last file wins.
MergedRows(files) ==
    OnePerId({r \in AllRows(files) :
                \E f \in files : /\ r \in f.rows
                                 /\ \A g \in files : r.id \in IdsOf(g.rows) => Rank(g) <= Rank(f)})

-----------------------------------------------------------------------------
(* Connections, and inserts *)

Go(w, phase) == pc' = [pc EXCEPT ![w] = phase]

\* A new file gets the next number and the time of its name.
NewNumber == count < MaxFiles /\ count' = count + 1

\* A session id is random: no file of another run carries it, and no process.
FreshSessions == Sessions \ ({d.session : d \in data} \cup {f.session : f \in index}
                               \cup {session[w] : w \in Writers})

Connect(w) ==
    /\ pc[w] = "off"
    /\ Go(w, "open")
    /\ known' = [known EXCEPT ![w] = IdsOf(Visible)]
    /\ \E s \in {NoSession} \cup FreshSessions : session' = [session EXCEPT ![w] = s]
    /\ UNCHANGED <<clock, count, data, index, file, chosen, doomed, saved, traced, readerVars>>

\* The connection and its memory are gone.
Forget(w) ==
    /\ Go(w, "off")
    /\ known' = [known EXCEPT ![w] = {}]
    /\ session' = [session EXCEPT ![w] = NoSession]
    /\ file' = [file EXCEPT ![w] = NoFile]
    /\ chosen' = [chosen EXCEPT ![w] = {}]
    /\ doomed' = [doomed EXCEPT ![w] = {}]

Disconnect(w) ==
    /\ pc[w] = "open"
    /\ Forget(w)
    /\ UNCHANGED <<clock, count, data, index, saved, traced, readerVars>>

\* Only the manifest's name is of the present second.
WriteManifest(rows) ==
    /\ NewNumber
    /\ \A m \in Manifests(index) : m.time < clock
    /\ index' = index \cup {[kind |-> "manifest", session |-> NoSession, number |-> count + 1,
                             time |-> clock, rows |-> rows]}

\* There are transcripts but no index: insert builds one first.
NeedsIndex(w) == index = {} /\ known[w] # {}

BeginInsert(w) ==
    /\ pc[w] = "open"
    /\ Go(w, "inserting")
    /\ IF NeedsIndex(w) /\ data # {}
       THEN WriteManifest(OnePerId(DataRows))
       ELSE UNCHANGED <<count, index>>
    /\ UNCHANGED <<clock, data, known, session, file, chosen, doomed, saved, traced, readerVars>>

\* The parquet file of a batch is named and written.  The transcript counts
\* as known from now on, whatever becomes of the insert.
WriteData(w) ==
    /\ pc[w] = "inserting"
    /\ NewNumber
    /\ \E t \in Transcripts \ known[w] :
          LET d == [number |-> count + 1, session |-> session[w], time |-> clock, ids |-> {t}] IN
          /\ data' = data \cup {d}
          /\ file' = [file EXCEPT ![w] = d]
          /\ known' = [known EXCEPT ![w] = @ \cup {t}]
    /\ Go(w, "written")
    /\ UNCHANGED <<clock, index, session, chosen, doomed, saved, traced, readerVars>>

\* append_index for the file: the name repeats the time of the file's name.
WriteIndex(w) ==
    /\ NewNumber
    /\ index' = index \cup {[kind |-> "incremental", session |-> file[w].session,
                             number |-> count + 1, time |-> file[w].time,
                             rows |-> {[id |-> t, number |-> file[w].number] : t \in file[w].ids}]}

AppendIndex(w) ==
    /\ pc[w] = "written"
    /\ WriteIndex(w)
    /\ IF file[w].session = NoSession
       THEN saved' = saved \cup file[w].ids /\ UNCHANGED traced
       ELSE traced' = traced \cup file[w].ids /\ UNCHANGED saved
    /\ file' = [file EXCEPT ![w] = NoFile]
    /\ Go(w, "open")
    /\ UNCHANGED <<clock, data, known, session, chosen, doomed, readerVars>>

\* The index file cannot be written: the parquet file goes, insert raises.
FailIndex(w) ==
    /\ pc[w] = "written"
    /\ data' = data \ {file[w]}
    /\ file' = [file EXCEPT ![w] = NoFile]
    /\ Go(w, "open")
    /\ UNCHANGED <<clock, count, index, known, session, chosen, doomed, saved, traced, readerVars>>

-----------------------------------------------------------------------------
(* Commit *)

\* Faulty variant: the new file is taken for one of them.
SessionAndNewFiles(w) == {d \in data : d.session = session[w] \/ d = file[w]}
\* The files whose names begin with the session.
SessionFiles(w) == {d \in data : d.session = session[w]}

\* _compact_session comes first; there is nothing to compact without a
\* session, or with a single file.
Commit(w) ==
    /\ pc[w] = "open"
    /\ Go(w, IF session[w] # NoSession /\ Cardinality(SessionFiles(w)) > 1
             THEN "compacting" ELSE "discovering")
    /\ UNCHANGED <<clock, count, data, index, known, session, file, chosen, doomed, saved, traced, readerVars>>

\* The session's transcripts are written into one file, without a session ...
WriteCompacted(w) ==
    /\ pc[w] = "compacting"
    /\ NewNumber
    /\ LET d == [number |-> count + 1, session |-> NoSession, time |-> clock,
                 ids |-> UNION {e.ids : e \in SessionFiles(w)}] IN
          /\ data' = data \cup {d}
          /\ file' = [file EXCEPT ![w] = d]
    /\ Go(w, "compacted")
    /\ UNCHANGED <<clock, index, known, session, chosen, doomed, saved, traced, readerVars>>

\* ... that is indexed ...
IndexCompacted(w) ==
    /\ pc[w] = "compacted"
    /\ WriteIndex(w)
    /\ Go(w, "tidying")
    /\ UNCHANGED <<clock, data, known, session, file, chosen, doomed, saved, traced, readerVars>>

\* ... and the session's files are deleted.
DeleteSessionFile(w) ==
    /\ pc[w] = "tidying"
    /\ \E d \in SessionFiles(w) :
          /\ data' = data \ {d}
          /\ IF SessionFiles(w) = {d}
             THEN Go(w, "discovering") /\ file' = [file EXCEPT ![w] = NoFile]
             ELSE UNCHANGED <<pc, file>>
    /\ UNCHANGED <<clock, count, index, known, session, chosen, doomed, saved, traced, readerVars>>

\* compact_index: the files to merge ...
DiscoverIndex(w) ==
    /\ pc[w] = "discovering"
    /\ chosen' = [chosen EXCEPT ![w] = Discover(index)]
    /\ Go(w, "listing")
    /\ UNCHANGED <<clock, count, data, index, known, session, file, doomed, saved, traced, readerVars>>

\* ... and, listed once more, those to delete.
ListIndex(w) ==
    /\ pc[w] = "listing"
    /\ IF chosen[w] = {}
       THEN Go(w, "open") /\ UNCHANGED doomed
       ELSE Go(w, "merging") /\ doomed' = [doomed EXCEPT ![w] = index]
    /\ UNCHANGED <<clock, count, data, index, known, session, file, chosen, saved, traced, readerVars>>

\* The manifest is written; or, if a file has disappeared, compact_index
\* starts again (three times at most; the commit then goes on without it).
MergeIndex(w) ==
    /\ pc[w] = "merging"
    /\ IF chosen[w] \subseteq index
       THEN WriteManifest(MergedRows(chosen[w])) /\ Go(w, "deleting") /\ UNCHANGED doomed
       ELSE Go(w, "discovering") /\ doomed' = [doomed EXCEPT ![w] = {}] /\ UNCHANGED <<count, index>>
    /\ chosen' = [chosen EXCEPT ![w] = {}]
    /\ UNCHANGED <<clock, data, known, session, file, saved, traced, readerVars>>

\* A file that cannot be deleted stays.
DeleteIndexFile(w) ==
    /\ pc[w] = "deleting"
    /\ \/ \E f \in doomed[w] :
             /\ index' \in {index, index \ {f}}
             /\ doomed' = [doomed EXCEPT ![w] = @ \ {f}]
             /\ UNCHANGED pc
       \/ doomed[w] = {} /\ Go(w, "open") /\ UNCHANGED <<index, doomed>>
    /\ UNCHANGED <<clock, count, data, known, session, file, chosen, saved, traced, readerVars>>

\* An exception is logged only: the commit goes on without its compaction.  A
\* compacted file that could not be indexed goes again.
SkipCompaction(w) ==
    /\ pc[w] \in {"compacting", "compacted", "tidying", "merging"}
    /\ data' = IF pc[w] = "compacted" THEN data \ {file[w]} ELSE data
    /\ chosen' = [chosen EXCEPT ![w] = {}]
    /\ doomed' = [doomed EXCEPT ![w] = {}]
    /\ file' = [file EXCEPT ![w] = NoFile]
    /\ Go(w, IF pc[w] = "merging" THEN "open" ELSE "discovering")
    /\ UNCHANGED <<clock, count, index, known, session, saved, traced, readerVars>>

-----------------------------------------------------------------------------
(* Rebuilding the index: scout db index *)

BeginRebuild(w) ==
    /\ pc[w] = "open"
    /\ doomed' = [doomed EXCEPT ![w] = index]
    /\ Go(w, "rebuilding")
    /\ UNCHANGED <<clock, count, data, index, known, session, file, chosen, saved, traced, readerVars>>

\* Faulty variant: a row for each file a transcript is in.
EveryRow(rows) == rows
\* create_index: of the files a transcript is in, one is taken.
RebuiltRows(rows) == OnePerId(rows)

Rebuild(w) ==
    /\ pc[w] = "rebuilding"
    /\ IF data # {}
       THEN WriteManifest(RebuiltRows(DataRows)) /\ Go(w, "deleting")
       ELSE Go(w, "open") /\ UNCHANGED <<count, index>>
    /\ UNCHANGED <<clock, data, known, session, file, chosen, doomed, saved, traced, readerVars>>

-----------------------------------------------------------------------------
(* A reader connects: init_index_table *)

ReadDirectory ==
    /\ reader = "idle"
    /\ reader' = "listed"
    /\ listed' = Discover(index)
    /\ expected' = saved
    /\ UNCHANGED <<clock, count, data, index, writerVars, saved, traced>>

\* Faulty variant: whatever is left of the files is read.
AnyFile(files) == TRUE
\* Every file is still there.
Readable(files) == files \subseteq index

\* The transcripts it gets: those of the data if there was no index file.
Reads(files) == IF files = {} THEN IdsOf(DataRows) ELSE IdsOf(AllRows(files \cap index))

ReadIndex ==
    /\ reader = "listed"
    /\ Readable(listed)
    /\ reader' = "idle"
    /\ listed' = {} /\ expected' = {}
    /\ UNCHANGED <<clock, count, data, index, writerVars, saved, traced>>

\* A file has disappeared: start again.
RetryRead ==
    /\ reader = "listed"
    /\ ~Readable(listed)
    /\ listed' = Discover(index)
    /\ UNCHANGED <<clock, count, data, index, writerVars, saved, traced, reader, expected>>

-----------------------------------------------------------------------------
Tick ==
    /\ clock < MaxTime
    /\ clock' = clock + 1
    /\ UNCHANGED <<count, data, index, writerVars, saved, traced, readerVars>>

\* The process dies, or an exception ends its work.
Crash(w) ==
    /\ pc[w] # "off"
    /\ Forget(w)
    /\ UNCHANGED <<clock, count, data, index, saved, traced, readerVars>>

Next ==
    \/ \E w \in Writers :
          \/ Connect(w) \/ Disconnect(w)
          \/ BeginInsert(w) \/ WriteData(w) \/ AppendIndex(w) \/ FailIndex(w)
          \/ Commit(w) \/ WriteCompacted(w) \/ IndexCompacted(w) \/ DeleteSessionFile(w)
          \/ DiscoverIndex(w) \/ ListIndex(w) \/ MergeIndex(w) \/ DeleteIndexFile(w)
          \/ SkipCompaction(w)
          \/ BeginRebuild(w) \/ Rebuild(w)
          \/ Crash(w)
    \/ ReadDirectory \/ ReadIndex \/ RetryRead
    \/ Tick

Spec == Init /\ [][Next]_vars

-----------------------------------------------------------------------------
(* Properties *)

\* A row whose parquet file exists and holds the transcript.
Live(r) == \E d \in data : d.number = r.number /\ r.id \in d.ids

\* Transcript t is in the index, at a file that exists and holds it.
Found(t) == \E r \in Visible : r.id = t /\ Live(r)

\* A transcript whose insert has returned can be found at every moment,
\* through compactions, rebuilds, and crashes of either.
Findable == \A t \in saved : Found(t)

\* compact_index: "Read all index files into merged manifest", and only then
\* delete them.  So a transcript inserted in a session is named by some index
\* file, from its insert on.
SessionIndexed == \A t \in traced : \E f \in index : t \in IdsOf(f.rows)

\* The parquet file of a transcript is not deleted before another holds it:
\* whatever becomes of the index, it can be rebuilt.
DataKept == \A t \in saved \cup traced : \E d \in data : t \in d.ids

\* A reader that runs against a commit gets everything that was saved when
\* it began, though the files it has listed may be deleted under it.
ReaderComplete == reader = "listed" /\ Readable(listed) => expected \subseteq Reads(listed)
=============================================================================
