------------------------ MODULE TranscriptIndexProofs ------------------------
(***************************************************************************)
(* Theorems of TranscriptIndex, for any transcripts, any number of writers *)
(* at work on one database at the same time, and any bounds.  SavedAreFound *)
(* and ReadersMissNothing suppose that there is one writer: with two, an   *)
(* insert that fails may delete a file another has indexed.                *)
(***************************************************************************)
EXTENDS TranscriptIndex, TLAPS, WellFoundedInduction

-----------------------------------------------------------------------------
(* Rows *)

RowSets == {rows \in SUBSET Rows : OneRowEach(rows)}

\* Picking one row per transcript picks from the rows, each id once.
LEMMA OnePerIdPicks ==
    ASSUME NEW rows \in SUBSET Rows
    PROVE  OnePerId(rows) \in RowSets
<1> DEFINE Row(t) == CHOOSE r \in rows : r.id = t
<1>1. ASSUME NEW t \in IdsOf(rows) PROVE Row(t) \in rows /\ Row(t).id = t
  <2>1. \E r \in rows : r.id = t
    BY DEF IdsOf
  <2>2. QED
    BY <2>1
<1>2. OnePerId(rows) \subseteq rows
  BY <1>1 DEF OnePerId
<1>3. ASSUME NEW r \in OnePerId(rows), NEW q \in OnePerId(rows), r.id = q.id
      PROVE  r = q
  <2>1. PICK t \in IdsOf(rows) : r = Row(t)
    BY DEF OnePerId
  <2>2. PICK u \in IdsOf(rows) : q = Row(u)
    BY DEF OnePerId
  <2>3. t = u
    BY <1>1, <1>3, <2>1, <2>2
  <2>4. QED
    BY <2>1, <2>2, <2>3
<1>4. QED
  BY <1>2, <1>3 DEF RowSets, OneRowEach

LEMMA MergedRowsPick ==
    ASSUME NEW files, \A f \in files : f.rows \subseteq Rows
    PROVE  MergedRows(files) \in RowSets
<1>1. AllRows(files) \subseteq Rows
  BY DEF AllRows
<1>2. \A R : R \subseteq AllRows(files) => OnePerId(R) \in RowSets
  BY <1>1, OnePerIdPicks
<1>3. QED
  BY <1>2 DEF MergedRows

LEMMA DataRowsTyped ==
    ASSUME \A d \in data : d \in DataFiles
    PROVE  DataRows \in SUBSET Rows
BY DEF DataRows, DataFiles, Rows

-----------------------------------------------------------------------------
(* What a writer's state says of the files *)

\* The file a writer has named and not yet indexed is its own, of its session
\* or, compacted, of none; and a compacted file holds what the session's do.
FilesFit(w) ==
    /\ pc[w] \in {"written", "compacted", "tidying"} => file[w] \in data
    /\ pc[w] \notin {"written", "compacted", "tidying"} => file[w] = NoFile
    /\ pc[w] = "written" => file[w].session = session[w]
    /\ pc[w] \in {"compacted", "tidying"} =>
          /\ file[w].session = NoSession
          /\ \A d \in SessionFiles(w) : d.ids \subseteq file[w].ids
    /\ pc[w] \in {"compacting", "compacted", "tidying"} => session[w] # NoSession

\* No two writers work in one session, or at one file.
Apart ==
    /\ \A v, w \in Writers : v # w /\ session[v] # NoSession => session[v] # session[w]
    /\ \A v, w \in Writers : v # w /\ file[v] # NoFile => file[v] # file[w]

Numbered == \A d \in data : d.number <= count

\* A transcript that counts as inserted is in a file that nobody is about to
\* take back.
Settled(d) ==
    d \in data /\ \A w \in Writers : pc[w] \in {"written", "compacted"} => d # file[w]
Kept == \A t \in saved \cup traced : \E d \in data : t \in d.ids /\ Settled(d)

Fitting == TypeOK /\ \A w \in Writers : FilesFit(w)
IInv == Fitting /\ Apart /\ Numbered /\ Kept

\* The shape of an index file.
GoodIndex(f) ==
    /\ f.kind \in {"incremental", "manifest"}
    /\ f.number \in 1 .. MaxFiles /\ f.time \in 0 .. MaxTime
    /\ f.rows \subseteq Rows /\ OneRowEach(f.rows)

LEMMA ManifestTyped ==
    ASSUME TypeOK, NEW rows \in RowSets, WriteManifest(rows)
    PROVE  count' \in 0 .. MaxFiles /\ \A f \in index' : GoodIndex(f)
<1>1. count \in 0 .. MaxFiles /\ count < MaxFiles /\ count' = count + 1
  BY DEF TypeOK, WriteManifest, NewNumber
<1>2. count + 1 \in 1 .. MaxFiles /\ clock \in 0 .. MaxTime
  BY <1>1, MaxFilesAssumption DEF TypeOK
<1>3. \A f \in index : GoodIndex(f)
  BY DEF TypeOK, GoodIndex
<1>4. QED
  BY <1>1, <1>2, <1>3, MaxFilesAssumption DEF WriteManifest, GoodIndex, RowSets

LEMMA IndexTyped ==
    ASSUME TypeOK, NEW w \in Writers, file[w] \in data, WriteIndex(w)
    PROVE  count' \in 0 .. MaxFiles /\ \A f \in index' : GoodIndex(f)
<1>1. count \in 0 .. MaxFiles /\ count < MaxFiles /\ count' = count + 1
  BY DEF TypeOK, WriteIndex, NewNumber
<1>2. count + 1 \in 1 .. MaxFiles /\ file[w] \in DataFiles
  BY <1>1, MaxFilesAssumption DEF TypeOK
<1>3. \A f \in index : GoodIndex(f)
  BY DEF TypeOK, GoodIndex
<1> DEFINE R == {[id |-> t, number |-> file[w].number] : t \in file[w].ids}
<1>4. R \subseteq Rows /\ OneRowEach(R)
  BY <1>2 DEF DataFiles, Rows, OneRowEach
<1>5. file[w].time \in 0 .. MaxTime
  BY <1>2 DEF DataFiles
<1> HIDE DEF R
<1>6. \A f \in index' : f \in index \/ f = [kind |-> "incremental", session |-> file[w].session,
                             number |-> count + 1, time |-> file[w].time, rows |-> R]
  BY DEF WriteIndex, R
<1>7. QED
  BY <1>1, <1>2, <1>3, <1>4, <1>5, <1>6, MaxFilesAssumption DEF GoodIndex

-----------------------------------------------------------------------------
(* Types *)

WriterTypes ==
    /\ pc \in [Writers -> Phases]
    /\ known \in [Writers -> SUBSET Transcripts]
    /\ session \in [Writers -> Sessions \cup {NoSession}]
    /\ file \in [Writers -> DataFiles \cup {NoFile}]

LEMMA TypeParts ==
    TypeOK <=> /\ WriterTypes
               /\ clock \in 0 .. MaxTime /\ count \in 0 .. MaxFiles
               /\ \A d \in data : d \in DataFiles
               /\ \A f \in index : GoodIndex(f)
               /\ saved \subseteq Transcripts /\ traced \subseteq Transcripts
               /\ reader \in {"idle", "listed"} /\ expected \subseteq Transcripts
BY DEF TypeOK, WriterTypes, GoodIndex

LEMMA Least ==
    ASSUME NEW T \in SUBSET Nat, T # {}
    PROVE  \E x \in T : \A y \in T : x <= y
<1> DEFINE L == OpToRel(<, Nat)
<1>1. IsWellFoundedOn(L, Nat)
  BY NatLessThanWellFounded, Zenon
<1>2. \A x, y \in Nat : <<y, x>> \in L <=> y < x
  BY DEF OpToRel
<1> HIDE DEF L
<1>3. PICK x \in T : \A y \in T : ~(<<y, x>> \in L)
  BY <1>1, WFMin
<1>4. \A y \in T : ~(y < x)
  BY <1>2, <1>3
<1>5. QED
  BY <1>4

\* Of the manifests there are, one is the newest: times are bounded.
LEMMA NewestIsOne ==
    ASSUME NEW files, \A f \in files : f.time \in 0 .. MaxTime, Manifests(files) # {}
    PROVE  /\ Newest(files) \in Manifests(files)
           /\ \A n \in Manifests(files) : n.time <= Newest(files).time
<1> DEFINE Ages == {MaxTime - m.time : m \in Manifests(files)}
<1>1. \A m \in Manifests(files) : m.time \in 0 .. MaxTime
  BY DEF Manifests
<1>2. Ages \in SUBSET Nat /\ Ages # {}
  BY <1>1, MaxTimeAssumption
<1>3. PICK a \in Ages : \A b \in Ages : a <= b
  <2> HIDE DEF Ages
  <2>1. QED
    BY <1>2, Least
<1>4. PICK m \in Manifests(files) : a = MaxTime - m.time
  BY <1>3
<1>5. ASSUME NEW n \in Manifests(files) PROVE n.time <= m.time
  <2>1. MaxTime - m.time <= MaxTime - n.time
    BY <1>3, <1>4
  <2>2. m.time \in Nat /\ n.time \in Nat
    BY <1>1
  <2>3. QED
    BY <2>1, <2>2, MaxTimeAssumption
<1>6. QED
  BY <1>5 DEF Newest

\* What is discovered is a part of the files.
LEMMA DiscoverPart ==
    ASSUME NEW files, \A f \in files : f.time \in 0 .. MaxTime
    PROVE  Discover(files) \subseteq files
<1>1. Manifests(files) # {} => Newest(files) \in files
  BY NewestIsOne DEF Manifests
<1>2. QED
  BY <1>1 DEF Discover, Incrementals

\* What a query sees are rows.
LEMMA VisibleTyped ==
    ASSUME \A d \in data : d \in DataFiles, \A f \in index : GoodIndex(f)
    PROVE  IdsOf(Visible) \subseteq Transcripts
<1>1. DataRows \subseteq Rows
  BY DataRowsTyped
<1>2. Discover(index) \subseteq index
  BY DiscoverPart DEF GoodIndex
<1>3. AllRows(Discover(index)) \subseteq Rows
  BY <1>2 DEF AllRows, GoodIndex
<1>4. Visible \subseteq Rows
  BY <1>1, <1>3 DEF Visible
<1>5. QED
  BY <1>4 DEF IdsOf, Rows

LEMMA TypeNext == Fitting /\ [Next]_vars => TypeOK'
<1> SUFFICES ASSUME Fitting, [Next]_vars PROVE TypeOK'
  OBVIOUS
<1> USE MaxTimeAssumption, MaxFilesAssumption
<1>1. /\ TypeOK /\ \A w \in Writers : FilesFit(w)
      /\ WriterTypes
      /\ clock \in 0 .. MaxTime /\ count \in 0 .. MaxFiles
      /\ \A d \in data : d \in DataFiles
      /\ \A f \in index : GoodIndex(f)
      /\ saved \subseteq Transcripts /\ traced \subseteq Transcripts
      /\ reader \in {"idle", "listed"} /\ expected \subseteq Transcripts
  BY TypeParts DEF Fitting
<1>2. ASSUME WriterTypes', clock' \in 0 .. MaxTime, count' \in 0 .. MaxFiles,
             \A d \in data' : d \in DataFiles,
             \A f \in index' : GoodIndex(f),
             saved' \subseteq Transcripts, traced' \subseteq Transcripts,
             reader' \in {"idle", "listed"}, expected' \subseteq Transcripts
      PROVE  TypeOK'
  BY <1>2 DEF TypeOK, WriterTypes, GoodIndex
\* Most steps move a writer and may take its file from it.
<1>3. ASSUME NEW w \in Writers, NEW c \in Phases, pc' = [pc EXCEPT ![w] = c],
             known' = known, session' = session,
             file' = file \/ file' = [file EXCEPT ![w] = NoFile]
      PROVE  WriterTypes'
  BY <1>1, <1>3 DEF WriterTypes
<1>4. ASSUME NEW w \in Writers, Connect(w) PROVE TypeOK'
  <2>1. IdsOf(Visible) \subseteq Transcripts
    BY <1>1, VisibleTyped
  <2>2. WriterTypes'
    BY <1>1, <1>4, <2>1 DEF Connect, Go, WriterTypes, Phases, FreshSessions
  <2>3. QED
    BY <1>1, <1>2, <1>4, <2>2 DEF Connect, readerVars
<1>5. ASSUME NEW w \in Writers, Disconnect(w) \/ Crash(w) PROVE TypeOK'
  <2>1. WriterTypes'
    BY <1>1, <1>5 DEF Disconnect, Crash, Forget, Go, WriterTypes, Phases
  <2>2. QED
    BY <1>1, <1>2, <1>5, <2>1 DEF Disconnect, Crash, readerVars
<1>6. ASSUME NEW w \in Writers, BeginInsert(w) PROVE TypeOK'
  <2>1. WriterTypes'
    BY <1>3, <1>6 DEF BeginInsert, Go, Phases
  <2>2. OnePerId(DataRows) \in RowSets
    BY <1>1, DataRowsTyped, OnePerIdPicks
  <2>3. count' \in 0 .. MaxFiles /\ \A f \in index' : GoodIndex(f)
    BY <1>1, <1>6, <2>2, ManifestTyped DEF BeginInsert
  <2>4. QED
    BY <1>1, <1>2, <1>6, <2>1, <2>3 DEF BeginInsert, readerVars
<1>7. ASSUME NEW w \in Writers, WriteData(w) PROVE TypeOK'
  <2>1. count < MaxFiles /\ count' = count + 1
    BY <1>7 DEF WriteData, NewNumber
  <2>2. PICK t \in Transcripts \ known[w] :
          LET d == [number |-> count + 1, session |-> session[w], time |-> clock, ids |-> {t}] IN
          /\ data' = data \cup {d} /\ file' = [file EXCEPT ![w] = d]
          /\ known' = [known EXCEPT ![w] = @ \cup {t}]
    BY <1>7 DEF WriteData
  <2> DEFINE d == [number |-> count + 1, session |-> session[w], time |-> clock, ids |-> {t}]
  <2>3. d \in DataFiles
    BY <1>1, <2>1 DEF DataFiles, WriterTypes
  <2>4. WriterTypes'
    BY <1>1, <1>7, <2>2, <2>3 DEF WriteData, Go, WriterTypes, Phases
  <2>5. \A e \in data' : e \in DataFiles
    <3>1. data' = data \cup {d}
      BY <2>2
    <3> HIDE DEF d
    <3>2. QED
      BY <1>1, <2>3, <3>1
  <2>6. UNCHANGED <<clock, index, saved, traced, reader, expected>>
    BY <1>7 DEF WriteData, readerVars
  <2>7. QED
    BY <1>1, <1>2, <2>1, <2>4, <2>5, <2>6
<1>8. ASSUME NEW w \in Writers, AppendIndex(w) PROVE TypeOK'
  <2>1. WriterTypes'
    BY <1>3, <1>8 DEF AppendIndex, Go, Phases
  <2>2. file[w] \in data
    BY <1>1, <1>8 DEF AppendIndex, FilesFit
  <2>3. count' \in 0 .. MaxFiles /\ \A f \in index' : GoodIndex(f)
    BY <1>1, <1>8, <2>2, IndexTyped DEF AppendIndex
  <2>4. saved' \subseteq Transcripts /\ traced' \subseteq Transcripts
    BY <1>1, <1>8, <2>2 DEF AppendIndex, DataFiles
  <2>5. QED
    BY <1>1, <1>2, <1>8, <2>1, <2>3, <2>4 DEF AppendIndex, readerVars
<1>9. ASSUME NEW w \in Writers, FailIndex(w) PROVE TypeOK'
  <2>1. WriterTypes'
    BY <1>3, <1>9 DEF FailIndex, Go, Phases
  <2>2. QED
    BY <1>1, <1>2, <1>9, <2>1 DEF FailIndex, readerVars
<1>10. ASSUME NEW w \in Writers, Commit(w) PROVE TypeOK'
  <2>1. WriterTypes'
    BY <1>3, <1>10 DEF Commit, Go, Phases
  <2>2. QED
    BY <1>1, <1>2, <1>10, <2>1 DEF Commit, readerVars
<1>11. ASSUME NEW w \in Writers, WriteCompacted(w) PROVE TypeOK'
  <2> DEFINE d == [number |-> count + 1, session |-> NoSession, time |-> clock,
                   ids |-> UNION {e.ids : e \in SessionFiles(w)}]
  <2>1. count < MaxFiles /\ count' = count + 1 /\ data' = data \cup {d}
        /\ file' = [file EXCEPT ![w] = d]
    BY <1>11 DEF WriteCompacted, NewNumber
  <2>2. d.ids \subseteq Transcripts
    BY <1>1 DEF SessionFiles, DataFiles
  <2>3. d \in DataFiles
    BY <1>1, <2>1, <2>2 DEF DataFiles
  <2>4. WriterTypes'
    BY <1>1, <1>11, <2>1, <2>3 DEF WriteCompacted, Go, WriterTypes, Phases
  <2>5. \A e \in data' : e \in DataFiles
    <3> HIDE DEF d
    <3>1. QED
      BY <1>1, <2>1, <2>3
  <2>6. UNCHANGED <<clock, index, saved, traced, reader, expected>>
    BY <1>11 DEF WriteCompacted, readerVars
  <2>7. QED
    BY <1>1, <1>2, <2>1, <2>4, <2>5, <2>6
<1>12. ASSUME NEW w \in Writers, IndexCompacted(w) PROVE TypeOK'
  <2>1. WriterTypes'
    BY <1>3, <1>12 DEF IndexCompacted, Go, Phases
  <2>2. file[w] \in data
    BY <1>1, <1>12 DEF IndexCompacted, FilesFit
  <2>3. count' \in 0 .. MaxFiles /\ \A f \in index' : GoodIndex(f)
    BY <1>1, <1>12, <2>2, IndexTyped DEF IndexCompacted
  <2>4. QED
    BY <1>1, <1>2, <1>12, <2>1, <2>3 DEF IndexCompacted, readerVars
<1>13. ASSUME NEW w \in Writers, DeleteSessionFile(w) PROVE TypeOK'
  <2>1. WriterTypes'
    BY <1>1, <1>13 DEF DeleteSessionFile, Go, Phases, WriterTypes
  <2>2. data' \subseteq data
    BY <1>13 DEF DeleteSessionFile
  <2>3. QED
    BY <1>1, <1>2, <1>13, <2>1, <2>2 DEF DeleteSessionFile, readerVars
<1>14. ASSUME NEW w \in Writers, DiscoverIndex(w) PROVE TypeOK'
  <2>1. WriterTypes'
    BY <1>3, <1>14 DEF DiscoverIndex, Go, Phases
  <2>2. QED
    BY <1>1, <1>2, <1>14, <2>1 DEF DiscoverIndex, readerVars
<1>15. ASSUME NEW w \in Writers, ListIndex(w) PROVE TypeOK'
  <2>1. WriterTypes'
    BY <1>3, <1>15 DEF ListIndex, Go, Phases
  <2>2. QED
    BY <1>1, <1>2, <1>15, <2>1 DEF ListIndex, readerVars
<1>16. ASSUME NEW w \in Writers, MergeIndex(w) PROVE TypeOK'
  <2>1. WriterTypes'
    BY <1>3, <1>16 DEF MergeIndex, Go, Phases
  <2>2. CASE chosen[w] \subseteq index
    <3>1. MergedRows(chosen[w]) \in RowSets
      BY <1>1, <2>2, MergedRowsPick DEF GoodIndex
    <3>2. count' \in 0 .. MaxFiles /\ \A f \in index' : GoodIndex(f)
      BY <1>1, <1>16, <2>2, <3>1, ManifestTyped DEF MergeIndex
    <3>3. QED
      BY <1>1, <1>2, <1>16, <2>1, <3>2 DEF MergeIndex, readerVars
  <2>3. CASE ~(chosen[w] \subseteq index)
    BY <1>1, <1>2, <1>16, <2>1, <2>3 DEF MergeIndex, readerVars
  <2>4. QED
    BY <2>2, <2>3
<1>17. ASSUME NEW w \in Writers, DeleteIndexFile(w) PROVE TypeOK'
  <2>1. WriterTypes'
    BY <1>1, <1>17 DEF DeleteIndexFile, Go, Phases, WriterTypes
  <2>2. index' \subseteq index
    BY <1>17 DEF DeleteIndexFile
  <2>3. QED
    BY <1>1, <1>2, <1>17, <2>1, <2>2 DEF DeleteIndexFile, readerVars
<1>18. ASSUME NEW w \in Writers, SkipCompaction(w) PROVE TypeOK'
  <2>1. WriterTypes'
    BY <1>3, <1>18 DEF SkipCompaction, Go, Phases
  <2>2. data' \subseteq data
    BY <1>18 DEF SkipCompaction
  <2>3. QED
    BY <1>1, <1>2, <1>18, <2>1, <2>2 DEF SkipCompaction, readerVars
<1>19. ASSUME NEW w \in Writers, BeginRebuild(w) PROVE TypeOK'
  <2>1. WriterTypes'
    BY <1>3, <1>19 DEF BeginRebuild, Go, Phases
  <2>2. QED
    BY <1>1, <1>2, <1>19, <2>1 DEF BeginRebuild, readerVars
<1>20. ASSUME NEW w \in Writers, Rebuild(w) PROVE TypeOK'
  <2>1. WriterTypes'
    BY <1>3, <1>20 DEF Rebuild, Go, Phases
  <2>2. RebuiltRows(DataRows) \in RowSets
    BY <1>1, DataRowsTyped, OnePerIdPicks DEF RebuiltRows
  <2>3. count' \in 0 .. MaxFiles /\ \A f \in index' : GoodIndex(f)
    BY <1>1, <1>20, <2>2, ManifestTyped DEF Rebuild
  <2>4. QED
    BY <1>1, <1>2, <1>20, <2>1, <2>3 DEF Rebuild, readerVars
<1>21. ASSUME ReadDirectory \/ ReadIndex \/ RetryRead PROVE TypeOK'
  <2>1. WriterTypes'
    BY <1>1, <1>21 DEF ReadDirectory, ReadIndex, RetryRead, WriterTypes, writerVars
  <2>2. QED
    BY <1>1, <1>2, <1>21, <2>1 DEF ReadDirectory, ReadIndex, RetryRead
<1>22. ASSUME Tick \/ UNCHANGED vars PROVE TypeOK'
  <2>1. WriterTypes'
    BY <1>1, <1>22 DEF Tick, vars, WriterTypes, writerVars
  <2>2. clock' \in 0 .. MaxTime
    BY <1>1, <1>22 DEF Tick, vars
  <2>3. QED
    BY <1>1, <1>2, <1>22, <2>1, <2>2 DEF Tick, vars, readerVars
<1>23. QED
  BY <1>4, <1>5, <1>6, <1>7, <1>8, <1>9, <1>10, <1>11, <1>12, <1>13, <1>14, <1>15,
     <1>16, <1>17, <1>18, <1>19, <1>20, <1>21, <1>22 DEF Next

-----------------------------------------------------------------------------
(* The files of the writers *)

\* Init is in the invariant: there are no files, and nothing is inserted.
LEMMA IInvInit == Init => IInv
<1> SUFFICES ASSUME Init PROVE IInv
  OBVIOUS
<1>1. TypeOK
  BY MaxTimeAssumption, MaxFilesAssumption DEF Init, TypeOK, Phases
<1>2. \A w \in Writers : FilesFit(w)
  BY DEF Init, FilesFit
<1>3. Apart /\ Numbered /\ Kept
  BY DEF Init, Apart, Numbered, Kept
<1>4. QED
  BY <1>1, <1>2, <1>3 DEF IInv, Fitting

\* A step of w that leaves data alone, or adds a file of no other's session,
\* leaves the others' files as they fit.
LEMMA OthersFit ==
    ASSUME IInv, NEW w \in Writers,
           \A v \in Writers \ {w} :
              pc'[v] = pc[v] /\ session'[v] = session[v] /\ file'[v] = file[v],
           \A d \in data \ data' : d = file[w] \/ (session[w] # NoSession /\ d.session = session[w]),
           \A d \in data' \ data : d.session = NoSession \/ d.session = session[w]
    PROVE  \A v \in Writers \ {w} : FilesFit(v)'
<1> SUFFICES ASSUME NEW v \in Writers, v # w PROVE FilesFit(v)'
  OBVIOUS
<1>1. /\ FilesFit(v) /\ FilesFit(w)
      /\ pc'[v] = pc[v] /\ session'[v] = session[v] /\ file'[v] = file[v]
      /\ session[v] # NoSession => session[v] # session[w]
      /\ file[v] # NoFile => file[v] # file[w]
  BY DEF IInv, Fitting, Apart
<1>2. file[v] # NoFile => file[v] \in data
  BY <1>1 DEF FilesFit
<1>3. /\ file[v] # NoFile => pc[v] \in {"written", "compacted", "tidying"}
      /\ \A d \in data : d # NoFile
  <2>1. \A d \in data : d.number \in 1 .. MaxFiles
    BY DEF IInv, Fitting, TypeOK, DataFiles
  <2>2. QED
    BY <1>1, <2>1 DEF FilesFit, NoFile
<1>4. file[v] # NoFile => file[v] \in data'
  <2>1. SUFFICES ASSUME file[v] # NoFile, file[v] \notin data' PROVE FALSE
    OBVIOUS
  <2>2. session[w] # NoSession /\ file[v].session = session[w]
    BY <1>1, <1>2, <2>1
  <2>3. file[v].session \in {NoSession, session[v]}
    BY <1>1, <1>3, <2>1 DEF FilesFit
  <2>4. QED
    BY <1>1, <2>2, <2>3
<1>5. session[v] # NoSession => \A d \in SessionFiles(v)' : d \in SessionFiles(v)
  BY <1>1 DEF SessionFiles
<1>6. QED
  BY <1>1, <1>3, <1>4, <1>5 DEF FilesFit

Pending == {"written", "compacted"}

\* What a step of w may do to the files: it takes back its own file, deletes
\* files of its session while it tidies, adds one file that it has named; what
\* it has inserted is in a file it keeps.
LEMMA StepKeeps ==
    ASSUME IInv, TypeOK', NEW w \in Writers,
           \A v \in Writers \ {w} :
              pc'[v] = pc[v] /\ session'[v] = session[v] /\ file'[v] = file[v],
           \A d \in data \ data' :
              \/ pc[w] \in Pending /\ d = file[w]
              \/ pc[w] = "tidying" /\ d.session = session[w],
           \A d \in data' \ data :
              /\ d = file'[w] /\ d.number = count + 1
              /\ d.session = NoSession \/ d.session = session[w],
           data' \subseteq data \/ count' = count + 1,
           count' = count \/ count' = count + 1,
           file'[w] \in {file[w], NoFile} \/ file'[w] \in data' \ data,
           session'[w] \in {session[w], NoSession} \/ \A v \in Writers : session[v] # session'[w],
           pc'[w] \in Pending => file'[w] \in data' \ data,
           \A t \in (saved' \cup traced') \ (saved \cup traced) :
              pc[w] = "written" /\ file[w] \in data' /\ t \in file[w].ids,
           FilesFit(w)'
    PROVE  IInv'
<1>1. /\ FilesFit(w) /\ Apart /\ Numbered /\ Kept /\ count \in Nat
      /\ \A v \in Writers : FilesFit(v)
      /\ \A d \in data : d # NoFile /\ d.number \in Nat
  <2>1. \A d \in data : d.number \in 1 .. MaxFiles
    BY DEF IInv, Fitting, TypeOK, DataFiles
  <2>2. count \in Nat
    BY DEF IInv, Fitting, TypeOK
  <2>3. QED
    BY <2>1, <2>2 DEF IInv, Fitting, NoFile
<1>2. Fitting'
  <2>1. \A d \in data \ data' : d = file[w] \/ (session[w] # NoSession /\ d.session = session[w])
    BY <1>1 DEF FilesFit
  <2>2. \A v \in Writers \ {w} : FilesFit(v)'
    BY <2>1, OthersFit
  <2>3. QED
    BY <2>2 DEF Fitting
<1>3. Numbered'
  <2>1. ASSUME NEW d \in data' PROVE d.number <= count'
    <3>1. CASE d \in data
      BY <1>1, <3>1 DEF Numbered
    <3>2. CASE d \notin data
      BY <1>1, <3>2
    <3>3. QED
      BY <3>1, <3>2
  <2>2. QED
    BY <2>1 DEF Numbered
\* A new file is none that another writer has named.
<1>4. \A v \in Writers : file[v] # NoFile => file[v] \in data
  BY <1>1 DEF FilesFit
<1>5. \A d \in data' \ data : d # NoFile /\ \A v \in Writers : file[v] # d
  <2>1. ASSUME NEW d \in data' \ data PROVE d # NoFile
    BY <1>1, <2>1 DEF NoFile
  <2>2. QED
    BY <1>4, <2>1
<1>6. Apart'
  <2>1. ASSUME NEW v \in Writers \ {w}
        PROVE  /\ session'[v] # NoSession => session'[v] # session'[w]
               /\ session'[w] # NoSession => session'[w] # session'[v]
    BY <1>1 DEF Apart
  <2>2. ASSUME NEW v \in Writers \ {w}
        PROVE  /\ file'[v] # NoFile => file'[v] # file'[w]
               /\ file'[w] # NoFile => file'[w] # file'[v]
    BY <1>1, <1>5 DEF Apart
  <2>3. ASSUME NEW v \in Writers \ {w}, NEW u \in Writers \ {w}, v # u
        PROVE  /\ session'[v] # NoSession => session'[v] # session'[u]
               /\ file'[v] # NoFile => file'[v] # file'[u]
    BY <1>1, <2>3 DEF Apart
  <2>4. QED
    BY <2>1, <2>2, <2>3 DEF Apart
\* The file w has named is taken back by nobody else, nor by w any more.
<1>7. ASSUME NEW d \in data, d \in data', \A v \in Writers \ {w} : pc[v] \in Pending => d # file[v]
      PROVE  Settled(d)'
  BY <1>7 DEF Settled, Pending
<1>8. ASSUME NEW d \in data, d = file[w], d \in data' PROVE Settled(d)'
  <2>1. \A v \in Writers \ {w} : pc[v] \in Pending => d # file[v]
    BY <1>1, <1>8 DEF Apart
  <2>2. QED
    BY <1>7, <1>8, <2>1
<1>9. Kept'
  <2>1. SUFFICES ASSUME NEW t \in saved' \cup traced'
                 PROVE  \E d \in data' : t \in d.ids /\ Settled(d)'
    BY DEF Kept
  <2>2. CASE t \in saved \cup traced
    <3>1. PICK d \in data : t \in d.ids /\ Settled(d)
      BY <1>1, <2>2 DEF Kept
    <3>2. CASE d \in data'
      BY <1>7, <3>1, <3>2 DEF Settled, Pending
    <3>3. CASE d \notin data'
      <4>1. pc[w] = "tidying" /\ d.session = session[w]
        BY <3>1, <3>3 DEF Settled, Pending
      <4>2. t \in file[w].ids
        BY <1>1, <3>1, <4>1 DEF FilesFit, SessionFiles
      <4>3. file[w] \in data /\ file[w] \in data'
        BY <1>1, <4>1 DEF FilesFit, Pending
      <4>4. PICK e \in data : e = file[w]
        BY <4>3
      <4>5. Settled(e)' /\ e \in data' /\ t \in e.ids
        BY <1>8, <4>2, <4>3, <4>4
      <4>6. QED
        BY <4>5
    <3>4. QED
      BY <3>2, <3>3
  <2>3. CASE t \notin saved \cup traced
    <3>1. pc[w] = "written" /\ file[w] \in data' /\ t \in file[w].ids
      BY <2>3
    <3>2. file[w] \in data
      BY <1>1, <3>1 DEF FilesFit
    <3>3. PICK e \in data : e = file[w]
      BY <3>2
    <3>4. Settled(e)' /\ e \in data' /\ t \in e.ids
      BY <1>8, <3>1, <3>3
    <3>5. QED
      BY <3>4
  <2>4. QED
    BY <2>2, <2>3
<1>10. QED
  BY <1>2, <1>3, <1>6, <1>9 DEF IInv

\* A step of w that touches no parquet file.
LEMMA QuietStep ==
    ASSUME IInv, TypeOK', NEW w \in Writers, NEW c \in Phases \ Pending,
           pc' = [pc EXCEPT ![w] = c], data' = data,
           \/ session' = session
           \/ /\ session' = [session EXCEPT ![w] = session'[w]]
              /\ \/ session'[w] = NoSession
                 \/ \A v \in Writers : session[v] # session'[w],
           \/ file' = file
           \/ file' = [file EXCEPT ![w] = NoFile],
           count' = count \/ count' = count + 1,
           \A t \in (saved' \cup traced') \ (saved \cup traced) :
              pc[w] = "written" /\ t \in file[w].ids,
           FilesFit(w)'
    PROVE  IInv'
<1>1. /\ pc \in [Writers -> Phases] /\ file \in [Writers -> DataFiles \cup {NoFile}]
      /\ session \in [Writers -> Sessions \cup {NoSession}]
      /\ FilesFit(w)
  BY DEF IInv, Fitting, TypeOK
<1>2. \A v \in Writers \ {w} :
         pc'[v] = pc[v] /\ session'[v] = session[v] /\ file'[v] = file[v]
  BY <1>1
<1>3. /\ pc'[w] \notin Pending
      /\ file'[w] \in {file[w], NoFile}
      /\ session'[w] \in {session[w], NoSession} \/ \A v \in Writers : session[v] # session'[w]
  BY <1>1
<1>4. pc[w] = "written" => file[w] \in data'
  BY <1>1 DEF FilesFit
<1>5. QED
  BY <1>2, <1>3, <1>4, StepKeeps

LEMMA IInvNext == IInv /\ [Next]_vars => IInv'
<1> SUFFICES ASSUME IInv, [Next]_vars PROVE IInv'
  OBVIOUS
<1>1. /\ TypeOK /\ TypeOK' /\ \A w \in Writers : FilesFit(w)
      /\ pc \in [Writers -> Phases] /\ file \in [Writers -> DataFiles \cup {NoFile}]
      /\ session \in [Writers -> Sessions \cup {NoSession}]
      /\ Numbered
  BY TypeNext DEF IInv, Fitting, TypeOK
<1>2. ASSUME NEW w \in Writers, Connect(w) PROVE IInv'
  <2>1. pc' = [pc EXCEPT ![w] = "open"] /\ file[w] = NoFile
    BY <1>1, <1>2 DEF Connect, Go, FilesFit
  <2>2. PICK s \in {NoSession} \cup FreshSessions : session' = [session EXCEPT ![w] = s]
    BY <1>2 DEF Connect
  <2>3. /\ session' = [session EXCEPT ![w] = session'[w]]
        /\ session'[w] = NoSession \/ \A v \in Writers : session[v] # session'[w]
    BY <1>1, <2>2 DEF FreshSessions
  <2>4. data' = data /\ count' = count /\ file' = file /\ saved' = saved /\ traced' = traced
    BY <1>2 DEF Connect
  <2>5. FilesFit(w)'
    BY <1>1, <2>1, <2>4 DEF FilesFit
  <2>6. QED
    BY <1>1, <2>1, <2>3, <2>4, <2>5, QuietStep DEF Phases, Pending
<1>3. ASSUME NEW w \in Writers, Disconnect(w) \/ Crash(w) PROVE IInv'
  <2>1. /\ pc' = [pc EXCEPT ![w] = "off"] /\ file' = [file EXCEPT ![w] = NoFile]
        /\ session' = [session EXCEPT ![w] = NoSession]
        /\ data' = data /\ count' = count /\ saved' = saved /\ traced' = traced
    BY <1>3 DEF Disconnect, Crash, Forget, Go
  <2>2. FilesFit(w)' /\ session'[w] = NoSession
    BY <1>1, <2>1 DEF FilesFit
  <2>3. QED
    BY <1>1, <2>1, <2>2, QuietStep DEF Phases, Pending
<1>4. ASSUME NEW w \in Writers, NEW c \in Phases \ (Pending \cup {"tidying"}),
             pc' = [pc EXCEPT ![w] = c], data' = data, session' = session,
             saved' = saved, traced' = traced,
             count' = count \/ count' = count + 1,
             \/ file' = file /\ pc[w] \notin Pending \cup {"tidying"}
             \/ file' = [file EXCEPT ![w] = NoFile],
             c = "compacting" => session[w] # NoSession
      PROVE  IInv'
  <2>1. file'[w] = NoFile /\ pc'[w] = c /\ session'[w] = session[w]
    BY <1>1, <1>4 DEF FilesFit, Pending
  <2>2. FilesFit(w)'
    BY <1>4, <2>1 DEF FilesFit, Pending
  <2>3. QED
    BY <1>1, <1>4, <2>2, QuietStep
<1>5. ASSUME NEW w \in Writers, BeginInsert(w) PROVE IInv'
  <2>1. count' = count \/ count' = count + 1
    BY <1>5 DEF BeginInsert, WriteManifest, NewNumber
  <2>2. QED
    BY <1>4, <1>5, <2>1 DEF BeginInsert, Go, Phases, Pending
<1>6. ASSUME NEW w \in Writers, WriteData(w) PROVE IInv'
  <2>1. PICK t \in Transcripts, d \in data' :
          /\ d = [number |-> count + 1, session |-> session[w], time |-> clock, ids |-> {t}]
          /\ data' = data \cup {d} /\ file' = [file EXCEPT ![w] = d]
    BY <1>6 DEF WriteData
  <2>2. /\ pc' = [pc EXCEPT ![w] = "written"] /\ session' = session
        /\ count' = count + 1 /\ saved' = saved /\ traced' = traced
    BY <1>6 DEF WriteData, Go, NewNumber
  <2>3. d.number = count + 1 /\ d.session = session[w]
    BY <2>1
  <2>4. d \notin data
    BY <1>1, <2>3 DEF Numbered, TypeOK, DataFiles
  <2>5. /\ file'[w] = d /\ pc'[w] = "written" /\ session'[w] = session[w]
        /\ d \in data' \ data
    BY <1>1, <2>1, <2>2, <2>4
  <2>6. FilesFit(w)'
    BY <2>3, <2>5 DEF FilesFit
  <2>7. \A v \in Writers \ {w} :
           pc'[v] = pc[v] /\ session'[v] = session[v] /\ file'[v] = file[v]
    BY <1>1, <2>1, <2>2
  <2>8. QED
    BY <1>1, <2>1, <2>2, <2>3, <2>5, <2>6, <2>7, StepKeeps
<1>7. ASSUME NEW w \in Writers, AppendIndex(w) PROVE IInv'
  <2>1. /\ pc' = [pc EXCEPT ![w] = "open"] /\ file' = [file EXCEPT ![w] = NoFile]
        /\ session' = session /\ data' = data /\ count' = count + 1
        /\ pc[w] = "written"
    BY <1>7 DEF AppendIndex, Go, WriteIndex, NewNumber
  <2>2. saved' \cup traced' \subseteq saved \cup traced \cup file[w].ids
    BY <1>7 DEF AppendIndex
  <2>3. FilesFit(w)'
    BY <1>1, <2>1 DEF FilesFit
  <2>4. QED
    BY <1>1, <2>1, <2>2, <2>3, QuietStep DEF Phases, Pending
<1>8. ASSUME NEW w \in Writers, NEW c \in {"open", "discovering"}, pc[w] \in Pending,
             pc' = [pc EXCEPT ![w] = c], data' = data \ {file[w]},
             file' = [file EXCEPT ![w] = NoFile],
             session' = session, count' = count, saved' = saved, traced' = traced
      PROVE  IInv'
  <2>1. \A v \in Writers \ {w} :
           pc'[v] = pc[v] /\ session'[v] = session[v] /\ file'[v] = file[v]
    BY <1>1, <1>8
  <2>2. pc'[w] = c /\ file'[w] = NoFile /\ session'[w] = session[w]
    BY <1>1, <1>8
  <2>3. FilesFit(w)' /\ pc'[w] \notin Pending
    BY <2>2 DEF FilesFit, Pending
  <2>4. QED
    BY <1>1, <1>8, <2>1, <2>2, <2>3, StepKeeps
<1>9. ASSUME NEW w \in Writers, FailIndex(w) PROVE IInv'
  BY <1>8, <1>9 DEF FailIndex, Go, Pending
<1>10. ASSUME NEW w \in Writers, Commit(w) PROVE IInv'
  <2>1. PICK c \in {"compacting", "discovering"} :
           pc' = [pc EXCEPT ![w] = c] /\ (c = "compacting" => session[w] # NoSession)
    BY <1>10 DEF Commit, Go
  <2>2. QED
    BY <1>4, <1>10, <2>1 DEF Commit, Phases, Pending
<1>11. ASSUME NEW w \in Writers, WriteCompacted(w) PROVE IInv'
  <2>1. PICK d :
          /\ d = [number |-> count + 1, session |-> NoSession, time |-> clock,
                  ids |-> UNION {e.ids : e \in SessionFiles(w)}]
          /\ data' = data \cup {d} /\ file' = [file EXCEPT ![w] = d]
    BY <1>11 DEF WriteCompacted
  <2>2. /\ pc[w] = "compacting" /\ pc' = [pc EXCEPT ![w] = "compacted"] /\ session' = session
        /\ count' = count + 1 /\ saved' = saved /\ traced' = traced
    BY <1>11 DEF WriteCompacted, Go, NewNumber
  <2>3. /\ d.number = count + 1 /\ d.session = NoSession
        /\ \A e \in SessionFiles(w) : e.ids \subseteq d.ids
    BY <2>1
  <2>4. d \notin data
    BY <1>1, <2>3 DEF Numbered, TypeOK, DataFiles
  <2>5. /\ file'[w] = d /\ pc'[w] = "compacted" /\ session'[w] = session[w]
        /\ d \in data' \ data /\ session[w] # NoSession
    BY <1>1, <2>1, <2>2, <2>4 DEF FilesFit
  <2>6. SessionFiles(w)' = SessionFiles(w)
    BY <2>1, <2>3, <2>5 DEF SessionFiles
  <2>7. FilesFit(w)'
    BY <2>3, <2>5, <2>6 DEF FilesFit
  <2>8. \A v \in Writers \ {w} :
           pc'[v] = pc[v] /\ session'[v] = session[v] /\ file'[v] = file[v]
    BY <1>1, <2>1, <2>2
  <2>9. QED
    BY <1>1, <2>1, <2>2, <2>3, <2>5, <2>7, <2>8, StepKeeps
<1>12. ASSUME NEW w \in Writers, IndexCompacted(w) PROVE IInv'
  <2>1. /\ pc[w] = "compacted" /\ pc' = [pc EXCEPT ![w] = "tidying"]
        /\ file' = file /\ session' = session /\ data' = data /\ count' = count + 1
        /\ saved' = saved /\ traced' = traced
    BY <1>12 DEF IndexCompacted, Go, WriteIndex, NewNumber
  <2>2. FilesFit(w)'
    BY <1>1, <2>1 DEF FilesFit, SessionFiles
  <2>3. QED
    BY <1>1, <2>1, <2>2, QuietStep DEF Phases, Pending
<1>13. ASSUME NEW w \in Writers, DeleteSessionFile(w) PROVE IInv'
  <2>1. PICK d \in SessionFiles(w) :
          /\ data' = data \ {d}
          /\ \/ /\ pc' = [pc EXCEPT ![w] = "discovering"]
                /\ file' = [file EXCEPT ![w] = NoFile]
             \/ UNCHANGED <<pc, file>>
    BY <1>13 DEF DeleteSessionFile, Go
  <2>2. /\ pc[w] = "tidying" /\ session' = session /\ count' = count
        /\ saved' = saved /\ traced' = traced
    BY <1>13 DEF DeleteSessionFile
  <2>3. /\ file[w] \in data /\ file[w].session = NoSession /\ session[w] # NoSession
        /\ d.session = session[w]
    BY <1>1, <2>2 DEF FilesFit, SessionFiles
  <2>4. /\ \A v \in Writers \ {w} :
              pc'[v] = pc[v] /\ session'[v] = session[v] /\ file'[v] = file[v]
        /\ session'[w] = session[w] /\ pc'[w] \notin Pending
        /\ \/ pc'[w] = "discovering" /\ file'[w] = NoFile
           \/ pc'[w] = "tidying" /\ file'[w] = file[w]
    BY <1>1, <2>1, <2>2 DEF Pending
  <2>5. file[w] \in data' /\ SessionFiles(w)' \subseteq SessionFiles(w)
    BY <2>1, <2>2, <2>3, <2>4 DEF SessionFiles
  <2>6. FilesFit(w)'
    BY <1>1, <2>2, <2>3, <2>4, <2>5 DEF FilesFit
  <2>7. QED
    BY <1>1, <2>1, <2>2, <2>3, <2>4, <2>6, StepKeeps
<1>14. ASSUME NEW w \in Writers,
              DiscoverIndex(w) \/ ListIndex(w) \/ BeginRebuild(w)
       PROVE  IInv'
  BY <1>4, <1>14 DEF DiscoverIndex, ListIndex, BeginRebuild, Go, Phases, Pending
<1>15. ASSUME NEW w \in Writers, MergeIndex(w) \/ Rebuild(w) PROVE IInv'
  <2>1. count' = count \/ count' = count + 1
    BY <1>15 DEF MergeIndex, Rebuild, WriteManifest, NewNumber
  <2>2. QED
    BY <1>4, <1>15, <2>1 DEF MergeIndex, Rebuild, Go, Phases, Pending
<1>16. ASSUME NEW w \in Writers, DeleteIndexFile(w) PROVE IInv'
  <2>1. PICK c \in {"deleting", "open"} : pc' = [pc EXCEPT ![w] = c]
    BY <1>1, <1>16 DEF DeleteIndexFile, Go
  <2>2. QED
    BY <1>4, <1>16, <2>1 DEF DeleteIndexFile, Phases, Pending
<1>17. ASSUME NEW w \in Writers, SkipCompaction(w) PROVE IInv'
  <2>1. CASE pc[w] = "compacted"
    BY <1>8, <1>17, <2>1 DEF SkipCompaction, Go, Pending
  <2>2. CASE pc[w] # "compacted"
    <3>1. PICK c \in {"open", "discovering"} : pc' = [pc EXCEPT ![w] = c]
      BY <1>17 DEF SkipCompaction, Go
    <3>2. /\ data' = data /\ file' = [file EXCEPT ![w] = NoFile]
          /\ UNCHANGED <<count, session, saved, traced>>
      BY <1>17, <2>2 DEF SkipCompaction
    <3>3. QED
      BY <1>4, <3>1, <3>2 DEF Phases, Pending
  <2>3. QED
    BY <2>1, <2>2
<1>18. ASSUME UNCHANGED <<data, count, saved, traced, pc, session, file>> PROVE IInv'
  <2>1. Fitting' /\ Apart' /\ Numbered'
    BY <1>1, <1>18 DEF IInv, Fitting, FilesFit, SessionFiles, Apart, Numbered
  <2>2. Kept'
    BY <1>18 DEF IInv, Kept, Settled
  <2>3. QED
    BY <2>1, <2>2 DEF IInv
<1>19. ASSUME ReadDirectory \/ ReadIndex \/ RetryRead \/ Tick \/ UNCHANGED vars PROVE IInv'
  BY <1>18, <1>19 DEF ReadDirectory, ReadIndex, RetryRead, Tick, vars, writerVars
<1>20. QED
  BY <1>2, <1>3, <1>5, <1>6, <1>7, <1>9, <1>10, <1>11, <1>12, <1>13, <1>14,
     <1>15, <1>16, <1>17, <1>19 DEF Next

\* Types: among them, that no index file names a transcript twice, whatever
\* is merged into it or rebuilt.
THEOREM IndexTypes == Spec => []TypeOK
<1>1. Init => IInv
  BY IInvInit
<1>2. IInv /\ [Next]_vars => IInv'
  BY IInvNext
<1>3. IInv => TypeOK
  BY DEF IInv, Fitting
<1>4. QED
  BY <1>1, <1>2, <1>3, PTL DEF Spec

\* A parquet file goes only when what has been inserted is in another, for any
\* number of processes that insert, compact, fail and die at the same time.
THEOREM NoTranscriptIsDeleted == Spec => []DataKept
<1>1. Init => IInv
  BY IInvInit
<1>2. IInv /\ [Next]_vars => IInv'
  BY IInvNext
<1>3. IInv => DataKept
  BY DEF IInv, Kept, DataKept
<1>4. QED
  BY <1>1, <1>2, <1>3, PTL DEF Spec
-----------------------------------------------------------------------------
(* What the index shows *)

\* Of the rows of a set, each transcript keeps one.
LEMMA OnePerIdIds ==
    ASSUME NEW rows
    PROVE  OnePerId(rows) \subseteq rows /\ IdsOf(OnePerId(rows)) = IdsOf(rows)
<1> DEFINE Row(t) == CHOOSE r \in rows : r.id = t
<1>1. ASSUME NEW t \in IdsOf(rows) PROVE Row(t) \in rows /\ Row(t).id = t
  <2>1. \E r \in rows : r.id = t
    BY DEF IdsOf
  <2>2. QED
    BY <2>1
<1>2. OnePerId(rows) = {Row(t) : t \in IdsOf(rows)}
  BY DEF OnePerId
<1> HIDE DEF Row
<1>3. ASSUME NEW t \in IdsOf(OnePerId(rows)) PROVE t \in IdsOf(rows)
  BY <1>1, <1>2 DEF IdsOf
<1>4. ASSUME NEW t \in IdsOf(rows) PROVE t \in IdsOf(OnePerId(rows))
  BY <1>1, <1>2 DEF IdsOf
<1>5. QED
  BY <1>1, <1>2, <1>3, <1>4

\* A merge forgets no transcript: of the files with a row for it, one is last.
LEMMA MergedIds ==
    ASSUME NEW files, \A f \in files : f.time \in 0 .. MaxTime
    PROVE  /\ MergedRows(files) \subseteq AllRows(files)
           /\ IdsOf(AllRows(files)) \subseteq IdsOf(MergedRows(files))
<1>0. MergedRows(files) \subseteq AllRows(files)
  BY OnePerIdIds DEF MergedRows
<1> SUFFICES ASSUME NEW t \in IdsOf(AllRows(files)) PROVE t \in IdsOf(MergedRows(files))
  BY <1>0
<1> DEFINE With == {f \in files : t \in IdsOf(f.rows)}
           Behind == {2 + MaxTime - Rank(f) : f \in With}
           Last == {r \in AllRows(files) :
                      \E f \in files : /\ r \in f.rows
                                       /\ \A g \in files : r.id \in IdsOf(g.rows) => Rank(g) <= Rank(f)}
<1>1. With # {}
  BY DEF IdsOf, AllRows
<1>2. \A f \in files : Rank(f) \in 0 .. 2 + MaxTime
  BY MaxTimeAssumption DEF Rank
<1>3. Behind \in SUBSET Nat /\ Behind # {}
  BY <1>1, <1>2, MaxTimeAssumption
<1>4. PICK f \in With : \A b \in Behind : 2 + MaxTime - Rank(f) <= b
  <2>1. PICK a \in Behind : \A b \in Behind : a <= b
    <3> HIDE DEF Behind
    <3>1. QED
      BY <1>3, Least
  <2>2. QED
    BY <2>1
<1>5. ASSUME NEW g \in files, t \in IdsOf(g.rows) PROVE Rank(g) <= Rank(f)
  <2>1. 2 + MaxTime - Rank(f) <= 2 + MaxTime - Rank(g)
    BY <1>4, <1>5
  <2>2. Rank(f) \in Int /\ Rank(g) \in Int
    BY <1>2
  <2>3. QED
    BY <2>1, <2>2, MaxTimeAssumption
<1>6. PICK r \in f.rows : r.id = t
  BY DEF IdsOf
<1>7. r \in Last
  BY <1>5, <1>6 DEF AllRows
<1>8. t \in IdsOf(Last)
  BY <1>6, <1>7 DEF IdsOf
<1>9. MergedRows(files) = OnePerId(Last)
  BY DEF MergedRows
<1> HIDE DEF Last
<1>10. QED
  BY <1>8, <1>9, OnePerIdIds

\* Another index file hides none of those discovered; it is discovered itself
\* if it is of no session and no manifest is newer.
LEMMA DiscoverMore ==
    ASSUME NEW files, NEW g, g.kind = "incremental",
           \A f \in files : f.time \in 0 .. MaxTime, g.time \in Int
    PROVE  /\ Discover(files) \subseteq Discover(files \cup {g})
           /\ g.session = NoSession /\ (\A m \in Manifests(files) : m.time <= g.time)
                => g \in Discover(files \cup {g})
<1>1. Manifests(files \cup {g}) = Manifests(files)
  BY DEF Manifests
<1>2. Newest(files \cup {g}) = Newest(files)
  BY <1>1 DEF Newest
<1>3. CASE Manifests(files) = {}
  BY <1>1, <1>3 DEF Discover
<1>4. CASE Manifests(files) # {}
  <2>1. Newest(files) \in Manifests(files) /\ Newest(files).time \in Int
    BY <1>4, NewestIsOne DEF Manifests
  <2>2. g \in Incrementals(files \cup {g}) /\ Incrementals(files) \subseteq Incrementals(files \cup {g})
    BY DEF Incrementals, Manifests
  <2>3. QED
    BY <1>1, <1>2, <1>4, <2>1, <2>2 DEF Discover, Outdated
<1>5. QED
  BY <1>3, <1>4

\* The newest manifest is discovered, when no other is of its second.
LEMMA NewestIsSeen ==
    ASSUME NEW files, NEW m \in Manifests(files),
           \A f \in files : f.time \in 0 .. MaxTime,
           \A n \in Manifests(files) : n.time <= m.time,
           \A n \in Manifests(files) : n.time = m.time => n = m
    PROVE  m \in Discover(files)
<1>1. /\ Newest(files) \in Manifests(files)
      /\ m.time <= Newest(files).time /\ Newest(files).time <= m.time
  BY NewestIsOne
<1>2. m.time \in Int /\ Newest(files).time \in Int
  BY <1>1 DEF Manifests
<1>3. Newest(files) = m
  BY <1>1, <1>2
<1>4. QED
  BY <1>3 DEF Discover

\* The rows of the data name every transcript that a file holds.
LEMMA DataIds ==
    ASSUME NEW d \in data, NEW t \in d.ids
    PROVE  t \in IdsOf(DataRows)
<1>1. [id |-> t, number |-> d.number] \in DataRows
  BY DEF DataRows
<1>2. QED
  BY <1>1 DEF IdsOf

\* And each of them is live.
LEMMA DataLive == \A r \in DataRows : Live(r)
BY DEF DataRows, Live

-----------------------------------------------------------------------------
(* What one writer keeps of the index *)

\* Of the rows in the index, those whose parquet file is gone: a compaction
\* has deleted it, and no merge has dropped the row yet.
Lost == {t \in Transcripts : \E r \in AllRows(index) : r.id = t /\ ~Live(r)}

\* What the next manifest has to name.
Needed == saved \cup Lost

Seen == Needed \subseteq IdsOf(AllRows(Discover(index)))
Sound == saved \cap Lost = {}
Backed == \A t \in Lost : \E d \in data : t \in d.ids /\ d.session = NoSession /\ Settled(d)

\* Files are numbered as they are named: no row is of a file to come, nor of
\* one that is not indexed yet.
RowsNumbered ==
    \A r \in AllRows(index) :
       /\ r.number <= count
       /\ \A w \in Writers : pc[w] \in Pending => r.number # file[w].number

ManifestsApart ==
    \A m \in Manifests(index) :
       m.time <= clock /\ \A n \in Manifests(index) : n.time = m.time => n = m

\* What the writer knows, has listed and is about to index, by its phase.
Covers(w) == \E f \in Discover(index) : file[w].ids \subseteq IdsOf(f.rows)
Replaces(w) ==
    \E m \in Manifests(index) \ doomed[w] :
       /\ \A n \in Manifests(index) : n.time <= m.time
       /\ Needed \subseteq IdsOf(m.rows)
Place(w) ==
    /\ pc[w] # "off" => Needed \subseteq known[w]
    /\ session[w] # NoSession =>
          \A d \in SessionFiles(w) : d.ids \subseteq known[w] /\ d.ids \cap saved = {}
    /\ pc[w] = "written" =>
          /\ file[w].ids \subseteq known[w]
          /\ session[w] = NoSession => file[w].ids \cap Lost = {}
    /\ pc[w] \in Pending => \A m \in Manifests(index) : m.time <= file[w].time
    /\ pc[w] = "tidying" => Covers(w)
    /\ pc[w] \in {"listing", "merging"} => chosen[w] = Discover(index)
    /\ pc[w] \in {"merging", "rebuilding"} => doomed[w] = index
    /\ pc[w] = "deleting" => Replaces(w)

Listed == reader = "listed" => expected \subseteq saved /\ expected \subseteq IdsOf(AllRows(listed))

Shown == Seen /\ Sound /\ Backed /\ RowsNumbered /\ ManifestsApart
\* TypeOK does not type the lists of files.
Tables == DOMAIN chosen = Writers /\ DOMAIN doomed = Writers

FInv == IInv /\ Tables /\ Shown /\ (\A w \in Writers : Place(w)) /\ Listed

OneWriter == \A v, w \in Writers : v = w

LEMMA IndexFacts ==
    ASSUME TypeOK
    PROVE  /\ AllRows(index) \subseteq Rows
           /\ \A f \in index : f.time \in 0 .. MaxTime /\ f.rows \subseteq Rows
           /\ Discover(index) \subseteq index
           /\ AllRows(Discover(index)) \subseteq AllRows(index)
<1>1. \A f \in index : f.time \in 0 .. MaxTime /\ f.rows \subseteq Rows
  BY DEF TypeOK
<1>2. Discover(index) \subseteq index
  BY <1>1, DiscoverPart
<1>3. QED
  BY <1>1, <1>2 DEF AllRows

\* A writer that reaches no file: what is shown stays, for it and the reader.
LEMMA ShownStays ==
    ASSUME Shown, index' = index, data' = data, saved' = saved, clock' = clock, count' = count,
           \A w \in Writers : pc'[w] \notin Pending
    PROVE  Shown' /\ Lost' = Lost /\ Needed' = Needed
<1>1. \A r : Live(r)' <=> Live(r)
  BY DEF Live
<1>2. Lost' = Lost
  BY <1>1 DEF Lost
<1>3. Needed' = Needed
  BY <1>2 DEF Needed
<1>4. Seen' /\ Sound'
  BY <1>2, <1>3 DEF Shown, Seen, Sound
<1>5. \A d \in data : Settled(d)'
  BY DEF Settled, Pending
<1>6. Backed'
  BY <1>2, <1>5 DEF Shown, Backed
<1>7. RowsNumbered' /\ ManifestsApart'
  BY DEF Shown, RowsNumbered, ManifestsApart
<1>8. QED
  BY <1>2, <1>3, <1>4, <1>6, <1>7 DEF Shown

\* A manifest that names all that is needed takes the place of the others.
LEMMA ManifestShows ==
    ASSUME TypeOK, Shown, NEW rows \in SUBSET Rows, WriteManifest(rows),
           Needed \subseteq IdsOf(rows), \A r \in rows : Live(r) \/ r \in AllRows(index),
           \A r \in rows : r.number <= count,
           data' = data, saved' = saved, clock' = clock,
           \A w \in Writers : pc'[w] \notin Pending
    PROVE  /\ Shown' /\ Needed' \subseteq Needed
           /\ \E m \in Manifests(index)' :
                 /\ m \notin index /\ \A n \in Manifests(index)' : n.time <= m.time
                 /\ Needed' \subseteq IdsOf(m.rows)
<1>1. PICK m : /\ index' = index \cup {m} /\ m.kind = "manifest" /\ m.time = clock /\ m.rows = rows
      /\ count' = count + 1 /\ \A n \in Manifests(index) : n.time < clock
  <2>1. PICK m : /\ m = [kind |-> "manifest", session |-> NoSession, number |-> count + 1,
                         time |-> clock, rows |-> rows]
                 /\ index' = index \cup {m}
    BY DEF WriteManifest
  <2>2. m.kind = "manifest" /\ m.time = clock /\ m.rows = rows
    BY <2>1
  <2>3. QED
    BY <2>1, <2>2 DEF WriteManifest, NewNumber
<1>2. m \notin index /\ m \in index' /\ Manifests(index)' = Manifests(index) \cup {m}
  <2>1. clock \in Int /\ count \in Int
    BY DEF TypeOK
  <2>2. m \notin Manifests(index)
    BY <1>1, <2>1
  <2>3. QED
    BY <1>1, <2>2 DEF Manifests
<1>3. /\ clock \in 0 .. MaxTime /\ count \in Int
      /\ \A f \in index' : f.time \in 0 .. MaxTime
      /\ \A r \in AllRows(index) \cup rows : r.number \in Int
  <2>1. \A f \in index : f.time \in 0 .. MaxTime
    BY DEF TypeOK
  <2>2. AllRows(index) \cup rows \subseteq Rows
    BY IndexFacts
  <2>3. QED
    BY <1>1, <2>1, <2>2 DEF TypeOK, Rows
<1>4. \A n \in Manifests(index)' : n.time <= m.time /\ (n.time = m.time => n = m)
  <2>1. \A n \in Manifests(index) : n.time \in Int
    BY <1>1, <1>3 DEF Manifests
  <2>2. QED
    BY <1>1, <1>2, <1>3, <2>1
<1>5. m \in Discover(index')
  <2>1. m \in Manifests(index') /\ \A n \in Manifests(index') : n.time <= m.time /\ (n.time = m.time => n = m)
    BY <1>2, <1>4
  <2>2. QED
    BY <1>3, <2>1, NewestIsSeen
<1>6. AllRows(index)' = AllRows(index) \cup rows
  BY <1>1 DEF AllRows
<1>7. Lost' \subseteq Lost
  <2>1. \A r : Live(r)' <=> Live(r)
    BY DEF Live
  <2>2. \A r \in AllRows(index)' : Live(r)' \/ (r \in AllRows(index) /\ ~Live(r))
    BY <1>6, <2>1
  <2>3. QED
    BY <2>2 DEF Lost
<1>8. Needed' \subseteq Needed
  BY <1>7 DEF Needed
<1>9. Seen'
  BY <1>1, <1>5, <1>8 DEF Seen, AllRows, IdsOf
<1>10. Sound'
  BY <1>7 DEF Shown, Sound
<1>11. Backed'
  <2>1. \A d \in data : Settled(d)'
    BY DEF Settled, Pending
  <2>2. QED
    BY <1>7, <2>1 DEF Shown, Backed
<1>12. RowsNumbered'
  <2>1. ASSUME NEW r \in AllRows(index)' PROVE r.number <= count'
    <3>1. r \in AllRows(index) \/ r \in rows
      BY <1>6, <2>1
    <3>2. r.number <= count
      BY <3>1 DEF Shown, RowsNumbered
    <3>3. r.number \in Int
      BY <1>3, <3>1
    <3>4. QED
      BY <1>1, <1>3, <3>2, <3>3
  <2>2. QED
    BY <2>1 DEF RowsNumbered
<1>13. ManifestsApart'
  <2>1. \A n \in Manifests(index) : n.time \in Int
    BY <1>1, <1>3 DEF Manifests
  <2>2. \A n \in Manifests(index) : \A o \in Manifests(index) : n.time = o.time => n = o
    BY DEF Shown, ManifestsApart
  <2>3. \A n \in Manifests(index) : n.time # m.time
    BY <1>1, <1>3, <2>1
  <2>4. \A n, o \in Manifests(index)' : n.time = o.time => n = o
    BY <1>2, <2>2, <2>3
  <2>5. \A n \in Manifests(index)' : n.time <= clock'
    BY <1>1, <1>4
  <2>6. QED
    BY <2>4, <2>5 DEF ManifestsApart
<1>14. QED
  BY <1>1, <1>2, <1>4, <1>8, <1>9, <1>10, <1>11, <1>12, <1>13 DEF Shown

\* An index file that w writes for the parquet file it has named is seen, if
\* it is of no session, and hides nothing.
LEMMA IndexShows ==
    ASSUME TypeOK, Shown, NEW w \in Writers, file[w] \in data, WriteIndex(w),
           \A m \in Manifests(index) : m.time <= file[w].time, file[w].number <= count,
           data' = data, clock' = clock, \A v \in Writers : pc'[v] \notin Pending
    PROVE  /\ Lost' \subseteq Lost /\ Backed' /\ RowsNumbered' /\ ManifestsApart'
           /\ IdsOf(AllRows(Discover(index))) \subseteq IdsOf(AllRows(Discover(index)))'
           /\ file[w].session = NoSession =>
                 \E f \in Discover(index)' : file[w].ids \subseteq IdsOf(f.rows)
<1> DEFINE new == {[id |-> t, number |-> file[w].number] : t \in file[w].ids}
<1>1. PICK g : /\ index' = index \cup {g} /\ g.kind = "incremental" /\ g.time = file[w].time
      /\ g.rows = new /\ g.session = file[w].session /\ count' = count + 1
  BY DEF WriteIndex, NewNumber
<1>2. \A r \in new : Live(r)' /\ r.number = file[w].number
  BY DEF Live
<1>3. file[w].ids \subseteq IdsOf(new)
  <2>1. ASSUME NEW t \in file[w].ids PROVE \E r \in new : r.id = t
    <3>1. [id |-> t, number |-> file[w].number] \in new
      OBVIOUS
    <3>2. QED
      BY <3>1
  <2>2. QED
    BY <2>1 DEF IdsOf
<1> HIDE DEF new
<1>4. file[w].time \in 0 .. MaxTime /\ file[w].number \in Int /\ count \in Int
  BY DEF TypeOK, DataFiles
<1>5. AllRows(index)' = AllRows(index) \cup new
  BY <1>1 DEF AllRows
<1>6. \A r : Live(r)' <=> Live(r)
  BY DEF Live
<1>7. Lost' \subseteq Lost
  BY <1>2, <1>5, <1>6 DEF Lost
<1>8. \A f \in index : f.time \in 0 .. MaxTime
  BY DEF TypeOK
<1>9. g.time \in Int /\ \A m \in Manifests(index) : m.time <= g.time
  BY <1>1, <1>4
<1>10. /\ Discover(index) \subseteq Discover(index')
       /\ g.session = NoSession => g \in Discover(index')
  BY <1>1, <1>8, <1>9, DiscoverMore
<1>11. IdsOf(AllRows(Discover(index))) \subseteq IdsOf(AllRows(Discover(index)))'
  BY <1>10 DEF AllRows, IdsOf
<1>12. file[w].session = NoSession =>
          \E f \in Discover(index)' : file[w].ids \subseteq IdsOf(f.rows)
  BY <1>1, <1>3, <1>10
<1>13. Backed'
  <2>1. \A d \in data : Settled(d)'
    BY DEF Settled, Pending
  <2>2. QED
    BY <1>7, <2>1 DEF Shown, Backed
<1>14. RowsNumbered'
  <2>1. \A r \in AllRows(index) : r.number \in Int /\ r.number <= count
    BY IndexFacts DEF Rows, Shown, RowsNumbered
  <2>2. QED
    BY <1>1, <1>2, <1>4, <1>5, <2>1 DEF RowsNumbered
<1>15. ManifestsApart'
  <2>1. Manifests(index)' = Manifests(index)
    BY <1>1 DEF Manifests
  <2>2. QED
    BY <2>1 DEF Shown, ManifestsApart
<1>16. QED
  BY <1>7, <1>11, <1>12, <1>13, <1>14, <1>15

\* A row that is in the index needs no file but those it is of.
LEMMA LostByDeletion ==
    ASSUME NEW D, data \ data' \subseteq D, index' = index,
           \A r \in AllRows(index) : \A d \in D : r.number # d.number
    PROVE  Lost' \subseteq Lost
<1>1. \A r \in AllRows(index) : Live(r) => Live(r)'
  BY DEF Live
<1>2. QED
  BY <1>1 DEF Lost

\* A parquet file that w names has a number of its own: no row is of it.
LEMMA NamingShows ==
    ASSUME TypeOK, Numbered, Shown, OneWriter, NEW w \in Writers, NEW d, d.number = count + 1,
           data' = data \cup {d}, file'[w] = d, count' = count + 1,
           UNCHANGED <<clock, index, saved>>
    PROVE  Shown' /\ Lost' \subseteq Lost
<1>1. \A e \in data : e.number <= count /\ e.number \in Int /\ count \in Int
  BY DEF Numbered, TypeOK, DataFiles
<1>2. Lost' \subseteq Lost
  BY DEF Lost, Live
<1>3. Seen' /\ Sound'
  BY <1>2 DEF Shown, Seen, Sound, Needed
<1>4. \A e \in data : Settled(e)'
  BY <1>1 DEF Settled, OneWriter
<1>5. Backed'
  BY <1>2, <1>4 DEF Shown, Backed
<1>6. RowsNumbered'
  <2>1. \A r \in AllRows(index) : r.number \in Int /\ r.number <= count
    BY IndexFacts DEF Rows, Shown, RowsNumbered
  <2>2. \A v \in Writers : file'[v].number = count + 1
    BY DEF OneWriter
  <2>3. count \in Int
    BY DEF TypeOK
  <2>4. QED
    BY <2>1, <2>2, <2>3 DEF RowsNumbered
<1>7. ManifestsApart'
  BY DEF Shown, ManifestsApart
<1>8. QED
  BY <1>2, <1>3, <1>5, <1>6, <1>7 DEF Shown

LEMMA FInvInit == Init => FInv
<1> SUFFICES ASSUME Init PROVE FInv
  OBVIOUS
<1>1. index = {} /\ Manifests(index) = {} /\ AllRows(index) = {} /\ saved = {}
  BY DEF Init, Manifests, AllRows
<1>2. Lost = {} /\ Needed = {}
  BY <1>1 DEF Lost, Needed
<1>3. Shown
  BY <1>1, <1>2 DEF Shown, Seen, Sound, Backed, RowsNumbered, ManifestsApart
<1>4. \A w \in Writers : Place(w)
  BY DEF Init, Place, Pending
<1>5. Listed
  BY DEF Init, Listed
<1>6. Tables
  BY DEF Init, Tables
<1>7. QED
  BY <1>3, <1>4, <1>5, <1>6, IInvInit DEF FInv

LEMMA TablesNext == Tables /\ [Next]_vars => Tables'
<1> SUFFICES ASSUME Tables, [Next]_vars PROVE Tables'
  OBVIOUS
<1>1. ASSUME NEW w \in Writers, chosen' = chosen \/ \E x : chosen' = [chosen EXCEPT ![w] = x],
             doomed' = doomed \/ \E x : doomed' = [doomed EXCEPT ![w] = x]
      PROVE  Tables'
  BY <1>1 DEF Tables
<1>2. ASSUME NEW w \in Writers,
             \/ Connect(w) \/ BeginInsert(w) \/ WriteData(w) \/ AppendIndex(w) \/ FailIndex(w)
             \/ Commit(w) \/ WriteCompacted(w) \/ IndexCompacted(w) \/ DeleteSessionFile(w)
             \/ Rebuild(w)
      PROVE  Tables'
  BY <1>1, <1>2 DEF Connect, BeginInsert, WriteData, AppendIndex, FailIndex, Commit,
     WriteCompacted, IndexCompacted, DeleteSessionFile, Rebuild
<1>3. ASSUME NEW w \in Writers,
             Disconnect(w) \/ Crash(w) \/ DiscoverIndex(w) \/ ListIndex(w) \/ SkipCompaction(w)
             \/ BeginRebuild(w)
      PROVE  Tables'
  BY <1>1, <1>3 DEF Disconnect, Crash, Forget, DiscoverIndex, ListIndex, SkipCompaction, BeginRebuild
<1>4. ASSUME NEW w \in Writers, MergeIndex(w) PROVE Tables'
  BY <1>1, <1>4 DEF MergeIndex
<1>5. ASSUME NEW w \in Writers, DeleteIndexFile(w) PROVE Tables'
  BY <1>1, <1>5 DEF DeleteIndexFile
<1>6. ASSUME ReadDirectory \/ ReadIndex \/ RetryRead \/ Tick \/ UNCHANGED vars PROVE Tables'
  BY <1>6 DEF ReadDirectory, ReadIndex, RetryRead, Tick, vars, writerVars, Tables
<1>7. QED
  BY <1>2, <1>3, <1>4, <1>5, <1>6 DEF Next

LEMMA FInvNext ==
    ASSUME OneWriter, FInv, [Next]_vars
    PROVE  FInv'
<1>1. /\ IInv /\ IInv' /\ TypeOK /\ TypeOK' /\ Tables /\ Tables' /\ Shown /\ Listed
      /\ pc \in [Writers -> Phases] /\ known \in [Writers -> SUBSET Transcripts]
      /\ session \in [Writers -> Sessions \cup {NoSession}]
      /\ file \in [Writers -> DataFiles \cup {NoFile}]
  BY IInvNext, TablesNext DEF FInv, IInv, Fitting, TypeOK
<1>2. \A w \in Writers : FilesFit(w) /\ Place(w)
  BY DEF FInv, IInv, Fitting
<1>3. ASSUME NEW w \in Writers, Shown', Place(w)', saved \subseteq saved', UNCHANGED readerVars
      PROVE  FInv'
  <2>1. \A v \in Writers : Place(v)'
    BY <1>3 DEF OneWriter
  <2>2. Listed'
    BY <1>1, <1>3 DEF Listed, readerVars
  <2>3. QED
    BY <1>1, <1>3, <2>1, <2>2 DEF FInv
\* A step that moves w into a phase without a file to index.
<1>4. ASSUME NEW w \in Writers, NEW c \in Phases \ Pending, pc' = [pc EXCEPT ![w] = c]
      PROVE  pc'[w] = c /\ \A v \in Writers : pc'[v] \notin Pending
  BY <1>1, <1>4 DEF OneWriter
<1>5. ASSUME NEW w \in Writers, NEW c \in Phases \ Pending, pc' = [pc EXCEPT ![w] = c],
             UNCHANGED <<clock, count, data, index, saved>>
      PROVE  /\ Shown' /\ Lost' = Lost /\ Needed' = Needed /\ pc'[w] = c
             /\ Discover(index)' = Discover(index)
  <2>1. pc'[w] = c /\ \A v \in Writers : pc'[v] \notin Pending
    BY <1>4, <1>5
  <2>2. QED
    BY <1>1, <1>5, <2>1, ShownStays
\* ... in which nothing is asked of it but what is asked of every connection.
<1>6. ASSUME NEW w \in Writers, pc[w] # "off",
             NEW c \in {"open", "inserting", "compacting", "discovering"},
             pc' = [pc EXCEPT ![w] = c],
             UNCHANGED <<clock, count, data, index, saved, known, session, readerVars>>
      PROVE  FInv'
  <2>1. /\ Shown' /\ Lost' = Lost /\ Needed' = Needed /\ pc'[w] = c
    BY <1>5, <1>6 DEF Phases, Pending
  <2>2. Place(w)'
    BY <1>2, <1>6, <2>1 DEF Place, SessionFiles, Pending
  <2>3. QED
    BY <1>3, <1>6, <2>1, <2>2
<1>7. ASSUME NEW w \in Writers, Connect(w) PROVE FInv'
  <2>1. PICK s \in {NoSession} \cup FreshSessions : session' = [session EXCEPT ![w] = s]
    BY <1>7 DEF Connect
  <2>2. /\ pc' = [pc EXCEPT ![w] = "open"] /\ known' = [known EXCEPT ![w] = IdsOf(Visible)]
        /\ UNCHANGED <<clock, count, data, index, saved, readerVars>>
    BY <1>7 DEF Connect, Go
  <2>3. Shown' /\ Lost' = Lost /\ Needed' = Needed /\ pc'[w] = "open"
    BY <1>5, <2>2 DEF Phases, Pending
  <2>4. Needed \subseteq IdsOf(Visible)
    <3>1. Needed \subseteq IdsOf(AllRows(Discover(index)))
      BY <1>1 DEF Shown, Seen
    <3>2. CASE index = {}
      <4>1. AllRows(Discover(index)) = {}
        BY <1>1, <3>2, IndexFacts DEF AllRows
      <4>2. QED
        BY <3>1, <4>1 DEF IdsOf
    <3>3. CASE index # {}
      BY <3>1, <3>3 DEF Visible
    <3>4. QED
      BY <3>2, <3>3
  <2>5. Needed' \subseteq known'[w] /\ session'[w] = s
    BY <1>1, <2>1, <2>2, <2>3, <2>4
  <2>6. s # NoSession => SessionFiles(w)' = {}
    BY <2>1, <2>2, <2>5 DEF SessionFiles, FreshSessions
  <2>7. Place(w)'
    BY <2>3, <2>5, <2>6 DEF Place, Pending
  <2>8. QED
    BY <1>3, <2>2, <2>3, <2>7
<1>8. ASSUME NEW w \in Writers, Disconnect(w) \/ Crash(w) PROVE FInv'
  <2>1. /\ pc' = [pc EXCEPT ![w] = "off"] /\ session' = [session EXCEPT ![w] = NoSession]
        /\ UNCHANGED <<clock, count, data, index, saved, readerVars>>
    BY <1>8 DEF Disconnect, Crash, Forget, Go
  <2>2. Shown' /\ pc'[w] = "off" /\ session'[w] = NoSession
    BY <1>1, <1>5, <2>1 DEF Phases, Pending
  <2>3. Place(w)'
    BY <2>2 DEF Place, Pending
  <2>4. QED
    BY <1>3, <2>1, <2>2, <2>3
\* A new manifest, written by w, and what it does next.
<1>9. ASSUME NEW w \in Writers, NEW rows \in SUBSET Rows, WriteManifest(rows),
             NEW c \in {"inserting", "deleting"}, pc' = [pc EXCEPT ![w] = c], pc[w] # "off",
             c = "deleting" => doomed'[w] = index,
             Needed \subseteq IdsOf(rows), \A r \in rows : Live(r) \/ r \in AllRows(index),
             \A r \in rows : r.number <= count,
             UNCHANGED <<clock, data, saved, known, session, readerVars>>
      PROVE  FInv'
  <2>1. pc'[w] = c /\ \A v \in Writers : pc'[v] \notin Pending
    BY <1>4, <1>9 DEF Phases, Pending
  <2>2. /\ Shown' /\ Needed' \subseteq Needed
        /\ \E m \in Manifests(index)' :
              /\ m \notin index /\ \A n \in Manifests(index)' : n.time <= m.time
              /\ Needed' \subseteq IdsOf(m.rows)
    BY <1>1, <1>9, <2>1, ManifestShows
  <2>3. c = "deleting" => Replaces(w)'
    BY <1>9, <2>2 DEF Replaces
  <2>4. Place(w)'
    BY <1>2, <1>9, <2>1, <2>2, <2>3 DEF Place, SessionFiles, Pending
  <2>5. QED
    BY <1>3, <1>9, <2>2, <2>4
\* The data themselves hold what is needed.
<1>10. /\ OnePerId(DataRows) \in SUBSET Rows
       /\ \A r \in OnePerId(DataRows) : Live(r) /\ r.number <= count
       /\ Needed \subseteq IdsOf(OnePerId(DataRows))
  <2>1. DataRows \in SUBSET Rows
    BY <1>1, DataRowsTyped DEF TypeOK
  <2>2. OnePerId(DataRows) \subseteq DataRows
    BY OnePerIdPicks, <2>1 DEF OnePerId, IdsOf
  <2>3. \A r \in DataRows : Live(r) /\ r.number <= count
    BY <1>1, DataLive DEF DataRows, IInv, Numbered
  <2>4. ASSUME NEW t \in Needed PROVE t \in IdsOf(DataRows)
    <3>1. \E d \in data : t \in d.ids
      BY <1>1 DEF Needed, Shown, Backed, IInv, Kept
    <3>2. QED
      BY <3>1, DataIds
  <2>5. QED
    BY <2>1, <2>2, <2>3, <2>4, OnePerIdIds
<1>11. ASSUME NEW w \in Writers, BeginInsert(w) PROVE FInv'
  <2>1. /\ pc[w] = "open" /\ pc' = [pc EXCEPT ![w] = "inserting"]
        /\ UNCHANGED <<clock, data, known, session, saved, readerVars>>
    BY <1>11 DEF BeginInsert, Go
  <2>2. CASE UNCHANGED <<count, index>>
    BY <1>6, <2>1, <2>2
  <2>3. CASE WriteManifest(OnePerId(DataRows))
    BY <1>9, <1>10, <2>1, <2>3
  <2>4. QED
    BY <1>11, <2>2, <2>3 DEF BeginInsert
<1>12. ASSUME NEW w \in Writers, Rebuild(w) PROVE FInv'
  <2>1. /\ pc[w] = "rebuilding" /\ doomed'[w] = index
        /\ UNCHANGED <<clock, data, known, session, saved, readerVars>>
    BY <1>2, <1>12 DEF Rebuild, Place
  <2>2. CASE UNCHANGED <<count, index>> /\ Go(w, "open")
    BY <1>6, <2>1, <2>2 DEF Go
  <2>3. CASE WriteManifest(RebuiltRows(DataRows)) /\ Go(w, "deleting")
    BY <1>9, <1>10, <2>1, <2>3 DEF Go, RebuiltRows
  <2>4. QED
    BY <1>12, <2>2, <2>3 DEF Rebuild
<1>13. ASSUME NEW w \in Writers, MergeIndex(w) PROVE FInv'
  <2>1. /\ pc[w] = "merging" /\ chosen[w] = Discover(index) /\ doomed[w] = index
        /\ UNCHANGED <<clock, data, known, session, saved, readerVars>>
    BY <1>2, <1>13 DEF MergeIndex, Place
  <2>2. chosen[w] \subseteq index /\ \A f \in chosen[w] : f.time \in 0 .. MaxTime /\ f.rows \subseteq Rows
    BY <1>1, <2>1, IndexFacts
  <2>3. /\ WriteManifest(MergedRows(chosen[w])) /\ doomed'[w] = index
        /\ pc' = [pc EXCEPT ![w] = "deleting"]
    BY <1>13, <2>1, <2>2 DEF MergeIndex, Go
  <2>4. Needed \subseteq IdsOf(MergedRows(chosen[w]))
    BY <1>1, <2>1, <2>2, MergedIds DEF Shown, Seen
  <2>5. MergedRows(chosen[w]) \subseteq AllRows(chosen[w])
    BY <2>2, MergedIds
  <2>6. MergedRows(chosen[w]) \subseteq AllRows(index)
    BY <1>1, <2>1, <2>5, IndexFacts
  <2>7. \A r \in MergedRows(chosen[w]) : r.number <= count
    BY <1>1, <2>6 DEF Shown, RowsNumbered
  <2>8. MergedRows(chosen[w]) \in SUBSET Rows
    BY <1>1, <2>6, IndexFacts
  <2>9. QED
    BY <1>9, <2>1, <2>3, <2>4, <2>6, <2>7, <2>8
<1>14. ASSUME NEW w \in Writers, WriteData(w) PROVE FInv'
  <2>1. PICK t \in Transcripts \ known[w], d \in data' :
          /\ d = [number |-> count + 1, session |-> session[w], time |-> clock, ids |-> {t}]
          /\ data' = data \cup {d} /\ file' = [file EXCEPT ![w] = d]
          /\ known' = [known EXCEPT ![w] = @ \cup {t}]
    BY <1>14 DEF WriteData
  <2>2. d.number = count + 1 /\ d.session = session[w] /\ d.time = clock /\ d.ids = {t}
    BY <2>1
  <2>3. /\ pc' = [pc EXCEPT ![w] = "written"] /\ count' = count + 1
        /\ pc[w] = "inserting" /\ UNCHANGED <<clock, index, session, saved, readerVars>>
    BY <1>14 DEF WriteData, Go, NewNumber
  <2>4. /\ pc'[w] = "written" /\ file'[w] = d /\ known'[w] = known[w] \cup {t}
        /\ session'[w] = session[w]
    BY <1>1, <2>1, <2>3
  <2>5. Shown' /\ Lost' \subseteq Lost
    BY <1>1, <2>1, <2>2, <2>3, <2>4, NamingShows DEF IInv
  <2>6. Needed \subseteq known[w]
    BY <1>2, <2>3 DEF Place
  <2>7. t \notin saved /\ t \notin Lost
    BY <2>1, <2>6 DEF Needed
  <2>8. Needed' \subseteq known'[w] /\ Needed' \subseteq Needed
    BY <2>3, <2>4, <2>5, <2>6 DEF Needed
  <2>9. session[w] # NoSession =>
           \A e \in SessionFiles(w)' : e.ids \subseteq known'[w] /\ e.ids \cap saved' = {}
    BY <1>2, <2>1, <2>2, <2>3, <2>4, <2>7 DEF Place, SessionFiles
  <2>10. \A m \in Manifests(index)' : m.time <= file'[w].time
    BY <1>1, <2>2, <2>3, <2>4 DEF Shown, ManifestsApart
  <2>11. Place(w)'
    BY <2>2, <2>4, <2>5, <2>7, <2>8, <2>9, <2>10 DEF Place
  <2>12. QED
    BY <1>3, <2>3, <2>5, <2>11
<1>15. ASSUME NEW w \in Writers, WriteCompacted(w) PROVE FInv'
  <2>1. PICK d \in data' :
          /\ d = [number |-> count + 1, session |-> NoSession, time |-> clock,
                  ids |-> UNION {e.ids : e \in SessionFiles(w)}]
          /\ data' = data \cup {d} /\ file' = [file EXCEPT ![w] = d]
    BY <1>15 DEF WriteCompacted
  <2>2. d.number = count + 1 /\ d.session = NoSession /\ d.time = clock
    BY <2>1
  <2>3. /\ pc' = [pc EXCEPT ![w] = "compacted"] /\ count' = count + 1
        /\ pc[w] = "compacting" /\ UNCHANGED <<clock, index, known, session, saved, readerVars>>
    BY <1>15 DEF WriteCompacted, Go, NewNumber
  <2>4. pc'[w] = "compacted" /\ file'[w] = d
    BY <1>1, <2>1, <2>3
  <2>5. Shown' /\ Lost' \subseteq Lost
    BY <1>1, <2>1, <2>2, <2>3, <2>4, NamingShows DEF IInv
  <2>6. Needed' \subseteq Needed
    BY <2>3, <2>5 DEF Needed
  <2>7. session[w] # NoSession => SessionFiles(w)' = SessionFiles(w)
    BY <2>1, <2>2, <2>3 DEF SessionFiles
  <2>8. \A m \in Manifests(index)' : m.time <= file'[w].time
    BY <1>1, <2>2, <2>3, <2>4 DEF Shown, ManifestsApart
  <2>9. Place(w)'
    BY <1>2, <2>3, <2>4, <2>6, <2>7, <2>8 DEF Place
  <2>10. QED
    BY <1>3, <2>3, <2>5, <2>9
\* The parquet file that w has named gets its index file.
<1>16. ASSUME NEW w \in Writers, WriteIndex(w), pc[w] \in Pending, UNCHANGED <<clock, data>>,
              NEW c \in {"open", "tidying"}, pc' = [pc EXCEPT ![w] = c]
       PROVE  /\ Lost' \subseteq Lost /\ Backed' /\ RowsNumbered' /\ ManifestsApart'
              /\ IdsOf(AllRows(Discover(index))) \subseteq IdsOf(AllRows(Discover(index)))'
              /\ file[w].session = NoSession =>
                    \E f \in Discover(index)' : file[w].ids \subseteq IdsOf(f.rows)
              /\ pc'[w] = c
  <2>1. pc'[w] = c /\ \A v \in Writers : pc'[v] \notin Pending
    BY <1>4, <1>16 DEF Phases, Pending
  <2>2. file[w] \in data /\ \A m \in Manifests(index) : m.time <= file[w].time
    BY <1>2, <1>16 DEF FilesFit, Place, Pending
  <2>3. file[w].number <= count
    BY <1>1, <2>2 DEF IInv, Numbered
  <2>4. QED
    BY <1>1, <1>16, <2>1, <2>2, <2>3, IndexShows
<1>17. ASSUME NEW w \in Writers, AppendIndex(w) PROVE FInv'
  <2>1. /\ pc[w] = "written" /\ WriteIndex(w) /\ pc' = [pc EXCEPT ![w] = "open"]
        /\ UNCHANGED <<clock, data, known, session, readerVars>>
        /\ saved' = IF file[w].session = NoSession THEN saved \cup file[w].ids ELSE saved
    BY <1>17 DEF AppendIndex, Go
  <2>2. /\ Lost' \subseteq Lost /\ Backed' /\ RowsNumbered' /\ ManifestsApart'
        /\ IdsOf(AllRows(Discover(index))) \subseteq IdsOf(AllRows(Discover(index)))'
        /\ file[w].session = NoSession =>
              \E f \in Discover(index)' : file[w].ids \subseteq IdsOf(f.rows)
        /\ pc'[w] = "open"
    BY <1>16, <2>1 DEF Pending
  <2>3. /\ file[w].ids \subseteq known[w] /\ Needed \subseteq known[w]
        /\ file[w].session = session[w]
        /\ session[w] = NoSession => file[w].ids \cap Lost = {}
    BY <1>2, <2>1 DEF Place, FilesFit
  <2>4. Needed' \subseteq Needed \cup file[w].ids
        /\ (file[w].session # NoSession => Needed' \subseteq Needed)
    BY <2>1, <2>2 DEF Needed
  <2>5. Seen'
    <3>1. Needed \subseteq IdsOf(AllRows(Discover(index)))'
      BY <1>1, <2>2 DEF Shown, Seen
    <3>2. file[w].session = NoSession => file[w].ids \subseteq IdsOf(AllRows(Discover(index)))'
      BY <2>2 DEF AllRows, IdsOf
    <3>3. QED
      BY <2>4, <3>1, <3>2 DEF Seen
  <2>6. Sound'
    BY <1>1, <2>1, <2>2, <2>3 DEF Shown, Sound
  <2>7. Place(w)'
    BY <1>2, <2>1, <2>2, <2>3, <2>4 DEF Place, SessionFiles, Pending
  <2>8. QED
    BY <1>3, <2>1, <2>2, <2>5, <2>6, <2>7 DEF Shown
<1>18. ASSUME NEW w \in Writers, IndexCompacted(w) PROVE FInv'
  <2>1. /\ pc[w] = "compacted" /\ WriteIndex(w) /\ pc' = [pc EXCEPT ![w] = "tidying"]
        /\ UNCHANGED <<clock, data, known, session, file, saved, readerVars>>
    BY <1>18 DEF IndexCompacted, Go
  <2>2. /\ Lost' \subseteq Lost /\ Backed' /\ RowsNumbered' /\ ManifestsApart'
        /\ IdsOf(AllRows(Discover(index))) \subseteq IdsOf(AllRows(Discover(index)))'
        /\ file[w].session = NoSession =>
              \E f \in Discover(index)' : file[w].ids \subseteq IdsOf(f.rows)
        /\ pc'[w] = "tidying"
    BY <1>16, <2>1 DEF Pending
  <2>3. Needed' \subseteq Needed
    BY <2>1, <2>2 DEF Needed
  <2>4. Seen' /\ Sound'
    BY <1>1, <2>1, <2>2, <2>3 DEF Shown, Seen, Sound
  <2>5. Covers(w)'
    BY <1>2, <2>1, <2>2 DEF Covers, FilesFit
  <2>6. Place(w)'
    BY <1>2, <2>1, <2>2, <2>3, <2>5 DEF Place, SessionFiles, Pending
  <2>7. QED
    BY <1>3, <2>1, <2>2, <2>4, <2>6 DEF Shown
\* A file that could not be indexed is taken back: no row is of it.
<1>19. ASSUME NEW w \in Writers, pc[w] \in Pending, data' = data \ {file[w]},
              NEW c \in {"open", "discovering"}, pc' = [pc EXCEPT ![w] = c],
              UNCHANGED <<clock, count, index, known, session, saved, readerVars>>
       PROVE  FInv'
  <2>1. pc'[w] = c /\ \A v \in Writers : pc'[v] \notin Pending
    BY <1>4, <1>19 DEF Phases, Pending
  <2>2. Lost' \subseteq Lost
    <3>1. \A r \in AllRows(index) : \A d \in {file[w]} : r.number # d.number
      BY <1>1, <1>19 DEF Shown, RowsNumbered
    <3>2. data \ data' \subseteq {file[w]} /\ index' = index
      BY <1>19
    <3>3. QED
      BY <3>1, <3>2, LostByDeletion
  <2>3. Needed' \subseteq Needed
    BY <1>19, <2>2 DEF Needed
  <2>4. Seen' /\ Sound'
    BY <1>1, <1>19, <2>2, <2>3 DEF Shown, Seen, Sound
  <2>5. Backed'
    BY <1>1, <1>19, <2>1, <2>2 DEF Shown, Backed, Settled, Pending
  <2>6. RowsNumbered' /\ ManifestsApart'
    BY <1>1, <1>19, <2>1 DEF Shown, RowsNumbered, ManifestsApart
  <2>7. Place(w)'
    BY <1>2, <1>19, <2>1, <2>3 DEF Place, SessionFiles, Pending
  <2>8. QED
    BY <1>3, <1>19, <2>4, <2>5, <2>6, <2>7 DEF Shown
<1>20. ASSUME NEW w \in Writers, FailIndex(w) PROVE FInv'
  BY <1>19, <1>20 DEF FailIndex, Go, Pending
<1>21. ASSUME NEW w \in Writers, SkipCompaction(w) PROVE FInv'
  <2>1. CASE pc[w] = "compacted"
    BY <1>19, <1>21, <2>1 DEF SkipCompaction, Go, Pending
  <2>2. CASE pc[w] # "compacted"
    <3>1. PICK c \in {"open", "discovering"} : pc' = [pc EXCEPT ![w] = c]
      BY <1>21 DEF SkipCompaction, Go
    <3>2. /\ pc[w] # "off" /\ UNCHANGED <<clock, count, data, index, saved, known, session, readerVars>>
      BY <1>21, <2>2 DEF SkipCompaction
    <3>3. QED
      BY <1>6, <3>1, <3>2
  <2>3. QED
    BY <2>1, <2>2
<1>22. ASSUME NEW w \in Writers, Commit(w) PROVE FInv'
  <2>1. PICK c \in {"compacting", "discovering"} : pc' = [pc EXCEPT ![w] = c]
    BY <1>22 DEF Commit, Go
  <2>2. QED
    BY <1>6, <1>22, <2>1 DEF Commit
\* What a session's file held is in the compacted file, which is seen.
<1>23. ASSUME NEW w \in Writers, DeleteSessionFile(w) PROVE FInv'
  <2>1. PICK d \in SessionFiles(w) :
          /\ data' = data \ {d}
          /\ \/ pc' = [pc EXCEPT ![w] = "discovering"]
             \/ UNCHANGED <<pc, file>>
    BY <1>23 DEF DeleteSessionFile, Go
  <2>2. /\ pc[w] = "tidying"
        /\ UNCHANGED <<clock, count, index, known, session, saved, readerVars>>
    BY <1>23 DEF DeleteSessionFile
  <2>3. /\ file[w] \in data /\ file[w].session = NoSession /\ session[w] # NoSession
        /\ d.session = session[w] /\ d.ids \subseteq file[w].ids
        /\ d.ids \subseteq known[w] /\ d.ids \cap saved = {} /\ Covers(w)
    BY <1>2, <2>1, <2>2 DEF FilesFit, SessionFiles, Place
  <2>4. /\ pc'[w] \in {"discovering", "tidying"} /\ \A v \in Writers : pc'[v] \notin Pending
        /\ pc'[w] = "tidying" => file'[w] = file[w]
    BY <1>1, <2>1, <2>2 DEF OneWriter, Pending
  <2>5. Lost' \subseteq Lost \cup d.ids
    <3>1. \A r \in AllRows(index) : Live(r) => Live(r)' \/ r.id \in d.ids
      BY <2>1 DEF Live
    <3>2. QED
      BY <2>2, <3>1 DEF Lost
  <2>6. Needed' \subseteq Needed \cup d.ids
    BY <2>2, <2>5 DEF Needed
  <2>7. Seen'
    <3>1. d.ids \subseteq IdsOf(AllRows(Discover(index)))
      BY <2>3 DEF Covers, AllRows, IdsOf
    <3>2. QED
      BY <1>1, <2>2, <2>6, <3>1 DEF Shown, Seen
  <2>8. Sound'
    BY <1>1, <2>2, <2>3, <2>5 DEF Shown, Sound
  <2>9. Backed'
    <3>1. \A e \in data' : Settled(e)'
      BY <2>4 DEF Settled, Pending
    <3>2. file[w] \in data'
      BY <2>1, <2>3
    <3>3. \A t \in Lost : \E e \in data' : t \in e.ids /\ e.session = NoSession
      BY <1>1, <2>1, <2>3 DEF Shown, Backed
    <3>4. \A t \in d.ids : \E e \in data' : t \in e.ids /\ e.session = NoSession
      BY <2>3, <3>2
    <3>5. QED
      BY <2>5, <3>1, <3>3, <3>4 DEF Backed
  <2>10. RowsNumbered' /\ ManifestsApart'
    BY <1>1, <2>2, <2>4 DEF Shown, RowsNumbered, ManifestsApart
  <2>11. pc'[w] = "tidying" => Covers(w)'
    BY <2>2, <2>3, <2>4 DEF Covers
  <2>12. Needed' \subseteq known[w]
    BY <1>2, <2>2, <2>3, <2>6 DEF Place
  <2>13. Place(w)'
    BY <1>2, <2>1, <2>2, <2>4, <2>11, <2>12 DEF Place, SessionFiles, Pending
  <2>14. QED
    BY <1>3, <2>2, <2>7, <2>8, <2>9, <2>10, <2>13 DEF Shown
<1>24. ASSUME NEW w \in Writers, DiscoverIndex(w) \/ ListIndex(w) \/ BeginRebuild(w) PROVE FInv'
  <2>1. PICK c \in {"listing", "open", "merging", "rebuilding"} :
          /\ pc' = [pc EXCEPT ![w] = c]
          /\ c = "listing" => chosen' = [chosen EXCEPT ![w] = Discover(index)]
          /\ c = "merging" => chosen' = chosen /\ pc[w] = "listing"
          /\ c \in {"merging", "rebuilding"} => doomed' = [doomed EXCEPT ![w] = index]
    BY <1>24 DEF DiscoverIndex, ListIndex, BeginRebuild, Go
  <2>2. /\ pc[w] # "off"
        /\ UNCHANGED <<clock, count, data, index, known, session, saved, readerVars>>
    BY <1>24 DEF DiscoverIndex, ListIndex, BeginRebuild
  <2>3. /\ Shown' /\ Lost' = Lost /\ Needed' = Needed /\ pc'[w] = c
        /\ Discover(index)' = Discover(index)
    BY <1>5, <2>1, <2>2 DEF Phases, Pending
  <2>4. /\ c \in {"listing", "merging"} => chosen'[w] = Discover(index)
        /\ c \in {"merging", "rebuilding"} => doomed'[w] = index
    BY <1>1, <1>2, <2>1 DEF Place, Tables
  <2>5. Place(w)'
    BY <1>2, <2>1, <2>2, <2>3, <2>4 DEF Place, SessionFiles, Pending
  <2>6. QED
    BY <1>3, <2>2, <2>3, <2>5
<1>25. ASSUME NEW w \in Writers, DeleteIndexFile(w) PROVE FInv'
  <2>1. CASE Go(w, "open") /\ UNCHANGED <<index, doomed>>
    <3>1. pc[w] # "off" /\ UNCHANGED <<clock, count, data, saved, known, session, readerVars>>
      BY <1>25 DEF DeleteIndexFile
    <3>2. QED
      BY <1>6, <2>1, <3>1 DEF Go
  <2>2. ASSUME NEW f \in doomed[w], index' \in {index, index \ {f}},
               doomed' = [doomed EXCEPT ![w] = @ \ {f}], UNCHANGED pc
        PROVE  FInv'
    <3>1. /\ pc[w] = "deleting" /\ UNCHANGED <<clock, count, data, file, saved, known, session, readerVars>>
      BY <1>25 DEF DeleteIndexFile
    <3>2. PICK m \in Manifests(index) \ doomed[w] :
            /\ \A n \in Manifests(index) : n.time <= m.time
            /\ Needed \subseteq IdsOf(m.rows)
      BY <1>2, <3>1 DEF Place, Replaces
    <3>3. doomed'[w] \subseteq doomed[w] /\ index' \subseteq index /\ m \in index'
      BY <1>1, <2>2, <3>2 DEF Tables, Manifests
    <3>4. m \in Manifests(index') /\ Manifests(index') \subseteq Manifests(index)
      BY <3>2, <3>3 DEF Manifests
    <3>5. m \in Discover(index')
      <4>1. \A g \in index' : g.time \in 0 .. MaxTime
        BY <1>1 DEF TypeOK
      <4>2. \A n \in Manifests(index') : n.time <= m.time /\ (n.time = m.time => n = m)
        BY <1>1, <3>2, <3>4 DEF Shown, ManifestsApart
      <4>3. QED
        BY <3>4, <4>1, <4>2, NewestIsSeen
    <3>6. AllRows(index)' \subseteq AllRows(index)
      BY <3>3 DEF AllRows
    <3>7. Lost' \subseteq Lost
      BY <3>1, <3>6 DEF Lost, Live
    <3>8. Needed' \subseteq Needed
      BY <3>1, <3>7 DEF Needed
    <3>9. Seen' /\ Sound'
      BY <1>1, <3>1, <3>2, <3>5, <3>7, <3>8 DEF Shown, Seen, Sound, AllRows, IdsOf
    <3>10. Backed'
      BY <1>1, <2>2, <3>1, <3>7 DEF Shown, Backed, Settled
    <3>11. RowsNumbered' /\ ManifestsApart'
      BY <1>1, <2>2, <3>1, <3>4, <3>6 DEF Shown, RowsNumbered, ManifestsApart
    <3>12. Replaces(w)'
      BY <3>2, <3>3, <3>4, <3>8 DEF Replaces
    <3>13. Place(w)'
      BY <1>2, <2>2, <3>1, <3>8, <3>12 DEF Place, SessionFiles, Pending
    <3>14. QED
      BY <1>3, <3>1, <3>9, <3>10, <3>11, <3>13 DEF Shown
  <2>3. QED
    BY <1>25, <2>1, <2>2 DEF DeleteIndexFile
\* A reader, and time, leave all of this alone.
<1>26. ASSUME UNCHANGED <<count, data, index, writerVars, saved>>, clock' \in Int, clock <= clock'
       PROVE  Shown' /\ Tables' /\ \A w \in Writers : Place(w)'
  <2>1. UNCHANGED <<pc, known, session, file, chosen, doomed>>
    BY <1>26 DEF writerVars
  <2>2. Lost' = Lost /\ Needed' = Needed
    BY <1>26 DEF Lost, Needed, Live
  <2>3. Seen' /\ Sound' /\ Backed' /\ RowsNumbered'
    BY <1>1, <1>26, <2>1, <2>2 DEF Shown, Seen, Sound, Backed, Settled, RowsNumbered
  <2>4. ManifestsApart'
    <3>1. \A m \in Manifests(index) : m.time \in Int /\ m.time <= clock
      BY <1>1 DEF TypeOK, Manifests, Shown, ManifestsApart
    <3>2. clock \in Int
      BY <1>1 DEF TypeOK
    <3>3. \A m \in Manifests(index) : m.time <= clock'
      BY <1>26, <3>1, <3>2
    <3>4. QED
      BY <1>1, <1>26, <3>3 DEF Shown, ManifestsApart
  <2>5. \A w \in Writers : Place(w)'
    BY <1>2, <1>26, <2>1, <2>2 DEF Place, SessionFiles, Covers, Replaces
  <2>6. QED
    BY <1>1, <2>3, <2>4, <2>5 DEF Shown
<1>27. saved \subseteq IdsOf(AllRows(Discover(index)))
  BY <1>1 DEF Shown, Seen, Needed
<1>28. ASSUME ReadDirectory \/ ReadIndex \/ RetryRead PROVE FInv'
  <2>1. UNCHANGED <<clock, count, data, index, writerVars, saved>>
    BY <1>28 DEF ReadDirectory, ReadIndex, RetryRead
  <2>2. clock' \in Int /\ clock <= clock'
    BY <1>1, <2>1 DEF TypeOK
  <2>3. Listed'
    BY <1>1, <1>27, <1>28, <2>1 DEF ReadDirectory, ReadIndex, RetryRead, Listed
  <2>4. QED
    BY <1>1, <1>26, <2>1, <2>2, <2>3 DEF FInv
<1>29. ASSUME Tick \/ UNCHANGED vars PROVE FInv'
  <2>1. UNCHANGED <<count, data, index, writerVars, saved, readerVars>>
    BY <1>29 DEF Tick, vars, writerVars, readerVars
  <2>2. clock' \in Int /\ clock <= clock'
    BY <1>1, <1>29 DEF Tick, vars, TypeOK
  <2>3. Listed'
    BY <1>1, <2>1 DEF Listed, readerVars
  <2>4. QED
    BY <1>1, <1>26, <2>1, <2>2, <2>3 DEF FInv
<1>30. QED
  BY <1>7, <1>8, <1>11, <1>12, <1>13, <1>14, <1>15, <1>17, <1>18, <1>20, <1>21, <1>22,
     <1>23, <1>24, <1>25, <1>28, <1>29 DEF Next

LEMMA FInvHolds == ASSUME OneWriter PROVE Spec => []FInv
<1>1. FInv /\ [Next]_vars => FInv'
  BY FInvNext
<1>2. QED
  BY <1>1, FInvInit, PTL DEF Spec

\* Of one process at a time that inserts, commits or rebuilds, and may die or
\* fail at every step: what an insert has saved is seen at every moment, at a
\* parquet file that is there and holds it.
THEOREM SavedAreFound == ASSUME OneWriter PROVE Spec => []Findable
<1>1. ASSUME FInv PROVE Findable
  <2>1. SUFFICES ASSUME NEW t \in saved PROVE Found(t)
    BY DEF Findable
  <2>2. TypeOK /\ Shown /\ t \in Transcripts
    BY <1>1 DEF FInv, IInv, Fitting, TypeOK
  <2>3. PICK r \in AllRows(Discover(index)) : r.id = t
    BY <2>2 DEF Shown, Seen, Needed, IdsOf
  <2>4. r \in AllRows(index) /\ index # {}
    BY <2>2, <2>3, IndexFacts DEF AllRows
  <2>5. Live(r)
    BY <2>2, <2>3, <2>4 DEF Shown, Sound, Lost
  <2>6. QED
    BY <2>3, <2>4, <2>5 DEF Found, Visible
<1>2. QED
  BY <1>1, FInvHolds, PTL

\* A reader that races that process gets all that was saved when it began.
THEOREM ReadersMissNothing == ASSUME OneWriter PROVE Spec => []ReaderComplete
<1>1. ASSUME FInv PROVE ReaderComplete
  <2>1. SUFFICES ASSUME reader = "listed", listed \subseteq index PROVE expected \subseteq Reads(listed)
    BY DEF ReaderComplete, Readable
  <2>2. expected \subseteq IdsOf(AllRows(listed))
    BY <1>1, <2>1 DEF FInv, Listed
  <2>3. CASE listed = {}
    BY <2>2, <2>3 DEF AllRows, IdsOf
  <2>4. CASE listed # {}
    <3>1. listed \cap index = listed
      BY <2>1
    <3>2. QED
      BY <2>2, <2>4, <3>1 DEF Reads
  <2>5. QED
    BY <2>3, <2>4
<1>2. QED
  BY <1>1, FInvHolds, PTL
=============================================================================
