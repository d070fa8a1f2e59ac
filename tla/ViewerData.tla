----------------------------- MODULE ViewerData -----------------------------
(***************************************************************************)
(* The data that the viewer holds: what it hears of by topic, the settings *)
(* of the project, the cases of a validation set, and the sets.  The parts *)
(* share no state; a behaviour is one of a single part.                    *)
(***************************************************************************)
EXTENDS Naturals

VARIABLE part          \* which part it is

\* The value of a variable that the part does not have.
Unused == "unused"

CONSTANTS Topics, TopicQueries, TopicOf, Polled, MaxChanges, MaxMounts, MaxPolls,
          PlainFields, Vals, InitialSettings, MaxFieldEdits, MaxSaves, MaxForeign,
          Cases, Edited, Splits, LabelSets, InitialCases, MaxEdits, MaxDeletes,
          CaseSets, Matched, InitialSets, MaxSetChanges, MaxTransfers,
          MaxFaults, MaxFailures

VARIABLES disableSSE, content, versions, notifying, stream, wire, seen, cache, announced,
          missed, passedOver, spent,
          scoutYaml, data, dataFetch, notice, edited, original, lastSaved, conflict,
          saves, latest, location, raced, reloaded, used,
          stored, cached, cachedList, fetch, upserts, deletes, typing, heldBack, page,
          watched, made,
          files, sets, setsFetch, list, listFetch, selected, ticked, filtering, change,
          transfer, gone, lost, count

Topic == INSTANCE TopicUpdates WITH Queries <- TopicQueries
Project == INSTANCE ProjectEditing WITH
  InitialFiles <- InitialSettings, Plain <- PlainFields, MaxEdits <- MaxFieldEdits, spent <- used
Case == INSTANCE ValidationEditing WITH InitialFiles <- InitialCases
Set == INSTANCE ValidationSets WITH
  Sets <- CaseSets, Matching <- Matched, InitialFiles <- InitialSets, MaxChanges <- MaxSetChanges

DataAssumptions ==
  Topic!Assumptions /\ Project!Assumptions /\ Case!Assumptions /\ Set!Assumptions

\* The variables of each part, and what they are in the others.
topicVars == <<disableSSE, content, versions, notifying, stream, wire, seen, cache, announced,
               missed, passedOver, spent>>
projectVars == <<scoutYaml, data, dataFetch, notice, edited, original, lastSaved, conflict,
                 saves, latest, location, raced, reloaded, used>>
caseVars == <<stored, cached, cachedList, fetch, upserts, deletes, typing, heldBack, page,
              watched, made>>
setVars == <<files, sets, setsFetch, list, listFetch, selected, ticked, filtering, change,
             transfer, gone, lost, count>>
DataVars == <<part, topicVars, projectVars, caseVars, setVars>>

TopicUnused ==
  /\ disableSSE = Unused /\ content = Unused /\ versions = Unused
  /\ notifying = Unused /\ stream = Unused /\ wire = Unused /\ seen = Unused
  /\ cache = Unused /\ announced = Unused /\ missed = Unused
  /\ passedOver = Unused /\ spent = Unused
ProjectUnused ==
  /\ scoutYaml = Unused /\ data = Unused /\ dataFetch = Unused
  /\ notice = Unused /\ edited = Unused /\ original = Unused
  /\ lastSaved = Unused /\ conflict = Unused /\ saves = Unused
  /\ latest = Unused /\ location = Unused /\ raced = Unused
  /\ reloaded = Unused /\ used = Unused
CaseUnused ==
  /\ stored = Unused /\ cached = Unused /\ cachedList = Unused
  /\ fetch = Unused /\ upserts = Unused /\ deletes = Unused /\ typing = Unused
  /\ heldBack = Unused /\ page = Unused /\ watched = Unused /\ made = Unused
SetUnused ==
  /\ files = Unused /\ sets = Unused /\ setsFetch = Unused /\ list = Unused
  /\ listFetch = Unused /\ selected = Unused /\ ticked = Unused
  /\ filtering = Unused /\ change = Unused /\ transfer = Unused
  /\ gone = Unused /\ lost = Unused /\ count = Unused
DataUnused == TopicUnused /\ ProjectUnused /\ CaseUnused /\ SetUnused

DataInit ==
  \/ part = "topic" /\ Topic!Init /\ ProjectUnused /\ CaseUnused /\ SetUnused
  \/ part = "project" /\ Project!Init /\ TopicUnused /\ CaseUnused /\ SetUnused
  \/ part = "case" /\ Case!Init /\ TopicUnused /\ ProjectUnused /\ SetUnused
  \/ part = "set" /\ Set!Init /\ TopicUnused /\ ProjectUnused /\ CaseUnused

DataNext ==
  /\ UNCHANGED part
  /\ \/ part = "topic" /\ Topic!Next /\ UNCHANGED <<projectVars, caseVars, setVars>>
     \/ part = "project" /\ Project!Next /\ UNCHANGED <<topicVars, caseVars, setVars>>
     \/ part = "case" /\ Case!Next /\ UNCHANGED <<topicVars, projectVars, setVars>>
     \/ part = "set" /\ Set!Next /\ UNCHANGED <<topicVars, projectVars, caseVars>>

DataSpec == DataInit /\ [][DataNext]_DataVars

-----------------------------------------------------------------------------
(* Properties *)

\* Once everything is answered, the pages show what the server holds: the
\* cases (useValidations.ts), the files and their cases (ValidationPanel.tsx),
\* the settings and what they are compared with (ProjectPanel.tsx), and what a
\* topic was announced for (useTopicInvalidation.ts).
PagesConverge ==
  /\ part = "topic" => Topic!FreshWhenSeen
  /\ part = "topic" => Topic!MarkedIsAsked
  /\ part = "topic" => Topic!StreamSentAll
  /\ part = "project" => Project!DataConverges
  /\ part = "project" => Project!OriginalIsData
  /\ part = "case" => Case!ListConverges
  /\ part = "case" => Case!EditorConverges
  /\ part = "set" => Set!ListsConverge

\* No update of a case is refused for its kind (handleFieldChange), and a move
\* whose copies succeeded loses no case (handleSubmit).
CasesKept ==
  /\ part = "case" => Case!UpdatesHaveOneKind
  /\ part = "set" => Set!FullMoveKeepsCases

\* A save that is not forced changes what the user changed
\* (put_project_config), and no answer puts an older content in the place of a
\* newer one (the query cache).
NoLostUpdate ==
  [][ /\ part = "topic" => Topic!NeverOlder
      /\ part = "project" => Project!KeepsOthersFields ]_DataVars
=============================================================================
