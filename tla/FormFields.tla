------------------------------ MODULE FormFields ------------------------------
(***************************************************************************)
(* The fields of the settings form (FormFields.tsx): the one that edits an *)
(* object as key=value lines, which keeps a text of its own beside the     *)
(* value it reports, and the ones for text, numbers and choices.  A line   *)
(* is <<key, value>>, <<word>> without a "=", or <<>> when it is blank;    *)
(* an object is the sequence of its properties.                            *)
(***************************************************************************)
EXTENDS Integers, Sequences, FiniteSets, SequencesExt

CONSTANTS LineTexts,       \* texts of the field: sequences of lines
          NumberIn,        \* of each value that reads as a number the number
          PathLike,        \* words that begin like a path
          ForeignValues,   \* values the object can have in the file
          Invalid,         \* texts that the field's validation refuses
          PlainTexts, MaxEvents

None == "none"
Assumptions ==
  /\ \A t \in LineTexts : t \in Seq(UNION {ToSet(x) : x \in LineTexts})
  /\ None \notin Invalid /\ Invalid \subseteq PlainTexts /\ MaxEvents \in Nat

VARIABLES value,           \* the object in the edited configuration
          text,            \* the lines on screen
          plain,           \* the value of the text field
          disabled,
          debouncedError,  \* the refused text that the error shown is about, or None
          timer,           \* the refused text whose error is about to be shown, or None
          number, choice,  \* the values of a number field and of a select box
          events

kvVars == <<value, text>>
plainVars == <<plain, disabled, debouncedError, timer>>
vars == <<kvVars, plainVars, number, choice, events>>

Null == [type |-> "null"]
Object(entries) == [type |-> "object", entries |-> entries]
Path(lines) == [type |-> "path", lines |-> lines]
Property(key, kind, val) == [key |-> key, kind |-> kind, val |-> val]

TypeOK ==
  /\ value.type \in {"null", "object", "path"}
  /\ {plain, debouncedError, timer} \subseteq PlainTexts \cup {None}
  /\ disabled \in BOOLEAN /\ number \in Int \cup {-1} /\ events \in 0..MaxEvents

-----------------------------------------------------------------------------
(* Between the object and its lines *)

\* objectToKeyValueLines; a nested object loses what is in it.
Lines(v) ==
  CASE v.type = "null" -> <<>>
    [] v.type = "path" -> v.lines
    [] OTHER -> [i \in DOMAIN v.entries |-> <<v.entries[i].key, v.entries[i].val>>]

Typed(val) == IF val \in DOMAIN NumberIn THEN <<"number", NumberIn[val]>> ELSE <<"string", val>>
\* Assigning to the object: a key that it has keeps its place.
Assign(entries, key, val) ==
  LET p == Property(key, Typed(val)[1], Typed(val)[2])
      at == {i \in DOMAIN entries : entries[i].key = key}
  IN  IF at = {} THEN Append(entries, p)
      ELSE [i \in DOMAIN entries |-> IF i \in at THEN p ELSE entries[i]]
AddLine(entries, line) == IF Len(line) = 2 THEN Assign(entries, line[1], line[2]) ELSE entries
\* parseKeyValueLines
Parsed(lines) ==
  LET written == SelectSeq(lines, LAMBDA l : l # <<>>)
      entries == FoldLeft(AddLine, <<>>, lines)
  IN  IF written = <<>> THEN Null
      ELSE IF written[1][1] \in PathLike THEN Path(lines)
      ELSE IF entries = <<>> THEN Null ELSE Object(entries)

\* The effect on value: the text follows when it no longer says the same.
\* (Faulty variant: it compares the texts.)
FollowText(new, lines) == IF Lines(new) # lines THEN Lines(new) ELSE lines
Followed(new, lines) ==
  IF Parsed(lines) # Parsed(Lines(new)) THEN Lines(new) ELSE lines

Event == events < MaxEvents /\ events' = events + 1

TypeLines(t) ==
  /\ Event /\ t # text /\ value' = Parsed(t) /\ text' = Followed(Parsed(t), t)
  /\ UNCHANGED <<plainVars, number, choice>>
\* The configuration is read again, for one saved elsewhere.
ValueArrives(v) ==
  /\ Event /\ v # value /\ value' = v /\ text' = Followed(v, text)
  /\ UNCHANGED <<plainVars, number, choice>>

-----------------------------------------------------------------------------
(* The other fields *)

ErrorFor(t, off) == IF t \in Invalid /\ ~off THEN t ELSE None
\* The effect on the error's message.  (Faulty variant: only a timer is set.)
OnlyTimer(t, off) ==
  timer' = ErrorFor(t, off) /\ UNCHANGED debouncedError
ErrorChanges(t, off) ==
  IF ErrorFor(t, off) = ErrorFor(plain, disabled) THEN UNCHANGED <<timer, debouncedError>>
  ELSE /\ timer' = ErrorFor(t, off)
       /\ debouncedError' = IF ErrorFor(t, off) = None THEN None ELSE debouncedError
TypeText(t) ==
  /\ Event /\ ~disabled /\ t # plain /\ plain' = t /\ ErrorChanges(t, disabled)
  /\ UNCHANGED <<kvVars, disabled, number, choice>>
\* A field can depend on another one.
Toggle ==
  /\ Event /\ disabled' = ~disabled /\ ErrorChanges(plain, ~disabled)
  /\ UNCHANGED <<kvVars, plain, number, choice>>
OneSecondLater ==
  /\ timer # None /\ debouncedError' = timer /\ timer' = None
  /\ UNCHANGED <<kvVars, plain, disabled, number, choice, events>>

\* What is no number counts as no value.
TypeNumber(n) ==
  /\ Event /\ n # number /\ number' = n /\ UNCHANGED <<kvVars, plainVars, choice>>
\* The first option stands for no value.
Choose(o) ==
  /\ Event /\ o # choice /\ choice' = o /\ UNCHANGED <<kvVars, plainVars, number>>

Init ==
  /\ value \in ForeignValues /\ text = Lines(value)
  /\ plain \in PlainTexts /\ disabled = FALSE
  /\ debouncedError = None /\ timer = ErrorFor(plain, FALSE)
  /\ number = -1 /\ choice = None /\ events = 0

Next ==
  \/ (\E t \in LineTexts : TypeLines(t)) \/ (\E v \in ForeignValues : ValueArrives(v))
  \/ (\E t \in PlainTexts : TypeText(t)) \/ Toggle \/ OneSecondLater
  \/ (\E n \in {-1, 0} : TypeNumber(n)) \/ (\E o \in {None, "auto"} : Choose(o))
Spec == Init /\ [][Next]_vars

-----------------------------------------------------------------------------
(* Properties *)

\* What is being typed is not replaced under the cursor by what it was read as: reading
\* the lines of an object gives the object back.  It is replaced where the object's
\* first key looks like a path and only words came before it (KeyValueField).
PathFirst(v) == v.type = "object" /\ v.entries[1].key \in PathLike
KeepsTyped == \A t \in LineTexts : TypeLines(t) => text' = t \/ PathFirst(value')

\* The text says what is saved, whoever changed it last.
TextSaysValue == Parsed(text) = Parsed(Lines(value))

\* A property whose line was not touched keeps its value.  A truth value, a nested
\* object and a text that reads as a number do not: they come back as texts and
\* numbers (objectToKeyValueLines, parseKeyValueLines).
Stays(p) == p.kind \in {"string", "number"} /\ Typed(p.val) = <<p.kind, p.val>>
KeepsOtherProperties ==
  (\E t \in LineTexts : TypeLines(t)) =>
    ( value.type = "object" /\ value'.type = "object" =>
        \A p \in ToSet(value.entries) :
          ( Stays(p) /\ (\E i \in DOMAIN text' : text'[i] = <<p.key, p.val>>)
              /\ Cardinality({i \in DOMAIN text' : text'[i] # <<>> /\ text'[i][1] = p.key}) = 1 )
          => p \in ToSet(value'.entries) )

\* An error is shown only as long as the field is wrong (the effect on errorMessage).
ErrorOnlyWhileWrong == debouncedError # None => ErrorFor(plain, disabled) # None
=============================================================================
