---------------------------- MODULE StateChanges ----------------------------
(***************************************************************************)
(* An event that the state (or the store) changed, as the transcript shows *)
(* it (components/transcript/state): two objects are made of the changes   *)
(* and compared, a preview is looked for that knows how to show them, and  *)
(* where there is none the event collapses when it is drawn.               *)
(*                                                                         *)
(* An object is a function of its paths to what is there: "object",        *)
(* "array" or a value.  The path <<>> is the object itself.                *)
(***************************************************************************)
EXTENDS Naturals, Sequences, FiniteSets, SequencesExt

CONSTANTS Changes,      \* sets of changes that may come together
          Indexes,      \* keys that are numbers: [key -> number], a function
          MaxChanges,   \* bound
          MaxInputs     \* bound: scrolls and clicks

VARIABLES pool,         \* the changes there may be
          changes,      \* event.changes, a sequence
          isStore,
          drawn,        \* the event is in the window of the list
          collapsed,    \* of the event: Unset, 1 (yes) or 0 (no)
          asked,        \* what the user last asked for, or Unset (no state of the code)
          inputs

vars == <<pool, changes, isStore, drawn, collapsed, asked, inputs>>

Unset == 2
Objects == {"object", "array"}
Empty == [p \in {<<>>} |-> "object"]
NoObject == [p \in {} |-> "object"]     \* where the code throws

Assumptions == {MaxChanges, MaxInputs} \subseteq Nat

-----------------------------------------------------------------------------
(* Objects *)

IsArrayIndex(key) == key \in DOMAIN Indexes
Below(path, p) == Len(p) > Len(path) /\ SubSeq(p, 1, Len(path)) = path

\* An assignment replaces what was below.
Assign(tree, path, value) ==
  [p \in {q \in DOMAIN tree : ~Below(path, q)} \cup {path} |-> IF p = path THEN value ELSE tree[p]]

\* One step into the object: [tree, at].  A value that is no object cannot be
\* looked into ("in" throws), nor be given a key.
Dead == [tree |-> NoObject, at |-> <<>>]
Enter(place, key, value) ==
  IF place.tree = NoObject \/ place.tree[place.at] \notin Objects THEN Dead
  ELSE [tree |-> Assign(place.tree, Append(place.at, key), value), at |-> Append(place.at, key)]

\* setPath: the walk goes into a key that it has just made, and stays where it is
\* at one that is there.
SetPath(tree, keys, value) ==
  LET container(i) == IF IsArrayIndex(keys[i + 1]) THEN "array" ELSE "object"
      step(place, i) ==
        IF i = Len(keys) THEN Enter(place, keys[i], value)
        ELSE IF place.tree # NoObject /\ Append(place.at, keys[i]) \in DOMAIN place.tree THEN place
        ELSE Enter(place, keys[i], container(i))
  IN FoldLeft(step, [tree |-> tree, at |-> <<>>], [i \in DOMAIN keys |-> i]).tree

\* initializeArray and initializeObject: the part of a path before its last key is
\* made, arrays are filled up to the index.
Filled(tree, at, key) ==
  LET missing == {k \in DOMAIN Indexes : Indexes[k] < Indexes[key] /\ Append(at, k) \notin DOMAIN tree}
  IN [p \in DOMAIN tree \cup {Append(at, k) : k \in missing} |-> IF p \in DOMAIN tree THEN tree[p] ELSE ""]
InitializeArrays(tree, keys) ==
  LET step(place, i) ==
        LET at == Append(place.at, keys[i])
            has == place.tree # NoObject /\ at \in DOMAIN place.tree
            made(container) == IF has /\ place.tree[at] = container THEN [place EXCEPT !.at = at]
                               ELSE Enter(place, keys[i], container)
        IN IF IsArrayIndex(keys[i + 1])
           THEN LET array == made("array")
                IN IF array = Dead THEN Dead ELSE [array EXCEPT !.tree = Filled(@, array.at, keys[i + 1])]
           ELSE IF has THEN [place EXCEPT !.at = at] ELSE made("object")
  IN FoldLeft(step, [tree |-> tree, at |-> <<>>], [i \in 1..(Len(keys) - 1) |-> i]).tree

\* synthesizeComparable
Sets(side, c) ==
  CASE c.op = "add" -> side = "after" [] c.op = "remove" -> side = "before" [] OTHER -> c.op # "test"
Where(side, c) == IF c.op = "move" /\ side = "before" THEN c.from ELSE c.path
Given(side, c) == IF c.op = "replace" /\ side = "before" THEN c.replaced ELSE c.value
Synthesize(side, list) ==
  LET step(tree, c) ==
        LET made == IF c.op \in {"add", "replace"} THEN InitializeArrays(tree, c.path) ELSE tree
        IN IF tree # NoObject /\ Sets(side, c) THEN SetPath(made, Where(side, c), Given(side, c)) ELSE made
  IN FoldLeft(step, Empty, list)

\* StateEventView: if one of the two fails, both are empty.
Comparables == [side \in {"before", "after"} |-> Synthesize(side, changes)]
Fails == NoObject \in Range(Comparables)
Compared ==
  LET sides == Comparables
  IN IF NoObject \in Range(sides) THEN [side \in {"before", "after"} |-> Empty] ELSE sides
Before == Compared["before"]
After == Compared["after"]

\* StateDiffView: the paths at which the two differ.
Diff == {p \in DOMAIN Before \cup DOMAIN After :
           ~(p \in DOMAIN Before \cap DOMAIN After /\ Before[p] = After[p])}

-----------------------------------------------------------------------------
(* Previews *)

\* A signature is looked for anywhere in a path; those of a state begin with it.
Signature(op, path) == [op |-> op, path |-> path]
Signatures ==
  [system_message |-> {Signature("remove", <<"messages", "0", "source">>), Signature("replace", <<"messages", "0", "role">>),
                       Signature("replace", <<"messages", "0", "content">>), Signature("add", <<"messages", "1">>)},
   use_tools |-> {Signature("add", <<"tools", "0">>), Signature("replace", <<"tool_choice">>)},
   add_tools |-> {Signature("add", <<"tools", "#">>)},
   human_baseline_session |-> {Signature("add", <<"HumanAgentState:logs">>)}]
Matches(c, s) ==
  /\ c.op = s.op /\ Len(c.path) >= Len(s.path)
  /\ \A i \in DOMAIN s.path : IF s.path[i] = "#" THEN IsArrayIndex(c.path[i]) ELSE c.path[i] = s.path[i]
MatchesSignature(name) ==
  Cardinality({<<i, s>> \in (DOMAIN changes) \X Signatures[name] : Matches(changes[i], s)}) = Cardinality(Signatures[name])

\* createMessageRenderer, messages.  No change is a list of messages too.
AddsMessage(c, roles) == Matches(c, Signature("add", <<"messages", "#">>)) /\ c.value \in roles
Matching(name) ==
  CASE name = "assistant_msg" -> Len(changes) = 1 /\ AddsMessage(changes[1], {"assistant"})
    [] name = "user_msg" -> Len(changes) = 1 /\ AddsMessage(changes[1], {"user"})
    [] name = "messages" -> \A i \in DOMAIN changes : AddsMessage(changes[i], {"user", "assistant", "system", "tool"})
    [] OTHER -> MatchesSignature(name)

\* RenderableChangeTypes and generatePreview: the first that matches.
ChangeTypes ==
  <<"system_message", "assistant_msg", "user_msg", "use_tools", "add_tools", "messages">>
  \o IF isStore THEN <<"human_baseline_session">> ELSE <<>>
Preview ==
  LET matching == SelectSeq(ChangeTypes, Matching) IN IF matching = <<>> THEN "none" ELSE matching[1]

\* What a preview draws: messages, or the tools that came.
MessagesDrawn ==
  CASE Preview \in {"assistant_msg", "user_msg", "messages"} -> [i \in DOMAIN changes |-> changes[i].value]
    [] Preview = "system_message" ->
         IF <<"messages", "0">> \in DOMAIN After /\ After[<<"messages", "0">>] \in Objects
         THEN <<After[<<"messages", "0">>]>> ELSE <<>>
    [] OTHER -> <<>>

\* renderTools: the tools at the places that changed, and the choice if it changed.
ToolsDrawn ==
  {k \in DOMAIN Indexes : /\ Preview \in {"use_tools", "add_tools"} /\ <<"tools", k>> \in DOMAIN After
                          /\ \E i \in DOMAIN changes : IsPrefix(<<"tools", k>>, changes[i].path)}
ChoiceDrawn ==
  IF /\ Preview \in {"use_tools", "add_tools"} /\ <<"tool_choice">> \in DOMAIN After
     /\ \E i \in DOMAIN changes : changes[i].path[1] = "tool_choice"
  THEN After[<<"tool_choice">>] ELSE "none"

\* summarizeChanges, shown where there is no preview: paths of up to two changes,
\* of more the number by operation.
Ops == <<"add", "copy", "move", "replace", "remove", "test">>
OfOp(op) == SelectSeq(changes, LAMBDA c : c.op = op)
Summary ==
  [k \in {i \in DOMAIN Ops : OfOp(Ops[i]) # <<>>} |->
     IF Len(changes) > 2 THEN <<Len(OfOp(Ops[k]))>> ELSE [i \in DOMAIN OfOp(Ops[k]) |-> OfOp(Ops[k])[i].path]]

-----------------------------------------------------------------------------
(* The event *)

TypeOK ==
  /\ Len(changes) <= MaxChanges /\ {isStore, drawn} \subseteq BOOLEAN
  /\ {collapsed, asked} \subseteq 0..2

\* The event as it is recorded, before it is shown.
Record ==
  /\ ~drawn /\ inputs = 0 /\ Len(changes) < MaxChanges
  /\ \E c \in pool : ~Contains(changes, c) /\ changes' = Append(changes, c)
  /\ UNCHANGED <<pool, isStore, drawn, collapsed, asked, inputs>>

Input == inputs < MaxInputs /\ inputs' = inputs + 1 /\ UNCHANGED <<pool, changes, isStore>>

\* The effect of the view collapses an event without preview each time it comes
\* into the window.
ScrollIn ==
  /\ Input /\ ~drawn /\ drawn' = TRUE
  /\ collapsed' = IF Preview = "none" THEN 1 ELSE collapsed
  /\ UNCHANGED asked
ScrollOut == Input /\ drawn /\ drawn' = FALSE /\ UNCHANGED <<collapsed, asked>>
Toggle ==
  /\ Input /\ drawn
  /\ collapsed' = IF collapsed = 1 THEN 0 ELSE 1
  /\ asked' = collapsed'
  /\ UNCHANGED drawn

Init ==
  /\ pool \in Changes /\ changes = <<>> /\ isStore \in BOOLEAN
  /\ drawn = FALSE /\ collapsed = Unset /\ asked = Unset /\ inputs = 0

Next == Record \/ ScrollIn \/ ScrollOut \/ Toggle
Spec == Init /\ [][Next]_vars

-----------------------------------------------------------------------------
(* Properties *)

\* A change is in the comparison, under its last key, unless another change has
\* this key in its path too, or ends in a key of this path.
Alone(i) ==
  \A j \in DOMAIN changes \ {i} :
    ~Contains(changes[j].path, Last(changes[i].path)) /\ ~Contains(changes[i].path, Last(changes[j].path))
\* The line of text that stands for the changes names each of them or counts it.
Summarised(c) ==
  \E k \in DOMAIN Summary : Ops[k] = c.op /\ (Len(changes) <= 2 => Contains(Summary[k], c.path))
Holds(tree, key, value) == \E p \in DOMAIN tree : p # <<>> /\ Last(p) = key /\ tree[p] = value
NoChangeHidden ==
  /\ Preview = "none" => \A i \in DOMAIN changes : Summarised(changes[i])
  /\ ~Fails =>
    \A i \in DOMAIN changes : Alone(i) =>
      LET c == changes[i]
      IN /\ c.op \in {"add", "replace"} => Holds(After, Last(c.path), c.value)
         /\ c.op = "replace" => Holds(Before, Last(c.path), c.replaced)
         /\ c.op = "remove" => Holds(Before, Last(c.path), c.value)

\* What did not change is no difference.
CopiesAreEqual == (\A i \in DOMAIN changes : changes[i].op \in {"copy", "test"}) => Diff = {}

\* Messages that were added are all shown, in order, whatever their number.
AddedMessagesShown ==
  (changes # <<>> /\ \A i \in DOMAIN changes : AddsMessage(changes[i], {"user", "assistant", "system", "tool"}))
    => MessagesDrawn = [i \in DOMAIN changes |-> changes[i].value]

\* A preview of tools says which is chosen now, and shows none that did not change.
ToolsAreNew ==
  /\ \A k \in ToolsDrawn : \E i \in DOMAIN changes : changes[i].op # "test" /\ changes[i].path = <<"tools", k>>
  /\ (Preview \in {"use_tools", "add_tools"} /\ ~Fails) =>
       \A i \in DOMAIN changes : changes[i].path = <<"tool_choice">> => ChoiceDrawn = changes[i].value

\* An event with a preview is as the user left it; one without never comes
\* into the window expanded.
CollapsedAsAsked ==
  IF Preview # "none" THEN collapsed = asked
  ELSE drawn /\ asked # 0 => collapsed = 1
=============================================================================
