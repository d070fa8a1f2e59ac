---------------------------- MODULE ChatMessages ----------------------------
(***************************************************************************)
(* The conversation of a transcript (components/chat): what becomes of the *)
(* messages on the screen, as they come.  Tool messages go to the row of   *)
(* the message before them and from there to the call that they answer;    *)
(* system messages share the first row; texts in sequence are joined and   *)
(* their citations numbered.  Beside the rows stand what the find band     *)
(* searches and what is copied.                                            *)
(***************************************************************************)
EXTENDS Naturals, Sequences, FiniteSets, SequencesExt

CONSTANTS Texts,        \* of a role, contents of messages: sequences of items
          CallLists,    \* calls of an assistant: sequences of [function, args]
          Answers,      \* of tools: [content, error], error NoText if none
          Styles,       \* of tool calls: "complete", "compact", "omit"
          MaxMessages   \* bound, by style

VARIABLES messages,     \* of the transcript
          named,        \* whether they and their calls have identifiers
          rows,         \* resolveMessages of them
          toolCallStyle,
          initialMessageId

vars == <<messages, named, rows, toolCallStyle, initialMessageId>>

NoText == <<>>
End == 0           \* position of a citation that has none
NoId == <<"none", 0>>
NoMessage == [role |-> "none", to |-> <<0, 0>>]
SystemId == <<"sys-message", 0>>

Assumptions ==
  /\ MaxMessages \in [Styles -> Nat] /\ Styles \subseteq {"complete", "compact", "omit"}
  /\ \A r \in DOMAIN Texts : \A c \in Texts[r] : \A i \in DOMAIN c :
       c[i].type \in {"text", "reasoning", "redacted", "tool_use", "image", "document"}

TypeOK ==
  /\ Len(messages) <= MaxMessages[toolCallStyle] /\ Len(rows) <= Len(messages)
  /\ toolCallStyle \in Styles

-----------------------------------------------------------------------------
(* Rows *)

\* resolveMessages.  Messages without identifier get one of their position.
Identified(ms) ==
  [i \in DOMAIN ms |-> IF ms[i].id = NoId THEN [ms[i] EXCEPT !.id = <<"msg", i>>] ELSE ms[i]]
Attach(done, message) ==
  IF message.role # "tool" THEN Append(done, [message |-> message, tools |-> <<>>])
  ELSE IF done = <<>> THEN done
  ELSE [done EXCEPT ![Len(done)].tools = Append(@, message)]
ResolveMessages(ms) ==
  LET all == FoldLeft(Attach, <<>>, Identified(ms))
      system == SelectSeq(all, LAMBDA r : r.message.role = "system")
      content == FlattenSeq([i \in DOMAIN system |-> system[i].message.content])
      others == SelectSeq(all, LAMBDA r : r.message.role # "system")
  IN IF content = <<>> THEN others
     ELSE <<[message |-> [role |-> "system", id |-> SystemId, content |-> content, calls |-> <<>>],
             tools |-> <<>>]>> \o others

\* ChatSummary: from the last message of the user on.
LastTurn(ms) ==
  LET users == {i \in DOMAIN ms : ms[i].role = "user"}
  IN IF users = {} THEN ms ELSE SubSeq(ms, CHOOSE i \in users : \A j \in users : j <= i, Len(ms))

\* initialMessageIndex: 0 if the list opens at its start.
LinkedRow(id) ==
  LET has == {i \in DOMAIN rows : rows[i].message.id = id \/ \E k \in DOMAIN rows[i].tools : rows[i].tools[k].id = id}
  IN IF id = NoId \/ has = {} THEN 0 ELSE CHOOSE i \in has : \A j \in has : i <= j

-----------------------------------------------------------------------------
(* Tool calls *)

\* ChatMessageRow: the answer is found by the identifier of the call, and by the
\* position if it has none.
AnswerTo(row, k) ==
  LET call == row.message.calls[k]
      own == SelectSeq(row.tools, LAMBDA t : t.call = call.id)
  IN IF call.id # NoId THEN IF own = <<>> THEN NoMessage ELSE own[1]
     ELSE IF k \in DOMAIN row.tools THEN row.tools[k] ELSE NoMessage

\* resolveToolMessage
Output(answer) ==
  IF answer = NoMessage THEN <<>>
  ELSE IF answer.error # NoText THEN answer.error
  ELSE SelectSeq(answer.content, LAMBDA c : c.type \in {"text", "image"})

CallsShown(row) == IF toolCallStyle = "omit" \/ row.message.role # "assistant" THEN {} ELSE DOMAIN row.message.calls

\* extractInputMetadata
InputArg(f) ==
  CASE f = "bash" -> "cmd" [] f = "python" -> "code" [] f = "web_search" -> "query"
    [] f \in {"Bash", "shell"} -> "command" [] f = "TodoWrite" -> "todos" [] f = "update_plan" -> "plan"
    [] OTHER -> "none"
DescriptionArg(f) == IF f = "Bash" THEN "description" ELSE "none"

\* extractInput.  What is empty or zero stays among the other arguments.
Given(call, arg) == arg \in DOMAIN call.args /\ call.args[arg] = "some"
ToolInput(call) ==
  LET snipped == {a \in {InputArg(call.function), DescriptionArg(call.function)} : Given(call, a)}
  IN [input |-> snipped \ {DescriptionArg(call.function)},
      description |-> snipped \cap {DescriptionArg(call.function)},
      args |-> DOMAIN call.args \ snipped]

\* ToolOutput, ToolCallViewCompact and AnswerToolCallView: of a call the compact
\* style, and that of an answer, show the heading alone.
PartsOfCall(row, k) ==
  LET call == row.message.calls[k]
      input == ToolInput(call)
  IN {<<"function", call.function>>} \cup {<<"arg", a>> : a \in input.args}
     \cup IF toolCallStyle = "compact" \/ call.function = "answer" THEN {}
          ELSE {<<"arg", a>> : a \in input.input \cup input.description}
               \cup {<<"item", Output(AnswerTo(row, k))[i]>> : i \in DOMAIN Output(AnswerTo(row, k))}

-----------------------------------------------------------------------------
(* Content *)

\* normalizeContent of MessageContent: runs of texts become one.  Each of its
\* citations has the number beside the text and the place in the list below.
Runs(content) ==
  FoldLeft(LAMBDA done, c :
             IF c.type = "text" /\ done # <<>> /\ Last(done)[1].type = "text"
             THEN [done EXCEPT ![Len(done)] = Append(@, c)] ELSE Append(done, <<c>>),
           <<>>, content)
Cites(item) == IF item.type = "text" THEN item.cites ELSE <<>>
Listed(run) == FlattenSeq([i \in DOMAIN run |-> [k \in DOMAIN Cites(run[i]) |-> <<i, k>>]])
Positional(item) == {k \in DOMAIN Cites(item) : Cites(item)[k] # End}
NumberBeside(run, i, k) ==
  LET before == FoldLeft(LAMBDA n, j : n + Len(Cites(run[j])), 0, [j \in 1..(i - 1) |-> j])
      own == Cites(run[i])
  IN IF own[k] = End
     THEN before + Cardinality(Positional(run[i])) + Cardinality({j \in 1..k : own[j] = End})
     ELSE Cardinality({j \in Positional(run[i]) : own[j] <= own[k]})

\* messageRenderers
ShownItems(content) == {<<"item", content[i]>> : i \in DOMAIN content}

PartsShown(row) ==
  ShownItems(row.message.content) \cup UNION {PartsOfCall(row, k) : k \in CallsShown(row)}

-----------------------------------------------------------------------------
(* Searching and copying *)

\* extractContentText of messageSearchText.ts
SearchedItems(content) == {<<"item", content[i]>> : i \in {j \in DOMAIN content : content[j].type \in {"text", "reasoning"}}}
                          \cup {<<"name", content[i]>> : i \in {j \in DOMAIN content : content[j].type = "tool_use"}}

\* messageSearchText
PartsSearched(row) ==
  SearchedItems(row.message.content)
  \cup (IF row.message.role = "assistant"
        THEN {<<"function", row.message.calls[k].function>> : k \in DOMAIN row.message.calls}
             \cup UNION {{<<"arg", a>> : a \in DOMAIN row.message.calls[k].args} : k \in DOMAIN row.message.calls}
        ELSE {})
  \cup UNION {SearchedItems(row.tools[k].content) : k \in DOMAIN row.tools}
  \cup UNION {{<<"item", row.tools[k].error[i]>> : i \in DOMAIN row.tools[k].error} : k \in DOMAIN row.tools}

\* textFromContent and betterContentText
CopiedItems(content, opts) ==
  {<<"item", content[i]>> : i \in {j \in DOMAIN content :
     /\ content[j].type \in {"reasoning", "redacted"} => "reasoning" \notin opts
     /\ content[j].type = "tool_use" => "tools" \notin opts}}

\* messageToStr and messagesToStr; opts is what to leave out.
PartsCopied(opts) ==
  UNION {LET m == messages[i]
             items == CopiedItems(m.content, opts)
         IN CASE m.role = "system" -> IF "system" \in opts THEN {} ELSE items
              [] m.role = "tool" ->
                   IF "tools" \in opts THEN {} ELSE items \cup {<<"item", m.error[k]>> : k \in DOMAIN m.error}
              [] m.role = "assistant" ->
                   items \cup IF "tools" \in opts THEN {}
                              ELSE UNION {{<<"function", m.calls[k].function>>} \cup {<<"arg", a>> : a \in DOMAIN m.calls[k].args}
                                          : k \in DOMAIN m.calls}
              [] m.role = "user" -> items
         : i \in DOMAIN messages}

-----------------------------------------------------------------------------
(* The transcript grows, links are followed *)

Id == IF named THEN <<"id", Len(messages)>> ELSE NoId
Arrives(message) ==
  /\ Len(messages) < MaxMessages[toolCallStyle]
  /\ messages' = Append(messages, message)
  /\ rows' = ResolveMessages(messages')
  /\ UNCHANGED <<named, toolCallStyle, initialMessageId>>

Says(role) ==
  \E c \in Texts[role] : Arrives([role |-> role, id |-> Id, content |-> c, calls |-> <<>>])
Calls ==
  \E c \in Texts["assistant"], calls \in CallLists :
    LET call(k) == IF named THEN <<"call", 10 * Len(messages) + k>> ELSE NoId
    IN Arrives([role |-> "assistant", id |-> Id, content |-> c,
                calls |-> [k \in DOMAIN calls |-> calls[k] @@ [id |-> call(k)]]])

\* Tools run side by side: the calls of the last turn are answered in any order if
\* they have identifiers, else in turn; the user may speak between.
Calling == {i \in DOMAIN messages : messages[i].role = "assistant"}
Answer ==
  \E i \in Calling : \E k \in DOMAIN messages[i].calls, a \in Answers :
    /\ \A j \in Calling : j <= i
    /\ LET given == {messages[j].to : j \in {l \in DOMAIN messages : messages[l].role = "tool"}}
       IN <<i, k>> \notin given /\ (~named => \A l \in 1..(k - 1) : <<i, l>> \in given)
    /\ Arrives([role |-> "tool", id |-> Id, content |-> a.content, error |-> a.error,
                call |-> messages[i].calls[k].id, to |-> <<i, k>>])

\* A reference, or a copied address, names a message (bound: one is followed).
Follow ==
  \E i \in DOMAIN messages :
    /\ initialMessageId = NoId /\ initialMessageId' = Identified(messages)[i].id
    /\ UNCHANGED <<messages, named, rows, toolCallStyle>>

Init ==
  /\ messages = <<>> /\ rows = <<>> /\ initialMessageId = NoId
  /\ toolCallStyle \in Styles /\ named \in BOOLEAN

Next == Says("user") \/ Says("system") \/ Calls \/ Answer \/ Follow
Spec == Init /\ [][Next]_vars

-----------------------------------------------------------------------------
(* Properties *)

\* An answer that comes before anyone else speaks is shown once, at its call.
Prompt(j) == \A l \in (messages[j].to[1] + 1)..j : messages[l].role = "tool"
AnswersAtTheirCalls ==
  toolCallStyle # "omit" =>
    \A j \in DOMAIN messages : messages[j].role = "tool" /\ Prompt(j) =>
      {<<r, k>> \in (DOMAIN rows) \X (1..3) :
         k \in CallsShown(rows[r]) /\ AnswerTo(rows[r], k).to = messages[j].to}
        = {<<CHOOSE r \in DOMAIN rows : rows[r].message = Identified(messages)[messages[j].to[1]], messages[j].to[2]>>}

\* A link to a message that has a row of its own, or stands with it, opens the row.
LinkFindsMessage ==
  LET at == LinkedRow(initialMessageId)
      linked == {i \in DOMAIN messages : Identified(messages)[i].id = initialMessageId}
  IN \A i \in linked : messages[i].role \in {"user", "assistant"} => at > 0 /\ rows[at].message = Identified(messages)[i]

\* The numbers beside the text are those of the list below, where the citations
\* of a text with positions come first, in their order, and in one text only.
Orderly(run) ==
  /\ \A i \in DOMAIN run \ {1} : Positional(run[i]) = {}
  /\ \A k, l \in DOMAIN Cites(run[1]) : k < l /\ Cites(run[1])[l] # End =>
       Cites(run[1])[k] # End /\ Cites(run[1])[k] < Cites(run[1])[l]
CitationsNumbered ==
  \A r \in DOMAIN rows : \A n \in DOMAIN Runs(rows[r].message.content) :
    LET run == Runs(rows[r].message.content)[n]
    IN Orderly(run) =>
         \A p \in DOMAIN Listed(run) : NumberBeside(run, Listed(run)[p][1], Listed(run)[p][2]) = p

\* What a row shows in words can be found and is copied, except the summaries of
\* redacted reasoning and results of the server's tools.
InWords(parts) == {p \in parts : p[1] = "item" => p[2].type \in {"text", "reasoning"}}
ShownIsFound == \A r \in DOMAIN rows : InWords(PartsShown(rows[r])) \subseteq PartsSearched(rows[r])
ShownIsCopied == \A r \in DOMAIN rows : InWords(PartsShown(rows[r])) \subseteq PartsCopied({})

\* No argument of a call is left out or shown twice.
ArgumentsShownOnce ==
  \A i \in Calling : \A k \in DOMAIN messages[i].calls :
    LET call == messages[i].calls[k]
        t == ToolInput(call)
    IN /\ t.input \cup t.description \cup t.args = DOMAIN call.args
       /\ Cardinality(t.input) + Cardinality(t.description) + Cardinality(t.args) = Cardinality(DOMAIN call.args)

\* The last turn is the end of the conversation, with the same answers at the same
\* calls.
LastTurnIsEnd ==
  LET spoken(rs) == SelectSeq(rs, LAMBDA r : r.message.role # "system")
      last == spoken(ResolveMessages(LastTurn(Identified(messages))))
      all == spoken(rows)
  IN Len(last) <= Len(all) /\ last = SubSeq(all, Len(all) - Len(last) + 1, Len(all))

\* A message of the user or the assistant comes below the rows there are, which
\* stay as they were; an answer changes the last one only.
RowsStay ==
  messages' # messages /\ Last(messages').role # "system" =>
    \A r \in DOMAIN rows : r < Len(rows) \/ Last(messages').role # "tool" => rows'[r] = rows[r]
=============================================================================
