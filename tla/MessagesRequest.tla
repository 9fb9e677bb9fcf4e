-------------------------- MODULE MessagesRequest ---------------------------
(***************************************************************************)
(* The conversion of a Responses request for a Messages upstream, and of    *)
(* the whole reply back (adapter.go).  An item of the input is a record     *)
(* with a kind and a stamp `of' that stands for its text; a call and its    *)
(* result share the stamp.  opts is [images, omit]: the model takes images, *)
(* and every image is to be left out.                                       *)
(***************************************************************************)
EXTENDS Naturals, Sequences, SequencesExt, FiniteSetsExt

Text(n)       == [type |-> "text", of |-> n]
Picture(n)    == [type |-> "image", of |-> n]
LeftOut(n)    == [type |-> "omitted", of |-> n]
ToolUse(n, f) == [type |-> "tool_use", of |-> n, name |-> f]
ToolResult(n, inner) == [type |-> "tool_result", of |-> n, inner |-> inner]

\* The elements of s that pass Test, in their order.
Only(s, Test(_)) ==
  FlattenSeq([i \in DOMAIN s |-> IF Test(s[i]) THEN <<s[i]>> ELSE <<>>])

isStateOnlyItem(item) == item.kind = "reasoning"
HasImage(item) == item.kind \in {"user", "result"} /\ item.image # "none"

\* The calls of the input: their results can be paired.
PairedToolCallIDs(input) ==
  {input[i].of : i \in {j \in DOMAIN input : input[j].kind = "call"}}

\* The item whose images are kept: the last one that is no state and no system.
CurrentInput(input) ==
  LET candidates == {i \in DOMAIN input :
                       ~isStateOnlyItem(input[i]) /\ input[i].kind # "system"}
  IN  IF candidates = {} THEN Len(input) ELSE Max(candidates)

\* The text of an item and what becomes of its picture.
convertContentBlocks(item, keep) ==
  <<Text(item.of)>> \o
    (IF ~HasImage(item) THEN <<>>
     ELSE <<IF keep THEN Picture(item.of) ELSE LeftOut(item.of)>>)

Message(role, content) == [role |-> role, content |-> content]

\* A result without its call becomes a text of its own.
convertToolItem(item, paired, keep) ==
  IF item.kind = "call"
  THEN Message("assistant", <<ToolUse(item.of, item.tool.name)>>)
  ELSE LET blocks == convertContentBlocks(item, keep)
       IN  Message("user", IF item.of \in paired THEN <<ToolResult(item.of, blocks)>>
                           ELSE <<Text(item.of)>>)

\* <<>> for an item without a counterpart, <<message>> otherwise.
convertMessageItem(item, paired, keep) ==
  CASE item.kind \in {"call", "result"} -> <<convertToolItem(item, paired, keep)>>
    [] item.kind \in {"user", "assistant", "system"} ->
         <<Message(item.kind, convertContentBlocks(item, keep))>>
    [] OTHER -> <<>>

IsResult(m) == m.content[1].type = "tool_result"

\* Mutant of normalizeToolResultOrder: the order of the input.
orderOfInput(messages) == messages

\* Every result directly after its call.  A result is only made for a call of
\* the same input, so none is left over for the end.
normalizeToolResultOrder(messages) ==
  LET results == Only(messages, IsResult)
      others  == Only(messages, LAMBDA m : ~IsResult(m))
      With(m) == <<m>> \o Only(results, LAMBDA r : /\ m.content[1].type = "tool_use"
                                                   /\ r.content[1].of = m.content[1].of)
  IN  FlattenSeq([i \in DOMAIN others |-> With(others[i])])

inputToMessages(input, opts) ==
  LET Keep(i)  == opts.images /\ ~opts.omit /\ i = CurrentInput(input)
      paired   == PairedToolCallIDs(input)
      messages == [i \in DOMAIN input |-> convertMessageItem(input[i], paired, Keep(i))]
  IN  normalizeToolResultOrder(FlattenSeq(messages))

\* The picture that is kept must be inline, and something must be left to say.
MessagesRefuses(input, opts) ==
  \/ /\ opts.images /\ ~opts.omit
     /\ input # <<>> /\ HasImage(input[CurrentInput(input)])
     /\ input[CurrentInput(input)].image = "remote"
  \/ inputToMessages(input, opts) = <<>>

extractSystem(input) ==
  LET lines == Only(input, LAMBDA item : item.kind = "system")
  IN  [i \in DOMAIN lines |-> lines[i].of]

responsesToMessagesRequest(input, opts) ==
  [system   |-> extractSystem(input),
   messages |-> Only(inputToMessages(input, opts), LAMBDA m : m.role # "system")]

\* Any choice but a tool that is left out; "none" takes the tools away.
applyToolChoice(tools, choice) ==
  [tools  |-> IF choice.kind = "none" THEN <<>> ELSE tools,
   choice |-> IF choice.kind \in {"none", "namespace"} THEN [kind |-> "unset"] ELSE choice]

\* A reply that is not streamed: the calls first, then what was said.  Thinking
\* has no place in it.
convertOutputItems(thought, calls, said) == calls \o said
=============================================================================
