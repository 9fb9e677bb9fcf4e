------------------------------- MODULE ChatSSE -------------------------------
(***************************************************************************)
(* The converter from a Chat Completions stream to a Responses stream      *)
(* (ChatSSETransformer in adapter_chat.go): its state, and for every chunk *)
(* what it does to that state and to the view of the client.               *)
(*                                                                         *)
(* Text is known by what the search for a leading <think> block makes of   *)
(* it.  One chunk carries at most one tool-call fragment: more of them are *)
(* as many chunks.  Every message and reasoning item has the one part 0.   *)
(***************************************************************************)
EXTENDS FiniteSets, ResponsesClient

CONSTANT Calls    \* the tool_calls indices of the upstream

\* The bound leaves room for an item of each call, the message and the reasoning.
ASSUME ChatAssumption ==
  Calls \subseteq Nat /\ IsFiniteSet(Calls) /\ Cardinality(Calls) + 2 <= MaxItems

ThinkModes == {"detecting", "reasoning", "text"}    \* inlineThinkMode

ChatState ==
  [index : [Calls -> Indices \cup {NoIndex}],    \* toolCalls[c].index
   started : SUBSET Calls,
   dropped : SUBSET Calls,
   outputIndex : Indices \cup {NoIndex},         \* of the message, if textStarted
   reasoning : {"no", "open", "done"},
   reasoningIndex : Indices \cup {NoIndex},
   nextIdx : 0 .. MaxItems,
   inlineThink : ThinkModes,
   buffered : BOOLEAN,            \* inlineThinkBuf has text besides the tag
   finishPending : BOOLEAN, sawFinishReason : BOOLEAN,
   done : BOOLEAN, terminalFailed : BOOLEAN,
   view : View]

NewChat ==
  [index |-> [c \in Calls |-> NoIndex], started |-> {}, dropped |-> {},
   outputIndex |-> NoIndex, reasoning |-> "no", reasoningIndex |-> NoIndex,
   nextIdx |-> 0, inlineThink |-> "detecting", buffered |-> FALSE,
   finishPending |-> FALSE, sawFinishReason |-> FALSE,
   done |-> FALSE, terminalFailed |-> FALSE,
   view |-> NewView]

textStarted(t) == t.outputIndex # NoIndex

-----------------------------------------------------------------------------
(* Reasoning and text *)

PushReasoning(t) ==
  LET i == IF t.reasoning = "no" THEN t.nextIdx ELSE t.reasoningIndex
      v == IF t.reasoning = "no" THEN PartAdded(Announce(t.view, i), i, 0) ELSE t.view
  IN  IF t.reasoning = "done" THEN t
      ELSE [t EXCEPT !.reasoning = "open", !.reasoningIndex = i,
                     !.nextIdx = IF t.reasoning = "no" THEN @ + 1 ELSE @,
                     !.view = TextDelta(v, i, 0)]

FinalizeReasoning(t) ==
  LET i == t.reasoningIndex
  IN  IF t.reasoning # "open" THEN t
      ELSE [t EXCEPT !.reasoning = "done", !.view = Finish(PartDone(@, i, 0), i)]

StartText(t) ==
  LET i == t.nextIdx
  IN  [t EXCEPT !.outputIndex = i, !.nextIdx = @ + 1,
                !.view = PartAdded(Announce(@, i), i, 0)]

\* Mutant of PushText: the reasoning is left open.
PushTextAtOnce(t) ==
  LET s == IF textStarted(t) THEN t ELSE StartText(t)
  IN  [s EXCEPT !.view = TextDelta(@, s.outputIndex, 0)]

PushText(t) ==
  LET s == IF textStarted(t) THEN t ELSE StartText(FinalizeReasoning(t))
  IN  [s EXCEPT !.view = TextDelta(@, s.outputIndex, 0)]

\* What the buffer can turn out to be once more text has arrived: it may still become
\* a tag ("partial"), have an opening tag and nothing behind it ("tag"), an unclosed
\* thought, a closed block that was empty ("hollow"), closed a thought, closed a thought
\* with text behind it ("answered"), or be plain text.
\* A tool call in the same chunk has settled the matter.
Judgements(t, fragment) ==
  CASE fragment # <<>> \/ t.inlineThink = "text" -> {"plain"}
    [] fragment = <<>> /\ t.inlineThink = "detecting" ->
         {"partial", "tag", "thought", "hollow", "closed", "answered", "plain"}
    [] fragment = <<>> /\ t.inlineThink = "reasoning" ->
         {"thought", "closed", "answered"} \cup (IF t.buffered THEN {} ELSE {"hollow"})

PushContent(t, found) ==
  LET text == [t EXCEPT !.inlineThink = "text", !.buffered = FALSE]
      thought == FinalizeReasoning(PushReasoning(text))
  IN  CASE found = "partial" -> [t EXCEPT !.buffered = TRUE]
        [] found = "tag" -> [t EXCEPT !.inlineThink = "reasoning", !.buffered = FALSE]
        [] found = "thought" -> [t EXCEPT !.inlineThink = "reasoning", !.buffered = TRUE]
        [] found = "hollow" -> text
        [] found = "closed" -> thought
        [] found = "answered" -> PushText(thought)
        [] found = "plain" -> PushText(text)

\* A block left unclosed is text after all.
FlushInlineThink(t) ==
  LET text == [t EXCEPT !.inlineThink = "text", !.buffered = FALSE]
  IN  IF t.buffered THEN PushText(text) ELSE text

BufferingThink(t) == t.inlineThink = "reasoning"

-----------------------------------------------------------------------------
(* Tool calls, the end, and a chunk *)

\* The index is taken by the first fragment, the item announced once there is a name.
ToolFragment(t, c, named) ==
  LET s == FinalizeReasoning(FlushInlineThink(t))
      i == IF s.index[c] = NoIndex THEN s.nextIdx ELSE s.index[c]
      k == IF s.index[c] = NoIndex THEN [s EXCEPT !.index[c] = i, !.nextIdx = @ + 1] ELSE s
      n == IF named /\ c \notin k.started
             THEN [k EXCEPT !.started = @ \cup {c}, !.view = Announce(@, i)] ELSE k
  IN  IF c \in n.started THEN [n EXCEPT !.view = Delta(@, i)] ELSE n

CountDropped(t) ==
  [t EXCEPT !.dropped = {c \in Calls : t.index[c] # NoIndex} \ t.started]

OnlyDroppedCalls(t) == t.dropped # {} /\ t.started = {}

Substantive(t) == textStarted(t) \/ t.reasoning # "no" \/ t.started # {}

EmitFailed(t) ==
  IF t.done THEN t
  ELSE [t EXCEPT !.done = TRUE, !.finishPending = FALSE, !.terminalFailed = TRUE,
                 !.view = Done(EndTurn(@, "failed"))]

\* The calls in the order of their indices, then the message.
CloseItems(t) ==
  LET tools == FinishAll(t.view, {t.index[c] : c \in t.started})
      i == t.outputIndex
  IN  IF textStarted(t) THEN Finish(PartDone(tools, i, 0), i) ELSE tools

\* finish_reason: response.completed is held back for a chunk with the usage.
FlushFinish(t) ==
  LET s == CountDropped(FinalizeReasoning(FlushInlineThink(
             [t EXCEPT !.sawFinishReason = TRUE])))
  IN  IF OnlyDroppedCalls(s) /\ ~Substantive(s) THEN EmitFailed(s)
      ELSE [s EXCEPT !.finishPending = TRUE, !.view = CloseItems(s)]

\* Mutant of EmitCompleted: a turn whose calls were all dropped is completed.
EmitCompletedAnyway(t) ==
  [t EXCEPT !.done = TRUE, !.finishPending = FALSE, !.view = Done(EndTurn(@, "completed"))]

EmitCompleted(t) ==
  IF OnlyDroppedCalls(t) THEN EmitFailed(t)
  ELSE [t EXCEPT !.done = TRUE, !.finishPending = FALSE,
                 !.view = Done(EndTurn(@, "completed"))]

\* A chunk with a choice: reasoning first, then the tool call, then text, then the end.
PushChoice(t, thinks, fragment, content, finish) ==
  LET r == IF thinks THEN PushReasoning(t) ELSE t
      f == IF fragment = <<>> THEN r ELSE ToolFragment(r, fragment[1], fragment[2])
      c == IF content = "" THEN f ELSE PushContent(f, content)
  IN  IF t.done \/ t.finishPending THEN t
      ELSE IF finish THEN FlushFinish(c) ELSE c

PushUsage(t) == IF t.finishPending THEN EmitCompleted(t) ELSE t

\* The end of the stream.
ChatFlush(t) ==
  LET s == CountDropped(FinalizeReasoning(FlushInlineThink(t)))
  IN  IF t.done THEN t
      ELSE IF t.finishPending THEN EmitCompleted(t)
      ELSE IF OnlyDroppedCalls(s) \/ ~Substantive(s) THEN EmitFailed(s)
      ELSE [s EXCEPT !.done = TRUE, !.view = Done(EndTurn(@, "incomplete"))]
=============================================================================
