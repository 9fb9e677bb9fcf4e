----------------------------- MODULE MessagesSSE -----------------------------
(***************************************************************************)
(* The converter from an Anthropic Messages stream to a Responses stream   *)
(* (adapter_sse.go): its state, and for every upstream event what it does  *)
(* to that state and to the view of the client.                            *)
(*                                                                         *)
(* A text block's raw text is known by what the tag scanner finds in it:   *)
(* whether its tail is held back by an open <think> tag, and whether there *)
(* is any text besides tags in what was shown and in what is held.         *)
(***************************************************************************)
EXTENDS Naturals, FiniteSets, ResponsesClient

CONSTANT Blocks    \* indices of the upstream's content blocks

\* The bound leaves room for an item of each block and the message.
ASSUME MessagesAssumption ==
  Blocks \subseteq Nat /\ IsFiniteSet(Blocks) /\ Cardinality(Blocks) + 1 <= MaxItems

\* "nameless": a tool_use without a usable name; "other": thinking and the like.
BlockSorts == {"text", "tool", "nameless", "other"}

MessagesState ==
  [blockType : [Blocks -> BlockSorts \cup {""}],
   outputIndex : [Blocks -> Indices \cup {NoIndex}],
   messageIndex : Indices \cup {NoIndex},
   messageItemAdded : BOOLEAN,
   nextIndex : 0 .. Cardinality(Blocks) + 1,    \* one for each block, one for the message
   texts : SUBSET Blocks,       \* keys of contentTextByIndex
   held : SUBSET Blocks,        \* blocks whose tail is held back
   thought : SUBSET Blocks,     \* those of them with text behind the tag
   solid : SUBSET Blocks,       \* blocks with text outside tags
   toolUse : SUBSET Blocks,     \* keys of toolUseByIndex
   dropped : BOOLEAN,           \* droppedToolCalls > 0
   done : BOOLEAN, sawMessageStop : BOOLEAN, terminalFailed : BOOLEAN,
   bufferingThink : BOOLEAN,
   view : View]

NewMessages ==
  [blockType |-> [b \in Blocks |-> ""],
   outputIndex |-> [b \in Blocks |-> NoIndex],
   messageIndex |-> NoIndex, messageItemAdded |-> FALSE, nextIndex |-> 0,
   texts |-> {}, held |-> {}, thought |-> {}, solid |-> {}, toolUse |-> {}, dropped |-> FALSE,
   done |-> FALSE, sawMessageStop |-> FALSE, terminalFailed |-> FALSE,
   bufferingThink |-> FALSE,
   view |-> NewView]

\* Mutant of WithMessageIndex: a new index at every text.
WithNewMessageIndex(m) ==
  [m EXCEPT !.messageIndex = m.nextIndex, !.nextIndex = @ + 1]

WithMessageIndex(m) ==
  IF m.messageIndex # NoIndex THEN m
  ELSE [m EXCEPT !.messageIndex = m.nextIndex, !.nextIndex = @ + 1]

WithOutputIndex(m, b) ==
  IF m.outputIndex[b] # NoIndex THEN m
  ELSE [m EXCEPT !.outputIndex[b] = m.nextIndex, !.nextIndex = @ + 1]

\* No tool can be run although the upstream asked for one.
OnlyDropped(m) == m.dropped /\ m.toolUse = {}

Fail(m, view) ==
  [m EXCEPT !.done = TRUE, !.terminalFailed = TRUE,
            !.view = Done(EndTurn(view, "failed"))]

-----------------------------------------------------------------------------
(* One operator per upstream event *)

TextStart(m, b) ==
  LET k == WithMessageIndex([m EXCEPT !.blockType[b] = "text"])
      i == k.messageIndex
      v == IF m.messageItemAdded THEN m.view ELSE Announce(m.view, i)
  IN  [k EXCEPT !.texts = @ \cup {b}, !.messageItemAdded = TRUE,
                !.view = PartAdded(v, i, b)]

ToolStart(m, b) ==
  LET k == WithOutputIndex([m EXCEPT !.blockType[b] = "tool"], b)
  IN  [k EXCEPT !.toolUse = @ \cup {b}, !.view = Announce(@, k.outputIndex[b])]

\* The index is taken before the name is looked at.
NamelessStart(m, b) ==
  [WithOutputIndex([m EXCEPT !.blockType[b] = "nameless"], b) EXCEPT !.dropped = TRUE]

BlockStart(m, b, sort) ==
  CASE sort = "text" -> TextStart(m, b)
    [] sort = "tool" -> ToolStart(m, b)
    [] sort = "nameless" -> NamelessStart(m, b)
    [] sort = "other" -> [m EXCEPT !.blockType[b] = "other"]

\* text_delta with plain text, an opening tag or a closing one: text behind an
\* unclosed tag is held back, and the closing tag discards it.  A block that was
\* never started counts as text.
TextArrives(m, b, piece) ==
  LET k == WithMessageIndex(m)
      holds == piece = "open" \/ (piece = "plain" /\ b \in m.held)
      shows == piece = "plain" /\ ~holds
      next == [k EXCEPT
        !.texts = @ \cup {b},
        !.held = IF holds THEN @ \cup {b} ELSE @ \ {b},
        !.thought = IF holds /\ piece = "plain" THEN @ \cup {b} ELSE @ \ {b},
        !.bufferingThink = holds,
        !.solid = IF shows THEN @ \cup {b} ELSE @,
        !.view = IF shows THEN TextDelta(@, k.messageIndex, b) ELSE @]
  IN  IF m.blockType[b] \in {"text", ""} THEN next ELSE m

\* input_json_delta
InputArrives(m, b) ==
  IF b \in m.toolUse THEN [m EXCEPT !.view = Delta(@, m.outputIndex[b])] ELSE m

\* Mutant of BlockStop: a block that was never shown is closed like a text.
BlockStopAny(m, b) ==
  LET i == m.outputIndex[b]
      k == WithMessageIndex(m)
  IN  IF b \in m.toolUse THEN [m EXCEPT !.view = Finish(Delta(@, i), i)]
      ELSE [k EXCEPT !.view = PartDone(@, k.messageIndex, b)]

\* content_block_stop.  What an unclosed tag held back is shown as text after all;
\* bufferingThink stays as it is.
BlockStop(m, b) ==
  LET i == m.outputIndex[b]
      late == b \in m.thought
      v == IF late THEN TextDelta(m.view, m.messageIndex, b) ELSE m.view
  IN  IF b \in m.toolUse THEN [m EXCEPT !.view = Finish(Delta(@, i), i)]
      ELSE IF m.blockType[b] # "text" THEN m
      ELSE [m EXCEPT !.held = @ \ {b}, !.thought = @ \ {b},
                     !.solid = IF late THEN @ \cup {b} ELSE @,
                     !.view = PartDone(v, m.messageIndex, b)]

MessagesError(m) == Fail(m, m.view)

MessageStop(m) ==
  LET k == WithMessageIndex([m EXCEPT !.sawMessageStop = TRUE])
      closed == Finish(m.view, k.messageIndex)
  IN  IF OnlyDropped(m)
        THEN Fail([m EXCEPT !.sawMessageStop = TRUE],
                  IF m.texts # {} THEN closed ELSE m.view)
      ELSE IF m.texts # {} \/ m.toolUse = {}
        THEN [k EXCEPT !.done = TRUE, !.view = Done(EndTurn(closed, "completed"))]
      ELSE [m EXCEPT !.done = TRUE, !.sawMessageStop = TRUE,
                     !.view = Done(EndTurn(@, "completed"))]

\* Flush: a stream that ended without message_stop still gets an end.
SynthesizeTerminal(m) ==
  IF m.done \/ m.sawMessageStop THEN m
  ELSE IF OnlyDropped(m) \/ (m.toolUse = {} /\ m.solid \cup m.thought = {}) THEN Fail(m, m.view)
  ELSE [m EXCEPT !.done = TRUE, !.view = Done(EndTurn(@, "incomplete"))]
=============================================================================
