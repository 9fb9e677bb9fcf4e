---------------------------- MODULE ChatRequest -----------------------------
(***************************************************************************)
(* The conversion of a Responses request for a Chat Completions upstream,   *)
(* and of the whole reply back (adapter_chat.go).  Items and blocks are     *)
(* those of MessagesRequest.  A Chat message holds a text, the calls of an  *)
(* assistant, the reasoning that goes with them, and the call a tool        *)
(* message answers.                                                         *)
(***************************************************************************)
EXTENDS MessagesRequest

ChatMessage(role, content) ==
  [role |-> role, content |-> content, calls |-> <<>>, reasoning |-> <<>>, answers |-> 0]

\* The stamp of the reasoning made up for an assistant message without one.
Placeholder == 0

\* The state of inputToChatMessages: the calls and the reasoning still to be
\* placed, and the assistant message of the turn, 0 without one.
Start == [messages |-> <<>>, calls |-> <<>>, reasoning |-> <<>>, last |-> 0]

appendUniqueReasoning(pending, n) ==
  IF Contains(pending, n) THEN pending ELSE Append(pending, n)

attachReasoning(m, pending) ==
  [m EXCEPT !.reasoning = @ \o Only(pending, LAMBDA n : ~Contains(m.reasoning, n))]

hasToolCalls(m) == m.calls # <<>>

\* The calls join the assistant message of the turn if it has none, wherever it
\* stands, or become a message of their own.
flushPendingToolCalls(acc) ==
  IF acc.calls = <<>> THEN acc
  ELSE LET joins == /\ acc.last # 0
                    /\ acc.messages[acc.last].role = "assistant"
                    /\ ~hasToolCalls(acc.messages[acc.last])
           base  == IF joins THEN acc.messages[acc.last] ELSE ChatMessage("assistant", <<>>)
           full  == attachReasoning([base EXCEPT !.calls = acc.calls], acc.reasoning)
       IN  [messages  |-> IF joins THEN [acc.messages EXCEPT ![acc.last] = full]
                          ELSE Append(acc.messages, full),
            calls     |-> <<>>,
            reasoning |-> <<>>,
            last      |-> IF joins THEN acc.last ELSE Len(acc.messages) + 1]

\* Reasoning with nothing after it in its turn; dropped without a message.
attachReasoningToPreviousAssistant(acc) ==
  IF acc.last = 0 THEN [acc EXCEPT !.reasoning = <<>>]
  ELSE [acc EXCEPT !.messages[acc.last].reasoning = @ \o acc.reasoning, !.reasoning = <<>>]

\* The text of a result answers its call, or stands alone without one; its
\* picture needs a user message of its own.
toolOutputToChatMessages(item, paired, keep) ==
  LET media == HasImage(item) /\ keep
      text  == IF HasImage(item) /\ ~keep THEN <<Text(item.of), LeftOut(item.of)>>
               ELSE <<Text(item.of)>>
  IN  <<IF item.of \in paired
        THEN [ChatMessage("tool", text) EXCEPT !.answers = item.of]
        ELSE ChatMessage("user", text)>>
      \o (IF media THEN <<ChatMessage("user", <<Picture(item.of)>>)>> ELSE <<>>)

PlaceResult(acc, item, paired, keep) ==
  LET flushed == flushPendingToolCalls(acc)
  IN  [flushed EXCEPT !.messages = @ \o toolOutputToChatMessages(item, paired, keep),
                      !.last = IF HasImage(item) /\ keep THEN 0 ELSE @]

PlaceAssistant(acc, item) ==
  LET flushed == flushPendingToolCalls(acc)
      m == attachReasoning(ChatMessage("assistant", <<Text(item.of)>>), flushed.reasoning)
  IN  [flushed EXCEPT !.messages = Append(@, m), !.reasoning = <<>>,
                      !.last = Len(flushed.messages) + 1]

\* Mutants of PlaceUser: the reasoning of the turn is carried past its end; the
\* calls that the user cut off are placed after what was said.
PlaceUserOnly(acc, item, keep) ==
  LET flushed == flushPendingToolCalls(acc)
  IN  [flushed EXCEPT !.messages = Append(@, ChatMessage("user", convertContentBlocks(item, keep))),
                      !.last = 0]

PlaceUserFirst(acc, item, keep) ==
  LET settled == attachReasoningToPreviousAssistant(acc)
  IN  [settled EXCEPT !.messages = Append(@, ChatMessage("user", convertContentBlocks(item, keep))),
                      !.last = 0]

PlaceUser(acc, item, keep) ==
  LET settled == attachReasoningToPreviousAssistant(flushPendingToolCalls(acc))
  IN  [settled EXCEPT !.messages = Append(@, ChatMessage("user", convertContentBlocks(item, keep))),
                      !.last = 0]

PlaceItem(acc, item, paired, keep) ==
  CASE item.kind = "reasoning" -> [acc EXCEPT !.reasoning = appendUniqueReasoning(@, item.of)]
    [] item.kind = "call"      -> [acc EXCEPT !.calls = Append(@, [of |-> item.of, name |-> item.tool.name])]
    [] item.kind = "result"    -> PlaceResult(acc, item, paired, keep)
    [] item.kind = "assistant" -> PlaceAssistant(acc, item)
    [] item.kind = "user"      -> PlaceUser(acc, item, keep)
    [] OTHER                   -> acc

backfillToolCallReasoningPlaceholders(messages) ==
  [i \in DOMAIN messages |->
     IF hasToolCalls(messages[i]) /\ messages[i].reasoning = <<>>
     THEN [messages[i] EXCEPT !.reasoning = <<Placeholder>>] ELSE messages[i]]

inputToChatMessages(input, opts) ==
  LET Place(acc, item) == PlaceItem(acc, item, PairedToolCallIDs(input),
                                    opts.images /\ ~opts.omit)
      placed == FoldLeft(Place, Start, input)
      done   == attachReasoningToPreviousAssistant(flushPendingToolCalls(placed))
  IN  backfillToolCallReasoningPlaceholders(done.messages)

\* Only a system text given as one string is read; content blocks of the
\* Responses protocol (input_text) are passed over.
extractSystemText(input) ==
  LET lines == Only(input, LAMBDA item : item.kind = "system" /\ item.string)
  IN  [i \in DOMAIN lines |-> lines[i].of]

responsesToChatRequest(input, opts) ==
  [system |-> extractSystemText(input), messages |-> inputToChatMessages(input, opts)]

\* A reply that is not streamed: reasoning, the calls, then what was said.
chatCompletionToResponsesBody(thought, calls, said) == thought \o calls \o said
=============================================================================
