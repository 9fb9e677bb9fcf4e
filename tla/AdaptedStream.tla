---------------------------- MODULE AdaptedStream ----------------------------
(***************************************************************************)
(* The relay of a stream (streamSSEAdapted for Messages,                   *)
(* streamSSEChatChained for Chat, streamSSEUsage for one that is passed    *)
(* through): the reader, which hands what it reads to the detector of soft *)
(* errors and to the converter and writes what comes out, the keepalive    *)
(* goroutine beside it, the upstream and the client.  An upstream event is *)
(* read in one piece: until it is complete it has no effect, except that   *)
(* the two see a soft error complete at different moments, and that the    *)
(* end of the body may find the client in the middle of an event.          *)
(***************************************************************************)
EXTENDS MessagesSSE, ChatSSE, PassThrough

Routes == {"messages", "chat", "raw"}
SoftKinds == {"busy", "fatal"}    \* to be tried again, and fingerprint_cooldown
NoBlock == -1

VARIABLES route,
          conv,         \* the converter, with the client's view
          block,        \* the content block upstream has open
          torn,         \* a soft error of which some bytes are missing
          reader,       \* the goroutine of the handler
          after,        \* where it goes on once its frames are written
          kind, truncated, readErr,    \* what it returns, and what ended the body
          thinking, keepalive,         \* the flag and the goroutine beside it
          gone          \* the client has left

vars == <<route, conv, block, torn, reader, after, kind, truncated, readErr,
          thinking, keepalive, gone>>
upstream == <<route, block, torn>>
result == <<kind, truncated, readErr>>
beside == <<thinking, keepalive, gone>>

TypeOK ==
  /\ route \in Routes
  /\ conv \in (CASE route = "messages" -> MessagesState
               [] route = "chat"     -> ChatState
               [] route = "raw"      -> RawState)
  /\ block \in Blocks \cup {NoBlock}
  /\ torn \in SoftKinds \cup {""}
  /\ reader \in {"reading", "frames", "writing", "closing", "returned"}
  /\ after \in {"reading", "closing"}
  /\ kind \in SoftKinds \cup {""}
  /\ truncated \in BOOLEAN
  /\ readErr \in {"", "EOF", "cut"}
  /\ thinking \in BOOLEAN
  /\ keepalive \in {"waiting", "ticked", "writing", "dead"}
  /\ gone \in BOOLEAN

Init ==
  /\ route \in Routes
  /\ conv \in (CASE route = "messages" -> {NewMessages}
               [] route = "chat"     -> {NewChat}
               [] route = "raw"      -> {t \in RawStates0 : t.repairs => t.protocol = "responses"})
  /\ block = NoBlock /\ torn = ""
  /\ reader = "reading" /\ after = "reading"
  /\ kind = "" /\ truncated = FALSE /\ readErr = ""
  /\ thinking = FALSE /\ gone = FALSE
  /\ keepalive = IF route = "raw" THEN "dead" ELSE "waiting"

-----------------------------------------------------------------------------
(* The reader takes in an upstream event *)

TakeIn(next, open) ==
  /\ reader = "reading" /\ torn = ""
  /\ conv' = next /\ block' = open
  /\ reader' = "frames" /\ after' = "reading"
  /\ UNCHANGED <<route, torn, result, beside>>

\* Events behind a terminal one are dropped.
TakeMessages(next, open) ==
  /\ route = "messages"
  /\ TakeIn(IF conv.done THEN conv ELSE next, open)

Fresh(b) == conv.blockType[b] = "" /\ b \notin conv.texts

StartBlock ==
  \E b \in Blocks, sort \in BlockSorts :
    /\ route = "messages" /\ block = NoBlock /\ ~conv.done
    /\ Fresh(b) /\ \A c \in Blocks : Fresh(c) => b <= c
    /\ TakeMessages(BlockStart(conv, b, sort), b)

\* Text comes in the block that is open, or (from some upstreams) in one that was
\* never started.
TextDeltaEvent ==
  \E b \in Blocks, piece \in {"plain", "open", "close"} :
    /\ route = "messages" /\ ~conv.done
    /\ \/ b = block
       \/ block = NoBlock /\ conv.blockType[b] = ""
          /\ \A c \in Blocks : Fresh(c) => b <= c
    /\ piece = "open" => b \notin conv.held
    /\ TakeMessages(TextArrives(conv, b, piece), block)

InputDeltaEvent ==
  /\ route = "messages" /\ block # NoBlock /\ ~conv.done
  /\ TakeMessages(InputArrives(conv, block), block)

StopBlock ==
  /\ route = "messages" /\ block # NoBlock /\ ~conv.done
  /\ TakeMessages(BlockStop(conv, block), NoBlock)

ErrorEvent == route = "messages" /\ TakeMessages(MessagesError(conv), block)

StopEvent ==
  /\ route = "messages" /\ block = NoBlock
  /\ TakeMessages(MessageStop(conv), NoBlock)

TakeChat(next) == route = "chat" /\ TakeIn(next, NoBlock)

ChatChoice ==
  \E thinks, finish \in BOOLEAN, fragment \in {<<>>} \cup (Calls \X BOOLEAN) :
    /\ route = "chat"
    /\ fragment # <<>> => \A c \in Calls : c < fragment[1] => conv.index[c] # NoIndex
    /\ \E content \in {""} \cup Judgements(conv, fragment) :
         TakeChat(PushChoice(conv, thinks, fragment, content, finish))

ChatUsage == route = "chat" /\ TakeChat(PushUsage(conv))

ChatError == route = "chat" /\ TakeChat(EmitFailed(conv))

\* A stream that is passed through: what upstream sends before its terminal event.
TakeRaw(next) == route = "raw" /\ TakeIn(next, NoBlock)

Live == route = "raw" /\ conv.view.ended = "no" /\ ~conv.sawDone

RawItem ==
  \E i \in Own, sort \in ItemKinds :
    /\ Live /\ conv.at[i] = "none" /\ \A j \in Own : conv.at[j] = "none" => i <= j
    /\ sort # "plain" => conv.protocol = "responses"
    /\ TakeRaw(ItemAdded(conv, i, sort))

RawText ==
  \E i \in Own, mention \in BOOLEAN :
    /\ Live /\ conv.at[i] = "added" /\ conv.item[i] = "plain"
    /\ TakeRaw(TextPasses(conv, i, mention))

RawArguments ==
  \E i \in Own, outcome \in Outcomes :
    /\ Live /\ conv.at[i] = "added" /\ conv.item[i] # "plain"
    /\ TakeRaw(ArgumentsDelta(conv, i)) \/ TakeRaw(ArgumentsDone(conv, i, outcome))

RawItemDone ==
  \E i \in Own, outcome \in Outcomes :
    /\ Live /\ conv.at[i] \in {"added", "argued"}
    /\ TakeRaw(ItemDone(conv, i, outcome))

RawEnd ==
  \E how \in {"completed", "incomplete", "failed"}, outcome \in [Own -> Outcomes] :
    /\ Live
    /\ how = "completed" => \A i \in Own : conv.at[i] \in {"none", "done"}
    /\ how # "completed" => conv.protocol = "responses"
    /\ TakeRaw(TerminalEvent(conv, how, outcome))

RawDone ==
  /\ route = "raw" /\ doneNet(conv) /\ conv.view.ended # "no" /\ ~conv.sawDone
  /\ TakeRaw(DonePasses(conv))

RawError == Live /\ TakeRaw(ErrorPasses(conv))

-----------------------------------------------------------------------------
(* Soft errors *)

\* Mutant of OverloadedFirst: what the converter makes of it is written first.
ConvertedFirst(next, k) ==
  [next EXCEPT !.view = IF k = "busy" THEN Overloaded(@) ELSE @]

\* The client is to see server_overloaded before what the converter makes of the error.
OverloadedFirst(next, k) ==
  [next EXCEPT !.view = IF k = "busy" THEN Overloaded(conv.view) ELSE @]

\* What is written for a soft error that reaches the converter whole or not.
SoftEnd(k, whole) ==
  CASE route = "messages" -> OverloadedFirst(IF whole THEN MessagesError(conv) ELSE conv, k)
    [] route = "chat" ->
         [conv EXCEPT !.view = IF k = "busy" THEN Overloaded(@) ELSE Done(EndTurn(@, "error"))]
    [] route = "raw" -> SoftErrorPasses(conv, k, whole)

upstreamDone == IF route = "raw" THEN ~Live ELSE conv.done

Detect(k, whole) ==
  /\ kind' = k /\ conv' = SoftEnd(k, whole) /\ torn' = ""
  /\ reader' = "frames" /\ after' = "closing"
  /\ UNCHANGED <<route, block, truncated, readErr, beside>>

\* The detector sees it once its data line ends, the converter of Messages and the
\* transformers only after the empty line.  Upstream reports no error behind its end.
SoftError ==
  \E k \in SoftKinds, whole \in BOOLEAN :
    /\ reader = "reading" /\ torn = "" /\ ~upstreamDone
    /\ whole \/ ~(route = "raw" /\ transformer(conv))
    /\ Detect(k, whole)

SoftErrorTorn ==
  \E k \in SoftKinds :
    /\ reader = "reading" /\ torn = "" /\ ~upstreamDone
    /\ torn' = k
    /\ UNCHANGED <<route, conv, block, reader, after, result, beside>>

SoftErrorWhole == reader = "reading" /\ torn # "" /\ Detect(torn, TRUE)

-----------------------------------------------------------------------------
(* The end of the body *)

\* What is left over is parsed once more: a torn error is an error to the converter.
Flushed ==
  IF route = "messages"
    THEN SynthesizeTerminal(IF torn # "" /\ ~conv.done THEN MessagesError(conv) ELSE conv)
    ELSE ChatFlush(IF torn # "" THEN EmitFailed(conv) ELSE conv)

protocolIncomplete(c) ==
  IF route = "messages" THEN ~c.sawMessageStop ELSE ~c.sawFinishReason

\* Mutant of Incomplete: a failed turn that ended in order is a success.
IncompleteUnlessStopped(c, err) == err # "EOF" \/ protocolIncomplete(c)

Incomplete(c, err) == err # "EOF" \/ protocolIncomplete(c) \/ c.terminalFailed

EndOfBody ==
  \E err \in {"EOF", "cut"} :
    /\ reader = "reading" /\ route # "raw"
    /\ readErr' = err /\ conv' = Flushed /\ truncated' = Incomplete(Flushed, err)
    /\ torn' = "" /\ reader' = "frames" /\ after' = "closing"
    /\ UNCHANGED <<route, block, kind, beside>>

\* A soft error that lacks nothing but its empty line is passed on by a transformer's
\* Flush, which no detector looks at.
RawFlushed(tail, marker) ==
  IF tail = "event"
  THEN Sent([conv EXCEPT !.seen = marker, !.view = EndTurn(@, IF marker THEN "failed" ELSE "error")])
  ELSE Leftover(conv, tail, marker)

\* The last event may be cut behind the line with its name, or in or behind its data.
RawEndOfBody ==
  \E err \in {"EOF", "cut"}, tail \in {"", "name", "line", "event"}, marker \in BOOLEAN :
    /\ reader = "reading" /\ route = "raw"
    /\ tail = "" => torn = ""
    /\ tail = "event" => torn # "" /\ transformer(conv)
    /\ marker => tail # "" /\ Live /\ conv.protocol # "chat"
    /\ LET flushed == RawFlushed(tail, marker)
       IN  /\ conv' = DoneNet(flushed, tail)
           /\ truncated' = RawTruncated(flushed, err)
    /\ readErr' = err
    /\ torn' = "" /\ reader' = "frames" /\ after' = "closing"
    /\ UNCHANGED <<route, block, kind, beside>>

-----------------------------------------------------------------------------
(* Writing, beside the keepalive goroutine *)

\* Mutant of Lock: the write does not take the mutex.
WriteAtOnce ==
  /\ reader = "frames" /\ reader' = "writing"
  /\ UNCHANGED <<conv, upstream, after, result, beside>>

Lock ==
  /\ reader = "frames" /\ keepalive # "writing" /\ reader' = "writing"
  /\ UNCHANGED <<conv, upstream, after, result, beside>>

Buffering ==
  CASE route = "messages" -> conv.bufferingThink
    [] route = "chat" -> BufferingThink(conv)
    [] route = "raw" -> FALSE

Unlock ==
  /\ reader = "writing" /\ reader' = after
  /\ thinking' = IF after = "reading" THEN Buffering ELSE thinking
  /\ UNCHANGED <<conv, upstream, after, result, keepalive, gone>>

\* The client is gone and the write fails.  What is passed through is written before
\* it is looked at.
WriteFails ==
  /\ reader = "writing" /\ gone
  /\ after = "reading" \/ (route = "raw" /\ kind # "")
  /\ reader' = "closing" /\ truncated' = TRUE /\ kind' = ""
  /\ UNCHANGED <<conv, upstream, after, readErr, beside>>

\* Mutant of Return: the keepalive goroutine is told to stop and not waited for.
ReturnAtOnce ==
  /\ reader = "closing" /\ reader' = "returned"
  /\ UNCHANGED <<conv, upstream, after, result, beside>>

Return ==
  /\ reader = "closing" /\ keepalive = "dead" /\ reader' = "returned"
  /\ UNCHANGED <<conv, upstream, after, result, beside>>

Tick ==
  /\ keepalive = "waiting" /\ thinking /\ keepalive' = "ticked"
  /\ UNCHANGED <<conv, upstream, reader, after, result, thinking, gone>>

KeepaliveLock ==
  /\ keepalive = "ticked" /\ reader # "writing" /\ keepalive' = "writing"
  /\ UNCHANGED <<conv, upstream, reader, after, result, thinking, gone>>

KeepaliveUnlock ==
  /\ keepalive = "writing"
  /\ keepalive' \in {"waiting"} \cup (IF gone THEN {"dead"} ELSE {})
  /\ UNCHANGED <<conv, upstream, reader, after, result, thinking, gone>>

\* Mutant of KeepaliveStop: a goroutine that is needed does not stop.
KeepaliveStopIdle ==
  /\ keepalive = "waiting" /\ reader = "closing" /\ ~thinking /\ keepalive' = "dead"
  /\ UNCHANGED <<conv, upstream, reader, after, result, thinking, gone>>

\* stop is closed as the reader returns.
KeepaliveStop ==
  /\ keepalive = "waiting" /\ reader \in {"closing", "returned"} /\ keepalive' = "dead"
  /\ UNCHANGED <<conv, upstream, reader, after, result, thinking, gone>>

ClientLeaves ==
  /\ ~gone /\ reader # "returned" /\ gone' = TRUE
  /\ UNCHANGED <<conv, upstream, reader, after, result, thinking, keepalive>>

-----------------------------------------------------------------------------
Keepalive == Tick \/ KeepaliveLock \/ KeepaliveUnlock \/ KeepaliveStop

Next ==
  \/ StartBlock \/ TextDeltaEvent \/ InputDeltaEvent \/ StopBlock \/ ErrorEvent \/ StopEvent
  \/ ChatChoice \/ ChatUsage \/ ChatError
  \/ RawItem \/ RawText \/ RawArguments \/ RawItemDone \/ RawEnd \/ RawDone \/ RawError
  \/ SoftError \/ SoftErrorTorn \/ SoftErrorWhole \/ EndOfBody \/ RawEndOfBody
  \/ Lock \/ Unlock \/ WriteFails \/ Return
  \/ Keepalive \/ ClientLeaves

\* Goroutines are scheduled, a mutex is not withheld for ever, and select does not
\* always prefer the ticker.  Upstream and client owe nothing.
Fairness ==
  /\ SF_vars(Lock) /\ WF_vars(Unlock) /\ WF_vars(Return)
  /\ SF_vars(KeepaliveLock) /\ WF_vars(KeepaliveUnlock) /\ SF_vars(KeepaliveStop)

Spec == Init /\ [][Next]_vars /\ Fairness

-----------------------------------------------------------------------------
(* Properties *)

\* The client is never sent a frame that its protocol does not allow: no item or part
\* announced twice, written after its end or closed without having been opened, nothing
\* behind the terminal event, no item left open in a completed turn; and a repaired call
\* has been given its input once when it is done.  Excepted are, of the Messages
\* converter, text of a block that upstream never started and a message that is closed
\* in a turn without any text, and, of the bridge, the item of a call that failed, which
\* is announced under one index and finished under the next.
WellFormed ==
  CASE route = "messages" -> conv.view.faults \subseteq {<<"unannounced", conv.messageIndex>>}
    [] route = "chat" -> conv.view.faults = {}
    [] route = "raw" ->
         /\ conv.view.faults \subseteq
              {<<"unannounced", i>> : i \in Indices \ Own} \cup
                (IF \E i \in Indices \ Own : <<"unannounced", i>> \in conv.view.faults
                 THEN {<<"unfinished", NoIndex>>} ELSE {})
         /\ \A i \in Own : Degraded(conv, i) =>
              conv.told[i] = IF conv.at[i] \in {"argued", "done"} THEN 1 ELSE 0

\* A turn in which upstream wanted a tool, and no tool call could be delivered, is not
\* reported as completed: the client would stop there without an error.  In a stream that
\* is passed through, a completed turn lists each custom call as one and each image call
\* that was run with its result, and no image was paid for twice.
NoEmptyHanded ==
  IF route = "raw"
  THEN \A i \in Own :
         /\ conv.ran[i] <= 1
         /\ conv.view.ended = "completed" /\ conv.at[i] # "none" =>
              /\ Degraded(conv, i) => conv.listed[i] = "custom"
              /\ i \in conv.executed => conv.listed[i] = "result"
  ELSE conv.view.ended = "completed" =>
         IF route = "messages" THEN ~OnlyDropped(conv) ELSE ~OnlyDroppedCalls(conv)

\* The relay reports a success to the monitor exactly if the client was told that its
\* turn is complete and the body ended in order.  In a stream that is passed through, every
\* terminal event will do; excepted are streams in which one is only mentioned, and
\* those of Chat Completions, which have none that the relay knows.
HonestReport ==
  reader = "returned" /\ ~gone =>
    IF route = "raw"
    THEN ~conv.mentioned /\ conv.protocol # "chat" =>
           (kind = "" /\ ~truncated <=>
              conv.view.ended \in {"completed", "incomplete", "failed"} /\ readErr = "EOF")
    ELSE kind = "" /\ ~truncated <=> conv.view.ended = "completed" /\ readErr = "EOF"

\* A client that stays is told how its turn ended and that the stream is over, and of a
\* passing overload as such.  (What is excepted is a fingerprint cooldown on Messages
\* whose last newline is missing: the reader returns before it is parsed.)  What is passed
\* through ends in [DONE] where the protocol has it, or in upstream's error; excepted
\* is a client that was left in the middle of an event.
TurnEnds ==
  reader = "returned" /\ ~gone =>
    IF route = "raw"
    THEN conv.cut \/
           /\ kind = "" /\ doneNet(conv) => conv.view.over
           /\ kind # "" => conv.view.ended = "error"
           /\ kind = "busy" => conv.view.over
    ELSE /\ kind = "busy" => conv.view.ended = "overloaded"
         /\ \/ conv.view.ended # "no" /\ conv.view.over
            \/ route = "messages" /\ kind = "fatal" /\ ~conv.done

\* While reasoning is open, no item with a higher index has been announced: the client
\* puts its items together in that order.
ReasoningLast ==
  route = "chat" /\ conv.reasoning = "open" =>
    \A i \in Announced(conv.view) : i <= conv.reasoningIndex

\* No keepalive comment is written into the middle of the reader's frames.
FramesWhole == ~(reader = "writing" /\ keepalive = "writing")

\* No keepalive comment is written once the handler has returned the connection.
NoLateKeepalive ==
  [][keepalive' = "writing" /\ keepalive # "writing" => reader # "returned"]_vars

\* A reader that is done returns, although the keepalive goroutine may be ticking.
HandlerReturns == reader = "closing" ~> reader = "returned"
=============================================================================
