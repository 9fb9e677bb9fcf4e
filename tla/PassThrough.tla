----------------------------- MODULE PassThrough -----------------------------
(***************************************************************************)
(* A stream that is passed through (streamSSEUsage in sse.go) and the two  *)
(* transformers that may rewrite it on the way: the repair of custom tool  *)
(* calls that upstream degrades to function calls (tool_shape.go) and the  *)
(* image bridge, which runs the calls of its own tool while the stream     *)
(* waits (image_bridge.go).  What upstream sends keeps to its own protocol *)
(* until it breaks off.                                                    *)
(***************************************************************************)
EXTENDS ResponsesClient

CONSTANTS Own,                   \* the output indices upstream gives to its items
          syntheticIndexBase     \* those of the bridge's items begin far behind them

\* The bound leaves room for two items of each call.
ASSUME OwnAssumption ==
  /\ syntheticIndexBase \in Nat /\ 3 * syntheticIndexBase <= MaxItems
  /\ Own \subseteq 0 .. syntheticIndexBase - 1

Protocols == {"responses", "native", "chat"}      \* native: Anthropic Messages
ItemKinds == {"plain", "custom", "image"}         \* custom: a degraded call; image: of the bridge
Outcomes  == {"image", "refused", "unparsable"}   \* of running an image call

RawState ==
  [protocol : Protocols,
   repairs : BOOLEAN, bridges : BOOLEAN,          \* the transformers in use
   item : [Own -> ItemKinds \cup {""}],
   at : [Own -> {"none", "added", "argued", "done"}],    \* how far upstream has got with it
   tracked : SUBSET Own,
   told : [Own -> 0 .. 2],        \* how often the client got a custom call's input
   ran : [Own -> 0 .. 2],         \* how often the image upstream was called
   executed : SUBSET Own,
   listed : [Own -> {"", "asSent", "custom", "result"}], \* what the terminal event makes of it
   synthetic : Indices \cup {MaxItems},           \* the next index for an item of the bridge
   sawData : BOOLEAN, sawDone : BOOLEAN, seen : BOOLEAN,
   mentioned : BOOLEAN,           \* a terminal marker was elsewhere than in a terminal event
   cut : BOOLEAN,                 \* the client was left in the middle of an event
   view : View]

NewRaw(protocol, repairs, bridges) ==
  [protocol |-> protocol, repairs |-> repairs, bridges |-> bridges,
   item |-> [i \in Own |-> ""], at |-> [i \in Own |-> "none"], tracked |-> {},
   told |-> [i \in Own |-> 0], ran |-> [i \in Own |-> 0], executed |-> {},
   listed |-> [i \in Own |-> ""],
   synthetic |-> syntheticIndexBase,
   sawData |-> FALSE, sawDone |-> FALSE, seen |-> FALSE, mentioned |-> FALSE,
   cut |-> FALSE, view |-> NewView]

\* Tools are repaired in Responses streams; the bridge, if enabled, is in all.
RawStates0 ==
  {NewRaw(p, repairs, bridges) : p \in Protocols, repairs, bridges \in BOOLEAN}

transformer(t) == t.repairs \/ t.bridges
doneNet(t) == t.protocol # "native"
BridgeCall(t, i) == t.bridges /\ t.item[i] = "image"
Degraded(t, i) == t.repairs /\ t.item[i] = "custom"

\* A frame is written, and the tracker sees it.
Sent(t) == [t EXCEPT !.sawData = TRUE]

-----------------------------------------------------------------------------
(* The repair and the bridge, event by event *)

ItemAdded(t, i, sort) ==
  LET u == [t EXCEPT !.item[i] = sort, !.at[i] = "added", !.view = Announce(@, i)]
  IN  Sent([u EXCEPT !.tracked = IF BridgeCall(u, i) \/ Degraded(u, i) THEN @ \cup {i} ELSE @])

\* The arguments of a call that is tracked are held back.
ArgumentsDelta(t, i) ==
  IF i \in t.tracked THEN t ELSE Sent([t EXCEPT !.view = Delta(@, i)])

\* custom_tool_call_input.delta and .done
inputDoneFrames(t, i) ==
  [t EXCEPT !.told[i] = @ + 1, !.view = Delta(Delta(@, i), i)]

\* The call's item is finished, and what came of it is told as further items.  An
\* error item is announced under one index and finished under the next.
emitBridgeResult(t, i, outcome) ==
  LET n == t.synthetic
      v == Finish(t.view, i)
      told == IF outcome = "image"
              THEN Finish(Announce(Finish(Announce(v, n), n), n + 1), n + 1)
              ELSE Finish(Announce(v, n), n + 1)
  IN  [t EXCEPT !.executed = @ \cup {i}, !.tracked = @ \ {i}, !.synthetic = n + 2,
                !.ran[i] = IF outcome = "unparsable" THEN @ ELSE @ + 1,
                !.view = told]

ArgumentsDone(t, i, outcome) ==
  LET u == [t EXCEPT !.at[i] = "argued"]
  IN  IF i \notin t.tracked THEN Sent([u EXCEPT !.view = Delta(@, i)])
      ELSE IF BridgeCall(t, i) THEN emitBridgeResult(u, i, outcome)
      ELSE inputDoneFrames(u, i)

\* An item that is done and whose arguments never were: they are told or run now.
ItemDone(t, i, outcome) ==
  LET u == [t EXCEPT !.at[i] = "done"]
      w == IF i \in t.tracked /\ t.at[i] # "argued" THEN inputDoneFrames(u, i) ELSE u
  IN  IF BridgeCall(t, i)
      THEN IF i \in t.executed THEN u ELSE emitBridgeResult(u, i, outcome)
      ELSE [w EXCEPT !.tracked = @ \ {i}, !.view = Finish(@, i)]

\* Calls of the bridge that the stream has not run are run with the terminal event;
\* those that fail here stay as they are.
interceptBridgeNonStreaming(t, outcome) ==
  LET late == {i \in Own : BridgeCall(t, i) /\ i \notin t.executed}
  IN  [t EXCEPT
         !.ran = [i \in Own |-> IF i \in late /\ outcome[i] # "unparsable" THEN @[i] + 1
                                ELSE @[i]],
         !.listed = [i \in Own |->
            IF t.at[i] = "none" THEN ""
            ELSE IF Degraded(t, i) THEN "custom"
            ELSE IF i \in t.executed \/ (i \in late /\ outcome[i] = "image") THEN "result"
            ELSE "asSent"]]

-----------------------------------------------------------------------------
(* The relay *)

\* A delta of text; mention: it speaks of a terminal event by name.
TextPasses(t, i, mention) ==
  Sent([t EXCEPT !.view = Delta(@, i), !.seen = @ \/ mention, !.mentioned = @ \/ mention])

\* The end that its protocol has.  The relay knows no marker for Chat Completions.
TerminalEvent(t, how, outcome) ==
  LET u == IF t.protocol = "responses" THEN interceptBridgeNonStreaming(t, outcome) ELSE t
      v == EndTurn(t.view, how)
  IN  Sent([u EXCEPT !.seen = @ \/ t.protocol # "chat",
                     !.view = IF doneNet(t) THEN v ELSE Done(v)])

DonePasses(t) == Sent([t EXCEPT !.sawDone = TRUE, !.view = Done(@)])

ErrorPasses(t) == Sent([t EXCEPT !.view = EndTurn(@, "error")])

\* The error has gone to the client before it is detected.  The proxy's own frame,
\* if it has one, comes too late for an event whose empty line is missing: the two
\* are then one event that nobody understands.
SoftErrorPasses(t, k, whole) ==
  LET u == ErrorPasses(t)
  IN  IF ~whole THEN Sent([t EXCEPT !.cut = TRUE])
      ELSE IF k = "busy" THEN [u EXCEPT !.view = Done(@)] ELSE u

\* What is left over: a transformer drops an unfinished line; otherwise the client has
\* it already, and marker says that a terminal event was in it by name.
Leftover(t, tail, marker) ==
  IF tail = "" \/ transformer(t) THEN t
  ELSE [t EXCEPT !.cut = TRUE, !.sawData = @ \/ tail = "line",
                 !.seen = @ \/ marker, !.mentioned = @ \/ marker]

\* [DONE], behind an unfinished line, does not arrive.
DoneNet(t, tail) ==
  IF doneNet(t) /\ ~t.sawDone /\ (tail # "line" \/ transformer(t))
  THEN [t EXCEPT !.view = Done(@)] ELSE t

RawTruncated(t, err) == ~t.sawData \/ err # "EOF" \/ ~t.seen
=============================================================================
