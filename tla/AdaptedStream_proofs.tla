------------------------ MODULE AdaptedStream_proofs ------------------------
(***************************************************************************)
(* Theorems about the relay of streams, for any blocks, tool calls and     *)
(* items of the upstream, on all three routes: the two goroutines, how a   *)
(* turn ends and what the client was told till then.  First come lemmas    *)
(* about the operators the relay is built from: the frames a client is     *)
(* sent, and the events of the two converters and of the stream that is    *)
(* passed through.  They say which operators can end a turn and how, for   *)
(* any indices; and, where the indices suffice, what shape a converter's   *)
(* state has and what the client was told by it.                           *)
(***************************************************************************)
EXTENDS AdaptedStream, FiniteSetTheorems, TLAPS

-----------------------------------------------------------------------------
(* Frames *)

\* The views of a client, whatever indices it was told of.
AnyView == [items : [Indices -> {"none", "open", "done"}],
            parts : SUBSET (Int \X Nat),
            ended : Endings,
            over : BOOLEAN,
            faults : SUBSET (FaultKinds \X Int)]

\* w is a view in which the turn is as much at its end as in v.
SameEnd(v, w) == w \in AnyView /\ w.ended = v.ended /\ w.over = v.over

LEMMA NewViewRuns ==
  NewView \in AnyView /\ NewView.ended = "no" /\ ~NewView.over
BY DEF NewView, AnyView, Endings

LEMMA FaultsSameEnd ==
  ASSUME NEW v \in AnyView, NEW k \in FaultKinds, NEW S \in SUBSET Int
  PROVE  SameEnd(v, Faults(v, k, S))
BY DEF AnyView, SameEnd, Faults

LEMMA FaultSameEnd ==
  ASSUME NEW v \in AnyView, NEW k \in FaultKinds, NEW i \in Int
  PROVE  SameEnd(v, Fault(v, k, i))
BY FaultsSameEnd DEF Fault

LEMMA TakeSameEnd ==
  ASSUME NEW v \in AnyView, NEW i \in Int, NEW next, SameEnd(v, next)
  PROVE  SameEnd(v, Take(v, i, next))
BY FaultSameEnd DEF Take, SameEnd, FaultKinds

LEMMA PresumeSameEnd ==
  ASSUME NEW v \in AnyView, NEW i \in Int
  PROVE  SameEnd(v, Presume(v, i))
BY FaultSameEnd DEF Presume, SameEnd, FaultKinds

LEMMA AnnounceSameEnd ==
  ASSUME NEW v \in AnyView, NEW i \in Int
  PROVE  SameEnd(v, Announce(v, i))
<1>1. SameEnd(v, [v EXCEPT !.items[i] = "open"])
  BY DEF SameEnd, AnyView
<1>2. SameEnd(v, Fault(v, "twice", i))
  BY FaultSameEnd DEF FaultKinds
<1> QED
  BY <1>1, <1>2, TakeSameEnd DEF Announce

LEMMA DeltaSameEnd ==
  ASSUME NEW v \in AnyView, NEW i \in Int
  PROVE  SameEnd(v, Delta(v, i))
BY PresumeSameEnd, TakeSameEnd DEF Delta

LEMMA PartAddedSameEnd ==
  ASSUME NEW v \in AnyView, NEW i \in Int, NEW c \in Nat
  PROVE  SameEnd(v, PartAdded(v, i, c))
<1> DEFINE w == Presume(v, i)
<1>1. SameEnd(v, w)
  BY PresumeSameEnd
<1> HIDE DEF w
<1>2. SameEnd(v, [w EXCEPT !.parts = @ \cup {<<i, c>>}])
  BY <1>1 DEF SameEnd, AnyView
<1> QED
  BY <1>2, TakeSameEnd DEF PartAdded, w

LEMMA TextDeltaSameEnd ==
  ASSUME NEW v \in AnyView, NEW i \in Int, NEW c
  PROVE  SameEnd(v, TextDelta(v, i, c))
<1>1. SameEnd(v, Fault(v, "unannounced", i)) /\ SameEnd(v, Presume(v, i))
  BY FaultSameEnd, PresumeSameEnd DEF FaultKinds
<1> QED
  BY <1>1, TakeSameEnd DEF TextDelta

LEMMA PartDoneSameEnd ==
  ASSUME NEW v \in AnyView, NEW i \in Int, NEW c
  PROVE  SameEnd(v, PartDone(v, i, c))
<1> DEFINE w == Presume(v, i)
<1>1. SameEnd(v, Fault(v, "unopened", i)) /\ SameEnd(v, w)
  BY FaultSameEnd, PresumeSameEnd DEF FaultKinds
<1> HIDE DEF w
<1>2. SameEnd(v, [w EXCEPT !.parts = @ \ {<<i, c>>}])
  BY <1>1 DEF SameEnd, AnyView
<1> QED
  BY <1>1, <1>2, TakeSameEnd DEF PartDone, w

LEMMA FinishAllSameEnd ==
  ASSUME NEW v \in AnyView, NEW S \in SUBSET Int
  PROVE  SameEnd(v, FinishAll(v, S))
<1> DEFINE unknown == {i \in S : v.items[i] = "none"}
           late == {i \in S : v.items[i] = "done"}
           unfinished == {i \in S : \E p \in v.parts : p[1] = i}
           a == Faults(v, "unannounced", unknown)
           b == Faults(a, "late", late)
           c == Faults(b, "unfinished", unfinished)
<1> unknown \in SUBSET Int /\ late \in SUBSET Int /\ unfinished \in SUBSET Int
  OBVIOUS
<1> HIDE DEF unknown, late, unfinished
<1>1. SameEnd(v, a)
  BY FaultsSameEnd DEF FaultKinds
<1> HIDE DEF a
<1>2. SameEnd(v, b)
  BY <1>1, FaultsSameEnd DEF FaultKinds, SameEnd
<1> HIDE DEF b
<1>3. SameEnd(v, c)
  BY <1>2, FaultsSameEnd DEF FaultKinds, SameEnd
<1> HIDE DEF c
<1>4. SameEnd(v, [c EXCEPT !.items = [i \in Indices |-> IF i \in S THEN "done" ELSE @[i]]])
  BY <1>3 DEF SameEnd, AnyView
<1>5. SameEnd(v, Faults(v, "afterEnd", S)) /\ SameEnd(v, v)
  BY FaultsSameEnd DEF FaultKinds, SameEnd
<1> QED
  BY <1>4, <1>5 DEF FinishAll, a, b, c, unknown, late, unfinished

LEMMA FinishSameEnd ==
  ASSUME NEW v \in AnyView, NEW i \in Int
  PROVE  SameEnd(v, Finish(v, i))
BY FinishAllSameEnd DEF Finish

\* The end of a turn is told once.
LEMMA EndTurnEnds ==
  ASSUME NEW v \in AnyView, NEW how \in Endings
  PROVE  /\ EndTurn(v, how) \in AnyView
         /\ EndTurn(v, how).over = v.over
         /\ EndTurn(v, how).ended =
              IF ~v.over /\ v.ended = "no" THEN how ELSE v.ended
<1> DEFINE open == how = "completed" /\ \E i \in Indices : v.items[i] = "open"
           w == IF open THEN Fault(v, "unfinished", NoIndex) ELSE v
           x == [w EXCEPT !.ended = how]
<1>1. SameEnd(v, w)
  BY FaultSameEnd DEF FaultKinds, SameEnd, NoIndex
<1> HIDE DEF w
<1>2. x \in AnyView /\ x.over = v.over /\ x.ended = how
  BY <1>1 DEF SameEnd, AnyView
<1> HIDE DEF x
<1>3. SameEnd(v, Fault(v, "afterEnd", NoIndex))
  BY FaultSameEnd DEF FaultKinds, NoIndex
<1>4. EndTurn(v, how) = Take(v, NoIndex, x)
  BY DEF EndTurn, x, w
<1> QED
  BY <1>2, <1>3, <1>4 DEF Take, SameEnd

LEMMA DoneIsOver ==
  ASSUME NEW v \in AnyView
  PROVE  Done(v) \in AnyView /\ Done(v).over /\ Done(v).ended = v.ended
BY DEF Done, AnyView

LEMMA OverloadedEnds ==
  ASSUME NEW v \in AnyView
  PROVE  /\ Overloaded(v) \in AnyView /\ Overloaded(v).over
         /\ Overloaded(v).ended =
              IF ~v.over /\ v.ended = "no" THEN "overloaded" ELSE v.ended
<1>1. "overloaded" \in Endings
  BY DEF Endings
<1>2. CASE v.over
  BY <1>2 DEF Overloaded
<1>3. CASE ~v.over
  BY <1>1, <1>3, EndTurnEnds, DoneIsOver DEF Overloaded
<1> QED
  BY <1>2, <1>3

-----------------------------------------------------------------------------
(* The converter of Messages *)

AnyMessages ==
  [blockType : [Blocks -> BlockSorts \cup {""}],
   outputIndex : [Blocks -> Int], messageIndex : Int,
   messageItemAdded : BOOLEAN, nextIndex : Nat,
   texts : SUBSET Blocks, held : SUBSET Blocks, thought : SUBSET Blocks,
   solid : SUBSET Blocks, toolUse : SUBSET Blocks,
   dropped : BOOLEAN, done : BOOLEAN, sawMessageStop : BOOLEAN,
   terminalFailed : BOOLEAN, bufferingThink : BOOLEAN,
   view : AnyView]

\* The turn is not at its end, and the converter has not said so.
MessagesRun(m) ==
  /\ m \in AnyMessages
  /\ ~m.done /\ ~m.sawMessageStop /\ ~m.terminalFailed
  /\ m.view.ended = "no" /\ ~m.view.over

\* The turn is at its end: completed exactly if message_stop came and nothing failed.
MessagesEnded(m) ==
  /\ m \in AnyMessages
  /\ m.done /\ m.view.over
  /\ m.view.ended \in {"completed", "incomplete", "failed"}
  /\ m.view.ended = "completed" <=> m.sawMessageStop /\ ~m.terminalFailed
  /\ m.view.ended = "completed" => ~OnlyDropped(m)

LEMMA NewMessagesRuns == MessagesRun(NewMessages)
BY NewViewRuns DEF NewMessages, MessagesRun, AnyMessages, BlockSorts, NoIndex

LEMMA NextIndexGrows ==
  ASSUME NEW m \in AnyMessages
  PROVE  m.nextIndex \in Int /\ m.nextIndex + 1 \in Nat
<1>1. m.nextIndex \in Nat
  BY DEF AnyMessages
<1> QED
  BY <1>1

LEMMA WithMessageIndexRuns ==
  ASSUME NEW m, MessagesRun(m)
  PROVE  MessagesRun(WithMessageIndex(m)) /\ WithMessageIndex(m).view = m.view
<1> DEFINE n == m.nextIndex + 1
<1>1. m.nextIndex \in Int /\ n \in Nat
  BY NextIndexGrows DEF MessagesRun
<1>2. WithMessageIndex(m) =
        IF m.messageIndex # NoIndex THEN m
        ELSE [m EXCEPT !.messageIndex = m.nextIndex, !.nextIndex = n]
  BY DEF WithMessageIndex
<1> HIDE DEF n
<1> QED
  BY <1>1, <1>2 DEF MessagesRun, AnyMessages

LEMMA WithOutputIndexRuns ==
  ASSUME NEW m, MessagesRun(m), NEW b \in Blocks
  PROVE  MessagesRun(WithOutputIndex(m, b)) /\ WithOutputIndex(m, b).view = m.view
<1> DEFINE n == m.nextIndex + 1
<1>1. m.nextIndex \in Int /\ n \in Nat
  BY NextIndexGrows DEF MessagesRun
<1>2. WithOutputIndex(m, b) =
        IF m.outputIndex[b] # NoIndex THEN m
        ELSE [m EXCEPT !.outputIndex = [@ EXCEPT ![b] = m.nextIndex], !.nextIndex = n]
  BY DEF WithOutputIndex
<1> HIDE DEF n
<1>3. [m.outputIndex EXCEPT ![b] = m.nextIndex] \in [Blocks -> Int]
  BY <1>1 DEF MessagesRun, AnyMessages
<1> QED
  BY <1>1, <1>2, <1>3 DEF MessagesRun, AnyMessages

\* A frame that does not end the turn leaves the converter running.
LEMMA FrameRuns ==
  ASSUME NEW m, MessagesRun(m), NEW w, SameEnd(m.view, w)
  PROVE  MessagesRun([m EXCEPT !.view = w])
BY DEF MessagesRun, AnyMessages, SameEnd

LEMMA TextStartRuns ==
  ASSUME NEW m, MessagesRun(m), NEW b \in Blocks
  PROVE  MessagesRun(TextStart(m, b))
<1> DEFINE l == [m EXCEPT !.blockType[b] = "text"]
           k == WithMessageIndex(l)
           i == k.messageIndex
           v == IF m.messageItemAdded THEN m.view ELSE Announce(m.view, i)
           w == PartAdded(v, i, b)
           n == [k EXCEPT !.texts = @ \cup {b}, !.messageItemAdded = TRUE, !.view = w]
<1>1. MessagesRun(l)
  BY DEF MessagesRun, AnyMessages, BlockSorts
<1> HIDE DEF l
<1>2. MessagesRun(k)
  BY <1>1, WithMessageIndexRuns
<1> HIDE DEF k
<1>3. i \in Int /\ b \in Nat /\ m.view \in AnyView
  BY <1>2, MessagesAssumption DEF MessagesRun, AnyMessages
<1> HIDE DEF i
<1>4. SameEnd(m.view, v)
  BY <1>3, AnnounceSameEnd DEF SameEnd
<1> HIDE DEF v
<1>5. SameEnd(m.view, w)
  BY <1>3, <1>4, PartAddedSameEnd DEF SameEnd
<1> HIDE DEF w
<1>6. MessagesRun(n)
  BY <1>2, <1>5 DEF MessagesRun, AnyMessages, SameEnd
<1> QED
  BY <1>6 DEF TextStart, w, v, i, k, l

LEMMA ToolStartRuns ==
  ASSUME NEW m, MessagesRun(m), NEW b \in Blocks
  PROVE  MessagesRun(ToolStart(m, b))
<1> DEFINE l == [m EXCEPT !.blockType[b] = "tool"]
           k == WithOutputIndex(l, b)
           i == k.outputIndex[b]
           w == Announce(k.view, i)
           n == [k EXCEPT !.toolUse = @ \cup {b}, !.view = w]
<1>1. MessagesRun(l)
  BY DEF MessagesRun, AnyMessages, BlockSorts
<1> HIDE DEF l
<1>2. MessagesRun(k)
  BY <1>1, WithOutputIndexRuns
<1> HIDE DEF k
<1>3. i \in Int /\ k.view \in AnyView
  BY <1>2 DEF MessagesRun, AnyMessages
<1> HIDE DEF i
<1>4. SameEnd(k.view, w)
  BY <1>3, AnnounceSameEnd
<1> HIDE DEF w
<1>5. MessagesRun(n)
  BY <1>2, <1>4 DEF MessagesRun, AnyMessages, SameEnd
<1> QED
  BY <1>5 DEF ToolStart, w, i, k, l

LEMMA NamelessStartRuns ==
  ASSUME NEW m, MessagesRun(m), NEW b \in Blocks
  PROVE  MessagesRun(NamelessStart(m, b))
<1> DEFINE l == [m EXCEPT !.blockType[b] = "nameless"]
           k == WithOutputIndex(l, b)
<1>1. MessagesRun(l)
  BY DEF MessagesRun, AnyMessages, BlockSorts
<1> HIDE DEF l
<1>2. MessagesRun(k)
  BY <1>1, WithOutputIndexRuns
<1> HIDE DEF k
<1>3. MessagesRun([k EXCEPT !.dropped = TRUE])
  BY <1>2 DEF MessagesRun, AnyMessages
<1> QED
  BY <1>3 DEF NamelessStart, k, l

LEMMA BlockStartRuns ==
  ASSUME NEW m, MessagesRun(m), NEW b \in Blocks,
         NEW sort \in BlockSorts
  PROVE  MessagesRun(BlockStart(m, b, sort))
<1>1. MessagesRun([m EXCEPT !.blockType[b] = "other"])
  BY DEF MessagesRun, AnyMessages, BlockSorts
<1> QED
  BY <1>1, TextStartRuns, ToolStartRuns, NamelessStartRuns DEF BlockStart, BlockSorts

LEMMA TextArrivesRuns ==
  ASSUME NEW m, MessagesRun(m), NEW b \in Blocks, NEW piece
  PROVE  MessagesRun(TextArrives(m, b, piece))
<1> DEFINE k == WithMessageIndex(m)
           holds == piece = "open" \/ (piece = "plain" /\ b \in m.held)
           shows == piece = "plain" /\ ~holds
           H == IF holds THEN k.held \cup {b} ELSE k.held \ {b}
           T == IF holds /\ piece = "plain" THEN k.thought \cup {b} ELSE k.thought \ {b}
           S == IF shows THEN k.solid \cup {b} ELSE k.solid
           w == IF shows THEN TextDelta(k.view, k.messageIndex, b) ELSE k.view
           n == [k EXCEPT !.texts = @ \cup {b}, !.held = H, !.thought = T,
                          !.bufferingThink = holds, !.solid = S, !.view = w]
<1>1. MessagesRun(k)
  BY WithMessageIndexRuns
<1> HIDE DEF k
<1>2. H \in SUBSET Blocks /\ T \in SUBSET Blocks /\ S \in SUBSET Blocks
  BY <1>1 DEF MessagesRun, AnyMessages
<1>3. k.view \in AnyView /\ k.messageIndex \in Int
  BY <1>1 DEF MessagesRun, AnyMessages
<1>4. SameEnd(k.view, w)
  BY <1>3, TextDeltaSameEnd DEF SameEnd
<1>5. holds \in BOOLEAN
  OBVIOUS
<1>6. n = [k EXCEPT !.texts = @ \cup {b}, !.held = H, !.thought = T,
                    !.bufferingThink = holds, !.solid = S, !.view = w]
  OBVIOUS
<1>7. TextArrives(m, b, piece) = IF m.blockType[b] \in {"text", ""} THEN n ELSE m
  BY DEF TextArrives, k
<1> HIDE DEF holds, H, T, S, w, n
<1>8. MessagesRun(n)
  BY <1>1, <1>2, <1>4, <1>5, <1>6 DEF MessagesRun, AnyMessages, SameEnd
<1> QED
  BY <1>7, <1>8

LEMMA InputArrivesRuns ==
  ASSUME NEW m, MessagesRun(m), NEW b \in Blocks
  PROVE  MessagesRun(InputArrives(m, b))
<1>1. m.view \in AnyView /\ m.outputIndex[b] \in Int
  BY DEF MessagesRun, AnyMessages
<1> QED
  BY <1>1, DeltaSameEnd, FrameRuns DEF InputArrives

LEMMA BlockStopRuns ==
  ASSUME NEW m, MessagesRun(m), NEW b \in Blocks
  PROVE  MessagesRun(BlockStop(m, b))
<1> DEFINE i == m.outputIndex[b]
           late == b \in m.thought
           v == IF late THEN TextDelta(m.view, m.messageIndex, b) ELSE m.view
           w == Finish(Delta(m.view, i), i)
           x == PartDone(v, m.messageIndex, b)
           S == IF late THEN m.solid \cup {b} ELSE m.solid
           n == [m EXCEPT !.held = @ \ {b}, !.thought = @ \ {b}, !.solid = S, !.view = x]
<1>1. m.view \in AnyView /\ i \in Int /\ m.messageIndex \in Int
  BY DEF MessagesRun, AnyMessages
<1>2. SameEnd(m.view, w)
  <2> DEFINE d == Delta(m.view, i)
  <2>1. SameEnd(m.view, d)
    BY <1>1, DeltaSameEnd
  <2> HIDE DEF d
  <2>2. SameEnd(d, Finish(d, i))
    BY <1>1, <2>1, FinishSameEnd DEF SameEnd
  <2> QED
    BY <2>1, <2>2 DEF SameEnd, d
<1>3. MessagesRun([m EXCEPT !.view = w])
  BY <1>2, FrameRuns
<1>4. SameEnd(m.view, v)
  BY <1>1, TextDeltaSameEnd DEF SameEnd
<1>5. SameEnd(m.view, x)
  BY <1>1, <1>4, PartDoneSameEnd DEF SameEnd
<1>6. BlockStop(m, b) = IF b \in m.toolUse THEN [m EXCEPT !.view = w]
                        ELSE IF m.blockType[b] # "text" THEN m
                        ELSE n
  BY DEF BlockStop
<1>7. S \in SUBSET Blocks
  BY DEF MessagesRun, AnyMessages
<1> HIDE DEF v, w, x, S
<1>8. MessagesRun(n)
  BY <1>5, <1>7 DEF MessagesRun, AnyMessages, SameEnd
<1> HIDE DEF n
<1> QED
  BY <1>3, <1>6, <1>8

\* The end that is told by the converter itself: nothing may follow it.
LEMMA FailEnds ==
  ASSUME NEW m \in AnyMessages, NEW v \in AnyView, v.ended = "no", ~v.over
  PROVE  MessagesEnded(Fail(m, v))
<1> DEFINE w == Done(EndTurn(v, "failed"))
<1>1. w \in AnyView /\ w.over /\ w.ended = "failed"
  BY EndTurnEnds, DoneIsOver DEF Endings
<1> HIDE DEF w
<1>2. MessagesEnded([m EXCEPT !.done = TRUE, !.terminalFailed = TRUE, !.view = w])
  BY <1>1 DEF MessagesEnded, AnyMessages
<1> QED
  BY <1>2 DEF Fail, w

LEMMA MessagesErrorEnds ==
  ASSUME NEW m, MessagesRun(m)
  PROVE  MessagesEnded(MessagesError(m))
BY FailEnds DEF MessagesError, MessagesRun, AnyMessages

LEMMA MessageStopEnds ==
  ASSUME NEW m, MessagesRun(m)
  PROVE  MessagesEnded(MessageStop(m))
<1> DEFINE s == [m EXCEPT !.sawMessageStop = TRUE]
           k == WithMessageIndex(s)
           closed == Finish(m.view, k.messageIndex)
           v == IF m.texts # {} THEN closed ELSE m.view
           w == Done(EndTurn(closed, "completed"))
           x == Done(EndTurn(m.view, "completed"))
<1>1. s \in AnyMessages /\ s.view = m.view
  BY DEF MessagesRun, AnyMessages
<1>2. /\ k \in AnyMessages /\ k.dropped = m.dropped /\ k.toolUse = m.toolUse
      /\ k.sawMessageStop /\ ~k.terminalFailed
  <2> DEFINE n == s.nextIndex + 1
  <2>1. s.nextIndex \in Int /\ n \in Nat
    BY <1>1, NextIndexGrows
  <2>2. k = IF s.messageIndex # NoIndex THEN s
            ELSE [s EXCEPT !.messageIndex = s.nextIndex, !.nextIndex = n]
    BY DEF WithMessageIndex
  <2>3. /\ s.dropped = m.dropped /\ s.toolUse = m.toolUse
        /\ s.sawMessageStop /\ ~s.terminalFailed
    BY DEF MessagesRun, AnyMessages
  <2> HIDE DEF n, s, k
  <2> QED
    BY <1>1, <2>1, <2>2, <2>3 DEF AnyMessages
<1>3. SameEnd(m.view, closed)
  BY <1>2, FinishSameEnd DEF AnyMessages, MessagesRun
<1>4. /\ w \in AnyView /\ w.over /\ w.ended = "completed"
      /\ x \in AnyView /\ x.over /\ x.ended = "completed"
  <2>1. m.view \in AnyView /\ m.view.ended = "no" /\ ~m.view.over
    BY DEF MessagesRun, AnyMessages
  <2>2. closed \in AnyView /\ closed.ended = "no" /\ ~closed.over
    BY <2>1, <1>3 DEF SameEnd
  <2> QED
    BY <2>1, <2>2, EndTurnEnds, DoneIsOver DEF Endings
<1>5. MessageStop(m) =
        IF OnlyDropped(m) THEN Fail(s, v)
        ELSE IF m.texts # {} \/ m.toolUse = {}
          THEN [k EXCEPT !.done = TRUE, !.view = w]
        ELSE [m EXCEPT !.done = TRUE, !.sawMessageStop = TRUE, !.view = x]
  BY DEF MessageStop
<1>6. MessagesEnded(Fail(s, v))
  <2>1. m.view \in AnyView /\ m.view.ended = "no" /\ ~m.view.over
    BY DEF MessagesRun, AnyMessages
  <2>2. v \in AnyView /\ v.ended = "no" /\ ~v.over
    BY <1>3, <2>1 DEF SameEnd
  <2> QED
    BY <1>1, <2>2, FailEnds
<1> HIDE DEF k, closed, v, w, x
<1>7. ASSUME ~OnlyDropped(m) PROVE MessagesEnded([k EXCEPT !.done = TRUE, !.view = w])
  BY <1>2, <1>4, <1>7 DEF MessagesEnded, AnyMessages, OnlyDropped
<1>8. ASSUME ~OnlyDropped(m)
      PROVE  MessagesEnded([m EXCEPT !.done = TRUE, !.sawMessageStop = TRUE, !.view = x])
  BY <1>4, <1>8 DEF MessagesRun, MessagesEnded, AnyMessages, OnlyDropped
<1> QED
  BY <1>5, <1>6, <1>7, <1>8

\* A stream that breaks off is never completed.
LEMMA SynthesizeTerminalEnds ==
  ASSUME NEW m, MessagesRun(m) \/ MessagesEnded(m)
  PROVE  MessagesEnded(SynthesizeTerminal(m))
<1> DEFINE w == Done(EndTurn(m.view, "incomplete"))
<1>1. CASE MessagesEnded(m)
  BY <1>1 DEF SynthesizeTerminal, MessagesEnded
<1>2. CASE MessagesRun(m)
  <2>1. m \in AnyMessages /\ m.view \in AnyView /\ m.view.ended = "no" /\ ~m.view.over
    BY <1>2 DEF MessagesRun, AnyMessages
  <2>2. w \in AnyView /\ w.over /\ w.ended = "incomplete"
    BY <2>1, EndTurnEnds, DoneIsOver DEF Endings
  <2>3. MessagesEnded(Fail(m, m.view))
    BY <2>1, FailEnds
  <2> HIDE DEF w
  <2>4. MessagesEnded([m EXCEPT !.done = TRUE, !.view = w])
    BY <1>2, <2>2 DEF MessagesRun, MessagesEnded, AnyMessages
  <2> QED
    BY <2>3, <2>4, <1>2 DEF SynthesizeTerminal, w, MessagesRun
<1> QED
  BY <1>1, <1>2

-----------------------------------------------------------------------------
(* The converter of Chat Completions *)

AnyChat ==
  [index : [Calls -> Int], started : SUBSET Calls, dropped : SUBSET Calls,
   outputIndex : Int, reasoning : {"no", "open", "done"}, reasoningIndex : Int,
   nextIdx : Nat, inlineThink : ThinkModes, buffered : BOOLEAN,
   finishPending : BOOLEAN, sawFinishReason : BOOLEAN,
   done : BOOLEAN, terminalFailed : BOOLEAN, view : AnyView]

\* u is a converter that is as much at its end as t.
SameStage(t, u) ==
  /\ u \in AnyChat
  /\ u.done = t.done /\ u.finishPending = t.finishPending
  /\ u.sawFinishReason = t.sawFinishReason /\ u.terminalFailed = t.terminalFailed
  /\ u.view.ended = t.view.ended /\ u.view.over = t.view.over

\* The turn is not at its end; after finish_reason it waits for the usage.
ChatRun(t) ==
  /\ t \in AnyChat
  /\ ~t.done /\ ~t.terminalFailed /\ t.finishPending = t.sawFinishReason
  /\ t.view.ended = "no" /\ ~t.view.over

\* The turn is at its end: completed exactly if finish_reason came and nothing failed.
ChatEnded(t) ==
  /\ t \in AnyChat
  /\ t.done /\ ~t.finishPending /\ t.view.over
  /\ t.view.ended \in {"completed", "incomplete", "failed"}
  /\ t.view.ended = "completed" <=> t.sawFinishReason /\ ~t.terminalFailed
  /\ t.view.ended = "completed" => ~OnlyDroppedCalls(t)

LEMMA NewChatRuns == ChatRun(NewChat)
BY NewViewRuns DEF NewChat, ChatRun, AnyChat, NoIndex, ThinkModes

LEMMA SameStageRuns ==
  ASSUME NEW t, NEW u, ChatRun(t), SameStage(t, u)
  PROVE  ChatRun(u)
BY DEF SameStage, ChatRun

LEMMA SameStageReflexive ==
  ASSUME NEW t \in AnyChat
  PROVE  SameStage(t, t)
BY DEF SameStage

LEMMA SameStageTransitive ==
  ASSUME NEW t, NEW u, NEW w, SameStage(t, u), SameStage(u, w)
  PROVE  SameStage(t, w)
BY DEF SameStage

LEMMA NextIdxGrows ==
  ASSUME NEW t \in AnyChat
  PROVE  t.nextIdx \in Int /\ t.nextIdx + 1 \in Nat
<1>1. t.nextIdx \in Nat
  BY DEF AnyChat
<1> QED
  BY <1>1

\* A frame that does not end the turn leaves the converter at its stage.
LEMMA FrameSameStage ==
  ASSUME NEW t \in AnyChat, NEW w, SameEnd(t.view, w)
  PROVE  SameStage(t, [t EXCEPT !.view = w])
BY DEF SameStage, AnyChat, SameEnd

LEMMA PushReasoningSameStage ==
  ASSUME NEW t \in AnyChat
  PROVE  SameStage(t, PushReasoning(t))
<1> DEFINE i == IF t.reasoning = "no" THEN t.nextIdx ELSE t.reasoningIndex
           a == Announce(t.view, i)
           p == PartAdded(a, i, 0)
           v == IF t.reasoning = "no" THEN p ELSE t.view
           w == TextDelta(v, i, 0)
           n == IF t.reasoning = "no" THEN t.nextIdx + 1 ELSE t.nextIdx
           u == [t EXCEPT !.reasoning = "open", !.reasoningIndex = i, !.nextIdx = n,
                          !.view = w]
<1>1. PushReasoning(t) = IF t.reasoning = "done" THEN t ELSE u
  BY DEF PushReasoning
<1>2. i \in Int
  BY NextIdxGrows DEF AnyChat
<1>3. n \in Nat
  BY NextIdxGrows DEF AnyChat
<1> HIDE DEF i, n
<1>4. t.view \in AnyView
  BY DEF AnyChat
<1>5. SameEnd(t.view, a)
  BY <1>2, <1>4, AnnounceSameEnd
<1> HIDE DEF a
<1>6. SameEnd(t.view, p)
  BY <1>2, <1>5, PartAddedSameEnd DEF SameEnd
<1> HIDE DEF p
<1>7. SameEnd(t.view, v)
  BY <1>4, <1>6 DEF SameEnd
<1> HIDE DEF v
<1>8. SameEnd(t.view, w)
  BY <1>2, <1>7, TextDeltaSameEnd DEF SameEnd
<1> HIDE DEF w
<1>9. SameStage(t, u)
  BY <1>2, <1>3, <1>8 DEF SameStage, AnyChat, SameEnd
<1> QED
  BY <1>1, <1>9, SameStageReflexive

LEMMA FinalizeReasoningSameStage ==
  ASSUME NEW t \in AnyChat
  PROVE  SameStage(t, FinalizeReasoning(t))
<1> DEFINE i == t.reasoningIndex
           p == PartDone(t.view, i, 0)
           w == Finish(p, i)
<1>1. t.view \in AnyView /\ i \in Int
  BY DEF AnyChat
<1> HIDE DEF i
<1>2. SameEnd(t.view, p)
  BY <1>1, PartDoneSameEnd
<1> HIDE DEF p
<1>3. SameEnd(t.view, w)
  BY <1>1, <1>2, FinishSameEnd DEF SameEnd
<1>4. FinalizeReasoning(t) = IF t.reasoning # "open" THEN t
                             ELSE [t EXCEPT !.reasoning = "done", !.view = w]
  BY DEF FinalizeReasoning, i, p
<1> HIDE DEF w
<1>5. SameStage(t, [t EXCEPT !.reasoning = "done", !.view = w])
  BY <1>3 DEF SameStage, AnyChat, SameEnd
<1> QED
  BY <1>4, <1>5, SameStageReflexive

LEMMA StartTextSameStage ==
  ASSUME NEW t \in AnyChat
  PROVE  SameStage(t, StartText(t))
<1> DEFINE i == t.nextIdx
           n == t.nextIdx + 1
           a == Announce(t.view, i)
           w == PartAdded(a, i, 0)
<1>1. i \in Int /\ n \in Nat
  BY NextIdxGrows
<1>2. StartText(t) = [t EXCEPT !.outputIndex = i, !.nextIdx = n, !.view = w]
  BY DEF StartText
<1> HIDE DEF i, n
<1>3. SameEnd(t.view, a)
  BY <1>1, AnnounceSameEnd DEF AnyChat
<1> HIDE DEF a
<1>4. SameEnd(t.view, w)
  BY <1>1, <1>3, PartAddedSameEnd DEF SameEnd
<1> HIDE DEF w
<1> QED
  BY <1>1, <1>2, <1>4 DEF SameStage, AnyChat, SameEnd

LEMMA PushTextSameStage ==
  ASSUME NEW t \in AnyChat
  PROVE  SameStage(t, PushText(t))
<1> DEFINE f == FinalizeReasoning(t)
           s == IF textStarted(t) THEN t ELSE StartText(f)
<1>1. SameStage(t, f)
  BY FinalizeReasoningSameStage
<1> HIDE DEF f
<1>2. SameStage(t, s)
  BY <1>1, StartTextSameStage, SameStageReflexive, SameStageTransitive DEF SameStage
<1>3. PushText(t) = [s EXCEPT !.view = TextDelta(@, s.outputIndex, 0)]
  BY DEF PushText, f
<1> HIDE DEF s
<1>4. s \in AnyChat /\ s.view \in AnyView /\ s.outputIndex \in Int
  BY <1>2 DEF SameStage, AnyChat
<1>5. SameStage(s, [s EXCEPT !.view = TextDelta(s.view, s.outputIndex, 0)])
  BY <1>4, TextDeltaSameEnd, FrameSameStage
<1> QED
  BY <1>2, <1>3, <1>5, SameStageTransitive

LEMMA TextModeSameStage ==
  ASSUME NEW t \in AnyChat, NEW mode \in ThinkModes, NEW kept \in {TRUE, FALSE}
  PROVE  SameStage(t, [t EXCEPT !.inlineThink = mode, !.buffered = kept])
BY DEF SameStage, AnyChat

LEMMA FlushInlineThinkSameStage ==
  ASSUME NEW t \in AnyChat
  PROVE  SameStage(t, FlushInlineThink(t))
<1> DEFINE text == [t EXCEPT !.inlineThink = "text", !.buffered = FALSE]
<1>1. SameStage(t, text)
  BY TextModeSameStage DEF ThinkModes
<1>2. FlushInlineThink(t) = IF t.buffered THEN PushText(text) ELSE text
  BY DEF FlushInlineThink
<1> HIDE DEF text
<1>3. SameStage(text, PushText(text))
  BY <1>1, PushTextSameStage DEF SameStage
<1> QED
  BY <1>1, <1>2, <1>3, SameStageTransitive

Findings == {"partial", "tag", "thought", "hollow", "closed", "answered", "plain"}

LEMMA PushContentSameStage ==
  ASSUME NEW t \in AnyChat, NEW found \in Findings
  PROVE  SameStage(t, PushContent(t, found))
<1> DEFINE text == [t EXCEPT !.inlineThink = "text", !.buffered = FALSE]
           r == PushReasoning(text)
           thought == FinalizeReasoning(r)
<1>1. /\ SameStage(t, text)
      /\ SameStage(t, [t EXCEPT !.inlineThink = "reasoning", !.buffered = FALSE])
      /\ SameStage(t, [t EXCEPT !.inlineThink = "reasoning", !.buffered = TRUE])
  BY TextModeSameStage DEF ThinkModes
<1>2. SameStage(t, [t EXCEPT !.buffered = TRUE])
  BY DEF SameStage, AnyChat
<1>3. PushContent(t, found) =
        CASE found = "partial" -> [t EXCEPT !.buffered = TRUE]
          [] found = "tag" -> [t EXCEPT !.inlineThink = "reasoning", !.buffered = FALSE]
          [] found = "thought" -> [t EXCEPT !.inlineThink = "reasoning", !.buffered = TRUE]
          [] found = "hollow" -> text
          [] found = "closed" -> thought
          [] found = "answered" -> PushText(thought)
          [] found = "plain" -> PushText(text)
  BY DEF PushContent
<1> HIDE DEF text
<1>4. SameStage(text, r)
  BY <1>1, PushReasoningSameStage DEF SameStage
<1> HIDE DEF r
<1>5. SameStage(r, thought)
  BY <1>4, FinalizeReasoningSameStage DEF SameStage
<1> HIDE DEF thought
<1>6. SameStage(t, r)
  BY <1>1, <1>4, SameStageTransitive
<1>7. SameStage(t, thought)
  BY <1>5, <1>6, SameStageTransitive
<1>8. SameStage(thought, PushText(thought)) /\ SameStage(text, PushText(text))
  BY <1>1, <1>7, PushTextSameStage DEF SameStage
<1>9. SameStage(t, PushText(thought)) /\ SameStage(t, PushText(text))
  BY <1>1, <1>7, <1>8, SameStageTransitive
<1> QED
  BY <1>1, <1>2, <1>3, <1>7, <1>9 DEF Findings

LEMMA ToolFragmentSameStage ==
  ASSUME NEW t \in AnyChat, NEW c \in Calls, NEW named \in {TRUE, FALSE}
  PROVE  SameStage(t, ToolFragment(t, c, named))
<1> DEFINE g == FlushInlineThink(t)
           s == FinalizeReasoning(g)
           i == IF s.index[c] = NoIndex THEN s.nextIdx ELSE s.index[c]
           x == s.nextIdx + 1
           k == IF s.index[c] = NoIndex
                THEN [s EXCEPT !.index = [@ EXCEPT ![c] = i], !.nextIdx = x] ELSE s
           n == IF named /\ c \notin k.started
                THEN [k EXCEPT !.started = @ \cup {c}, !.view = Announce(@, i)] ELSE k
           o == IF c \in n.started THEN [n EXCEPT !.view = Delta(@, i)] ELSE n
<1>0. ToolFragment(t, c, named) = o
  BY DEF ToolFragment
<1>1. SameStage(t, g)
  BY FlushInlineThinkSameStage
<1> HIDE DEF g
<1>2. SameStage(g, s)
  BY <1>1, FinalizeReasoningSameStage DEF SameStage
<1> HIDE DEF s
<1>3. s \in AnyChat
  BY <1>2 DEF SameStage
<1>4. i \in Int /\ x \in Nat
  BY <1>3, NextIdxGrows DEF AnyChat
<1>5. [s.index EXCEPT ![c] = i] \in [Calls -> Int]
  BY <1>3, <1>4 DEF AnyChat
<1> HIDE DEF i, x
<1>6. SameStage(s, k)
  BY <1>3, <1>4, <1>5 DEF SameStage, AnyChat
<1> HIDE DEF k
<1>7. k \in AnyChat /\ SameEnd(k.view, Announce(k.view, i))
  BY <1>4, <1>6, AnnounceSameEnd DEF SameStage, AnyChat
<1>8. SameStage(k, n)
  BY <1>7 DEF SameStage, AnyChat, SameEnd
<1> HIDE DEF n
<1>9. n \in AnyChat /\ SameEnd(n.view, Delta(n.view, i))
  BY <1>4, <1>8, DeltaSameEnd DEF SameStage, AnyChat
<1>10. SameStage(n, o)
  BY <1>9, FrameSameStage, SameStageReflexive
<1> HIDE DEF o
<1>11. SameStage(t, s)
  BY <1>1, <1>2, SameStageTransitive
<1>12. SameStage(s, n)
  BY <1>6, <1>8, SameStageTransitive
<1>13. SameStage(t, n)
  BY <1>11, <1>12, SameStageTransitive
<1> QED
  BY <1>0, <1>10, <1>13, SameStageTransitive

LEMMA CountDroppedSameStage ==
  ASSUME NEW t \in AnyChat
  PROVE  SameStage(t, CountDropped(t))
<1> DEFINE D == {c \in Calls : t.index[c] # NoIndex} \ t.started
<1>1. D \in SUBSET Calls
  OBVIOUS
<1> HIDE DEF D
<1>2. SameStage(t, [t EXCEPT !.dropped = D])
  BY <1>1 DEF SameStage, AnyChat
<1> QED
  BY <1>2 DEF CountDropped, D

LEMMA CloseItemsSameEnd ==
  ASSUME NEW t \in AnyChat
  PROVE  SameEnd(t.view, CloseItems(t))
<1> DEFINE S == {t.index[c] : c \in t.started}
           tools == FinishAll(t.view, S)
           i == t.outputIndex
           p == PartDone(tools, i, 0)
<1>1. S \in SUBSET Int /\ i \in Int /\ t.view \in AnyView
  BY DEF AnyChat
<1>2. CloseItems(t) = IF textStarted(t) THEN Finish(p, i) ELSE tools
  BY DEF CloseItems
<1> HIDE DEF S, i
<1>3. SameEnd(t.view, tools)
  BY <1>1, FinishAllSameEnd
<1> HIDE DEF tools
<1>4. SameEnd(t.view, p)
  BY <1>1, <1>3, PartDoneSameEnd DEF SameEnd
<1> HIDE DEF p
<1>5. SameEnd(t.view, Finish(p, i))
  BY <1>1, <1>4, FinishSameEnd DEF SameEnd
<1> QED
  BY <1>2, <1>3, <1>5

-----------------------------------------------------------------------------
(* The ends of a Chat turn *)

LEMMA EmitFailedEnds ==
  ASSUME NEW t \in AnyChat, ~t.done, t.view.ended = "no", ~t.view.over
  PROVE  ChatEnded(EmitFailed(t))
<1> DEFINE w == Done(EndTurn(t.view, "failed"))
<1>1. w \in AnyView /\ w.over /\ w.ended = "failed"
  BY EndTurnEnds, DoneIsOver DEF Endings, AnyChat
<1> HIDE DEF w
<1>2. ChatEnded([t EXCEPT !.done = TRUE, !.finishPending = FALSE, !.terminalFailed = TRUE,
                          !.view = w])
  BY <1>1 DEF ChatEnded, AnyChat
<1> QED
  BY <1>2 DEF EmitFailed, w

LEMMA EmitCompletedEnds ==
  ASSUME NEW t, ChatRun(t), t.finishPending
  PROVE  ChatEnded(EmitCompleted(t))
<1> DEFINE w == Done(EndTurn(t.view, "completed"))
           u == [t EXCEPT !.done = TRUE, !.finishPending = FALSE, !.view = w]
<1>1. w \in AnyView /\ w.over /\ w.ended = "completed"
  BY EndTurnEnds, DoneIsOver DEF Endings, AnyChat, ChatRun
<1>2. ChatEnded(EmitFailed(t))
  BY EmitFailedEnds DEF ChatRun
<1>3. EmitCompleted(t) = IF OnlyDroppedCalls(t) THEN EmitFailed(t) ELSE u
  BY DEF EmitCompleted
<1> HIDE DEF w
<1>4. ASSUME ~OnlyDroppedCalls(t) PROVE ChatEnded(u)
  BY <1>1, <1>4 DEF ChatRun, ChatEnded, AnyChat, OnlyDroppedCalls
<1> QED
  BY <1>2, <1>3, <1>4

LEMMA FlushFinishEnds ==
  ASSUME NEW t, ChatRun(t)
  PROVE  ChatRun(FlushFinish(t)) \/ ChatEnded(FlushFinish(t))
<1> DEFINE a == [t EXCEPT !.sawFinishReason = TRUE]
           b == FlushInlineThink(a)
           c == FinalizeReasoning(b)
           s == CountDropped(c)
           w == CloseItems(s)
           u == [s EXCEPT !.finishPending = TRUE, !.view = w]
<1>1. /\ a \in AnyChat /\ a.sawFinishReason
      /\ ~a.done /\ ~a.terminalFailed /\ a.view.ended = "no" /\ ~a.view.over
  BY DEF ChatRun, AnyChat
<1>2. FlushFinish(t) = IF OnlyDroppedCalls(s) /\ ~Substantive(s) THEN EmitFailed(s) ELSE u
  BY DEF FlushFinish
<1> HIDE DEF a
<1>3. SameStage(a, b)
  BY <1>1, FlushInlineThinkSameStage
<1> HIDE DEF b
<1>4. SameStage(a, c)
  BY <1>3, FinalizeReasoningSameStage DEF SameStage
<1> HIDE DEF c
<1>5. SameStage(a, s)
  BY <1>4, CountDroppedSameStage DEF SameStage
<1> HIDE DEF s
<1>6. /\ s \in AnyChat /\ s.sawFinishReason
      /\ ~s.done /\ ~s.terminalFailed /\ s.view.ended = "no" /\ ~s.view.over
  BY <1>1, <1>5 DEF SameStage
<1>7. SameEnd(s.view, w)
  BY <1>6, CloseItemsSameEnd
<1>8. ChatEnded(EmitFailed(s))
  BY <1>6, EmitFailedEnds
<1> HIDE DEF w
<1>9. ChatRun(u)
  BY <1>6, <1>7 DEF ChatRun, AnyChat, SameEnd
<1> QED
  BY <1>2, <1>8, <1>9

LEMMA PushChoiceEnds ==
  ASSUME NEW t, ChatRun(t) \/ ChatEnded(t), NEW thinks \in {TRUE, FALSE},
         NEW fragment \in {<<>>} \cup (Calls \X BOOLEAN),
         NEW content \in {""} \cup Findings, NEW finish \in {TRUE, FALSE}
  PROVE  LET u == PushChoice(t, thinks, fragment, content, finish)
         IN  ChatRun(u) \/ ChatEnded(u)
<1> DEFINE r == IF thinks THEN PushReasoning(t) ELSE t
           f == IF fragment = <<>> THEN r ELSE ToolFragment(r, fragment[1], fragment[2])
           c == IF content = "" THEN f ELSE PushContent(f, content)
<1>1. PushChoice(t, thinks, fragment, content, finish) =
        IF t.done \/ t.finishPending THEN t ELSE IF finish THEN FlushFinish(c) ELSE c
  BY DEF PushChoice
<1>2. CASE t.done \/ t.finishPending
  BY <1>1, <1>2
<1>3. CASE ~(t.done \/ t.finishPending)
  <2>1. ChatRun(t) /\ t \in AnyChat
    BY <1>3 DEF ChatEnded, ChatRun
  <2>2. SameStage(t, r)
    BY <2>1, PushReasoningSameStage, SameStageReflexive
  <2> HIDE DEF r
  <2>3. SameStage(r, f)
    <3>1. CASE fragment = <<>>
      BY <3>1, <2>2, SameStageReflexive DEF SameStage
    <3>2. CASE fragment # <<>>
      <4>1. fragment[1] \in Calls /\ fragment[2] \in {TRUE, FALSE}
        BY <3>2
      <4>2. r \in AnyChat
        BY <2>2 DEF SameStage
      <4> QED
        BY <3>2, <4>1, <4>2, ToolFragmentSameStage
    <3> QED
      BY <3>1, <3>2
  <2> HIDE DEF f
  <2>4. SameStage(f, c)
    <3>1. f \in AnyChat
      BY <2>3 DEF SameStage
    <3> QED
      BY <3>1, PushContentSameStage, SameStageReflexive
  <2> HIDE DEF c
  <2>5. SameStage(t, f)
    BY <2>2, <2>3, SameStageTransitive
  <2>6. SameStage(t, c)
    BY <2>4, <2>5, SameStageTransitive
  <2>7. ChatRun(c)
    BY <2>1, <2>6, SameStageRuns
  <2> QED
    BY <1>1, <1>3, <2>7, FlushFinishEnds
<1> QED
  BY <1>2, <1>3

LEMMA PushUsageEnds ==
  ASSUME NEW t, ChatRun(t) \/ ChatEnded(t)
  PROVE  ChatRun(PushUsage(t)) \/ ChatEnded(PushUsage(t))
<1>1. CASE ChatRun(t)
  BY <1>1, EmitCompletedEnds DEF PushUsage
<1>2. CASE ChatEnded(t)
  BY <1>2 DEF PushUsage, ChatEnded
<1> QED
  BY <1>1, <1>2 DEF PushUsage

\* A stream that breaks off is completed only if its finish_reason had come.
LEMMA ChatFlushEnds ==
  ASSUME NEW t, ChatRun(t) \/ ChatEnded(t)
  PROVE  ChatEnded(ChatFlush(t))
<1> DEFINE a == FlushInlineThink(t)
           b == FinalizeReasoning(a)
           s == CountDropped(b)
           w == Done(EndTurn(s.view, "incomplete"))
           u == [s EXCEPT !.done = TRUE, !.view = w]
<1>1. ChatFlush(t) = IF t.done THEN t
                     ELSE IF t.finishPending THEN EmitCompleted(t)
                     ELSE IF OnlyDroppedCalls(s) \/ ~Substantive(s) THEN EmitFailed(s)
                     ELSE u
  BY DEF ChatFlush
<1>2. CASE t.done
  BY <1>1, <1>2 DEF ChatRun
<1>3. CASE ~t.done /\ t.finishPending
  BY <1>1, <1>3, EmitCompletedEnds DEF ChatEnded
<1>4. CASE ~t.done /\ ~t.finishPending
  <2>1. ChatRun(t) /\ t \in AnyChat
    BY <1>4 DEF ChatEnded, ChatRun
  <2>2. SameStage(t, a)
    BY <2>1, FlushInlineThinkSameStage
  <2> HIDE DEF a
  <2>3. SameStage(t, b)
    BY <2>2, FinalizeReasoningSameStage DEF SameStage
  <2> HIDE DEF b
  <2>4. SameStage(t, s)
    BY <2>3, CountDroppedSameStage DEF SameStage
  <2> HIDE DEF s
  <2>5. /\ s \in AnyChat /\ ~s.sawFinishReason
        /\ ~s.done /\ ~s.finishPending /\ s.view.ended = "no" /\ ~s.view.over
    BY <1>4, <2>1, <2>4 DEF SameStage, ChatRun
  <2>6. ChatEnded(EmitFailed(s))
    BY <2>5, EmitFailedEnds
  <2>7. w \in AnyView /\ w.over /\ w.ended = "incomplete"
    BY <2>5, EndTurnEnds, DoneIsOver DEF Endings, AnyChat
  <2> HIDE DEF w
  <2>8. ChatEnded(u)
    BY <2>5, <2>7 DEF ChatEnded, AnyChat
  <2> QED
    BY <1>1, <1>4, <2>6, <2>8
<1> QED
  BY <1>2, <1>3, <1>4

-----------------------------------------------------------------------------
(* A stream that is passed through *)

AnyRaw ==
  [protocol : Protocols, repairs : BOOLEAN, bridges : BOOLEAN,
   item : [Own -> ItemKinds \cup {""}],
   at : [Own -> {"none", "added", "argued", "done"}],
   tracked : SUBSET Own, told : [Own -> Nat], ran : [Own -> Nat], executed : SUBSET Own,
   listed : [Own -> {"", "asSent", "custom", "result"}],
   synthetic : Nat,
   sawData : BOOLEAN, sawDone : BOOLEAN, seen : BOOLEAN, mentioned : BOOLEAN, cut : BOOLEAN,
   view : AnyView]

LEMMA OwnIndices == Own \subseteq Int /\ Own \subseteq Indices
BY OwnAssumption, ClientAssumption DEF Indices

TurnOver == {"completed", "incomplete", "failed"}

\* What the relay has seen of the end is what the client was told of it.
RawEnds(t) ==
  /\ t \in AnyRaw
  /\ t.view.ended \in TurnOver \cup {"no", "error"}
  /\ t.view.over => t.view.ended # "no"
  /\ t.sawDone => t.view.over
  /\ t.seen => t.sawData
  /\ ~t.mentioned /\ t.protocol # "chat" => (t.seen <=> t.view.ended \in TurnOver)

\* A call is run once, by the stream or with the terminal event, and listed for what
\* it is.
CallInOrder(t, i) ==
  /\ t.item[i] \in {"custom", "image"} => t.protocol = "responses"
  /\ t.at[i] = "none" => i \notin t.tracked /\ i \notin t.executed
  /\ i \in t.executed => t.item[i] = "image" /\ t.bridges /\ i \notin t.tracked
  /\ t.ran[i] <= 1
  /\ t.view.ended = "no" /\ i \notin t.executed => t.ran[i] = 0
  /\ t.view.ended = "completed" /\ t.at[i] # "none" =>
       /\ Degraded(t, i) => t.listed[i] = "custom"
       /\ i \in t.executed => t.listed[i] = "result"

RawCalls(t) == \A i \in Own : CallInOrder(t, i)

\* u is a stream that is as much at its end as t.
SameRaw(t, u) ==
  /\ u \in AnyRaw
  /\ u.protocol = t.protocol /\ u.repairs = t.repairs /\ u.bridges = t.bridges
  /\ u.sawDone = t.sawDone /\ u.seen = t.seen /\ u.mentioned = t.mentioned
  /\ t.sawData => u.sawData
  /\ u.view.ended = t.view.ended /\ u.view.over = t.view.over

LEMMA SameRawEnds ==
  ASSUME NEW t, NEW u, RawEnds(t), SameRaw(t, u)
  PROVE  RawEnds(u)
BY DEF RawEnds, SameRaw

LEMMA SameRawTransitive ==
  ASSUME NEW t, NEW u, NEW w, SameRaw(t, u), SameRaw(u, w)
  PROVE  SameRaw(t, w)
BY DEF SameRaw

LEMMA NewRawInOrder ==
  ASSUME NEW t \in RawStates0
  PROVE  RawEnds(t) /\ RawCalls(t) /\ t.view = NewView /\ ~t.sawDone
<1>1. PICK p \in Protocols, repairs \in BOOLEAN, bridges \in BOOLEAN :
        t = NewRaw(p, repairs, bridges)
  BY DEF RawStates0
<1>2. t \in AnyRaw
  BY <1>1, OwnAssumption, NewViewRuns DEF NewRaw, AnyRaw
<1>3. /\ t.view = NewView /\ ~t.sawDone /\ ~t.seen /\ t.item = [i \in Own |-> ""]
      /\ t.executed = {} /\ t.tracked = {} /\ t.ran = [i \in Own |-> 0]
  BY <1>1 DEF NewRaw
<1>4. RawEnds(t)
  BY <1>2, <1>3, NewViewRuns DEF RawEnds, TurnOver
<1>5. ASSUME NEW i \in Own PROVE CallInOrder(t, i)
  <2>1. /\ t.item[i] = "" /\ t.ran[i] = 0 /\ i \notin t.executed /\ i \notin t.tracked
        /\ t.view.ended = "no"
    BY <1>3, NewViewRuns
  <2>2. t.ran[i] = 0
    BY <2>1
  <2>3. t.ran[i] <= 1
    BY <2>2, SMT
  <2> QED
    BY <2>1, <2>3 DEF CallInOrder
<1> QED
  BY <1>3, <1>4, <1>5 DEF RawCalls

LEMMA SentSame ==
  ASSUME NEW t \in AnyRaw
  PROVE  SameRaw(t, Sent(t)) /\ (RawCalls(t) => RawCalls(Sent(t)))
<1>1. SameRaw(t, Sent(t))
  BY DEF SameRaw, AnyRaw, Sent
<1>2. /\ Sent(t).item = t.item /\ Sent(t).at = t.at /\ Sent(t).tracked = t.tracked
      /\ Sent(t).executed = t.executed /\ Sent(t).ran = t.ran /\ Sent(t).listed = t.listed
  BY DEF AnyRaw, Sent
<1> QED
  BY <1>1, <1>2 DEF SameRaw, RawCalls, CallInOrder, Degraded

\* A frame about an item that no call is.
LEMMA FrameSameRaw ==
  ASSUME NEW t \in AnyRaw, NEW w, SameEnd(t.view, w)
  PROVE  /\ SameRaw(t, [t EXCEPT !.view = w])
         /\ RawCalls(t) => RawCalls([t EXCEPT !.view = w])
<1> DEFINE u == [t EXCEPT !.view = w]
<1>1. SameRaw(t, u)
  BY DEF SameRaw, AnyRaw, SameEnd
<1>2. /\ u.item = t.item /\ u.at = t.at /\ u.tracked = t.tracked
      /\ u.executed = t.executed /\ u.ran = t.ran /\ u.listed = t.listed
  BY DEF AnyRaw
<1> HIDE DEF u
<1>3. RawCalls(t) => RawCalls(u)
  BY <1>1, <1>2 DEF SameRaw, RawCalls, CallInOrder, Degraded
<1> QED
  BY <1>1, <1>3 DEF u

LEMMA ItemAddedInOrder ==
  ASSUME NEW t, RawEnds(t), RawCalls(t), t.view.ended = "no",
         NEW i \in Own, NEW sort \in ItemKinds, t.at[i] = "none",
         sort # "plain" => t.protocol = "responses"
  PROVE  RawEnds(ItemAdded(t, i, sort)) /\ RawCalls(ItemAdded(t, i, sort))
<1> DEFINE a == Announce(t.view, i)
           u == [t EXCEPT !.item[i] = sort, !.at[i] = "added", !.view = a]
           T == IF BridgeCall(u, i) \/ Degraded(u, i) THEN t.tracked \cup {i} ELSE t.tracked
           w == [u EXCEPT !.tracked = T]
<1>1. t \in AnyRaw /\ t.view \in AnyView /\ i \in Int
  BY OwnIndices DEF RawEnds, AnyRaw
<1>2. SameEnd(t.view, a)
  BY <1>1, AnnounceSameEnd
<1>3. T \in SUBSET Own
  BY <1>1 DEF AnyRaw
<1> HIDE DEF a
<1>4. u.tracked = t.tracked
  BY <1>1 DEF AnyRaw
<1>5. ItemAdded(t, i, sort) = Sent(w)
  BY <1>4 DEF ItemAdded, a
<1> HIDE DEF T
<1>6. SameRaw(t, w)
  BY <1>1, <1>2, <1>3 DEF SameRaw, AnyRaw, SameEnd
<1>7. /\ w.item = [t.item EXCEPT ![i] = sort] /\ w.at = [t.at EXCEPT ![i] = "added"]
      /\ w.tracked = T /\ w.executed = t.executed /\ w.ran = t.ran /\ w.listed = t.listed
  BY <1>1 DEF AnyRaw
<1> HIDE DEF w, u
<1>8. t.item \in [Own -> ItemKinds \cup {""}] /\ t.at \in [Own -> {"none", "added", "argued", "done"}]
  BY <1>1 DEF AnyRaw
<1>9. ASSUME NEW j \in Own PROVE CallInOrder(w, j)
  <2>1. CallInOrder(t, j) /\ CallInOrder(t, i)
    BY DEF RawCalls
  <2>2. /\ w.item[j] = IF j = i THEN sort ELSE t.item[j]
        /\ w.at[j] = IF j = i THEN "added" ELSE t.at[j]
    BY <1>7, <1>8
  <2>3. j # i => (j \in T <=> j \in t.tracked)
    BY DEF T
  <2>4. w.view.ended = "no"
    BY <1>6 DEF SameRaw
  <2>5. w.ran[j] <= 1 /\ (j \notin w.executed => w.ran[j] = 0)
    BY <1>7, <2>1 DEF CallInOrder
  <2>6. w.item[j] \in {"custom", "image"} => w.protocol = "responses"
    BY <1>6, <2>1, <2>2 DEF CallInOrder, SameRaw, ItemKinds
  <2>7. w.at[j] = "none" => j \notin w.tracked /\ j \notin w.executed
    BY <1>7, <2>1, <2>2, <2>3 DEF CallInOrder
  <2>8. j \in w.executed => w.item[j] = "image" /\ w.bridges /\ j \notin w.tracked
    BY <1>6, <1>7, <2>1, <2>2, <2>3 DEF CallInOrder, SameRaw
  <2> QED
    BY <2>4, <2>5, <2>6, <2>7, <2>8 DEF CallInOrder
<1>10. RawEnds(w) /\ w \in AnyRaw
  BY <1>6, SameRawEnds DEF SameRaw
<1>11. RawCalls(w)
  BY <1>9 DEF RawCalls
<1> QED
  BY <1>5, <1>10, <1>11, SentSame, SameRawEnds

LEMMA ArgumentsDeltaInOrder ==
  ASSUME NEW t, RawEnds(t), RawCalls(t), NEW i \in Own
  PROVE  RawEnds(ArgumentsDelta(t, i)) /\ RawCalls(ArgumentsDelta(t, i))
<1> DEFINE w == [t EXCEPT !.view = Delta(@, i)]
<1>1. t \in AnyRaw /\ t.view \in AnyView /\ i \in Int
  BY OwnIndices DEF RawEnds, AnyRaw
<1>2. SameRaw(t, w) /\ RawCalls(w)
  BY <1>1, DeltaSameEnd, FrameSameRaw
<1>3. RawEnds(w) /\ w \in AnyRaw
  BY <1>2, SameRawEnds DEF SameRaw
<1>4. ArgumentsDelta(t, i) = IF i \in t.tracked THEN t ELSE Sent(w)
  BY DEF ArgumentsDelta
<1> HIDE DEF w
<1> QED
  BY <1>2, <1>3, <1>4, SentSame, SameRawEnds

\* The repaired input of a custom call: two frames, and no call is run.
LEMMA InputDoneInOrder ==
  ASSUME NEW t, RawEnds(t), RawCalls(t), NEW i \in Own
  PROVE  /\ RawEnds(inputDoneFrames(t, i)) /\ RawCalls(inputDoneFrames(t, i))
         /\ SameRaw(t, inputDoneFrames(t, i))
         /\ inputDoneFrames(t, i).at = t.at
         /\ inputDoneFrames(t, i).tracked = t.tracked
<1> DEFINE n == t.told[i] + 1
           d == Delta(t.view, i)
           e == Delta(d, i)
           w == [t EXCEPT !.told = [@ EXCEPT ![i] = n], !.view = e]
<1>1. t \in AnyRaw /\ t.view \in AnyView /\ i \in Int
  BY OwnIndices DEF RawEnds, AnyRaw
<1>2. n \in Nat
  <2>1. t.told[i] \in Nat
    BY <1>1 DEF AnyRaw
  <2> QED
    BY <2>1
<1>3. inputDoneFrames(t, i) = w
  BY DEF inputDoneFrames
<1> HIDE DEF n
<1>4. SameEnd(t.view, d)
  BY <1>1, DeltaSameEnd
<1> HIDE DEF d
<1>5. SameEnd(t.view, e)
  BY <1>1, <1>4, DeltaSameEnd DEF SameEnd
<1> HIDE DEF e
<1>6. [t.told EXCEPT ![i] = n] \in [Own -> Nat]
  BY <1>1, <1>2 DEF AnyRaw
<1>7. SameRaw(t, w)
  BY <1>1, <1>5, <1>6 DEF SameRaw, AnyRaw, SameEnd
<1>8. /\ w.item = t.item /\ w.at = t.at /\ w.tracked = t.tracked
      /\ w.executed = t.executed /\ w.ran = t.ran /\ w.listed = t.listed
  BY <1>1 DEF AnyRaw
<1> HIDE DEF w
<1>9. RawCalls(w)
  BY <1>7, <1>8 DEF SameRaw, RawCalls, CallInOrder, Degraded
<1> QED
  BY <1>3, <1>7, <1>8, <1>9, SameRawEnds

\* The frames of a call that is run do not end the turn.
LEMMA BridgeResultSameEnd ==
  ASSUME NEW v \in AnyView, NEW i \in Int, NEW n \in Nat, NEW outcome
  PROVE  LET f == Finish(v, i)
         IN  SameEnd(v, IF outcome = "image"
                        THEN Finish(Announce(Finish(Announce(f, n), n), n + 1), n + 1)
                        ELSE Finish(Announce(f, n), n + 1))
<1> DEFINE m == n + 1
           f == Finish(v, i)
           a == Announce(f, n)
           b == Finish(a, n)
           c == Announce(b, m)
           d == Finish(c, m)
           e == Finish(a, m)
<1>1. n \in Int /\ m \in Int
  OBVIOUS
<1> SUFFICES SameEnd(v, d) /\ SameEnd(v, e)
  OBVIOUS
<1> HIDE DEF m
<1>2. SameEnd(v, f)
  BY FinishSameEnd
<1> HIDE DEF f
<1>3. SameEnd(v, a)
  BY <1>1, <1>2, AnnounceSameEnd DEF SameEnd
<1> HIDE DEF a
<1>4. SameEnd(v, b) /\ SameEnd(v, e)
  BY <1>1, <1>3, FinishSameEnd DEF SameEnd
<1> HIDE DEF b, e
<1>5. SameEnd(v, c)
  BY <1>1, <1>4, AnnounceSameEnd DEF SameEnd
<1> HIDE DEF c
<1>6. SameEnd(v, d)
  BY <1>1, <1>5, FinishSameEnd DEF SameEnd
<1> QED
  BY <1>4, <1>6

LEMMA BridgeResultInOrder ==
  ASSUME NEW t, RawEnds(t), RawCalls(t), t.view.ended = "no",
         NEW i \in Own, NEW outcome \in Outcomes,
         t.item[i] = "image", t.bridges, i \notin t.executed, t.at[i] # "none"
  PROVE  /\ RawEnds(emitBridgeResult(t, i, outcome))
         /\ RawCalls(emitBridgeResult(t, i, outcome))
<1> DEFINE n == t.synthetic
           f == Finish(t.view, i)
           v == IF outcome = "image"
                THEN Finish(Announce(Finish(Announce(f, n), n), n + 1), n + 1)
                ELSE Finish(Announce(f, n), n + 1)
           x == IF outcome = "unparsable" THEN t.ran[i] ELSE t.ran[i] + 1
           y == n + 2
           w == [t EXCEPT !.executed = @ \cup {i}, !.tracked = @ \ {i}, !.synthetic = y,
                          !.ran = [@ EXCEPT ![i] = x], !.view = v]
<1>1. t \in AnyRaw /\ t.view \in AnyView /\ i \in Int
  BY OwnIndices DEF RawEnds, AnyRaw
<1>2. n \in Nat /\ y \in Nat
  <2>1. n \in Nat
    BY <1>1 DEF AnyRaw
  <2> QED
    BY <2>1
<1>3. CallInOrder(t, i)
  BY DEF RawCalls
<1>4. t.ran[i] = 0
  BY <1>3 DEF CallInOrder
<1>5. x \in {0, 1} /\ x \in Nat
  BY <1>4
<1>6. emitBridgeResult(t, i, outcome) = w
  BY DEF emitBridgeResult
<1>7. SameEnd(t.view, v)
  BY <1>1, <1>2, BridgeResultSameEnd
<1> HIDE DEF n, f, v, x, y
<1>8. [t.ran EXCEPT ![i] = x] \in [Own -> Nat] /\ t.ran \in [Own -> Nat]
  BY <1>1, <1>5 DEF AnyRaw
<1>9. SameRaw(t, w)
  BY <1>1, <1>2, <1>7, <1>8 DEF SameRaw, AnyRaw, SameEnd
<1>10. /\ w.item = t.item /\ w.at = t.at /\ w.tracked = t.tracked \ {i}
       /\ w.executed = t.executed \cup {i} /\ w.ran = [t.ran EXCEPT ![i] = x]
       /\ w.listed = t.listed
  BY <1>1 DEF AnyRaw
<1> HIDE DEF w
<1>11. ASSUME NEW j \in Own PROVE CallInOrder(w, j)
  <2>1. CallInOrder(t, j)
    BY DEF RawCalls
  <2>2. w.ran[j] = IF j = i THEN x ELSE t.ran[j]
    BY <1>8, <1>10
  <2>3. w.view.ended = "no"
    BY <1>9 DEF SameRaw
  <2>4. w.ran[j] <= 1 /\ (j \notin w.executed => w.ran[j] = 0)
    <3>1. t.ran[j] <= 1 /\ (j \notin t.executed => t.ran[j] = 0)
      BY <2>1 DEF CallInOrder
    <3>2. CASE j = i
      BY <3>2, <1>5, <1>10, <2>2
    <3>3. CASE j # i
      BY <3>1, <3>3, <1>10, <2>2
    <3> QED
      BY <3>2, <3>3
  <2>5. w.item[j] \in {"custom", "image"} => w.protocol = "responses"
    BY <1>9, <1>10, <2>1 DEF CallInOrder, SameRaw
  <2>6. w.at[j] = "none" => j \notin w.tracked /\ j \notin w.executed
    BY <1>10, <2>1 DEF CallInOrder
  <2>7. j \in w.executed => w.item[j] = "image" /\ w.bridges /\ j \notin w.tracked
    BY <1>9, <1>10, <2>1 DEF CallInOrder, SameRaw
  <2> QED
    BY <2>3, <2>4, <2>5, <2>6, <2>7 DEF CallInOrder
<1>12. RawCalls(w)
  BY <1>11 DEF RawCalls
<1> QED
  BY <1>6, <1>9, <1>12, SameRawEnds

\* Upstream gets on with an item it has announced.
LEMMA ProgressInOrder ==
  ASSUME NEW t, RawEnds(t), RawCalls(t), t.view.ended = "no",
         NEW i \in Own, t.at[i] # "none", NEW stage \in {"argued", "done"}
  PROVE  LET u == [t EXCEPT !.at[i] = stage]
         IN  /\ RawEnds(u) /\ RawCalls(u) /\ SameRaw(t, u)
             /\ u.at[i] = stage /\ u.item = t.item
             /\ u.tracked = t.tracked /\ u.executed = t.executed /\ u.view = t.view
<1> DEFINE u == [t EXCEPT !.at[i] = stage]
<1>1. t \in AnyRaw
  BY DEF RawEnds
<1>2. SameRaw(t, u)
  BY <1>1 DEF SameRaw, AnyRaw
<1>3. /\ u.item = t.item /\ u.at = [t.at EXCEPT ![i] = stage] /\ u.tracked = t.tracked
      /\ u.executed = t.executed /\ u.ran = t.ran /\ u.listed = t.listed /\ u.view = t.view
      /\ t.at \in [Own -> {"none", "added", "argued", "done"}]
  BY <1>1 DEF AnyRaw
<1> HIDE DEF u
<1>4. \A j \in Own : u.at[j] = IF j = i THEN stage ELSE t.at[j]
  BY <1>3
<1>5. RawCalls(u)
  BY <1>2, <1>3, <1>4 DEF SameRaw, RawCalls, CallInOrder, Degraded
<1> QED
  BY <1>2, <1>3, <1>4, <1>5, SameRawEnds DEF u

LEMMA ArgumentsDoneInOrder ==
  ASSUME NEW t, RawEnds(t), RawCalls(t), t.view.ended = "no",
         NEW i \in Own, NEW outcome \in Outcomes, t.at[i] = "added"
  PROVE  RawEnds(ArgumentsDone(t, i, outcome)) /\ RawCalls(ArgumentsDone(t, i, outcome))
<1> DEFINE u == [t EXCEPT !.at[i] = "argued"]
           w == [u EXCEPT !.view = Delta(@, i)]
<1>1. /\ RawEnds(u) /\ RawCalls(u) /\ SameRaw(t, u) /\ u.at[i] = "argued"
      /\ u.item = t.item /\ u.tracked = t.tracked /\ u.executed = t.executed
      /\ u.view = t.view
  BY ProgressInOrder
<1>2. ArgumentsDone(t, i, outcome) =
        IF i \notin t.tracked THEN Sent(w)
        ELSE IF BridgeCall(t, i) THEN emitBridgeResult(u, i, outcome)
        ELSE inputDoneFrames(u, i)
  BY DEF ArgumentsDone
<1> HIDE DEF u
<1>3. SameRaw(u, w) /\ RawCalls(w)
  <2>1. u \in AnyRaw /\ u.view \in AnyView /\ i \in Int
    BY <1>1, OwnIndices DEF RawEnds, AnyRaw
  <2> QED
    BY <1>1, <2>1, DeltaSameEnd, FrameSameRaw
<1> HIDE DEF w
<1>4. RawEnds(Sent(w)) /\ RawCalls(Sent(w))
  <2>1. RawEnds(w) /\ w \in AnyRaw
    BY <1>1, <1>3, SameRawEnds DEF SameRaw
  <2> QED
    BY <1>3, <2>1, SentSame, SameRawEnds
<1>5. RawEnds(inputDoneFrames(u, i)) /\ RawCalls(inputDoneFrames(u, i))
  BY <1>1, InputDoneInOrder
<1>6. ASSUME i \in t.tracked, BridgeCall(t, i)
      PROVE  RawEnds(emitBridgeResult(u, i, outcome)) /\ RawCalls(emitBridgeResult(u, i, outcome))
  <2>1. CallInOrder(t, i)
    BY DEF RawCalls
  <2>2. i \notin t.executed
    BY <1>6, <2>1 DEF CallInOrder
  <2>3. u.item[i] = "image" /\ u.bridges /\ i \notin u.executed /\ u.at[i] # "none"
        /\ u.view.ended = "no"
    BY <1>1, <1>6, <2>2 DEF BridgeCall, SameRaw
  <2> QED
    BY <1>1, <2>3, BridgeResultInOrder
<1> QED
  BY <1>2, <1>4, <1>5, <1>6

LEMMA ItemDoneInOrder ==
  ASSUME NEW t, RawEnds(t), RawCalls(t), t.view.ended = "no",
         NEW i \in Own, NEW outcome \in Outcomes, t.at[i] # "none"
  PROVE  RawEnds(ItemDone(t, i, outcome)) /\ RawCalls(ItemDone(t, i, outcome))
<1> DEFINE u == [t EXCEPT !.at[i] = "done"]
           w == IF i \in t.tracked /\ t.at[i] # "argued" THEN inputDoneFrames(u, i) ELSE u
           v == Finish(w.view, i)
           x == [w EXCEPT !.tracked = @ \ {i}, !.view = v]
<1>1. /\ RawEnds(u) /\ RawCalls(u) /\ SameRaw(t, u) /\ u.at[i] = "done"
      /\ u.item = t.item /\ u.tracked = t.tracked /\ u.executed = t.executed
      /\ u.view = t.view
  BY ProgressInOrder
<1>2. ItemDone(t, i, outcome) =
        IF BridgeCall(t, i)
        THEN IF i \in t.executed THEN u ELSE emitBridgeResult(u, i, outcome)
        ELSE x
  BY DEF ItemDone
<1> HIDE DEF u
<1>3. RawEnds(w) /\ RawCalls(w) /\ w.at[i] = "done" /\ w.view.ended = "no"
  BY <1>1, InputDoneInOrder DEF SameRaw
<1> HIDE DEF w
<1>4. w \in AnyRaw /\ SameEnd(w.view, v)
  BY <1>3, OwnIndices, FinishSameEnd DEF RawEnds, AnyRaw
<1> HIDE DEF v
<1>5. SameRaw(w, x)
  BY <1>4 DEF SameRaw, AnyRaw, SameEnd
<1>6. /\ x.item = w.item /\ x.at = w.at /\ x.tracked = w.tracked \ {i}
      /\ x.executed = w.executed /\ x.ran = w.ran /\ x.listed = w.listed
  BY <1>4 DEF AnyRaw
<1> HIDE DEF x
<1>7. RawCalls(x) /\ RawEnds(x)
  BY <1>3, <1>5, <1>6, SameRawEnds DEF SameRaw, RawCalls, CallInOrder, Degraded
<1>8. ASSUME BridgeCall(t, i), i \notin t.executed
      PROVE  RawEnds(emitBridgeResult(u, i, outcome)) /\ RawCalls(emitBridgeResult(u, i, outcome))
  <2>1. u.item[i] = "image" /\ u.bridges /\ i \notin u.executed /\ u.at[i] # "none"
        /\ u.view.ended = "no"
    BY <1>1, <1>8 DEF BridgeCall, SameRaw
  <2> QED
    BY <1>1, <2>1, BridgeResultInOrder
<1> QED
  BY <1>1, <1>2, <1>7, <1>8

\* The calls that are left are run with the terminal event, each for the first time.
LEMMA InterceptInOrder ==
  ASSUME NEW t, RawEnds(t), RawCalls(t), t.view.ended = "no",
         NEW outcome \in [Own -> Outcomes]
  PROVE  LET u == interceptBridgeNonStreaming(t, outcome)
         IN  /\ SameRaw(t, u) /\ u.view = t.view
             /\ u.item = t.item /\ u.at = t.at /\ u.tracked = t.tracked
             /\ u.executed = t.executed
             /\ \A i \in Own :
                  /\ u.ran[i] <= 1
                  /\ u.at[i] # "none" =>
                       /\ Degraded(u, i) => u.listed[i] = "custom"
                       /\ i \in u.executed => u.listed[i] = "result"
<1> DEFINE late == {i \in Own : BridgeCall(t, i) /\ i \notin t.executed}
           R == [i \in Own |-> IF i \in late /\ outcome[i] # "unparsable" THEN t.ran[i] + 1
                              ELSE t.ran[i]]
           L == [i \in Own |->
                   IF t.at[i] = "none" THEN ""
                   ELSE IF Degraded(t, i) THEN "custom"
                   ELSE IF i \in t.executed \/ (i \in late /\ outcome[i] = "image") THEN "result"
                   ELSE "asSent"]
           u == [t EXCEPT !.ran = R, !.listed = L]
<1>1. t \in AnyRaw
  BY DEF RawEnds
<1>2. interceptBridgeNonStreaming(t, outcome) = u
  BY DEF interceptBridgeNonStreaming
<1>3. ASSUME NEW i \in Own
      PROVE  /\ R[i] \in Nat /\ R[i] <= 1
             /\ L[i] \in {"", "asSent", "custom", "result"}
             /\ t.at[i] # "none" => /\ Degraded(t, i) => L[i] = "custom"
                                    /\ i \in t.executed => L[i] = "result"
  <2>1. CallInOrder(t, i)
    BY DEF RawCalls
  <2>2. t.ran[i] \in Nat /\ t.ran[i] <= 1 /\ (i \in late => t.ran[i] = 0)
    <3>1. t.ran[i] \in Nat
      BY <1>1 DEF AnyRaw
    <3> QED
      BY <3>1, <2>1 DEF CallInOrder
  <2>3. R[i] \in Nat /\ R[i] <= 1
    <3> HIDE DEF late
    <3> QED
      BY <2>2
  <2>4. i \in t.executed => ~Degraded(t, i)
    BY <2>1 DEF CallInOrder, Degraded
  <2>5. /\ L[i] \in {"", "asSent", "custom", "result"}
        /\ t.at[i] # "none" => /\ Degraded(t, i) => L[i] = "custom"
                               /\ i \in t.executed => L[i] = "result"
    <3> HIDE DEF late
    <3> QED
      BY <2>4
  <2> QED
    BY <2>3, <2>5
<1>4. R \in [Own -> Nat] /\ L \in [Own -> {"", "asSent", "custom", "result"}]
  <2>1. DOMAIN R = Own /\ DOMAIN L = Own
    OBVIOUS
  <2>2. R = [i \in Own |-> R[i]] /\ L = [i \in Own |-> L[i]]
    OBVIOUS
  <2> HIDE DEF R, L
  <2> QED
    BY <1>3, <2>2
<1> HIDE DEF R, L, late
<1>5. SameRaw(t, u)
  BY <1>1, <1>4 DEF SameRaw, AnyRaw
<1>6. /\ u.view = t.view /\ u.item = t.item /\ u.at = t.at /\ u.tracked = t.tracked
      /\ u.executed = t.executed /\ u.ran = R /\ u.listed = L
  BY <1>1 DEF AnyRaw
<1> HIDE DEF u
<1>7. \A i \in Own : Degraded(u, i) <=> Degraded(t, i)
  BY <1>5, <1>6 DEF Degraded, SameRaw
<1>8. ASSUME NEW i \in Own
      PROVE  /\ u.ran[i] <= 1
             /\ u.at[i] # "none" =>
                  /\ Degraded(u, i) => u.listed[i] = "custom"
                  /\ i \in u.executed => u.listed[i] = "result"
  <2>1. R[i] <= 1
    BY <1>3
  <2>2. u.ran[i] <= 1
    BY <2>1, <1>6
  <2>3. u.at[i] # "none" =>
          /\ Degraded(u, i) => u.listed[i] = "custom"
          /\ i \in u.executed => u.listed[i] = "result"
    BY <1>3, <1>6, <1>7
  <2> QED
    BY <2>2, <2>3
<1> QED
  BY <1>2, <1>5, <1>6, <1>8

LEMMA TerminalEventInOrder ==
  ASSUME NEW t, RawEnds(t), RawCalls(t), t.view.ended = "no",
         NEW how \in TurnOver, NEW outcome \in [Own -> Outcomes]
  PROVE  RawEnds(TerminalEvent(t, how, outcome)) /\ RawCalls(TerminalEvent(t, how, outcome))
<1> DEFINE u == IF t.protocol = "responses" THEN interceptBridgeNonStreaming(t, outcome) ELSE t
           v == EndTurn(t.view, how)
           w == IF doneNet(t) THEN v ELSE Done(v)
           S == u.seen \/ t.protocol # "chat"
           x == [u EXCEPT !.seen = S, !.view = w]
           y == Sent(x)
<1>1. t \in AnyRaw /\ t.view \in AnyView /\ ~t.view.over /\ how \in Endings
  BY DEF RawEnds, AnyRaw, TurnOver, Endings
<1>2. TerminalEvent(t, how, outcome) = y
  BY DEF TerminalEvent
<1>3. SameRaw(t, u) /\ u.item = t.item /\ u.at = t.at /\ u.tracked = t.tracked
      /\ u.executed = t.executed
  <2>1. SameRaw(t, t)
    BY <1>1 DEF SameRaw
  <2> QED
    BY <2>1, InterceptInOrder
<1>4. \A i \in Own :
        /\ u.ran[i] <= 1
        /\ u.at[i] # "none" =>
             /\ Degraded(u, i) => u.listed[i] = "custom"
             /\ i \in u.executed => u.listed[i] = "result"
  <2>1. CASE t.protocol = "responses"
    BY <2>1, InterceptInOrder
  <2>2. CASE t.protocol # "responses"
    BY <2>2 DEF RawCalls, CallInOrder, Degraded
  <2> QED
    BY <2>1, <2>2
<1> HIDE DEF u
<1>5. /\ v \in AnyView /\ v.ended = how /\ ~v.over
  BY <1>1, EndTurnEnds
<1> HIDE DEF v
<1>6. /\ w \in AnyView /\ w.ended = how
  BY <1>5, DoneIsOver
<1> HIDE DEF w
<1>7. S \in BOOLEAN /\ u \in AnyRaw
  BY <1>3 DEF SameRaw, AnyRaw
<1>8. S = (u.seen \/ t.protocol # "chat")
  OBVIOUS
<1> HIDE DEF S
<1>9. x \in AnyRaw /\ x.view = w /\ x.seen = S
  BY <1>6, <1>7 DEF AnyRaw
<1>10. /\ x.protocol = u.protocol /\ x.repairs = u.repairs /\ x.bridges = u.bridges
       /\ x.sawDone = u.sawDone /\ x.mentioned = u.mentioned
       /\ x.item = u.item /\ x.at = u.at /\ x.tracked = u.tracked
       /\ x.executed = u.executed /\ x.ran = u.ran /\ x.listed = u.listed
  BY <1>7 DEF AnyRaw
<1> HIDE DEF x
<1>11. SameRaw(x, y) /\ y.sawData
  BY <1>9, SentSame DEF Sent, AnyRaw
<1>12. RawEnds(y)
  <2>1. ~t.sawDone
    BY <1>1 DEF RawEnds
  <2> QED
    BY <1>3, <1>6, <1>8, <1>9, <1>10, <1>11, <2>1 DEF SameRaw, RawEnds, TurnOver
<1>13. ASSUME NEW i \in Own PROVE CallInOrder(x, i)
  <2>1. CallInOrder(t, i)
    BY DEF RawCalls
  <2>2. x.ran[i] <= 1
    BY <1>4, <1>10
  <2>3. x.view.ended # "no"
    BY <1>6, <1>9 DEF TurnOver
  <2>4. /\ x.item[i] \in {"custom", "image"} => x.protocol = "responses"
        /\ x.at[i] = "none" => i \notin x.tracked /\ i \notin x.executed
        /\ i \in x.executed => x.item[i] = "image" /\ x.bridges /\ i \notin x.tracked
    BY <1>3, <1>10, <2>1 DEF CallInOrder, SameRaw
  <2>5. x.at[i] # "none" =>
          /\ Degraded(x, i) => x.listed[i] = "custom"
          /\ i \in x.executed => x.listed[i] = "result"
    BY <1>4, <1>10 DEF Degraded
  <2> QED
    BY <2>2, <2>3, <2>4, <2>5 DEF CallInOrder
<1>14. RawCalls(x)
  BY <1>13 DEF RawCalls
<1> QED
  BY <1>2, <1>9, <1>12, <1>14, SentSame

LEMMA TextPassesInOrder ==
  ASSUME NEW t, RawEnds(t), RawCalls(t), NEW i \in Own, NEW mention \in {TRUE, FALSE}
  PROVE  RawEnds(TextPasses(t, i, mention)) /\ RawCalls(TextPasses(t, i, mention))
<1> DEFINE w == Delta(t.view, i)
           u == [t EXCEPT !.view = w, !.seen = @ \/ mention, !.mentioned = @ \/ mention]
<1>1. t \in AnyRaw /\ SameEnd(t.view, w)
  BY OwnIndices, DeltaSameEnd DEF RawEnds, AnyRaw
<1>2. TextPasses(t, i, mention) = Sent(u)
  BY DEF TextPasses
<1> HIDE DEF w
<1>3. /\ u \in AnyRaw /\ Sent(u) \in AnyRaw /\ Sent(u).sawData
      /\ u.seen = (t.seen \/ mention) /\ u.mentioned = (t.mentioned \/ mention)
      /\ u.view = w
  BY <1>1 DEF AnyRaw, SameEnd, Sent
<1>4. /\ u.protocol = t.protocol /\ u.repairs = t.repairs /\ u.bridges = t.bridges
      /\ u.sawDone = t.sawDone
      /\ u.item = t.item /\ u.at = t.at /\ u.tracked = t.tracked
      /\ u.executed = t.executed /\ u.ran = t.ran /\ u.listed = t.listed
  BY <1>1 DEF AnyRaw
<1> HIDE DEF u
<1>5. SameRaw(u, Sent(u))
  BY <1>3, SentSame
<1>6. RawEnds(Sent(u))
  BY <1>1, <1>3, <1>4, <1>5 DEF SameRaw, SameEnd, RawEnds
<1>7. RawCalls(u)
  BY <1>1, <1>3, <1>4 DEF RawCalls, CallInOrder, Degraded, SameEnd
<1> QED
  BY <1>2, <1>3, <1>6, <1>7, SentSame

LEMMA DonePassesInOrder ==
  ASSUME NEW t, RawEnds(t), RawCalls(t), t.view.ended # "no"
  PROVE  RawEnds(DonePasses(t)) /\ RawCalls(DonePasses(t))
<1> DEFINE w == Done(t.view)
           u == [t EXCEPT !.sawDone = TRUE, !.view = w]
<1>1. t \in AnyRaw /\ w \in AnyView /\ w.over /\ w.ended = t.view.ended
  BY DoneIsOver DEF RawEnds, AnyRaw
<1>2. DonePasses(t) = Sent(u)
  BY DEF DonePasses
<1> HIDE DEF w
<1>3. /\ u \in AnyRaw /\ u.view = w /\ u.seen = t.seen /\ u.mentioned = t.mentioned
      /\ u.sawData = t.sawData
      /\ u.protocol = t.protocol /\ u.repairs = t.repairs /\ u.bridges = t.bridges
      /\ u.item = t.item /\ u.at = t.at /\ u.tracked = t.tracked
      /\ u.executed = t.executed /\ u.ran = t.ran /\ u.listed = t.listed
  BY <1>1 DEF AnyRaw
<1> HIDE DEF u
<1>4. RawEnds(u)
  BY <1>1, <1>3 DEF RawEnds
<1>5. RawCalls(u)
  BY <1>1, <1>3 DEF RawCalls, CallInOrder, Degraded
<1> QED
  BY <1>2, <1>3, <1>4, <1>5, SentSame, SameRawEnds

\* The error of upstream: the client is told of it in place of an end.
LEMMA ErrorPassesInOrder ==
  ASSUME NEW t, RawEnds(t), RawCalls(t), t.view.ended = "no"
  PROVE  /\ RawEnds(ErrorPasses(t)) /\ RawCalls(ErrorPasses(t))
         /\ ErrorPasses(t).view.ended = "error"
<1> DEFINE w == EndTurn(t.view, "error")
           u == [t EXCEPT !.view = w]
<1>1. t \in AnyRaw /\ w \in AnyView /\ w.ended = "error" /\ ~t.view.over /\ w.over = t.view.over
  BY EndTurnEnds DEF RawEnds, AnyRaw, Endings
<1>2. ErrorPasses(t) = Sent(u)
  BY DEF ErrorPasses
<1> HIDE DEF w
<1>3. /\ u \in AnyRaw /\ u.view = w /\ u.seen = t.seen /\ u.mentioned = t.mentioned
      /\ u.sawData = t.sawData /\ u.sawDone = t.sawDone
      /\ u.protocol = t.protocol /\ u.repairs = t.repairs /\ u.bridges = t.bridges
      /\ u.item = t.item /\ u.at = t.at /\ u.tracked = t.tracked
      /\ u.executed = t.executed /\ u.ran = t.ran /\ u.listed = t.listed
  BY <1>1 DEF AnyRaw
<1> HIDE DEF u
<1>4. RawEnds(u)
  BY <1>1, <1>3 DEF RawEnds, TurnOver
<1>5. RawCalls(u)
  BY <1>1, <1>3 DEF RawCalls, CallInOrder, Degraded
<1>6. Sent(u).view = u.view
  BY <1>3 DEF Sent, AnyRaw
<1> QED
  BY <1>1, <1>2, <1>3, <1>4, <1>5, <1>6, SentSame, SameRawEnds

-----------------------------------------------------------------------------
(* Frames that break no rule: what each of them changes *)

\* The client reads on.
Reading(v) == v \in AnyView /\ v.ended = "no" /\ ~v.over

LEMMA AnnounceOpens ==
  ASSUME NEW v, Reading(v), NEW i \in Indices, v.items[i] = "none"
  PROVE  Announce(v, i) = [v EXCEPT !.items[i] = "open"]
BY DEF Announce, Take, Reading

LEMMA DeltaIsQuiet ==
  ASSUME NEW v, Reading(v), NEW i \in Indices, v.items[i] = "open"
  PROVE  Delta(v, i) = v
BY DEF Delta, Take, Presume, Reading

LEMMA PartAddedOpens ==
  ASSUME NEW v, Reading(v), NEW i \in Indices, NEW c, v.items[i] = "open"
  PROVE  PartAdded(v, i, c) = [v EXCEPT !.parts = @ \cup {<<i, c>>}]
<1>1. Presume(v, i) = v
  BY DEF Presume
<1> QED
  BY <1>1 DEF PartAdded, Take, Reading

LEMMA TextDeltaIsQuiet ==
  ASSUME NEW v, Reading(v), NEW i \in Indices, NEW c, v.items[i] = "open",
         <<i, c>> \in v.parts
  PROVE  TextDelta(v, i, c) = v
BY DEF TextDelta, Take, Presume, Reading

LEMMA PartDoneCloses ==
  ASSUME NEW v, Reading(v), NEW i \in Indices, NEW c, v.items[i] = "open",
         <<i, c>> \in v.parts
  PROVE  PartDone(v, i, c) = [v EXCEPT !.parts = @ \ {<<i, c>>}]
<1>1. Presume(v, i) = v
  BY DEF Presume
<1> QED
  BY <1>1 DEF PartDone, Take, Reading

\* Finishing open items without open parts.
FinishedItems(v, S) ==
  [v EXCEPT !.items = [i \in Indices |-> IF i \in S THEN "done" ELSE v.items[i]]]

LEMMA NoFaults ==
  ASSUME NEW v \in AnyView, NEW k
  PROVE  Faults(v, k, {}) = v
<1>1. {k} \X {} = {}
  OBVIOUS
<1>2. v.faults \cup {} = v.faults
  OBVIOUS
<1> QED
  BY <1>1, <1>2 DEF Faults, AnyView

LEMMA FinishAllCloses ==
  ASSUME NEW v, Reading(v), NEW S \in SUBSET Indices,
         \A i \in S : v.items[i] = "open",
         \A p \in v.parts : p[1] \notin S
  PROVE  FinishAll(v, S) = FinishedItems(v, S)
<1> DEFINE unknown == {i \in S : v.items[i] = "none"}
           late == {i \in S : v.items[i] = "done"}
           unfinished == {i \in S : \E p \in v.parts : p[1] = i}
           w == Faults(Faults(Faults(v, "unannounced", unknown), "late", late),
                       "unfinished", unfinished)
<1>1. unknown = {} /\ late = {} /\ unfinished = {}
  OBVIOUS
<1>2. w = v
  <2> HIDE DEF unknown, late, unfinished
  <2> QED
    BY <1>1, NoFaults DEF Reading
<1>3. FinishAll(v, S) =
        [w EXCEPT !.items = [i \in Indices |-> IF i \in S THEN "done" ELSE w.items[i]]]
  <2> HIDE DEF w
  <2>1. v.ended = "no" /\ ~v.over
    BY DEF Reading
  <2> QED
    BY <2>1 DEF FinishAll, w
<1> HIDE DEF w
<1> QED
  BY <1>2, <1>3 DEF FinishedItems

LEMMA FinishCloses ==
  ASSUME NEW v, Reading(v), NEW i \in Indices, v.items[i] = "open",
         \A p \in v.parts : p[1] # i
  PROVE  Finish(v, i) = FinishedItems(v, {i})
BY FinishAllCloses DEF Finish

\* The end of a turn is no fault if it is not completed, or no item is open.
LEMMA EndTurnIsQuiet ==
  ASSUME NEW v, Reading(v), NEW how \in Endings,
         how = "completed" => \A i \in Indices : v.items[i] # "open"
  PROVE  EndTurn(v, how) = [v EXCEPT !.ended = how]
BY DEF EndTurn, Take, Reading

\* The fields of a view after a frame.
LEMMA OpenedView ==
  ASSUME NEW v, Reading(v), NEW i \in Indices
  PROVE  LET w == [v EXCEPT !.items[i] = "open"]
         IN  /\ Reading(w) /\ w.parts = v.parts /\ w.faults = v.faults
             /\ \A j \in Indices : w.items[j] = IF j = i THEN "open" ELSE v.items[j]
<1> DEFINE w == [v EXCEPT !.items[i] = "open"]
<1>1. Reading(w) /\ w.parts = v.parts /\ w.faults = v.faults
      /\ w.items = [v.items EXCEPT ![i] = "open"]
  BY DEF Reading, AnyView
<1>2. v.items \in [Indices -> {"none", "open", "done"}]
  BY DEF Reading, AnyView
<1> QED
  BY <1>1, <1>2

LEMMA FinishedView ==
  ASSUME NEW v, Reading(v), NEW S \in SUBSET Indices
  PROVE  LET w == FinishedItems(v, S)
         IN  /\ Reading(w) /\ w.parts = v.parts /\ w.faults = v.faults
             /\ \A j \in Indices : w.items[j] = IF j \in S THEN "done" ELSE v.items[j]
<1> DEFINE f == [i \in Indices |-> IF i \in S THEN "done" ELSE v.items[i]]
           w == [v EXCEPT !.items = f]
<1>1. f \in [Indices -> {"none", "open", "done"}]
  BY DEF Reading, AnyView
<1>2. \A j \in Indices : f[j] = IF j \in S THEN "done" ELSE v.items[j]
  OBVIOUS
<1> HIDE DEF f
<1>3. Reading(w) /\ w.parts = v.parts /\ w.faults = v.faults /\ w.items = f
  BY <1>1 DEF Reading, AnyView
<1> QED
  BY <1>2, <1>3 DEF FinishedItems, f

LEMMA PartsView ==
  ASSUME NEW v, Reading(v), NEW P \in SUBSET (Int \X Nat)
  PROVE  LET w == [v EXCEPT !.parts = P]
         IN  Reading(w) /\ w.parts = P /\ w.items = v.items /\ w.faults = v.faults
BY DEF Reading, AnyView

LEMMA EndedView ==
  ASSUME NEW v, Reading(v), NEW how \in Endings
  PROVE  LET w == Done([v EXCEPT !.ended = how])
         IN  /\ w \in AnyView /\ w.items = v.items /\ w.parts = v.parts
             /\ w.faults = v.faults
BY DEF Reading, AnyView, Done

LEMMA OverloadedIsQuiet ==
  ASSUME NEW v, Reading(v)
  PROVE  /\ Overloaded(v) \in AnyView /\ Overloaded(v).items = v.items
         /\ Overloaded(v).parts = v.parts /\ Overloaded(v).faults = v.faults
<1>1. "overloaded" \in Endings
  BY DEF Endings
<1>2. Overloaded(v) = Done([v EXCEPT !.ended = "overloaded"])
  BY <1>1, EndTurnIsQuiet DEF Overloaded, Reading
<1> QED
  BY <1>1, <1>2, EndedView

-----------------------------------------------------------------------------
(* What a converter has told the client, while the turn runs *)

\* The block that is open, if it is a text.
TextOpen(m, open) == open \in Blocks /\ m.blockType[open] = "text"

\* No index is given twice.
IndicesDiffer(m) ==
  /\ \A b \in Blocks : m.outputIndex[b] # NoIndex =>
       /\ 0 <= m.outputIndex[b] /\ m.outputIndex[b] < m.nextIndex
       /\ m.outputIndex[b] # m.messageIndex
       /\ \A c \in Blocks : m.outputIndex[c] = m.outputIndex[b] => c = b
  /\ m.messageIndex # NoIndex => 0 <= m.messageIndex /\ m.messageIndex < m.nextIndex

\* One index was given to each block that has one, and one to the message.
Indexed(m) == {b \in Blocks : m.outputIndex[b] # NoIndex}

IndicesCounted(m) ==
  m.nextIndex = Cardinality(Indexed(m)) + IF m.messageIndex = NoIndex THEN 0 ELSE 1

\* A block has an index only if it is a tool call, and its item is open exactly while it
\* is the open block.
BlockShape(m, open) ==
  \A b \in Blocks :
    /\ b \in m.toolUse <=> m.blockType[b] = "tool"
    /\ m.outputIndex[b] # NoIndex => m.blockType[b] \in {"tool", "nameless"}
    /\ b \in m.toolUse => m.outputIndex[b] # NoIndex
    /\ b = open => m.blockType[b] # ""
    /\ b = open /\ b \in m.toolUse => m.view.items[m.outputIndex[b]] = "open"

MessageShape(m) ==
  /\ m.messageItemAdded => m.messageIndex # NoIndex /\ m.texts # {}
  /\ m.texts # {} => m.messageIndex # NoIndex
  /\ m.messageIndex # NoIndex =>
       m.view.items[m.messageIndex] = IF m.messageItemAdded THEN "open" ELSE "none"

ItemShape(m, open) ==
  \A j \in Indices :
    /\ j >= m.nextIndex => m.view.items[j] = "none"
    /\ m.view.items[j] = "open" =>
         \/ j = m.messageIndex
         \/ open \in Blocks /\ open \in m.toolUse /\ j = m.outputIndex[open]

PartShape(m, open) ==
  /\ m.view.parts = IF TextOpen(m, open) THEN {<<m.messageIndex, open>>} ELSE {}
  /\ TextOpen(m, open) => m.messageItemAdded

\* The only fault is that of a text that upstream never started.
FaultShape(m) ==
  /\ m.view.faults \subseteq {<<"unannounced", m.messageIndex>>}
  /\ m.messageIndex = NoIndex => m.view.faults = {}

MessagesShape(m, open) ==
  /\ IndicesDiffer(m) /\ IndicesCounted(m) /\ BlockShape(m, open) /\ MessageShape(m)
  /\ ItemShape(m, open) /\ PartShape(m, open) /\ FaultShape(m)

\* As long as an index is not given, there is one left.
LEMMA NextIndexBound ==
  ASSUME NEW m \in AnyMessages, IndicesCounted(m)
  PROVE  /\ m.nextIndex <= Cardinality(Blocks) + 1
         /\ m.messageIndex = NoIndex => m.nextIndex \in Indices
         /\ \A b \in Blocks : m.outputIndex[b] = NoIndex => m.nextIndex \in Indices
<1> DEFINE S == Indexed(m)
<1>1. S \subseteq Blocks /\ IsFiniteSet(Blocks)
  BY MessagesAssumption DEF Indexed
<1>2. /\ IsFiniteSet(S) /\ Cardinality(S) \in Nat /\ Cardinality(Blocks) \in Nat
      /\ Cardinality(S) <= Cardinality(Blocks)
  BY <1>1, FS_Subset, FS_CardinalityType
<1>3. ASSUME NEW b \in Blocks, m.outputIndex[b] = NoIndex
      PROVE  Cardinality(S) + 1 <= Cardinality(Blocks)
  <2>1. b \notin S /\ S \cup {b} \subseteq Blocks
    BY <1>3 DEF Indexed
  <2>2. Cardinality(S \cup {b}) = Cardinality(S) + 1
    BY <1>2, <2>1, FS_AddElement
  <2>3. Cardinality(S \cup {b}) <= Cardinality(Blocks)
    BY <1>1, <2>1, FS_Subset
  <2> QED
    BY <2>2, <2>3
<1>4. m.nextIndex = Cardinality(S) + IF m.messageIndex = NoIndex THEN 0 ELSE 1
  BY DEF IndicesCounted
<1> HIDE DEF S
<1>5. MaxItems \in Nat /\ Cardinality(Blocks) + 1 <= MaxItems
  BY ClientAssumption, MessagesAssumption
<1>6. m.nextIndex <= Cardinality(Blocks) + 1
  BY <1>2, <1>4
<1>7. m.messageIndex = NoIndex => m.nextIndex \in Indices
  BY <1>2, <1>4, <1>5 DEF Indices
<1>8. \A b \in Blocks : m.outputIndex[b] = NoIndex => m.nextIndex \in Indices
  BY <1>2, <1>3, <1>4, <1>5 DEF Indices
<1> QED
  BY <1>6, <1>7, <1>8

\* The indices that were given are among those of the bound.
LEMMA IndicesGiven ==
  ASSUME NEW m \in AnyMessages, IndicesDiffer(m), IndicesCounted(m)
  PROVE  /\ m.messageIndex # NoIndex => m.messageIndex \in Indices
         /\ \A b \in Blocks : m.outputIndex[b] # NoIndex => m.outputIndex[b] \in Indices
<1>1. /\ m.nextIndex <= Cardinality(Blocks) + 1 /\ m.nextIndex \in Nat
      /\ m.messageIndex \in Int /\ \A b \in Blocks : m.outputIndex[b] \in Int
  BY NextIndexBound DEF AnyMessages
<1>2. /\ Cardinality(Blocks) \in Nat /\ MaxItems \in Nat
      /\ Cardinality(Blocks) + 1 <= MaxItems
  BY ClientAssumption, MessagesAssumption, FS_CardinalityType
<1>3. \A j \in Int : 0 <= j /\ j < m.nextIndex => j \in Indices
  BY <1>1, <1>2 DEF Indices
<1> QED
  BY <1>1, <1>3 DEF IndicesDiffer

\* What the shape depends on.
SameConverter(m, n) ==
  /\ n.blockType = m.blockType /\ n.outputIndex = m.outputIndex
  /\ n.messageIndex = m.messageIndex /\ n.messageItemAdded = m.messageItemAdded
  /\ n.nextIndex = m.nextIndex /\ n.toolUse = m.toolUse

LEMMA SameShape ==
  ASSUME NEW m, NEW n, NEW open, MessagesShape(m, open), SameConverter(m, n),
         n.view.items = m.view.items, n.view.parts = m.view.parts, FaultShape(n),
         n.texts # {} => n.messageIndex # NoIndex, m.texts # {} => n.texts # {}
  PROVE  MessagesShape(n, open)
<1> USE DEF SameConverter
<1>1. IndicesDiffer(n) /\ IndicesCounted(n)
  BY DEF MessagesShape, IndicesDiffer, IndicesCounted, Indexed
<1>2. BlockShape(n, open) /\ MessageShape(n)
  BY DEF MessagesShape, BlockShape, MessageShape
<1>3. ItemShape(n, open) /\ PartShape(n, open)
  BY DEF MessagesShape, ItemShape, PartShape, TextOpen
<1> QED
  BY <1>1, <1>2, <1>3 DEF MessagesShape

LEMMA NewMessagesShape ==
  ASSUME NEW open, open \notin Blocks
  PROVE  MessagesShape(NewMessages, open)
<1> DEFINE m == NewMessages
<1>1. /\ m.outputIndex = [b \in Blocks |-> NoIndex] /\ m.blockType = [b \in Blocks |-> ""]
      /\ m.messageIndex = NoIndex /\ m.nextIndex = 0 /\ m.toolUse = {} /\ m.texts = {}
      /\ m.messageItemAdded = FALSE /\ m.view = NewView
  BY DEF NewMessages
<1>2. NewView.items = [i \in Indices |-> "none"] /\ NewView.parts = {} /\ NewView.faults = {}
  BY DEF NewView
<1> HIDE DEF m
<1>3. IndicesDiffer(m)
  BY <1>1 DEF IndicesDiffer
<1>4. IndicesCounted(m)
  <2>1. Indexed(m) = {}
    BY <1>1 DEF Indexed
  <2>2. Cardinality(Indexed(m)) = 0
    BY <2>1, FS_EmptySet
  <2>3. m.nextIndex = 0 /\ m.messageIndex = NoIndex
    BY <1>1
  <2> QED
    BY <2>2, <2>3, SMT DEF IndicesCounted
<1>5. BlockShape(m, open) /\ MessageShape(m)
  BY <1>1 DEF BlockShape, MessageShape
<1>6. ItemShape(m, open) /\ PartShape(m, open) /\ FaultShape(m)
  BY <1>1, <1>2 DEF ItemShape, PartShape, FaultShape, TextOpen
<1> QED
  BY <1>3, <1>4, <1>5, <1>6 DEF MessagesShape, m

\* The message gets the next index, which was given to nobody.
LEMMA WithMessageIndexShape ==
  ASSUME NEW m, MessagesRun(m), NEW open, MessagesShape(m, open)
  PROVE  LET k == WithMessageIndex(m)
         IN  /\ MessagesShape(k, open) /\ k.messageIndex \in Indices
             /\ k.view = m.view /\ k.blockType = m.blockType /\ k.texts = m.texts
             /\ k.messageItemAdded = m.messageItemAdded /\ k.toolUse = m.toolUse
             /\ k.outputIndex = m.outputIndex /\ k.held = m.held
             /\ m.messageIndex # NoIndex => k = m
<1> DEFINE x == m.nextIndex + 1
           k == [m EXCEPT !.messageIndex = m.nextIndex, !.nextIndex = x]
<1>1. m \in AnyMessages /\ m.nextIndex \in Nat /\ m.messageIndex \in Int
  BY DEF MessagesRun, AnyMessages
<1>2. WithMessageIndex(m) = IF m.messageIndex # NoIndex THEN m ELSE k
  BY DEF WithMessageIndex
<1>3. m.nextIndex <= Cardinality(Blocks) + 1 /\ Cardinality(Blocks) \in Nat
  BY <1>1, NextIndexBound, MessagesAssumption, FS_CardinalityType DEF MessagesShape
<1>4. CASE m.messageIndex # NoIndex
  <2>1. 0 <= m.messageIndex /\ m.messageIndex < m.nextIndex
    BY <1>4 DEF MessagesShape, IndicesDiffer
  <2>2. m.messageIndex \in Indices
    BY <1>1, <1>3, <2>1, ClientAssumption, MessagesAssumption DEF Indices
  <2> QED
    BY <1>2, <1>4, <2>2
<1>5. CASE m.messageIndex = NoIndex
  <2>1. x = m.nextIndex + 1
    OBVIOUS
  <2>2. m.nextIndex \in Indices
    BY <1>1, <1>5, NextIndexBound DEF MessagesShape
  <2> HIDE DEF x
  <2>3. /\ k.messageIndex = m.nextIndex /\ k.nextIndex = x
        /\ k.view = m.view /\ k.blockType = m.blockType /\ k.texts = m.texts
        /\ k.messageItemAdded = m.messageItemAdded /\ k.toolUse = m.toolUse
        /\ k.outputIndex = m.outputIndex /\ k.held = m.held
    BY <1>1 DEF AnyMessages
  <2> HIDE DEF k
  <2>4. m.nextIndex # NoIndex
    BY <1>1 DEF NoIndex
  <2>5. m.outputIndex \in [Blocks -> Int]
    BY <1>1 DEF AnyMessages
  <2>6. IndicesDiffer(m) /\ IndicesCounted(m) /\ BlockShape(m, open) /\ MessageShape(m)
        /\ ItemShape(m, open) /\ PartShape(m, open) /\ FaultShape(m)
    BY DEF MessagesShape
  <2>7. IndicesDiffer(k)
    BY <1>1, <2>1, <2>3, <2>5, <2>6 DEF IndicesDiffer
  <2>8. IndicesCounted(k)
    <3>1. Indexed(k) = Indexed(m)
      BY <2>3 DEF Indexed
    <3>2. m.nextIndex = Cardinality(Indexed(m)) + 0
      BY <1>5, <2>6 DEF IndicesCounted
    <3>3. Cardinality(Indexed(m)) \in Nat
      BY MessagesAssumption, FS_Subset, FS_CardinalityType DEF Indexed
    <3>4. k.nextIndex = Cardinality(Indexed(k)) + 1
      BY <2>1, <2>3, <3>1, <3>2, <3>3
    <3> QED
      BY <2>3, <2>4, <3>4 DEF IndicesCounted
  <2>9. BlockShape(k, open)
    BY <2>3, <2>6 DEF BlockShape
  <2>10. ~m.messageItemAdded /\ m.texts = {} /\ m.view.items[m.nextIndex] = "none"
    BY <1>1, <1>5, <2>2, <2>6 DEF MessageShape, ItemShape
  <2>11. MessageShape(k)
    BY <2>3, <2>10 DEF MessageShape
  <2>12. ItemShape(k, open)
    <3>1. ASSUME NEW j \in Indices, j >= k.nextIndex PROVE k.view.items[j] = "none"
      <4>1. j >= m.nextIndex
        BY <1>1, <2>1, <2>3, <3>1 DEF Indices
      <4> QED
        BY <2>3, <2>6, <4>1 DEF ItemShape
    <3>2. ASSUME NEW j \in Indices, m.view.items[j] = "open"
          PROVE  open \in Blocks /\ open \in m.toolUse /\ j = m.outputIndex[open]
      BY <1>5, <2>6, <3>2 DEF ItemShape, Indices, NoIndex
    <3> QED
      BY <2>3, <3>1, <3>2 DEF ItemShape
  <2>13. PartShape(k, open)
    BY <2>3, <2>6, <2>10 DEF PartShape, TextOpen
  <2>14. FaultShape(k)
    BY <1>5, <2>3, <2>6 DEF FaultShape
  <2> QED
    BY <1>2, <1>5, <2>2, <2>3, <2>7, <2>8, <2>9, <2>11, <2>12, <2>13, <2>14 DEF MessagesShape
<1> QED
  BY <1>4, <1>5

Unstarted(m, b) == m.blockType[b] = ""
ToolSorts == {"tool", "nameless"}

\* A text is started: the item of the message is announced once, and the part opened.
LEMMA TextStartShape ==
  ASSUME NEW m, MessagesRun(m), NEW open, open \notin Blocks, MessagesShape(m, open),
         NEW b \in Blocks, Unstarted(m, b)
  PROVE  MessagesShape(TextStart(m, b), b)
<1> DEFINE l == [m EXCEPT !.blockType = [@ EXCEPT ![b] = "text"]]
           k == WithMessageIndex(l)
           i == k.messageIndex
           v == IF m.messageItemAdded THEN m.view ELSE Announce(m.view, i)
           w == PartAdded(v, i, b)
           n == [k EXCEPT !.texts = @ \cup {b}, !.messageItemAdded = TRUE, !.view = w]
<1>1. m \in AnyMessages /\ b \in Nat
  BY MessagesAssumption DEF MessagesRun
<1>2. TextStart(m, b) = n
  BY DEF TextStart
<1>3. MessagesRun(l)
  BY DEF MessagesRun, AnyMessages, BlockSorts
<1>4. /\ l.blockType = [m.blockType EXCEPT ![b] = "text"] /\ l.outputIndex = m.outputIndex
      /\ l.messageIndex = m.messageIndex /\ l.messageItemAdded = m.messageItemAdded
      /\ l.nextIndex = m.nextIndex /\ l.toolUse = m.toolUse /\ l.texts = m.texts
      /\ l.view = m.view
  BY <1>1 DEF AnyMessages
<1> HIDE DEF l
<1>5. \A c \in Blocks : l.blockType[c] = IF c = b THEN "text" ELSE m.blockType[c]
  BY <1>1, <1>4 DEF AnyMessages
<1>6. MessagesShape(l, open)
  <2>1. IndicesDiffer(l) /\ IndicesCounted(l)
    BY <1>4 DEF MessagesShape, IndicesDiffer, IndicesCounted, Indexed
  <2>2. BlockShape(l, open)
    BY <1>4, <1>5 DEF MessagesShape, BlockShape, Unstarted
  <2>3. MessageShape(l) /\ FaultShape(l)
    BY <1>4 DEF MessagesShape, MessageShape, FaultShape
  <2>4. ItemShape(l, open) /\ PartShape(l, open)
    BY <1>4 DEF MessagesShape, ItemShape, PartShape, TextOpen
  <2> QED
    BY <2>1, <2>2, <2>3, <2>4 DEF MessagesShape
<1>7. /\ MessagesShape(k, open) /\ i \in Indices /\ MessagesRun(k)
      /\ k.view = m.view /\ k.blockType = l.blockType
      /\ k.messageItemAdded = m.messageItemAdded /\ k.toolUse = m.toolUse
      /\ k.outputIndex = m.outputIndex
  BY <1>3, <1>4, <1>6, WithMessageIndexShape, WithMessageIndexRuns
<1> HIDE DEF k
<1>8. /\ Reading(m.view) /\ i # NoIndex
      /\ m.view.items[i] = IF m.messageItemAdded THEN "open" ELSE "none"
      /\ m.view.parts = {} /\ m.view.faults = k.view.faults
  <2>0. Reading(m.view)
    BY DEF MessagesRun, AnyMessages, Reading
  <2>1. Reading(m.view) /\ i # NoIndex
    BY <1>7, <2>0 DEF Indices, NoIndex
  <2> QED
    BY <1>7, <2>1 DEF MessagesShape, MessageShape, PartShape, TextOpen
<1>9. /\ Reading(v) /\ v.parts = {} /\ v.faults = m.view.faults
      /\ \A j \in Indices : v.items[j] = IF j = i THEN "open" ELSE m.view.items[j]
  <2>1. CASE m.messageItemAdded
    BY <1>8, <2>1
  <2>2. CASE ~m.messageItemAdded
    <3>1. v = [m.view EXCEPT !.items[i] = "open"]
      BY <1>7, <1>8, <2>2, AnnounceOpens
    <3> HIDE DEF v
    <3> QED
      BY <1>7, <1>8, <3>1, OpenedView
  <2> QED
    BY <2>1, <2>2
<1> HIDE DEF v
<1>10. /\ w.parts = {<<i, b>>} /\ w.faults = m.view.faults
       /\ \A j \in Indices : w.items[j] = IF j = i THEN "open" ELSE m.view.items[j]
  <2>1. v.items[i] = "open" /\ i \in Int
    BY <1>7, <1>9 DEF Indices
  <2>2. w = [v EXCEPT !.parts = {<<i, b>>}]
    <3>0. Reading(v) /\ i \in Indices
      BY <1>7, <1>9
    <3>1. w = [v EXCEPT !.parts = v.parts \cup {<<i, b>>}]
      <4> HIDE DEF i
      <4> QED
        BY <2>1, <3>0, PartAddedOpens
    <3>2. v.parts \cup {<<i, b>>} = {<<i, b>>}
      BY <1>9
    <3> QED
      BY <3>1, <3>2
  <2>3. {<<i, b>>} \in SUBSET (Int \X Nat)
    BY <1>1, <2>1
  <2> QED
    BY <1>9, <2>2, <2>3, PartsView
<1> HIDE DEF w
<1>11. /\ n.texts = k.texts \cup {b} /\ n.messageItemAdded = TRUE /\ n.view = w
       /\ n.blockType = l.blockType /\ n.outputIndex = m.outputIndex
       /\ n.messageIndex = i /\ n.nextIndex = k.nextIndex /\ n.toolUse = m.toolUse
  BY <1>7 DEF MessagesRun, AnyMessages
<1> HIDE DEF n, i
<1>12. /\ IndicesDiffer(k) /\ IndicesCounted(k) /\ BlockShape(k, open) /\ FaultShape(k)
       /\ ItemShape(k, open)
  BY <1>7 DEF MessagesShape
<1>13. IndicesDiffer(n) /\ IndicesCounted(n)
  BY <1>7, <1>11, <1>12 DEF IndicesDiffer, IndicesCounted, Indexed, i
<1>14. BlockShape(n, b)
  <2>1. b \notin m.toolUse
    BY DEF MessagesShape, BlockShape, Unstarted
  <2>2. \A c \in Blocks : m.blockType[c] # "text" => c # b \/ Unstarted(m, b)
    BY DEF Unstarted
  <2>3. /\ \A c \in Blocks : c # b => k.blockType[c] = m.blockType[c]
        /\ k.blockType[b] = "text"
    BY <1>5, <1>7
  <2>4. k.outputIndex[b] = NoIndex
    BY <1>7 DEF MessagesShape, BlockShape, Unstarted
  <2>5. ASSUME NEW c \in Blocks
        PROVE  /\ c \in n.toolUse <=> n.blockType[c] = "tool"
               /\ n.outputIndex[c] # NoIndex => n.blockType[c] \in {"tool", "nameless"}
               /\ c \in n.toolUse => n.outputIndex[c] # NoIndex
               /\ c = b => n.blockType[c] # ""
               /\ c = b /\ c \in n.toolUse => n.view.items[n.outputIndex[c]] = "open"
    <3>1. /\ c \in k.toolUse <=> k.blockType[c] = "tool"
          /\ k.outputIndex[c] # NoIndex => k.blockType[c] \in {"tool", "nameless"}
          /\ c \in k.toolUse => k.outputIndex[c] # NoIndex
      BY <1>12 DEF BlockShape
    <3> QED
      BY <1>7, <1>11, <2>1, <2>3, <3>1
  <2> QED
    BY <2>5 DEF BlockShape
<1>15. MessageShape(n) /\ FaultShape(n)
  BY <1>7, <1>8, <1>10, <1>11, <1>12 DEF MessageShape, FaultShape, i
<1>16. ItemShape(n, b)
  <2>1. i < k.nextIndex
    BY <1>8, <1>12 DEF IndicesDiffer, i
  <2>2. ASSUME NEW j \in Indices, j >= n.nextIndex PROVE n.view.items[j] = "none"
    <3>3. k.nextIndex \in Nat
      BY <1>7 DEF MessagesRun, AnyMessages
    <3>4. i \in Int /\ j \in Int
      BY <1>7 DEF Indices
    <3>0. k.nextIndex \in Nat /\ i \in Int /\ j \in Int
      BY <3>3, <3>4
    <3>1. j # i
      BY <1>11, <2>1, <2>2, <3>0
    <3> QED
      BY <1>7, <1>10, <1>11, <1>12, <2>2, <3>1 DEF ItemShape
  <2>3. ASSUME NEW j \in Indices, n.view.items[j] = "open" PROVE j = n.messageIndex
    BY <1>7, <1>10, <1>11, <1>12, <2>3 DEF ItemShape, i
  <2> QED
    BY <2>2, <2>3 DEF ItemShape
<1>17. PartShape(n, b)
  BY <1>5, <1>10, <1>11 DEF PartShape, TextOpen
<1> QED
  BY <1>2, <1>13, <1>14, <1>15, <1>16, <1>17 DEF MessagesShape

\* A block is given an index of its own when its tool call is started.
LEMMA WithOutputIndexShape ==
  ASSUME NEW m, MessagesRun(m), NEW open, open \notin Blocks, MessagesShape(m, open),
         NEW b \in Blocks, Unstarted(m, b), NEW sort \in ToolSorts
  PROVE  LET k == WithOutputIndex([m EXCEPT !.blockType = [@ EXCEPT ![b] = sort]], b)
         IN  /\ MessagesRun(k) /\ k.outputIndex[b] \in Indices
             /\ \A c \in Blocks : k.blockType[c] = IF c = b THEN sort ELSE m.blockType[c]
             /\ k.messageItemAdded = m.messageItemAdded /\ k.texts = m.texts
             /\ k.messageIndex = m.messageIndex /\ k.toolUse = m.toolUse /\ k.view = m.view
             /\ \A c \in Blocks : c # b => k.outputIndex[c] = m.outputIndex[c]
             /\ m.view.items[k.outputIndex[b]] = "none"
             /\ k.nextIndex = m.nextIndex + 1 /\ k.outputIndex[b] = m.nextIndex
             /\ IndicesDiffer(k) /\ IndicesCounted(k)
<1> DEFINE l == [m EXCEPT !.blockType = [@ EXCEPT ![b] = sort]]
           x == m.nextIndex + 1
           k == [l EXCEPT !.outputIndex = [@ EXCEPT ![b] = m.nextIndex], !.nextIndex = x]
<1>1. m \in AnyMessages /\ m.nextIndex \in Nat
  BY DEF MessagesRun, AnyMessages
<1>2. MessagesRun(l)
  BY DEF MessagesRun, AnyMessages, BlockSorts, ToolSorts
<1>3. /\ l.blockType = [m.blockType EXCEPT ![b] = sort] /\ l.outputIndex = m.outputIndex
      /\ l.messageIndex = m.messageIndex /\ l.messageItemAdded = m.messageItemAdded
      /\ l.nextIndex = m.nextIndex /\ l.toolUse = m.toolUse /\ l.texts = m.texts
      /\ l.view = m.view
  BY <1>1 DEF AnyMessages
<1>4. m.outputIndex[b] = NoIndex
  BY DEF MessagesShape, BlockShape, Unstarted
<1>5. WithOutputIndex(l, b) = k
  BY <1>3, <1>4 DEF WithOutputIndex
<1>6. MessagesRun(k)
  BY <1>2, <1>5, WithOutputIndexRuns
<1> HIDE DEF l
<1>7. x = m.nextIndex + 1
  OBVIOUS
<1> HIDE DEF x
<1>8. /\ k.blockType = l.blockType /\ k.outputIndex = [m.outputIndex EXCEPT ![b] = m.nextIndex]
      /\ k.messageIndex = m.messageIndex /\ k.messageItemAdded = m.messageItemAdded
      /\ k.nextIndex = x /\ k.toolUse = m.toolUse /\ k.texts = m.texts /\ k.view = m.view
  BY <1>2, <1>3 DEF MessagesRun, AnyMessages
<1> HIDE DEF k
<1>9. /\ \A c \in Blocks : k.outputIndex[c] = IF c = b THEN m.nextIndex ELSE m.outputIndex[c]
      /\ \A c \in Blocks : k.blockType[c] = IF c = b THEN sort ELSE m.blockType[c]
      /\ \A c \in Blocks : m.outputIndex[c] \in Int
  BY <1>1, <1>3, <1>8 DEF AnyMessages
<1>10. m.nextIndex \in Indices
  BY <1>1, <1>4, NextIndexBound DEF MessagesShape
<1>11. m.view.items[m.nextIndex] = "none"
  BY <1>1, <1>10 DEF MessagesShape, ItemShape
<1>12. IndicesDiffer(k)
  <2>1. IndicesDiffer(m) /\ m.messageIndex \in Int
    BY <1>1 DEF MessagesShape, AnyMessages
  <2>2. m.messageIndex # NoIndex => 0 <= m.messageIndex /\ m.messageIndex < m.nextIndex
    BY <2>1 DEF IndicesDiffer
  <2>3. m.messageIndex # m.nextIndex
    BY <1>1, <2>1, <2>2 DEF NoIndex
  <2>4. ASSUME NEW c \in Blocks, m.outputIndex[c] # NoIndex
        PROVE  0 <= m.outputIndex[c] /\ m.outputIndex[c] < m.nextIndex
               /\ m.outputIndex[c] # m.messageIndex
               /\ \A d \in Blocks : m.outputIndex[d] = m.outputIndex[c] => d = c
    BY <2>1, <2>4 DEF IndicesDiffer
  <2>5. ASSUME NEW c \in Blocks, k.outputIndex[c] # NoIndex
        PROVE  /\ 0 <= k.outputIndex[c] /\ k.outputIndex[c] < k.nextIndex
               /\ k.outputIndex[c] # k.messageIndex
               /\ \A d \in Blocks : k.outputIndex[d] = k.outputIndex[c] => d = c
    <3>1. CASE c = b
      <4>1. \A d \in Blocks : d # b => m.outputIndex[d] # m.nextIndex
        BY <1>1, <1>9, <2>4 DEF NoIndex
      <4> QED
        BY <1>1, <1>7, <1>8, <1>9, <2>3, <3>1, <4>1
    <3>2. CASE c # b
      <4>1. m.outputIndex[c] # NoIndex
        BY <1>9, <2>5, <3>2
      <4>2. m.outputIndex[c] # m.nextIndex /\ m.outputIndex[c] < x
        BY <1>1, <1>7, <1>9, <2>4, <4>1
      <4> QED
        BY <1>8, <1>9, <2>4, <3>2, <4>1, <4>2
    <3> QED
      BY <3>1, <3>2
  <2>6. k.messageIndex # NoIndex => 0 <= k.messageIndex /\ k.messageIndex < k.nextIndex
    BY <1>1, <1>7, <1>8, <2>1, <2>2
  <2> QED
    BY <2>5, <2>6 DEF IndicesDiffer
<1>13. IndicesCounted(k)
  <2>1. Indexed(k) = Indexed(m) \cup {b} /\ b \notin Indexed(m)
    BY <1>1, <1>4, <1>9 DEF Indexed, NoIndex
  <2>2. IsFiniteSet(Indexed(m)) /\ Cardinality(Indexed(m)) \in Nat
    BY MessagesAssumption, FS_Subset, FS_CardinalityType DEF Indexed
  <2>3. Cardinality(Indexed(k)) = Cardinality(Indexed(m)) + 1
    BY <2>1, <2>2, FS_AddElement
  <2>4. m.nextIndex = Cardinality(Indexed(m)) + IF m.messageIndex = NoIndex THEN 0 ELSE 1
    BY DEF MessagesShape, IndicesCounted
  <2>5. k.nextIndex = Cardinality(Indexed(k)) + IF m.messageIndex = NoIndex THEN 0 ELSE 1
    BY <1>7, <1>8, <2>2, <2>3, <2>4
  <2> QED
    BY <1>8, <2>5 DEF IndicesCounted
<1> QED
  BY <1>5, <1>6, <1>7, <1>8, <1>9, <1>10, <1>11, <1>12, <1>13 DEF l

\* A tool call is started: its item is announced under an index of its own.
LEMMA ToolStartShape ==
  ASSUME NEW m, MessagesRun(m), NEW open, open \notin Blocks, MessagesShape(m, open),
         NEW b \in Blocks, Unstarted(m, b)
  PROVE  MessagesShape(ToolStart(m, b), b)
<1> DEFINE sort == "tool"
           k == WithOutputIndex([m EXCEPT !.blockType = [@ EXCEPT ![b] = sort]], b)
           i == k.outputIndex[b]
           w == Announce(m.view, i)
           n == [k EXCEPT !.toolUse = @ \cup {b}, !.view = w]
<1>1. sort \in ToolSorts /\ sort = "tool"
  BY DEF ToolSorts
<1>2. /\ MessagesRun(k) /\ i \in Indices
      /\ \A c \in Blocks : k.blockType[c] = IF c = b THEN sort ELSE m.blockType[c]
      /\ k.messageItemAdded = m.messageItemAdded /\ k.texts = m.texts
      /\ k.messageIndex = m.messageIndex /\ k.toolUse = m.toolUse /\ k.view = m.view
      /\ \A c \in Blocks : c # b => k.outputIndex[c] = m.outputIndex[c]
      /\ m.view.items[i] = "none"
      /\ k.nextIndex = m.nextIndex + 1 /\ i = m.nextIndex
      /\ IndicesDiffer(k) /\ IndicesCounted(k)
  <2> HIDE DEF sort
  <2> QED
    BY <1>1, WithOutputIndexShape
<1>3. ToolStart(m, b) = n
  BY <1>2 DEF ToolStart
<1> HIDE DEF k
<1>4. /\ Reading(m.view) /\ m.nextIndex \in Nat
      /\ BlockShape(m, open) /\ MessageShape(m) /\ ItemShape(m, open) /\ PartShape(m, open)
      /\ FaultShape(m)
  BY DEF MessagesRun, AnyMessages, Reading, MessagesShape
<1>5. /\ w.parts = m.view.parts /\ w.faults = m.view.faults
      /\ \A j \in Indices : w.items[j] = IF j = i THEN "open" ELSE m.view.items[j]
  <2>1. w = [m.view EXCEPT !.items[i] = "open"]
    BY <1>2, <1>4, AnnounceOpens
  <2> HIDE DEF w, i
  <2> QED
    BY <1>2, <1>4, <2>1, OpenedView
<1> HIDE DEF w
<1>6. /\ n.texts = k.texts /\ n.messageItemAdded = k.messageItemAdded /\ n.view = w
      /\ n.blockType = k.blockType /\ n.outputIndex = k.outputIndex
      /\ n.messageIndex = k.messageIndex /\ n.nextIndex = k.nextIndex
      /\ n.toolUse = m.toolUse \cup {b}
  BY <1>2 DEF MessagesRun, AnyMessages
<1> HIDE DEF n
<1>7. IndicesDiffer(n) /\ IndicesCounted(n)
  BY <1>2, <1>6 DEF IndicesDiffer, IndicesCounted, Indexed
<1>8. BlockShape(n, b)
  <2>1. ASSUME NEW c \in Blocks
        PROVE  /\ c \in n.toolUse <=> n.blockType[c] = "tool"
               /\ n.outputIndex[c] # NoIndex => n.blockType[c] \in {"tool", "nameless"}
               /\ c \in n.toolUse => n.outputIndex[c] # NoIndex
               /\ c = b => n.blockType[c] # ""
               /\ c = b /\ c \in n.toolUse => n.view.items[n.outputIndex[c]] = "open"
    <3>1. /\ c \in m.toolUse <=> m.blockType[c] = "tool"
          /\ m.outputIndex[c] # NoIndex => m.blockType[c] \in {"tool", "nameless"}
          /\ c \in m.toolUse => m.outputIndex[c] # NoIndex
      BY <1>4 DEF BlockShape
    <3>2. i # NoIndex
      BY <1>2 DEF Indices, NoIndex
    <3>3. w.items[i] = "open"
      BY <1>2, <1>5
    <3>4. CASE c = b
      BY <1>2, <1>6, <3>2, <3>3, <3>4
    <3>5. CASE c # b
      BY <1>2, <1>6, <3>1, <3>5
    <3> QED
      BY <3>4, <3>5
  <2> QED
    BY <2>1 DEF BlockShape
<1>9. i # m.messageIndex
  BY <1>2 DEF IndicesDiffer, Indices, NoIndex
<1>10. MessageShape(n) /\ FaultShape(n)
  <2>1. m.messageIndex # NoIndex => m.messageIndex \in Indices
    BY <1>2, WithMessageIndexShape DEF WithMessageIndex
  <2> QED
    BY <1>2, <1>4, <1>5, <1>6, <1>9, <2>1 DEF MessageShape, FaultShape
<1>11. ItemShape(n, b)
  <2>1. ASSUME NEW j \in Indices, j >= n.nextIndex PROVE n.view.items[j] = "none"
    <3>1. j >= m.nextIndex /\ j # i
      BY <1>2, <1>4, <1>6, <2>1 DEF Indices
    <3> QED
      BY <1>4, <1>5, <1>6, <3>1 DEF ItemShape
  <2>2. ASSUME NEW j \in Indices, n.view.items[j] = "open"
        PROVE  j = n.messageIndex \/ j = n.outputIndex[b]
    BY <1>2, <1>4, <1>5, <1>6, <2>2 DEF ItemShape
  <2>3. b \in n.toolUse
    BY <1>6
  <2> QED
    BY <2>1, <2>2, <2>3 DEF ItemShape
<1>12. PartShape(n, b)
  <2>1. n.blockType[b] # "text" /\ n.view.parts = {}
    BY <1>2, <1>4, <1>5, <1>6 DEF PartShape, TextOpen
  <2> QED
    BY <2>1 DEF PartShape, TextOpen
<1> QED
  BY <1>3, <1>7, <1>8, <1>10, <1>11, <1>12 DEF MessagesShape

\* A tool call without a name takes an index that nothing is told of.
LEMMA NamelessStartShape ==
  ASSUME NEW m, MessagesRun(m), NEW open, open \notin Blocks, MessagesShape(m, open),
         NEW b \in Blocks, Unstarted(m, b)
  PROVE  MessagesShape(NamelessStart(m, b), b)
<1> DEFINE sort == "nameless"
           k == WithOutputIndex([m EXCEPT !.blockType = [@ EXCEPT ![b] = sort]], b)
           i == k.outputIndex[b]
           n == [k EXCEPT !.dropped = TRUE]
<1>1. sort \in ToolSorts /\ sort = "nameless"
  BY DEF ToolSorts
<1>2. /\ MessagesRun(k) /\ i \in Indices
      /\ \A c \in Blocks : k.blockType[c] = IF c = b THEN sort ELSE m.blockType[c]
      /\ k.messageItemAdded = m.messageItemAdded /\ k.texts = m.texts
      /\ k.messageIndex = m.messageIndex /\ k.toolUse = m.toolUse /\ k.view = m.view
      /\ \A c \in Blocks : c # b => k.outputIndex[c] = m.outputIndex[c]
      /\ m.view.items[i] = "none"
      /\ k.nextIndex = m.nextIndex + 1 /\ i = m.nextIndex
      /\ IndicesDiffer(k) /\ IndicesCounted(k)
  <2> HIDE DEF sort
  <2> QED
    BY <1>1, WithOutputIndexShape
<1>3. NamelessStart(m, b) = n
  BY DEF NamelessStart
<1> HIDE DEF k
<1>4. /\ m.nextIndex \in Nat
      /\ BlockShape(m, open) /\ MessageShape(m) /\ ItemShape(m, open) /\ PartShape(m, open)
      /\ FaultShape(m)
  BY DEF MessagesRun, AnyMessages, MessagesShape
<1>6. /\ n.texts = m.texts /\ n.messageItemAdded = m.messageItemAdded /\ n.view = m.view
      /\ n.blockType = k.blockType /\ n.outputIndex = k.outputIndex
      /\ n.messageIndex = m.messageIndex /\ n.nextIndex = k.nextIndex
      /\ n.toolUse = m.toolUse
  BY <1>2 DEF MessagesRun, AnyMessages
<1> HIDE DEF n
<1>7. IndicesDiffer(n) /\ IndicesCounted(n)
  BY <1>2, <1>6 DEF IndicesDiffer, IndicesCounted, Indexed
<1>8. BlockShape(n, b)
  <2>1. ASSUME NEW c \in Blocks
        PROVE  /\ c \in n.toolUse <=> n.blockType[c] = "tool"
               /\ n.outputIndex[c] # NoIndex => n.blockType[c] \in {"tool", "nameless"}
               /\ c \in n.toolUse => n.outputIndex[c] # NoIndex
               /\ c = b => n.blockType[c] # ""
               /\ c = b /\ c \in n.toolUse => n.view.items[n.outputIndex[c]] = "open"
    <3>1. /\ c \in m.toolUse <=> m.blockType[c] = "tool"
          /\ m.outputIndex[c] # NoIndex => m.blockType[c] \in {"tool", "nameless"}
          /\ c \in m.toolUse => m.outputIndex[c] # NoIndex
      BY <1>4 DEF BlockShape
    <3>2. m.blockType[b] = ""
      BY DEF Unstarted
    <3>4. CASE c = b
      BY <1>2, <1>6, <3>1, <3>2, <3>4
    <3>5. CASE c # b
      BY <1>2, <1>6, <3>1, <3>5
    <3> QED
      BY <3>4, <3>5
  <2> QED
    BY <2>1 DEF BlockShape
<1>10. MessageShape(n) /\ FaultShape(n)
  BY <1>4, <1>6 DEF MessageShape, FaultShape
<1>11. ItemShape(n, b)
  <2>1. ASSUME NEW j \in Indices, j >= n.nextIndex PROVE n.view.items[j] = "none"
    <3>1. j >= m.nextIndex
      BY <1>2, <1>4, <1>6, <2>1 DEF Indices
    <3> QED
      BY <1>4, <1>6, <3>1 DEF ItemShape
  <2>2. ASSUME NEW j \in Indices, n.view.items[j] = "open"
        PROVE  j = n.messageIndex
    BY <1>4, <1>6, <2>2 DEF ItemShape
  <2> QED
    BY <2>1, <2>2 DEF ItemShape
<1>12. PartShape(n, b)
  <2>1. n.blockType[b] # "text" /\ n.view.parts = {}
    BY <1>2, <1>4, <1>6 DEF PartShape, TextOpen
  <2> QED
    BY <2>1 DEF PartShape, TextOpen
<1> QED
  BY <1>3, <1>7, <1>8, <1>10, <1>11, <1>12 DEF MessagesShape

LEMMA OtherStartShape ==
  ASSUME NEW m, MessagesRun(m), NEW open, open \notin Blocks, MessagesShape(m, open),
         NEW b \in Blocks, Unstarted(m, b)
  PROVE  MessagesShape([m EXCEPT !.blockType[b] = "other"], b)
<1> DEFINE n == [m EXCEPT !.blockType = [@ EXCEPT ![b] = "other"]]
<1>4. /\ BlockShape(m, open) /\ MessageShape(m) /\ ItemShape(m, open) /\ PartShape(m, open)
      /\ FaultShape(m) /\ IndicesDiffer(m) /\ IndicesCounted(m)
  BY DEF MessagesShape
<1>6. /\ n.texts = m.texts /\ n.messageItemAdded = m.messageItemAdded /\ n.view = m.view
      /\ \A c \in Blocks : n.blockType[c] = IF c = b THEN "other" ELSE m.blockType[c]
      /\ n.outputIndex = m.outputIndex
      /\ n.messageIndex = m.messageIndex /\ n.nextIndex = m.nextIndex
      /\ n.toolUse = m.toolUse
  BY DEF MessagesRun, AnyMessages
<1> SUFFICES MessagesShape(n, b)
  OBVIOUS
<1> HIDE DEF n
<1>7. IndicesDiffer(n) /\ IndicesCounted(n)
  BY <1>4, <1>6 DEF IndicesDiffer, IndicesCounted, Indexed
<1>8. BlockShape(n, b)
  <2>1. m.blockType[b] = ""
    BY DEF Unstarted
  <2> QED
    BY <1>4, <1>6, <2>1 DEF BlockShape
<1>10. MessageShape(n) /\ FaultShape(n)
  BY <1>4, <1>6 DEF MessageShape, FaultShape
<1>11. ItemShape(n, b)
  BY <1>4, <1>6 DEF ItemShape
<1>12. PartShape(n, b)
  <2>1. n.blockType[b] # "text" /\ n.view.parts = {}
    BY <1>4, <1>6 DEF PartShape, TextOpen
  <2> QED
    BY <2>1 DEF PartShape, TextOpen
<1> QED
  BY <1>7, <1>8, <1>10, <1>11, <1>12 DEF MessagesShape

LEMMA BlockStartShape ==
  ASSUME NEW m, MessagesRun(m), NEW open, open \notin Blocks, MessagesShape(m, open),
         NEW b \in Blocks, Unstarted(m, b), NEW sort \in BlockSorts
  PROVE  MessagesShape(BlockStart(m, b, sort), b)
BY TextStartShape, ToolStartShape, NamelessStartShape, OtherStartShape DEF BlockStart, BlockSorts

\* Text in the block that is open is no fault; in one that was never started it is one.
LEMMA TextArrivesShape ==
  ASSUME NEW m, MessagesRun(m), NEW open, MessagesShape(m, open), NEW b \in Blocks,
         b = open \/ (open \notin Blocks /\ Unstarted(m, b)), NEW piece
  PROVE  MessagesShape(TextArrives(m, b, piece), open)
<1> DEFINE k == WithMessageIndex(m)
           i == k.messageIndex
           holds == piece = "open" \/ (piece = "plain" /\ b \in m.held)
           shows == piece = "plain" /\ ~holds
           H == IF holds THEN m.held \cup {b} ELSE m.held \ {b}
           T == IF holds /\ piece = "plain" THEN m.thought \cup {b} ELSE m.thought \ {b}
           S == IF shows THEN m.solid \cup {b} ELSE m.solid
           w == IF shows THEN TextDelta(m.view, i, b) ELSE m.view
           n == [k EXCEPT !.texts = @ \cup {b}, !.held = H, !.thought = T,
                          !.bufferingThink = holds, !.solid = S, !.view = w]
           texty == m.blockType[b] \in {"text", ""}
<1>1. MessagesShape(k, open) /\ i \in Indices /\ k.view = m.view /\ MessagesRun(k)
      /\ k.blockType = m.blockType
  BY WithMessageIndexShape, WithMessageIndexRuns
<1>2. TextArrives(m, b, piece) = IF texty THEN n ELSE m
  <2>1. k.held = m.held /\ k.thought = m.thought /\ k.solid = m.solid
    BY DEF WithMessageIndex, MessagesRun, AnyMessages
  <2> QED
    BY <1>1, <2>1 DEF TextArrives
<1>3. SUFFICES ASSUME texty PROVE MessagesShape(n, open)
  BY <1>2
<1> HIDE DEF k, H, T, S
<1>4. /\ n.view = w /\ n.texts = k.texts \cup {b} /\ SameConverter(k, n)
  BY <1>1 DEF MessagesRun, AnyMessages, SameConverter
<1> HIDE DEF n
<1>5. i # NoIndex /\ Reading(m.view) /\ FaultShape(k)
  <2>1. i # NoIndex
    BY <1>1 DEF Indices, NoIndex
  <2>2. Reading(m.view)
    BY DEF MessagesRun, AnyMessages, Reading
  <2> QED
    BY <1>1, <2>1, <2>2 DEF MessagesShape
<1>6. /\ w.items = m.view.items /\ w.parts = m.view.parts
      /\ w.faults \subseteq {<<"unannounced", i>>}
  <2>1. CASE ~shows
    BY <1>1, <1>5, <2>1 DEF FaultShape
  <2>2. CASE shows /\ b = open
    <3>1. m.blockType[b] # ""
      BY <2>2 DEF MessagesShape, BlockShape
    <3>2. TextOpen(k, open)
      BY <1>1, <1>3, <2>2, <3>1 DEF TextOpen
    <3>3. <<i, b>> \in m.view.parts /\ k.messageItemAdded
      BY <1>1, <2>2, <3>2 DEF MessagesShape, PartShape
    <3>4. m.view.items[i] = "open"
      BY <1>1, <1>5, <3>3 DEF MessagesShape, MessageShape
    <3>5. TextDelta(m.view, i, b) = m.view
      BY <1>1, <1>5, <3>3, <3>4, TextDeltaIsQuiet
    <3> QED
      BY <1>1, <1>5, <2>2, <3>5 DEF FaultShape
  <2>3. CASE shows /\ open \notin Blocks
    <3>1. m.view.parts = {}
      BY <2>3 DEF MessagesShape, PartShape, TextOpen
    <3>2. w = Fault(m.view, "unannounced", i)
      BY <1>5, <2>3, <3>1 DEF TextDelta, Take, Reading
    <3>3. /\ w.items = m.view.items /\ w.parts = m.view.parts
          /\ w.faults = m.view.faults \cup ({"unannounced"} \X {i})
      <4> HIDE DEF w, i
      <4> QED
        BY <1>5, <3>2 DEF Fault, Faults, Reading, AnyView
    <3>4. {"unannounced"} \X {i} = {<<"unannounced", i>>}
      <4> HIDE DEF i
      <4> QED
        OBVIOUS
    <3>5. m.view.faults \subseteq {<<"unannounced", i>>}
      BY <1>1, <1>5 DEF FaultShape
    <3> QED
      <4> HIDE DEF w, i
      <4> QED
        BY <3>3, <3>4, <3>5
  <2> QED
    BY <2>1, <2>2, <2>3
<1> HIDE DEF w
<1>7. FaultShape(n)
  BY <1>4, <1>5, <1>6 DEF FaultShape, SameConverter
<1>8. n.messageIndex # NoIndex /\ n.texts # {}
  BY <1>4, <1>5 DEF SameConverter
<1> QED
  BY <1>1, <1>4, <1>6, <1>7, <1>8, SameShape

LEMMA InputArrivesShape ==
  ASSUME NEW m, MessagesRun(m), NEW b \in Blocks, MessagesShape(m, b)
  PROVE  MessagesShape(InputArrives(m, b), b)
<1> DEFINE w == Delta(m.view, m.outputIndex[b])
           n == [m EXCEPT !.view = w]
<1>1. SUFFICES ASSUME b \in m.toolUse PROVE MessagesShape(n, b)
  BY DEF InputArrives
<1>2. m.outputIndex[b] \in Indices /\ m.view.items[m.outputIndex[b]] = "open"
  <2>1. m.outputIndex[b] # NoIndex /\ m.view.items[m.outputIndex[b]] = "open"
    BY <1>1 DEF MessagesShape, BlockShape
  <2> QED
    BY <2>1, IndicesGiven DEF MessagesRun, MessagesShape
<1>3. Reading(m.view)
  BY DEF MessagesRun, AnyMessages, Reading
<1>4. w = m.view
  BY <1>2, <1>3, DeltaIsQuiet
<1>5. n = m
  BY <1>4 DEF MessagesRun, AnyMessages
<1> QED
  BY <1>5

\* The end of a block closes what was open for it.
LEMMA BlockStopShape ==
  ASSUME NEW m, MessagesRun(m), NEW b \in Blocks, MessagesShape(m, b),
         NEW open, open \notin Blocks
  PROVE  MessagesShape(BlockStop(m, b), open)
<1>1. /\ Reading(m.view) /\ m \in AnyMessages
      /\ BlockShape(m, b) /\ MessageShape(m) /\ ItemShape(m, b) /\ PartShape(m, b)
      /\ FaultShape(m) /\ IndicesDiffer(m) /\ IndicesCounted(m)
  BY DEF MessagesRun, AnyMessages, Reading, MessagesShape
<1>2. /\ m.messageIndex # NoIndex => m.messageIndex \in Indices
      /\ m.outputIndex[b] # NoIndex => m.outputIndex[b] \in Indices
  BY <1>1, IndicesGiven
<1>3. CASE b \in m.toolUse
  <2> DEFINE i == m.outputIndex[b]
             w == Finish(Delta(m.view, i), i)
             n == [m EXCEPT !.view = w]
  <2>1. BlockStop(m, b) = n
    BY <1>3 DEF BlockStop
  <2>2. m.blockType[b] = "tool" /\ i # NoIndex /\ m.view.items[i] = "open"
    BY <1>1, <1>3 DEF BlockShape
  <2>3. i \in Indices /\ i # m.messageIndex
    BY <1>1, <1>2, <2>2 DEF IndicesDiffer
  <2>4. m.view.parts = {}
    BY <1>1, <2>2 DEF PartShape, TextOpen
  <2>5. w = FinishedItems(m.view, {i})
    <3>1. Delta(m.view, i) = m.view
      BY <1>1, <2>2, <2>3, DeltaIsQuiet
    <3> HIDE DEF i
    <3> QED
      BY <1>1, <2>2, <2>3, <2>4, <3>1, FinishCloses
  <2>6. /\ w.parts = {} /\ w.faults = m.view.faults
        /\ \A j \in Indices : w.items[j] = IF j = i THEN "done" ELSE m.view.items[j]
    <3> HIDE DEF w, i
    <3> QED
      BY <1>1, <2>3, <2>4, <2>5, FinishedView
  <2> HIDE DEF w
  <2>7. n.view = w /\ n.texts = m.texts /\ SameConverter(m, n)
    BY <1>1 DEF AnyMessages, SameConverter
  <2> HIDE DEF n
  <2> USE DEF SameConverter
  <2>8. IndicesDiffer(n) /\ IndicesCounted(n) /\ FaultShape(n)
    BY <1>1, <2>6, <2>7 DEF IndicesDiffer, IndicesCounted, Indexed, FaultShape
  <2>9. BlockShape(n, open)
    BY <1>1, <2>7 DEF BlockShape
  <2>10. MessageShape(n)
    BY <1>1, <1>2, <2>3, <2>6, <2>7 DEF MessageShape
  <2>11. ItemShape(n, open)
    <3>1. ASSUME NEW j \in Indices, j >= n.nextIndex PROVE n.view.items[j] = "none"
      <4>1. m.view.items[j] = "none"
        BY <1>1, <2>7, <3>1 DEF ItemShape
      <4> QED
        BY <2>2, <2>6, <2>7, <4>1
    <3>2. ASSUME NEW j \in Indices, n.view.items[j] = "open" PROVE j = n.messageIndex
      BY <1>1, <2>6, <2>7, <3>2 DEF ItemShape
    <3> QED
      BY <3>1, <3>2 DEF ItemShape
  <2>12. PartShape(n, open)
    BY <2>6, <2>7 DEF PartShape, TextOpen
  <2> QED
    BY <2>1, <2>8, <2>9, <2>10, <2>11, <2>12 DEF MessagesShape
<1>4. CASE b \notin m.toolUse /\ m.blockType[b] # "text"
  <2>1. BlockStop(m, b) = m
    BY <1>4 DEF BlockStop
  <2>2. BlockShape(m, open)
    BY <1>1 DEF BlockShape
  <2>3. ItemShape(m, open) /\ PartShape(m, open)
    BY <1>1, <1>4 DEF ItemShape, PartShape, TextOpen
  <2> QED
    BY <1>1, <2>1, <2>2, <2>3 DEF MessagesShape
<1>5. CASE b \notin m.toolUse /\ m.blockType[b] = "text"
  <2> DEFINE i == m.messageIndex
             late == b \in m.thought
             v == IF late THEN TextDelta(m.view, i, b) ELSE m.view
             w == PartDone(v, i, b)
             S == IF late THEN m.solid \cup {b} ELSE m.solid
             n == [m EXCEPT !.held = @ \ {b}, !.thought = @ \ {b}, !.solid = S, !.view = w]
  <2>1. BlockStop(m, b) = n
    BY <1>5 DEF BlockStop
  <2>2. TextOpen(m, b)
    BY <1>5 DEF TextOpen
  <2>3. m.view.parts = {<<i, b>>} /\ m.messageItemAdded
    BY <1>1, <2>2 DEF PartShape
  <2>4. i # NoIndex /\ m.view.items[i] = "open"
    BY <1>1, <2>3 DEF MessageShape
  <2>5. i \in Indices
    BY <1>2, <2>4
  <2>6. v = m.view
    BY <1>1, <2>3, <2>4, <2>5, TextDeltaIsQuiet
  <2>7. w = [m.view EXCEPT !.parts = m.view.parts \ {<<i, b>>}]
    <3>1. Reading(m.view) /\ <<i, b>> \in m.view.parts
      BY <1>1, <2>3
    <3>2. PartDone(m.view, i, b) = [m.view EXCEPT !.parts = @ \ {<<i, b>>}]
      <4> HIDE DEF i
      <4> QED
        BY <2>4, <2>5, <3>1, PartDoneCloses
    <3> QED
      BY <2>6, <3>2
  <2>8. /\ w.parts = {} /\ w.faults = m.view.faults /\ w.items = m.view.items
    <3>1. m.view.parts \ {<<i, b>>} = {}
      BY <2>3
    <3>2. w = [m.view EXCEPT !.parts = {}]
      BY <2>7, <3>1
    <3> HIDE DEF w
    <3> QED
      BY <1>1, <3>2, PartsView
  <2> HIDE DEF w, S
  <2>9. n.view = w /\ n.texts = m.texts /\ SameConverter(m, n)
    BY <1>1 DEF AnyMessages, SameConverter
  <2> HIDE DEF n
  <2> USE DEF SameConverter
  <2>10. IndicesDiffer(n) /\ IndicesCounted(n) /\ FaultShape(n)
    BY <1>1, <2>8, <2>9 DEF IndicesDiffer, IndicesCounted, Indexed, FaultShape
  <2>11. BlockShape(n, open) /\ MessageShape(n)
    BY <1>1, <2>8, <2>9 DEF BlockShape, MessageShape
  <2>12. ItemShape(n, open)
    BY <1>1, <1>5, <2>8, <2>9 DEF ItemShape
  <2>13. PartShape(n, open)
    BY <2>8, <2>9 DEF PartShape, TextOpen
  <2> QED
    BY <2>1, <2>10, <2>11, <2>12, <2>13 DEF MessagesShape
<1> QED
  BY <1>3, <1>4, <1>5

-----------------------------------------------------------------------------
(* What the client of a Messages stream has been told, while it runs and afterwards *)

\* Everything is within the bounds, and no rule was broken but the one excepted.
MessagesTold(m) ==
  m \in MessagesState /\ m.view.faults \subseteq {<<"unannounced", m.messageIndex>>}

LEMMA ToldView ==
  ASSUME NEW v, v \in AnyView, NEW i \in Indices \cup {NoIndex},
         \A p \in v.parts : p[1] \in Indices, v.faults \subseteq {<<"unannounced", i>>}
  PROVE  v \in View
<1>1. v.parts \in SUBSET (Indices \X Nat)
  <2>1. v.parts \in SUBSET (Int \X Nat)
    BY DEF AnyView
  <2>2. ASSUME NEW p \in v.parts PROVE p \in Indices \X Nat
    <3>1. p \in Int \X Nat /\ p[1] \in Indices
      BY <2>1
    <3> QED
      BY <3>1
  <2> QED
    BY <2>2
<1>2. v.faults \in SUBSET (FaultKinds \X (Indices \cup {NoIndex}))
  BY DEF FaultKinds
<1> QED
  BY <1>1, <1>2 DEF AnyView, View

\* The converter's part of it changes no more once it is told.
LEMMA SameToldMessages ==
  ASSUME NEW m, MessagesTold(m), NEW n \in AnyMessages, SameConverter(m, n),
         n.view.parts \subseteq m.view.parts,
         n.view.faults \subseteq {<<"unannounced", m.messageIndex>>}
  PROVE  MessagesTold(n)
<1>1. m.view \in View /\ m.messageIndex \in Indices \cup {NoIndex}
  BY DEF MessagesTold, MessagesState
<1>2. \A p \in n.view.parts : p[1] \in Indices
  BY <1>1 DEF View
<1>3. n.view \in AnyView
  BY DEF AnyMessages
<1>4. n.view \in View
  BY <1>1, <1>2, <1>3, ToldView
<1>5. n \in MessagesState
  BY <1>4 DEF MessagesTold, MessagesState, AnyMessages, SameConverter
<1> QED
  BY <1>5 DEF MessagesTold, SameConverter

LEMMA ShapeTold ==
  ASSUME NEW m, MessagesRun(m), NEW open, MessagesShape(m, open)
  PROVE  MessagesTold(m)
<1>1. m \in AnyMessages /\ IndicesDiffer(m) /\ IndicesCounted(m) /\ FaultShape(m)
      /\ PartShape(m, open) /\ MessageShape(m)
  BY DEF MessagesRun, MessagesShape
<1>2. /\ m.messageIndex \in Indices \cup {NoIndex}
      /\ \A b \in Blocks : m.outputIndex[b] \in Indices \cup {NoIndex}
  BY <1>1, IndicesGiven
<1>3. m.nextIndex \in 0 .. Cardinality(Blocks) + 1
  <2>1. m.nextIndex \in Nat /\ m.nextIndex <= Cardinality(Blocks) + 1
    BY <1>1, NextIndexBound DEF AnyMessages
  <2>2. Cardinality(Blocks) \in Nat
    BY MessagesAssumption, FS_CardinalityType
  <2> QED
    BY <2>1, <2>2
<1>4. m.outputIndex \in [Blocks -> Indices \cup {NoIndex}]
  BY <1>1, <1>2 DEF AnyMessages
<1>5. m.view \in View
  <2>1. \A p \in m.view.parts : p[1] \in Indices
    <3>1. CASE TextOpen(m, open)
      <4>1. m.messageIndex \in Indices /\ m.view.parts = {<<m.messageIndex, open>>}
        BY <1>1, <1>2, <3>1 DEF PartShape, MessageShape
      <4> QED
        BY <4>1
    <3>2. CASE ~TextOpen(m, open)
      BY <1>1, <3>2 DEF PartShape
    <3> QED
      BY <3>1, <3>2
  <2>2. m.view \in AnyView
    BY <1>1 DEF AnyMessages
  <2> QED
    BY <1>1, <1>2, <2>1, <2>2, ToldView DEF FaultShape
<1>6. m \in MessagesState
  BY <1>1, <1>2, <1>3, <1>4, <1>5 DEF AnyMessages, MessagesState
<1> QED
  BY <1>1, <1>6 DEF MessagesTold, FaultShape

\* An end that is not completed is no fault, whatever is open.
LEMMA UncompletedTold ==
  ASSUME NEW v, Reading(v), NEW how \in {"incomplete", "failed", "error"}
  PROVE  LET w == Done(EndTurn(v, how))
         IN  /\ w \in AnyView /\ w.items = v.items /\ w.parts = v.parts
             /\ w.faults = v.faults
<1>1. how \in Endings /\ how # "completed"
  BY DEF Endings
<1>2. EndTurn(v, how) = [v EXCEPT !.ended = how]
  BY <1>1, EndTurnIsQuiet
<1> QED
  BY <1>1, <1>2, EndedView

LEMMA FailTold ==
  ASSUME NEW m \in AnyMessages, NEW k, MessagesTold(k), SameConverter(k, m), NEW v, Reading(v),
         v.parts \subseteq k.view.parts, v.faults \subseteq {<<"unannounced", k.messageIndex>>}
  PROVE  MessagesTold(Fail(m, v))
<1> DEFINE w == Done(EndTurn(v, "failed"))
           n == [m EXCEPT !.done = TRUE, !.terminalFailed = TRUE, !.view = w]
<1>1. w \in AnyView /\ w.parts = v.parts /\ w.faults = v.faults
  BY UncompletedTold
<1>2. Fail(m, v) = n
  BY DEF Fail
<1> HIDE DEF w
<1>3. n \in AnyMessages /\ n.view = w /\ SameConverter(k, n)
  BY <1>1 DEF AnyMessages, SameConverter
<1> HIDE DEF n
<1> QED
  BY <1>1, <1>2, <1>3, SameToldMessages

LEMMA MessagesErrorTold ==
  ASSUME NEW m, MessagesRun(m), NEW open, MessagesShape(m, open)
  PROVE  MessagesTold(MessagesError(m))
<1>1. /\ m \in AnyMessages /\ Reading(m.view) /\ MessagesTold(m) /\ SameConverter(m, m)
  BY ShapeTold DEF MessagesRun, AnyMessages, Reading, SameConverter
<1> QED
  BY <1>1, FailTold DEF MessagesError, MessagesTold

LEMMA SynthesizeTerminalTold ==
  ASSUME NEW m, MessagesRun(m), NEW open, MessagesShape(m, open)
  PROVE  MessagesTold(SynthesizeTerminal(m))
<1>1. /\ m \in AnyMessages /\ Reading(m.view) /\ MessagesTold(m) /\ SameConverter(m, m)
      /\ ~m.done /\ ~m.sawMessageStop
  BY ShapeTold DEF MessagesRun, AnyMessages, Reading, SameConverter
<1>2. MessagesTold(Fail(m, m.view))
  BY <1>1, FailTold DEF MessagesTold
<1> DEFINE w == Done(EndTurn(m.view, "incomplete"))
           n == [m EXCEPT !.done = TRUE, !.view = w]
<1>3. MessagesTold(n)
  <2>1. w \in AnyView /\ w.parts = m.view.parts /\ w.faults = m.view.faults
    BY <1>1, UncompletedTold
  <2> HIDE DEF w
  <2>2. n \in AnyMessages /\ n.view = w /\ SameConverter(m, n)
    BY <1>1, <2>1 DEF AnyMessages, SameConverter
  <2> HIDE DEF n
  <2> QED
    BY <1>1, <2>1, <2>2, SameToldMessages DEF MessagesTold
<1> QED
  BY <1>1, <1>2, <1>3 DEF SynthesizeTerminal

\* The item of the message is closed, whether it was announced or not.
LEMMA MessageCloses ==
  ASSUME NEW v, Reading(v), NEW i \in Indices, v.parts = {}, v.items[i] \in {"none", "open"},
         v.faults \subseteq {<<"unannounced", i>>}
  PROVE  LET w == Finish(v, i)
         IN  /\ Reading(w) /\ w.parts = {} /\ w.faults \subseteq {<<"unannounced", i>>}
             /\ \A j \in Indices : w.items[j] = IF j = i THEN "done" ELSE v.items[j]
<1> DEFINE w == Finish(v, i)
           unknown == {j \in {i} : v.items[j] = "none"}
           late == {j \in {i} : v.items[j] = "done"}
           unfinished == {j \in {i} : \E p \in v.parts : p[1] = j}
           f == Faults(v, "unannounced", unknown)
           g == Faults(Faults(f, "late", late), "unfinished", unfinished)
           I == [j \in Indices |-> IF j \in {i} THEN "done" ELSE g.items[j]]
<1>1. v \in AnyView /\ v.ended = "no" /\ ~v.over
  BY DEF Reading
<1>2. w = [g EXCEPT !.items = I]
  BY <1>1 DEF Finish, FinishAll
<1>3. late = {} /\ unfinished = {} /\ unknown \subseteq {i}
  OBVIOUS
<1>4. f \in AnyView /\ f.faults = v.faults \cup ({"unannounced"} \X unknown)
      /\ f.items = v.items /\ f.parts = v.parts /\ f.ended = v.ended /\ f.over = v.over
  <2> HIDE DEF unknown
  <2>1. unknown \in SUBSET Int
    BY <1>3 DEF Indices
  <2>2. f \in AnyView
    BY <1>1, <2>1, FaultsSameEnd DEF SameEnd, FaultKinds
  <2> QED
    BY <1>1, <2>2 DEF Faults, AnyView
<1>5. {"unannounced"} \X unknown \subseteq {<<"unannounced", i>>}
  <2> HIDE DEF unknown
  <2> QED
    BY <1>3
<1>6. g = f
  <2> HIDE DEF f, late, unfinished
  <2> QED
    BY <1>3, <1>4, NoFaults
<1> HIDE DEF f, unknown, w
<1> HIDE DEF g
<1>7. I \in [Indices -> {"none", "open", "done"}]
      /\ \A j \in Indices : I[j] = IF j = i THEN "done" ELSE v.items[j]
  BY <1>1, <1>4, <1>6 DEF AnyView
<1> HIDE DEF I
<1>8. w \in AnyView /\ w.items = I /\ w.parts = f.parts /\ w.faults = f.faults
      /\ w.ended = f.ended /\ w.over = f.over
  BY <1>2, <1>4, <1>6, <1>7 DEF AnyView
<1>9. w.faults \subseteq {<<"unannounced", i>>}
  BY <1>4, <1>5, <1>8
<1>10. Reading(w) /\ w.parts = {}
  BY <1>1, <1>4, <1>8 DEF Reading
<1> QED
  BY <1>7, <1>8, <1>9, <1>10 DEF w

\* message_stop: nothing is left open in a turn that is completed.
LEMMA MessageStopTold ==
  ASSUME NEW m, MessagesRun(m), NEW open, open \notin Blocks, MessagesShape(m, open)
  PROVE  MessagesTold(MessageStop(m))
<1> DEFINE l == [m EXCEPT !.sawMessageStop = TRUE]
           k == WithMessageIndex(l)
           i == k.messageIndex
           closed == Finish(m.view, i)
<1>1. /\ m \in AnyMessages /\ Reading(m.view) /\ MessagesTold(m)
      /\ MessageShape(m) /\ ItemShape(m, open) /\ PartShape(m, open) /\ FaultShape(m)
  BY ShapeTold DEF MessagesRun, AnyMessages, Reading, MessagesShape
<1>2. l \in AnyMessages /\ SameConverter(m, l) /\ l.view = m.view /\ l.texts = m.texts
      /\ l.messageItemAdded = m.messageItemAdded
  BY <1>1 DEF AnyMessages, SameConverter
<1>3. MessageStop(m) =
        IF OnlyDropped(m) THEN Fail(l, IF m.texts # {} THEN closed ELSE m.view)
        ELSE IF m.texts # {} \/ m.toolUse = {}
        THEN [k EXCEPT !.done = TRUE, !.view = Done(EndTurn(closed, "completed"))]
        ELSE [l EXCEPT !.done = TRUE, !.view = Done(EndTurn(m.view, "completed"))]
  BY <1>2 DEF MessageStop, AnyMessages
\* The message has the index that it has without the mark.
<1>4. /\ i \in Indices /\ k \in AnyMessages /\ (m.messageIndex # NoIndex => k = l)
      /\ k.view = m.view
      /\ m.messageIndex = NoIndex => m.view.faults = {} /\ i = m.nextIndex
      /\ m.view.items[i] = IF m.messageItemAdded THEN "open" ELSE "none"
      /\ m.view.faults \subseteq {<<"unannounced", i>>}
  <2> DEFINE q == WithMessageIndex(m)
  <2>1. /\ MessagesShape(q, open) /\ q.messageIndex \in Indices /\ MessagesRun(q)
        /\ q.view = m.view /\ q.messageItemAdded = m.messageItemAdded
        /\ m.messageIndex # NoIndex => q = m
    BY WithMessageIndexShape, WithMessageIndexRuns
  <2>2. k = [q EXCEPT !.sawMessageStop = TRUE]
    BY <1>1, <1>2 DEF WithMessageIndex, AnyMessages
  <2>3. m.messageIndex = NoIndex => q.messageIndex = m.nextIndex
    BY <1>1 DEF WithMessageIndex, AnyMessages
  <2> HIDE DEF q, l, k
  <2>4. q.messageIndex # NoIndex
    BY <2>1 DEF Indices, NoIndex
  <2>5. k \in AnyMessages /\ k.messageIndex = q.messageIndex /\ k.view = q.view
    BY <2>1, <2>2 DEF MessagesRun, AnyMessages
  <2>6. m.messageIndex # NoIndex => k = l
    BY <2>1, <2>2 DEF l
  <2>7. m.view.items[q.messageIndex] = IF m.messageItemAdded THEN "open" ELSE "none"
    BY <2>1, <2>4 DEF MessagesShape, MessageShape
  <2>8. m.view.faults \subseteq {<<"unannounced", q.messageIndex>>}
    BY <2>1 DEF MessagesShape, FaultShape
  <2> QED
    BY <1>1, <2>1, <2>3, <2>5, <2>6, <2>7, <2>8 DEF FaultShape
<1>5. m.view.parts = {}
  BY <1>1 DEF PartShape, TextOpen
<1>6. /\ Reading(closed) /\ closed.parts = {} /\ closed.faults \subseteq {<<"unannounced", i>>}
      /\ \A j \in Indices : closed.items[j] = IF j = i THEN "done" ELSE m.view.items[j]
  <2> HIDE DEF i
  <2>1. m.view.items[i] \in {"none", "open"}
    BY <1>4
  <2> QED
    BY <1>1, <1>4, <1>5, <2>1, MessageCloses
<1>7. CASE OnlyDropped(m)
  <2>1. CASE m.texts # {}
    <3>1. m.messageIndex # NoIndex
      BY <1>1, <2>1 DEF MessageShape
    <3>2. i = m.messageIndex
      BY <1>2, <1>4, <3>1 DEF SameConverter
    <3> HIDE DEF closed, l
    <3> QED
      BY <1>1, <1>2, <1>3, <1>5, <1>6, <1>7, <2>1, <3>2, FailTold
  <2>2. CASE m.texts = {}
    <3> HIDE DEF closed, l
    <3> QED
      BY <1>1, <1>2, <1>3, <1>7, <2>2, FailTold DEF MessagesTold
  <2> QED
    BY <2>1, <2>2
<1>8. CASE ~OnlyDropped(m) /\ (m.texts # {} \/ m.toolUse = {})
  <2> DEFINE w == Done(EndTurn(closed, "completed"))
             n == [k EXCEPT !.done = TRUE, !.view = w]
  <2>1. \A j \in Indices : closed.items[j] # "open"
    <3>1. ASSUME NEW j \in Indices, m.view.items[j] = "open" PROVE j = i
      <4>1. j = m.messageIndex
        BY <1>1, <3>1 DEF ItemShape
      <4>2. m.messageIndex # NoIndex
        BY <4>1 DEF Indices, NoIndex
      <4> QED
        BY <1>2, <1>4, <4>1, <4>2 DEF SameConverter
    <3> QED
      BY <1>6, <3>1
  <2>2. w \in AnyView /\ w.parts = closed.parts /\ w.faults = closed.faults
    <3>1. "completed" \in Endings
      BY DEF Endings
    <3> HIDE DEF closed
    <3>2. EndTurn(closed, "completed") = [closed EXCEPT !.ended = "completed"]
      BY <1>6, <2>1, <3>1, EndTurnIsQuiet
    <3> QED
      BY <1>6, <3>1, <3>2, EndedView
  <2> HIDE DEF w, closed
  <2>3. n \in AnyMessages /\ n.view = w /\ n.messageIndex = i
    BY <1>4, <2>2 DEF AnyMessages
  <2>4. MessageStop(m) = n
    BY <1>3, <1>8 DEF w
  \* The message keeps its index or gets the next one.
  <2>5. /\ n.outputIndex \in [Blocks -> Indices \cup {NoIndex}]
        /\ n.nextIndex \in 0 .. Cardinality(Blocks) + 1
    <3> DEFINE q == WithMessageIndex(m)
    <3>1. MessagesTold(q)
      BY WithMessageIndexShape, WithMessageIndexRuns, ShapeTold
    <3>2. n.outputIndex = q.outputIndex /\ n.nextIndex = q.nextIndex
      <4>1. n.outputIndex = k.outputIndex /\ n.nextIndex = k.nextIndex
        BY <1>4, <2>2 DEF AnyMessages
      <4>2. k.outputIndex = q.outputIndex /\ k.nextIndex = q.nextIndex
        BY <1>1 DEF WithMessageIndex, AnyMessages
      <4> QED
        BY <4>1, <4>2
    <3> QED
      BY <3>1, <3>2 DEF MessagesTold, MessagesState
  <2> HIDE DEF n
  <2>6. n.view \in View
    <3>1. \A p \in w.parts : p[1] \in Indices
      BY <1>6, <2>2
    <3> HIDE DEF i
    <3> QED
      BY <1>4, <1>6, <2>2, <2>3, <3>1, ToldView
  <2>7. n \in MessagesState
    BY <1>4, <2>3, <2>5, <2>6 DEF AnyMessages, MessagesState
  <2> QED
    BY <1>6, <2>2, <2>3, <2>4, <2>7 DEF MessagesTold
<1>9. CASE ~OnlyDropped(m) /\ m.texts = {} /\ m.toolUse # {}
  <2> DEFINE w == Done(EndTurn(m.view, "completed"))
             n == [l EXCEPT !.done = TRUE, !.view = w]
  <2>1. \A j \in Indices : m.view.items[j] # "open"
    <3>1. SUFFICES ASSUME NEW j \in Indices, m.view.items[j] = "open" PROVE FALSE
      OBVIOUS
    <3>2. j = m.messageIndex /\ ~m.messageItemAdded
      BY <1>1, <1>9, <3>1 DEF ItemShape, MessageShape
    <3>3. m.messageIndex # NoIndex
      BY <3>2 DEF Indices, NoIndex
    <3> QED
      BY <1>1, <3>1, <3>2, <3>3 DEF MessageShape
  <2>2. w \in AnyView /\ w.parts = m.view.parts /\ w.faults = m.view.faults
    <3>1. "completed" \in Endings
      BY DEF Endings
    <3>2. EndTurn(m.view, "completed") = [m.view EXCEPT !.ended = "completed"]
      BY <1>1, <2>1, <3>1, EndTurnIsQuiet
    <3> QED
      BY <1>1, <3>1, <3>2, EndedView
  <2>3. MessageStop(m) = n
    BY <1>3, <1>9
  <2> HIDE DEF w
  <2>4. n \in AnyMessages /\ n.view = w /\ SameConverter(m, n)
    BY <1>1, <2>2 DEF AnyMessages, SameConverter
  <2> HIDE DEF n
  <2> QED
    BY <1>1, <2>2, <2>3, <2>4, SameToldMessages DEF MessagesTold
<1> QED
  BY <1>7, <1>8, <1>9

-----------------------------------------------------------------------------
(* What the converter of Chat Completions has told the client, until it closes its items *)

CallIndexed(t) == {c \in Calls : t.index[c] # NoIndex}

\* No index is given twice.
CallIndicesDiffer(t) ==
  /\ \A c \in Calls : t.index[c] # NoIndex =>
       /\ 0 <= t.index[c] /\ t.index[c] < t.nextIdx
       /\ t.index[c] # t.outputIndex /\ t.index[c] # t.reasoningIndex
       /\ \A d \in Calls : t.index[d] = t.index[c] => d = c
  /\ t.outputIndex # NoIndex =>
       0 <= t.outputIndex /\ t.outputIndex < t.nextIdx /\ t.outputIndex # t.reasoningIndex
  /\ t.reasoningIndex # NoIndex => 0 <= t.reasoningIndex /\ t.reasoningIndex < t.nextIdx

\* One was given to each call that has one, to the message and to the reasoning.
CallIndicesCounted(t) ==
  t.nextIdx = Cardinality(CallIndexed(t)) + (IF t.outputIndex = NoIndex THEN 0 ELSE 1)
                + (IF t.reasoningIndex = NoIndex THEN 0 ELSE 1)

\* A call is announced once it has a name, and open from then on.
CallShape(t) ==
  \A c \in Calls :
    /\ c \in t.started => t.index[c] # NoIndex
    /\ t.index[c] # NoIndex =>
         t.view.items[t.index[c]] = IF c \in t.started THEN "open" ELSE "none"

Thinking(t) == t.reasoning = "open"

\* Reasoning that is open is the latest item.
ReasoningShape(t) ==
  /\ t.reasoning = "no" <=> t.reasoningIndex = NoIndex
  /\ t.reasoning # "no" => t.view.items[t.reasoningIndex] = t.reasoning
  /\ Thinking(t) => t.nextIdx = t.reasoningIndex + 1

OpenItems(t) ==
  \A j \in Indices :
    /\ j >= t.nextIdx => t.view.items[j] = "none"
    /\ t.view.items[j] = "open" =>
         \/ j = t.outputIndex
         \/ Thinking(t) /\ j = t.reasoningIndex
         \/ \E c \in t.started : j = t.index[c]

ChatParts(t) ==
  /\ t.outputIndex # NoIndex => t.view.items[t.outputIndex] = "open"
  /\ t.view.parts = (IF Thinking(t) THEN {<<t.reasoningIndex, 0>>} ELSE {}) \cup
                    (IF textStarted(t) THEN {<<t.outputIndex, 0>>} ELSE {})

ChatShape(t) ==
  /\ CallIndicesDiffer(t) /\ CallIndicesCounted(t) /\ CallShape(t) /\ ReasoningShape(t)
  /\ OpenItems(t) /\ ChatParts(t) /\ t.view.faults = {}

\* As long as an index is not given, there is one left.
LEMMA NextIdxBound ==
  ASSUME NEW t \in AnyChat, CallIndicesCounted(t)
  PROVE  /\ t.nextIdx <= MaxItems
         /\ t.outputIndex = NoIndex => t.nextIdx \in Indices
         /\ t.reasoningIndex = NoIndex => t.nextIdx \in Indices
         /\ \A c \in Calls : t.index[c] = NoIndex => t.nextIdx \in Indices
<1> DEFINE S == CallIndexed(t)
<1>1. S \subseteq Calls /\ IsFiniteSet(Calls)
  BY ChatAssumption DEF CallIndexed
<1>2. /\ IsFiniteSet(S) /\ Cardinality(S) \in Nat /\ Cardinality(Calls) \in Nat
      /\ Cardinality(S) <= Cardinality(Calls)
  BY <1>1, FS_Subset, FS_CardinalityType
<1>3. ASSUME NEW c \in Calls, t.index[c] = NoIndex
      PROVE  Cardinality(S) + 1 <= Cardinality(Calls)
  <2>1. c \notin S /\ S \cup {c} \subseteq Calls
    BY <1>3 DEF CallIndexed
  <2>2. Cardinality(S \cup {c}) = Cardinality(S) + 1
    BY <1>2, <2>1, FS_AddElement
  <2>3. Cardinality(S \cup {c}) <= Cardinality(Calls)
    BY <1>1, <2>1, FS_Subset
  <2> QED
    BY <2>2, <2>3
<1>4. t.nextIdx = Cardinality(S) + (IF t.outputIndex = NoIndex THEN 0 ELSE 1)
                    + (IF t.reasoningIndex = NoIndex THEN 0 ELSE 1)
  BY DEF CallIndicesCounted
<1> HIDE DEF S
<1>5. MaxItems \in Nat /\ Cardinality(Calls) + 2 <= MaxItems
  BY ClientAssumption, ChatAssumption
<1>6. t.nextIdx <= MaxItems
  BY <1>2, <1>4, <1>5
<1>7. t.outputIndex = NoIndex => t.nextIdx \in Indices
  BY <1>2, <1>4, <1>5 DEF Indices
<1>8. t.reasoningIndex = NoIndex => t.nextIdx \in Indices
  BY <1>2, <1>4, <1>5 DEF Indices
<1>9. \A c \in Calls : t.index[c] = NoIndex => t.nextIdx \in Indices
  BY <1>2, <1>3, <1>4, <1>5 DEF Indices
<1> QED
  BY <1>6, <1>7, <1>8, <1>9

LEMMA CallIndicesGiven ==
  ASSUME NEW t \in AnyChat, CallIndicesDiffer(t), CallIndicesCounted(t)
  PROVE  /\ t.outputIndex # NoIndex => t.outputIndex \in Indices
         /\ t.reasoningIndex # NoIndex => t.reasoningIndex \in Indices
         /\ \A c \in Calls : t.index[c] # NoIndex => t.index[c] \in Indices
<1>1. /\ t.nextIdx <= MaxItems /\ t.nextIdx \in Nat /\ MaxItems \in Nat
      /\ t.outputIndex \in Int /\ t.reasoningIndex \in Int
      /\ \A c \in Calls : t.index[c] \in Int
  BY NextIdxBound, ClientAssumption DEF AnyChat
<1>2. \A j \in Int : 0 <= j /\ j < t.nextIdx => j \in Indices
  BY <1>1 DEF Indices
<1> QED
  BY <1>1, <1>2 DEF CallIndicesDiffer

\* What the shape depends on.
SameCalls(t, u) ==
  /\ u.index = t.index /\ u.started = t.started /\ u.outputIndex = t.outputIndex
  /\ u.reasoning = t.reasoning /\ u.reasoningIndex = t.reasoningIndex
  /\ u.nextIdx = t.nextIdx

LEMMA SameChatShape ==
  ASSUME NEW t, NEW u, ChatShape(t), SameCalls(t, u), u.view = t.view
  PROVE  ChatShape(u)
<1> USE DEF SameCalls
<1>1. CallIndicesDiffer(u) /\ CallIndicesCounted(u)
  BY DEF ChatShape, CallIndicesDiffer, CallIndicesCounted, CallIndexed
<1>2. CallShape(u) /\ ReasoningShape(u)
  BY DEF ChatShape, CallShape, ReasoningShape, Thinking
<1>3. OpenItems(u) /\ ChatParts(u)
  BY DEF ChatShape, OpenItems, ChatParts, textStarted, Thinking
<1> QED
  BY <1>1, <1>2, <1>3 DEF ChatShape

\* The client is still reading.
ChatReads(t) == t \in AnyChat /\ Reading(t.view)

LEMMA SameStageReads ==
  ASSUME NEW t, NEW u, ChatReads(t), SameStage(t, u)
  PROVE  ChatReads(u)
BY DEF ChatReads, SameStage, Reading, AnyChat

LEMMA NewChatShape == ChatShape(NewChat)
<1> DEFINE t == NewChat
<1>1. /\ t.index = [c \in Calls |-> NoIndex] /\ t.started = {} /\ t.outputIndex = NoIndex
      /\ t.reasoning = "no" /\ t.reasoningIndex = NoIndex /\ t.nextIdx = 0 /\ t.view = NewView
  BY DEF NewChat
<1>2. NewView.items = [i \in Indices |-> "none"] /\ NewView.parts = {} /\ NewView.faults = {}
  BY DEF NewView
<1> HIDE DEF t
<1>3. CallIndicesDiffer(t) /\ CallShape(t)
  BY <1>1 DEF CallIndicesDiffer, CallShape
<1>4. CallIndicesCounted(t)
  <2>1. CallIndexed(t) = {}
    BY <1>1 DEF CallIndexed
  <2>2. Cardinality(CallIndexed(t)) = 0
    BY <2>1, FS_EmptySet
  <2>3. t.nextIdx = 0 /\ t.outputIndex = NoIndex /\ t.reasoningIndex = NoIndex
    BY <1>1
  <2> QED
    BY <2>2, <2>3, SMT DEF CallIndicesCounted
<1>5. ReasoningShape(t) /\ OpenItems(t) /\ ChatParts(t)
  BY <1>1, <1>2 DEF ReasoningShape, OpenItems, ChatParts, textStarted, Thinking
<1> QED
  BY <1>1, <1>2, <1>3, <1>4, <1>5 DEF ChatShape, t

\* The index of the reasoning or the message is the next one, and its item is announced.
LEMMA ReasoningOpens ==
  ASSUME NEW t, ChatReads(t), ChatShape(t), NEW u \in AnyChat, NEW x \in Nat, x = t.nextIdx + 1,
         t.reasoning = "no", u.reasoning = "open", u.reasoningIndex = t.nextIdx,
         u.index = t.index, u.started = t.started, u.outputIndex = t.outputIndex,
         u.nextIdx = x,
         \A j \in Indices : u.view.items[j] =
                              IF j = t.nextIdx THEN "open" ELSE t.view.items[j],
         u.view.parts = t.view.parts \cup {<<t.nextIdx, 0>>}, u.view.faults = {}
  PROVE  ChatShape(u)
<1>0. /\ t \in AnyChat /\ t.nextIdx \in Nat
      /\ CallIndicesDiffer(t) /\ CallIndicesCounted(t) /\ CallShape(t) /\ ReasoningShape(t)
      /\ OpenItems(t) /\ ChatParts(t)
  BY DEF ChatReads, AnyChat, ChatShape
<1>1. t.reasoningIndex = NoIndex /\ ~Thinking(t) /\ Thinking(u)
  BY <1>0 DEF ReasoningShape, Thinking
<1>2. t.nextIdx \in Indices /\ t.nextIdx # NoIndex
  BY <1>0, <1>1, NextIdxBound DEF Indices, NoIndex
<1>3. /\ t.outputIndex # NoIndex => t.outputIndex \in Indices
      /\ \A c \in Calls : t.index[c] # NoIndex => t.index[c] \in Indices
  BY <1>0, CallIndicesGiven
<1> DEFINE n == t.nextIdx
<1>4. /\ t.outputIndex # n /\ \A c \in Calls : t.index[c] # n
  <2>1. \A c \in Calls : t.index[c] \in Int
    BY <1>0 DEF AnyChat
  <2>2. t.outputIndex \in Int
    BY <1>0 DEF AnyChat
  <2> QED
    BY <1>0, <1>2, <2>1, <2>2 DEF CallIndicesDiffer
<1>5. CallIndicesDiffer(u)
  <2>1. \A c \in Calls : t.index[c] \in Int
    BY <1>0 DEF AnyChat
  <2>2. t.outputIndex \in Int
    BY <1>0 DEF AnyChat
  <2> QED
    BY <1>0, <1>4, <2>1, <2>2 DEF CallIndicesDiffer
<1>6. CallIndicesCounted(u)
  <2>1. CallIndexed(u) = CallIndexed(t)
    BY DEF CallIndexed
  <2>2. Cardinality(CallIndexed(t)) \in Nat
    BY ChatAssumption, FS_Subset, FS_CardinalityType DEF CallIndexed
  <2>3. n = Cardinality(CallIndexed(t)) + (IF t.outputIndex = NoIndex THEN 0 ELSE 1) + 0
    BY <1>0, <1>1 DEF CallIndicesCounted
  <2>4. x = Cardinality(CallIndexed(t)) + (IF t.outputIndex = NoIndex THEN 0 ELSE 1) + 1
    BY <2>2, <2>3
  <2> QED
    BY <1>2, <2>1, <2>4 DEF CallIndicesCounted
<1>7. CallShape(u)
  BY <1>0, <1>3, <1>4 DEF CallShape
<1>8. ReasoningShape(u)
  BY <1>0, <1>1, <1>2 DEF ReasoningShape
<1>9. OpenItems(u)
  <2>1. ASSUME NEW j \in Indices, j >= u.nextIdx PROVE u.view.items[j] = "none"
    <3>1. j >= n /\ j # n
      BY <1>0, <2>1 DEF Indices
    <3> QED
      BY <1>0, <3>1 DEF OpenItems
  <2>2. ASSUME NEW j \in Indices, u.view.items[j] = "open"
        PROVE  j = u.outputIndex \/ j = u.reasoningIndex \/ \E c \in u.started : j = u.index[c]
    BY <1>0, <1>1, <2>2 DEF OpenItems
  <2> QED
    BY <1>1, <2>1, <2>2 DEF OpenItems
<1>10. ChatParts(u)
  BY <1>0, <1>1, <1>3, <1>4 DEF ChatParts, textStarted
<1> QED
  BY <1>5, <1>6, <1>7, <1>8, <1>9, <1>10 DEF ChatShape

LEMMA PushReasoningShape ==
  ASSUME NEW t, ChatReads(t), ChatShape(t)
  PROVE  ChatShape(PushReasoning(t))
<1>1. /\ t \in AnyChat /\ Reading(t.view) /\ t.nextIdx \in Nat
      /\ CallIndicesDiffer(t) /\ CallIndicesCounted(t) /\ ReasoningShape(t)
      /\ OpenItems(t) /\ ChatParts(t) /\ t.view.faults = {}
  BY DEF ChatReads, AnyChat, Reading, ChatShape
<1>2. CASE t.reasoning = "done"
  BY <1>2 DEF PushReasoning
<1>3. CASE t.reasoning = "open"
  <2> DEFINE i == t.reasoningIndex
             w == TextDelta(t.view, i, 0)
             u == [t EXCEPT !.reasoning = "open", !.reasoningIndex = i, !.nextIdx = @, !.view = w]
  <2>1. PushReasoning(t) = u
    BY <1>3 DEF PushReasoning
  <2>2. i # NoIndex /\ t.view.items[i] = "open" /\ <<i, 0>> \in t.view.parts
    BY <1>1, <1>3 DEF ReasoningShape, ChatParts, Thinking
  <2>3. i \in Indices
    BY <1>1, <2>2, CallIndicesGiven
  <2>4. w = t.view
    BY <1>1, <2>2, <2>3, TextDeltaIsQuiet
  <2> HIDE DEF w
  <2>5. SameCalls(t, u) /\ u.view = t.view
    BY <1>1, <1>3, <2>4 DEF AnyChat, SameCalls
  <2> QED
    BY <2>1, <2>5, SameChatShape
<1>4. CASE t.reasoning = "no"
  <2> DEFINE i == t.nextIdx
             x == t.nextIdx + 1
             a == Announce(t.view, i)
             v == PartAdded(a, i, 0)
             w == TextDelta(v, i, 0)
             u == [t EXCEPT !.reasoning = "open", !.reasoningIndex = i, !.nextIdx = x,
                            !.view = w]
  <2>1. PushReasoning(t) = u
    BY <1>4 DEF PushReasoning
  <2>2. u \in AnyChat
    BY <1>1, <2>1, PushReasoningSameStage DEF SameStage
  <2>3. i \in Indices /\ i \in Nat /\ t.view.items[i] = "none"
    BY <1>1, <1>4, NextIdxBound DEF ReasoningShape, OpenItems, Indices
  <2>4. a = [t.view EXCEPT !.items[i] = "open"]
    BY <1>1, <2>3, AnnounceOpens
  <2> HIDE DEF a, i
  <2>5. /\ Reading(a) /\ a.parts = t.view.parts /\ a.faults = t.view.faults
        /\ \A j \in Indices : a.items[j] = IF j = i THEN "open" ELSE t.view.items[j]
    BY <1>1, <2>3, <2>4, OpenedView
  <2>6. a.items[i] = "open" /\ a.parts \cup {<<i, 0>>} \in SUBSET (Int \X Nat)
    <3>1. a.parts \in SUBSET (Int \X Nat)
      BY <2>5 DEF Reading, AnyView
    <3> QED
      BY <2>3, <2>5, <3>1
  <2>7. v = [a EXCEPT !.parts = a.parts \cup {<<i, 0>>}]
    <3>1. Reading(a)
      BY <2>5
    <3>2. PartAdded(a, i, 0) = [a EXCEPT !.parts = @ \cup {<<i, 0>>}]
      BY <2>3, <2>6, <3>1, PartAddedOpens
    <3> QED
      BY <3>2
  <2> HIDE DEF v
  <2>8. /\ Reading(v) /\ v.parts = a.parts \cup {<<i, 0>>} /\ v.items = a.items
        /\ v.faults = a.faults
    BY <2>5, <2>6, <2>7, PartsView
  <2>9. w = v
    <3>1. v.items[i] = "open" /\ <<i, 0>> \in v.parts
      BY <2>6, <2>8
    <3> QED
      BY <2>3, <2>8, <3>1, TextDeltaIsQuiet
  <2> HIDE DEF w
  <2>10. x = t.nextIdx + 1 /\ x \in Nat
    BY <1>1
  <2> HIDE DEF x
  <2>11. /\ u.reasoning = "open" /\ u.reasoningIndex = i /\ u.index = t.index
         /\ u.started = t.started /\ u.outputIndex = t.outputIndex /\ u.nextIdx = x
         /\ u.view = w
    BY <1>1 DEF AnyChat
  <2> HIDE DEF u
  <2>12. ChatShape(u)
    BY <1>1, <1>4, <2>2, <2>5, <2>8, <2>9, <2>10, <2>11, ReasoningOpens DEF i
  <2> QED
    BY <2>1, <2>12
<1> QED
  BY <1>1, <1>2, <1>3, <1>4 DEF AnyChat

\* The reasoning is closed: afterwards none is open.
LEMMA FinalizeReasoningShape ==
  ASSUME NEW t, ChatReads(t), ChatShape(t)
  PROVE  /\ ChatShape(FinalizeReasoning(t)) /\ ~Thinking(FinalizeReasoning(t))
         /\ FinalizeReasoning(t).outputIndex = t.outputIndex
         /\ FinalizeReasoning(t).index = t.index /\ FinalizeReasoning(t).started = t.started
<1>1. /\ t \in AnyChat /\ Reading(t.view)
      /\ CallIndicesDiffer(t) /\ CallIndicesCounted(t) /\ ReasoningShape(t) /\ CallShape(t)
      /\ OpenItems(t) /\ ChatParts(t) /\ t.view.faults = {}
  BY DEF ChatReads, AnyChat, Reading, ChatShape
<1>2. CASE ~Thinking(t)
  BY <1>2 DEF FinalizeReasoning, Thinking
<1>3. CASE Thinking(t)
  <2> DEFINE i == t.reasoningIndex
             p == PartDone(t.view, i, 0)
             w == Finish(p, i)
             u == [t EXCEPT !.reasoning = "done", !.view = w]
  <2>1. FinalizeReasoning(t) = u
    BY <1>3 DEF FinalizeReasoning, Thinking
  <2>2. i # NoIndex /\ t.view.items[i] = "open" /\ <<i, 0>> \in t.view.parts
    BY <1>1, <1>3 DEF ReasoningShape, ChatParts, Thinking
  <2>3. i \in Indices /\ i \in Int
    BY <1>1, <2>2, CallIndicesGiven DEF Indices
  <2>4. t.outputIndex # i /\ \A c \in Calls : t.index[c] # i
    BY <1>1, <2>2 DEF CallIndicesDiffer
  <2>5. /\ t.outputIndex # NoIndex => t.outputIndex \in Indices
        /\ \A c \in Calls : t.index[c] # NoIndex => t.index[c] \in Indices
    BY <1>1, CallIndicesGiven
  <2> DEFINE P == IF textStarted(t) THEN {<<t.outputIndex, 0>>} ELSE {}
  <2>6. t.view.parts \ {<<i, 0>>} = P
    BY <1>1, <1>3, <2>4 DEF ChatParts
  <2>7. p = [t.view EXCEPT !.parts = P]
    <3>1. PartDone(t.view, i, 0) = [t.view EXCEPT !.parts = @ \ {<<i, 0>>}]
      <4> HIDE DEF i
      <4> QED
        BY <1>1, <2>2, <2>3, PartDoneCloses
    <3> QED
      BY <2>6, <3>1
  <2> HIDE DEF p
  <2>8. P \in SUBSET (Int \X Nat) /\ \A q \in P : q[1] # i
    <3>1. t.outputIndex \in Int
      BY <1>1 DEF AnyChat
    <3> QED
      BY <2>4, <3>1
  <2>9. Reading(p) /\ p.parts = P /\ p.items = t.view.items /\ p.faults = t.view.faults
    <3> HIDE DEF P
    <3> QED
      BY <1>1, <2>7, <2>8, PartsView
  <2>10. w = FinishedItems(p, {i})
    <3> HIDE DEF P, i
    <3> QED
      BY <2>2, <2>3, <2>8, <2>9, FinishCloses
  <2> HIDE DEF w
  <2>11. /\ w.parts = P /\ w.faults = {}
         /\ \A j \in Indices : w.items[j] = IF j = i THEN "done" ELSE t.view.items[j]
    <3> HIDE DEF P, i
    <3> QED
      BY <1>1, <2>3, <2>9, <2>10, FinishedView
  <2>12. /\ u.reasoning = "done" /\ u.reasoningIndex = i /\ u.index = t.index
         /\ u.started = t.started /\ u.outputIndex = t.outputIndex /\ u.nextIdx = t.nextIdx
         /\ u.view = w
    BY <1>1 DEF AnyChat
  <2> HIDE DEF u
  <2>13. ~Thinking(u)
    BY <2>12 DEF Thinking
  <2>14. CallIndicesDiffer(u) /\ CallIndicesCounted(u)
    BY <1>1, <2>12 DEF CallIndicesDiffer, CallIndicesCounted, CallIndexed
  <2>15. CallShape(u)
    BY <1>1, <2>4, <2>5, <2>11, <2>12 DEF CallShape
  <2>16. ReasoningShape(u)
    BY <2>2, <2>3, <2>11, <2>12, <2>13 DEF ReasoningShape
  <2>17. OpenItems(u)
    <3>1. ASSUME NEW j \in Indices, j >= u.nextIdx PROVE u.view.items[j] = "none"
      <4>1. t.view.items[j] = "none"
        BY <1>1, <2>12, <3>1 DEF OpenItems
      <4> QED
        BY <2>2, <2>11, <2>12, <4>1
    <3>2. ASSUME NEW j \in Indices, u.view.items[j] = "open"
          PROVE  j = u.outputIndex \/ \E c \in u.started : j = u.index[c]
      <4>1. j # i /\ t.view.items[j] = "open"
        BY <2>11, <2>12, <3>2
      <4> QED
        BY <1>1, <2>12, <4>1 DEF OpenItems
    <3> QED
      BY <3>1, <3>2 DEF OpenItems
  <2>18. ChatParts(u)
    BY <1>1, <2>4, <2>5, <2>11, <2>12, <2>13 DEF ChatParts, textStarted
  <2> QED
    BY <2>1, <2>11, <2>12, <2>13, <2>14, <2>15, <2>16, <2>17, <2>18 DEF ChatShape
<1> QED
  BY <1>2, <1>3

\* The message is announced when no reasoning is open.
LEMMA StartTextShape ==
  ASSUME NEW t, ChatReads(t), ChatShape(t), ~Thinking(t), t.outputIndex = NoIndex
  PROVE  ChatShape(StartText(t)) /\ StartText(t).outputIndex # NoIndex
<1> DEFINE i == t.nextIdx
           x == t.nextIdx + 1
           a == Announce(t.view, i)
           w == PartAdded(a, i, 0)
           u == [t EXCEPT !.outputIndex = i, !.nextIdx = x, !.view = w]
<1>1. /\ t \in AnyChat /\ Reading(t.view) /\ t.nextIdx \in Nat
      /\ CallIndicesDiffer(t) /\ CallIndicesCounted(t) /\ CallShape(t) /\ ReasoningShape(t)
      /\ OpenItems(t) /\ ChatParts(t) /\ t.view.faults = {}
  BY DEF ChatReads, AnyChat, Reading, ChatShape
<1>2. StartText(t) = u
  BY DEF StartText
<1>3. i \in Indices /\ i \in Nat /\ i # NoIndex /\ t.view.items[i] = "none"
  BY <1>1, NextIdxBound DEF OpenItems, Indices, NoIndex
<1>4. /\ t.reasoningIndex # i /\ \A c \in Calls : t.index[c] # i
  <2>1. t.reasoningIndex \in Int /\ \A c \in Calls : t.index[c] \in Int
    BY <1>1 DEF AnyChat
  <2> QED
    BY <1>1, <1>3, <2>1 DEF CallIndicesDiffer
<1>5. /\ t.reasoningIndex # NoIndex => t.reasoningIndex \in Indices
      /\ \A c \in Calls : t.index[c] # NoIndex => t.index[c] \in Indices
  BY <1>1, CallIndicesGiven
<1>6. a = [t.view EXCEPT !.items[i] = "open"]
  BY <1>1, <1>3, AnnounceOpens
<1> HIDE DEF a, i
<1>7. /\ Reading(a) /\ a.parts = t.view.parts /\ a.faults = t.view.faults
      /\ \A j \in Indices : a.items[j] = IF j = i THEN "open" ELSE t.view.items[j]
  BY <1>1, <1>3, <1>6, OpenedView
<1>8. a.items[i] = "open" /\ a.parts \cup {<<i, 0>>} \in SUBSET (Int \X Nat)
  <2>1. a.parts \in SUBSET (Int \X Nat)
    BY <1>7 DEF Reading, AnyView
  <2> QED
    BY <1>3, <1>7, <2>1
<1>9. w = [a EXCEPT !.parts = a.parts \cup {<<i, 0>>}]
  <2>1. Reading(a)
    BY <1>7
  <2>2. PartAdded(a, i, 0) = [a EXCEPT !.parts = @ \cup {<<i, 0>>}]
    BY <1>3, <1>8, <2>1, PartAddedOpens
  <2> QED
    BY <2>2
<1> HIDE DEF w
<1>10. w.parts = t.view.parts \cup {<<i, 0>>} /\ w.items = a.items /\ w.faults = {}
  BY <1>1, <1>7, <1>8, <1>9, PartsView
<1>11. x = t.nextIdx + 1 /\ x \in Nat
  BY <1>1
<1> HIDE DEF x
<1>12. /\ u.reasoning = t.reasoning /\ u.reasoningIndex = t.reasoningIndex /\ u.index = t.index
       /\ u.started = t.started /\ u.outputIndex = i /\ u.nextIdx = x /\ u.view = w
  BY <1>1 DEF AnyChat
<1> HIDE DEF u
<1>13. ~Thinking(u) /\ textStarted(u)
  BY <1>3, <1>12 DEF Thinking, textStarted
<1>14. CallIndicesDiffer(u)
  <2>1. t.reasoningIndex \in Int /\ \A c \in Calls : t.index[c] \in Int
    BY <1>1 DEF AnyChat
  <2> QED
    BY <1>1, <1>3, <1>4, <1>11, <1>12, <2>1 DEF CallIndicesDiffer, i
<1>15. CallIndicesCounted(u)
  <2>1. CallIndexed(u) = CallIndexed(t)
    BY <1>12 DEF CallIndexed
  <2>2. Cardinality(CallIndexed(t)) \in Nat
    BY ChatAssumption, FS_Subset, FS_CardinalityType DEF CallIndexed
  <2>3. t.nextIdx = Cardinality(CallIndexed(t)) + 0
                      + (IF t.reasoningIndex = NoIndex THEN 0 ELSE 1)
    BY <1>1 DEF CallIndicesCounted
  <2>4. x = Cardinality(CallIndexed(t)) + 1 + (IF t.reasoningIndex = NoIndex THEN 0 ELSE 1)
    BY <1>11, <2>2, <2>3
  <2> QED
    BY <1>3, <1>12, <2>1, <2>4 DEF CallIndicesCounted
<1>16. CallShape(u)
  BY <1>1, <1>4, <1>5, <1>7, <1>10, <1>12 DEF CallShape
<1>17. ReasoningShape(u)
  <2>1. t.reasoning # "no" => t.reasoningIndex # NoIndex
    BY <1>1 DEF ReasoningShape
  <2> QED
    BY <1>1, <1>4, <1>5, <1>7, <1>10, <1>12, <1>13, <2>1 DEF ReasoningShape
<1>18. OpenItems(u)
  <2>1. ASSUME NEW j \in Indices, j >= u.nextIdx PROVE u.view.items[j] = "none"
    <3>1. j >= t.nextIdx /\ j # i
      BY <1>1, <1>11, <1>12, <2>1 DEF Indices, i
    <3> QED
      BY <1>1, <1>7, <1>10, <1>12, <3>1 DEF OpenItems
  <2>2. ASSUME NEW j \in Indices, u.view.items[j] = "open"
        PROVE  j = u.outputIndex \/ \E c \in u.started : j = u.index[c]
    <3>1. CASE j = i
      BY <1>12, <3>1
    <3>2. CASE j # i
      <4>1. t.view.items[j] = "open" /\ j # NoIndex
        BY <1>7, <1>10, <1>12, <2>2, <3>2 DEF Indices, NoIndex
      <4> QED
        BY <1>1, <1>12, <4>1 DEF OpenItems
    <3> QED
      BY <3>1, <3>2
  <2> QED
    BY <2>1, <2>2 DEF OpenItems
<1>19. ChatParts(u)
  <2>1. t.view.parts = {}
    BY <1>1 DEF ChatParts, textStarted
  <2> QED
    BY <1>3, <1>7, <1>10, <1>12, <1>13, <2>1 DEF ChatParts
<1> QED
  BY <1>2, <1>3, <1>10, <1>12, <1>14, <1>15, <1>16, <1>17, <1>18, <1>19 DEF ChatShape

\* Text is a delta of the message that is open.
LEMMA TextIsQuiet ==
  ASSUME NEW t, ChatReads(t), ChatShape(t), t.outputIndex # NoIndex
  PROVE  [t EXCEPT !.view = TextDelta(@, t.outputIndex, 0)] = t
<1>1. /\ t \in AnyChat /\ Reading(t.view)
      /\ CallIndicesDiffer(t) /\ CallIndicesCounted(t) /\ ChatParts(t)
  BY DEF ChatReads, AnyChat, Reading, ChatShape
<1>2. t.view.items[t.outputIndex] = "open" /\ <<t.outputIndex, 0>> \in t.view.parts
  BY <1>1 DEF ChatParts, textStarted
<1>3. t.outputIndex \in Indices
  BY <1>1, CallIndicesGiven
<1>4. TextDelta(t.view, t.outputIndex, 0) = t.view
  BY <1>1, <1>2, <1>3, TextDeltaIsQuiet
<1> QED
  BY <1>1, <1>4 DEF AnyChat

LEMMA PushTextShape ==
  ASSUME NEW t, ChatReads(t), ChatShape(t)
  PROVE  ChatShape(PushText(t))
<1> DEFINE f == FinalizeReasoning(t)
           s == IF textStarted(t) THEN t ELSE StartText(f)
<1>1. ChatReads(f) /\ ChatShape(f) /\ ~Thinking(f) /\ f.outputIndex = t.outputIndex
  BY FinalizeReasoningShape, FinalizeReasoningSameStage, SameStageReads DEF ChatReads
<1> HIDE DEF f
<1>2. ChatReads(s) /\ ChatShape(s) /\ s.outputIndex # NoIndex
  <2>1. CASE textStarted(t)
    BY <2>1 DEF textStarted
  <2>2. CASE ~textStarted(t)
    <3>1. f.outputIndex = NoIndex /\ f \in AnyChat
      BY <1>1, <2>2 DEF textStarted, ChatReads
    <3>2. ChatReads(StartText(f))
      BY <1>1, <3>1, StartTextSameStage, SameStageReads
    <3> QED
      BY <1>1, <2>2, <3>1, <3>2, StartTextShape
  <2> QED
    BY <2>1, <2>2
<1>3. PushText(t) = [s EXCEPT !.view = TextDelta(@, s.outputIndex, 0)]
  BY DEF PushText, f
<1> HIDE DEF s
<1> QED
  BY <1>2, <1>3, TextIsQuiet

\* What the search for a <think> block remembers is not told to the client.
LEMMA ModeShape ==
  ASSUME NEW t, ChatReads(t), ChatShape(t), NEW mode \in ThinkModes, NEW kept \in {TRUE, FALSE}
  PROVE  LET u == [t EXCEPT !.inlineThink = mode, !.buffered = kept]
         IN  ChatReads(u) /\ ChatShape(u)
<1> DEFINE u == [t EXCEPT !.inlineThink = mode, !.buffered = kept]
<1>1. ChatReads(u)
  BY TextModeSameStage, SameStageReads DEF ChatReads
<1>2. SameCalls(t, u) /\ u.view = t.view
  BY DEF ChatReads, AnyChat, SameCalls
<1> HIDE DEF u
<1>3. ChatShape(u)
  BY <1>2, SameChatShape
<1> QED
  BY <1>1, <1>3 DEF u

LEMMA FlushInlineThinkShape ==
  ASSUME NEW t, ChatReads(t), ChatShape(t)
  PROVE  ChatReads(FlushInlineThink(t)) /\ ChatShape(FlushInlineThink(t))
<1> DEFINE text == [t EXCEPT !.inlineThink = "text", !.buffered = FALSE]
<1>1. ChatReads(text) /\ ChatShape(text)
  BY ModeShape DEF ThinkModes
<1>2. FlushInlineThink(t) = IF t.buffered THEN PushText(text) ELSE text
  BY DEF FlushInlineThink
<1> HIDE DEF text
<1>3. ChatReads(FlushInlineThink(t))
  BY FlushInlineThinkSameStage, SameStageReads DEF ChatReads
<1> QED
  BY <1>1, <1>2, <1>3, PushTextShape

LEMMA PushContentShape ==
  ASSUME NEW t, ChatReads(t), ChatShape(t), NEW found \in Findings
  PROVE  ChatReads(PushContent(t, found)) /\ ChatShape(PushContent(t, found))
<1> DEFINE text == [t EXCEPT !.inlineThink = "text", !.buffered = FALSE]
           r == PushReasoning(text)
           thought == FinalizeReasoning(r)
<1>1. /\ ChatReads(text) /\ ChatShape(text)
      /\ ChatShape([t EXCEPT !.inlineThink = "reasoning", !.buffered = FALSE])
      /\ ChatShape([t EXCEPT !.inlineThink = "reasoning", !.buffered = TRUE])
  BY ModeShape DEF ThinkModes
<1>2. ChatShape([t EXCEPT !.buffered = TRUE])
  <2> DEFINE u == [t EXCEPT !.buffered = TRUE]
  <2>1. SameCalls(t, u) /\ u.view = t.view
    BY DEF ChatReads, AnyChat, SameCalls
  <2> HIDE DEF u
  <2>2. ChatShape(u)
    BY <2>1, SameChatShape
  <2> QED
    BY <2>2 DEF u
<1>3. PushContent(t, found) =
        CASE found = "partial" -> [t EXCEPT !.buffered = TRUE]
          [] found = "tag" -> [t EXCEPT !.inlineThink = "reasoning", !.buffered = FALSE]
          [] found = "thought" -> [t EXCEPT !.inlineThink = "reasoning", !.buffered = TRUE]
          [] found = "hollow" -> text
          [] found = "closed" -> thought
          [] found = "answered" -> PushText(thought)
          [] found = "plain" -> PushText(text)
  BY DEF PushContent
<1> HIDE DEF text
<1>4. ChatReads(r) /\ ChatShape(r)
  BY <1>1, PushReasoningShape, PushReasoningSameStage, SameStageReads DEF ChatReads
<1> HIDE DEF r
<1>5. ChatReads(thought) /\ ChatShape(thought)
  BY <1>4, FinalizeReasoningShape, FinalizeReasoningSameStage, SameStageReads DEF ChatReads
<1> HIDE DEF thought
<1>6. ChatShape(PushText(thought)) /\ ChatShape(PushText(text))
  BY <1>1, <1>5, PushTextShape
<1>7. ChatShape(PushContent(t, found))
  BY <1>1, <1>2, <1>3, <1>5, <1>6 DEF Findings
<1>8. ChatReads(PushContent(t, found))
  BY PushContentSameStage, SameStageReads DEF ChatReads
<1> QED
  BY <1>7, <1>8

\* A call gets an index before its name is known: nothing is told of it yet.
LEMMA CallTakesIndex ==
  ASSUME NEW t, ChatReads(t), ChatShape(t), ~Thinking(t), NEW c \in Calls, t.index[c] = NoIndex,
         NEW x \in Nat, x = t.nextIdx + 1
  PROVE  LET u == [t EXCEPT !.index = [@ EXCEPT ![c] = t.nextIdx], !.nextIdx = x]
         IN  /\ ChatReads(u) /\ ChatShape(u) /\ ~Thinking(u)
             /\ u.index[c] # NoIndex /\ u.started = t.started
<1> DEFINE i == t.nextIdx
           u == [t EXCEPT !.index = [@ EXCEPT ![c] = i], !.nextIdx = x]
<1>1. /\ t \in AnyChat /\ t.nextIdx \in Nat
      /\ CallIndicesDiffer(t) /\ CallIndicesCounted(t) /\ CallShape(t) /\ ReasoningShape(t)
      /\ OpenItems(t) /\ ChatParts(t) /\ t.view.faults = {}
  BY DEF ChatReads, AnyChat, ChatShape
<1>2. i \in Indices /\ i \in Nat /\ i # NoIndex /\ t.view.items[i] = "none"
  BY <1>1, NextIdxBound DEF OpenItems, Indices, NoIndex
<1>3. /\ t.outputIndex \in Int /\ t.reasoningIndex \in Int
      /\ \A d \in Calls : t.index[d] \in Int
  BY <1>1 DEF AnyChat
<1>4. /\ t.outputIndex # i /\ t.reasoningIndex # i /\ \A d \in Calls : t.index[d] # i
  BY <1>1, <1>2, <1>3 DEF CallIndicesDiffer
<1>5. [t.index EXCEPT ![c] = i] \in [Calls -> Int]
  BY <1>1, <1>2 DEF AnyChat
<1>6. ChatReads(u)
  <2> HIDE DEF i
  <2> QED
    BY <1>5 DEF ChatReads, AnyChat
<1>7. /\ u.reasoning = t.reasoning /\ u.reasoningIndex = t.reasoningIndex
      /\ u.index = [t.index EXCEPT ![c] = i]
      /\ u.started = t.started /\ u.outputIndex = t.outputIndex /\ u.nextIdx = x
      /\ u.view = t.view
  BY <1>1 DEF AnyChat
<1> HIDE DEF u, i
<1>8. \A d \in Calls : u.index[d] = IF d = c THEN i ELSE t.index[d]
  BY <1>1, <1>7 DEF AnyChat
<1>9. ~Thinking(u)
  BY <1>7 DEF Thinking
<1>10. CallIndicesDiffer(u)
  <2>1. ASSUME NEW d \in Calls, u.index[d] # NoIndex
        PROVE  /\ 0 <= u.index[d] /\ u.index[d] < u.nextIdx
               /\ u.index[d] # u.outputIndex /\ u.index[d] # u.reasoningIndex
               /\ \A e \in Calls : u.index[e] = u.index[d] => e = d
    <3>1. CASE d = c
      BY <1>1, <1>2, <1>4, <1>7, <1>8, <3>1 DEF i
    <3>2. CASE d # c
      <4>1. t.index[d] # NoIndex /\ u.index[d] = t.index[d]
        BY <1>8, <2>1, <3>2
      <4>2. /\ 0 <= t.index[d] /\ t.index[d] < t.nextIdx
            /\ t.index[d] # t.outputIndex /\ t.index[d] # t.reasoningIndex
            /\ \A e \in Calls : t.index[e] = t.index[d] => e = d
        BY <1>1, <4>1 DEF CallIndicesDiffer
      <4>3. t.index[d] < x
        BY <1>1, <1>3, <4>2
      <4> QED
        BY <1>4, <1>7, <1>8, <4>1, <4>2, <4>3
    <3> QED
      BY <3>1, <3>2
  <2>2. /\ u.outputIndex # NoIndex =>
             0 <= u.outputIndex /\ u.outputIndex < u.nextIdx /\ u.outputIndex # u.reasoningIndex
        /\ u.reasoningIndex # NoIndex => 0 <= u.reasoningIndex /\ u.reasoningIndex < u.nextIdx
    BY <1>1, <1>3, <1>7 DEF CallIndicesDiffer
  <2> QED
    BY <2>1, <2>2 DEF CallIndicesDiffer
<1>11. CallIndicesCounted(u)
  <2>1. CallIndexed(u) = CallIndexed(t) \cup {c} /\ c \notin CallIndexed(t)
    BY <1>2, <1>8 DEF CallIndexed
  <2>2. IsFiniteSet(CallIndexed(t)) /\ Cardinality(CallIndexed(t)) \in Nat
    BY ChatAssumption, FS_Subset, FS_CardinalityType DEF CallIndexed
  <2>3. Cardinality(CallIndexed(u)) = Cardinality(CallIndexed(t)) + 1
    BY <2>1, <2>2, FS_AddElement
  <2>4. t.nextIdx = Cardinality(CallIndexed(t)) + (IF t.outputIndex = NoIndex THEN 0 ELSE 1)
                      + (IF t.reasoningIndex = NoIndex THEN 0 ELSE 1)
    BY <1>1 DEF CallIndicesCounted
  <2>5. x = Cardinality(CallIndexed(u)) + (IF t.outputIndex = NoIndex THEN 0 ELSE 1)
              + (IF t.reasoningIndex = NoIndex THEN 0 ELSE 1)
    BY <2>2, <2>3, <2>4
  <2> QED
    BY <1>7, <2>5 DEF CallIndicesCounted
<1>12. CallShape(u)
  <2>1. c \notin t.started
    BY <1>1 DEF CallShape
  <2> QED
    BY <1>1, <1>2, <1>7, <1>8, <2>1 DEF CallShape
<1>13. ReasoningShape(u)
  BY <1>1, <1>7, <1>9 DEF ReasoningShape
<1>14. OpenItems(u)
  <2>1. ASSUME NEW j \in Indices, j >= u.nextIdx PROVE u.view.items[j] = "none"
    <3>1. j >= t.nextIdx
      BY <1>1, <1>7, <2>1 DEF Indices
    <3> QED
      BY <1>1, <1>7, <3>1 DEF OpenItems
  <2>2. ASSUME NEW j \in Indices, u.view.items[j] = "open"
        PROVE  j = u.outputIndex \/ \E d \in u.started : j = u.index[d]
    <3>1. j = t.outputIndex \/ \E d \in t.started : j = t.index[d]
      BY <1>1, <1>7, <2>2 DEF OpenItems
    <3>2. c \notin t.started /\ t.started \subseteq Calls
      BY <1>1 DEF CallShape, AnyChat
    <3> QED
      BY <1>7, <1>8, <3>1, <3>2
  <2> QED
    BY <2>1, <2>2 DEF OpenItems
<1>15. ChatParts(u)
  BY <1>1, <1>7, <1>9 DEF ChatParts, textStarted
<1>16. u.index[c] # NoIndex
  BY <1>2, <1>8
<1> QED
  BY <1>1, <1>6, <1>7, <1>9, <1>10, <1>11, <1>12, <1>13, <1>14, <1>15, <1>16
     DEF ChatShape, u, i

\* Its item is announced with the name.
LEMMA CallIsAnnounced ==
  ASSUME NEW t, ChatReads(t), ChatShape(t), ~Thinking(t), NEW c \in Calls,
         t.index[c] # NoIndex, c \notin t.started
  PROVE  LET u == [t EXCEPT !.started = @ \cup {c}, !.view = Announce(@, t.index[c])]
         IN  ChatReads(u) /\ ChatShape(u) /\ u.index = t.index
<1> DEFINE i == t.index[c]
           w == Announce(t.view, i)
           u == [t EXCEPT !.started = @ \cup {c}, !.view = w]
<1>1. /\ t \in AnyChat /\ Reading(t.view)
      /\ CallIndicesDiffer(t) /\ CallIndicesCounted(t) /\ CallShape(t) /\ ReasoningShape(t)
      /\ OpenItems(t) /\ ChatParts(t) /\ t.view.faults = {}
  BY DEF ChatReads, AnyChat, Reading, ChatShape
<1>2. i \in Indices /\ i \in Int /\ t.view.items[i] = "none"
  BY <1>1, CallIndicesGiven DEF CallShape, Indices
<1>3. /\ t.outputIndex # i /\ t.reasoningIndex # i /\ i < t.nextIdx
      /\ \A d \in Calls : d # c => t.index[d] # i
  BY <1>1 DEF CallIndicesDiffer
<1>4. /\ t.outputIndex # NoIndex => t.outputIndex \in Indices
      /\ t.reasoningIndex # NoIndex => t.reasoningIndex \in Indices
      /\ \A d \in Calls : t.index[d] # NoIndex => t.index[d] \in Indices
  BY <1>1, CallIndicesGiven
<1>5. w = [t.view EXCEPT !.items[i] = "open"]
  BY <1>1, <1>2, AnnounceOpens
<1> HIDE DEF w, i
<1>6. /\ Reading(w) /\ w.parts = t.view.parts /\ w.faults = t.view.faults
      /\ \A j \in Indices : w.items[j] = IF j = i THEN "open" ELSE t.view.items[j]
  BY <1>1, <1>2, <1>5, OpenedView
<1>7. ChatReads(u)
  BY <1>6 DEF ChatReads, AnyChat, Reading
<1>8. /\ u.reasoning = t.reasoning /\ u.reasoningIndex = t.reasoningIndex
      /\ u.index = t.index /\ u.started = t.started \cup {c}
      /\ u.outputIndex = t.outputIndex /\ u.nextIdx = t.nextIdx /\ u.view = w
  BY <1>1 DEF AnyChat
<1> HIDE DEF u
<1>9. ~Thinking(u)
  BY <1>8 DEF Thinking
<1>10. CallIndicesDiffer(u) /\ CallIndicesCounted(u)
  BY <1>1, <1>8 DEF CallIndicesDiffer, CallIndicesCounted, CallIndexed
<1>11. CallShape(u)
  <2>1. ASSUME NEW d \in Calls
        PROVE  /\ d \in u.started => u.index[d] # NoIndex
               /\ u.index[d] # NoIndex =>
                    u.view.items[u.index[d]] = IF d \in u.started THEN "open" ELSE "none"
    <3>1. CASE d = c
      BY <1>2, <1>6, <1>8, <3>1 DEF i
    <3>2. CASE d # c
      BY <1>1, <1>3, <1>4, <1>6, <1>8, <3>2 DEF CallShape
    <3> QED
      BY <3>1, <3>2
  <2> QED
    BY <2>1 DEF CallShape
<1>12. ReasoningShape(u)
  <2>1. t.reasoning # "no" => t.reasoningIndex # NoIndex
    BY <1>1 DEF ReasoningShape
  <2> QED
    BY <1>1, <1>3, <1>4, <1>6, <1>8, <1>9, <2>1 DEF ReasoningShape
<1>13. OpenItems(u)
  <2>1. ASSUME NEW j \in Indices, j >= u.nextIdx PROVE u.view.items[j] = "none"
    <3>1. t.nextIdx \in Nat
      BY <1>1 DEF AnyChat
    <3>2. j # i /\ j >= t.nextIdx
      BY <1>2, <1>3, <1>8, <2>1, <3>1 DEF Indices
    <3> QED
      BY <1>1, <1>6, <1>8, <3>2 DEF OpenItems
  <2>2. ASSUME NEW j \in Indices, u.view.items[j] = "open"
        PROVE  j = u.outputIndex \/ \E d \in u.started : j = u.index[d]
    <3>1. CASE j = i
      BY <1>8, <3>1 DEF i
    <3>2. CASE j # i
      BY <1>1, <1>6, <1>8, <2>2, <3>2 DEF OpenItems
    <3> QED
      BY <3>1, <3>2
  <2> QED
    BY <2>1, <2>2 DEF OpenItems
<1>14. ChatParts(u)
  BY <1>1, <1>3, <1>4, <1>6, <1>8, <1>9 DEF ChatParts, textStarted
<1> QED
  BY <1>1, <1>6, <1>7, <1>8, <1>10, <1>11, <1>12, <1>13, <1>14 DEF ChatShape, u, w, i

LEMMA ToolFragmentShape ==
  ASSUME NEW t, ChatReads(t), ChatShape(t), NEW c \in Calls, NEW named \in {TRUE, FALSE}
  PROVE  ChatReads(ToolFragment(t, c, named)) /\ ChatShape(ToolFragment(t, c, named))
<1> DEFINE g == FlushInlineThink(t)
           s == FinalizeReasoning(g)
           i == IF s.index[c] = NoIndex THEN s.nextIdx ELSE s.index[c]
           x == s.nextIdx + 1
           k == IF s.index[c] = NoIndex
                THEN [s EXCEPT !.index = [@ EXCEPT ![c] = s.nextIdx], !.nextIdx = x] ELSE s
           n == IF named /\ c \notin k.started
                THEN [k EXCEPT !.started = @ \cup {c}, !.view = Announce(@, i)] ELSE k
           o == IF c \in n.started THEN [n EXCEPT !.view = Delta(@, i)] ELSE n
<1>1. ToolFragment(t, c, named) = o
  BY DEF ToolFragment
<1>2. ChatReads(g) /\ ChatShape(g)
  BY FlushInlineThinkShape
<1> HIDE DEF g
<1>3. ChatReads(s) /\ ChatShape(s) /\ ~Thinking(s)
  BY <1>2, FinalizeReasoningShape, FinalizeReasoningSameStage, SameStageReads DEF ChatReads
<1> HIDE DEF s
<1>4. s \in AnyChat /\ x = s.nextIdx + 1 /\ x \in Nat
  BY <1>3, NextIdxGrows DEF ChatReads
<1> HIDE DEF x
<1>5. /\ ChatReads(k) /\ ChatShape(k) /\ ~Thinking(k) /\ k.index[c] # NoIndex
      /\ i = k.index[c]
  <2>1. CASE s.index[c] = NoIndex
    <3>1. k = [s EXCEPT !.index = [@ EXCEPT ![c] = s.nextIdx], !.nextIdx = x]
      BY <2>1
    <3>2. k.index[c] = s.nextIdx
      BY <1>4, <3>1 DEF AnyChat
    <3> HIDE DEF k
    <3> QED
      BY <1>3, <1>4, <2>1, <3>1, <3>2, CallTakesIndex
  <2>2. CASE s.index[c] # NoIndex
    BY <1>3, <2>2
  <2> QED
    BY <2>1, <2>2
<1> HIDE DEF k, i
<1>6. ChatReads(n) /\ ChatShape(n) /\ n.index = k.index
  BY <1>5, CallIsAnnounced
<1> HIDE DEF n
<1>7. o = n
  <2>1. CASE c \notin n.started
    BY <2>1
  <2>2. CASE c \in n.started
    <3>1. /\ n \in AnyChat /\ Reading(n.view) /\ CallIndicesDiffer(n) /\ CallIndicesCounted(n)
          /\ CallShape(n)
      BY <1>6 DEF ChatReads, AnyChat, Reading, ChatShape
    <3>2. i \in Indices /\ n.view.items[i] = "open"
      BY <1>5, <1>6, <2>2, <3>1, CallIndicesGiven DEF CallShape
    <3>3. Delta(n.view, i) = n.view
      BY <3>1, <3>2, DeltaIsQuiet
    <3> QED
      BY <2>2, <3>1, <3>3 DEF AnyChat
  <2> QED
    BY <2>1, <2>2
<1> QED
  BY <1>1, <1>6, <1>7

LEMMA CountDroppedShape ==
  ASSUME NEW t, ChatReads(t), ChatShape(t)
  PROVE  /\ ChatReads(CountDropped(t)) /\ ChatShape(CountDropped(t))
         /\ Thinking(CountDropped(t)) <=> Thinking(t)
<1> DEFINE D == {c \in Calls : t.index[c] # NoIndex} \ t.started
           u == [t EXCEPT !.dropped = D]
<1>1. CountDropped(t) = u
  BY DEF CountDropped
<1> HIDE DEF D
<1>2. SameCalls(t, u) /\ u.view = t.view
  BY DEF ChatReads, AnyChat, SameCalls
<1> HIDE DEF u
<1>3. ChatShape(u) /\ (Thinking(u) <=> Thinking(t))
  BY <1>2, SameChatShape DEF SameCalls, Thinking
<1> QED
  BY <1>1, <1>3, CountDroppedSameStage, SameStageReads DEF ChatReads

\* Everything is within the bounds, no rule was broken, and reasoning that is open is
\* the last item.
ChatTold(t) ==
  /\ t \in ChatState /\ t.view.faults = {}
  /\ Thinking(t) => \A i \in Announced(t.view) : i <= t.reasoningIndex

\* The converter has closed its items.
ChatClosed(t) ==
  ChatTold(t) /\ ~Thinking(t) /\ \A j \in Indices : t.view.items[j] # "open"

\* A converter is as it should be.
ChatWell(t) ==
  /\ ChatTold(t)
  /\ ~t.done => IF t.finishPending THEN ChatClosed(t) ELSE ChatShape(t)

LEMMA UnfaultyView ==
  ASSUME NEW v, v \in AnyView, \A p \in v.parts : p[1] \in Indices, v.faults = {}
  PROVE  v \in View
<1>1. v.parts \in SUBSET (Indices \X Nat)
  <2>1. v.parts \in SUBSET (Int \X Nat)
    BY DEF AnyView
  <2>2. ASSUME NEW p \in v.parts PROVE p \in Indices \X Nat
    <3>1. p \in Int \X Nat /\ p[1] \in Indices
      BY <2>1
    <3> QED
      BY <3>1
  <2> QED
    BY <2>2
<1> QED
  BY <1>1 DEF AnyView, View

LEMMA ChatShapeTold ==
  ASSUME NEW t, ChatReads(t), ChatShape(t)
  PROVE  ChatTold(t)
<1>1. /\ t \in AnyChat
      /\ CallIndicesDiffer(t) /\ CallIndicesCounted(t) /\ ReasoningShape(t)
      /\ OpenItems(t) /\ ChatParts(t) /\ t.view.faults = {}
  BY DEF ChatReads, ChatShape
<1>2. /\ t.outputIndex \in Indices \cup {NoIndex}
      /\ t.reasoningIndex \in Indices \cup {NoIndex}
      /\ \A c \in Calls : t.index[c] \in Indices \cup {NoIndex}
  BY <1>1, CallIndicesGiven
<1>3. t.nextIdx \in 0 .. MaxItems
  BY <1>1, NextIdxBound, ClientAssumption DEF AnyChat
<1>4. t.index \in [Calls -> Indices \cup {NoIndex}]
  BY <1>1, <1>2 DEF AnyChat
<1>5. t.view \in View
  <2>1. Thinking(t) => t.reasoningIndex \in Indices
    BY <1>1, <1>2 DEF ReasoningShape, Thinking
  <2>2. \A p \in t.view.parts : p[1] \in Indices
    BY <1>1, <1>2, <2>1 DEF ChatParts, textStarted
  <2>3. t.view \in AnyView
    BY <1>1 DEF AnyChat
  <2> QED
    BY <1>1, <2>2, <2>3, UnfaultyView
<1>6. t \in ChatState
  BY <1>1, <1>2, <1>3, <1>4, <1>5 DEF AnyChat, ChatState
<1>7. ASSUME Thinking(t), NEW i \in Announced(t.view) PROVE i <= t.reasoningIndex
  <2>1. i \in Indices /\ t.view.items[i] # "none"
    BY DEF Announced
  <2>2. ~(i >= t.nextIdx)
    BY <1>1, <2>1 DEF OpenItems
  <2>3. t.nextIdx = t.reasoningIndex + 1 /\ t.reasoningIndex \in Int
    BY <1>1, <1>7 DEF ReasoningShape, AnyChat
  <2>4. i \in Int
    BY <2>1 DEF Indices
  <2> QED
    BY <2>2, <2>3, <2>4
<1> QED
  BY <1>1, <1>6, <1>7 DEF ChatTold

LEMMA SameToldChat ==
  ASSUME NEW t, ChatTold(t), NEW u \in AnyChat, SameCalls(t, u),
         u.view.items = t.view.items, u.view.parts = t.view.parts,
         u.view.faults = t.view.faults
  PROVE  ChatTold(u)
<1>1. t.view \in View /\ t.view.faults = {} /\ u.view \in AnyView
  BY DEF ChatTold, ChatState, AnyChat
<1>2. \A p \in u.view.parts : p[1] \in Indices
  BY <1>1 DEF View
<1>3. u.view \in View
  BY <1>1, <1>2, UnfaultyView
<1>4. u \in ChatState
  BY <1>3 DEF ChatTold, ChatState, AnyChat, SameCalls
<1>5. Announced(u.view) = Announced(t.view) /\ (Thinking(u) <=> Thinking(t))
  BY DEF Announced, Thinking, SameCalls
<1> QED
  BY <1>1, <1>4, <1>5 DEF ChatTold, SameCalls

LEMMA EmitFailedTold ==
  ASSUME NEW t, ChatReads(t), ChatTold(t)
  PROVE  ChatTold(EmitFailed(t)) /\ (t.done \/ EmitFailed(t).done)
<1> DEFINE w == Done(EndTurn(t.view, "failed"))
           u == [t EXCEPT !.done = TRUE, !.finishPending = FALSE, !.terminalFailed = TRUE,
                          !.view = w]
<1>1. EmitFailed(t) = IF t.done THEN t ELSE u
  BY DEF EmitFailed
<1>2. /\ w \in AnyView /\ w.items = t.view.items /\ w.parts = t.view.parts
      /\ w.faults = t.view.faults
  BY UncompletedTold DEF ChatReads
<1> HIDE DEF w
<1>3. u \in AnyChat /\ u.view = w /\ SameCalls(t, u) /\ u.done
  BY <1>2 DEF ChatReads, AnyChat, SameCalls
<1> HIDE DEF u
<1>4. ChatTold(u)
  BY <1>2, <1>3, SameToldChat
<1> QED
  BY <1>1, <1>3, <1>4

\* response.completed: no item is open.
LEMMA EmitCompletedTold ==
  ASSUME NEW t, ChatReads(t), ChatClosed(t)
  PROVE  ChatTold(EmitCompleted(t)) /\ (t.done \/ EmitCompleted(t).done)
<1> DEFINE w == Done(EndTurn(t.view, "completed"))
           u == [t EXCEPT !.done = TRUE, !.finishPending = FALSE, !.view = w]
<1>1. EmitCompleted(t) = IF OnlyDroppedCalls(t) THEN EmitFailed(t) ELSE u
  BY DEF EmitCompleted
<1>2. /\ w \in AnyView /\ w.items = t.view.items /\ w.parts = t.view.parts
      /\ w.faults = t.view.faults
  <2>1. "completed" \in Endings
    BY DEF Endings
  <2>2. EndTurn(t.view, "completed") = [t.view EXCEPT !.ended = "completed"]
    BY <2>1, EndTurnIsQuiet DEF ChatReads, ChatClosed
  <2> QED
    BY <2>1, <2>2, EndedView DEF ChatReads
<1> HIDE DEF w
<1>3. u \in AnyChat /\ u.view = w /\ SameCalls(t, u) /\ u.done
  BY <1>2 DEF ChatReads, AnyChat, SameCalls
<1> HIDE DEF u
<1>4. ChatTold(u)
  BY <1>2, <1>3, SameToldChat DEF ChatClosed
<1> QED
  BY <1>1, <1>3, <1>4, EmitFailedTold DEF ChatClosed

\* finish_reason: every item that is open is closed, and so are the parts.
LEMMA CloseItemsCloses ==
  ASSUME NEW t, ChatReads(t), ChatShape(t), ~Thinking(t)
  PROVE  LET w == CloseItems(t)
         IN  /\ Reading(w) /\ w.parts = {} /\ w.faults = {}
             /\ \A j \in Indices : w.items[j] # "open"
<1> DEFINE S == {t.index[c] : c \in t.started}
           tools == FinishAll(t.view, S)
           i == t.outputIndex
           p == PartDone(tools, i, 0)
           w == Finish(p, i)
<1>1. /\ t \in AnyChat /\ Reading(t.view) /\ t.started \subseteq Calls
      /\ CallIndicesDiffer(t) /\ CallIndicesCounted(t) /\ CallShape(t)
      /\ OpenItems(t) /\ ChatParts(t) /\ t.view.faults = {}
  BY DEF ChatReads, AnyChat, ChatShape
<1>2. CloseItems(t) = IF textStarted(t) THEN w ELSE tools
  BY DEF CloseItems
<1>3. /\ i # NoIndex => i \in Indices
      /\ \A c \in Calls : t.index[c] # NoIndex => t.index[c] \in Indices
  BY <1>1, CallIndicesGiven
<1>4. S \in SUBSET Indices /\ \A j \in S : t.view.items[j] = "open" /\ j # i
  <2>1. ASSUME NEW c \in t.started
        PROVE  t.index[c] \in Indices /\ t.view.items[t.index[c]] = "open" /\ t.index[c] # i
    BY <1>1, <1>3 DEF CallShape, CallIndicesDiffer
  <2> QED
    BY <2>1
<1>5. t.view.parts = IF textStarted(t) THEN {<<i, 0>>} ELSE {}
  BY <1>1 DEF ChatParts
<1>6. \A q \in t.view.parts : q[1] \notin S
  <2> HIDE DEF S, i
  <2> QED
    BY <1>4, <1>5
<1>7. \A j \in Indices : t.view.items[j] = "open" => j = i \/ j \in S
  BY <1>1 DEF OpenItems
<1>8. tools = FinishedItems(t.view, S)
  <2> HIDE DEF S
  <2> QED
    BY <1>1, <1>4, <1>6, FinishAllCloses
<1> HIDE DEF S, tools, i
<1>9. /\ Reading(tools) /\ tools.parts = t.view.parts /\ tools.faults = {}
      /\ \A j \in Indices : tools.items[j] = IF j \in S THEN "done" ELSE t.view.items[j]
  BY <1>1, <1>4, <1>8, FinishedView
<1>10. CASE ~textStarted(t)
  <2>1. i = NoIndex
    BY <1>10 DEF textStarted, i
  <2>2. \A j \in Indices : tools.items[j] # "open"
    BY <1>7, <1>9, <2>1 DEF Indices, NoIndex
  <2> QED
    BY <1>2, <1>5, <1>9, <1>10, <2>2
<1>11. CASE textStarted(t)
  <2>1. i # NoIndex /\ i \in Indices /\ i \in Int
    BY <1>3, <1>11 DEF textStarted, i, Indices
  <2>2. i \notin S /\ t.view.items[i] = "open"
    BY <1>1, <1>4, <2>1 DEF ChatParts, i
  <2>3. tools.items[i] = "open" /\ tools.parts = {<<i, 0>>}
    BY <1>5, <1>9, <1>11, <2>1, <2>2
  <2>4. p = [tools EXCEPT !.parts = {}]
    <3>1. Reading(tools) /\ <<i, 0>> \in tools.parts
      BY <1>9, <2>3
    <3>2. PartDone(tools, i, 0) = [tools EXCEPT !.parts = @ \ {<<i, 0>>}]
      BY <2>1, <2>3, <3>1, PartDoneCloses
    <3>3. tools.parts \ {<<i, 0>>} = {}
      BY <2>3
    <3> QED
      BY <3>2, <3>3
  <2> HIDE DEF p
  <2>5. Reading(p) /\ p.parts = {} /\ p.items = tools.items /\ p.faults = {}
    BY <1>9, <2>4, PartsView
  <2>6. w = FinishedItems(p, {i})
    BY <2>1, <2>3, <2>5, FinishCloses
  <2> HIDE DEF w
  <2>7. /\ Reading(w) /\ w.parts = {} /\ w.faults = {}
        /\ \A j \in Indices : w.items[j] = IF j = i THEN "done" ELSE p.items[j]
    BY <2>1, <2>5, <2>6, FinishedView
  <2>8. \A j \in Indices : w.items[j] # "open"
    BY <1>7, <1>9, <2>5, <2>7
  <2> QED
    BY <1>2, <1>11, <2>7, <2>8
<1> QED
  BY <1>10, <1>11

LEMMA FlushFinishWell ==
  ASSUME NEW t, ChatRun(t), ChatShape(t)
  PROVE  ChatWell(FlushFinish(t))
<1> DEFINE a == [t EXCEPT !.sawFinishReason = TRUE]
           b == FlushInlineThink(a)
           c == FinalizeReasoning(b)
           s == CountDropped(c)
           w == CloseItems(s)
           u == [s EXCEPT !.finishPending = TRUE, !.view = w]
<1>1. ChatReads(a) /\ ChatShape(a) /\ ~a.done
  <2>1. a \in AnyChat /\ SameCalls(t, a) /\ a.view = t.view /\ ~a.done
    BY DEF ChatRun, AnyChat, SameCalls
  <2> HIDE DEF a
  <2> QED
    BY <2>1, SameChatShape DEF ChatRun, ChatReads, Reading, AnyChat
<1>2. FlushFinish(t) = IF OnlyDroppedCalls(s) /\ ~Substantive(s) THEN EmitFailed(s) ELSE u
  BY DEF FlushFinish
<1> HIDE DEF a
<1>3. ChatReads(b) /\ ChatShape(b) /\ ~b.done
  <2>1. SameStage(a, b)
    BY <1>1, FlushInlineThinkSameStage DEF ChatReads
  <2> QED
    BY <1>1, <2>1, FlushInlineThinkShape DEF SameStage
<1> HIDE DEF b
<1>4. ChatReads(c) /\ ChatShape(c) /\ ~Thinking(c) /\ ~c.done
  <2>1. SameStage(b, c)
    BY <1>3, FinalizeReasoningSameStage DEF ChatReads
  <2> QED
    BY <1>3, <2>1, FinalizeReasoningShape, SameStageReads DEF SameStage
<1> HIDE DEF c
<1>5. ChatReads(s) /\ ChatShape(s) /\ ~Thinking(s) /\ ~s.done
  <2>1. SameStage(c, s)
    BY <1>4, CountDroppedSameStage DEF ChatReads
  <2> QED
    BY <1>4, <2>1, CountDroppedShape DEF SameStage
<1> HIDE DEF s
<1>6. ChatTold(s)
  BY <1>5, ChatShapeTold
<1>7. ChatWell(EmitFailed(s))
  BY <1>5, <1>6, EmitFailedTold DEF ChatWell
<1>8. ChatWell(u)
  <2>1. Reading(w) /\ w.parts = {} /\ w.faults = {} /\ \A j \in Indices : w.items[j] # "open"
    BY <1>5, CloseItemsCloses
  <2> HIDE DEF w
  <2>2. u \in AnyChat /\ u.view = w /\ SameCalls(s, u) /\ u.finishPending /\ u.done = s.done
    BY <1>5, <2>1 DEF ChatReads, AnyChat, SameCalls, Reading
  <2> HIDE DEF u
  <2>3. w \in View
    BY <2>1, UnfaultyView DEF Reading
  <2>4. u \in ChatState
    BY <1>6, <2>2, <2>3 DEF ChatTold, ChatState, AnyChat, SameCalls
  <2>5. ~Thinking(u)
    BY <1>5, <2>2 DEF Thinking, SameCalls
  <2>6. ChatClosed(u)
    BY <2>1, <2>2, <2>4, <2>5 DEF ChatClosed, ChatTold
  <2> QED
    BY <2>2, <2>6 DEF ChatWell, ChatClosed
<1> QED
  BY <1>2, <1>7, <1>8

LEMMA PushChoiceWell ==
  ASSUME NEW t, ChatRun(t) \/ ChatEnded(t), ChatWell(t), NEW thinks \in {TRUE, FALSE},
         NEW fragment \in {<<>>} \cup (Calls \X BOOLEAN),
         NEW content \in {""} \cup Findings, NEW finish \in {TRUE, FALSE}
  PROVE  ChatWell(PushChoice(t, thinks, fragment, content, finish))
<1> DEFINE r == IF thinks THEN PushReasoning(t) ELSE t
           f == IF fragment = <<>> THEN r ELSE ToolFragment(r, fragment[1], fragment[2])
           c == IF content = "" THEN f ELSE PushContent(f, content)
<1>1. PushChoice(t, thinks, fragment, content, finish) =
        IF t.done \/ t.finishPending THEN t ELSE IF finish THEN FlushFinish(c) ELSE c
  BY DEF PushChoice
<1>2. CASE t.done \/ t.finishPending
  BY <1>1, <1>2
<1>3. CASE ~(t.done \/ t.finishPending)
  <2>1. ChatRun(t) /\ t \in AnyChat /\ ChatReads(t) /\ ChatShape(t)
    <3>1. ChatRun(t) /\ t \in AnyChat
      BY <1>3 DEF ChatEnded, ChatRun
    <3> QED
      BY <1>3, <3>1 DEF ChatRun, ChatReads, Reading, AnyChat, ChatWell
  <2>2. SameStage(t, r) /\ ChatReads(r) /\ ChatShape(r)
    BY <2>1, PushReasoningSameStage, SameStageReflexive, PushReasoningShape, SameStageReads
  <2> HIDE DEF r
  <2>3. SameStage(r, f) /\ ChatReads(f) /\ ChatShape(f)
    <3>1. CASE fragment = <<>>
      BY <3>1, <2>2, SameStageReflexive DEF SameStage
    <3>2. CASE fragment # <<>>
      <4>1. fragment[1] \in Calls /\ fragment[2] \in {TRUE, FALSE}
        BY <3>2
      <4>2. r \in AnyChat
        BY <2>2 DEF SameStage
      <4> QED
        BY <2>2, <3>2, <4>1, <4>2, ToolFragmentSameStage, ToolFragmentShape
    <3> QED
      BY <3>1, <3>2
  <2> HIDE DEF f
  <2>4. SameStage(f, c) /\ ChatReads(c) /\ ChatShape(c)
    <3>1. f \in AnyChat
      BY <2>3 DEF SameStage
    <3>2. CASE content = ""
      BY <2>3, <3>1, <3>2, SameStageReflexive
    <3>3. CASE content # ""
      BY <2>3, <3>1, <3>3, PushContentSameStage, PushContentShape
    <3> QED
      BY <3>2, <3>3
  <2> HIDE DEF c
  <2>5. SameStage(t, f)
    BY <2>2, <2>3, SameStageTransitive
  <2>6. SameStage(t, c)
    BY <2>4, <2>5, SameStageTransitive
  <2>7. ChatRun(c) /\ ~c.done /\ ~c.finishPending
    BY <1>3, <2>1, <2>6, SameStageRuns DEF SameStage
  <2>8. ChatWell(FlushFinish(c))
    BY <2>4, <2>7, FlushFinishWell
  <2>9. ChatWell(c)
    BY <2>4, <2>7, ChatShapeTold DEF ChatWell
  <2> QED
    BY <1>1, <1>3, <2>8, <2>9
<1> QED
  BY <1>2, <1>3

LEMMA ChatRunReads ==
  ASSUME NEW t, ChatRun(t)
  PROVE  ChatReads(t)
BY DEF ChatRun, ChatReads, Reading, AnyChat

LEMMA PushUsageWell ==
  ASSUME NEW t, ChatRun(t) \/ ChatEnded(t), ChatWell(t)
  PROVE  ChatWell(PushUsage(t))
<1>1. CASE t.finishPending
  <2>1. ChatRun(t) /\ ~t.done
    BY <1>1 DEF ChatRun, ChatEnded
  <2>2. ChatReads(t) /\ ChatClosed(t)
    BY <1>1, <2>1, ChatRunReads DEF ChatWell
  <2> QED
    BY <1>1, <2>1, <2>2, EmitCompletedTold DEF PushUsage, ChatWell
<1>2. CASE ~t.finishPending
  BY <1>2 DEF PushUsage
<1> QED
  BY <1>1, <1>2

LEMMA EmitFailedWell ==
  ASSUME NEW t, ChatRun(t) \/ ChatEnded(t), ChatWell(t)
  PROVE  ChatWell(EmitFailed(t))
<1>1. CASE ChatRun(t)
  BY <1>1, ChatRunReads, EmitFailedTold DEF ChatWell, ChatRun
<1>2. CASE ChatEnded(t)
  BY <1>2 DEF EmitFailed, ChatEnded
<1> QED
  BY <1>1, <1>2

LEMMA ChatFlushTold ==
  ASSUME NEW t, ChatRun(t) \/ ChatEnded(t), ChatWell(t)
  PROVE  ChatTold(ChatFlush(t))
<1> DEFINE a == FlushInlineThink(t)
           b == FinalizeReasoning(a)
           s == CountDropped(b)
           w == Done(EndTurn(s.view, "incomplete"))
           u == [s EXCEPT !.done = TRUE, !.view = w]
<1>1. ChatFlush(t) = IF t.done THEN t
                     ELSE IF t.finishPending THEN EmitCompleted(t)
                     ELSE IF OnlyDroppedCalls(s) \/ ~Substantive(s) THEN EmitFailed(s)
                     ELSE u
  BY DEF ChatFlush
<1>2. CASE t.done
  BY <1>1, <1>2 DEF ChatWell
<1>3. CASE ~t.done /\ t.finishPending
  <2>1. ChatReads(t) /\ ChatClosed(t)
    BY <1>3, ChatRunReads DEF ChatWell, ChatEnded
  <2> QED
    BY <1>1, <1>3, <2>1, EmitCompletedTold
<1>4. CASE ~t.done /\ ~t.finishPending
  <2>1. ChatReads(t) /\ ChatShape(t)
    BY <1>4, ChatRunReads DEF ChatWell, ChatEnded
  <2>2. ChatReads(a) /\ ChatShape(a)
    BY <2>1, FlushInlineThinkShape
  <2> HIDE DEF a
  <2>3. ChatReads(b) /\ ChatShape(b)
    BY <2>2, FinalizeReasoningShape, FinalizeReasoningSameStage, SameStageReads DEF ChatReads
  <2> HIDE DEF b
  <2>4. ChatReads(s) /\ ChatShape(s)
    BY <2>3, CountDroppedShape
  <2> HIDE DEF s
  <2>5. ChatTold(s)
    BY <2>4, ChatShapeTold
  <2>6. ChatTold(EmitFailed(s))
    BY <2>4, <2>5, EmitFailedTold
  <2>7. ChatTold(u)
    <3>1. /\ w \in AnyView /\ w.items = s.view.items /\ w.parts = s.view.parts
          /\ w.faults = s.view.faults
      BY <2>4, UncompletedTold DEF ChatReads
    <3> HIDE DEF w
    <3>2. u \in AnyChat /\ u.view = w /\ SameCalls(s, u)
      BY <2>4, <3>1 DEF ChatReads, AnyChat, SameCalls
    <3> HIDE DEF u
    <3> QED
      BY <2>5, <3>1, <3>2, SameToldChat
  <2> QED
    BY <1>1, <1>4, <2>6, <2>7
<1> QED
  BY <1>2, <1>3, <1>4

-----------------------------------------------------------------------------
(* What the client of a stream that is passed through has been told *)

Synthetic == Indices \ Own

\* How far the client has got with an item of upstream: the bridge finishes the item of
\* a call when it has run it.
OwnStage(t, i) ==
  IF t.at[i] = "none" THEN "none"
  ELSE IF t.at[i] = "done" \/ i \in t.executed THEN "done" ELSE "open"

\* The input of a repaired call is told once, with its arguments or when it is done.
InputTold(t, i) == IF Degraded(t, i) /\ t.at[i] \in {"argued", "done"} THEN 1 ELSE 0

OwnShape(t, i) ==
  /\ t.view.items[i] = OwnStage(t, i)
  /\ t.told[i] = InputTold(t, i)
  /\ t.at[i] = "added" => i \notin t.executed /\ (Degraded(t, i) => i \in t.tracked)
  /\ i \in t.tracked => BridgeCall(t, i) \/ Degraded(t, i)

\* Each call that was run has taken two indices; the item of one that failed is left
\* open, and another was closed in its place.
BridgeShape(t) ==
  /\ t.synthetic = syntheticIndexBase + 2 * Cardinality(t.executed)
  /\ \A j \in Indices : j >= t.synthetic => t.view.items[j] = "none"
  /\ \A f \in t.view.faults : \E j \in Synthetic : f = <<"unannounced", j>>
  /\ (\E j \in Synthetic : t.view.items[j] = "open") => t.view.faults # {}
  /\ t.view.parts = {}

RawShape(t) == (\A i \in Own : OwnShape(t, i)) /\ BridgeShape(t)

\* A call that is still to be run finds two indices left.
LEMMA SyntheticBound ==
  ASSUME NEW S \in SUBSET Own
  PROVE  /\ IsFiniteSet(S) /\ Cardinality(S) \in Nat /\ syntheticIndexBase \in Nat
         /\ syntheticIndexBase + 2 * Cardinality(S) <= MaxItems
<1>1. syntheticIndexBase \in Nat /\ 3 * syntheticIndexBase <= MaxItems /\ MaxItems \in Nat
  BY OwnAssumption, ClientAssumption
<1> DEFINE m == syntheticIndexBase - 1
           D == 0 .. m
<1>2. m \in Int /\ 0 \in Int
  BY <1>1
<1>3. S \subseteq D
  BY OwnAssumption
<1>4. IsFiniteSet(D) /\ Cardinality(D) = IF 0 > m THEN 0 ELSE m - 0 + 1
  BY <1>2, FS_Interval
<1>5. Cardinality(D) = syntheticIndexBase
  BY <1>1, <1>4
<1> HIDE DEF m, D
<1>6. IsFiniteSet(S) /\ Cardinality(S) <= Cardinality(D)
  BY <1>3, <1>4, FS_Subset
<1>7. Cardinality(S) \in Nat
  BY <1>6, FS_CardinalityType
<1>8. syntheticIndexBase + 2 * Cardinality(S) <= MaxItems
  BY <1>1, <1>5, <1>6, <1>7
<1> QED
  BY <1>1, <1>6, <1>7, <1>8

LEMMA SyntheticIndicesLeft ==
  ASSUME NEW t \in AnyRaw, BridgeShape(t), NEW i \in Own, i \notin t.executed
  PROVE  /\ t.synthetic \in Synthetic /\ t.synthetic + 1 \in Synthetic
         /\ t.synthetic + 2 =
              syntheticIndexBase + 2 * Cardinality(t.executed \cup {i})
<1> DEFINE S == t.executed
           n == t.synthetic
<1>1. S \in SUBSET Own /\ S \cup {i} \in SUBSET Own /\ i \notin S
  BY DEF AnyRaw
<1>2. n = syntheticIndexBase + 2 * Cardinality(S)
  BY DEF BridgeShape
<1> HIDE DEF S, n
<1>3. IsFiniteSet(S) /\ Cardinality(S) \in Nat /\ syntheticIndexBase \in Nat
  BY <1>1, SyntheticBound
<1>4. Cardinality(S \cup {i}) = Cardinality(S) + 1
  BY <1>1, <1>3, FS_AddElement
<1>5. syntheticIndexBase + 2 * Cardinality(S \cup {i}) <= MaxItems
  BY <1>1, SyntheticBound
<1>6. n + 2 = syntheticIndexBase + 2 * Cardinality(S \cup {i})
  BY <1>2, <1>3, <1>4
<1>7. MaxItems \in Nat /\ \A j \in Own : j < syntheticIndexBase
  BY OwnAssumption, ClientAssumption
<1>8. n \in Nat /\ n >= syntheticIndexBase /\ n + 2 <= MaxItems
  BY <1>2, <1>3, <1>5, <1>6
<1>9. n \in Indices /\ n + 1 \in Indices
  BY <1>7, <1>8 DEF Indices
<1>10. n \notin Own /\ n + 1 \notin Own
  BY <1>3, <1>7, <1>8
<1> QED
  BY <1>6, <1>9, <1>10 DEF Synthetic, n, S

\* What the shape depends on.
SameTold(t, u) ==
  /\ u.item = t.item /\ u.at = t.at /\ u.tracked = t.tracked /\ u.told = t.told
  /\ u.executed = t.executed /\ u.synthetic = t.synthetic
  /\ u.repairs = t.repairs /\ u.bridges = t.bridges

LEMMA SameRawShape ==
  ASSUME NEW t, NEW u, RawShape(t), SameTold(t, u),
         u.view.items = t.view.items, u.view.parts = t.view.parts,
         u.view.faults = t.view.faults
  PROVE  RawShape(u)
<1>1. ASSUME NEW i \in Own PROVE OwnShape(u, i)
  <2>1. OwnShape(t, i)
    BY DEF RawShape
  <2> QED
    BY <2>1 DEF SameTold, OwnShape, OwnStage, InputTold, Degraded, BridgeCall
<1>2. BridgeShape(u)
  BY DEF SameTold, RawShape, BridgeShape
<1> QED
  BY <1>1, <1>2 DEF RawShape

LEMMA SentShape ==
  ASSUME NEW t \in AnyRaw, RawShape(t)
  PROVE  RawShape(Sent(t))
<1>1. SameTold(t, Sent(t)) /\ Sent(t).view = t.view
  BY DEF SameTold, Sent, AnyRaw
<1> QED
  BY <1>1, SameRawShape

LEMMA NewRawShape ==
  ASSUME NEW t \in RawStates0
  PROVE  RawShape(t)
<1>1. PICK p \in Protocols, repairs \in BOOLEAN, bridges \in BOOLEAN :
        t = NewRaw(p, repairs, bridges)
  BY DEF RawStates0
<1>2. /\ t.item = [i \in Own |-> ""] /\ t.at = [i \in Own |-> "none"] /\ t.tracked = {}
      /\ t.told = [i \in Own |-> 0] /\ t.executed = {} /\ t.synthetic = syntheticIndexBase
      /\ t.view = NewView
  BY <1>1 DEF NewRaw
<1>3. /\ NewView.items = [i \in Indices |-> "none"] /\ NewView.parts = {}
      /\ NewView.faults = {}
  BY DEF NewView
<1>4. ASSUME NEW i \in Own PROVE OwnShape(t, i)
  <2>1. t.view.items[i] = "none" /\ t.at[i] = "none"
    BY <1>2, <1>3, OwnIndices
  <2>2. t.told[i] = 0 /\ i \notin t.tracked
    BY <1>2
  <2> QED
    BY <2>1, <2>2 DEF OwnShape, OwnStage, InputTold
<1>5. BridgeShape(t)
  <2>1. Cardinality(t.executed) = 0
    BY <1>2, FS_EmptySet
  <2>2. t.synthetic = syntheticIndexBase + 2 * Cardinality(t.executed)
    <3>1. syntheticIndexBase \in Nat /\ t.synthetic = syntheticIndexBase
      BY <1>2, OwnAssumption
    <3>2. syntheticIndexBase = syntheticIndexBase + 2 * 0
      BY <3>1
    <3> QED
      BY <2>1, <3>1, <3>2
  <2> QED
    BY <1>2, <1>3, <2>2 DEF BridgeShape, Synthetic
<1> QED
  BY <1>4, <1>5 DEF RawShape

\* The fields of a stream after a frame about one of its own items.
OwnFields(t, u, i, stage, w) ==
  /\ u \in AnyRaw
  /\ u.repairs = t.repairs /\ u.bridges = t.bridges /\ u.synthetic = t.synthetic
  /\ u.executed = t.executed /\ u.view = w
  /\ \A j \in Own : u.at[j] = IF j = i THEN stage ELSE t.at[j]
  /\ \A j \in Own \ {i} : u.item[j] = t.item[j] /\ u.told[j] = t.told[j]
                          /\ (j \in u.tracked <=> j \in t.tracked)

\* Whatever happens to one item, the others keep their shape.
LEMMA OthersShape ==
  ASSUME NEW t, RawShape(t), NEW i \in Own, NEW stage, NEW w, NEW u,
         OwnFields(t, u, i, stage, w), OwnShape(u, i),
         \A j \in Indices \ {i} : w.items[j] = t.view.items[j],
         w.faults = t.view.faults, w.parts = t.view.parts,
         w.items[i] # "none" => t.synthetic > i
  PROVE  RawShape(u)
<1>1. ASSUME NEW j \in Own, j # i PROVE OwnShape(u, j)
  <2>1. OwnShape(t, j) /\ j \in Own \ {i} /\ j \in Indices \ {i}
    BY <1>1, OwnIndices DEF RawShape
  <2>2. /\ u.at[j] = t.at[j] /\ u.item[j] = t.item[j] /\ u.told[j] = t.told[j]
        /\ (j \in u.tracked <=> j \in t.tracked) /\ u.view.items[j] = t.view.items[j]
        /\ u.repairs = t.repairs /\ u.bridges = t.bridges /\ u.executed = t.executed
    BY <2>1, <1>1 DEF OwnFields
  <2> QED
    BY <2>1, <2>2 DEF OwnShape, OwnStage, InputTold, Degraded, BridgeCall
<1>2. BridgeShape(u)
  <2>1. /\ u.synthetic = t.synthetic /\ u.executed = t.executed /\ u.view = w
    BY DEF OwnFields
  <2>2. BridgeShape(t)
    BY DEF RawShape
  <2>3. ASSUME NEW j \in Indices, j >= t.synthetic PROVE w.items[j] = "none"
    <3>1. CASE j = i
      <4>1. i \in Int /\ t.synthetic \in Int
        <5>1. u \in AnyRaw
          BY DEF OwnFields
        <5>2. u.synthetic \in Nat
          BY <5>1 DEF AnyRaw
        <5> QED
          BY <2>1, <5>2, OwnIndices
      <4>2. ~(t.synthetic > i)
        BY <2>3, <3>1, <4>1
      <4> QED
        BY <3>1, <4>2
    <3>2. CASE j # i
      BY <2>2, <2>3, <3>2 DEF BridgeShape
    <3> QED
      BY <3>1, <3>2
  <2>4. \A j \in Synthetic : w.items[j] = t.view.items[j]
    BY DEF Synthetic
  <2> QED
    BY <2>1, <2>2, <2>3, <2>4 DEF BridgeShape
<1> QED
  BY <1>1, <1>2 DEF RawShape

LEMMA OwnBeforeSynthetic ==
  ASSUME NEW t \in AnyRaw, BridgeShape(t), NEW i \in Own
  PROVE  t.synthetic > i
<1>1. t.executed \in SUBSET Own
  BY DEF AnyRaw
<1>2. Cardinality(t.executed) \in Nat /\ syntheticIndexBase \in Nat
  BY <1>1, SyntheticBound
<1>3. i \in Int /\ i < syntheticIndexBase
  BY <1>2, OwnAssumption, OwnIndices
<1>4. t.synthetic = syntheticIndexBase + 2 * Cardinality(t.executed)
  BY DEF BridgeShape
<1> QED
  BY <1>2, <1>3, <1>4

LEMMA ItemAddedShape ==
  ASSUME NEW t, RawEnds(t), RawCalls(t), RawShape(t), t.view.ended = "no",
         NEW i \in Own, NEW sort \in ItemKinds, t.at[i] = "none"
  PROVE  RawShape(ItemAdded(t, i, sort))
<1> DEFINE v == [t.view EXCEPT !.items[i] = "open"]
           u == [t EXCEPT !.item[i] = sort, !.at[i] = "added", !.view = v]
           T == IF BridgeCall(u, i) \/ Degraded(u, i) THEN t.tracked \cup {i} ELSE t.tracked
           w == [u EXCEPT !.tracked = T]
<1>1. t \in AnyRaw /\ Reading(t.view) /\ i \in Indices /\ OwnShape(t, i) /\ BridgeShape(t)
      /\ CallInOrder(t, i)
  BY OwnIndices DEF RawEnds, AnyRaw, Reading, RawShape, RawCalls
<1>2. t.view.items[i] = "none" /\ t.told[i] = 0
  BY <1>1 DEF OwnShape, OwnStage, InputTold
<1>3. Announce(t.view, i) = v
  BY <1>1, <1>2, AnnounceOpens
<1>4. /\ Reading(v) /\ v.parts = t.view.parts /\ v.faults = t.view.faults
      /\ \A j \in Indices : v.items[j] = IF j = i THEN "open" ELSE t.view.items[j]
  BY <1>1, OpenedView
<1>5. T \in SUBSET Own
  BY <1>1 DEF AnyRaw
<1> HIDE DEF v
<1>6. u.tracked = t.tracked
  BY <1>1 DEF AnyRaw
<1>7. ItemAdded(t, i, sort) = Sent(w)
  BY <1>3, <1>6 DEF ItemAdded
<1>8. /\ u.repairs = t.repairs /\ u.bridges = t.bridges /\ u.item = [t.item EXCEPT ![i] = sort]
  BY <1>1 DEF AnyRaw
<1>9. i \in T <=> BridgeCall(u, i) \/ Degraded(u, i) \/ i \in t.tracked
  OBVIOUS
<1>10. \A j \in Own \ {i} : j \in T <=> j \in t.tracked
  OBVIOUS
<1> HIDE DEF T
<1>11. /\ w.item = [t.item EXCEPT ![i] = sort] /\ w.at = [t.at EXCEPT ![i] = "added"]
       /\ w.tracked = T /\ w.executed = t.executed /\ w.told = t.told /\ w.view = v
       /\ w.repairs = t.repairs /\ w.bridges = t.bridges /\ w.synthetic = t.synthetic
       /\ w \in AnyRaw
  BY <1>1, <1>4, <1>5 DEF AnyRaw, Reading
<1> HIDE DEF w
<1>12. t.item \in [Own -> ItemKinds \cup {""}] /\ t.at \in [Own -> {"none", "added", "argued", "done"}]
  BY <1>1 DEF AnyRaw
<1>13. OwnFields(t, w, i, "added", v)
  BY <1>10, <1>11, <1>12 DEF OwnFields
<1>14. /\ BridgeCall(w, i) <=> BridgeCall(u, i)
       /\ Degraded(w, i) <=> Degraded(u, i)
  BY <1>8, <1>11 DEF BridgeCall, Degraded
<1> HIDE DEF u
<1>15. w.at[i] = "added" /\ i \notin w.executed /\ i \notin t.tracked
  BY <1>1, <1>11, <1>12 DEF CallInOrder
<1>16. w.view.items[i] = OwnStage(w, i)
  BY <1>1, <1>4, <1>11, <1>15 DEF OwnStage
<1>17. w.told[i] = InputTold(w, i)
  BY <1>2, <1>11, <1>15 DEF InputTold
<1>18. OwnShape(w, i)
  BY <1>9, <1>11, <1>14, <1>15, <1>16, <1>17 DEF OwnShape
<1>19. RawShape(w)
  BY <1>1, <1>4, <1>13, <1>18, OthersShape, OwnBeforeSynthetic
<1> QED
  BY <1>7, <1>11, <1>19, SentShape

\* An item that upstream has announced, and not finished, is open.
LEMMA AddedIsOpen ==
  ASSUME NEW t, RawEnds(t), RawShape(t), t.view.ended = "no", NEW i \in Own,
         t.at[i] = "added" \/ (t.at[i] # "none" /\ t.at[i] # "done" /\ i \notin t.executed)
  PROVE  Reading(t.view) /\ i \in Indices /\ t.view.items[i] = "open" /\ Delta(t.view, i) = t.view
<1>1. Reading(t.view) /\ i \in Indices
  BY OwnIndices DEF RawEnds, AnyRaw, Reading
<1>2. t.view.items[i] = "open"
  BY DEF RawShape, OwnShape, OwnStage
<1> QED
  BY <1>1, <1>2, DeltaIsQuiet

LEMMA DeltaPassesShape ==
  ASSUME NEW t, RawEnds(t), RawShape(t), t.view.ended = "no", NEW i \in Own,
         t.at[i] = "added"
  PROVE  /\ RawShape(ArgumentsDelta(t, i))
         /\ \A mention \in {TRUE, FALSE} : RawShape(TextPasses(t, i, mention))
<1>1. t \in AnyRaw /\ Delta(t.view, i) = t.view
  BY AddedIsOpen DEF RawEnds
<1>2. RawShape(ArgumentsDelta(t, i))
  <2>1. [t EXCEPT !.view = Delta(t.view, i)] = t
    BY <1>1 DEF AnyRaw
  <2>2. ArgumentsDelta(t, i) = IF i \in t.tracked THEN t ELSE Sent(t)
    BY <2>1 DEF ArgumentsDelta
  <2> QED
    BY <1>1, <2>2, SentShape
<1>3. ASSUME NEW mention \in {TRUE, FALSE} PROVE RawShape(TextPasses(t, i, mention))
  <2> DEFINE w == Delta(t.view, i)
             u == [t EXCEPT !.view = w, !.seen = @ \/ mention, !.mentioned = @ \/ mention]
  <2>1. TextPasses(t, i, mention) = Sent(u)
    BY DEF TextPasses
  <2>2. w = t.view
    BY <1>1
  <2> HIDE DEF w
  <2>3. u \in AnyRaw /\ SameTold(t, u) /\ u.view = t.view
    BY <1>1, <2>2 DEF AnyRaw, SameTold
  <2> HIDE DEF u
  <2>4. RawShape(u)
    BY <2>3, SameRawShape
  <2> QED
    BY <2>1, <2>3, <2>4, SentShape
<1> QED
  BY <1>2, <1>3

\* An item that is closed without having been announced.
LEMMA FinishUnknown ==
  ASSUME NEW v, Reading(v), NEW i \in Indices, v.items[i] = "none", v.parts = {}
  PROVE  /\ Reading(Finish(v, i)) /\ Finish(v, i).parts = {}
         /\ Finish(v, i).faults = v.faults \cup {<<"unannounced", i>>}
         /\ \A j \in Indices : Finish(v, i).items[j] = IF j = i THEN "done" ELSE v.items[j]
<1> DEFINE unknown == {k \in {i} : v.items[k] = "none"}
           late == {k \in {i} : v.items[k] = "done"}
           unfinished == {k \in {i} : \E p \in v.parts : p[1] = k}
           a == Faults(v, "unannounced", unknown)
           w == Faults(Faults(a, "late", late), "unfinished", unfinished)
           x == [w EXCEPT !.items = [j \in Indices |-> IF j \in {i} THEN "done" ELSE w.items[j]]]
<1>1. unknown = {i} /\ late = {} /\ unfinished = {}
  OBVIOUS
<1>2. v \in AnyView /\ i \in Int /\ v.ended = "no" /\ ~v.over
  BY DEF Reading, Indices
<1>3. Finish(v, i) = x
  <2> HIDE DEF w, unknown, late, unfinished
  <2> QED
    BY <1>2 DEF Finish, FinishAll, w, a, unknown, late, unfinished
<1>4. SameEnd(v, a)
  BY <1>1, <1>2, FaultsSameEnd DEF FaultKinds
<1>5. a.items = v.items /\ a.parts = v.parts /\ a.faults = v.faults \cup {<<"unannounced", i>>}
  <2>1. {"unannounced"} \X {i} = {<<"unannounced", i>>}
    OBVIOUS
  <2> QED
    BY <1>1, <1>2, <2>1 DEF Faults, AnyView
<1> HIDE DEF a
<1>6. w = a
  <2> HIDE DEF unknown, late, unfinished
  <2> QED
    BY <1>1, <1>4, NoFaults DEF SameEnd
<1> HIDE DEF w
<1>7. x = FinishedItems(a, {i})
  BY <1>6 DEF FinishedItems
<1> HIDE DEF x
<1>8. Reading(a) /\ {i} \in SUBSET Indices
  BY <1>2, <1>4 DEF SameEnd, Reading
<1>9. /\ Reading(x) /\ x.parts = a.parts /\ x.faults = a.faults
      /\ \A j \in Indices : x.items[j] = IF j \in {i} THEN "done" ELSE a.items[j]
  BY <1>7, <1>8, FinishedView
<1> QED
  BY <1>3, <1>5, <1>9

LEMMA FinishOpen ==
  ASSUME NEW v, Reading(v), NEW i \in Indices, v.items[i] = "open", v.parts = {}
  PROVE  /\ Reading(Finish(v, i)) /\ Finish(v, i).parts = {}
         /\ Finish(v, i).faults = v.faults
         /\ \A j \in Indices : Finish(v, i).items[j] = IF j = i THEN "done" ELSE v.items[j]
<1>1. Finish(v, i) = FinishedItems(v, {i})
  BY FinishCloses
<1>2. {i} \in SUBSET Indices
  OBVIOUS
<1> HIDE DEF FinishedItems
<1> QED
  BY <1>1, <1>2, FinishedView

LEMMA AnnounceNew ==
  ASSUME NEW v, Reading(v), NEW i \in Indices, v.items[i] = "none", v.parts = {}
  PROVE  /\ Reading(Announce(v, i)) /\ Announce(v, i).parts = {}
         /\ Announce(v, i).faults = v.faults
         /\ \A j \in Indices : Announce(v, i).items[j] = IF j = i THEN "open" ELSE v.items[j]
<1> DEFINE w == [v EXCEPT !.items[i] = "open"]
<1>1. Announce(v, i) = w
  BY AnnounceOpens
<1>2. /\ Reading(w) /\ w.parts = v.parts /\ w.faults = v.faults
      /\ \A j \in Indices : w.items[j] = IF j = i THEN "open" ELSE v.items[j]
  BY OpenedView
<1> HIDE DEF w
<1> QED
  BY <1>1, <1>2

\* What the client makes of the frames of emitBridgeResult.
BridgeView(v, i, n, outcome) ==
  LET f == Finish(v, i)
  IN  IF outcome = "image"
      THEN Finish(Announce(Finish(Announce(f, n), n), n + 1), n + 1)
      ELSE Finish(Announce(f, n), n + 1)

\* The item of the call is finished, and two indices are used.
LEMMA BridgeFrames ==
  ASSUME NEW v, Reading(v), v.parts = {}, NEW i \in Own, v.items[i] = "open",
         NEW n, n \in Synthetic, n + 1 \in Synthetic,
         v.items[n] = "none", v.items[n + 1] = "none", NEW outcome
  PROVE  LET w == BridgeView(v, i, n, outcome)
         IN  /\ w \in AnyView /\ w.parts = {}
             /\ \A j \in Indices \ {i, n, n + 1} : w.items[j] = v.items[j]
             /\ w.items[i] = "done"
             /\ \/ w.items[n] = "done" /\ w.items[n + 1] = "done" /\ w.faults = v.faults
                \/ w.faults = v.faults \cup {<<"unannounced", n + 1>>}
<1> DEFINE m == n + 1
           f == Finish(v, i)
           a == Announce(f, n)
           b == Finish(a, n)
           c == Announce(b, m)
           d == Finish(c, m)
           e == Finish(a, m)
           w == IF outcome = "image" THEN d ELSE e
<1>1. /\ n \in Indices /\ m \in Indices /\ i \in Indices /\ i # n /\ i # m
      /\ v.items[n] = "none" /\ v.items[m] = "none"
  BY OwnIndices DEF Synthetic
<1>2. n # m
  BY <1>1 DEF Indices
<1> SUFFICES /\ w \in AnyView /\ w.parts = {}
             /\ \A j \in Indices \ {i, n, m} : w.items[j] = v.items[j]
             /\ w.items[i] = "done"
             /\ \/ w.items[n] = "done" /\ w.items[m] = "done" /\ w.faults = v.faults
                \/ w.faults = v.faults \cup {<<"unannounced", m>>}
  BY DEF BridgeView
<1> HIDE DEF m
<1>3. /\ Reading(f) /\ f.parts = {} /\ f.faults = v.faults
      /\ \A j \in Indices : f.items[j] = IF j = i THEN "done" ELSE v.items[j]
  BY <1>1, FinishOpen
<1> HIDE DEF f
<1>4. f.items[n] = "none" /\ f.items[m] = "none"
  BY <1>1, <1>3
<1>5. /\ Reading(a) /\ a.parts = {} /\ a.faults = v.faults
      /\ \A j \in Indices : a.items[j] = IF j = n THEN "open" ELSE f.items[j]
  BY <1>1, <1>3, <1>4, AnnounceNew
<1> HIDE DEF a
<1>6. a.items[n] = "open" /\ a.items[m] = "none"
  BY <1>1, <1>2, <1>4, <1>5
<1>7. /\ Reading(b) /\ b.parts = {} /\ b.faults = v.faults
      /\ \A j \in Indices : b.items[j] = IF j = n THEN "done" ELSE a.items[j]
  BY <1>1, <1>5, <1>6, FinishOpen
<1>8. /\ Reading(e) /\ e.parts = {} /\ e.faults = v.faults \cup {<<"unannounced", m>>}
      /\ \A j \in Indices : e.items[j] = IF j = m THEN "done" ELSE a.items[j]
  BY <1>1, <1>5, <1>6, FinishUnknown
<1> HIDE DEF b, e
<1>9. b.items[m] = "none"
  BY <1>1, <1>2, <1>6, <1>7
<1>10. /\ Reading(c) /\ c.parts = {} /\ c.faults = v.faults
       /\ \A j \in Indices : c.items[j] = IF j = m THEN "open" ELSE b.items[j]
  BY <1>1, <1>7, <1>9, AnnounceNew
<1> HIDE DEF c
<1>11. c.items[m] = "open"
  BY <1>1, <1>10
<1>12. /\ Reading(d) /\ d.parts = {} /\ d.faults = v.faults
       /\ \A j \in Indices : d.items[j] = IF j = m THEN "done" ELSE c.items[j]
  BY <1>1, <1>10, <1>11, FinishOpen
<1> HIDE DEF d
<1>13. CASE outcome = "image"
  <2>1. w = d
    BY <1>13
  <2>2. \A j \in Indices \ {i, n, m} : w.items[j] = v.items[j]
    BY <2>1, <1>3, <1>5, <1>7, <1>10, <1>12
  <2>3. w.items[i] = "done" /\ w.items[n] = "done" /\ w.items[m] = "done"
    BY <2>1, <1>1, <1>2, <1>3, <1>5, <1>7, <1>10, <1>12
  <2> QED
    BY <2>1, <2>2, <2>3, <1>12 DEF Reading
<1>14. CASE outcome # "image"
  <2>1. w = e
    BY <1>14
  <2>2. \A j \in Indices \ {i, n, m} : w.items[j] = v.items[j]
    BY <2>1, <1>3, <1>5, <1>8
  <2>3. w.items[i] = "done"
    BY <2>1, <1>1, <1>3, <1>5, <1>8
  <2> QED
    BY <2>1, <2>2, <2>3, <1>8 DEF Reading
<1> QED
  BY <1>13, <1>14

\* A call is run as its arguments or its item are done.
LEMMA BridgeResultShape ==
  ASSUME NEW t \in AnyRaw, Reading(t.view), BridgeShape(t),
         NEW i \in Own, t.view.items[i] = "open", i \notin t.executed,
         \A j \in Own \ {i} : OwnShape(t, j),
         t.at[i] \in {"argued", "done"}, ~Degraded(t, i), t.told[i] = 0,
         NEW outcome \in Outcomes
  PROVE  RawShape(emitBridgeResult(t, i, outcome))
<1> DEFINE n == t.synthetic
           v == BridgeView(t.view, i, n, outcome)
           x == IF outcome = "unparsable" THEN t.ran[i] ELSE t.ran[i] + 1
           y == n + 2
           E == t.executed \cup {i}
           K == t.tracked \ {i}
           R == [t.ran EXCEPT ![i] = x]
           w == [t EXCEPT !.executed = E, !.tracked = K, !.synthetic = y, !.ran = R, !.view = v]
<1>1. /\ n \in Synthetic /\ n + 1 \in Synthetic
      /\ y = syntheticIndexBase + 2 * Cardinality(E)
  BY SyntheticIndicesLeft
<1>2. n \in Nat /\ n \in Indices /\ n + 1 \in Indices /\ n + 1 >= n /\ n >= n
  <2>1. n \in Nat
    BY DEF AnyRaw
  <2> QED
    BY <1>1, <2>1 DEF Synthetic
<1>3. t.view.items[n] = "none" /\ t.view.items[n + 1] = "none"
  BY <1>2 DEF BridgeShape
<1>4. /\ v \in AnyView /\ v.parts = {}
      /\ \A j \in Indices \ {i, n, n + 1} : v.items[j] = t.view.items[j]
      /\ v.items[i] = "done"
      /\ \/ v.items[n] = "done" /\ v.items[n + 1] = "done" /\ v.faults = t.view.faults
         \/ v.faults = t.view.faults \cup {<<"unannounced", n + 1>>}
  <2>1. t.view.parts = {}
    BY DEF BridgeShape
  <2> HIDE DEF n
  <2> QED
    BY <1>1, <1>3, <2>1, BridgeFrames
<1>5. emitBridgeResult(t, i, outcome) = w
  BY DEF emitBridgeResult, BridgeView
<1> HIDE DEF v, x, E, K, R
<1>6. /\ w.item = t.item /\ w.at = t.at /\ w.tracked = K /\ w.executed = E
      /\ w.told = t.told /\ w.repairs = t.repairs /\ w.bridges = t.bridges
      /\ w.synthetic = y /\ w.view = v
  BY DEF AnyRaw
<1> HIDE DEF w
<1>7. ASSUME NEW j \in Own PROVE OwnShape(w, j)
  <2>1. CASE j = i
    <3>1. w.view.items[j] = OwnStage(w, j)
      BY <1>4, <1>6, <2>1 DEF OwnStage, E
    <3>2. w.told[j] = InputTold(w, j) /\ ~Degraded(w, j)
      BY <1>6, <2>1 DEF InputTold, Degraded
    <3>3. w.at[j] # "added" /\ j \notin w.tracked
      BY <1>6, <2>1 DEF K
    <3> QED
      BY <3>1, <3>2, <3>3 DEF OwnShape
  <2>2. CASE j # i
    <3>1. OwnShape(t, j) /\ (j \in E <=> j \in t.executed) /\ (j \in K <=> j \in t.tracked)
      BY <2>2 DEF E, K
    <3>2. j \in Indices \ {i, n, n + 1}
      BY <1>1, <2>2, OwnIndices DEF Synthetic
    <3>3. w.view.items[j] = t.view.items[j]
      BY <1>4, <1>6, <3>2
    <3> QED
      BY <1>6, <3>1, <3>3 DEF OwnShape, OwnStage, InputTold, Degraded, BridgeCall
  <2> QED
    BY <2>1, <2>2
<1>8. BridgeShape(w)
  <2>1. ASSUME NEW j \in Indices, j >= y PROVE v.items[j] = "none"
    <3>1. j \in Int /\ i \in Int /\ t.synthetic > i
      BY OwnBeforeSynthetic, OwnIndices DEF Indices
    <3>2. j # i /\ j # n /\ j # n + 1 /\ j >= n
      BY <1>2, <2>1, <3>1
    <3>3. t.view.items[j] = "none"
      BY <3>2 DEF BridgeShape
    <3> QED
      BY <1>4, <3>2, <3>3
  <2>2. ASSUME NEW g \in v.faults PROVE \E j \in Synthetic : g = <<"unannounced", j>>
    <3>1. g \in t.view.faults \/ g = <<"unannounced", n + 1>>
      BY <1>4
    <3> QED
      BY <1>1, <3>1 DEF BridgeShape
  <2>3. ASSUME NEW j \in Synthetic, v.items[j] = "open" PROVE v.faults # {}
    <3>1. CASE v.faults = t.view.faults \cup {<<"unannounced", n + 1>>}
      BY <3>1
    <3>2. CASE v.items[n] = "done" /\ v.items[n + 1] = "done" /\ v.faults = t.view.faults
      <4>1. j # n /\ j # n + 1 /\ j # i /\ j \in Indices
        BY <2>3, <3>2 DEF Synthetic
      <4>2. t.view.items[j] = "open"
        BY <1>4, <2>3, <4>1
      <4> QED
        BY <3>2, <4>2 DEF BridgeShape
    <3> QED
      BY <1>4, <3>1, <3>2
  <2> QED
    BY <1>1, <1>4, <1>6, <2>1, <2>2, <2>3 DEF BridgeShape
<1> QED
  BY <1>5, <1>7, <1>8 DEF RawShape

\* What is known of a call before the event that completes its arguments or its item.
LEMMA ProgressFields ==
  ASSUME NEW t, RawEnds(t), RawShape(t), t.view.ended = "no",
         NEW i \in Own, NEW stage \in {"argued", "done"}
  PROVE  LET u == [t EXCEPT !.at[i] = stage]
         IN  /\ u \in AnyRaw /\ Reading(u.view) /\ BridgeShape(u) /\ u.at[i] = stage
             /\ OwnFields(t, u, i, stage, t.view)
             /\ u.item = t.item /\ u.told = t.told /\ u.tracked = t.tracked
             /\ \A j \in Own \ {i} : OwnShape(u, j)
             /\ Degraded(u, i) <=> Degraded(t, i)
<1> DEFINE u == [t EXCEPT !.at[i] = stage]
<1>1. t \in AnyRaw /\ Reading(t.view) /\ BridgeShape(t)
  BY DEF RawEnds, AnyRaw, Reading, RawShape
<1>2. /\ u \in AnyRaw /\ u.view = t.view /\ u.item = t.item /\ u.told = t.told
      /\ u.tracked = t.tracked /\ u.executed = t.executed /\ u.synthetic = t.synthetic
      /\ u.repairs = t.repairs /\ u.bridges = t.bridges
      /\ u.at = [t.at EXCEPT ![i] = stage]
      /\ t.at \in [Own -> {"none", "added", "argued", "done"}]
  BY <1>1 DEF AnyRaw
<1> HIDE DEF u
<1>3. \A j \in Own : u.at[j] = IF j = i THEN stage ELSE t.at[j]
  BY <1>2
<1>4. BridgeShape(u)
  BY <1>1, <1>2 DEF BridgeShape
<1>5. OwnFields(t, u, i, stage, t.view)
  BY <1>2, <1>3 DEF OwnFields
<1>6. ASSUME NEW j \in Own \ {i} PROVE OwnShape(u, j)
  <2>1. OwnShape(t, j) /\ u.at[j] = t.at[j]
    BY <1>3 DEF RawShape
  <2> QED
    BY <1>2, <2>1 DEF OwnShape, OwnStage, InputTold, Degraded, BridgeCall
<1>7. Degraded(u, i) <=> Degraded(t, i)
  BY <1>2 DEF Degraded
<1> QED
  BY <1>1, <1>2, <1>3, <1>4, <1>5, <1>6, <1>7 DEF u

LEMMA RawShapeJoined ==
  ASSUME NEW u, NEW i \in Own, BridgeShape(u), OwnShape(u, i),
         \A j \in Own \ {i} : OwnShape(u, j)
  PROVE  RawShape(u)
BY DEF RawShape

LEMMA InputDoneFields ==
  ASSUME NEW u \in AnyRaw, Reading(u.view), NEW i \in Own, u.view.items[i] = "open",
         u.told[i] = 0
  PROVE  LET w == inputDoneFrames(u, i)
         IN  /\ w \in AnyRaw /\ w.view = u.view /\ w.told[i] = 1
             /\ w.item = u.item /\ w.at = u.at /\ w.tracked = u.tracked
             /\ w.executed = u.executed /\ w.synthetic = u.synthetic
             /\ w.repairs = u.repairs /\ w.bridges = u.bridges
             /\ \A j \in Own \ {i} : w.told[j] = u.told[j]
<1> DEFINE n == u.told[i] + 1
           d == Delta(Delta(u.view, i), i)
           w == [u EXCEPT !.told = [@ EXCEPT ![i] = n], !.view = d]
<1>1. i \in Indices
  BY OwnIndices
<1>2. d = u.view
  BY <1>1, DeltaIsQuiet
<1>3. n = 1
  OBVIOUS
<1>4. inputDoneFrames(u, i) = w
  BY DEF inputDoneFrames
<1> HIDE DEF n, d
<1>5. u.told \in [Own -> Nat] /\ [u.told EXCEPT ![i] = n] \in [Own -> Nat]
  BY <1>3 DEF AnyRaw
<1>6. /\ w \in AnyRaw /\ w.view = u.view /\ w.told = [u.told EXCEPT ![i] = n]
      /\ w.item = u.item /\ w.at = u.at /\ w.tracked = u.tracked
      /\ w.executed = u.executed /\ w.synthetic = u.synthetic
      /\ w.repairs = u.repairs /\ w.bridges = u.bridges
  BY <1>2, <1>5 DEF AnyRaw
<1> HIDE DEF w
<1>7. w.told[i] = 1 /\ \A j \in Own \ {i} : w.told[j] = u.told[j]
  BY <1>3, <1>5, <1>6
<1> QED
  BY <1>4, <1>6, <1>7

LEMMA ArgumentsDoneShape ==
  ASSUME NEW t, RawEnds(t), RawCalls(t), RawShape(t), t.view.ended = "no",
         NEW i \in Own, NEW outcome \in Outcomes, t.at[i] = "added"
  PROVE  RawShape(ArgumentsDone(t, i, outcome))
<1> DEFINE u == [t EXCEPT !.at[i] = "argued"]
           d == Delta(u.view, i)
           w == [u EXCEPT !.view = d]
           x == inputDoneFrames(u, i)
<1>1. /\ u \in AnyRaw /\ Reading(u.view) /\ BridgeShape(u) /\ u.at[i] = "argued"
      /\ OwnFields(t, u, i, "argued", t.view)
      /\ u.item = t.item /\ u.told = t.told /\ u.tracked = t.tracked
      /\ \A j \in Own \ {i} : OwnShape(u, j)
      /\ Degraded(u, i) <=> Degraded(t, i)
  BY ProgressFields
<1>2. ArgumentsDone(t, i, outcome) =
        IF i \notin t.tracked THEN Sent(w)
        ELSE IF BridgeCall(t, i) THEN emitBridgeResult(u, i, outcome) ELSE x
  BY DEF ArgumentsDone
<1> HIDE DEF u
<1>3. /\ u.view.items[i] = "open" /\ i \notin u.executed /\ d = u.view /\ u.view = t.view
      /\ BridgeCall(u, i) <=> BridgeCall(t, i)
  <2>1. t.view.items[i] = "open" /\ Delta(t.view, i) = t.view /\ i \notin t.executed
    BY AddedIsOpen DEF RawShape, OwnShape
  <2> QED
    BY <1>1, <2>1 DEF OwnFields, BridgeCall
<1>4. /\ t.told[i] = 0 /\ OwnShape(t, i)
      /\ Degraded(t, i) => i \in t.tracked
      /\ i \in t.tracked => BridgeCall(t, i) \/ Degraded(t, i)
      /\ BridgeCall(t, i) => ~Degraded(t, i)
  <2>1. OwnShape(t, i)
    BY DEF RawShape
  <2> QED
    BY <2>1 DEF OwnShape, InputTold, BridgeCall, Degraded
<1>5. ASSUME i \notin t.tracked PROVE RawShape(Sent(w))
  <2>1. w = u
    BY <1>1, <1>3 DEF AnyRaw
  <2>2. ~Degraded(u, i) /\ i \notin u.tracked
    BY <1>1, <1>4, <1>5
  <2>3. u.view.items[i] = OwnStage(u, i) /\ u.told[i] = InputTold(u, i)
    BY <1>1, <1>3, <1>4, <2>2 DEF OwnStage, InputTold
  <2>4. OwnShape(u, i)
    BY <1>1, <2>2, <2>3 DEF OwnShape
  <2>5. RawShape(u)
    BY <1>1, <2>4, RawShapeJoined
  <2> QED
    BY <1>1, <2>1, <2>5, SentShape
<1>6. ASSUME i \in t.tracked, BridgeCall(t, i) PROVE RawShape(emitBridgeResult(u, i, outcome))
  <2>1. ~Degraded(u, i) /\ u.told[i] = 0
    BY <1>1, <1>4, <1>6
  <2> QED
    BY <1>1, <1>3, <2>1, BridgeResultShape
<1>7. ASSUME i \in t.tracked, ~BridgeCall(t, i) PROVE RawShape(x)
  <2>1. /\ x \in AnyRaw /\ x.view = u.view /\ x.told[i] = 1
        /\ x.item = u.item /\ x.at = u.at /\ x.tracked = u.tracked
        /\ x.executed = u.executed /\ x.synthetic = u.synthetic
        /\ x.repairs = u.repairs /\ x.bridges = u.bridges
        /\ \A j \in Own \ {i} : x.told[j] = u.told[j]
    BY <1>1, <1>3, <1>4, InputDoneFields
  <2> HIDE DEF x
  <2>2. Degraded(x, i)
    BY <1>1, <1>4, <1>7, <2>1 DEF Degraded
  <2>3. x.view.items[i] = OwnStage(x, i) /\ x.told[i] = InputTold(x, i)
    BY <1>1, <1>3, <2>1, <2>2 DEF OwnStage, InputTold
  <2>4. OwnShape(x, i)
    BY <1>1, <2>1, <2>2, <2>3 DEF OwnShape
  <2>5. ASSUME NEW j \in Own \ {i} PROVE OwnShape(x, j)
    BY <1>1, <2>1 DEF OwnShape, OwnStage, InputTold, Degraded, BridgeCall
  <2>6. BridgeShape(x)
    BY <1>1, <2>1 DEF BridgeShape
  <2> QED
    BY <2>4, <2>5, <2>6, RawShapeJoined
<1> QED
  BY <1>2, <1>5, <1>6, <1>7

LEMMA ItemDoneShape ==
  ASSUME NEW t, RawEnds(t), RawCalls(t), RawShape(t), t.view.ended = "no",
         NEW i \in Own, NEW outcome \in Outcomes, t.at[i] \in {"added", "argued"}
  PROVE  RawShape(ItemDone(t, i, outcome))
<1> DEFINE u == [t EXCEPT !.at[i] = "done"]
           w == IF i \in t.tracked /\ t.at[i] # "argued" THEN inputDoneFrames(u, i) ELSE u
           v == Finish(w.view, i)
           x == [w EXCEPT !.tracked = @ \ {i}, !.view = v]
<1>1. /\ u \in AnyRaw /\ Reading(u.view) /\ BridgeShape(u) /\ u.at[i] = "done"
      /\ OwnFields(t, u, i, "done", t.view)
      /\ u.item = t.item /\ u.told = t.told /\ u.tracked = t.tracked
      /\ \A j \in Own \ {i} : OwnShape(u, j)
      /\ Degraded(u, i) <=> Degraded(t, i)
  BY ProgressFields
<1>2. ItemDone(t, i, outcome) =
        IF BridgeCall(t, i)
        THEN IF i \in t.executed THEN u ELSE emitBridgeResult(u, i, outcome)
        ELSE x
  BY DEF ItemDone
<1> HIDE DEF u
<1>3. /\ u.view = t.view /\ u.executed = t.executed
      /\ BridgeCall(u, i) <=> BridgeCall(t, i)
      /\ u.repairs = t.repairs /\ u.bridges = t.bridges
  BY <1>1 DEF OwnFields, BridgeCall
<1>4. OwnShape(t, i) /\ CallInOrder(t, i)
  BY DEF RawShape, RawCalls
<1>5. i \notin t.executed => t.view.items[i] = "open"
  BY AddedIsOpen
<1>6. CASE BridgeCall(t, i) /\ i \in t.executed
  <2>1. ~Degraded(t, i) /\ i \notin t.tracked
    BY <1>4, <1>6 DEF BridgeCall, Degraded, CallInOrder
  <2>2. u.view.items[i] = OwnStage(u, i)
    BY <1>1, <1>3, <1>4, <1>6 DEF OwnShape, OwnStage
  <2>3. u.told[i] = InputTold(u, i)
    BY <1>1, <1>4, <2>1 DEF OwnShape, InputTold
  <2>4. OwnShape(u, i)
    BY <1>1, <2>1, <2>2, <2>3 DEF OwnShape
  <2> QED
    BY <1>1, <1>2, <1>6, <2>4, RawShapeJoined
<1>7. CASE BridgeCall(t, i) /\ i \notin t.executed
  <2>1. ~Degraded(t, i)
    BY <1>7 DEF BridgeCall, Degraded
  <2>2. u.told[i] = 0
    BY <1>1, <1>4, <2>1 DEF OwnShape, InputTold
  <2>3. RawShape(emitBridgeResult(u, i, outcome))
    BY <1>1, <1>3, <1>5, <1>7, <2>1, <2>2, BridgeResultShape
  <2> QED
    BY <1>2, <1>7, <2>3
<1>8. CASE ~BridgeCall(t, i)
  <2>1. i \notin t.executed /\ t.view.items[i] = "open"
    BY <1>4, <1>5, <1>8 DEF CallInOrder, BridgeCall
  <2>2. /\ w \in AnyRaw /\ w.view = u.view
        /\ w.item = u.item /\ w.at = u.at /\ w.tracked = u.tracked
        /\ w.executed = u.executed /\ w.synthetic = u.synthetic
        /\ w.repairs = u.repairs /\ w.bridges = u.bridges
        /\ \A j \in Own \ {i} : w.told[j] = u.told[j]
        /\ w.told[i] = IF Degraded(t, i) THEN 1 ELSE 0
    <3>1. CASE i \in t.tracked /\ t.at[i] # "argued"
      <4>1. t.at[i] = "added" /\ Degraded(t, i)
        BY <1>4, <1>8, <3>1 DEF OwnShape
      <4>2. u.told[i] = 0
        BY <1>1, <1>4, <4>1 DEF OwnShape, InputTold
      <4> QED
        BY <1>1, <1>3, <2>1, <3>1, <4>1, <4>2, InputDoneFields
    <3>2. CASE ~(i \in t.tracked /\ t.at[i] # "argued")
      <4>1. w = u
        BY <3>2
      <4>2. u.told[i] = IF Degraded(t, i) THEN 1 ELSE 0
        <5>1. CASE t.at[i] = "argued"
          BY <1>1, <1>4, <5>1 DEF OwnShape, InputTold
        <5>2. CASE t.at[i] = "added"
          BY <1>1, <1>4, <3>2, <5>2 DEF OwnShape, InputTold
        <5> QED
          BY <5>1, <5>2
      <4> HIDE DEF w
      <4> QED
        BY <1>1, <4>1, <4>2
    <3> HIDE DEF w
    <3> QED
      BY <3>1, <3>2
  <2> HIDE DEF w
  <2>3. /\ Reading(v) /\ v.parts = {} /\ v.faults = t.view.faults
        /\ \A j \in Indices : v.items[j] = IF j = i THEN "done" ELSE t.view.items[j]
    <3>1. i \in Indices /\ t.view.parts = {} /\ Reading(t.view)
      BY <1>1, <1>3, OwnIndices DEF BridgeShape
    <3>2. v = Finish(t.view, i)
      BY <1>3, <2>2
    <3> HIDE DEF v
    <3> QED
      BY <2>1, <3>1, <3>2, FinishOpen
  <2> HIDE DEF v
  <2>4. /\ x \in AnyRaw /\ x.view = v /\ x.item = t.item /\ x.at = u.at
        /\ x.tracked = t.tracked \ {i} /\ x.told = w.told /\ x.executed = t.executed
        /\ x.synthetic = t.synthetic /\ x.repairs = t.repairs /\ x.bridges = t.bridges
    <3>1. u.synthetic = t.synthetic
      BY <1>1 DEF OwnFields
    <3>2. w \in AnyRaw /\ v \in AnyView
      BY <2>2, <2>3 DEF Reading
    <3>3. /\ x \in AnyRaw /\ x.view = v /\ x.item = w.item /\ x.at = w.at
          /\ x.tracked = w.tracked \ {i} /\ x.told = w.told /\ x.executed = w.executed
          /\ x.synthetic = w.synthetic /\ x.repairs = w.repairs /\ x.bridges = w.bridges
      BY <3>2 DEF AnyRaw
    <3> HIDE DEF x
    <3> QED
      BY <1>1, <1>3, <2>2, <3>1, <3>3
  <2> HIDE DEF x
  <2>5. OwnFields(t, x, i, "done", v)
    BY <1>1, <2>2, <2>4 DEF OwnFields
  <2>6. Degraded(x, i) <=> Degraded(t, i)
    BY <2>4 DEF Degraded
  <2>7. x.at[i] = "done" /\ x.view.items[i] = "done"
    BY <1>1, <2>3, <2>4, OwnIndices
  <2>8. x.view.items[i] = OwnStage(x, i) /\ x.told[i] = InputTold(x, i)
    BY <2>2, <2>4, <2>6, <2>7 DEF OwnStage, InputTold
  <2>9. OwnShape(x, i)
    BY <2>4, <2>7, <2>8 DEF OwnShape
  <2>10. t.synthetic > i
    BY OwnBeforeSynthetic DEF RawShape, RawEnds
  <2>11. v.parts = t.view.parts
    BY <2>3 DEF RawShape, BridgeShape
  <2>12. RawShape(x)
    BY <2>3, <2>5, <2>9, <2>10, <2>11, OthersShape
  <2> QED
    BY <1>2, <1>8, <2>12
<1> QED
  BY <1>6, <1>7, <1>8

\* No rule was broken but by the bridge; a turn may then be completed with an item of
\* the bridge left open.
BridgeFaults(v) ==
  \A f \in v.faults :
    \/ \E j \in Synthetic : f = <<"unannounced", j>>
    \/ f = <<"unfinished", NoIndex>> /\ \E j \in Synthetic : <<"unannounced", j>> \in v.faults

RawTold(t) ==
  /\ t \in RawState /\ t.view.parts = {} /\ BridgeFaults(t.view)
  /\ \A i \in Own : t.told[i] = InputTold(t, i)

\* A stream is as it should be.
RawWell(t) == RawTold(t) /\ (t.view.ended = "no" => RawShape(t))

LEMMA RawTyped ==
  ASSUME NEW t \in AnyRaw, \A i \in Own : t.ran[i] <= 1, t.synthetic <= MaxItems,
         t.view.parts = {}, BridgeFaults(t.view), \A i \in Own : t.told[i] = InputTold(t, i)
  PROVE  RawTold(t)
<1>1. t.told \in [Own -> 0 .. 2]
  <2>1. \A i \in Own : t.told[i] \in 0 .. 2
    BY DEF InputTold
  <2> QED
    BY <2>1 DEF AnyRaw
<1>2. t.ran \in [Own -> 0 .. 2]
  <2>1. ASSUME NEW i \in Own PROVE t.ran[i] \in 0 .. 2
    <3>1. t.ran[i] \in Nat
      BY DEF AnyRaw
    <3>2. t.ran[i] <= 1
      OBVIOUS
    <3> QED
      BY <3>1, <3>2
  <2> QED
    BY <2>1 DEF AnyRaw
<1>3. t.synthetic \in Indices \cup {MaxItems}
  <2>1. t.synthetic \in Nat /\ MaxItems \in Nat
    BY ClientAssumption DEF AnyRaw
  <2>2. t.synthetic <= MaxItems
    OBVIOUS
  <2> QED
    BY <2>1, <2>2 DEF Indices
<1>4. t.view \in View
  <2>1. \A f \in t.view.faults : f \in FaultKinds \X (Indices \cup {NoIndex})
    BY DEF BridgeFaults, FaultKinds, Synthetic
  <2> QED
    BY <2>1 DEF AnyRaw, AnyView, View
<1>5. t \in RawState
  BY <1>1, <1>2, <1>3, <1>4 DEF AnyRaw, RawState
<1> QED
  BY <1>5 DEF RawTold

LEMMA RawShapeTold ==
  ASSUME NEW t \in AnyRaw, RawCalls(t), RawShape(t)
  PROVE  RawTold(t)
<1>1. \A i \in Own : t.ran[i] <= 1 /\ t.told[i] = InputTold(t, i)
  BY DEF RawCalls, CallInOrder, RawShape, OwnShape
<1>2. t.synthetic <= MaxItems
  <2>1. t.executed \in SUBSET Own
    BY DEF AnyRaw
  <2>2. syntheticIndexBase + 2 * Cardinality(t.executed) <= MaxItems
    BY <2>1, SyntheticBound
  <2> QED
    BY <2>2 DEF RawShape, BridgeShape
<1>3. t.view.parts = {} /\ BridgeFaults(t.view)
  BY DEF RawShape, BridgeShape, BridgeFaults
<1> QED
  BY <1>1, <1>2, <1>3, RawTyped

LEMMA SameRawTold ==
  ASSUME NEW t, RawTold(t), NEW u \in AnyRaw, SameTold(t, u), \A i \in Own : u.ran[i] <= 1,
         u.view.parts = {}, BridgeFaults(u.view)
  PROVE  RawTold(u)
<1>1. \A i \in Own : u.told[i] = InputTold(u, i)
  BY DEF RawTold, SameTold, InputTold, Degraded
<1>2. u.synthetic <= MaxItems
  <2>1. t.synthetic \in Indices \cup {MaxItems} /\ u.synthetic = t.synthetic
    BY DEF RawTold, RawState, SameTold
  <2> QED
    BY <2>1, ClientAssumption DEF Indices
<1> QED
  BY <1>1, <1>2, RawTyped

\* The end of a turn, if it breaks a rule, leaves an item open.
LEMMA EndTurnFaults ==
  ASSUME NEW v, Reading(v), NEW how \in Endings
  PROVE  LET w == EndTurn(v, how)
         IN  /\ w \in AnyView /\ w.items = v.items /\ w.parts = v.parts /\ w.ended = how
             /\ \/ w.faults = v.faults
                \/ /\ how = "completed" /\ \E i \in Indices : v.items[i] = "open"
                   /\ w.faults = v.faults \cup {<<"unfinished", NoIndex>>}
<1> DEFINE open == how = "completed" /\ \E i \in Indices : v.items[i] = "open"
           f == Fault(v, "unfinished", NoIndex)
           w == IF open THEN f ELSE v
           x == [w EXCEPT !.ended = how]
<1>1. v \in AnyView /\ v.ended = "no" /\ ~v.over
  BY DEF Reading
<1>2. EndTurn(v, how) = x
  <2> HIDE DEF f, open
  <2> QED
    BY <1>1 DEF EndTurn, Take, f, open
<1>3. f \in AnyView /\ f.items = v.items /\ f.parts = v.parts
      /\ f.faults = v.faults \cup {<<"unfinished", NoIndex>>}
  <2>1. f \in AnyView
    BY <1>1, FaultSameEnd DEF FaultKinds, NoIndex, SameEnd
  <2>2. {"unfinished"} \X {NoIndex} = {<<"unfinished", NoIndex>>}
    OBVIOUS
  <2> QED
    BY <1>1, <2>1, <2>2 DEF Fault, Faults, AnyView
<1> HIDE DEF f
<1>4. w \in AnyView /\ w.items = v.items /\ w.parts = v.parts
  BY <1>1, <1>3
<1>5. w.faults = v.faults \/ (open /\ w.faults = v.faults \cup {<<"unfinished", NoIndex>>})
  BY <1>3
<1> HIDE DEF w, open
<1>6. x \in AnyView /\ x.items = w.items /\ x.parts = w.parts /\ x.faults = w.faults
      /\ x.ended = how
  BY <1>4 DEF AnyView
<1> HIDE DEF x
<1> QED
  BY <1>2, <1>4, <1>5, <1>6 DEF open

\* A turn of a stream is completed with an item left open only if that is one of the
\* bridge, for which another was closed.
LEMMA EndTurnByBridge ==
  ASSUME NEW t, RawEnds(t), RawShape(t), t.view.ended = "no", NEW how \in Endings,
         how = "completed" => \A i \in Own : t.at[i] \in {"none", "done"}
  PROVE  LET w == EndTurn(t.view, how)
         IN  w \in AnyView /\ w.parts = {} /\ w.ended = how /\ BridgeFaults(w)
<1> DEFINE v == t.view
           w == EndTurn(v, how)
<1>1. Reading(v) /\ BridgeShape(t)
  BY DEF RawEnds, AnyRaw, Reading, RawShape
<1>2. /\ w \in AnyView /\ w.items = v.items /\ w.parts = v.parts /\ w.ended = how
      /\ \/ w.faults = v.faults
         \/ /\ how = "completed" /\ \E i \in Indices : v.items[i] = "open"
            /\ w.faults = v.faults \cup {<<"unfinished", NoIndex>>}
  BY <1>1, EndTurnFaults
<1> HIDE DEF w
<1>3. ASSUME w.faults = v.faults PROVE BridgeFaults(w)
  BY <1>1, <1>3 DEF BridgeShape, BridgeFaults
<1>4. ASSUME NEW i \in Indices, how = "completed", v.items[i] = "open",
             w.faults = v.faults \cup {<<"unfinished", NoIndex>>}
      PROVE  BridgeFaults(w)
  <2>1. i \notin Own
    <3> SUFFICES ASSUME i \in Own PROVE FALSE
      OBVIOUS
    <3>1. OwnShape(t, i) /\ t.at[i] \in {"none", "done"}
      BY <1>4 DEF RawShape
    <3> QED
      BY <1>4, <3>1 DEF OwnShape, OwnStage
  <2>2. v.faults # {}
    BY <1>1, <1>4, <2>1 DEF BridgeShape, Synthetic
  <2>3. PICK g \in v.faults : TRUE
    BY <2>2
  <2>4. PICK j \in Synthetic : g = <<"unannounced", j>>
    BY <1>1 DEF BridgeShape
  <2>5. <<"unannounced", j>> \in w.faults
    BY <1>4, <2>3, <2>4
  <2> QED
    BY <1>1, <1>4, <2>5 DEF BridgeShape, BridgeFaults
<1>5. BridgeFaults(w)
  BY <1>2, <1>3, <1>4
<1>6. w.parts = {}
  BY <1>1, <1>2 DEF BridgeShape
<1> QED
  BY <1>2, <1>5, <1>6 DEF w

LEMMA WellRaw ==
  ASSUME NEW t, RawWell(t), t.view.ended = "no"
  PROVE  RawShape(t) /\ RawTold(t)
BY DEF RawWell

LEMMA ShapeIsWell ==
  ASSUME NEW t \in AnyRaw, RawCalls(t), RawShape(t)
  PROVE  RawWell(t)
BY RawShapeTold DEF RawWell

\* After the end nothing is told but the end, and the item of no call is touched.
LEMMA EndedIsWell ==
  ASSUME NEW t, RawTold(t), NEW u \in AnyRaw, \A i \in Own : u.ran[i] <= 1, SameTold(t, u),
         u.view.parts = {}, BridgeFaults(u.view), u.view.ended # "no"
  PROVE  RawWell(u)
BY SameRawTold DEF RawWell

LEMMA RunOnce ==
  ASSUME NEW t, RawCalls(t)
  PROVE  \A i \in Own : t.ran[i] <= 1
BY DEF RawCalls, CallInOrder

LEMMA TerminalEventWell ==
  ASSUME NEW t, RawEnds(t), RawCalls(t), RawWell(t), t.view.ended = "no",
         NEW how \in TurnOver, NEW outcome \in [Own -> Outcomes],
         how = "completed" => \A i \in Own : t.at[i] \in {"none", "done"}
  PROVE  RawWell(TerminalEvent(t, how, outcome))
<1> DEFINE u == IF t.protocol = "responses" THEN interceptBridgeNonStreaming(t, outcome) ELSE t
           v == EndTurn(t.view, how)
           w == IF doneNet(t) THEN v ELSE Done(v)
           S == u.seen \/ t.protocol # "chat"
           x == [u EXCEPT !.seen = S, !.view = w]
           y == Sent(x)
<1>1. t \in AnyRaw /\ RawShape(t) /\ RawTold(t) /\ how \in Endings
  BY WellRaw DEF RawEnds, TurnOver, Endings
<1>2. TerminalEvent(t, how, outcome) = y
  BY DEF TerminalEvent
<1>3. SameTold(t, u) /\ u \in AnyRaw
  <2>1. SameTold(t, t)
    BY DEF SameTold
  <2> DEFINE i == interceptBridgeNonStreaming(t, outcome)
  <2>2. SameRaw(t, i) /\ i.item = t.item /\ i.at = t.at /\ i.tracked = t.tracked
        /\ i.executed = t.executed
    BY InterceptInOrder
  <2>3. i.told = t.told /\ i.synthetic = t.synthetic
    BY <1>1 DEF interceptBridgeNonStreaming, AnyRaw
  <2> HIDE DEF i
  <2>4. SameTold(t, i) /\ i \in AnyRaw
    BY <2>2, <2>3 DEF SameTold, SameRaw
  <2> QED
    BY <1>1, <2>1, <2>4 DEF i
<1> HIDE DEF u
<1>4. v \in AnyView /\ v.parts = {} /\ v.ended = how /\ BridgeFaults(v)
  BY <1>1, EndTurnByBridge
<1> HIDE DEF v
<1>5. w \in AnyView /\ w.parts = {} /\ w.ended = how /\ BridgeFaults(w)
  BY <1>4 DEF Done, AnyView, BridgeFaults
<1> HIDE DEF w
<1>6. S \in BOOLEAN
  BY <1>3 DEF AnyRaw
<1> HIDE DEF S
<1>7. x \in AnyRaw /\ SameTold(u, x) /\ x.view = w
  BY <1>3, <1>5, <1>6 DEF AnyRaw, SameTold
<1> HIDE DEF x
<1>8. SameTold(x, y) /\ y.view = x.view
  BY <1>7 DEF SameTold, Sent, AnyRaw
<1>9. SameTold(t, y)
  BY <1>3, <1>7, <1>8 DEF SameTold
<1>10. y \in AnyRaw /\ \A i \in Own : y.ran[i] <= 1
  BY <1>2, TerminalEventInOrder, RunOnce DEF RawEnds
<1>11. y.view.ended # "no" /\ y.view.parts = {} /\ BridgeFaults(y.view)
  BY <1>5, <1>7, <1>8 DEF TurnOver
<1> HIDE DEF y
<1> QED
  BY <1>1, <1>2, <1>9, <1>10, <1>11, EndedIsWell

LEMMA ErrorPassesWell ==
  ASSUME NEW t, RawEnds(t), RawCalls(t), RawWell(t), t.view.ended = "no"
  PROVE  RawWell(ErrorPasses(t))
<1> DEFINE w == EndTurn(t.view, "error")
           u == [t EXCEPT !.view = w]
           y == Sent(u)
<1>1. t \in AnyRaw /\ RawShape(t) /\ RawTold(t) /\ "error" \in Endings
  BY WellRaw DEF RawEnds, Endings
<1>2. ErrorPasses(t) = y
  BY DEF ErrorPasses
<1>3. w \in AnyView /\ w.parts = {} /\ w.ended = "error" /\ BridgeFaults(w)
  BY <1>1, EndTurnByBridge
<1> HIDE DEF w
<1>4. u \in AnyRaw /\ SameTold(t, u) /\ u.view = w
  BY <1>1, <1>3 DEF AnyRaw, SameTold
<1> HIDE DEF u
<1>5. SameTold(u, y) /\ y.view = u.view
  BY <1>4 DEF SameTold, Sent, AnyRaw
<1>6. SameTold(t, y)
  BY <1>4, <1>5 DEF SameTold
<1>7. y \in AnyRaw /\ \A i \in Own : y.ran[i] <= 1
  BY <1>2, ErrorPassesInOrder, RunOnce DEF RawEnds
<1>8. y.view.ended # "no" /\ y.view.parts = {} /\ BridgeFaults(y.view)
  BY <1>3, <1>4, <1>5
<1> HIDE DEF y
<1> QED
  BY <1>1, <1>2, <1>6, <1>7, <1>8, EndedIsWell

\* A frame that only says the stream is over, or a mark that is no frame.
LEMMA MarkedIsWell ==
  ASSUME NEW t, RawWell(t), NEW u \in AnyRaw, \A i \in Own : u.ran[i] <= 1, SameTold(t, u),
         u.view \in {t.view, Done(t.view)}
  PROVE  RawWell(u)
<1>1. RawTold(t) /\ (t.view.ended = "no" => RawShape(t)) /\ t.view \in View
  BY DEF RawWell, RawTold, RawState
<1>2. /\ u.view.items = t.view.items /\ u.view.parts = t.view.parts
      /\ u.view.faults = t.view.faults /\ u.view.ended = t.view.ended
  BY <1>1 DEF Done, View
<1>3. RawTold(u)
  <2>1. u.view.parts = {} /\ BridgeFaults(u.view)
    BY <1>1, <1>2 DEF RawTold, BridgeFaults
  <2> QED
    BY <1>1, <2>1, SameRawTold
<1>4. u.view.ended = "no" => RawShape(u)
  BY <1>1, <1>2, SameRawShape
<1> QED
  BY <1>3, <1>4 DEF RawWell

LEMMA DonePassesWell ==
  ASSUME NEW t, RawEnds(t), RawCalls(t), RawWell(t), t.view.ended # "no"
  PROVE  RawWell(DonePasses(t))
<1> DEFINE w == Done(t.view)
           u == [t EXCEPT !.sawDone = TRUE, !.view = w]
           y == Sent(u)
<1>1. t \in AnyRaw /\ w \in AnyView
  BY DoneIsOver DEF RawEnds, AnyRaw
<1>2. DonePasses(t) = y
  BY DEF DonePasses
<1>3. w = Done(t.view)
  OBVIOUS
<1> HIDE DEF w
<1>4. u \in AnyRaw /\ SameTold(t, u) /\ u.view = w
  BY <1>1 DEF AnyRaw, SameTold
<1> HIDE DEF u
<1>5. SameTold(u, y) /\ y.view = u.view
  BY <1>4 DEF SameTold, Sent, AnyRaw
<1>6. SameTold(t, y)
  BY <1>4, <1>5 DEF SameTold
<1>7. y \in AnyRaw /\ \A i \in Own : y.ran[i] <= 1
  BY <1>2, DonePassesInOrder, RunOnce DEF RawEnds
<1> HIDE DEF y
<1> QED
  BY <1>2, <1>3, <1>4, <1>5, <1>6, <1>7, MarkedIsWell

LEMMA SoftErrorWell ==
  ASSUME NEW t, RawEnds(t), RawCalls(t), RawWell(t), t.view.ended = "no", NEW k,
         NEW whole \in {TRUE, FALSE}
  PROVE  RawWell(SoftErrorPasses(t, k, whole))
<1> DEFINE e == ErrorPasses(t)
           c == [t EXCEPT !.cut = TRUE]
           d == Done(e.view)
           o == [e EXCEPT !.view = d]
<1>1. SoftErrorPasses(t, k, whole) = IF ~whole THEN Sent(c) ELSE IF k = "busy" THEN o ELSE e
  BY DEF SoftErrorPasses
<1>2. t \in AnyRaw /\ \A i \in Own : t.ran[i] <= 1
  BY RunOnce DEF RawEnds
<1>3. RawWell(e) /\ e \in AnyRaw /\ \A i \in Own : e.ran[i] <= 1
  BY ErrorPassesWell, ErrorPassesInOrder, RunOnce DEF RawEnds
<1> HIDE DEF e
<1>4. RawWell(Sent(c))
  <2>1. c \in AnyRaw /\ SameTold(t, c) /\ c.view = t.view /\ c.ran = t.ran
    BY <1>2 DEF AnyRaw, SameTold
  <2> HIDE DEF c
  <2>2. /\ Sent(c) \in AnyRaw /\ SameTold(c, Sent(c)) /\ Sent(c).view = c.view
        /\ Sent(c).ran = c.ran
    BY <2>1 DEF Sent, AnyRaw, SameTold
  <2>3. SameTold(t, Sent(c))
    BY <2>1, <2>2 DEF SameTold
  <2> QED
    BY <1>2, <2>1, <2>2, <2>3, MarkedIsWell
<1>5. RawWell(o)
  <2>1. d \in AnyView
    BY <1>3, DoneIsOver DEF AnyRaw
  <2>2. d = Done(e.view)
    OBVIOUS
  <2> HIDE DEF d
  <2>3. o \in AnyRaw /\ SameTold(e, o) /\ o.view = d /\ o.ran = e.ran
    BY <1>3, <2>1 DEF AnyRaw, SameTold
  <2> HIDE DEF o
  <2> QED
    BY <1>3, <2>2, <2>3, MarkedIsWell
<1> QED
  BY <1>1, <1>3, <1>4, <1>5

LEMMA DoneNetWell ==
  ASSUME NEW t \in AnyRaw, RawWell(t), \A i \in Own : t.ran[i] <= 1, NEW tail
  PROVE  RawWell(DoneNet(t, tail))
<1> DEFINE d == Done(t.view)
           u == [t EXCEPT !.view = d]
<1>1. DoneNet(t, tail) = t \/ DoneNet(t, tail) = u
  BY DEF DoneNet
<1>2. d \in AnyView /\ d = Done(t.view)
  BY DoneIsOver DEF AnyRaw
<1> HIDE DEF d
<1>3. u \in AnyRaw /\ SameTold(t, u) /\ u.view = d /\ u.ran = t.ran
  BY <1>2 DEF AnyRaw, SameTold
<1> HIDE DEF u
<1> QED
  BY <1>1, <1>2, <1>3, MarkedIsWell

LEMMA LeftoverWell ==
  ASSUME NEW t, RawEnds(t), RawCalls(t), RawWell(t), NEW tail, NEW marker \in {TRUE, FALSE}
  PROVE  LET u == Leftover(t, tail, marker)
         IN  RawWell(u) /\ u \in AnyRaw /\ \A i \in Own : u.ran[i] <= 1
<1> DEFINE u == [t EXCEPT !.cut = TRUE, !.sawData = @ \/ tail = "line",
                          !.seen = @ \/ marker, !.mentioned = @ \/ marker]
<1>1. Leftover(t, tail, marker) = IF tail = "" \/ transformer(t) THEN t ELSE u
  BY DEF Leftover
<1>2. t \in AnyRaw /\ \A i \in Own : t.ran[i] <= 1
  BY RunOnce DEF RawEnds
<1>3. u \in AnyRaw /\ SameTold(t, u) /\ u.view = t.view /\ u.ran = t.ran
  BY <1>2 DEF AnyRaw, SameTold
<1> HIDE DEF u
<1>4. RawWell(u)
  BY <1>2, <1>3, MarkedIsWell
<1> QED
  BY <1>1, <1>2, <1>3, <1>4

\* What a transformer's Flush passes on ends the turn.
LEMMA TornErrorWell ==
  ASSUME NEW t, RawEnds(t), RawCalls(t), RawWell(t), t.view.ended = "no",
         NEW marker \in {TRUE, FALSE}
  PROVE  LET u == Sent([t EXCEPT !.seen = marker,
                                 !.view = EndTurn(@, IF marker THEN "failed" ELSE "error")])
         IN  RawWell(u) /\ u \in AnyRaw /\ \A i \in Own : u.ran[i] <= 1
<1> DEFINE how == IF marker THEN "failed" ELSE "error"
           w == EndTurn(t.view, how)
           u == [t EXCEPT !.seen = marker, !.view = w]
           y == Sent(u)
<1>1. t \in AnyRaw /\ RawShape(t) /\ RawTold(t) /\ \A i \in Own : t.ran[i] <= 1
  BY WellRaw, RunOnce DEF RawEnds
<1>2. how \in Endings /\ how # "completed" /\ how # "no"
  BY DEF Endings
<1> HIDE DEF how
<1>3. w \in AnyView /\ w.parts = {} /\ w.ended = how /\ BridgeFaults(w)
  BY <1>1, <1>2, EndTurnByBridge
<1> HIDE DEF w
<1>4. u \in AnyRaw /\ SameTold(t, u) /\ u.view = w /\ u.ran = t.ran
  BY <1>1, <1>3 DEF AnyRaw, SameTold
<1> HIDE DEF u
<1>5. y \in AnyRaw /\ SameTold(u, y) /\ y.view = u.view /\ y.ran = u.ran
  BY <1>4 DEF SameTold, Sent, AnyRaw
<1>6. SameTold(t, y)
  BY <1>4, <1>5 DEF SameTold
<1> HIDE DEF y
<1>7. RawWell(y)
  BY <1>1, <1>2, <1>3, <1>4, <1>5, <1>6, EndedIsWell
<1> QED
  BY <1>1, <1>4, <1>5, <1>7 DEF y, u, w, how

-----------------------------------------------------------------------------
(* The relay *)

\* The writers exclude each other, a handler that has returned has waited for the
\* other goroutine, and no write leads straight to the return.
Locked ==
  /\ FramesWhole
  /\ reader = "returned" => keepalive = "dead"
  /\ after \in {"reading", "closing"}

LEMMA InitLocked == Init => Locked
BY DEF Init, Locked, FramesWhole

\* The steps in which the reader takes something in.
Reads ==
  \/ StartBlock \/ TextDeltaEvent \/ InputDeltaEvent \/ StopBlock \/ ErrorEvent \/ StopEvent
  \/ ChatChoice \/ ChatUsage \/ ChatError
  \/ RawItem \/ RawText \/ RawArguments \/ RawItemDone \/ RawEnd \/ RawDone \/ RawError
  \/ SoftError \/ SoftErrorWhole \/ EndOfBody \/ RawEndOfBody

LEMMA ReadsHandOver ==
  ASSUME Reads
  PROVE  reader' = "frames" /\ after' \in {"reading", "closing"} /\ UNCHANGED keepalive
<1> DEFINE Handed == reader' = "frames" /\ after' \in {"reading", "closing"}
                     /\ UNCHANGED keepalive
<1> SUFFICES Handed
  OBVIOUS
<1>1. ASSUME NEW next, NEW open, TakeIn(next, open) PROVE Handed
  BY <1>1 DEF TakeIn, beside
<1>2. ASSUME NEW k, NEW whole, Detect(k, whole) PROVE Handed
  BY <1>2 DEF Detect, beside
<1> HIDE DEF Handed
<1>3. ASSUME NEW next, NEW open, TakeMessages(next, open) PROVE Handed
  BY <1>3, <1>1 DEF TakeMessages
<1>4. ASSUME NEW next, TakeChat(next) PROVE Handed
  BY <1>4, <1>1 DEF TakeChat
<1>5. CASE StartBlock
  BY <1>5, <1>3 DEF StartBlock
<1>6. CASE TextDeltaEvent
  BY <1>6, <1>3 DEF TextDeltaEvent
<1>7. CASE InputDeltaEvent
  BY <1>7, <1>3 DEF InputDeltaEvent
<1>8. CASE StopBlock
  BY <1>8, <1>3 DEF StopBlock
<1>9. CASE ErrorEvent
  BY <1>9, <1>3 DEF ErrorEvent
<1>10. CASE StopEvent
  BY <1>10, <1>3 DEF StopEvent
<1>11. CASE ChatChoice
  BY <1>11, <1>4 DEF ChatChoice
<1>12. CASE ChatUsage
  BY <1>12, <1>4 DEF ChatUsage
<1>13. CASE ChatError
  BY <1>13, <1>4 DEF ChatError
<1>14. CASE SoftError
  BY <1>14, <1>2 DEF SoftError
<1>15. CASE SoftErrorWhole
  BY <1>15, <1>2 DEF SoftErrorWhole
<1>16. CASE EndOfBody
  BY <1>16 DEF EndOfBody, beside, Handed
<1>17. ASSUME NEW next, TakeRaw(next) PROVE Handed
  BY <1>17, <1>1 DEF TakeRaw
<1>18. CASE RawItem
  BY <1>18, <1>17 DEF RawItem
<1>19. CASE RawText
  BY <1>19, <1>17 DEF RawText
<1>20. CASE RawArguments
  BY <1>20, <1>17 DEF RawArguments
<1>21. CASE RawItemDone
  BY <1>21, <1>17 DEF RawItemDone
<1>22. CASE RawEnd
  BY <1>22, <1>17 DEF RawEnd
<1>23. CASE RawDone
  BY <1>23, <1>17 DEF RawDone
<1>24. CASE RawError
  BY <1>24, <1>17 DEF RawError
<1>25. CASE RawEndOfBody
  BY <1>25 DEF RawEndOfBody, beside, Handed
<1> QED
  BY <1>5, <1>6, <1>7, <1>8, <1>9, <1>10, <1>11, <1>12, <1>13, <1>14, <1>15, <1>16,
     <1>18, <1>19, <1>20, <1>21, <1>22, <1>23, <1>24, <1>25 DEF Reads

LEMMA NextLocked == Locked /\ [Next]_vars => Locked'
<1> SUFFICES ASSUME Locked, [Next]_vars PROVE Locked'
  OBVIOUS
<1> USE DEF Locked, FramesWhole
<1>1. CASE Reads
  BY <1>1, ReadsHandOver
<1>2. CASE SoftErrorTorn
  BY <1>2 DEF SoftErrorTorn, beside
<1>3. CASE Lock
  BY <1>3 DEF Lock, beside
<1>4. CASE Unlock
  BY <1>4 DEF Unlock
<1>5. CASE WriteFails
  BY <1>5 DEF WriteFails, beside
<1>6. CASE Return
  BY <1>6 DEF Return, beside
<1>7. CASE Keepalive
  BY <1>7 DEF Keepalive, Tick, KeepaliveLock, KeepaliveUnlock, KeepaliveStop
<1>8. CASE ClientLeaves
  BY <1>8 DEF ClientLeaves
<1>9. CASE UNCHANGED vars
  BY <1>9 DEF vars
<1> QED
  BY <1>1, <1>2, <1>3, <1>4, <1>5, <1>6, <1>7, <1>8, <1>9 DEF Next, Reads

\* The mutex of the relay loops keeps the keepalive comment out of the frames.
THEOREM FramesAreWhole == Spec => []FramesWhole
<1>1. Locked => FramesWhole
  BY DEF Locked
<1> QED
  BY InitLocked, NextLocked, <1>1, PTL DEF Spec

\* Once the handler has returned the connection, the keepalive goroutine writes nothing
\* to it: sseKeepalive's stop waits for its end.
THEOREM KeepaliveIsNotLate == Spec => NoLateKeepalive
<1> DEFINE Timely == keepalive' = "writing" /\ keepalive # "writing" => reader # "returned"
<1>1. Locked /\ Locked' /\ [Next]_vars => [Timely]_vars
  <2> SUFFICES ASSUME Locked, [Next]_vars, keepalive' = "writing", reader = "returned",
                      keepalive # "writing"
               PROVE  FALSE
    OBVIOUS
  <2>1. keepalive = "dead"
    BY DEF Locked
  <2>2. CASE Reads
    BY <2>2, ReadsHandOver
  <2>3. CASE SoftErrorTorn \/ Lock \/ Unlock \/ WriteFails \/ Return
    BY <2>3 DEF SoftErrorTorn, Lock, Unlock, WriteFails, Return, beside
  <2>4. CASE Keepalive
    BY <2>4, <2>1 DEF Keepalive, Tick, KeepaliveLock, KeepaliveUnlock, KeepaliveStop
  <2>5. CASE ClientLeaves \/ UNCHANGED vars
    BY <2>5 DEF ClientLeaves, vars
  <2> QED
    BY <2>2, <2>3, <2>4, <2>5 DEF Next, Reads
<1> QED
  BY InitLocked, NextLocked, <1>1, PTL DEF Spec, NoLateKeepalive

-----------------------------------------------------------------------------
(* How a turn ends *)

\* The converter, or the stream that is passed through, is as its events leave it.
ConvInOrder ==
  /\ route = "messages" => MessagesRun(conv) \/ MessagesEnded(conv)
  /\ route = "chat" => ChatRun(conv) \/ ChatEnded(conv)
  /\ route = "raw" => RawEnds(conv) /\ RawCalls(conv)

\* What HonestReport and TurnEnds say of a reader that has returned.
ReportHonest ==
  IF route = "raw"
  THEN ~conv.mentioned /\ conv.protocol # "chat" =>
         (kind = "" /\ ~truncated <=> conv.view.ended \in TurnOver /\ readErr = "EOF")
  ELSE kind = "" /\ ~truncated <=> conv.view.ended = "completed" /\ readErr = "EOF"

EndTold ==
  IF route = "raw"
  THEN conv.cut \/
         /\ kind = "" /\ doneNet(conv) => conv.view.over
         /\ kind # "" => conv.view.ended = "error"
         /\ kind = "busy" => conv.view.over
  ELSE /\ kind = "busy" => conv.view.ended = "overloaded"
       /\ \/ conv.view.ended # "no" /\ conv.view.over
          \/ route = "messages" /\ kind = "fatal" /\ ~conv.done

\* While the relay goes on reading, the converter is in order and no soft error was
\* detected; from the moment it is to close, its verdict stands, unless the client left.
Judged ==
  /\ route \in Routes
  /\ after \in {"reading", "closing"}
  /\ block \in Blocks \cup {NoBlock}
  /\ torn \in SoftKinds \cup {""}
  /\ reader = "reading" => after = "reading"
  /\ reader \in {"closing", "returned"} => after = "closing" \/ gone
  /\ torn # "" => reader = "reading" /\ ~upstreamDone
  /\ after = "reading" => ConvInOrder /\ kind = ""
  /\ NoEmptyHanded
  /\ after = "closing" /\ ~gone => ReportHonest /\ EndTold

\* No converter in order completes a turn whose calls were all dropped.
LEMMA InOrderHandsOver == route \in Routes /\ ConvInOrder => NoEmptyHanded
<1> SUFFICES ASSUME route \in Routes, ConvInOrder PROVE NoEmptyHanded
  OBVIOUS
<1>1. CASE route = "messages"
  BY <1>1 DEF ConvInOrder, NoEmptyHanded, MessagesRun, MessagesEnded
<1>2. CASE route = "chat"
  BY <1>2 DEF ConvInOrder, NoEmptyHanded, ChatRun, ChatEnded
<1>3. CASE route = "raw"
  <2>1. ASSUME NEW i \in Own PROVE CallInOrder(conv, i)
    BY <1>3 DEF ConvInOrder, RawCalls
  <2> QED
    BY <1>3, <2>1 DEF NoEmptyHanded, CallInOrder
<1> QED
  BY <1>1, <1>2, <1>3 DEF Routes

LEMMA InitJudged == Init => Judged
<1> SUFFICES ASSUME Init PROVE Judged
  OBVIOUS
<1>1. /\ route \in Routes /\ block = NoBlock /\ torn = "" /\ reader = "reading"
      /\ after = "reading" /\ kind = ""
  BY DEF Init
<1>2. ConvInOrder
  <2>1. CASE route = "messages"
    BY <2>1, NewMessagesRuns DEF Init, ConvInOrder
  <2>2. CASE route = "chat"
    BY <2>2, NewChatRuns DEF Init, ConvInOrder
  <2>3. CASE route = "raw"
    <3>1. conv \in RawStates0
      BY <2>3 DEF Init
    <3> QED
      BY <2>3, <3>1, NewRawInOrder DEF ConvInOrder
  <2> QED
    BY <2>1, <2>2, <2>3, <1>1 DEF Routes
<1> QED
  BY <1>1, <1>2, InOrderHandsOver DEF Judged

\* An event that is taken in leaves the relay reading.
LEMMA TakeInJudged ==
  ASSUME Judged, NEW next, NEW open \in Blocks \cup {NoBlock}, TakeIn(next, open),
         \/ route = "messages" /\ (MessagesRun(next) \/ MessagesEnded(next))
         \/ route = "chat" /\ (ChatRun(next) \/ ChatEnded(next))
         \/ route = "raw" /\ RawEnds(next) /\ RawCalls(next)
  PROVE  Judged'
<1>1. /\ conv' = next /\ block' = open /\ reader' = "frames" /\ after' = "reading"
      /\ route' = route /\ torn' = "" /\ kind' = kind /\ kind = ""
      /\ route \in Routes
  BY DEF TakeIn, Judged, result
<1>2. ConvInOrder'
  BY <1>1 DEF ConvInOrder
<1>3. NoEmptyHanded'
  <2>1. (route \in Routes /\ ConvInOrder => NoEmptyHanded)'
    BY InOrderHandsOver, PTL
  <2> QED
    BY <2>1, <1>1, <1>2
<1> QED
  BY <1>1, <1>2, <1>3 DEF Judged

LEMMA MessagesJudged ==
  ASSUME Judged, NEW next, NEW open \in Blocks \cup {NoBlock}, TakeMessages(next, open),
         MessagesRun(conv) => MessagesRun(next) \/ MessagesEnded(next)
  PROVE  Judged'
<1> DEFINE n == IF conv.done THEN conv ELSE next
<1>1. route = "messages" /\ TakeIn(n, open)
  BY DEF TakeMessages
<1>2. MessagesRun(conv) \/ MessagesEnded(conv)
  BY <1>1 DEF TakeIn, Judged, ConvInOrder
<1>3. MessagesRun(n) \/ MessagesEnded(n)
  BY <1>2 DEF MessagesRun, MessagesEnded
<1> HIDE DEF n
<1> QED
  BY <1>1, <1>3, TakeInJudged

LEMMA MessagesStepsJudged ==
  ASSUME Judged,
         \/ StartBlock \/ TextDeltaEvent \/ InputDeltaEvent \/ StopBlock \/ ErrorEvent
         \/ StopEvent
  PROVE  Judged'
<1>1. Blocks \subseteq Nat /\ block \in Blocks \cup {NoBlock}
  BY MessagesAssumption DEF Judged
<1>2. CASE StartBlock
  BY <1>1, <1>2, BlockStartRuns, MessagesJudged DEF StartBlock
<1>3. CASE TextDeltaEvent
  BY <1>1, <1>3, TextArrivesRuns, MessagesJudged DEF TextDeltaEvent
<1>4. CASE InputDeltaEvent
  BY <1>1, <1>4, InputArrivesRuns, MessagesJudged DEF InputDeltaEvent
<1>5. CASE StopBlock
  BY <1>1, <1>5, BlockStopRuns, MessagesJudged DEF StopBlock
<1>6. CASE ErrorEvent
  BY <1>1, <1>6, MessagesErrorEnds, MessagesJudged DEF ErrorEvent
<1>7. CASE StopEvent
  BY <1>1, <1>7, MessageStopEnds, MessagesJudged DEF StopEvent
<1> QED
  BY <1>2, <1>3, <1>4, <1>5, <1>6, <1>7

LEMMA JudgementsAreFindings ==
  ASSUME NEW t \in AnyChat, NEW fragment
  PROVE  Judgements(t, fragment) \subseteq Findings
<1>1. t.inlineThink \in ThinkModes
  BY DEF AnyChat
<1> QED
  BY <1>1 DEF Judgements, Findings, ThinkModes

LEMMA ChatStepsJudged ==
  ASSUME Judged, ChatChoice \/ ChatUsage \/ ChatError
  PROVE  Judged'
<1>1. ASSUME NEW next, TakeChat(next),
             ChatRun(conv) \/ ChatEnded(conv) => ChatRun(next) \/ ChatEnded(next)
      PROVE  Judged'
  <2>1. route = "chat" /\ TakeIn(next, NoBlock)
    BY <1>1 DEF TakeChat
  <2>2. ChatRun(conv) \/ ChatEnded(conv)
    BY <2>1 DEF TakeIn, Judged, ConvInOrder
  <2> QED
    BY <1>1, <2>1, <2>2, TakeInJudged
<1>2. CASE ChatChoice
  <2>0. PICK thinks \in BOOLEAN, finish \in BOOLEAN,
             fragment \in {<<>>} \cup (Calls \X BOOLEAN) :
               \E content \in {""} \cup Judgements(conv, fragment) :
                 TakeChat(PushChoice(conv, thinks, fragment, content, finish))
    BY <1>2 DEF ChatChoice
  <2>1. PICK content \in {""} \cup Judgements(conv, fragment) :
               TakeChat(PushChoice(conv, thinks, fragment, content, finish))
    BY <2>0
  <2>2. conv \in AnyChat => content \in {""} \cup Findings
    BY JudgementsAreFindings
  <2>3. ChatRun(conv) \/ ChatEnded(conv) => conv \in AnyChat
    BY DEF ChatRun, ChatEnded
  <2> QED
    BY <1>1, <2>1, <2>2, <2>3, PushChoiceEnds
<1>3. CASE ChatUsage
  BY <1>1, <1>3, PushUsageEnds DEF ChatUsage
<1>4. CASE ChatError
  <2>1. ChatRun(conv) \/ ChatEnded(conv) => ChatRun(EmitFailed(conv)) \/ ChatEnded(EmitFailed(conv))
    BY EmitFailedEnds DEF ChatRun, ChatEnded, EmitFailed
  <2> QED
    BY <1>1, <1>4, <2>1 DEF ChatError
<1> QED
  BY <1>2, <1>3, <1>4

LEMMA RawStepsJudged ==
  ASSUME Judged,
         RawItem \/ RawText \/ RawArguments \/ RawItemDone \/ RawEnd \/ RawDone \/ RawError
  PROVE  Judged'
<1>1. ASSUME NEW next, TakeRaw(next),
             RawEnds(conv) /\ RawCalls(conv) => RawEnds(next) /\ RawCalls(next)
      PROVE  Judged'
  <2>1. route = "raw" /\ TakeIn(next, NoBlock)
    BY <1>1 DEF TakeRaw
  <2>2. RawEnds(conv) /\ RawCalls(conv)
    BY <2>1 DEF TakeIn, Judged, ConvInOrder
  <2> QED
    BY <1>1, <2>1, <2>2, TakeInJudged
<1>2. CASE RawItem
  BY <1>1, <1>2, ItemAddedInOrder DEF RawItem, Live
<1>3. CASE RawText
  BY <1>1, <1>3, TextPassesInOrder DEF RawText, Live
<1>4. CASE RawArguments
  BY <1>1, <1>4, ArgumentsDeltaInOrder, ArgumentsDoneInOrder DEF RawArguments, Live
<1>5. CASE RawItemDone
  BY <1>1, <1>5, ItemDoneInOrder DEF RawItemDone, Live
<1>6. CASE RawEnd
  BY <1>1, <1>6, TerminalEventInOrder DEF RawEnd, Live, TurnOver
<1>7. CASE RawDone
  BY <1>1, <1>7, DonePassesInOrder DEF RawDone
<1>8. CASE RawError
  BY <1>1, <1>8, ErrorPassesInOrder DEF RawError, Live
<1> QED
  BY <1>2, <1>3, <1>4, <1>5, <1>6, <1>7, <1>8

\* A soft error: an overload is told as such, and the converter says no more.
LEMMA SoftEndTold ==
  ASSUME Judged, reader = "reading", ~upstreamDone, NEW k \in SoftKinds,
         NEW whole \in {TRUE, FALSE}, Detect(k, whole)
  PROVE  Judged'
<1>1. /\ kind' = k /\ conv' = SoftEnd(k, whole) /\ torn' = "" /\ reader' = "frames"
      /\ after' = "closing" /\ route' = route /\ block' = block /\ kind' # ""
      /\ kind' \in {"busy", "fatal"}
  BY DEF Detect, SoftKinds
<1>2. ConvInOrder /\ route \in Routes
  BY DEF Judged
<1> SUFFICES (NoEmptyHanded /\ ReportHonest /\ EndTold)'
  BY <1>1 DEF Judged
<1>3. CASE route = "messages"
  <2>1. MessagesRun(conv)
    BY <1>2, <1>3 DEF ConvInOrder, upstreamDone, MessagesEnded
  <2> DEFINE n == IF whole THEN MessagesError(conv) ELSE conv
             w == IF k = "busy" THEN Overloaded(conv.view) ELSE n.view
             u == [n EXCEPT !.view = w]
  <2>2. conv' = u
    BY <1>1, <1>3 DEF SoftEnd, OverloadedFirst
  <2>3. /\ n \in AnyMessages /\ (n.done \/ ~whole)
        /\ ~whole => ~n.done
        /\ n.view.ended # "completed"
        /\ whole => n.view.ended # "no" /\ n.view.over
    <3>1. CASE whole
      <4>1. MessagesEnded(n) /\ n = Fail(conv, conv.view)
        BY <2>1, <3>1, MessagesErrorEnds DEF MessagesError
      <4>2. n.terminalFailed
        BY <2>1, <4>1 DEF Fail, MessagesRun, AnyMessages
      <4> QED
        BY <3>1, <4>1, <4>2 DEF MessagesEnded
    <3>2. CASE ~whole
      BY <2>1, <3>2 DEF MessagesRun
    <3> QED
      BY <3>1, <3>2
  <2>4. /\ Overloaded(conv.view) \in AnyView /\ Overloaded(conv.view).over
        /\ Overloaded(conv.view).ended = "overloaded"
    BY <2>1, OverloadedEnds DEF MessagesRun, AnyMessages
  <2> HIDE DEF n
  <2>5. u.view = w /\ u.done = n.done
    BY <2>3 DEF AnyMessages
  <2>6. /\ k = "busy" => u.view.ended = "overloaded" /\ u.view.over
        /\ k # "busy" => u.view = n.view
    BY <2>4, <2>5
  <2> HIDE DEF u, w
  <2>7. u.view.ended # "completed"
    BY <2>3, <2>6
  <2>8. NoEmptyHanded' /\ ReportHonest'
    BY <1>1, <1>3, <2>2, <2>7 DEF NoEmptyHanded, ReportHonest
  <2>9. EndTold'
    BY <1>1, <1>3, <2>2, <2>3, <2>5, <2>6 DEF EndTold
  <2> QED
    BY <2>8, <2>9
<1>4. CASE route = "chat"
  <2>1. ChatRun(conv)
    BY <1>2, <1>4 DEF ConvInOrder, upstreamDone, ChatEnded
  <2> DEFINE e == EndTurn(conv.view, "error")
             w == IF k = "busy" THEN Overloaded(conv.view) ELSE Done(e)
             u == [conv EXCEPT !.view = w]
  <2>2. conv' = u
    BY <1>1, <1>4 DEF SoftEnd
  <2>3. conv \in AnyChat /\ conv.view \in AnyView /\ conv.view.ended = "no" /\ ~conv.view.over
    BY <2>1 DEF ChatRun, AnyChat
  <2>4. e \in AnyView /\ e.ended = "error"
    BY <2>3, EndTurnEnds DEF Endings
  <2> HIDE DEF e
  <2>5. w.over /\ w.ended = IF k = "busy" THEN "overloaded" ELSE "error"
    BY <2>3, <2>4, OverloadedEnds, DoneIsOver
  <2> HIDE DEF w
  <2>6. u.view = w
    BY <2>3 DEF AnyChat
  <2> HIDE DEF u
  <2>7. NoEmptyHanded' /\ ReportHonest'
    BY <1>1, <1>4, <2>2, <2>5, <2>6 DEF NoEmptyHanded, ReportHonest
  <2>8. EndTold'
    BY <1>1, <1>4, <2>2, <2>5, <2>6 DEF EndTold
  <2> QED
    BY <2>7, <2>8
<1>5. CASE route = "raw"
  <2>1. RawEnds(conv) /\ RawCalls(conv) /\ conv.view.ended = "no"
    BY <1>2, <1>5 DEF ConvInOrder, upstreamDone, Live
  <2>2. conv \in AnyRaw
    BY <2>1 DEF RawEnds
  <2> DEFINE e == ErrorPasses(conv)
             c == [conv EXCEPT !.cut = TRUE]
             o == [e EXCEPT !.view = Done(@)]
  <2>3. conv' = IF ~whole THEN Sent(c) ELSE IF k = "busy" THEN o ELSE e
    BY <1>1, <1>5 DEF SoftEnd, SoftErrorPasses
  <2>4. RawEnds(e) /\ RawCalls(e) /\ e.view.ended = "error"
    BY <2>1, ErrorPassesInOrder
  <2> HIDE DEF e
  <2>5. /\ RawCalls(Sent(c)) /\ Sent(c).view.ended = "no" /\ Sent(c).cut
    <3>1. /\ c \in AnyRaw /\ c.cut /\ c.view = conv.view
          /\ c.item = conv.item /\ c.at = conv.at /\ c.tracked = conv.tracked
          /\ c.executed = conv.executed /\ c.ran = conv.ran /\ c.listed = conv.listed
          /\ c.protocol = conv.protocol /\ c.bridges = conv.bridges /\ c.repairs = conv.repairs
      BY <2>2 DEF AnyRaw
    <3> HIDE DEF c
    <3>2. RawCalls(c)
      BY <2>1, <3>1 DEF RawCalls, CallInOrder, Degraded
    <3>3. Sent(c).cut /\ Sent(c).view = c.view
      BY <3>1 DEF Sent, AnyRaw
    <3> QED
      BY <2>1, <3>1, <3>2, <3>3, SentSame
  <2>6. RawCalls(o) /\ o.view.ended = "error" /\ o.view.over
    <3>1. e \in AnyRaw /\ e.view \in AnyView
      BY <2>4 DEF RawEnds, AnyRaw
    <3>2. o.view = Done(e.view) /\ Done(e.view).over /\ Done(e.view).ended = "error"
      BY <2>4, <3>1, DoneIsOver DEF AnyRaw
    <3>3. /\ o.item = e.item /\ o.at = e.at /\ o.tracked = e.tracked
          /\ o.executed = e.executed /\ o.ran = e.ran /\ o.listed = e.listed
          /\ o.protocol = e.protocol /\ o.bridges = e.bridges /\ o.repairs = e.repairs
      BY <3>1 DEF AnyRaw
    <3> HIDE DEF o
    <3> QED
      BY <2>4, <3>2, <3>3 DEF RawCalls, CallInOrder, Degraded
  <2> HIDE DEF c, o
  <2>7. RawCalls(conv') /\ conv'.view.ended \in {"no", "error"}
    BY <2>3, <2>4, <2>5, <2>6
  <2>8. conv'.cut \/ (conv'.view.ended = "error" /\ (k = "busy" => conv'.view.over))
    BY <2>3, <2>4, <2>5, <2>6
  <2>9. NoEmptyHanded'
    <3>1. ASSUME NEW i \in Own PROVE CallInOrder(conv', i)
      BY <2>7 DEF RawCalls
    <3> QED
      BY <1>1, <1>5, <2>7, <3>1 DEF NoEmptyHanded, CallInOrder, Degraded
  <2>10. ReportHonest'
    BY <1>1, <1>5, <2>7 DEF ReportHonest, TurnOver
  <2>11. EndTold'
    BY <1>1, <1>5, <2>8 DEF EndTold
  <2> QED
    BY <2>9, <2>10, <2>11
<1> QED
  BY <1>2, <1>3, <1>4, <1>5 DEF Routes

\* The end of the body of a stream that is converted.
LEMMA EndOfBodyJudged ==
  ASSUME Judged, EndOfBody
  PROVE  Judged'
<1>1. PICK err \in {"EOF", "cut"} :
        /\ reader = "reading" /\ route # "raw" /\ readErr' = err /\ conv' = Flushed
        /\ truncated' = Incomplete(Flushed, err) /\ torn' = "" /\ reader' = "frames"
        /\ after' = "closing" /\ route' = route /\ block' = block /\ kind' = kind
  BY DEF EndOfBody
<1>2. ConvInOrder /\ route \in Routes /\ kind = "" /\ (torn # "" => ~upstreamDone)
  BY <1>1 DEF Judged
<1> SUFFICES (NoEmptyHanded /\ ReportHonest /\ EndTold)'
  BY <1>1 DEF Judged
<1>3. CASE route = "messages"
  <2> DEFINE m == IF torn # "" /\ ~conv.done THEN MessagesError(conv) ELSE conv
  <2>1. MessagesRun(conv) \/ MessagesEnded(conv)
    BY <1>2, <1>3 DEF ConvInOrder
  <2>2. MessagesRun(m) \/ MessagesEnded(m)
    BY <2>1, MessagesErrorEnds DEF MessagesEnded
  <2>3. Flushed = SynthesizeTerminal(m)
    BY <1>3 DEF Flushed
  <2> HIDE DEF m
  <2>4. MessagesEnded(conv')
    BY <1>1, <2>2, <2>3, SynthesizeTerminalEnds
  <2>5. truncated' <=> (readErr' # "EOF" \/ ~conv'.sawMessageStop \/ conv'.terminalFailed)
    BY <1>1, <1>3 DEF Incomplete, protocolIncomplete
  <2>6. NoEmptyHanded'
    BY <1>1, <1>3, <2>4 DEF NoEmptyHanded, MessagesEnded
  <2>7. ReportHonest'
    BY <1>1, <1>2, <1>3, <2>4, <2>5 DEF ReportHonest, MessagesEnded
  <2>8. EndTold'
    BY <1>1, <1>2, <1>3, <2>4 DEF EndTold, MessagesEnded
  <2> QED
    BY <2>6, <2>7, <2>8
<1>4. CASE route = "chat"
  <2> DEFINE t == IF torn # "" THEN EmitFailed(conv) ELSE conv
  <2>1. ChatRun(conv) \/ ChatEnded(conv)
    BY <1>2, <1>4 DEF ConvInOrder
  <2>2. ChatRun(t) \/ ChatEnded(t)
    BY <2>1, EmitFailedEnds DEF ChatEnded, ChatRun, EmitFailed
  <2>3. Flushed = ChatFlush(t)
    BY <1>4 DEF Flushed
  <2> HIDE DEF t
  <2>4. ChatEnded(conv')
    BY <1>1, <2>2, <2>3, ChatFlushEnds
  <2>5. truncated' <=> (readErr' # "EOF" \/ ~conv'.sawFinishReason \/ conv'.terminalFailed)
    BY <1>1, <1>4 DEF Incomplete, protocolIncomplete
  <2>6. NoEmptyHanded'
    BY <1>1, <1>4, <2>4 DEF NoEmptyHanded, ChatEnded
  <2>7. ReportHonest'
    BY <1>1, <1>2, <1>4, <2>4, <2>5 DEF ReportHonest, ChatEnded
  <2>8. EndTold'
    BY <1>1, <1>2, <1>4, <2>4 DEF EndTold, ChatEnded
  <2> QED
    BY <2>6, <2>7, <2>8
<1> QED
  BY <1>1, <1>2, <1>3, <1>4 DEF Routes

\* [DONE] is made up for, unless an unfinished line would swallow it.
LEMMA DoneNetTold ==
  ASSUME NEW t \in AnyRaw, t.sawDone => t.view.over, NEW tail
  PROVE  LET u == DoneNet(t, tail)
         IN  /\ u.view.ended = t.view.ended
             /\ doneNet(t) /\ (tail # "line" \/ transformer(t)) => u.view.over
             /\ u.protocol = t.protocol /\ u.mentioned = t.mentioned /\ u.cut = t.cut
             /\ RawCalls(t) => RawCalls(u)
<1> DEFINE w == Done(t.view)
           u == [t EXCEPT !.view = w]
<1>1. t.view \in AnyView /\ w \in AnyView /\ w.over /\ w.ended = t.view.ended
  BY DoneIsOver DEF AnyRaw
<1>2. DoneNet(t, tail) =
        IF doneNet(t) /\ ~t.sawDone /\ (tail # "line" \/ transformer(t)) THEN u ELSE t
  BY DEF DoneNet
<1> HIDE DEF w
<1>3. /\ u.view = w /\ u.cut = t.cut /\ u.mentioned = t.mentioned
      /\ u.item = t.item /\ u.at = t.at /\ u.tracked = t.tracked
      /\ u.executed = t.executed /\ u.ran = t.ran /\ u.listed = t.listed
      /\ u.protocol = t.protocol /\ u.bridges = t.bridges /\ u.repairs = t.repairs
  BY DEF AnyRaw
<1> HIDE DEF u
<1>4. RawCalls(t) => RawCalls(u)
  BY <1>1, <1>3 DEF RawCalls, CallInOrder, Degraded
<1> QED
  BY <1>1, <1>2, <1>3, <1>4

\* What is flushed of a stream that is passed through, before [DONE] is made up for.
Flush(g, tail) ==
  /\ g \in AnyRaw /\ RawCalls(g)
  /\ g.sawDone => g.view.over
  /\ g.cut \/ tail # "line" \/ transformer(g)
  /\ ~g.mentioned /\ g.protocol # "chat" =>
       (g.sawData /\ g.seen <=> g.view.ended \in TurnOver)

\* A soft error that lacks its empty line is passed on by a transformer.
LEMMA TornErrorFlushes ==
  ASSUME NEW t, RawEnds(t), RawCalls(t), t.view.ended = "no", ~t.sawDone,
         NEW marker \in {TRUE, FALSE}
  PROVE  Flush(Sent([t EXCEPT !.seen = marker,
                              !.view = EndTurn(@, IF marker THEN "failed" ELSE "error")]),
               "event")
<1> DEFINE e == IF marker THEN "failed" ELSE "error"
           w == EndTurn(t.view, e)
           u == [t EXCEPT !.seen = marker, !.view = w]
           f == Sent(u)
<1>1. t \in AnyRaw /\ t.view \in AnyView /\ ~t.view.over
  BY DEF RawEnds, AnyRaw
<1>2. w \in AnyView /\ w.ended = e /\ w.over = t.view.over
  BY <1>1, EndTurnEnds DEF Endings
<1>3. e \in {"failed", "error"} /\ (e = "failed" <=> marker)
  OBVIOUS
<1> SUFFICES Flush(f, "event")
  OBVIOUS
<1> HIDE DEF w, e
<1>4. /\ u \in AnyRaw /\ u.view = w /\ u.seen = marker /\ u.mentioned = t.mentioned
      /\ u.sawDone = t.sawDone
      /\ u.protocol = t.protocol /\ u.repairs = t.repairs /\ u.bridges = t.bridges
      /\ u.item = t.item /\ u.at = t.at /\ u.tracked = t.tracked
      /\ u.executed = t.executed /\ u.ran = t.ran /\ u.listed = t.listed
  BY <1>1, <1>2 DEF AnyRaw
<1> HIDE DEF u
<1>5. RawCalls(u)
  BY <1>2, <1>3, <1>4 DEF RawCalls, CallInOrder, Degraded
<1>6. SameRaw(u, f) /\ RawCalls(f) /\ f.sawData
  BY <1>4, <1>5, SentSame DEF Sent, AnyRaw
<1> HIDE DEF f
<1>7. f \in AnyRaw /\ ~f.sawDone
  BY <1>4, <1>6 DEF SameRaw
<1>8. f.sawData /\ f.seen <=> f.view.ended \in TurnOver
  BY <1>2, <1>3, <1>4, <1>6 DEF SameRaw, TurnOver
<1> QED
  BY <1>6, <1>7, <1>8 DEF Flush

LEMMA LeftoverFlushes ==
  ASSUME NEW t, RawEnds(t), RawCalls(t), NEW tail \in {"", "name", "line"},
         NEW marker \in {TRUE, FALSE}, marker => tail # ""
  PROVE  Flush(Leftover(t, tail, marker), tail)
<1> DEFINE u == [t EXCEPT !.cut = TRUE, !.sawData = @ \/ tail = "line",
                          !.seen = @ \/ marker, !.mentioned = @ \/ marker]
<1>1. t \in AnyRaw
  BY DEF RawEnds
<1>2. Leftover(t, tail, marker) = IF tail = "" \/ transformer(t) THEN t ELSE u
  BY DEF Leftover
<1>3. CASE tail = "" \/ transformer(t)
  <2>1. tail # "line" \/ transformer(t)
    BY <1>3
  <2> QED
    BY <1>1, <1>2, <1>3, <2>1 DEF Flush, RawEnds
<1>4. CASE ~(tail = "" \/ transformer(t))
  <2>1. /\ u \in AnyRaw /\ u.cut /\ u.view = t.view /\ u.sawDone = t.sawDone
        /\ u.sawData = (t.sawData \/ tail = "line")
        /\ u.seen = (t.seen \/ marker) /\ u.mentioned = (t.mentioned \/ marker)
        /\ u.protocol = t.protocol /\ u.repairs = t.repairs /\ u.bridges = t.bridges
        /\ u.item = t.item /\ u.at = t.at /\ u.tracked = t.tracked
        /\ u.executed = t.executed /\ u.ran = t.ran /\ u.listed = t.listed
    BY <1>1 DEF AnyRaw
  <2> HIDE DEF u
  <2>2. RawCalls(u)
    BY <2>1 DEF RawCalls, CallInOrder, Degraded
  <2>3. u.sawDone => u.view.over
    BY <2>1 DEF RawEnds
  <2>4. ~u.mentioned /\ u.protocol # "chat" =>
          (u.sawData /\ u.seen <=> u.view.ended \in TurnOver)
    BY <2>1 DEF RawEnds
  <2>5. Flush(u, tail)
    BY <2>1, <2>2, <2>3, <2>4 DEF Flush
  <2> QED
    BY <1>2, <1>4, <2>5
<1> QED
  BY <1>3, <1>4

\* The end of the body of a stream that is passed through.
LEMMA RawEndOfBodyJudged ==
  ASSUME Judged, RawEndOfBody
  PROVE  Judged'
<1>1. PICK err \in {"EOF", "cut"}, tail \in {"", "name", "line", "event"},
           marker \in {TRUE, FALSE} :
        /\ reader = "reading" /\ route = "raw"
        /\ tail = "event" => torn # "" /\ transformer(conv)
        /\ marker => tail # ""
        /\ conv' = DoneNet(RawFlushed(tail, marker), tail)
        /\ truncated' = RawTruncated(RawFlushed(tail, marker), err)
        /\ readErr' = err /\ torn' = "" /\ reader' = "frames" /\ after' = "closing"
        /\ route' = route /\ block' = block /\ kind' = kind
  BY DEF RawEndOfBody
<1>2. RawEnds(conv) /\ RawCalls(conv) /\ kind = "" /\ (torn # "" => ~upstreamDone)
  BY <1>1 DEF Judged, ConvInOrder
<1> DEFINE f == RawFlushed(tail, marker)
<1>3. Flush(f, tail)
  <2>1. CASE tail = "event"
    <3>1. conv.view.ended = "no" /\ ~conv.sawDone
      BY <1>1, <1>2, <2>1 DEF upstreamDone, Live
    <3> QED
      BY <1>2, <2>1, <3>1, TornErrorFlushes DEF RawFlushed
  <2>2. CASE tail # "event"
    <3>1. tail \in {"", "name", "line"}
      BY <2>2
    <3> QED
      BY <1>1, <1>2, <2>2, <3>1, LeftoverFlushes DEF RawFlushed
  <2> QED
    BY <2>1, <2>2
<1>4. conv' = DoneNet(f, tail) /\ truncated' = RawTruncated(f, err)
  BY <1>1
<1> HIDE DEF f
<1>5. /\ conv'.view.ended = f.view.ended
      /\ doneNet(f) /\ (tail # "line" \/ transformer(f)) => conv'.view.over
      /\ conv'.protocol = f.protocol /\ conv'.mentioned = f.mentioned /\ conv'.cut = f.cut
      /\ RawCalls(conv')
  BY <1>3, <1>4, DoneNetTold DEF Flush
<1> SUFFICES (NoEmptyHanded /\ ReportHonest /\ EndTold)'
  BY <1>1 DEF Judged
<1>6. NoEmptyHanded'
  <2>1. ASSUME NEW i \in Own PROVE CallInOrder(conv', i)
    BY <1>5 DEF RawCalls
  <2> QED
    BY <1>1, <2>1 DEF NoEmptyHanded, CallInOrder, Degraded
<1>7. ReportHonest'
  <2>1. ~truncated' <=> f.sawData /\ err = "EOF" /\ f.seen
    BY <1>4 DEF RawTruncated
  <2> QED
    BY <1>1, <1>2, <1>3, <1>5, <2>1 DEF ReportHonest, Flush
<1>8. EndTold'
  BY <1>1, <1>2, <1>3, <1>5 DEF EndTold, Flush, doneNet
<1> QED
  BY <1>6, <1>7, <1>8

LEMMA NextJudged == Judged /\ [Next]_vars => Judged'
<1> SUFFICES ASSUME Judged, [Next]_vars PROVE Judged'
  OBVIOUS
\* The steps that leave the converter alone.
<1>1. ASSUME UNCHANGED <<conv, route>>
      PROVE  /\ NoEmptyHanded' /\ (ConvInOrder' <=> ConvInOrder)
             /\ upstreamDone' <=> upstreamDone
             /\ UNCHANGED result => (ReportHonest' <=> ReportHonest) /\ (EndTold' <=> EndTold)
  <2>1. NoEmptyHanded' <=> NoEmptyHanded
    BY <1>1 DEF NoEmptyHanded
  <2>2. ConvInOrder' <=> ConvInOrder
    BY <1>1 DEF ConvInOrder
  <2>3. upstreamDone' <=> upstreamDone
    BY <1>1 DEF upstreamDone, Live
  <2>4. UNCHANGED result => (ReportHonest' <=> ReportHonest)
    BY <1>1 DEF ReportHonest, result
  <2>5. UNCHANGED result => (EndTold' <=> EndTold)
    BY <1>1 DEF EndTold, result
  <2> QED
    BY <2>1, <2>2, <2>3, <2>4, <2>5 DEF Judged
<1>2. CASE SoftError
  BY <1>2, SoftEndTold DEF SoftError
<1>3. CASE SoftErrorWhole
  <2>1. ~upstreamDone /\ torn \in SoftKinds
    BY <1>3 DEF SoftErrorWhole, Judged
  <2> QED
    BY <1>3, <2>1, SoftEndTold DEF SoftErrorWhole
<1>4. CASE SoftErrorTorn
  <2>1. /\ UNCHANGED <<conv, route, block, reader, after, gone>> /\ UNCHANGED result
        /\ kind' = kind
        /\ reader = "reading" /\ ~upstreamDone /\ torn' \in SoftKinds
    BY <1>4 DEF SoftErrorTorn, result, beside
  <2> QED
    BY <1>1, <2>1 DEF Judged
<1>5. CASE Lock
  BY <1>1, <1>5 DEF Lock, Judged, upstream, result, beside
<1>6. CASE Unlock
  BY <1>1, <1>6 DEF Unlock, Judged, upstream, result
<1>7. CASE WriteFails
  BY <1>1, <1>7 DEF WriteFails, Judged, upstream, beside
<1>8. CASE Return
  BY <1>1, <1>8 DEF Return, Judged, upstream, result, beside
<1>9. CASE Keepalive
  <2>1. /\ UNCHANGED <<conv, route, block, torn, reader, after, gone>> /\ UNCHANGED result
        /\ kind' = kind
    BY <1>9 DEF Keepalive, Tick, KeepaliveLock, KeepaliveUnlock, KeepaliveStop, upstream, result
  <2> QED
    BY <1>1, <2>1 DEF Judged
<1>10. CASE ClientLeaves
  <2>1. /\ UNCHANGED <<conv, route, block, torn, reader, after>> /\ UNCHANGED result
        /\ kind' = kind /\ gone'
    BY <1>10 DEF ClientLeaves, upstream, result
  <2> QED
    BY <1>1, <2>1 DEF Judged
<1>11. CASE UNCHANGED vars
  <2>1. /\ UNCHANGED <<conv, route, block, torn, reader, after, gone>> /\ UNCHANGED result
        /\ kind' = kind
    BY <1>11 DEF vars, result
  <2> QED
    BY <1>1, <2>1 DEF Judged
<1> QED
  BY <1>2, <1>3, <1>4, <1>5, <1>6, <1>7, <1>8, <1>9, <1>10, <1>11,
     MessagesStepsJudged, ChatStepsJudged, RawStepsJudged, EndOfBodyJudged,
     RawEndOfBodyJudged DEF Next

\* The monitor is told of a success exactly if the client was told that its turn is
\* complete: what streamSSEAdapted, streamSSEChatChained and streamSSEUsage return
\* agrees with what their converters wrote.
THEOREM ReportIsHonest == Spec => []HonestReport
<1>1. Judged => HonestReport
  <2> SUFFICES ASSUME Judged, reader = "returned", ~gone PROVE ReportHonest
    BY DEF HonestReport, ReportHonest, TurnOver
  <2> QED
    BY DEF Judged
<1> QED
  BY InitJudged, NextJudged, <1>1, PTL DEF Spec

\* A client that stays is told how its turn ended and that its stream is over.
THEOREM EveryTurnEnds == Spec => []TurnEnds
<1>1. Judged => TurnEnds
  <2> SUFFICES ASSUME Judged, reader = "returned", ~gone PROVE EndTold
    BY DEF TurnEnds, EndTold
  <2> QED
    BY DEF Judged
<1> QED
  BY InitJudged, NextJudged, <1>1, PTL DEF Spec

\* No turn is completed without the tool call that upstream wanted; in a stream that is
\* passed through every call is run once and listed for what it is.
THEOREM NobodyEmptyHanded == Spec => []NoEmptyHanded
<1>1. Judged => NoEmptyHanded
  BY DEF Judged
<1> QED
  BY InitJudged, NextJudged, <1>1, PTL DEF Spec

-----------------------------------------------------------------------------
(* What the client has been told *)

Typed ==
  /\ reader \in {"reading", "frames", "writing", "closing", "returned"}
  /\ kind \in SoftKinds \cup {""}
  /\ truncated \in BOOLEAN
  /\ readErr \in {"", "EOF", "cut"}
  /\ thinking \in BOOLEAN
  /\ keepalive \in {"waiting", "ticked", "writing", "dead"}
  /\ gone \in BOOLEAN

\* What holds of a converter to the end, and beyond it.
ConvTold ==
  /\ route = "messages" => MessagesTold(conv)
  /\ route = "chat" => ChatTold(conv)
  /\ route = "raw" => RawWell(conv)

\* What a converter needs to go on: its indices, items and parts fit together, for the
\* block that upstream has open.
ConvShaped ==
  /\ route = "messages" /\ ~conv.done => MessagesShape(conv, block)
  /\ route = "chat" => ChatWell(conv)

Shaped == Typed /\ ConvTold /\ (after = "reading" => ConvShaped)

LEMMA NoBlockIsNone == NoBlock \notin Blocks
BY MessagesAssumption DEF NoBlock

LEMMA InitShaped == Init => Shaped
<1> SUFFICES ASSUME Init PROVE Shaped
  OBVIOUS
<1>1. Typed
  BY DEF Init, Typed
<1>2. CASE route = "messages"
  <2>1. conv = NewMessages /\ block = NoBlock
    BY <1>2 DEF Init
  <2>2. MessagesShape(NewMessages, NoBlock) /\ MessagesTold(NewMessages)
    BY NewMessagesRuns, NewMessagesShape, ShapeTold, NoBlockIsNone
  <2> QED
    BY <1>1, <1>2, <2>1, <2>2 DEF Shaped, ConvTold, ConvShaped
<1>3. CASE route = "chat"
  <2>1. conv = NewChat
    BY <1>3 DEF Init
  <2>2. ChatRun(NewChat) /\ ChatShape(NewChat) /\ ChatTold(NewChat)
    BY NewChatRuns, NewChatShape, ChatRunReads, ChatShapeTold
  <2>3. ~NewChat.finishPending
    BY DEF NewChat
  <2>4. ChatWell(NewChat)
    BY <2>2, <2>3 DEF ChatWell
  <2> QED
    BY <1>1, <1>3, <2>1, <2>2, <2>4 DEF Shaped, ConvTold, ConvShaped
<1>4. CASE route = "raw"
  <2>1. conv \in RawStates0
    BY <1>4 DEF Init
  <2>2. conv \in AnyRaw /\ RawCalls(conv) /\ RawShape(conv)
    BY <2>1, NewRawInOrder, NewRawShape DEF RawEnds
  <2>3. RawWell(conv)
    BY <2>2, ShapeIsWell
  <2> QED
    BY <1>1, <1>4, <2>3 DEF Shaped, ConvTold, ConvShaped
<1>5. route \in Routes
  BY DEF Init
<1> QED
  BY <1>2, <1>3, <1>4, <1>5 DEF Routes

\* An event that is taken in touches nothing beside the converter.
LEMMA TakeInShaped ==
  ASSUME Judged, Shaped, NEW next, NEW open, TakeIn(next, open),
         \/ /\ route = "messages" /\ MessagesTold(next)
            /\ ~next.done => MessagesShape(next, open)
         \/ route = "chat" /\ ChatWell(next)
         \/ route = "raw" /\ RawWell(next)
  PROVE  Shaped'
<1>1. /\ conv' = next /\ block' = open /\ reader' = "frames" /\ route' = route
      /\ kind' = kind /\ truncated' = truncated /\ readErr' = readErr
      /\ thinking' = thinking /\ keepalive' = keepalive /\ gone' = gone
  BY DEF TakeIn, result, beside
<1>2. Typed'
  BY <1>1 DEF Shaped, Typed
<1>3. ConvTold'
  BY <1>1 DEF ConvTold, ChatWell
<1>4. ConvShaped'
  BY <1>1 DEF ConvShaped
<1> QED
  BY <1>2, <1>3, <1>4 DEF Shaped

LEMMA MessagesTaken ==
  ASSUME Judged, Shaped, NEW next, NEW open, TakeMessages(next, open),
         MessagesRun(conv) /\ MessagesShape(conv, block) =>
           MessagesTold(next) /\ (~next.done => MessagesShape(next, open))
  PROVE  Shaped'
<1> DEFINE n == IF conv.done THEN conv ELSE next
<1>1. route = "messages" /\ TakeIn(n, open)
  BY DEF TakeMessages
<1>2. after = "reading"
  BY <1>1 DEF TakeIn, Judged
<1>3. /\ MessagesRun(conv) \/ MessagesEnded(conv)
      /\ MessagesTold(conv) /\ (~conv.done => MessagesShape(conv, block))
  BY <1>1, <1>2 DEF Judged, ConvInOrder, Shaped, ConvTold, ConvShaped
<1>4. MessagesTold(n) /\ (~n.done => MessagesShape(n, open))
  BY <1>3 DEF MessagesEnded
<1> HIDE DEF n
<1> QED
  BY <1>1, <1>4, TakeInShaped

LEMMA MessagesStepsShaped ==
  ASSUME Judged, Shaped,
         \/ StartBlock \/ TextDeltaEvent \/ InputDeltaEvent \/ StopBlock \/ ErrorEvent
         \/ StopEvent
  PROVE  Shaped'
<1>1. block \in Blocks \cup {NoBlock} /\ NoBlock \notin Blocks
  BY NoBlockIsNone DEF Judged
<1>2. CASE StartBlock
  <2>1. PICK b \in Blocks :
          /\ block = NoBlock /\ conv.blockType[b] = ""
          /\ \E sort \in BlockSorts : TakeMessages(BlockStart(conv, b, sort), b)
    BY <1>2 DEF StartBlock, Fresh
  <2>2. PICK sort \in BlockSorts : TakeMessages(BlockStart(conv, b, sort), b)
    BY <2>1
  <2> DEFINE next == BlockStart(conv, b, sort)
  <2>3. Unstarted(conv, b) /\ block \notin Blocks
    BY <1>1, <2>1 DEF Unstarted
  <2>4. ASSUME MessagesRun(conv), MessagesShape(conv, block)
        PROVE  MessagesTold(next) /\ MessagesShape(next, b)
    <3>1. MessagesRun(next) /\ MessagesShape(next, b)
      BY <2>3, <2>4, BlockStartRuns, BlockStartShape
    <3> HIDE DEF next
    <3> QED
      BY <3>1, ShapeTold
  <2> QED
    BY <2>2, <2>4, MessagesTaken
<1>3. CASE TextDeltaEvent
  <2>1. PICK b \in Blocks :
          /\ b = block \/ (block = NoBlock /\ conv.blockType[b] = "")
          /\ \E piece : TakeMessages(TextArrives(conv, b, piece), block)
    BY <1>3 DEF TextDeltaEvent
  <2>2. PICK piece : TakeMessages(TextArrives(conv, b, piece), block)
    BY <2>1
  <2> DEFINE next == TextArrives(conv, b, piece)
  <2>3. b = block \/ (block \notin Blocks /\ Unstarted(conv, b))
    BY <1>1, <2>1 DEF Unstarted
  <2>4. ASSUME MessagesRun(conv), MessagesShape(conv, block)
        PROVE  MessagesTold(next) /\ MessagesShape(next, block)
    <3>1. MessagesRun(next) /\ MessagesShape(next, block)
      BY <2>3, <2>4, TextArrivesRuns, TextArrivesShape
    <3> HIDE DEF next
    <3> QED
      BY <3>1, ShapeTold
  <2> QED
    BY <2>2, <2>4, MessagesTaken
<1>4. CASE InputDeltaEvent
  <2> DEFINE next == InputArrives(conv, block)
  <2>1. block \in Blocks /\ TakeMessages(next, block)
    BY <1>1, <1>4 DEF InputDeltaEvent
  <2>2. ASSUME MessagesRun(conv), MessagesShape(conv, block)
        PROVE  MessagesTold(next) /\ MessagesShape(next, block)
    <3>1. MessagesRun(next) /\ MessagesShape(next, block)
      BY <2>1, <2>2, InputArrivesRuns, InputArrivesShape
    <3> HIDE DEF next
    <3> QED
      BY <3>1, ShapeTold
  <2> QED
    BY <2>1, <2>2, MessagesTaken
<1>5. CASE StopBlock
  <2> DEFINE next == BlockStop(conv, block)
  <2>1. block \in Blocks /\ TakeMessages(next, NoBlock)
    BY <1>1, <1>5 DEF StopBlock
  <2>2. ASSUME MessagesRun(conv), MessagesShape(conv, block)
        PROVE  MessagesTold(next) /\ MessagesShape(next, NoBlock)
    <3>1. MessagesRun(next) /\ MessagesShape(next, NoBlock)
      BY <1>1, <2>1, <2>2, BlockStopRuns, BlockStopShape
    <3> HIDE DEF next
    <3> QED
      BY <3>1, ShapeTold
  <2> QED
    BY <2>1, <2>2, MessagesTaken
<1>6. CASE ErrorEvent
  <2> DEFINE next == MessagesError(conv)
  <2>1. TakeMessages(next, block)
    BY <1>6 DEF ErrorEvent
  <2>2. ASSUME MessagesRun(conv), MessagesShape(conv, block)
        PROVE  MessagesTold(next) /\ next.done
    BY <2>2, MessagesErrorTold, MessagesErrorEnds DEF MessagesEnded
  <2> HIDE DEF next
  <2> QED
    BY <2>1, <2>2, MessagesTaken
<1>7. CASE StopEvent
  <2> DEFINE next == MessageStop(conv)
  <2>1. block \notin Blocks /\ TakeMessages(next, NoBlock)
    BY <1>1, <1>7 DEF StopEvent
  <2>2. ASSUME MessagesRun(conv), MessagesShape(conv, block)
        PROVE  MessagesTold(next) /\ next.done
    BY <2>1, <2>2, MessageStopTold, MessageStopEnds DEF MessagesEnded
  <2> HIDE DEF next
  <2> QED
    BY <2>1, <2>2, MessagesTaken
<1> QED
  BY <1>2, <1>3, <1>4, <1>5, <1>6, <1>7

LEMMA ChatStepsShaped ==
  ASSUME Judged, Shaped, ChatChoice \/ ChatUsage \/ ChatError
  PROVE  Shaped'
<1>1. ASSUME NEW next, TakeChat(next),
             (ChatRun(conv) \/ ChatEnded(conv)) /\ ChatWell(conv) => ChatWell(next)
      PROVE  Shaped'
  <2>1. route = "chat" /\ TakeIn(next, NoBlock)
    BY <1>1 DEF TakeChat
  <2>2. (ChatRun(conv) \/ ChatEnded(conv)) /\ ChatWell(conv)
    BY <2>1 DEF TakeIn, Judged, ConvInOrder, Shaped, ConvShaped
  <2> QED
    BY <1>1, <2>1, <2>2, TakeInShaped
<1>2. CASE ChatChoice
  <2>0. PICK thinks \in BOOLEAN, finish \in BOOLEAN,
             fragment \in {<<>>} \cup (Calls \X BOOLEAN) :
               \E content \in {""} \cup Judgements(conv, fragment) :
                 TakeChat(PushChoice(conv, thinks, fragment, content, finish))
    BY <1>2 DEF ChatChoice
  <2>1. PICK content \in {""} \cup Judgements(conv, fragment) :
               TakeChat(PushChoice(conv, thinks, fragment, content, finish))
    BY <2>0
  <2>2. conv \in AnyChat => content \in {""} \cup Findings
    BY JudgementsAreFindings
  <2>3. ChatRun(conv) \/ ChatEnded(conv) => conv \in AnyChat
    BY DEF ChatRun, ChatEnded
  <2> QED
    BY <1>1, <2>1, <2>2, <2>3, PushChoiceWell
<1>3. CASE ChatUsage
  BY <1>1, <1>3, PushUsageWell DEF ChatUsage
<1>4. CASE ChatError
  BY <1>1, <1>4, EmitFailedWell DEF ChatError
<1> QED
  BY <1>2, <1>3, <1>4

LEMMA RawStepsShaped ==
  ASSUME Judged, Shaped,
         RawItem \/ RawText \/ RawArguments \/ RawItemDone \/ RawEnd \/ RawDone \/ RawError
  PROVE  Shaped'
<1> DEFINE Well == RawEnds(conv) /\ RawCalls(conv) /\ RawWell(conv)
<1>1. ASSUME NEW next, TakeRaw(next), Well => RawWell(next)
      PROVE  Shaped'
  <2>1. route = "raw" /\ TakeIn(next, NoBlock)
    BY <1>1 DEF TakeRaw
  <2>2. Well
    BY <2>1 DEF TakeIn, Judged, ConvInOrder, Shaped, ConvTold
  <2> HIDE DEF Well
  <2> QED
    BY <1>1, <2>1, <2>2, TakeInShaped
<1>2. Well /\ conv.view.ended = "no" => RawShape(conv)
  BY WellRaw
<1>3. ASSUME NEW next, RawEnds(next), RawCalls(next), RawShape(next) PROVE RawWell(next)
  BY <1>3, ShapeIsWell DEF RawEnds
<1>4. CASE RawItem
  <2>1. ASSUME NEW i \in Own, NEW sort \in ItemKinds, conv.view.ended = "no",
               conv.at[i] = "none", sort # "plain" => conv.protocol = "responses",
               TakeRaw(ItemAdded(conv, i, sort))
        PROVE  Shaped'
    <3> DEFINE next == ItemAdded(conv, i, sort)
    <3>1. ASSUME Well PROVE RawEnds(next) /\ RawCalls(next) /\ RawShape(next)
      BY <1>2, <2>1, <3>1, ItemAddedInOrder, ItemAddedShape
    <3> HIDE DEF next, Well
    <3>2. Well => RawWell(next)
      BY <1>3, <3>1
    <3> QED
      BY <1>1, <2>1, <3>2 DEF next
  <2> QED
    BY <1>4, <2>1 DEF RawItem, Live
<1>5. CASE RawText
  <2>1. ASSUME NEW i \in Own, NEW mention \in {TRUE, FALSE}, conv.view.ended = "no",
               conv.at[i] = "added", TakeRaw(TextPasses(conv, i, mention))
        PROVE  Shaped'
    <3> DEFINE next == TextPasses(conv, i, mention)
    <3>1. ASSUME Well PROVE RawEnds(next) /\ RawCalls(next) /\ RawShape(next)
      BY <1>2, <2>1, <3>1, TextPassesInOrder, DeltaPassesShape
    <3> HIDE DEF next, Well
    <3>2. Well => RawWell(next)
      BY <1>3, <3>1
    <3> QED
      BY <1>1, <2>1, <3>2 DEF next
  <2> QED
    BY <1>5, <2>1 DEF RawText, Live
<1>6. CASE RawArguments
  <2>1. ASSUME NEW i \in Own, NEW outcome \in Outcomes, conv.view.ended = "no",
               conv.at[i] = "added",
               NEW next \in {ArgumentsDelta(conv, i), ArgumentsDone(conv, i, outcome)},
               TakeRaw(next)
        PROVE  Shaped'
    <3>1. ASSUME Well PROVE RawEnds(next) /\ RawCalls(next) /\ RawShape(next)
      BY <1>2, <2>1, <3>1, ArgumentsDeltaInOrder, ArgumentsDoneInOrder, DeltaPassesShape,
         ArgumentsDoneShape
    <3> HIDE DEF Well
    <3>2. Well => RawWell(next)
      BY <1>3, <3>1
    <3> QED
      BY <1>1, <2>1, <3>2
  <2> QED
    BY <1>6, <2>1 DEF RawArguments, Live
<1>7. CASE RawItemDone
  <2>1. ASSUME NEW i \in Own, NEW outcome \in Outcomes, conv.view.ended = "no",
               conv.at[i] \in {"added", "argued"}, TakeRaw(ItemDone(conv, i, outcome))
        PROVE  Shaped'
    <3> DEFINE next == ItemDone(conv, i, outcome)
    <3>1. ASSUME Well PROVE RawEnds(next) /\ RawCalls(next) /\ RawShape(next)
      BY <1>2, <2>1, <3>1, ItemDoneInOrder, ItemDoneShape
    <3> HIDE DEF next, Well
    <3>2. Well => RawWell(next)
      BY <1>3, <3>1
    <3> QED
      BY <1>1, <2>1, <3>2 DEF next
  <2> QED
    BY <1>7, <2>1 DEF RawItemDone, Live
<1>8. CASE RawEnd
  <2>1. ASSUME NEW how \in TurnOver, NEW outcome \in [Own -> Outcomes],
               conv.view.ended = "no",
               how = "completed" => \A i \in Own : conv.at[i] \in {"none", "done"},
               TakeRaw(TerminalEvent(conv, how, outcome))
        PROVE  Shaped'
    <3>1. Well => RawWell(TerminalEvent(conv, how, outcome))
      BY <2>1, TerminalEventWell
    <3> HIDE DEF Well
    <3> QED
      BY <1>1, <2>1, <3>1
  <2> QED
    BY <1>8, <2>1 DEF RawEnd, Live, TurnOver
<1>9. CASE RawDone
  BY <1>1, <1>9, DonePassesWell DEF RawDone
<1>10. CASE RawError
  BY <1>1, <1>10, ErrorPassesWell DEF RawError, Live
<1> QED
  BY <1>4, <1>5, <1>6, <1>7, <1>8, <1>9, <1>10

\* A step after which the relay only has to write and to return.
LEMMA ClosingShaped ==
  ASSUME Typed, ConvTold', after' = "closing", reader' = "frames",
         kind' \in SoftKinds \cup {""}, truncated' \in BOOLEAN,
         readErr' \in {"", "EOF", "cut"}, UNCHANGED beside
  PROVE  Shaped'
BY DEF Shaped, Typed, beside

\* What a soft error leaves of the converter has told the client nothing new.
LEMMA SoftEndShaped ==
  ASSUME Judged, Shaped, reader = "reading", ~upstreamDone, NEW k \in SoftKinds,
         NEW whole \in {TRUE, FALSE}, Detect(k, whole)
  PROVE  Shaped'
<1>1. /\ kind' = k /\ conv' = SoftEnd(k, whole) /\ reader' = "frames" /\ after' = "closing"
      /\ route' = route /\ truncated' = truncated /\ readErr' = readErr /\ UNCHANGED beside
      /\ route \in Routes /\ ConvInOrder /\ after = "reading"
  BY DEF Detect, Judged
<1>2. Typed /\ ConvTold /\ ConvShaped
  BY <1>1 DEF Shaped
<1> SUFFICES ConvTold'
  BY <1>1, <1>2, ClosingShaped DEF Typed
<1>3. CASE route = "messages"
  <2>1. MessagesRun(conv) /\ MessagesTold(conv) /\ MessagesShape(conv, block)
    BY <1>1, <1>2, <1>3 DEF ConvInOrder, upstreamDone, MessagesEnded, ConvTold, ConvShaped
  <2> DEFINE n == IF whole THEN MessagesError(conv) ELSE conv
             w == IF k = "busy" THEN Overloaded(conv.view) ELSE n.view
             u == [n EXCEPT !.view = w]
  <2>2. conv' = u
    BY <1>1, <1>3 DEF SoftEnd, OverloadedFirst
  <2>3. Reading(conv.view) /\ conv \in AnyMessages
    BY <2>1 DEF MessagesRun, AnyMessages, Reading
  <2>4. n \in AnyMessages /\ MessagesTold(n) /\ SameConverter(conv, n)
    <3>1. MessagesError(conv) \in AnyMessages /\ MessagesTold(MessagesError(conv))
      BY <2>1, MessagesErrorEnds, MessagesErrorTold DEF MessagesEnded
    <3>2. SameConverter(conv, MessagesError(conv)) /\ SameConverter(conv, conv)
      BY <2>3 DEF MessagesError, Fail, SameConverter, AnyMessages
    <3> QED
      BY <2>1, <2>3, <3>1, <3>2
  <2> HIDE DEF n
  <2>5. CASE k = "busy"
    <3>1. /\ w \in AnyView /\ w.parts = conv.view.parts /\ w.faults = conv.view.faults
      BY <2>3, <2>5, OverloadedIsQuiet
    <3> HIDE DEF w
    <3>2. u \in AnyMessages /\ u.view = w /\ SameConverter(n, u)
      BY <2>4, <3>1 DEF AnyMessages, SameConverter
    <3> HIDE DEF u
    <3>3. SameConverter(conv, u)
      BY <2>4, <3>2 DEF SameConverter
    <3>4. u.view.faults \subseteq {<<"unannounced", conv.messageIndex>>}
      BY <2>1, <3>1, <3>2 DEF MessagesTold
    <3>5. MessagesTold(u)
      BY <2>1, <3>1, <3>2, <3>3, <3>4, SameToldMessages
    <3> QED
      BY <1>1, <1>3, <2>2, <3>5 DEF ConvTold
  <2>6. CASE k # "busy"
    <3>1. u = n
      BY <2>4, <2>6 DEF AnyMessages
    <3> QED
      BY <1>1, <1>3, <2>2, <2>4, <3>1 DEF ConvTold
  <2> QED
    BY <2>5, <2>6
<1>4. CASE route = "chat"
  <2>1. ChatRun(conv) /\ ChatTold(conv)
    BY <1>1, <1>2, <1>4 DEF ConvInOrder, upstreamDone, ChatEnded, ConvTold
  <2> DEFINE w == IF k = "busy" THEN Overloaded(conv.view)
                  ELSE Done(EndTurn(conv.view, "error"))
             u == [conv EXCEPT !.view = w]
  <2>2. conv' = u
    BY <1>1, <1>4 DEF SoftEnd
  <2>3. conv \in AnyChat /\ Reading(conv.view)
    BY <2>1, ChatRunReads DEF ChatReads
  <2>4. /\ w \in AnyView /\ w.items = conv.view.items /\ w.parts = conv.view.parts
        /\ w.faults = conv.view.faults
    BY <2>3, OverloadedIsQuiet, UncompletedTold
  <2> HIDE DEF w
  <2>5. u \in AnyChat /\ u.view = w /\ SameCalls(conv, u)
    BY <2>3, <2>4 DEF AnyChat, SameCalls
  <2> HIDE DEF u
  <2>6. ChatTold(u)
    BY <2>1, <2>4, <2>5, SameToldChat
  <2> QED
    BY <1>1, <1>4, <2>2, <2>6 DEF ConvTold
<1>5. CASE route = "raw"
  <2>1. RawEnds(conv) /\ RawCalls(conv) /\ RawWell(conv) /\ conv.view.ended = "no"
    BY <1>1, <1>2, <1>5 DEF ConvInOrder, upstreamDone, Live, ConvTold
  <2>2. conv' = SoftErrorPasses(conv, k, whole)
    BY <1>1, <1>5 DEF SoftEnd
  <2>3. RawWell(conv')
    BY <2>1, <2>2, SoftErrorWell
  <2> QED
    BY <1>1, <1>5, <2>3 DEF ConvTold
<1> QED
  BY <1>1, <1>3, <1>4, <1>5 DEF Routes

LEMMA EndOfBodyShaped ==
  ASSUME Judged, Shaped, EndOfBody
  PROVE  Shaped'
<1>1. PICK err \in {"EOF", "cut"} :
        /\ reader = "reading" /\ route # "raw" /\ readErr' = err /\ conv' = Flushed
        /\ truncated' = Incomplete(Flushed, err) /\ reader' = "frames"
        /\ after' = "closing" /\ route' = route /\ kind' = kind /\ UNCHANGED beside
  BY DEF EndOfBody
<1>2. /\ route \in Routes /\ ConvInOrder /\ after = "reading" /\ (torn # "" => ~upstreamDone)
  BY <1>1 DEF Judged
<1>3. Typed /\ ConvTold /\ ConvShaped
  BY <1>2 DEF Shaped
<1>4. truncated' \in BOOLEAN
  BY <1>1 DEF Incomplete
<1> SUFFICES ConvTold'
  BY <1>1, <1>3, <1>4, ClosingShaped DEF Typed
<1>5. CASE route = "messages"
  <2>1. MessagesTold(conv) /\ (~conv.done => MessagesRun(conv) /\ MessagesShape(conv, block))
    BY <1>2, <1>3, <1>5 DEF ConvInOrder, MessagesEnded, ConvTold, ConvShaped
  <2>2. Flushed = SynthesizeTerminal(IF torn # "" /\ ~conv.done THEN MessagesError(conv) ELSE conv)
    BY <1>5 DEF Flushed
  <2>3. ASSUME NEW m, m.done PROVE SynthesizeTerminal(m) = m
    BY <2>3 DEF SynthesizeTerminal
  <2>4. CASE conv.done
    BY <1>1, <1>5, <2>1, <2>2, <2>3, <2>4 DEF ConvTold
  <2>5. CASE ~conv.done /\ torn # ""
    <3>1. MessagesError(conv).done /\ MessagesTold(MessagesError(conv))
      BY <2>1, <2>5, MessagesErrorTold, MessagesErrorEnds DEF MessagesEnded
    <3>2. conv' = MessagesError(conv)
      BY <1>1, <2>2, <2>3, <2>5, <3>1
    <3> QED
      BY <1>1, <1>5, <3>1, <3>2 DEF ConvTold
  <2>6. CASE ~conv.done /\ torn = ""
    BY <1>1, <1>5, <2>1, <2>2, <2>6, SynthesizeTerminalTold DEF ConvTold
  <2> QED
    BY <2>4, <2>5, <2>6
<1>6. CASE route = "chat"
  <2>1. (ChatRun(conv) \/ ChatEnded(conv)) /\ ChatWell(conv)
    BY <1>2, <1>3, <1>6 DEF ConvInOrder, ConvShaped
  <2> DEFINE t == IF torn # "" THEN EmitFailed(conv) ELSE conv
  <2>2. ChatRun(t) \/ ChatEnded(t)
    BY <2>1, EmitFailedEnds DEF ChatEnded, ChatRun, EmitFailed
  <2>3. ChatWell(t)
    BY <2>1, EmitFailedWell
  <2>4. Flushed = ChatFlush(t)
    BY <1>6 DEF Flushed
  <2> HIDE DEF t
  <2>5. ChatTold(conv')
    BY <1>1, <2>2, <2>3, <2>4, ChatFlushTold
  <2> QED
    BY <1>1, <1>6, <2>5 DEF ConvTold
<1> QED
  BY <1>1, <1>2, <1>5, <1>6 DEF Routes

LEMMA RawEndOfBodyShaped ==
  ASSUME Judged, Shaped, RawEndOfBody
  PROVE  Shaped'
<1>1. PICK err \in {"EOF", "cut"}, tail \in {"", "name", "line", "event"},
           marker \in {TRUE, FALSE} :
        /\ reader = "reading" /\ route = "raw"
        /\ tail = "event" => torn # "" /\ transformer(conv)
        /\ conv' = DoneNet(RawFlushed(tail, marker), tail)
        /\ truncated' = RawTruncated(RawFlushed(tail, marker), err)
        /\ readErr' = err /\ reader' = "frames" /\ after' = "closing"
        /\ route' = route /\ kind' = kind /\ UNCHANGED beside
  BY DEF RawEndOfBody
<1>2. RawEnds(conv) /\ RawCalls(conv) /\ RawWell(conv) /\ (torn # "" => ~upstreamDone) /\ Typed
  BY <1>1 DEF Judged, ConvInOrder, Shaped, ConvTold
<1>3. truncated' \in BOOLEAN
  BY <1>1 DEF RawTruncated
<1> SUFFICES ConvTold'
  BY <1>1, <1>2, <1>3, ClosingShaped DEF Typed
<1> DEFINE f == RawFlushed(tail, marker)
<1>4. RawWell(f) /\ f \in AnyRaw /\ \A i \in Own : f.ran[i] <= 1
  <2>1. CASE tail = "event"
    <3>1. conv.view.ended = "no"
      BY <1>1, <1>2, <2>1 DEF upstreamDone, Live
    <3>2. f = Sent([conv EXCEPT !.seen = marker,
                                !.view = EndTurn(@, IF marker THEN "failed" ELSE "error")])
      BY <2>1 DEF RawFlushed
    <3> HIDE DEF f
    <3> QED
      BY <1>2, <3>1, <3>2, TornErrorWell
  <2>2. CASE tail # "event"
    <3>1. f = Leftover(conv, tail, marker)
      BY <2>2 DEF RawFlushed
    <3> HIDE DEF f
    <3> QED
      BY <1>2, <3>1, LeftoverWell
  <2> QED
    BY <2>1, <2>2
<1>5. conv' = DoneNet(f, tail)
  BY <1>1
<1> HIDE DEF f
<1>6. RawWell(conv')
  BY <1>4, <1>5, DoneNetWell
<1> QED
  BY <1>1, <1>6 DEF ConvTold

\* While a converter holds back reasoning, the keepalive goroutine is told so.
LEMMA BufferingIsBoolean ==
  ASSUME ConvTold, route \in Routes
  PROVE  Buffering \in BOOLEAN
BY DEF ConvTold, Routes, Buffering, BufferingThink, MessagesTold, MessagesState

LEMMA NextShaped == Judged /\ Shaped /\ [Next]_vars => Shaped'
<1> SUFFICES ASSUME Judged, Shaped, [Next]_vars PROVE Shaped'
  OBVIOUS
\* The steps that leave the converter alone.
<1>1. ASSUME UNCHANGED <<conv, route, block>>, Typed', after' = "reading" => after = "reading"
      PROVE  Shaped'
  <2>1. ConvTold' <=> ConvTold
    BY <1>1 DEF ConvTold
  <2>2. ConvShaped' <=> ConvShaped
    BY <1>1 DEF ConvShaped
  <2> QED
    BY <1>1, <2>1, <2>2 DEF Shaped
<1>2. Typed
  BY DEF Shaped
<1>3. CASE SoftError
  BY <1>3, SoftEndShaped DEF SoftError
<1>4. CASE SoftErrorWhole
  <2>1. ~upstreamDone /\ torn \in SoftKinds
    BY <1>4 DEF SoftErrorWhole, Judged
  <2> QED
    BY <1>4, <2>1, SoftEndShaped DEF SoftErrorWhole
<1>5. CASE SoftErrorTorn
  BY <1>1, <1>2, <1>5 DEF SoftErrorTorn, Typed, result, beside
<1>6. CASE Lock
  BY <1>1, <1>2, <1>6 DEF Lock, Typed, upstream, result, beside
<1>7. CASE Unlock
  <2>1. thinking' \in BOOLEAN
    BY <1>2, <1>7, BufferingIsBoolean DEF Unlock, Shaped, Judged, Typed
  <2>2. after \in {"reading", "closing"}
    BY DEF Judged
  <2> QED
    BY <1>1, <1>2, <1>7, <2>1, <2>2 DEF Unlock, Typed, upstream, result
<1>8. CASE WriteFails
  BY <1>1, <1>2, <1>8 DEF WriteFails, Typed, upstream, beside
<1>9. CASE Return
  BY <1>1, <1>2, <1>9 DEF Return, Typed, upstream, result, beside
<1>10. CASE Keepalive
  BY <1>1, <1>2, <1>10 DEF Keepalive, Tick, KeepaliveLock, KeepaliveUnlock, KeepaliveStop,
     Typed, upstream, result
<1>11. CASE ClientLeaves
  BY <1>1, <1>2, <1>11 DEF ClientLeaves, Typed, upstream, result
<1>12. CASE UNCHANGED vars
  BY <1>1, <1>2, <1>12 DEF vars, Typed, result
<1> QED
  BY <1>3, <1>4, <1>5, <1>6, <1>7, <1>8, <1>9, <1>10, <1>11, <1>12,
     MessagesStepsShaped, ChatStepsShaped, RawStepsShaped, EndOfBodyShaped,
     RawEndOfBodyShaped DEF Next

\* The shapes are invariant.
LEMMA AlwaysShaped == Spec => [](Judged /\ Shaped)
<1>1. Init => Judged /\ Shaped
  BY InitJudged, InitShaped
<1>2. Judged /\ Shaped /\ [Next]_vars => (Judged /\ Shaped)'
  BY NextJudged, NextShaped
<1> QED
  BY <1>1, <1>2, PTL DEF Spec

\* Everything stays within the bounds: no converter hands out more indices than there are
\* items, and no call is run or told of twice.
THEOREM TypeCorrect == Spec => []TypeOK
<1>1. Judged /\ Shaped => TypeOK
  <2> SUFFICES ASSUME Judged, Shaped PROVE TypeOK
    OBVIOUS
  <2>1. /\ route \in Routes /\ block \in Blocks \cup {NoBlock}
        /\ torn \in SoftKinds \cup {""} /\ after \in {"reading", "closing"}
    BY DEF Judged
  <2>2. conv \in (CASE route = "messages" -> MessagesState
                  [] route = "chat"     -> ChatState
                  [] route = "raw"      -> RawState)
    BY <2>1 DEF Shaped, ConvTold, MessagesTold, ChatTold, RawWell, RawTold, Routes
  <2> QED
    BY <2>1, <2>2 DEF TypeOK, Shaped, Typed
<1> QED
  BY AlwaysShaped, <1>1, PTL

\* The client is never sent a frame that its protocol does not allow, whatever upstream
\* sends and wherever its body ends, but for what WellFormed excepts.
THEOREM FramesAreWellFormed == Spec => []WellFormed
<1>1. Judged /\ Shaped => WellFormed
  <2> SUFFICES ASSUME Judged, Shaped PROVE WellFormed
    OBVIOUS
  <2>1. route \in Routes
    BY DEF Judged
  <2>2. CASE route = "messages"
    BY <2>2 DEF Shaped, ConvTold, MessagesTold, WellFormed
  <2>3. CASE route = "chat"
    BY <2>3 DEF Shaped, ConvTold, ChatTold, WellFormed
  <2>4. CASE route = "raw"
    <3>1. BridgeFaults(conv.view) /\ \A i \in Own : conv.told[i] = InputTold(conv, i)
      BY <2>4 DEF Shaped, ConvTold, RawWell, RawTold
    <3>2. \A i \in Own : Degraded(conv, i) =>
            conv.told[i] = IF conv.at[i] \in {"argued", "done"} THEN 1 ELSE 0
      BY <3>1 DEF InputTold
    <3>3. conv.view.faults \subseteq
            {<<"unannounced", i>> : i \in Indices \ Own} \cup
              (IF \E i \in Indices \ Own : <<"unannounced", i>> \in conv.view.faults
               THEN {<<"unfinished", NoIndex>>} ELSE {})
      BY <3>1 DEF BridgeFaults, Synthetic
    <3> QED
      BY <2>4, <3>2, <3>3 DEF WellFormed
  <2> QED
    BY <2>1, <2>2, <2>3, <2>4 DEF Routes
<1> QED
  BY AlwaysShaped, <1>1, PTL

\* While the Chat converter has its reasoning item open, it announces none behind it: a
\* text or a call closes the reasoning first.
THEOREM ReasoningIsLast == Spec => []ReasoningLast
<1>1. Judged /\ Shaped => ReasoningLast
  BY DEF Shaped, ConvTold, ChatTold, Thinking, ReasoningLast
<1> QED
  BY AlwaysShaped, <1>1, PTL
=============================================================================
