-------------------------- MODULE ResponsesClient --------------------------
(***************************************************************************)
(* What a client of /responses makes of the SSE frames it is sent: which   *)
(* output items and content parts it has been told of, how its turn ended, *)
(* and which frames broke the protocol.  A client stops reading at [DONE]  *)
(* or when it is told that the server is overloaded.                       *)
(*                                                                         *)
(* Every operator takes the client's view before a frame to the view after *)
(* it, so that a handler that writes several frames is their composition.  *)
(***************************************************************************)
EXTENDS Integers

CONSTANT MaxItems     \* bound: output items of one turn

ASSUME ClientAssumption == MaxItems \in Nat

Indices == 0 .. MaxItems - 1

NoIndex == -1

Endings == {"no", "completed", "incomplete", "failed", "overloaded", "error"}

FaultKinds == {"unannounced", "twice", "late", "unopened", "unfinished", "afterEnd"}

View == [items : [Indices -> {"none", "open", "done"}],
         parts : SUBSET (Indices \X Nat),
         ended : Endings,
         over : BOOLEAN,
         faults : SUBSET (FaultKinds \X (Indices \cup {NoIndex}))]

NewView == [items |-> [i \in Indices |-> "none"], parts |-> {}, ended |-> "no",
            over |-> FALSE, faults |-> {}]

Faults(v, kind, S) == [v EXCEPT !.faults = @ \cup ({kind} \X S)]
Fault(v, kind, i) == Faults(v, kind, {i})

\* A frame about item i arrives: the client takes it in unless it reads no more.
Take(v, i, after) ==
  IF v.over THEN v
  ELSE IF v.ended # "no" THEN Fault(v, "afterEnd", i)
  ELSE after

\* The fault, if any, of a frame that presumes item i to be open.
Presume(v, i) ==
  IF v.items[i] = "none" THEN Fault(v, "unannounced", i)
  ELSE IF v.items[i] = "done" THEN Fault(v, "late", i)
  ELSE v

\* response.output_item.added
Announce(v, i) ==
  Take(v, i, IF v.items[i] # "none" THEN Fault(v, "twice", i)
             ELSE [v EXCEPT !.items[i] = "open"])

\* a delta of item i that belongs to no part
Delta(v, i) == Take(v, i, Presume(v, i))

\* response.content_part.added
PartAdded(v, i, c) == Take(v, i, [Presume(v, i) EXCEPT !.parts = @ \cup {<<i, c>>}])

\* response.output_text.delta
TextDelta(v, i, c) ==
  Take(v, i, IF <<i, c>> \in v.parts THEN Presume(v, i) ELSE Fault(v, "unannounced", i))

\* response.content_part.done
PartDone(v, i, c) ==
  Take(v, i, IF <<i, c>> \in v.parts THEN [Presume(v, i) EXCEPT !.parts = @ \ {<<i, c>>}]
             ELSE Fault(v, "unopened", i))

\* response.output_item.done, for each of some items
FinishAll(v, S) ==
  LET unknown == {i \in S : v.items[i] = "none"}
      late == {i \in S : v.items[i] = "done"}
      unfinished == {i \in S : \E p \in v.parts : p[1] = i}
  IN  IF v.over THEN v
      ELSE IF v.ended # "no" THEN Faults(v, "afterEnd", S)
      ELSE [Faults(Faults(Faults(v, "unannounced", unknown), "late", late),
                   "unfinished", unfinished)
              EXCEPT !.items = [i \in Indices |-> IF i \in S THEN "done" ELSE @[i]]]

Finish(v, i) == FinishAll(v, {i})

\* response.completed, .incomplete or .failed, or an error event
EndTurn(v, how) ==
  LET open == how = "completed" /\ \E i \in Indices : v.items[i] = "open"
      w == IF open THEN Fault(v, "unfinished", NoIndex) ELSE v
  IN  Take(v, NoIndex, [w EXCEPT !.ended = how])

\* data: [DONE]
Done(v) == [v EXCEPT !.over = TRUE]

\* The server_overloaded frame: the client tries the whole turn again.
Overloaded(v) == IF v.over THEN v ELSE Done(EndTurn(v, "overloaded"))

Announced(v) == {i \in Indices : v.items[i] # "none"}
=============================================================================
