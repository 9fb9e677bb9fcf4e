------------------------------- MODULE Relay -------------------------------
(***************************************************************************)
(* What Upstream.Forward and handleForward promise for each client         *)
(* request, however the upstream misbehaves:                               *)
(*   - upstream calls happen only while the request is open, and no more   *)
(*     than its budget of them;                                            *)
(*   - a response is started at most once, and once it is started nothing  *)
(*     is sent upstream any more;                                          *)
(*   - the request ends with its one response, or without any response     *)
(*     only because the client has left.                                   *)
(* Forward implements this specification.                                  *)
(***************************************************************************)
EXTENDS Naturals

CONSTANTS
  Requests,
  Budget      \* Budget[s]: upstream calls a request of sort s may cost

VARIABLES
  phase,      \* "new", "open", "answering", "finished" or "aborted"
  sort,       \* the sort of the request, chosen when it is received
  calls,      \* upstream calls made for it
  answers,    \* responses started towards its client
  left        \* its client has gone away

vars == <<phase, sort, calls, answers, left>>

Init ==
  /\ phase = [r \in Requests |-> "new"]
  /\ sort \in [Requests -> DOMAIN Budget]
  /\ calls = [r \in Requests |-> 0]
  /\ answers = [r \in Requests |-> 0]
  /\ left = [r \in Requests |-> FALSE]

Move(r, from, to) ==
  /\ phase[r] \in from
  /\ phase' = [phase EXCEPT ![r] = to]

Receive(r) ==
  /\ Move(r, {"new"}, "open")
  /\ \E s \in DOMAIN Budget : sort' = [sort EXCEPT ![r] = s]
  /\ UNCHANGED <<calls, answers, left>>

Call(r) ==
  /\ phase[r] = "open"
  /\ calls[r] < Budget[sort[r]]
  /\ calls' = [calls EXCEPT ![r] = @ + 1]
  /\ UNCHANGED <<phase, sort, answers, left>>

\* A response the proxy makes up itself is complete at once.
Refuse(r) ==
  /\ Move(r, {"new", "open"}, "finished")
  /\ answers' = [answers EXCEPT ![r] = 1]
  /\ UNCHANGED <<sort, calls, left>>

\* A response of the upstream is relayed while it arrives.
StartAnswer(r) ==
  /\ Move(r, {"open"}, "answering")
  /\ answers' = [answers EXCEPT ![r] = 1]
  /\ UNCHANGED <<sort, calls, left>>

FinishAnswer(r) ==
  /\ Move(r, {"answering"}, "finished")
  /\ UNCHANGED <<sort, calls, answers, left>>

Abort(r) ==
  /\ left[r]
  /\ Move(r, {"open"}, "aborted")
  /\ UNCHANGED <<sort, calls, answers, left>>

Leave(r) ==
  /\ phase[r] \in {"open", "answering"}
  /\ left' = [left EXCEPT ![r] = TRUE]
  /\ UNCHANGED <<phase, sort, calls, answers>>

Next ==
  \E r \in Requests :
    \/ Receive(r) \/ Call(r) \/ Refuse(r) \/ StartAnswer(r)
    \/ FinishAnswer(r) \/ Abort(r) \/ Leave(r)

Spec == Init /\ [][Next]_vars
=============================================================================
