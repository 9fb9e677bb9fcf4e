----------------------------- MODULE MCForward -----------------------------
(***************************************************************************)
(* Instances of Forward for TLC.                                           *)
(***************************************************************************)
EXTENDS Forward, TLC

Plain(s, ra) == [NoReply EXCEPT !.status = s, !.retryAfter = ra]
Ok(kind) == [NoReply EXCEPT !.status = 200, !.stream = kind]
Complaint(s, im, th) ==
  [NoReply EXCEPT !.status = s, !.image = im, !.thinking = th]

\* One request, every sort of reply; 501 is retryable and rectifiable at once.
EveryReply ==
  {Plain(429, 0), Plain(429, 3), Plain(503, 0), Plain(404, 0)}
    \cup {Ok(s) : s \in Streams \ {"error"}}
    \cup {Complaint(s, im, th) : s \in {400, 501}, im \in BOOLEAN, th \in BOOLEAN}

\* Several requests share the gate.
GateReplies == {Plain(429, 0), Plain(429, 2), Ok("clean")}

Symmetry == Permutations(Requests)
=============================================================================
