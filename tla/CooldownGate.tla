---------------------------- MODULE CooldownGate ----------------------------
(***************************************************************************)
(* What the process-wide 429 cooldown promises to the requests that share  *)
(* it, with time counted down instead of up: the gate stays shut for       *)
(* `cooling' more ticks, Extend can only lengthen that, and a caller that  *)
(* is not cancelled leaves Wait only when everything the gate owed at the  *)
(* moment it entered has run out.  Cooldown implements this specification. *)
(***************************************************************************)
EXTENDS Naturals

CONSTANTS
  Callers,   \* the goroutines that share the gate
  MaxDelay   \* the longest single extension, in ticks

VARIABLES
  cooling,   \* ticks until the gate opens
  waiting,   \* the callers inside Wait
  owed,      \* owed[c]: ticks the gate still owed, of those owed on entry
  gone       \* gone[c]: c's context was cancelled

vars == <<cooling, waiting, owed, gone>>

TypeOK ==
  /\ cooling \in Nat
  /\ waiting \subseteq Callers
  /\ owed \in [Callers -> Nat]
  /\ gone \in [Callers -> BOOLEAN]

Init ==
  /\ cooling = 0
  /\ waiting = {}
  /\ owed = [c \in Callers |-> 0]
  /\ gone = [c \in Callers |-> FALSE]

Enter(c) ==
  /\ c \notin waiting
  /\ waiting' = waiting \cup {c}
  /\ owed' = [owed EXCEPT ![c] = cooling]
  /\ UNCHANGED <<cooling, gone>>

Leave(c) ==
  /\ c \in waiting
  /\ owed[c] = 0 \/ gone[c]
  /\ waiting' = waiting \ {c}
  /\ owed' = [owed EXCEPT ![c] = 0]
  /\ UNCHANGED <<cooling, gone>>

Extend(d) ==
  /\ d > cooling
  /\ cooling' = d
  /\ UNCHANGED <<waiting, owed, gone>>

Cancel(c) ==
  /\ gone' = [gone EXCEPT ![c] = TRUE]
  /\ UNCHANGED <<cooling, waiting, owed>>

LessOne(n) == IF n > 0 THEN n - 1 ELSE 0

Tick ==
  /\ cooling' = LessOne(cooling)
  /\ owed' = [c \in Callers |-> LessOne(owed[c])]
  /\ UNCHANGED <<waiting, gone>>

Next ==
  \/ \E c \in Callers : Enter(c) \/ Leave(c) \/ Cancel(c)
  \/ \E d \in 1 .. MaxDelay : Extend(d)
  \/ Tick

Spec == Init /\ [][Next]_vars
=============================================================================
