------------------------------ MODULE Cooldown ------------------------------
(***************************************************************************)
(* The process-wide 429 cooldown (type Cooldown in retry.go) at the grain  *)
(* of its atomic operations: one atomic deadline `until', shared by every  *)
(* request goroutine.  Wait loads the deadline, then reads the clock, then *)
(* sleeps on a timer or on its context and starts over; Extend reads the   *)
(* clock, then runs a load / compare-and-swap loop.  The clock moves, and  *)
(* other goroutines run, between any two of those.                         *)
(***************************************************************************)
EXTENDS Naturals

CONSTANTS
  Callers,      \* request goroutines
  CooldownMs,   \* RATE_LIMIT_COOLDOWN_MS, in ticks; 0 disables Extend
  Delays,       \* the retry delays Extend is called with, in ticks
  MaxNow        \* bound: the clock stops here

ASSUME CooldownAssumption ==
  /\ CooldownMs \in Nat
  /\ Delays \subseteq Nat
  /\ MaxNow \in Nat

VARIABLES
  now,      \* the wall clock
  until,    \* Cooldown.until, the atomic deadline
  pc,       \* where each goroutine is
  loaded,   \* loaded[c]: the value c's last Load returned
  target,   \* target[c]: the deadline c's Extend computed
  wake,     \* wake[c]: when c's timer fires
  gone,     \* gone[c]: c's context is cancelled
  floor     \* history: the deadline in force when c entered Wait

vars == <<now, until, pc, loaded, target, wake, gone, floor>>

Phases == {"idle", "load", "clock", "sleep", "extLoad", "extSwap"}

TypeOK ==
  /\ now \in Nat /\ until \in Nat
  /\ pc \in [Callers -> Phases]
  /\ loaded \in [Callers -> Nat]
  /\ target \in [Callers -> Nat]
  /\ wake \in [Callers -> Nat]
  /\ gone \in [Callers -> BOOLEAN]
  /\ floor \in [Callers -> Nat]

Init ==
  /\ now = 0 /\ until = 0
  /\ pc = [c \in Callers |-> "idle"]
  /\ loaded = [c \in Callers |-> 0]
  /\ target = [c \in Callers |-> 0]
  /\ wake = [c \in Callers |-> 0]
  /\ gone = [c \in Callers |-> FALSE]
  /\ floor = [c \in Callers |-> 0]

Later(a, b) == IF a > b THEN a ELSE b

Goto(c, from, to) ==
  /\ pc[c] = from
  /\ pc' = [pc EXCEPT ![c] = to]

\* The call returns and its locals go out of scope.
Return(c, from) ==
  /\ Goto(c, from, "idle")
  /\ loaded' = [loaded EXCEPT ![c] = 0]
  /\ target' = [target EXCEPT ![c] = 0]
  /\ wake' = [wake EXCEPT ![c] = 0]
  /\ floor' = [floor EXCEPT ![c] = 0]

-----------------------------------------------------------------------------
(* Wait *)

EnterWait(c) ==
  /\ Goto(c, "idle", "load")
  /\ floor' = [floor EXCEPT ![c] = until]
  /\ UNCHANGED <<now, until, loaded, target, wake, gone>>

WaitLoad(c) ==
  /\ Goto(c, "load", "clock")
  /\ loaded' = [loaded EXCEPT ![c] = until]
  /\ UNCHANGED <<now, until, target, wake, gone, floor>>

\* Mutant of WaitOver: a wait below one tick counts as over.
WaitOverEarly(c) ==
  /\ loaded[c] <= now + 1
  /\ Return(c, "clock")
  /\ UNCHANGED <<now, until, gone>>

\* wait := loaded - now; nothing left to wait for
WaitOver(c) ==
  /\ loaded[c] <= now
  /\ Return(c, "clock")
  /\ UNCHANGED <<now, until, gone>>

WaitSleep(c) ==
  /\ loaded[c] > now
  /\ Goto(c, "clock", "sleep")
  /\ wake' = [wake EXCEPT ![c] = now + (loaded[c] - now)]
  /\ UNCHANGED <<now, until, loaded, target, gone, floor>>

\* <-timer.C: not the end of the wait, the deadline may have moved meanwhile
WaitTimer(c) ==
  /\ now >= wake[c]
  /\ Goto(c, "sleep", "load")
  /\ UNCHANGED <<now, until, loaded, target, wake, gone, floor>>

\* <-ctx.Done()
WaitCancelled(c) ==
  /\ gone[c]
  /\ Return(c, "sleep")
  /\ UNCHANGED <<now, until, gone>>

-----------------------------------------------------------------------------
(* Extend *)

EnterExtend(c) ==
  /\ CooldownMs > 0
  /\ \E delay \in Delays :
       LET deadline == now + Later(CooldownMs, delay)
       IN  /\ deadline <= MaxNow
           /\ target' = [target EXCEPT ![c] = deadline]
  /\ Goto(c, "idle", "extLoad")
  /\ UNCHANGED <<now, until, loaded, wake, gone, floor>>

\* a deadline at least as late is already in force
ExtendCovered(c) ==
  /\ target[c] <= until
  /\ Return(c, "extLoad")
  /\ UNCHANGED <<now, until, gone>>

ExtendLoad(c) ==
  /\ target[c] > until
  /\ Goto(c, "extLoad", "extSwap")
  /\ loaded' = [loaded EXCEPT ![c] = until]
  /\ UNCHANGED <<now, until, target, wake, gone, floor>>

\* Mutants of ExtendSwap: a plain store, and a store of the wait for the deadline.
ExtendStore(c) ==
  /\ Return(c, "extSwap")
  /\ until' = target[c]
  /\ UNCHANGED <<now, gone>>

ExtendSwapWait(c) ==
  /\ until = loaded[c]
  /\ Return(c, "extSwap")
  /\ until' = target[c] - now
  /\ UNCHANGED <<now, gone>>

ExtendSwap(c) ==
  /\ until = loaded[c]
  /\ Return(c, "extSwap")
  /\ until' = target[c]
  /\ UNCHANGED <<now, gone>>

\* Mutants of ExtendRetry: a lost race is given up, or tried again with the old load.
ExtendGiveUp(c) ==
  /\ until # loaded[c]
  /\ Return(c, "extSwap")
  /\ UNCHANGED <<now, until, gone>>

ExtendRetryStale(c) ==
  /\ until # loaded[c]
  /\ Goto(c, "extSwap", "extSwap")
  /\ UNCHANGED <<now, until, loaded, target, wake, gone, floor>>

ExtendRetry(c) ==
  /\ until # loaded[c]
  /\ Goto(c, "extSwap", "extLoad")
  /\ UNCHANGED <<now, until, loaded, target, wake, gone, floor>>

-----------------------------------------------------------------------------
(* The environment: the clock, and clients that go away *)

Tick ==
  /\ now < MaxNow
  /\ now' = now + 1
  /\ UNCHANGED <<until, pc, loaded, target, wake, gone, floor>>

Cancel(c) ==
  /\ ~gone[c]
  /\ gone' = [gone EXCEPT ![c] = TRUE]
  /\ UNCHANGED <<now, until, pc, loaded, target, wake, floor>>

WaitStep(c) ==
  WaitLoad(c) \/ WaitOver(c) \/ WaitSleep(c) \/ WaitTimer(c) \/ WaitCancelled(c)

ExtendStep(c) ==
  ExtendCovered(c) \/ ExtendLoad(c) \/ ExtendSwap(c) \/ ExtendRetry(c)

Next ==
  \/ \E c \in Callers : EnterWait(c) \/ EnterExtend(c) \/ Cancel(c)
  \/ \E c \in Callers : WaitStep(c) \/ ExtendStep(c)
  \/ Tick

Spec == Init /\ [][Next]_vars

\* Goroutines keep being scheduled and the clock runs.
FairSpec ==
  /\ Spec
  /\ WF_vars(Tick)
  /\ \A c \in Callers : WF_vars(WaitStep(c)) /\ WF_vars(ExtendStep(c))

-----------------------------------------------------------------------------
(* Properties *)

Waiting(c) == pc[c] \in {"load", "clock", "sleep"}
Extending(c) == pc[c] \in {"extLoad", "extSwap"}

\* The shared deadline never moves to an earlier moment, whatever two Extends
\* that overlap loaded before either of them stored: the lost update that the
\* comment on Extend's compare-and-swap loop is about.
DeadlineNeverEarlier == [][until' >= until]_until

\* When an Extend returns, the deadline in force is at least the one it
\* computed, even if it lost every race for the store.
ExtendTakesEffect ==
  [][\A c \in Callers : Extending(c) /\ pc'[c] = "idle" => until' >= target[c]]_vars

\* A Wait that was not cancelled returns only after every deadline that was in
\* force when it was called has passed, however often its timer was too early.
WaitOutlastsCooldown ==
  [][\A c \in Callers :
       Waiting(c) /\ pc'[c] = "idle" => now >= floor[c] \/ gone[c]]_vars

\* Every Wait and every Extend returns: the compare-and-swap loop can fail only
\* because another goroutine raised the deadline, and a sleeping Wait is woken.
CallsReturn == \A c \in Callers : []<>(pc[c] = "idle")

-----------------------------------------------------------------------------
(* Refinement: the atomic deadline implements the counted-down gate *)

Left(deadline) == IF deadline > now THEN deadline - now ELSE 0

Gate == INSTANCE CooldownGate WITH
  MaxDelay <- MaxNow,
  cooling <- Left(until),
  waiting <- {c \in Callers : Waiting(c)},
  owed <- [c \in Callers |-> IF Waiting(c) THEN Left(floor[c]) ELSE 0],
  gone <- gone

\* Every behaviour of the load / compare-and-swap implementation is one of the
\* gate that CooldownGate specifies.
ImplementsGate == Gate!Spec
=============================================================================
