-------------------------- MODULE Cooldown_proofs --------------------------
(***************************************************************************)
(* Proofs about Cooldown: the deadline is monotone, no Extend is lost, no  *)
(* Wait returns early, and the load / compare-and-swap loops implement the *)
(* counted-down gate of CooldownGate, for any number of goroutines, any    *)
(* delays and any clock bound.                                             *)
(***************************************************************************)
EXTENDS Cooldown, TLAPS

\* What a goroutine knows about the shared deadline from the values it holds:
\* a Wait's loaded deadline is no earlier than the one it found on entry, and a
\* swap that is about to be tried would move the deadline forward.
Knows(c) ==
  /\ Waiting(c) => floor[c] <= until
  /\ pc[c] = "clock" => floor[c] <= loaded[c]
  /\ pc[c] = "sleep" => floor[c] <= wake[c]
  /\ pc[c] = "extSwap" => loaded[c] < target[c]
  /\ Extending(c) => target[c] <= MaxNow

IInv ==
  /\ TypeOK
  /\ now <= MaxNow
  /\ until <= MaxNow
  /\ \A c \in Callers : Knows(c)

LEMMA InitIInv == Init => IInv
BY CooldownAssumption DEF Init, IInv, TypeOK, Knows, Waiting, Extending, Phases

\* One step of any goroutine, of a client, or of the clock keeps the invariant.
LEMMA NextIInv == IInv /\ [Next]_vars => IInv'
<1> SUFFICES ASSUME IInv, [Next]_vars PROVE IInv'
  OBVIOUS
<1> USE CooldownAssumption DEF IInv, TypeOK, Phases, Knows, Waiting, Extending, Goto,
        Return, Later
<1>1. ASSUME NEW c \in Callers, EnterWait(c) PROVE IInv'
  BY <1>1 DEF EnterWait
<1>2. ASSUME NEW c \in Callers, EnterExtend(c) PROVE IInv'
  BY <1>2 DEF EnterExtend
<1>3. ASSUME NEW c \in Callers, Cancel(c) PROVE IInv'
  BY <1>3 DEF Cancel
<1>4. ASSUME NEW c \in Callers, WaitStep(c) PROVE IInv'
  <2>1. CASE WaitLoad(c)
    BY <2>1 DEF WaitLoad
  <2>2. CASE WaitOver(c)
    BY <2>2 DEF WaitOver
  <2>3. CASE WaitSleep(c)
    BY <2>3 DEF WaitSleep
  <2>4. CASE WaitTimer(c)
    BY <2>4 DEF WaitTimer
  <2>5. CASE WaitCancelled(c)
    BY <2>5 DEF WaitCancelled
  <2>6. QED BY <1>4, <2>1, <2>2, <2>3, <2>4, <2>5 DEF WaitStep
<1>5. ASSUME NEW c \in Callers, ExtendStep(c) PROVE IInv'
  <2>1. CASE ExtendCovered(c)
    BY <2>1 DEF ExtendCovered
  <2>2. CASE ExtendLoad(c)
    BY <2>2 DEF ExtendLoad
  <2>3. CASE ExtendSwap(c)
    BY <2>3 DEF ExtendSwap
  <2>4. CASE ExtendRetry(c)
    BY <2>4 DEF ExtendRetry
  <2>5. QED BY <1>5, <2>1, <2>2, <2>3, <2>4 DEF ExtendStep
<1>6. CASE Tick
  BY <1>6 DEF Tick
<1>7. CASE UNCHANGED vars
  BY <1>7 DEF vars
<1>8. QED BY <1>1, <1>2, <1>3, <1>4, <1>5, <1>6, <1>7 DEF Next

\* The invariant holds throughout every behaviour of Cooldown.
THEOREM Invariance == Spec => []IInv
BY InitIInv, NextIInv, PTL DEF Spec

\* Type correctness of the cooldown gate (retry.go, type Cooldown).
THEOREM TypeCorrect == Spec => []TypeOK
<1>1. IInv => TypeOK
  BY DEF IInv
<1>2. QED BY <1>1, Invariance, PTL

\* The shared 429 deadline never moves back, whatever two Extends that overlap
\* loaded before either of them stored (Extend's compare-and-swap loop).
THEOREM DeadlineIsMonotone == Spec => DeadlineNeverEarlier
<1>1. IInv /\ [Next]_vars => [until' >= until]_until
  <2> SUFFICES ASSUME IInv, [Next]_vars PROVE [until' >= until]_until
    OBVIOUS
  <2>1. ASSUME NEW c \in Callers, ExtendSwap(c) PROVE until' >= until
    BY <2>1 DEF ExtendSwap, Return, Goto, IInv, TypeOK, Knows
  <2>2. CASE \A c \in Callers : ~ExtendSwap(c)
    BY <2>2 DEF Next, vars, EnterWait, EnterExtend, Cancel, WaitStep, WaitLoad, WaitOver,
       WaitSleep, WaitTimer, WaitCancelled, ExtendStep, ExtendCovered, ExtendLoad,
       ExtendRetry, Tick
  <2>3. QED BY <2>1, <2>2
<1>2. QED BY <1>1, Invariance, PTL DEF Spec, DeadlineNeverEarlier

\* When Extend returns, the deadline in force is at least the one it computed,
\* even if every compare-and-swap it tried lost its race.
THEOREM NoExtendLost == Spec => ExtendTakesEffect
<1> DEFINE Effect == \A c \in Callers :
             Extending(c) /\ pc'[c] = "idle" => until' >= target[c]
<1>1. IInv /\ [Next]_vars => [Effect]_vars
  <2> SUFFICES ASSUME IInv, Next, NEW c \in Callers, Extending(c), pc'[c] = "idle"
               PROVE until' >= target[c]
    BY DEF vars
  <2> USE DEF IInv, TypeOK, Extending, Goto, Return
  <2>1. CASE ExtendStep(c)
    BY <2>1 DEF ExtendStep, ExtendCovered, ExtendLoad, ExtendSwap, ExtendRetry
  <2>2. CASE ~ExtendStep(c)
    <3>1. pc'[c] = pc[c]
      <4>1. ASSUME NEW d \in Callers, EnterWait(d) \/ EnterExtend(d) \/ Cancel(d)
            PROVE pc'[c] = pc[c]
        BY <4>1 DEF EnterWait, EnterExtend, Cancel
      <4>2. ASSUME NEW d \in Callers, WaitStep(d) PROVE pc'[c] = pc[c]
        BY <4>2 DEF WaitStep, WaitLoad, WaitOver, WaitSleep, WaitTimer, WaitCancelled
      <4>3. ASSUME NEW d \in Callers, ExtendStep(d) PROVE pc'[c] = pc[c]
        BY <2>2, <4>3 DEF ExtendStep, ExtendCovered, ExtendLoad, ExtendSwap, ExtendRetry
      <4>4. CASE Tick
        BY <4>4 DEF Tick
      <4>5. QED BY <4>1, <4>2, <4>3, <4>4 DEF Next
    <3>2. QED BY <3>1
  <2>3. QED BY <2>1, <2>2
<1>2. QED BY <1>1, Invariance, PTL DEF Spec, ExtendTakesEffect

\* A Wait whose client stays returns only when every deadline that was in force
\* when it was called has passed, however its timer and its clock reads
\* interleave with Extends of other requests.
THEOREM WaitIsNotEarly == Spec => WaitOutlastsCooldown
<1> DEFINE Honoured == \A c \in Callers :
             Waiting(c) /\ pc'[c] = "idle" => now >= floor[c] \/ gone[c]
<1>1. IInv /\ [Next]_vars => [Honoured]_vars
  <2> SUFFICES ASSUME IInv, Next, NEW c \in Callers, Waiting(c), pc'[c] = "idle"
               PROVE now >= floor[c] \/ gone[c]
    BY DEF vars
  <2> USE DEF IInv, TypeOK, Waiting, Goto, Return
  <2>1. CASE WaitStep(c)
    BY <2>1 DEF Knows, WaitStep, WaitLoad, WaitOver, WaitSleep, WaitTimer, WaitCancelled
  <2>2. CASE ~WaitStep(c)
    <3>1. ASSUME NEW d \in Callers, EnterWait(d) \/ EnterExtend(d) \/ Cancel(d)
          PROVE pc'[c] = pc[c]
      BY <3>1 DEF EnterWait, EnterExtend, Cancel
    <3>2. ASSUME NEW d \in Callers, WaitStep(d) PROVE pc'[c] = pc[c]
      BY <2>2, <3>2 DEF WaitStep, WaitLoad, WaitOver, WaitSleep, WaitTimer, WaitCancelled
    <3>3. ASSUME NEW d \in Callers, ExtendStep(d) PROVE pc'[c] = pc[c]
      BY <3>3 DEF ExtendStep, ExtendCovered, ExtendLoad, ExtendSwap, ExtendRetry
    <3>4. ASSUME Tick PROVE pc'[c] = pc[c]
      BY <3>4 DEF Tick
    <3>5. pc'[c] = pc[c]
      BY <3>1, <3>2, <3>3, <3>4 DEF Next
    <3>6. QED BY <3>5
  <2>3. QED BY <2>1, <2>2
<1>2. QED BY <1>1, Invariance, PTL DEF Spec, WaitOutlastsCooldown

-----------------------------------------------------------------------------
(* Refinement *)

\* The gate's variables, as Cooldown's state determines them.
gateWaiting == {c \in Callers : Waiting(c)}
gateOwed == [c \in Callers |-> IF Waiting(c) THEN Left(floor[c]) ELSE 0]

LEMMA InitImplementsGate == Init => Gate!Init
BY DEF Init, Gate!Init, Left, Waiting

\* Each step of the load / compare-and-swap loops, of a client, and of the clock
\* is a step of the gate or leaves the gate's variables alone.
LEMMA StepImplementsGate == IInv /\ [Next]_vars => [Gate!Next]_(Gate!vars)
<1> SUFFICES ASSUME IInv, [Next]_vars PROVE [Gate!Next]_(Gate!vars)
  OBVIOUS
<1> USE DEF IInv, TypeOK, Phases, Knows, Waiting, Extending, Goto, Return, Left
<1>1. ASSUME NEW c \in Callers, EnterWait(c) PROVE Gate!Enter(c)
  BY <1>1 DEF EnterWait, Gate!Enter
<1>2. ASSUME NEW c \in Callers, EnterExtend(c) PROVE UNCHANGED Gate!vars
  BY <1>2 DEF EnterExtend, Gate!vars
<1>3. ASSUME NEW c \in Callers, Cancel(c) PROVE Gate!Cancel(c)
  BY <1>3 DEF Cancel, Gate!Cancel
<1>4. ASSUME NEW c \in Callers, WaitStep(c) PROVE Gate!Leave(c) \/ UNCHANGED Gate!vars
  <2>1. CASE WaitLoad(c) \/ WaitSleep(c) \/ WaitTimer(c)
    BY <2>1 DEF WaitLoad, WaitSleep, WaitTimer, Gate!vars
  <2>2. CASE WaitOver(c)
    BY <2>2 DEF WaitOver, Gate!Leave
  <2>3. CASE WaitCancelled(c)
    BY <2>3 DEF WaitCancelled, Gate!Leave
  <2>4. QED BY <1>4, <2>1, <2>2, <2>3 DEF WaitStep
<1>5. ASSUME NEW c \in Callers, ExtendStep(c)
      PROVE (\E d \in 1 .. MaxNow : Gate!Extend(d)) \/ UNCHANGED Gate!vars
  <2>1. CASE ExtendCovered(c) \/ ExtendLoad(c) \/ ExtendRetry(c)
    BY <2>1 DEF ExtendCovered, ExtendLoad, ExtendRetry, Gate!vars
  <2>2. CASE ExtendSwap(c)
    <3> DEFINE d == Left(target[c])
    <3>1. gateWaiting' = gateWaiting /\ gateOwed' = gateOwed /\ gone' = gone
      BY <2>2 DEF ExtendSwap, gateWaiting, gateOwed
    <3>2. until' = target[c] /\ until < target[c] /\ now' = now /\ target[c] <= MaxNow
      BY <2>2 DEF ExtendSwap
    <3>3. CASE target[c] <= now
      <4>1. Left(until)' = Left(until)
        BY <3>2, <3>3
      <4>2. QED BY <3>1, <4>1 DEF Gate!vars, gateWaiting, gateOwed
    <3>4. CASE target[c] > now
      <4>1. d \in 1 .. MaxNow /\ d > Left(until) /\ Left(until)' = d
        BY <3>2, <3>4, CooldownAssumption
      <4>2. Gate!Extend(d)
        BY <3>1, <4>1 DEF Gate!Extend, gateWaiting, gateOwed
      <4>3. QED BY <4>1, <4>2
    <3>5. QED BY <3>3, <3>4
  <2>3. QED BY <1>5, <2>1, <2>2 DEF ExtendStep
<1>6. ASSUME Tick PROVE Gate!Tick
  <2>1. now' = now + 1 /\ until' = until /\ pc' = pc /\ floor' = floor /\ gone' = gone
    BY <1>6 DEF Tick
  <2>2. \A n \in Nat : Left(n)' = Gate!LessOne(Left(n))
    BY <2>1 DEF Gate!LessOne
  <2>3. Left(until)' = Gate!LessOne(Left(until))
    BY <2>1, <2>2
  <2>4. \A c \in Callers :
          (IF Waiting(c) THEN Left(floor[c]) ELSE 0)'
            = Gate!LessOne(IF Waiting(c) THEN Left(floor[c]) ELSE 0)
    BY <2>1 DEF Gate!LessOne
  <2>5. gateWaiting' = gateWaiting
    BY <2>1 DEF gateWaiting
  <2>6. QED BY <2>1, <2>3, <2>4, <2>5 DEF Gate!Tick, gateWaiting
<1>7. CASE UNCHANGED vars
  BY <1>7 DEF vars, Gate!vars
<1>8. QED BY <1>1, <1>2, <1>3, <1>4, <1>5, <1>6, <1>7 DEF Next, Gate!Next

\* The atomic deadline of retry.go implements the gate of CooldownGate, which
\* module Forward relies on when it treats Extend and Wait as single steps.
THEOREM CooldownImplementsGate == Spec => ImplementsGate
<1>1. QED BY InitImplementsGate, StepImplementsGate, Invariance, PTL
          DEF Spec, ImplementsGate, Gate!Spec
=============================================================================
