------------------------ MODULE IdleWatchdog_proofs ------------------------
(***************************************************************************)
(* Proofs about IdleWatchdog, for every timeout and every number of timer  *)
(* goroutines that may pile up at the mutex.                               *)
(***************************************************************************)
EXTENDS IdleWatchdog, TLAPS

\* A set timer and the time since the last read always add up to the timeout;
\* lastRead is exact for as long as a trip may still consult it.
IInv ==
  /\ TypeOK
  /\ AlwaysGuarded
  /\ left # Off => left + quiet = Timeout
  /\ ~fired /\ ~closed => quiet = idleFor
  /\ closed => left = Off
  /\ reader = "connect" => left = Off /\ trips = 0 /\ ~fired /\ ~closed

LEMMA InitIInv == Init => IInv
<1>1. Init => Flags
  BY DEF Init, Flags
<1>2. QED BY <1>1, IdleAssumption DEF Init, IInv, TypeOK, AlwaysGuarded, Off, Places

LEMMA NextFlags == Flags /\ [Next]_vars => Flags'
BY Zenon DEF Flags, Next, vars, watch, conn, Headers, SendBytes, EndStream, ReadReturns,
   Renew, ReadAgain, Close, Dispatch, Trip, TripIgnored, TripEarly, TripIdle, CallOnIdle,
   Tick

LEMMA NextIInv == IInv /\ [Next]_vars => IInv'
<1> SUFFICES ASSUME IInv, [Next]_vars PROVE IInv'
  OBVIOUS
<1>0. Flags'
  BY NextFlags DEF IInv, TypeOK
<1> USE IdleAssumption DEF IInv, TypeOK, AlwaysGuarded, Off, Places, watch, conn
<1>1. CASE Headers
  BY <1>0, <1>1 DEF Headers
<1>2. CASE SendBytes \/ EndStream
  BY <1>0, <1>2 DEF SendBytes, EndStream
<1>3. CASE ReadReturns
  BY <1>0, <1>3 DEF ReadReturns
<1>4. CASE Renew
  BY <1>0, <1>4 DEF Renew
<1>5. CASE ReadAgain
  BY <1>0, <1>5 DEF ReadAgain
<1>6. CASE Close
  BY <1>0, <1>6 DEF Close
<1>7. CASE Dispatch
  BY <1>0, <1>7 DEF Dispatch
<1>8. CASE Trip
  <2>1. CASE TripIgnored
    BY <1>0, <2>1 DEF TripIgnored
  <2>2. CASE TripEarly
    BY <1>0, <2>2 DEF TripEarly
  <2>3. CASE TripIdle
    BY <1>0, <2>3 DEF TripIdle
  <2>4. QED BY <1>8, <2>1, <2>2, <2>3 DEF Trip
<1>9. CASE CallOnIdle
  BY <1>0, <1>9 DEF CallOnIdle
<1>10. CASE Tick
  BY <1>0, <1>10 DEF Tick, AtMost
<1>11. CASE UNCHANGED vars
  BY <1>0, <1>11 DEF vars
<1>12. QED BY <1>1, <1>2, <1>3, <1>4, <1>5, <1>6, <1>7, <1>8, <1>9, <1>10, <1>11 DEF Next

\* The invariant holds throughout every behaviour of the watchdog.
THEOREM Invariance == Spec => []IInv
BY InitIInv, NextIInv, PTL DEF Spec

\* Type correctness of the watchdog (idle.go).
THEOREM TypeCorrect == Spec => []TypeOK
<1>1. IInv => TypeOK
  BY DEF IInv
<1>2. QED BY <1>1, Invariance, PTL

\* A watched stream is never left without something that will end its silence,
\* in whatever order Read, Close and piled-up trips take the mutex.
THEOREM StreamsAreGuarded == Spec => []AlwaysGuarded
<1>1. IInv => AlwaysGuarded
  BY DEF IInv
<1>2. QED BY <1>1, Invariance, PTL

\* The steps that neither decide a trip nor touch the timer.
Elsewhere ==
  \/ SendBytes \/ EndStream \/ ReadReturns \/ ReadAgain \/ TripIgnored \/ CallOnIdle
  \/ UNCHANGED vars

LEMMA NextCases ==
  ASSUME [Next]_vars
  PROVE  \/ Elsewhere
         \/ Headers \/ Renew \/ Close \/ Dispatch \/ TripEarly \/ TripIdle \/ Tick
BY Zenon DEF Next, Trip, Elsewhere

LEMMA ElsewhereKeeps == Elsewhere => fired' = fired /\ left' = left
BY Zenon DEF Elsewhere, vars, watch, conn, SendBytes, EndStream, ReadReturns, ReadAgain,
   TripIgnored, CallOnIdle

\* Only TripIdle decides.
LEMMA OthersKeepFired ==
  Headers \/ Renew \/ Close \/ Dispatch \/ TripEarly \/ Tick => fired' = fired
BY Zenon DEF Headers, Renew, Close, Dispatch, TripEarly, Tick, conn

\* A trip decides only after the whole timeout without a read, even one that was
\* dispatched before the last read set the timer anew.
THEOREM TripsAreNotEarly == Spec => TripAfterFullTimeout
<1>1. IInv /\ [Next]_vars => [fired' # fired => idleFor = Timeout]_vars
  <2> SUFFICES ASSUME IInv, [Next]_vars, fired' # fired PROVE idleFor = Timeout
    OBVIOUS
  <2>1. TripIdle
    BY Zenon, NextCases, ElsewhereKeeps, OthersKeepFired
  <2>2. ~fired /\ ~closed /\ quiet = Timeout /\ trips > 0
    BY <2>1 DEF TripIdle
  <2>3. QED BY <2>2 DEF IInv
<1>2. QED BY <1>1, Invariance, PTL DEF Spec, TripAfterFullTimeout

\* After Close no trip decides and no late Read sets the timer again.
THEOREM QuietOnceClosed == Spec => QuietAfterClose
<1>1. IInv /\ [Next]_vars => [closed => fired' = fired /\ left' = left]_vars
  <2> SUFFICES ASSUME IInv, [Next]_vars, closed PROVE fired' = fired /\ left' = left
    OBVIOUS
  <2>1. left = Off /\ reader # "connect"
    BY DEF IInv
  <2>2. ~TripEarly /\ ~TripIdle /\ ~Close /\ ~Headers
    BY Zenon, <2>1 DEF TripEarly, TripIdle, Close, Headers
  <2>3. ~Dispatch
    <3>1. Off # 0
      BY IdleAssumption DEF Off
    <3>2. QED BY Zenon, <2>1, <3>1 DEF Dispatch
  <2>4. CASE Elsewhere
    BY Zenon, <2>4, ElsewhereKeeps
  <2>5. CASE Renew
    BY Zenon, <2>5 DEF Renew
  <2>6. CASE Tick
    <3>1. left' = left
      BY Zenon, <2>1, <2>6 DEF Tick
    <3>2. QED BY Zenon, <3>1, <2>6, OthersKeepFired
  <2>7. QED BY Zenon, <2>2, <2>3, <2>4, <2>5, <2>6, NextCases
<1>2. QED BY <1>1, Invariance, PTL DEF Spec, QuietAfterClose
=============================================================================
