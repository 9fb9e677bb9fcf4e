---------------------------- MODULE IdleWatchdog ----------------------------
(***************************************************************************)
(* One upstream attempt under the idle watchdog (idle.go, and its use in   *)
(* Upstream.Forward): the goroutine that reads the body, the goroutines a  *)
(* time.AfterFunc timer dispatches, the goroutine that closes the body     *)
(* (the reader itself, or Forward while a drain is still reading), the     *)
(* upstream, and time.  One action per critical section of the mutex; a    *)
(* dispatched trip, a Read that has returned and a Close meet in any order *)
(* at that mutex.  Time is counted: `left' down to the timer's firing,     *)
(* `quiet' and `silent' up to the timeout.                                 *)
(***************************************************************************)
EXTENDS Naturals

CONSTANTS
  Timeout,    \* STREAM_IDLE_TIMEOUT_MS in ticks, not 0
  MaxTrips    \* bound: trip goroutines that wait for the mutex at once

ASSUME IdleAssumption == Timeout \in Nat \ {0} /\ MaxTrips \in Nat \ {0}

Off == Timeout + 1    \* no timer is set

VARIABLES
  reader,     \* where the goroutine that uses the body is
  left,       \* ticks until the timer fires, or Off
  trips,      \* dispatched trips that have not taken the mutex yet
  fired,      \* idleTimeoutReader.fired
  closed,     \* idleTimeoutReader.closed
  onIdle,     \* a trip has decided and is about to call onIdle
  quiet,      \* ticks since lastRead, at most Timeout
  idleFor,    \* history: ticks since a read was last accounted for, as quiet
  silent,     \* ticks since the upstream last sent anything, at most Timeout
  unread,     \* bytes wait in the connection
  ended,      \* the upstream has closed the stream
  cancelled   \* cancelAttempt was called

watch == <<left, trips, fired, closed, onIdle, quiet>>
conn == <<idleFor, silent, unread, ended, cancelled>>
vars == <<reader, watch, conn>>

\* "connect": waiting for response headers; "reading": blocked in rc.Read;
\* "gotBytes", "gotError": rc.Read returned, the mutex is not taken yet; "busy":
\* handling the bytes, which includes writing them to the client; "done".
Places == {"connect", "reading", "gotBytes", "gotError", "busy", "done"}

Flags ==
  /\ fired \in BOOLEAN /\ closed \in BOOLEAN /\ onIdle \in BOOLEAN
  /\ unread \in BOOLEAN /\ ended \in BOOLEAN /\ cancelled \in BOOLEAN

TypeOK ==
  /\ reader \in Places
  /\ left \in 0 .. Off
  /\ trips \in 0 .. MaxTrips
  /\ quiet \in 0 .. Timeout /\ idleFor \in 0 .. Timeout /\ silent \in 0 .. Timeout
  /\ Flags

Init ==
  /\ reader = "connect"
  /\ left = Off /\ trips = 0
  /\ fired = FALSE /\ closed = FALSE /\ onIdle = FALSE
  /\ quiet = 0 /\ idleFor = 0 /\ silent = 0
  /\ unread = FALSE /\ ended = FALSE /\ cancelled = FALSE

-----------------------------------------------------------------------------
(* The upstream *)

\* Mutant of Headers: the timer is left to the first Read to start.
HeadersUnwatched ==
  /\ reader = "connect"
  /\ reader' = "reading"
  /\ quiet' = 0 /\ idleFor' = 0 /\ silent' = 0
  /\ UNCHANGED <<left, trips, fired, closed, onIdle, unread, ended, cancelled>>

\* Headers arrive and the body is wrapped: the timer starts here.
Headers ==
  /\ reader = "connect"
  /\ reader' = "reading"
  /\ left' = Timeout /\ quiet' = 0 /\ idleFor' = 0 /\ silent' = 0
  /\ UNCHANGED <<trips, fired, closed, onIdle, unread, ended, cancelled>>

SendBytes ==
  /\ reader \notin {"connect", "done"} /\ ~ended /\ ~cancelled
  /\ unread' = TRUE /\ silent' = 0
  /\ UNCHANGED <<reader, watch, idleFor, ended, cancelled>>

EndStream ==
  /\ reader \notin {"connect", "done"} /\ ~ended
  /\ ended' = TRUE
  /\ UNCHANGED <<reader, watch, idleFor, silent, unread, cancelled>>

-----------------------------------------------------------------------------
(* The reader *)

\* rc.Read returns: what has arrived, or the error a cancelled, closed or ended
\* connection gives.
ReadReturns ==
  /\ reader = "reading"
  /\ \/ unread /\ reader' = "gotBytes" /\ unread' = FALSE
     \/ /\ (ended /\ ~unread) \/ cancelled \/ closed
        /\ reader' = "gotError" /\ UNCHANGED unread
  /\ UNCHANGED <<watch, idleFor, silent, ended, cancelled>>

\* Mutant of Renew: Close stops the timer but leaves it there to be set again.
RenewAnyway ==
  /\ reader \in {"gotBytes", "gotError"}
  /\ IF ~fired THEN quiet' = 0 /\ left' = Timeout ELSE UNCHANGED <<quiet, left>>
  /\ reader' = IF reader = "gotBytes" THEN "busy" ELSE "done"
  /\ idleFor' = 0
  /\ UNCHANGED <<trips, fired, closed, onIdle, silent, unread, ended, cancelled>>

\* Read's critical section, after a read and after an error alike.
Renew ==
  /\ reader \in {"gotBytes", "gotError"}
  /\ IF ~fired /\ ~closed      \* Close set the timer to nil
       THEN quiet' = 0 /\ left' = Timeout
       ELSE UNCHANGED <<quiet, left>>
  /\ reader' = IF reader = "gotBytes" THEN "busy" ELSE "done"
  /\ idleFor' = 0
  /\ UNCHANGED <<trips, fired, closed, onIdle, silent, unread, ended, cancelled>>

ReadAgain ==
  /\ reader = "busy"
  /\ reader' = "reading"
  /\ UNCHANGED <<watch, conn>>

\* Close: by the reader when it is done or gives up, or by Forward while the
\* goroutine of drainBodyWithTimeout is still reading.
Close ==
  /\ reader # "connect" /\ ~closed
  /\ closed' = TRUE /\ left' = Off
  /\ UNCHANGED <<reader, trips, fired, onIdle, quiet, conn>>

-----------------------------------------------------------------------------
(* The timer *)

\* The timer fires: a goroutine that will run trip is dispatched.
Dispatch ==
  /\ left = 0 /\ trips < MaxTrips
  /\ left' = Off /\ trips' = trips + 1
  /\ UNCHANGED <<reader, fired, closed, onIdle, quiet, conn>>

TripIgnored ==
  /\ trips > 0 /\ (fired \/ closed)
  /\ trips' = trips - 1
  /\ UNCHANGED <<reader, left, fired, closed, onIdle, quiet, conn>>

\* Mutant of TripEarly: the new timer is set to the wrong side of the timeout.
TripEarlyTooLate ==
  /\ trips > 0 /\ ~fired /\ ~closed
  /\ quiet < Timeout
  /\ left' = Timeout + quiet
  /\ trips' = trips - 1
  /\ UNCHANGED <<reader, fired, closed, onIdle, quiet, conn>>

\* The timeout has not passed since the last read after all: start over.
TripEarly ==
  /\ trips > 0 /\ ~fired /\ ~closed
  /\ quiet < Timeout
  /\ left' = Timeout - quiet
  /\ trips' = trips - 1
  /\ UNCHANGED <<reader, fired, closed, onIdle, quiet, conn>>

\* Mutant of TripIdle: a dispatched trip decides at once.
TripAtOnce ==
  /\ trips > 0 /\ ~fired /\ ~closed
  /\ fired' = TRUE /\ onIdle' = TRUE
  /\ trips' = trips - 1
  /\ UNCHANGED <<reader, left, closed, quiet, conn>>

TripIdle ==
  /\ trips > 0 /\ ~fired /\ ~closed
  /\ quiet = Timeout
  /\ fired' = TRUE /\ onIdle' = TRUE
  /\ trips' = trips - 1
  /\ UNCHANGED <<reader, left, closed, quiet, conn>>

\* Mutant of CallOnIdle: the event is recorded and nothing is cancelled.
CallOnIdleLogs ==
  /\ onIdle
  /\ onIdle' = FALSE
  /\ UNCHANGED <<reader, left, trips, fired, closed, quiet, conn>>

\* t.onIdle(), outside the mutex.
CallOnIdle ==
  /\ onIdle
  /\ onIdle' = FALSE /\ cancelled' = TRUE
  /\ UNCHANGED <<reader, left, trips, fired, closed, quiet, idleFor, silent, unread,
                 ended>>

AtMost(n, bound) == IF n < bound THEN n ELSE bound

Tick ==
  /\ reader # "done"
  /\ left > 0      \* a timer that is due fires before more time passes
  /\ left' = IF left = Off THEN Off ELSE left - 1
  /\ quiet' = AtMost(quiet + 1, Timeout)
  /\ idleFor' = AtMost(idleFor + 1, Timeout)
  /\ silent' = AtMost(silent + 1, Timeout)
  /\ UNCHANGED <<reader, trips, fired, closed, onIdle, unread, ended, cancelled>>

-----------------------------------------------------------------------------

Trip == TripIgnored \/ TripEarly \/ TripIdle

Next ==
  \/ Headers \/ SendBytes \/ EndStream
  \/ ReadReturns \/ Renew \/ ReadAgain \/ Close
  \/ Dispatch \/ Trip \/ CallOnIdle \/ Tick

Spec == Init /\ [][Next]_vars

\* The proxy's goroutines and its timer run; the upstream owes nothing, not even
\* headers, and nothing makes the client take the bytes it is sent.
FairSpec ==
  /\ Spec
  /\ WF_vars(ReadReturns) /\ WF_vars(Renew)
  /\ WF_vars(Dispatch) /\ WF_vars(Trip) /\ WF_vars(CallOnIdle) /\ WF_vars(Tick)

-----------------------------------------------------------------------------
(* Properties *)

\* Once Close has returned, no dispatched trip decides that the stream was idle
\* and no late Read sets the timer again: a stream that ended well is never
\* reported as an idle timeout.
QuietAfterClose ==
  [][closed => fired' = fired /\ left' = left]_vars

\* A trip that decides has waited out the whole timeout since the last read,
\* although it may have been dispatched before that read set the timer anew.
TripAfterFullTimeout ==
  [][fired' # fired => idleFor = Timeout]_vars

\* While a stream is watched there is always something that will end its silence:
\* a set timer, a trip on its way, or a decision to cancel.
AlwaysGuarded ==
  reader \notin {"connect", "done"} /\ ~closed =>
    left # Off \/ trips > 0 \/ fired

\* A read never waits for ever, even if the upstream never sends or ends again.
ReadsReturn == reader = "reading" ~> reader # "reading"

\* The claim of idle.go's header comment, for the body: while the reader hands
\* bytes to a slow client, the attempt is cancelled only when the upstream has
\* sent nothing for the whole timeout.
SlowClientIsNotIdle ==
  [][fired' # fired /\ reader = "busy" => silent = Timeout]_vars

\* The same claim, for the whole request: an upstream that sends nothing at all
\* does not hold the attempt for ever.
SilentUpstreamIsCancelled == reader = "connect" ~> reader # "connect"
=============================================================================
