------------------------------ MODULE Service -------------------------------
(***************************************************************************)
(* What the process keeps beside forwarding: handleForward (server.go) with *)
(* the monitor and the log it reports to, the store of originals that       *)
(* compression writes, the hourly sweep that removes old ones               *)
(* (retention.go), the loop that rotates the log (log.go), and the order in *)
(* which Main takes it all down.  Forward itself is Forward's subject: here *)
(* a request that was sent ends in one of the ways Forward can end.         *)
(***************************************************************************)
EXTENDS Headroom, Monitor, LogFiles

CONSTANTS
  Requests,
  Setups,       \* how the process may be configured, and its clients:
                \*   rotation : LOG_ROTATION_ENABLED
                \*   maxAge   : ARTIFACT_RETENTION_HOURS, 0 for no sweep
                \*   sessions : what the requests' headers may name
                \*   bodies   : the requests' bodies, [path, input]
                \*   clients, hours : bounds on the requests and the clock
  MaxRetries,   \* bound on the retries after a 429, of all requests together
  MaxLogFaults, \* bound on the failures of a rotation
  MaxDiskFaults \* bound on the failures to store an original

Bodies == UNION {s.bodies : s \in Setups}
Texts == UNION {Originals(b) : b \in Bodies}
NoBody == [path |-> "", input |-> <<>>]
Absent == [at |-> 0, whole |-> FALSE]
NoText == "none"

ASSUME ServiceAssumption ==
  /\ IsFiniteSet(Requests)
  /\ \A s \in Setups :
       /\ s.rotation \in BOOLEAN /\ s.maxAge \in Nat
       /\ s.sessions \subseteq Sources \cup {NoSource}
       /\ s.clients \in Nat /\ s.hours \in Nat \ {0}
  /\ \A b \in Bodies : DOMAIN b.input \subseteq Nat
                        /\ \A i \in DOMAIN b.input : DOMAIN b.input[i] = {"type", "output"}
  /\ MaxRetries \in Nat
  /\ MaxLogFaults \in Nat /\ MaxDiskFaults \in Nat
  /\ NoText \notin Texts

VARIABLES
  setup,
  now,
  pc, from, body, left, status, \* per request: where it is, its session, its
                                \* body, the places still to store, its result
  mon, evicted, failed,         \* the monitor; history: the sessions it lost,
                                \* the requests whose forwarding failed
  log, lines, rotating, faults, \* the writer, how many lines were written to
                                \* it, whether its loop is about to rotate
  disk, saved, unsaved, raced,  \* the stored originals; history: when one was
                                \* last stored, whether that failed, whether a
                                \* sweep removed a newer file than it judged
  diskFaults,
  sweep,                        \* the sweep: cutoff, files left, file judged
                                \* too old and the time it had then
  main, rotLoop, retLoop        \* Main and the two loops it waits for

request == <<pc, from, body, left, status>>
writer == <<log, lines>>
reports == <<mon, evicted>>
store == <<disk, saved, unsaved, raced, diskFaults>>
loops == <<rotLoop, retLoop>>
vars == <<setup, now, request, reports, failed, writer, rotating, faults, store, sweep,
          main, loops>>

Init ==
  /\ setup \in Setups
  /\ now = 1
  /\ pc = [r \in Requests |-> "new"]
  /\ from = [r \in Requests |-> NoSource]
  /\ body = [r \in Requests |-> NoBody]
  /\ left = [r \in Requests |-> {}]
  /\ status = [r \in Requests |-> 0]
  /\ mon = NewMonitor /\ evicted = {} /\ failed = {}
  /\ log = IF setup.rotation THEN NewRotatingWriter ELSE NoWriter
  /\ lines = 0 /\ rotating = FALSE /\ faults = 0
  /\ disk = [t \in Texts |-> Absent]
  /\ saved = [t \in Texts |-> 0]
  /\ unsaved = {} /\ raced = {} /\ diskFaults = 0
  /\ sweep = [on |-> FALSE, cutoff |-> 0, todo |-> {}, judged |-> NoText,
              seen |-> 0]
  /\ main = "serving"
  /\ rotLoop = IF setup.rotation THEN "runs" ELSE "ended"
  /\ retLoop = IF setup.maxAge > 0 THEN "runs" ELSE "ended"

Received == {r \in Requests : pc[r] # "new"}
Running == main # "exited"
At(r, place) == Running /\ pc[r] = place
Goto(r, place) == pc' = [pc EXCEPT ![r] = place]

\* Requestf, Warnf or Errorf, if a log file is attached.
Says ==
  IF setup.rotation
  THEN log' = Write(log, lines + 1) /\ lines' = lines + 1
  ELSE UNCHANGED writer

Records(e) ==
  /\ mon' \in Record(mon, e, now)
  /\ evicted' = evicted \cup (Tracked(mon) \ Tracked(mon'))

-----------------------------------------------------------------------------
(* A request in handleForward.  The line it logs and the event it records   *)
(* go to two objects that nothing reads together, so they are one step.     *)

Receive(r, s, b) ==
  /\ At(r, "new") /\ Cardinality(Received) < setup.clients
  /\ from' = [from EXCEPT ![r] = s]
  /\ body' = [body EXCEPT ![r] = b]
  /\ Goto(r, "received")
  /\ Says
  /\ Records(Event("request_received", 0, FALSE, s))
  /\ UNCHANGED <<setup, now, failed, left, status, rotating, faults, store, sweep, main, loops>>

\* Forward cannot read the body; 413, for one that is too long, is as good.
Refuse(r) ==
  /\ At(r, "received")
  /\ status' = [status EXCEPT ![r] = 400]
  /\ Goto(r, "answered")
  /\ UNCHANGED <<setup, now, from, body, left, reports, failed, writer, rotating, faults,
                 store, sweep, main, loops>>

\* With a shortened output the originals are to be stored: StoreDir is never
\* empty, headroomConfig (config.go) fills it in.
Process(r) ==
  /\ At(r, "received")
  /\ left' = [left EXCEPT ![r] = Replaced(body[r])]
  /\ Goto(r, IF Replaced(body[r]) = {} THEN "sent" ELSE "storing")
  /\ UNCHANGED <<setup, now, from, body, status, reports, failed, writer, rotating, faults,
                 store, sweep, main, loops>>

\* writeOriginals goes through the places in order.
Place(r) == CHOOSE i \in left[r] : \A j \in left[r] : i <= j
Original(r) == body[r].input[Place(r)].output.name

OpenOriginal(r) ==
  /\ At(r, "storing")
  /\ disk' = [disk EXCEPT ![Original(r)] = [at |-> now, whole |-> FALSE]]
  /\ Goto(r, "writing")
  /\ UNCHANGED <<setup, now, from, body, left, status, reports, failed, writer, rotating,
                 faults, saved, unsaved, raced, diskFaults, sweep, main, loops>>

\* On to the next original, or to the upstream.
NextOriginal(r) ==
  /\ left' = [left EXCEPT ![r] = @ \ {Place(r)}]
  /\ Goto(r, IF left[r] = {Place(r)} THEN "sent" ELSE "storing")

\* WriteFile wrote the text: to the file, or to one a sweep has unlinked.
WriteOriginal(r) ==
  /\ Running /\ pc[r] \in {"writing", "adrift"}
  /\ LET t == Original(r)
     IN /\ IF pc[r] = "writing"
           THEN /\ disk' = [disk EXCEPT ![t] = [at |-> now, whole |-> TRUE]]
                /\ raced' = raced \ {t}
           ELSE /\ raced' = raced \cup {t}
                /\ UNCHANGED disk
        /\ saved' = [saved EXCEPT ![t] = now]
        /\ unsaved' = unsaved \ {t}
  /\ NextOriginal(r)
  /\ UNCHANGED <<setup, now, from, body, status, reports, failed, writer, rotating, faults,
                 diskFaults, sweep, main, loops>>

\* The open or the write fails: the request goes on.
LoseOriginal(r) ==
  /\ Running /\ pc[r] \in {"storing", "writing", "adrift"}
  /\ diskFaults < MaxDiskFaults /\ diskFaults' = diskFaults + 1
  /\ unsaved' = unsaved \cup {Original(r)}
  /\ NextOriginal(r)
  /\ UNCHANGED <<setup, now, from, body, status, reports, failed, writer, rotating, faults,
                 disk, saved, raced, sweep, main, loops>>

\* MkdirAll fails, before any is opened: so does the storing of all of them.
LoseOriginals(r) ==
  /\ At(r, "storing") /\ left[r] = Replaced(body[r])
  /\ diskFaults < MaxDiskFaults /\ diskFaults' = diskFaults + 1
  /\ unsaved' = unsaved \cup Originals(body[r])
  /\ left' = [left EXCEPT ![r] = {}]
  /\ Goto(r, "sent")
  /\ UNCHANGED <<setup, now, from, body, status, reports, failed, writer, rotating, faults,
                 disk, saved, raced, sweep, main, loops>>

\* The upstream answers 429 and is asked again; the line is not shown.
Retry(r) ==
  /\ At(r, "sent")
  /\ mon.total.retries429 < MaxRetries
  /\ Records(Event("upstream_retry", 429, FALSE, from[r]))
  /\ UNCHANGED <<setup, now, request, failed, writer, rotating, faults, store, sweep, main, loops>>

\* A line and an event of their own, and 503 in the end.
Fails(r, name, st) ==
  /\ At(r, "sent")
  /\ status' = [status EXCEPT ![r] = 503]
  /\ Goto(r, "answered")
  /\ Says
  /\ Records(Event(name, st, TRUE, from[r]))
  /\ failed' = failed \cup {r}
  /\ UNCHANGED <<setup, now, from, body, left, rotating, faults, store, sweep, main, loops>>

\* The attempts are used up without an answer.
FetchFailed(r) == Fails(r, "upstream_fetch_failed", 0)

\* A stream that began with 200 ends in a soft error.
StreamFailed(r) == Fails(r, "stream_retryable_error_detected", 200)

\* Any other answer; 503 for a stream that was cut, or an upstream's error.
Answer(r) ==
  /\ At(r, "sent")
  /\ \E st \in {200, 503} : status' = [status EXCEPT ![r] = st]
  /\ Goto(r, "answered")
  /\ UNCHANGED <<setup, now, from, body, left, reports, failed, writer, rotating, faults,
                 store, sweep, main, loops>>

Finish(r) ==
  /\ At(r, "answered")
  /\ Goto(r, "finished")
  /\ Says
  /\ Records(Event("request_finish", status[r], FALSE, from[r]))
  /\ UNCHANGED <<setup, now, from, body, left, status, failed, rotating, faults, store,
                 sweep, main, loops>>

\* The client has gone: a line, but no event.
Abort(r) ==
  /\ At(r, "sent")
  /\ Goto(r, "aborted")
  /\ Says
  /\ UNCHANGED <<setup, now, from, body, left, status, reports, failed, rotating, faults,
                 store, sweep, main, loops>>

-----------------------------------------------------------------------------
(* The loop of the rotating writer *)

\* A tick reads the size and lets go of the mutex.
CheckSize ==
  /\ Running /\ rotLoop = "runs" /\ ~rotating
  /\ TooLarge(log)
  /\ rotating' = TRUE
  /\ UNCHANGED <<setup, now, request, reports, failed, writer, faults, store, sweep, main, loops>>

Rotate ==
  /\ Running /\ rotating
  /\ \E fault \in Faults :
       /\ fault = NoFault \/ faults < MaxLogFaults
       /\ log' = rotate(log, fault)
       /\ faults' = IF fault = NoFault THEN faults ELSE faults + 1
  /\ rotating' = FALSE
  /\ UNCHANGED <<setup, now, request, reports, failed, lines, store, sweep, main, loops>>

-----------------------------------------------------------------------------
(* The sweep of the stored originals *)

Stored == {t \in Texts : disk[t] # Absent}

\* Mutant of Expired: one hour early.
ExpiredEarly(t) == disk[t].at <= sweep.cutoff

Expired(t) == disk[t].at < sweep.cutoff

Unlink(t) == [disk EXCEPT ![t] = Absent]

StartSweep ==
  /\ Running /\ retLoop = "runs" /\ ~sweep.on
  /\ sweep' = [on |-> TRUE, cutoff |-> now - setup.maxAge, todo |-> Stored, judged |-> NoText,
                seen |-> 0]
  /\ UNCHANGED <<setup, now, request, reports, failed, writer, rotating, faults, store, main, loops>>

\* Info reads the time of the file's last change.
Judge(t) ==
  /\ Running /\ sweep.on /\ sweep.judged = NoText
  /\ t \in sweep.todo
  /\ LET old == t \in Stored /\ Expired(t)
     IN sweep' = [sweep EXCEPT !.todo = @ \ {t},
                               !.judged = IF old THEN t ELSE NoText,
                               !.seen = IF old THEN disk[t].at ELSE 0]
  /\ UNCHANGED <<setup, now, request, reports, failed, writer, rotating, faults, store, main, loops>>

\* Remove takes the file as it is by then.
Remove ==
  /\ Running /\ sweep.judged # NoText
  /\ LET t == sweep.judged
     IN /\ disk' = Unlink(t)
        /\ raced' = IF disk[t].at = sweep.seen THEN raced ELSE raced \cup {t}
        /\ pc' = [r \in Requests |->
                    IF pc[r] = "writing" /\ Original(r) = t THEN "adrift" ELSE pc[r]]
  /\ sweep' = [sweep EXCEPT !.judged = NoText, !.seen = 0]
  /\ UNCHANGED <<setup, now, from, body, left, status, reports, failed, writer, rotating,
                 faults, saved, unsaved, diskFaults, main, loops>>

\* os.Remove fails: the file is left to the next sweep.
RemoveFails ==
  /\ Running /\ sweep.judged # NoText
  /\ sweep' = [sweep EXCEPT !.judged = NoText, !.seen = 0]
  /\ UNCHANGED <<setup, now, request, reports, failed, writer, rotating, faults, store, main, loops>>

EndSweep ==
  /\ Running /\ sweep.on /\ sweep.todo = {} /\ sweep.judged = NoText
  /\ sweep' = [sweep EXCEPT !.on = FALSE]
  /\ UNCHANGED <<setup, now, request, reports, failed, writer, rotating, faults, store, main, loops>>

-----------------------------------------------------------------------------
(* Main.  A signal makes Serve return at once; then the deferred calls run, *)
(* while the handlers go on until the process exits.                        *)

Signal ==
  /\ main = "serving"
  /\ main' = "closing retention"
  /\ UNCHANGED <<setup, now, request, reports, failed, writer, rotating, faults, store, sweep, loops>>

RetentionEnds ==
  /\ main = "closing retention" /\ retLoop = "runs" /\ ~sweep.on
  /\ retLoop' = "ended"
  /\ UNCHANGED <<setup, now, request, reports, failed, writer, rotating, faults, store, sweep,
                 main, rotLoop>>

RetentionClosed ==
  /\ main = "closing retention" /\ retLoop = "ended"
  /\ main' = "closing log"
  /\ UNCHANGED <<setup, now, request, reports, failed, writer, rotating, faults, store, sweep, loops>>

RotationEnds ==
  /\ main = "closing log" /\ rotLoop = "runs" /\ ~rotating
  /\ rotLoop' = "ended"
  /\ UNCHANGED <<setup, now, request, reports, failed, writer, rotating, faults, store, sweep,
                 main, retLoop>>

LogClosed ==
  /\ main = "closing log" /\ rotLoop = "ended"
  /\ log' = CloseFile(log)
  /\ main' = "closed"
  /\ UNCHANGED <<setup, now, request, reports, failed, lines, rotating, faults, store, sweep, loops>>

Exit ==
  /\ main = "closed"
  /\ main' = "exited"
  /\ UNCHANGED <<setup, now, request, reports, failed, writer, rotating, faults, store, sweep, loops>>

\* Nothing is left to happen.
Terminated == main = "exited" /\ UNCHANGED vars

Tick ==
  /\ Running /\ now < setup.hours
  /\ now' = now + 1
  /\ UNCHANGED <<setup, request, reports, failed, writer, rotating, faults, store, sweep, main, loops>>

Handler(r) ==
  \/ \E s \in setup.sessions, b \in setup.bodies : Receive(r, s, b)
  \/ Refuse(r) \/ Process(r)
  \/ OpenOriginal(r) \/ WriteOriginal(r) \/ LoseOriginal(r) \/ LoseOriginals(r)
  \/ Retry(r) \/ FetchFailed(r) \/ StreamFailed(r) \/ Answer(r) \/ Finish(r) \/ Abort(r)

Sweep == StartSweep \/ (\E t \in Texts : Judge(t)) \/ Remove \/ RemoveFails \/ EndSweep

Main ==
  \/ Signal \/ RetentionEnds \/ RetentionClosed \/ RotationEnds \/ LogClosed
  \/ Exit \/ Terminated

Next ==
  \/ \E r \in Requests : Handler(r)
  \/ CheckSize \/ Rotate
  \/ Sweep
  \/ Main
  \/ Tick

Spec == Init /\ [][Next]_vars
-----------------------------------------------------------------------------
(* Properties *)

Places == {"new", "received", "storing", "writing", "adrift", "sent", "answered",
           "finished", "aborted"}

\* The types, and the sizes that bound what the process keeps: the table of
\* sessions never outgrows maxTrackedSources (the comment in Record), and there
\* are never more than `keep' older log files.
TypeOK ==
  /\ setup \in Setups
  /\ now \in 1 .. setup.hours
  /\ pc \in [Requests -> Places]
  /\ from \in [Requests -> Sources \cup {NoSource}]
  /\ body \in [Requests -> Bodies \cup {NoBody}]
  /\ \A r \in Requests : left[r] \subseteq DOMAIN body[r].input
  /\ status \in [Requests -> {0, 200, 400, 503}]
  /\ Tracked(mon) \subseteq Sources /\ Cardinality(Tracked(mon)) <= maxTrackedSources
  /\ evicted \subseteq Sources /\ failed \subseteq Requests
  /\ log.handle \in {"open", "shut", "nil"} /\ DOMAIN log.files = 0 .. keep
  /\ rotating \in BOOLEAN
  /\ \A t \in Texts : disk[t].at \in 0 .. now /\ saved[t] \in 0 .. now
  /\ unsaved \subseteq Texts /\ raced \subseteq Texts
  /\ sweep.todo \subseteq Texts /\ sweep.judged \in Texts \cup {NoText}
  /\ main \in {"serving", "closing retention", "closing log", "closed", "exited"}
  /\ rotLoop \in {"runs", "ended"} /\ retLoop \in {"runs", "ended"}

Finished == {r \in Requests : pc[r] = "finished"}
Bad      == {r \in Finished : status[r] # 200}
Of(s, R) == {r \in R : from[r] = s}

\* The counters agree with what happened: a request is counted when it comes
\* and once more when it ends with an answer, so that the difference is what
\* is in flight and what was aborted; a status counts as not 200 only if it
\* was the last one (the success rate the dashboard shows stays within 0 and
\* 100 %), however many 429s came before it.
Balanced ==
  /\ mon.total.requests = Cardinality(Received)
  /\ mon.total.responses = Cardinality(Finished)
  /\ mon.total.non200 = Cardinality(Bad)
  /\ mon.total.errors = Cardinality(failed)

\* So does the statistic of a session that was never evicted.  One that comes
\* back after an eviction has lost what was counted before, and may have more
\* responses than requests; but it never has more of either than there were.
SessionsBalanced ==
  \A s \in Sources :
    IF s \in Tracked(mon)
    THEN LET stat == mon.sources[s]
         IN /\ stat.requests <= Cardinality(Of(s, Received))
            /\ stat.responses <= Cardinality(Of(s, Finished))
            /\ stat.non200 <= stat.responses
            /\ s \notin evicted =>
                 /\ stat.requests = Cardinality(Of(s, Received))
                 /\ stat.responses = Cardinality(Of(s, Finished))
                 /\ stat.errors = Cardinality(Of(s, failed))
    ELSE s \in evicted \/ Of(s, Received) = {}

CountsAreTrue == Balanced /\ SessionsBalanced

Increasing(q) == \A i, j \in DOMAIN q : i < j => q[i] < q[j]
In(j)         == {log.files[j][i] : i \in DOMAIN log.files[j]}
Kept          == UNION {In(j) : j \in 0 .. keep}
Interval(S)   == \A m, n \in S : m .. n \subseteq S

\* The files, read from the oldest to the newest, have the lines in the order
\* in which they were written, whatever fails in a rotation; while the writer
\* has a file, the newest one has the last lines without a gap.  If nothing
\* fails, no line is missing but the oldest, of files that `keep' newer ones
\* have pushed out, and the log never falls silent before Close.
LogIsWhole ==
  /\ \A j \in 0 .. keep : Increasing(log.files[j])
  /\ \A j, k \in 0 .. keep : j < k => \A m \in In(j), n \in In(k) : n < m
  /\ log.handle = "open" /\ In(0) # {} => Interval(In(0)) /\ lines \in In(0)
  /\ setup.rotation /\ faults = 0 =>
       /\ Interval(Kept)
       /\ main \notin {"closed", "exited"} =>
            /\ log.handle = "open" /\ lines \in Kept \cup {0}
            /\ 1 \in Kept \/ lines = 0 \/ \A j \in 1 .. keep : In(j) # {}

BeingWritten(t) == \E r \in Requests : pc[r] \in {"writing", "adrift"} /\ Original(r) = t

\* Is the text a shortened output refers to there for /headroom-lite/ to serve?
Retrievable(t) == disk[t].whole \/ BeingWritten(t)

WasSent(r) ==
  pc[r] \in {"sent", "answered", "finished", "aborted"} /\ status[r] # 400

\* When a request with a shortened output goes to the upstream its original is
\* in the store, and no sweep takes it away before it is older than maxAge, on
\* any path but these three: storing it failed when that was last tried; the
\* file is being written again at the moment, and torn until that is done; or
\* a sweep found an older file of the text expired and removed the newer one
\* that was there by then, which nothing in the code prevents.
OriginalsServed ==
  \A r \in Requests : WasSent(r) =>
    \A i \in DOMAIN body[r].input :
      LET shown == applyToRawBody(body[r])[i].output
      IN shown # body[r].input[i].output =>
           \/ Retrievable(shown.of)
           \/ setup.maxAge > 0 /\ saved[shown.of] + setup.maxAge < now
           \/ shown.of \in unsaved \cup raced
=============================================================================
