--------------------------- MODULE Service_proofs ---------------------------
(***************************************************************************)
(* Proofs about Service, for any number of requests, sessions, bodies and  *)
(* older log files, any limits on the table and the log, and any number of *)
(* failures.                                                               *)
(***************************************************************************)
EXTENDS Service, FiniteSetTheorems, SequenceTheorems, WellFoundedInduction, TLAPS

-----------------------------------------------------------------------------
(* Types in full *)

Stat == [requests : Nat, responses : Nat, retries429 : Nat, errors : Nat, non200 : Nat]

MonitorTyped ==
  /\ mon = [total |-> mon.total, sources |-> mon.sources, seen |-> mon.seen]
  /\ mon.total \in Stat
  /\ Tracked(mon) \subseteq Sources /\ IsFiniteSet(Tracked(mon))
  /\ Cardinality(Tracked(mon)) <= maxTrackedSources
  /\ mon.sources \in [Tracked(mon) -> Stat] /\ mon.seen \in [Tracked(mon) -> Nat]
  /\ evicted \subseteq Sources

RequestsTyped ==
  /\ pc \in [Requests -> Places]
  /\ from \in [Requests -> Sources \cup {NoSource}]
  /\ body \in [Requests -> Bodies \cup {NoBody}]
  /\ left \in [Requests -> SUBSET Nat]
  /\ status \in [Requests -> {0, 200, 400, 503}]
  /\ failed \subseteq Requests

\* Where a request is decides what else is known of it.
Placed(r) ==
  /\ pc[r] \in {"new", "received"} => left[r] = {}
  /\ pc[r] \in {"storing", "writing", "adrift"} => left[r] # {}
  /\ pc[r] \in {"sent", "answered", "finished", "aborted"} => left[r] = {}
  /\ pc[r] # "new" => body[r] \in Bodies /\ left[r] \subseteq Replaced(body[r])
  /\ pc[r] \in {"answered", "finished"} => status[r] # 0
  /\ pc[r] \notin {"answered", "finished"} => status[r] = 0 /\ r \notin failed

LogTyped ==
  /\ log \in [files : [0 .. keep -> Seq(Nat)], handle : {"open", "shut", "nil"}, size : Nat]
  /\ lines \in Nat /\ rotating \in BOOLEAN /\ faults \in Nat

StoreTyped ==
  /\ disk \in [Texts -> [at : 0 .. now, whole : BOOLEAN]]
  /\ saved \in [Texts -> 0 .. now]
  /\ unsaved \subseteq Texts /\ raced \subseteq Texts
  /\ sweep \in [on : BOOLEAN, cutoff : Int, todo : SUBSET Texts, judged : Texts \cup {NoText},
               seen : Nat]

MainTyped ==
  /\ setup \in Setups /\ now \in 1 .. setup.hours
  /\ main \in {"serving", "closing retention", "closing log", "closed", "exited"}
  /\ rotLoop \in {"runs", "ended"} /\ retLoop \in {"runs", "ended"}

Typed ==
  /\ MonitorTyped /\ RequestsTyped /\ LogTyped /\ StoreTyped /\ MainTyped
  /\ \A r \in Requests : Placed(r)

\* What is replaced in a body are places in it.
LEMMA ReplacedArePlaces ==
  ASSUME NEW b PROVE Replaced(b) \subseteq DOMAIN b.input
BY DEF Replaced, Accepted, collectCandidates

LEMMA TypedImpliesTypeOK == Typed => TypeOK
<1> SUFFICES ASSUME Typed PROVE TypeOK
  OBVIOUS
<1> USE DEF Typed
<1>1. \A r \in Requests : left[r] \subseteq DOMAIN body[r].input
  BY ReplacedArePlaces DEF Placed, RequestsTyped, Places
<1>2. DOMAIN log.files = 0 .. keep /\ log.handle \in {"open", "shut", "nil"}
  BY DEF LogTyped
<1>3. \A t \in Texts : disk[t].at \in 0 .. now /\ saved[t] \in 0 .. now
  BY DEF StoreTyped
<1> QED
  BY <1>1, <1>2, <1>3 DEF TypeOK, MonitorTyped, RequestsTyped, LogTyped, StoreTyped, MainTyped

LEMMA InitTyped == Init => Typed
<1> SUFFICES ASSUME Init PROVE Typed
  OBVIOUS
<1> USE DEF Init
<1>1. MonitorTyped
  <2>1. Tracked(mon) = {}
    BY DEF NewMonitor, Tracked
  <2>2. IsFiniteSet(Tracked(mon)) /\ Cardinality(Tracked(mon)) <= maxTrackedSources
    BY <2>1, FS_EmptySet, MonitorAssumption
  <2>3. mon.total \in Stat
    BY DEF NewMonitor, Zero, Stat
  <2>4. mon.sources \in [Tracked(mon) -> Stat] /\ mon.seen \in [Tracked(mon) -> Nat]
    BY <2>1 DEF NewMonitor
  <2> QED BY <2>1, <2>2, <2>3, <2>4 DEF MonitorTyped, NewMonitor
<1>2. RequestsTyped
  BY DEF RequestsTyped, Places
<1>3. LogTyped
  <2> DEFINE empty == [j \in 0 .. keep |-> <<>>]
             logs == [files : [0 .. keep -> Seq(Nat)], handle : {"open", "shut", "nil"}, size : Nat]
  <2>1. empty \in [0 .. keep -> Seq(Nat)]
    OBVIOUS
  <2> HIDE DEF empty
  <2>2. \A h \in {"open", "nil"} : [files |-> empty, handle |-> h, size |-> 0] \in logs
    BY <2>1
  <2>3. \/ log = [files |-> empty, handle |-> "open", size |-> 0]
        \/ log = [files |-> empty, handle |-> "nil", size |-> 0]
    BY DEF NewRotatingWriter, NoWriter, empty
  <2> QED BY <2>2, <2>3 DEF LogTyped
<1>4. now = 1 /\ setup \in Setups /\ setup.hours \in Nat \ {0}
  BY ServiceAssumption
<1>5. StoreTyped
  <2>1. disk \in [Texts -> [at : 0 .. now, whole : BOOLEAN]]
    BY <1>4 DEF Absent
  <2>2. saved \in [Texts -> 0 .. now]
    BY <1>4
  <2> QED BY <2>1, <2>2 DEF StoreTyped
<1>6. MainTyped
  BY <1>4 DEF MainTyped
<1>7. \A r \in Requests : Placed(r)
  BY DEF Placed
<1> QED BY <1>1, <1>2, <1>3, <1>5, <1>6, <1>7 DEF Typed

-----------------------------------------------------------------------------
(* What a step may do to each part *)

\* The events a handler reports.
Names == {"request_received", "upstream_retry", "upstream_fetch_failed",
          "stream_retryable_error_detected", "request_finish"}
Events == [name : Names, status : Nat, isError : BOOLEAN, source : Sources \cup {NoSource}]

\* A step of writeOriginals.
AtOriginals(r) ==
  OpenOriginal(r) \/ WriteOriginal(r) \/ LoseOriginal(r) \/ LoseOriginals(r)

LEMMA MonitorSteps ==
  ASSUME RequestsTyped, MainTyped, [Next]_vars
  PROVE  (\E e \in Events : Records(e)) \/ UNCHANGED reports
<1> USE DEF RequestsTyped
<1>1. ASSUME NEW r \in Requests, Handler(r) PROVE (\E e \in Events : Records(e)) \/ UNCHANGED reports
  <2>1. ASSUME NEW s \in setup.sessions, NEW b \in setup.bodies, Receive(r, s, b)
        PROVE  \E e \in Events : Records(e)
    <3>1. s \in Sources \cup {NoSource}
      BY ServiceAssumption DEF MainTyped
    <3>2. Event("request_received", 0, FALSE, s) \in Events
      BY <3>1 DEF Event, Events, Names
    <3> QED BY <2>1, <3>2 DEF Receive
  <2> from[r] \in Sources \cup {NoSource} /\ status[r] \in Nat
    OBVIOUS
  <2>2. CASE Retry(r)
    <3>1. Event("upstream_retry", 429, FALSE, from[r]) \in Events
      BY DEF Event, Events, Names
    <3> QED BY <2>2, <3>1 DEF Retry
  <2>3. CASE FetchFailed(r)
    <3>1. Event("upstream_fetch_failed", 0, TRUE, from[r]) \in Events
      BY DEF Event, Events, Names
    <3> QED BY <2>3, <3>1 DEF FetchFailed, Fails
  <2>4. CASE StreamFailed(r)
    <3>1. Event("stream_retryable_error_detected", 200, TRUE, from[r]) \in Events
      BY DEF Event, Events, Names
    <3> QED BY <2>4, <3>1 DEF StreamFailed, Fails
  <2>5. CASE Finish(r)
    <3>1. Event("request_finish", status[r], FALSE, from[r]) \in Events
      BY DEF Event, Events, Names
    <3> QED BY <2>5, <3>1 DEF Finish
  <2>6. CASE Refuse(r) \/ Process(r) \/ AtOriginals(r) \/ Answer(r) \/ Abort(r)
    BY <2>6 DEF Refuse, Process, AtOriginals, OpenOriginal, WriteOriginal, LoseOriginal,
       LoseOriginals, Answer, Abort
  <2> QED BY <1>1, <2>1, <2>2, <2>3, <2>4, <2>5, <2>6 DEF Handler, AtOriginals
<1>2. CASE CheckSize \/ Rotate \/ Tick
  BY <1>2 DEF CheckSize, Rotate, Tick
<1>3. CASE Sweep
  BY <1>3 DEF Sweep, StartSweep, Judge, Remove, RemoveFails, EndSweep
<1>4. CASE Main
  BY <1>4 DEF Main, Signal, RetentionEnds, RetentionClosed, RotationEnds, LogClosed, Exit,
     Terminated, vars
<1>5. CASE UNCHANGED vars
  BY <1>5 DEF vars
<1> QED BY <1>1, <1>2, <1>3, <1>4, <1>5 DEF Next

LEMMA LogSteps ==
  ASSUME [Next]_vars
  PROVE  \/ Says /\ UNCHANGED <<rotating, faults>>
         \/ CheckSize
         \/ Rotate
         \/ LogClosed
         \/ UNCHANGED <<log, lines, rotating, faults>>
<1>1. ASSUME NEW r \in Requests, Handler(r)
      PROVE  \/ Says /\ UNCHANGED <<rotating, faults>>
             \/ UNCHANGED <<log, lines, rotating, faults>>
  BY <1>1 DEF Handler, Receive, Refuse, Process, OpenOriginal, WriteOriginal, LoseOriginal,
     LoseOriginals, Retry, FetchFailed, StreamFailed, Fails, Answer, Finish, Abort, writer
<1>2. CASE Sweep \/ Tick
  BY <1>2 DEF Sweep, StartSweep, Judge, Remove, RemoveFails, EndSweep, Tick, writer
<1>3. CASE Main
  BY <1>3 DEF Main, Signal, RetentionEnds, RetentionClosed, RotationEnds, Exit,
     Terminated, vars, writer
<1>4. CASE UNCHANGED vars
  BY <1>4 DEF vars, writer
<1> QED BY <1>1, <1>2, <1>3, <1>4 DEF Next

\* The store, the sweep and the clock, or the rest.
LEMMA StoreSteps ==
  ASSUME [Next]_vars
  PROVE  \/ \E r \in Requests : AtOriginals(r)
         \/ Sweep
         \/ Tick
         \/ UNCHANGED <<store, sweep, now>>
<1>1. ASSUME NEW r \in Requests, Handler(r)
      PROVE  AtOriginals(r) \/ UNCHANGED <<store, sweep, now>>
  BY <1>1 DEF Handler, AtOriginals, Receive, Refuse, Process, Retry, FetchFailed, StreamFailed,
     Fails, Answer, Finish, Abort
<1>2. CASE CheckSize \/ Rotate
  BY <1>2 DEF CheckSize, Rotate
<1>3. CASE Main
  BY <1>3 DEF Main, Signal, RetentionEnds, RetentionClosed, RotationEnds, LogClosed, Exit,
     Terminated, vars
<1>4. CASE UNCHANGED vars
  BY <1>4 DEF vars
<1> QED BY <1>1, <1>2, <1>3, <1>4 DEF Next

LEMMA RequestSteps ==
  ASSUME [Next]_vars
  PROVE  \/ \E r \in Requests : Handler(r)
         \/ Remove
         \/ UNCHANGED <<request, failed>>
<1>1. CASE CheckSize \/ Rotate \/ Tick
  BY <1>1 DEF CheckSize, Rotate, Tick
<1>2. CASE Sweep
  BY <1>2 DEF Sweep, StartSweep, Judge, RemoveFails, EndSweep
<1>3. CASE Main
  BY <1>3 DEF Main, Signal, RetentionEnds, RetentionClosed, RotationEnds, LogClosed, Exit,
     Terminated, vars
<1>4. CASE UNCHANGED vars
  BY <1>4 DEF vars
<1> QED BY <1>1, <1>2, <1>3, <1>4 DEF Next

LEMMA MainSteps ==
  ASSUME [Next]_vars
  PROVE  /\ UNCHANGED setup
         /\ Main \/ UNCHANGED <<main, loops>>
         /\ Tick \/ UNCHANGED now
<1>1. ASSUME NEW r \in Requests, Handler(r)
      PROVE  UNCHANGED <<setup, now, main, loops>>
  BY <1>1 DEF Handler, Receive, Refuse, Process, OpenOriginal, WriteOriginal, LoseOriginal,
     LoseOriginals, Retry, FetchFailed, StreamFailed, Fails, Answer, Finish, Abort
<1>2. CASE CheckSize \/ Rotate
  BY <1>2 DEF CheckSize, Rotate
<1>3. CASE Sweep
  BY <1>3 DEF Sweep, StartSweep, Judge, Remove, RemoveFails, EndSweep
<1>4. CASE Main
  BY <1>4 DEF Main, Signal, RetentionEnds, RetentionClosed, RotationEnds, LogClosed, Exit,
     Terminated, vars
<1>5. CASE Tick
  BY <1>5 DEF Tick
<1>6. CASE UNCHANGED vars
  BY <1>6 DEF vars
<1> QED BY <1>1, <1>2, <1>3, <1>4, <1>5, <1>6 DEF Next

-----------------------------------------------------------------------------
(* The monitor *)

LEMMA CountedTyped ==
  ASSUME NEW stat \in Stat, NEW e PROVE Counted(stat, e) \in Stat
BY DEF Stat, Counted, One

\* The table an event leaves: who is in it, and that it has not outgrown its limit.
LEMMA RecordMeans ==
  ASSUME MonitorTyped, NEW e \in Events, Records(e)
  PROVE  /\ mon' = [total |-> mon'.total, sources |-> mon'.sources, seen |-> mon'.seen]
         /\ mon'.total = Counted(mon.total, e)
         /\ Tracked(mon)' \subseteq Tracked(mon) \cup {e.source}
         /\ e.source \in Sources => e.source \in Tracked(mon)'
         /\ Tracked(mon)' \subseteq Sources
         /\ IsFiniteSet(Tracked(mon)') /\ Cardinality(Tracked(mon)') <= maxTrackedSources
         /\ mon'.sources = [s \in Tracked(mon)' |->
                              IF s = e.source
                              THEN Counted(IF s \in Tracked(mon) THEN mon.sources[s] ELSE Zero, e)
                              ELSE mon.sources[s]]
         /\ mon'.seen = [s \in Tracked(mon)' |-> IF s = e.source THEN now ELSE mon.seen[s]]
         /\ evicted' = evicted \cup (Tracked(mon) \ Tracked(mon)')
<1> DEFINE Table(k) == k \cup ({e.source} \ {NoSource})
<1>1. PICK kept \in WithRoom(mon, e) :
        mon' = [total   |-> Counted(mon.total, e),
                sources |-> [s \in Table(kept) |->
                               IF s = e.source
                               THEN Counted(IF s \in Tracked(mon) THEN mon.sources[s] ELSE Zero, e)
                               ELSE IF s \in Tracked(mon) THEN mon.sources[s] ELSE Zero],
                seen    |-> [s \in Table(kept) |-> IF s = e.source THEN now ELSE mon.seen[s]]]
  BY DEF Records, Record
<1>2. e.source \in Sources \cup {NoSource}
  BY DEF Events
<1>3. kept \subseteq Tracked(mon)
  BY DEF WithRoom
<1>4. Tracked(mon)' = Table(kept)
  BY <1>1 DEF Tracked
<1>5. IsFiniteSet(Table(kept)) /\ Cardinality(Table(kept)) <= maxTrackedSources
  <2> USE MonitorAssumption DEF MonitorTyped
  <2>1. Cardinality(Tracked(mon)) \in Nat
    BY FS_CardinalityType
  <2>2. CASE kept = Tracked(mon) /\ (e.source = NoSource \/ e.source \in Tracked(mon))
    <3>1. Table(kept) = Tracked(mon)
      BY <2>2
    <3> QED BY <3>1
  <2>3. CASE kept = Tracked(mon) /\ Cardinality(Tracked(mon)) < maxTrackedSources
    <3>1. Table(kept) = Tracked(mon) \/ Table(kept) = Tracked(mon) \cup {e.source}
      BY <2>3
    <3>2. /\ IsFiniteSet(Tracked(mon) \cup {e.source})
          /\ Cardinality(Tracked(mon) \cup {e.source}) \in Nat
          /\ Cardinality(Tracked(mon) \cup {e.source}) <= Cardinality(Tracked(mon)) + 1
      BY <2>1, FS_AddElement
    <3> HIDE DEF Table
    <3> QED BY <2>1, <2>3, <3>1, <3>2
  <2>4. ASSUME NEW s \in Tracked(mon), kept = Tracked(mon) \ {s}, e.source \notin Tracked(mon),
               e.source # NoSource
        PROVE  IsFiniteSet(Table(kept)) /\ Cardinality(Table(kept)) <= maxTrackedSources
    <3>1. Table(kept) = kept \cup {e.source} /\ e.source \notin kept
      BY <2>4
    <3>2. IsFiniteSet(kept) /\ Cardinality(kept) = Cardinality(Tracked(mon)) - 1
      BY <2>4, FS_RemoveElement
    <3> HIDE DEF Table
    <3> QED BY <2>1, <3>1, <3>2, FS_AddElement
  <2> HIDE DEF Table
  <2> QED BY <2>2, <2>3, <2>4 DEF WithRoom, Oldest
<1>6. e.source \in Sources => e.source \in Table(kept)
  BY MonitorAssumption
<1>7. \A s \in Table(kept) : s # e.source => s \in Tracked(mon)
  BY <1>3
<1>8. Table(kept) \subseteq Tracked(mon) \cup {e.source} /\ Table(kept) \subseteq Sources
  BY <1>2, <1>3 DEF MonitorTyped
<1>9. mon'.sources = [s \in Table(kept) |->
                        IF s = e.source
                        THEN Counted(IF s \in Tracked(mon) THEN mon.sources[s] ELSE Zero, e)
                        ELSE mon.sources[s]]
  BY <1>1, <1>7
<1>10. evicted' = evicted \cup (Tracked(mon) \ Tracked(mon'))
  BY DEF Records
<1>11. Tracked(mon)' = Tracked(mon')
  BY DEF Tracked
<1> HIDE DEF Table
<1> QED BY <1>1, <1>4, <1>5, <1>6, <1>8, <1>9, <1>10, <1>11

LEMMA RecordTyped ==
  ASSUME MonitorTyped, now \in Nat, NEW e \in Events, Records(e)
  PROVE  MonitorTyped'
<1>1. Zero \in Stat
  BY DEF Zero, Stat
<1>2. mon'.total \in Stat
  <2>1. mon'.total = Counted(mon.total, e)
    BY RecordMeans
  <2> QED BY <2>1, CountedTyped DEF MonitorTyped
<1>3. mon'.sources \in [Tracked(mon)' -> Stat]
  <2>1. \A s \in Tracked(mon)' :
          (IF s = e.source
           THEN Counted(IF s \in Tracked(mon) THEN mon.sources[s] ELSE Zero, e)
           ELSE mon.sources[s]) \in Stat
    <3> TAKE s \in Tracked(mon)'
    <3>1. s # e.source => s \in Tracked(mon)
      BY RecordMeans
    <3>2. s \in Tracked(mon) => mon.sources[s] \in Stat
      BY DEF MonitorTyped
    <3> DEFINE old == IF s \in Tracked(mon) THEN mon.sources[s] ELSE Zero
    <3>3. old \in Stat
      BY <1>1, <3>2
    <3> HIDE DEF old
    <3>4. Counted(old, e) \in Stat
      BY <3>3, CountedTyped
    <3> QED BY <3>1, <3>2, <3>4 DEF old
  <2>2. mon'.sources = [s \in Tracked(mon)' |->
                         IF s = e.source
                         THEN Counted(IF s \in Tracked(mon) THEN mon.sources[s] ELSE Zero, e)
                         ELSE mon.sources[s]]
    BY RecordMeans
  <2> QED BY <2>1, <2>2
<1>4. mon'.seen \in [Tracked(mon)' -> Nat]
  <2>1. \A s \in Tracked(mon)' : (IF s = e.source THEN now ELSE mon.seen[s]) \in Nat
    BY RecordMeans DEF MonitorTyped
  <2> QED BY <2>1, RecordMeans
<1>5. evicted' \subseteq Sources
  BY RecordMeans DEF MonitorTyped
<1> QED BY <1>2, <1>3, <1>4, <1>5, RecordMeans DEF MonitorTyped

-----------------------------------------------------------------------------
(* The log *)

Files == [0 .. keep -> Seq(Nat)]
Logs == [files : Files, handle : {"open", "shut", "nil"}, size : Nat]

LEMMA WriteTyped ==
  ASSUME NEW w \in Logs, NEW n \in Nat
  PROVE  /\ Write(w, n) \in Logs
         /\ w.handle # "open" => Write(w, n) = w
         /\ w.handle = "open" =>
              Write(w, n) = [files |-> [w.files EXCEPT ![0] = Append(@, n)],
                             handle |-> "open", size |-> w.size + 1]
<1>1. w.files \in Files /\ w.size \in Nat /\ 0 \in 0 .. keep
  BY LogAssumption DEF Logs
<1>2. [w.files EXCEPT ![0] = Append(@, n)] \in Files
  <2>1. w.files[0] \in Seq(Nat)
    BY <1>1 DEF Files
  <2>2. Append(w.files[0], n) \in Seq(Nat)
    BY <2>1, AppendProperties
  <2> QED BY <1>1, <2>2 DEF Files
<1>3. w.handle = "open" =>
        Write(w, n) = [files |-> [w.files EXCEPT ![0] = Append(@, n)],
                       handle |-> "open", size |-> w.size + 1]
  BY DEF Write, Logs
<1>4. w.handle # "open" => Write(w, n) = w
  BY DEF Write
<1>5. ASSUME NEW f \in Files, NEW k \in Nat
      PROVE  [files |-> f, handle |-> "open", size |-> k] \in Logs
  BY DEF Logs
<1>6. w.handle = "open" => Write(w, n) \in Logs
  BY <1>1, <1>2, <1>3, <1>5
<1> QED BY <1>3, <1>4, <1>6

\* What a rotation leaves in each file.
LEMMA ShiftedMeans ==
  ASSUME NEW f \in Files, NEW stuck
  PROVE  LET moves(j) == j \in 0 .. keep - 1 /\ j \notin stuck /\ f[j] # <<>>
         IN  /\ Shifted(f, stuck) \in Files
             /\ \A j \in 0 .. keep :
                  Shifted(f, stuck)[j] = IF moves(j - 1) THEN f[j - 1]
                                         ELSE IF moves(j) THEN <<>> ELSE f[j]
<1> DEFINE moves(j) == j \in 0 .. keep - 1 /\ j \notin stuck /\ f[j] # <<>>
           new(j) == IF moves(j - 1) THEN f[j - 1] ELSE IF moves(j) THEN <<>> ELSE f[j]
<1>1. \A j \in 0 .. keep : new(j) \in Seq(Nat)
  <2> TAKE j \in 0 .. keep
  <2>1. f[j] \in Seq(Nat)
    BY DEF Files
  <2>2. moves(j - 1) => f[j - 1] \in Seq(Nat)
    BY LogAssumption DEF Files
  <2>3. <<>> \in Seq(Nat)
    OBVIOUS
  <2> HIDE DEF moves
  <2> QED BY <2>1, <2>2, <2>3
<1>2. Shifted(f, stuck) = [j \in 0 .. keep |-> new(j)]
  BY DEF Shifted
<1> HIDE DEF new
<1>3. Shifted(f, stuck) \in Files /\ \A j \in 0 .. keep : Shifted(f, stuck)[j] = new(j)
  BY <1>1, <1>2 DEF Files
<1> QED BY <1>3 DEF new

LEMMA RotateMeans ==
  ASSUME NEW w \in Logs, NEW fault \in Faults
  PROVE  \/ rotate(w, fault) = w
         \/ /\ fault.close
            /\ rotate(w, fault) = [files |-> w.files, handle |-> "shut", size |-> w.size]
         \/ /\ w.handle = "open" /\ ~fault.close
            /\ rotate(w, fault) = [files |-> Shifted(w.files, fault.stuck),
                                   handle |-> IF fault.open THEN "nil" ELSE "open",
                                   size |-> IF fault.open THEN w.size ELSE 0]
BY DEF rotate, Logs, Faults

LEMMA RotateTyped ==
  ASSUME NEW w \in Logs, NEW fault \in Faults
  PROVE  rotate(w, fault) \in Logs
<1>1. w.files \in Files /\ w.size \in Nat
  BY DEF Logs
<1>2. Shifted(w.files, fault.stuck) \in Files
  BY <1>1, ShiftedMeans
<1>3. ASSUME NEW f \in Files, NEW h \in {"open", "shut", "nil"}, NEW k \in Nat
      PROVE  [files |-> f, handle |-> h, size |-> k] \in Logs
  BY <1>3 DEF Logs
<1> QED BY <1>1, <1>2, <1>3, RotateMeans

LEMMA NextLogTyped ==
  ASSUME LogTyped, [Next]_vars
  PROVE  LogTyped'
<1> USE DEF LogTyped
<1>0. log \in Logs
  BY DEF Logs, Files
<1>1. CASE Says /\ UNCHANGED <<rotating, faults>>
  <2>1. lines + 1 \in Nat
    OBVIOUS
  <2>2. Write(log, lines + 1) \in Logs
    BY <1>0, <2>1, WriteTyped
  <2> QED BY <1>1, <2>1, <2>2 DEF Says, writer, Logs, Files
<1>2. CASE CheckSize
  BY <1>2 DEF CheckSize, writer
<1>3. CASE Rotate
  <2>1. PICK fault \in Faults : log' = rotate(log, fault)
    BY <1>3 DEF Rotate
  <2>2. log' \in Logs
    BY <1>0, <2>1, RotateTyped
  <2>3. faults' \in Nat /\ rotating' = FALSE /\ lines' = lines
    BY <1>3 DEF Rotate
  <2> QED BY <2>2, <2>3 DEF Logs, Files
<1>4. CASE LogClosed
  <2>1. CloseFile(log) \in Logs
    BY <1>0 DEF CloseFile, Logs
  <2> QED BY <1>4, <2>1 DEF LogClosed, Logs, Files
<1>5. CASE UNCHANGED <<log, lines, rotating, faults>>
  BY <1>5
<1> QED BY <1>1, <1>2, <1>3, <1>4, <1>5, LogSteps

-----------------------------------------------------------------------------
(* The requests *)

LEMMA NextRequestsTyped ==
  ASSUME RequestsTyped, MainTyped, \A r \in Requests : Placed(r), [Next]_vars
  PROVE  RequestsTyped'
<1> USE DEF RequestsTyped, At, Goto, Places
<1>1. ASSUME NEW r \in Requests, NEW s \in setup.sessions, NEW b \in setup.bodies, Receive(r, s, b)
      PROVE  RequestsTyped'
  <2>1. s \in Sources \cup {NoSource}
    BY ServiceAssumption DEF MainTyped
  <2>2. setup.bodies \in {t.bodies : t \in Setups}
    BY DEF MainTyped
  <2>3. b \in Bodies
    BY <2>2 DEF Bodies
  <2> QED BY <1>1, <2>1, <2>3 DEF Receive
<1>2. ASSUME NEW r \in Requests, Refuse(r) PROVE RequestsTyped'
  BY <1>2 DEF Refuse
<1>3. ASSUME NEW r \in Requests, Process(r) PROVE RequestsTyped'
  <2>1. body[r] \in Bodies
    BY <1>3 DEF Process, Placed
  <2>2. DOMAIN body[r].input \subseteq Nat
    BY <2>1, ServiceAssumption
  <2>3. Replaced(body[r]) \subseteq Nat
    BY <2>2, ReplacedArePlaces
  <2> QED BY <1>3, <2>3 DEF Process
<1>4. ASSUME NEW r \in Requests, OpenOriginal(r) PROVE RequestsTyped'
  BY <1>4 DEF OpenOriginal
<1>5. ASSUME NEW r \in Requests, WriteOriginal(r) PROVE RequestsTyped'
  BY <1>5 DEF WriteOriginal, NextOriginal
<1>6. ASSUME NEW r \in Requests, LoseOriginal(r) PROVE RequestsTyped'
  BY <1>6 DEF LoseOriginal, NextOriginal
<1>14. ASSUME NEW r \in Requests, LoseOriginals(r) PROVE RequestsTyped'
  BY <1>14 DEF LoseOriginals
<1>7. ASSUME NEW r \in Requests, Retry(r) PROVE RequestsTyped'
  BY <1>7 DEF Retry, request
<1>8. ASSUME NEW r \in Requests, NEW name, NEW st, Fails(r, name, st) PROVE RequestsTyped'
  BY <1>8 DEF Fails
<1>9. ASSUME NEW r \in Requests, Answer(r) PROVE RequestsTyped'
  BY <1>9 DEF Answer
<1>10. ASSUME NEW r \in Requests, Finish(r) PROVE RequestsTyped'
  BY <1>10 DEF Finish
<1>11. ASSUME NEW r \in Requests, Abort(r) PROVE RequestsTyped'
  BY <1>11 DEF Abort
<1>12. CASE Remove
  BY <1>12 DEF Remove
<1>13. CASE UNCHANGED <<request, failed>>
  BY <1>13 DEF request
<1> QED
  BY <1>1, <1>2, <1>3, <1>4, <1>5, <1>6, <1>7, <1>8, <1>9, <1>10, <1>11, <1>12, <1>13, <1>14,
     RequestSteps DEF Handler, FetchFailed, StreamFailed

LEMMA StaysPlaced ==
  ASSUME NEW r \in Requests, Placed(r), pc'[r] = pc[r], body'[r] = body[r],
         left'[r] = left[r], status'[r] = status[r], r \in failed' <=> r \in failed
  PROVE  Placed(r)'
BY DEF Placed

LEMMA HandlerPlaced ==
  ASSUME RequestsTyped, MainTyped, NEW r \in Requests, Placed(r), Handler(r)
  PROVE  Placed(r)'
<1> USE DEF RequestsTyped, At, Goto, Places, Placed
<1>1. ASSUME NEW s \in setup.sessions, NEW b \in setup.bodies, Receive(r, s, b)
      PROVE  Placed(r)'
  <2>1. setup.bodies \in {t.bodies : t \in Setups}
    BY DEF MainTyped
  <2>2. b \in Bodies
    BY <2>1 DEF Bodies
  <2> QED BY <1>1, <2>2 DEF Receive
<1>2. CASE Refuse(r)
  BY <1>2 DEF Refuse
<1>3. CASE Process(r)
  BY <1>3 DEF Process
<1>4. CASE OpenOriginal(r)
  BY <1>4 DEF OpenOriginal
<1>5. CASE WriteOriginal(r)
  BY <1>5 DEF WriteOriginal, NextOriginal
<1>6. CASE LoseOriginal(r)
  BY <1>6 DEF LoseOriginal, NextOriginal
<1>12. CASE LoseOriginals(r)
  BY <1>12 DEF LoseOriginals
<1>7. CASE Retry(r)
  BY <1>7 DEF Retry, request
<1>8. ASSUME NEW name, NEW st, Fails(r, name, st) PROVE Placed(r)'
  BY <1>8 DEF Fails
<1>9. CASE Answer(r)
  BY <1>9 DEF Answer
<1>10. CASE Finish(r)
  BY <1>10 DEF Finish
<1>11. CASE Abort(r)
  BY <1>11 DEF Abort
<1> QED
  BY <1>1, <1>2, <1>3, <1>4, <1>5, <1>6, <1>7, <1>8, <1>9, <1>10, <1>11, <1>12
     DEF Handler, FetchFailed, StreamFailed

\* A handler's step is about its own request.
LEMMA HandlerIsAlone ==
  ASSUME RequestsTyped, NEW r \in Requests, Handler(r), NEW p \in Requests, p # r
  PROVE  /\ pc'[p] = pc[p] /\ from'[p] = from[p] /\ body'[p] = body[p]
         /\ left'[p] = left[p] /\ status'[p] = status[p]
         /\ p \in failed' <=> p \in failed
<1> USE DEF RequestsTyped, Goto
<1>1. ASSUME NEW s \in setup.sessions, NEW b \in setup.bodies, Receive(r, s, b)
      PROVE  /\ pc'[p] = pc[p] /\ from'[p] = from[p] /\ body'[p] = body[p]
             /\ UNCHANGED <<left, status, failed>>
  BY <1>1 DEF Receive
<1>2. CASE Refuse(r) \/ Answer(r)
  BY <1>2 DEF Refuse, Answer
<1>3. CASE Process(r)
  BY <1>3 DEF Process
<1>4. CASE OpenOriginal(r)
  BY <1>4 DEF OpenOriginal
<1>8. CASE Finish(r)
  BY <1>8 DEF Finish
<1>9. CASE Abort(r)
  BY <1>9 DEF Abort
<1>5. CASE WriteOriginal(r) \/ LoseOriginal(r) \/ LoseOriginals(r)
  BY <1>5 DEF WriteOriginal, LoseOriginal, LoseOriginals, NextOriginal
<1>6. CASE Retry(r)
  BY <1>6 DEF Retry, request
<1>7. ASSUME NEW name, NEW st, Fails(r, name, st)
      PROVE  /\ pc'[p] = pc[p] /\ status'[p] = status[p]
             /\ UNCHANGED <<from, body, left>>
             /\ p \in failed' <=> p \in failed
  BY <1>7 DEF Fails
<1> QED
  BY <1>1, <1>2, <1>3, <1>4, <1>5, <1>6, <1>7, <1>8, <1>9 DEF Handler, FetchFailed, StreamFailed

LEMMA NextPlaced ==
  ASSUME RequestsTyped, MainTyped, \A r \in Requests : Placed(r), [Next]_vars,
         NEW p \in Requests
  PROVE  Placed(p)'
<1>1. ASSUME NEW r \in Requests, Handler(r) PROVE Placed(p)'
  <2>1. CASE r = p
    BY <1>1, <2>1, HandlerPlaced
  <2>2. CASE r # p
    BY <1>1, <2>2, HandlerIsAlone, StaysPlaced
  <2> QED BY <2>1, <2>2
<1>2. CASE Remove
  BY <1>2 DEF Remove, Placed, RequestsTyped
<1>3. CASE UNCHANGED <<request, failed>>
  BY <1>3, StaysPlaced DEF request
<1> QED BY <1>1, <1>2, <1>3, RequestSteps

-----------------------------------------------------------------------------
(* The store and Main *)

LEMMA NextMainTyped ==
  ASSUME MainTyped, [Next]_vars
  PROVE  MainTyped' /\ now \in Nat /\ now' \in Nat /\ now <= now'
<1>0. setup.hours \in Nat /\ now \in 1 .. setup.hours /\ setup \in Setups
  BY ServiceAssumption DEF MainTyped
<1>1. setup' = setup
  BY MainSteps
<1>2. now' \in 1 .. setup.hours /\ now <= now' /\ now \in Nat /\ now' \in Nat
  <2>1. ASSUME NEW h \in Nat, NEW n \in 1 .. h, NEW m, m = n \/ (m = n + 1 /\ n < h)
        PROVE  m \in 1 .. h /\ n <= m /\ n \in Nat /\ m \in Nat
    BY <2>1
  <2>2. now' = now \/ (now' = now + 1 /\ now < setup.hours)
    BY MainSteps DEF Tick
  <2> QED BY <1>0, <2>1, <2>2
<1>3. /\ main' \in {"serving", "closing retention", "closing log", "closed", "exited"}
      /\ rotLoop' \in {"runs", "ended"} /\ retLoop' \in {"runs", "ended"}
  <2> USE DEF MainTyped
  <2>1. CASE Main
    BY <2>1 DEF Main, Signal, RetentionEnds, RetentionClosed, RotationEnds, LogClosed, Exit,
       Terminated, vars, loops
  <2>2. CASE UNCHANGED <<main, loops>>
    BY <2>2 DEF loops
  <2> QED BY <2>1, <2>2, MainSteps
<1> QED BY <1>0, <1>1, <1>2, <1>3 DEF MainTyped

LEMMA LeastElement ==
  ASSUME NEW S \in SUBSET Nat, S # {}
  PROVE  \E i \in S : \A j \in S : i <= j
<1>1. PICK i \in S : \A j \in S : ~(<<j, i>> \in OpToRel(<, Nat))
  BY NatLessThanWellFounded, WFMin
<1>2. \A j \in S : ~(j < i)
  BY <1>1 DEF OpToRel
<1> QED BY <1>2

\* The place writeOriginals is at, and the text it finds there.
LEMMA OriginalIsText ==
  ASSUME RequestsTyped, NEW r \in Requests, Placed(r), pc[r] \in {"storing", "writing", "adrift"}
  PROVE  Place(r) \in left[r] /\ Original(r) \in Texts
<1>1. body[r] \in Bodies /\ left[r] # {} /\ left[r] \in SUBSET Nat /\ left[r] \subseteq Replaced(body[r])
  BY DEF Placed, RequestsTyped
<1>2. \E i \in left[r] : \A j \in left[r] : i <= j
  BY <1>1, LeastElement
<1>3. Place(r) \in left[r]
  BY <1>2 DEF Place
<1>4. Original(r) \in Originals(body[r])
  BY <1>1, <1>3 DEF Original, Originals
<1> QED BY <1>1, <1>3, <1>4 DEF Texts

LEMMA NextStoreTyped ==
  ASSUME StoreTyped, MainTyped, RequestsTyped, \A r \in Requests : Placed(r), [Next]_vars
  PROVE  StoreTyped'
<1> DEFINE File(n) == [at : 0 .. n, whole : BOOLEAN]
<1>0. now \in Nat /\ now' \in Nat /\ now <= now'
  BY NextMainTyped
<1>1. disk \in [Texts -> File(now')] /\ saved \in [Texts -> 0 .. now']
  <2>1. 0 .. now \subseteq 0 .. now'
    BY <1>0
  <2> QED BY <2>1 DEF StoreTyped
<1>2. Absent \in File(now') /\ \A b \in BOOLEAN : [at |-> now', whole |-> b] \in File(now')
  BY <1>0 DEF Absent
<1>3. now' \in 0 .. now'
  BY <1>0
<1> DEFINE StoreOK == /\ disk' \in [Texts -> File(now')] /\ saved' \in [Texts -> 0 .. now']
                      /\ unsaved' \subseteq Texts /\ raced' \subseteq Texts
           SweepOK == sweep' \in [on : BOOLEAN, cutoff : Int, todo : SUBSET Texts,
                                   judged : Texts \cup {NoText}, seen : Nat]
<1>4. StoreOK /\ SweepOK => StoreTyped'
  BY DEF StoreTyped
<1> HIDE DEF File
<1>5. ASSUME NEW r \in Requests, OpenOriginal(r) PROVE StoreOK /\ SweepOK
  <2>1. Original(r) \in Texts
    BY <1>5, OriginalIsText DEF OpenOriginal, At
  <2>2. now' = now
    BY <1>5 DEF OpenOriginal
  <2>3. [at |-> now, whole |-> FALSE] \in File(now')
    BY <1>2, <2>2
  <2>4. disk' = [disk EXCEPT ![Original(r)] = [at |-> now, whole |-> FALSE]]
    BY <1>5 DEF OpenOriginal
  <2>5. disk' \in [Texts -> File(now')]
    BY <1>1, <2>3, <2>4
  <2> QED BY <1>1, <1>5, <2>5 DEF OpenOriginal, StoreTyped
<1>6. ASSUME NEW r \in Requests, WriteOriginal(r) PROVE StoreOK /\ SweepOK
  <2>1. Original(r) \in Texts
    BY <1>6, OriginalIsText DEF WriteOriginal
  <2>2. now' = now
    BY <1>6 DEF WriteOriginal
  <2>3. [at |-> now, whole |-> TRUE] \in File(now')
    BY <1>2, <2>2
  <2>4. disk' = [disk EXCEPT ![Original(r)] = [at |-> now, whole |-> TRUE]] \/ disk' = disk
    BY <1>6 DEF WriteOriginal
  <2>5. disk' \in [Texts -> File(now')]
    BY <1>1, <2>3, <2>4
  <2>6. saved' = [saved EXCEPT ![Original(r)] = now]
    BY <1>6 DEF WriteOriginal
  <2>7. saved' \in [Texts -> 0 .. now']
    BY <1>1, <1>3, <2>2, <2>6
  <2>8. unsaved' \subseteq Texts /\ raced' \subseteq Texts
    BY <1>6, <2>1 DEF WriteOriginal, StoreTyped
  <2> QED BY <1>6, <2>5, <2>7, <2>8 DEF WriteOriginal, StoreTyped
<1>7. ASSUME NEW r \in Requests, LoseOriginal(r) PROVE StoreOK /\ SweepOK
  <2>1. Original(r) \in Texts
    BY <1>7, OriginalIsText DEF LoseOriginal
  <2> QED BY <1>1, <1>7, <2>1 DEF LoseOriginal, StoreTyped
<1>14. ASSUME NEW r \in Requests, LoseOriginals(r) PROVE StoreOK /\ SweepOK
  <2>1. body[r] \in Bodies
    BY <1>14 DEF LoseOriginals, At, Placed
  <2>2. Originals(body[r]) \subseteq Texts
    BY <2>1 DEF Texts
  <2> QED BY <1>1, <1>14, <2>2 DEF LoseOriginals, StoreTyped
<1>8. ASSUME StartSweep PROVE StoreOK /\ SweepOK
  <2>1. setup.maxAge \in Nat
    BY ServiceAssumption DEF MainTyped
  <2>2. now - setup.maxAge \in Int /\ Stored \subseteq Texts
    BY <1>0, <2>1 DEF Stored
  <2> QED BY <1>1, <1>8, <2>2 DEF StartSweep, store, StoreTyped
<1>9. ASSUME NEW t \in Texts, Judge(t) PROVE StoreOK /\ SweepOK
  <2>1. StoreOK
    BY <1>1, <1>9 DEF Judge, store, StoreTyped
  <2>2. sweep.todo \ {t} \in SUBSET Texts
        /\ (IF t \in Stored /\ Expired(t) THEN t ELSE NoText) \in Texts \cup {NoText}
        /\ (IF t \in Stored /\ Expired(t) THEN disk[t].at ELSE 0) \in Nat
    BY DEF StoreTyped
  <2>3. SweepOK
    BY <1>9, <2>2 DEF Judge, StoreTyped
  <2> QED BY <2>1, <2>3
<1>10. ASSUME Remove PROVE StoreOK /\ SweepOK
  <2>1. sweep.judged \in Texts
    BY <1>10 DEF Remove, StoreTyped
  <2>2. disk' = [disk EXCEPT ![sweep.judged] = Absent]
    BY <1>10 DEF Remove, Unlink
  <2>3. disk' \in [Texts -> File(now')]
    BY <1>1, <1>2, <2>2
  <2>4. raced' \subseteq Texts
    BY <1>10, <2>1 DEF Remove, StoreTyped
  <2>5. saved' = saved /\ unsaved' = unsaved /\ sweep' = [sweep EXCEPT !.judged = NoText, !.seen = 0]
    BY <1>10 DEF Remove
  <2>6. StoreOK
    BY <1>1, <2>3, <2>4, <2>5 DEF StoreTyped
  <2>7. SweepOK
    BY <2>5 DEF StoreTyped
  <2> QED BY <2>6, <2>7
<1>15. ASSUME RemoveFails PROVE StoreOK /\ SweepOK
  <2>1. StoreOK
    BY <1>1, <1>15 DEF RemoveFails, store, StoreTyped
  <2>2. SweepOK
    BY <1>15 DEF RemoveFails, StoreTyped
  <2> QED BY <2>1, <2>2
<1>11. ASSUME EndSweep PROVE StoreOK /\ SweepOK
  BY <1>1, <1>11 DEF EndSweep, store, StoreTyped
<1>12. ASSUME Tick \/ UNCHANGED <<store, sweep, now>> PROVE StoreOK /\ SweepOK
  <2>1. UNCHANGED <<disk, saved, unsaved, raced, sweep>>
    BY <1>12 DEF Tick, store
  <2>2. StoreOK
    BY <1>1, <2>1 DEF StoreTyped
  <2>3. SweepOK
    BY <2>1 DEF StoreTyped
  <2> QED BY <2>2, <2>3
<1> HIDE DEF StoreOK, SweepOK
<1>13. ASSUME Sweep PROVE StoreOK /\ SweepOK
  BY <1>8, <1>9, <1>10, <1>11, <1>13, <1>15 DEF Sweep
<1>16. StoreOK /\ SweepOK
  BY <1>5, <1>6, <1>7, <1>12, <1>13, <1>14, StoreSteps DEF AtOriginals
<1> QED BY <1>4, <1>16

LEMMA NextTyped == Typed /\ [Next]_vars => Typed'
<1> SUFFICES ASSUME Typed, [Next]_vars PROVE Typed'
  OBVIOUS
<1> USE DEF Typed
<1>1. now \in Nat /\ MainTyped'
  BY NextMainTyped
<1>2. MonitorTyped'
  <2>1. CASE UNCHANGED reports
    <3>1. mon' = mon /\ evicted' = evicted /\ Tracked(mon)' = Tracked(mon)
      BY <2>1 DEF reports, Tracked
    <3> QED BY <3>1 DEF MonitorTyped
  <2>2. ASSUME NEW e \in Events, Records(e) PROVE MonitorTyped'
    BY <1>1, <2>2, RecordTyped
  <2> QED BY <2>1, <2>2, MonitorSteps
<1>3. LogTyped' /\ RequestsTyped' /\ StoreTyped'
  BY NextLogTyped, NextRequestsTyped, NextStoreTyped
<1>4. \A r \in Requests : Placed(r)'
  BY NextPlaced
<1> QED BY <1>1, <1>2, <1>3, <1>4

LEMMA AlwaysTyped == Spec => []Typed
BY InitTyped, NextTyped, PTL DEF Spec

\* Every variable has its type, the table of sessions never outgrows
\* maxTrackedSources, and no more than `keep' older log files are kept, for
\* any table, log and bodies (evictOldestSource, rotate, writeOriginals).
THEOREM TypeCorrect == Spec => []TypeOK
<1>1. Typed => TypeOK
  BY TypedImpliesTypeOK
<1> QED BY AlwaysTyped, <1>1, PTL
-----------------------------------------------------------------------------
(* The counters agree with the requests *)

\* r joins S, which is counted, or S stays as it is.
Grows(S, T, r, n) ==
  \/ n = 1 /\ r \notin S /\ T = S \cup {r}
  \/ n = 0 /\ T = S

LEMMA GrowsCounts ==
  ASSUME NEW S, NEW T, NEW r, NEW n, IsFiniteSet(S), Grows(S, T, r, n)
  PROVE  /\ n \in Nat /\ Cardinality(S) \in Nat /\ Cardinality(T) \in Nat
         /\ Cardinality(T) = Cardinality(S) + n
<1>1. Cardinality(S) \in Nat
  BY FS_CardinalityType
<1>2. CASE n = 1 /\ r \notin S /\ T = S \cup {r}
  <2>1. Cardinality(T) = Cardinality(S) + 1
    BY <1>2, FS_AddElement
  <2> QED BY <1>1, <1>2, <2>1
<1>3. CASE n = 0 /\ T = S
  BY <1>1, <1>3
<1> QED BY <1>2, <1>3 DEF Grows

\* What a handler's event says is what happens to its request.
Told(r, e) ==
  /\ Records(e) /\ e.source = from'[r]
  /\ Grows(Received, Received', r, One(e.name = "request_received"))
  /\ Grows(Finished, Finished', r, One(e.name = "request_finish"))
  /\ Grows(Bad, Bad', r, One(isNon200(e)))
  /\ Grows(failed, failed', r, One(e.isError))
  /\ e.name # "request_received" => r \in Received
  /\ \A p \in Received : from'[p] = from[p]

Untold == UNCHANGED <<mon, evicted, from, failed, Received, Finished, Bad>>

LEMMA HandlerTells ==
  ASSUME Typed, NEW r \in Requests, Handler(r)
  PROVE  (\E e \in Events : Told(r, e)) \/ Untold
<1> USE DEF Typed, RequestsTyped, At, Goto, Received, Finished, Bad
<1>0. Placed(r)
  OBVIOUS
<1>1. ASSUME NEW s \in setup.sessions, NEW b \in setup.bodies, Receive(r, s, b)
      PROVE  \E e \in Events : Told(r, e)
  <2> DEFINE e == Event("request_received", 0, FALSE, s)
  <2>1. s \in Sources \cup {NoSource}
    BY ServiceAssumption DEF MainTyped
  <2>2. e \in Events /\ Records(e) /\ e.source = from'[r]
    BY <1>1, <2>1 DEF Event, Events, Names, Receive
  <2>3. r \notin Received /\ Received' = Received \cup {r}
    BY <1>1 DEF Receive, Places
  <2>4. Finished' = Finished /\ failed' = failed
    BY <1>1 DEF Receive, Places
  <2>5. Bad' = Bad
    BY <1>1, <2>4 DEF Receive
  <2>6. /\ One(e.name = "request_received") = 1 /\ One(e.name = "request_finish") = 0
        /\ One(isNon200(e)) = 0 /\ One(e.isError) = 0 /\ e.name = "request_received"
    BY DEF Event, isNon200, One
  <2>7. \A p \in Received : from'[p] = from[p]
    BY <1>1 DEF Receive
  <2> QED BY <2>2, <2>3, <2>4, <2>5, <2>6, <2>7 DEF Told, Grows
<1>2. CASE Retry(r)
  <2> DEFINE e == Event("upstream_retry", 429, FALSE, from[r])
  <2>1. e \in Events /\ Records(e) /\ e.source = from'[r]
    BY <1>2 DEF Event, Events, Names, Retry, request
  <2>2. Received' = Received /\ Finished' = Finished /\ Bad' = Bad /\ failed' = failed
        /\ r \in Received /\ from' = from
    BY <1>2 DEF Retry, request
  <2>3. /\ One(e.name = "request_received") = 0 /\ One(e.name = "request_finish") = 0
        /\ One(isNon200(e)) = 0 /\ One(e.isError) = 0
    BY DEF Event, isNon200, One
  <2> QED BY <2>1, <2>2, <2>3 DEF Told, Grows
<1>3. ASSUME NEW name \in {"upstream_fetch_failed", "stream_retryable_error_detected"},
             NEW st \in {0, 200}, Fails(r, name, st)
      PROVE  \E e \in Events : Told(r, e)
  <2> DEFINE e == Event(name, st, TRUE, from[r])
  <2>1. e \in Events /\ Records(e) /\ e.source = from'[r]
    BY <1>3 DEF Event, Events, Names, Fails
  <2>2. Received' = Received /\ Finished' = Finished /\ r \in Received /\ from' = from
    BY <1>3 DEF Fails
  <2>3. Bad' = Bad
    BY <1>3, <2>2 DEF Fails
  <2>4. r \notin failed /\ failed' = failed \cup {r}
    BY <1>0, <1>3 DEF Fails, Placed
  <2>5. /\ One(e.name = "request_received") = 0 /\ One(e.name = "request_finish") = 0
        /\ One(isNon200(e)) = 0 /\ One(e.isError) = 1
    BY DEF Event, isNon200, One
  <2> QED BY <2>1, <2>2, <2>3, <2>4, <2>5 DEF Told, Grows
<1>4. CASE Finish(r)
  <2> DEFINE e == Event("request_finish", status[r], FALSE, from[r])
  <2>1. e \in Events /\ Records(e) /\ e.source = from'[r]
    BY <1>4 DEF Event, Events, Names, Finish
  <2>2. Received' = Received /\ failed' = failed /\ r \in Received /\ from' = from
    BY <1>4 DEF Finish
  <2>3. r \notin Finished /\ Finished' = Finished \cup {r}
    BY <1>4 DEF Finish, Places
  <2>4. status[r] \in {200, 400, 503}
    BY <1>0, <1>4 DEF Finish, Placed
  <2>5. status[r] # 200 => r \notin Bad /\ Bad' = Bad \cup {r} /\ One(isNon200(e)) = 1
    BY <1>4, <2>3, <2>4 DEF Finish, Event, isNon200, One
  <2>6. status[r] = 200 => Bad' = Bad /\ One(isNon200(e)) = 0
    BY <1>4, <2>3, <2>4 DEF Finish, Event, isNon200, One
  <2>7. One(e.name = "request_received") = 0 /\ One(e.name = "request_finish") = 1
        /\ One(e.isError) = 0
    BY DEF Event, One
  <2> QED BY <2>1, <2>2, <2>3, <2>5, <2>6, <2>7 DEF Told, Grows
<1>5. ASSUME pc[r] \notin {"new", "finished"}, UNCHANGED <<mon, evicted, from, failed>>,
             \E place \in Places \ {"new", "finished"} : pc' = [pc EXCEPT ![r] = place],
             \A p \in Requests : p # r => status'[p] = status[p]
      PROVE  Untold
  <2>1. Received' = Received
    BY <1>5
  <2>2. Finished' = Finished /\ r \notin Finished
    BY <1>5
  <2>3. Bad' = Bad
    BY <1>5, <2>2
  <2> QED BY <1>5, <2>1, <2>2, <2>3 DEF Untold
<1>6. CASE Refuse(r) \/ Answer(r)
  BY <1>5, <1>6 DEF Refuse, Answer, Places, reports
<1>7. CASE Process(r) \/ OpenOriginal(r)
  BY <1>5, <1>7 DEF Process, OpenOriginal, Places, reports
<1>8. CASE WriteOriginal(r) \/ LoseOriginal(r) \/ LoseOriginals(r)
  BY <1>5, <1>8 DEF WriteOriginal, LoseOriginal, LoseOriginals, NextOriginal, At, Goto, Places,
     reports
<1>9. CASE Abort(r)
  BY <1>5, <1>9 DEF Abort, Places, reports
<1> QED
  BY <1>1, <1>2, <1>3, <1>4, <1>6, <1>7, <1>8, <1>9 DEF Handler, FetchFailed, StreamFailed

\* Of the events, only a request's first one is about a session that may be
\* unknown; and only its last one has a status to count.
LEMMA StepTells ==
  ASSUME Typed, [Next]_vars
  PROVE  (\E r \in Requests, e \in Events : Told(r, e)) \/ Untold
<1>1. CASE Remove
  BY <1>1 DEF Remove, Untold, Received, Finished, Bad, Typed, RequestsTyped, reports
<1>2. CASE UNCHANGED <<request, failed>> /\ UNCHANGED reports
  BY <1>2 DEF Untold, Received, Finished, Bad, request, reports
<1>3. CASE CheckSize \/ Rotate \/ Tick
  BY <1>2, <1>3 DEF CheckSize, Rotate, Tick
<1>4. CASE Sweep
  BY <1>1, <1>2, <1>4 DEF Sweep, StartSweep, Judge, RemoveFails, EndSweep
<1>5. CASE Main
  BY <1>2, <1>5 DEF Main, Signal, RetentionEnds, RetentionClosed, RotationEnds, LogClosed, Exit,
     Terminated, vars
<1>6. CASE UNCHANGED vars
  BY <1>2, <1>6 DEF vars
<1> QED BY <1>3, <1>4, <1>5, <1>6, HandlerTells DEF Next

LEMMA InitCounts == Init => CountsAreTrue
<1> SUFFICES ASSUME Init PROVE CountsAreTrue
  OBVIOUS
<1>1. Received = {} /\ Finished = {} /\ Bad = {} /\ failed = {}
  BY DEF Init, Received, Finished, Bad
<1>2. Cardinality({}) = 0
  BY FS_EmptySet
<1>3. Balanced
  BY <1>1, <1>2 DEF Balanced, Init, NewMonitor, Zero
<1>4. Tracked(mon) = {} /\ \A s \in Sources : Of(s, Received) = {}
  BY <1>1 DEF Init, NewMonitor, Tracked, Of
<1>5. SessionsBalanced
  BY <1>4 DEF SessionsBalanced
<1> QED BY <1>3, <1>5 DEF CountsAreTrue

\* The sets that are counted are finite, and what has a result was received.
LEMMA CountedSets ==
  ASSUME Typed
  PROVE  /\ Received \subseteq Requests /\ Finished \subseteq Received
         /\ Bad \subseteq Finished /\ failed \subseteq Received
         /\ \A S \in SUBSET Received : IsFiniteSet(S)
<1>1. Received \subseteq Requests /\ Finished \subseteq Received /\ Bad \subseteq Finished
  BY DEF Received, Finished, Bad
<1>2. failed \subseteq Received
  BY DEF Typed, RequestsTyped, Placed, Received
<1>3. \A S \in SUBSET Received : IsFiniteSet(S)
  BY <1>1, FS_Subset, ServiceAssumption
<1> QED BY <1>1, <1>2, <1>3

LEMMA NextBalanced ==
  ASSUME Typed, Balanced, NEW r \in Requests, NEW e \in Events, Told(r, e)
  PROVE  Balanced'
<1>1. mon'.total = Counted(mon.total, e) /\ mon.total \in Stat
  BY RecordMeans DEF Typed, MonitorTyped, Told
<1>2. ASSUME NEW S \in SUBSET Received, NEW T, NEW n, Grows(S, T, r, n)
      PROVE  Cardinality(T) = Cardinality(S) + n
  BY <1>2, CountedSets, GrowsCounts
<1>3. /\ Cardinality(Received') = Cardinality(Received) + One(e.name = "request_received")
      /\ Cardinality(Finished') = Cardinality(Finished) + One(e.name = "request_finish")
      /\ Cardinality(Bad') = Cardinality(Bad) + One(isNon200(e))
      /\ Cardinality(failed') = Cardinality(failed) + One(e.isError)
  BY <1>2, CountedSets DEF Told
<1> QED BY <1>1, <1>3 DEF Balanced, Counted

\* A session's statistic, as SessionsBalanced has it: of any session the table
\* has, and of one that it never lost.
AtMost(stat, received, finished) ==
  stat.requests <= received /\ stat.responses <= finished /\ stat.non200 <= stat.responses

Exact(stat, received, finished, bad) ==
  stat.requests = received /\ stat.responses = finished /\ stat.errors = bad

Requested(s) == Cardinality(Of(s, Received))
Responded(s) == Cardinality(Of(s, Finished))
Failed(s)    == Cardinality(Of(s, failed))

LEMMA SessionsAre ==
  SessionsBalanced <=>
    \A s \in Sources :
      /\ s \in Tracked(mon) => AtMost(mon.sources[s], Requested(s), Responded(s))
      /\ s \in Tracked(mon) /\ s \notin evicted =>
           Exact(mon.sources[s], Requested(s), Responded(s), Failed(s))
      /\ s \notin Tracked(mon) /\ s \notin evicted => Of(s, Received) = {}
BY DEF SessionsBalanced, AtMost, Exact, Requested, Responded, Failed

\* How many requests of a session there are after an event.
LEMMA OfCounts ==
  ASSUME Typed, NEW r \in Requests, NEW e \in Events, Told(r, e), NEW s
  PROVE  /\ s = e.source =>
              /\ Requested(s)' = Requested(s) + One(e.name = "request_received")
              /\ Responded(s)' = Responded(s) + One(e.name = "request_finish")
              /\ Failed(s)' = Failed(s) + One(e.isError)
         /\ s # e.source =>
              /\ Of(s, Received)' = Of(s, Received)
              /\ Of(s, Finished)' = Of(s, Finished)
              /\ Of(s, failed)' = Of(s, failed)
         /\ Requested(s) \in Nat /\ Responded(s) \in Nat /\ Failed(s) \in Nat
<1> DEFINE Before(S) == {p \in S : from[p] = s}
           After(T)  == {p \in T : from'[p] = s}
<1>1. ASSUME NEW S \in SUBSET Received, NEW T, NEW n, Grows(S, T, r, n)
      PROVE  /\ s = e.source => Cardinality(After(T)) = Cardinality(Before(S)) + n
             /\ s # e.source => After(T) = Before(S)
             /\ Cardinality(Before(S)) \in Nat
  <2>1. e.source = from'[r] /\ \A p \in S : from'[p] = from[p]
    BY DEF Told
  <2>2. /\ s = e.source => Grows(Before(S), After(T), r, n)
        /\ s # e.source => After(T) = Before(S)
    BY <1>1, <2>1 DEF Grows
  <2>3. IsFiniteSet(Before(S))
    BY CountedSets
  <2> HIDE DEF Before, After
  <2> QED BY <2>2, <2>3, GrowsCounts, FS_CardinalityType
<1>2. /\ Of(s, Received) = Before(Received) /\ Of(s, Received)' = After(Received')
      /\ Of(s, Finished) = Before(Finished) /\ Of(s, Finished)' = After(Finished')
      /\ Of(s, failed) = Before(failed) /\ Of(s, failed)' = After(failed')
  BY DEF Of
<1> HIDE DEF Before, After
<1>3. Finished \subseteq Received /\ failed \subseteq Received
  BY CountedSets
<1> QED BY <1>1, <1>2, <1>3 DEF Told, Requested, Responded, Failed

\* The session an event is about: its statistic grows with its requests.
LEMMA OwnSession ==
  ASSUME Typed, NEW r \in Requests, NEW e \in Events, Told(r, e), NEW s, s = e.source,
         NEW stat \in Stat
  PROVE  /\ AtMost(stat, Requested(s), Responded(s)) =>
              AtMost(Counted(stat, e), Requested(s)', Responded(s)')
         /\ Exact(stat, Requested(s), Responded(s), Failed(s)) =>
              Exact(Counted(stat, e), Requested(s)', Responded(s)', Failed(s)')
<1>1. One(isNon200(e)) <= One(e.name = "request_finish")
  BY DEF One, isNon200
<1>2. /\ One(isNon200(e)) \in Nat /\ One(e.name = "request_finish") \in Nat
      /\ One(e.name = "request_received") \in Nat /\ One(e.isError) \in Nat
  BY DEF One
<1>3. /\ stat.requests \in Nat /\ stat.responses \in Nat /\ stat.non200 \in Nat
      /\ stat.errors \in Nat
  BY DEF Stat
<1>4. /\ Counted(stat, e).requests = stat.requests + One(e.name = "request_received")
      /\ Counted(stat, e).responses = stat.responses + One(e.name = "request_finish")
      /\ Counted(stat, e).errors = stat.errors + One(e.isError)
      /\ Counted(stat, e).non200 = stat.non200 + One(isNon200(e))
  BY DEF Counted
<1>5. AtMost(stat, Requested(s), Responded(s)) =>
        AtMost(Counted(stat, e), Requested(s)', Responded(s)')
  BY <1>1, <1>2, <1>3, <1>4, OfCounts DEF AtMost
<1>6. Exact(stat, Requested(s), Responded(s), Failed(s)) =>
        Exact(Counted(stat, e), Requested(s)', Responded(s)', Failed(s)')
  BY <1>2, <1>3, <1>4, OfCounts DEF Exact
<1> QED BY <1>5, <1>6

LEMMA NextSessionsBalanced ==
  ASSUME Typed, SessionsBalanced, NEW r \in Requests, NEW e \in Events, Told(r, e)
  PROVE  SessionsBalanced'
<1>0. /\ Tracked(mon)' \subseteq Tracked(mon) \cup {e.source}
      /\ e.source \in Sources => e.source \in Tracked(mon)'
      /\ mon'.sources = [s \in Tracked(mon)' |->
                            IF s = e.source
                            THEN Counted(IF s \in Tracked(mon) THEN mon.sources[s] ELSE Zero, e)
                            ELSE mon.sources[s]]
      /\ evicted' = evicted \cup (Tracked(mon) \ Tracked(mon)')
      /\ mon.sources \in [Tracked(mon) -> Stat]
  BY RecordMeans DEF Typed, MonitorTyped, Told
<1>1. Zero \in Stat
  BY DEF Zero, Stat
<1>2. ASSUME NEW s \in Sources
      PROVE  /\ s \in Tracked(mon)' => AtMost(mon'.sources[s], Requested(s)', Responded(s)')
             /\ s \in Tracked(mon)' /\ s \notin evicted' =>
                  Exact(mon'.sources[s], Requested(s)', Responded(s)', Failed(s)')
             /\ s \notin Tracked(mon)' /\ s \notin evicted' => Of(s, Received)' = {}
  <2>0. /\ s \in Tracked(mon) => AtMost(mon.sources[s], Requested(s), Responded(s))
        /\ s \in Tracked(mon) /\ s \notin evicted =>
             Exact(mon.sources[s], Requested(s), Responded(s), Failed(s))
        /\ s \notin Tracked(mon) /\ s \notin evicted => Of(s, Received) = {}
    BY SessionsAre
  <2>1. CASE s = e.source /\ s \in Tracked(mon)
    <3>1. mon'.sources[s] = Counted(mon.sources[s], e) /\ mon.sources[s] \in Stat
      BY <1>0, <2>1
    <3>2. /\ AtMost(mon.sources[s], Requested(s), Responded(s)) =>
               AtMost(mon'.sources[s], Requested(s)', Responded(s)')
          /\ Exact(mon.sources[s], Requested(s), Responded(s), Failed(s)) =>
               Exact(mon'.sources[s], Requested(s)', Responded(s)', Failed(s)')
      BY <2>1, <3>1, OwnSession
    <3> QED BY <1>0, <2>0, <2>1, <3>2
  <2>2. CASE s = e.source /\ s \notin Tracked(mon)
    <3>1. mon'.sources[s] = Counted(Zero, e) /\ s \in Tracked(mon)'
      BY <1>0, <2>2
    <3>2. /\ AtMost(Zero, Requested(s), Responded(s)) =>
               AtMost(mon'.sources[s], Requested(s)', Responded(s)')
          /\ Exact(Zero, Requested(s), Responded(s), Failed(s)) =>
               Exact(mon'.sources[s], Requested(s)', Responded(s)', Failed(s)')
      BY <1>1, <2>2, <3>1, OwnSession
    <3>3. AtMost(Zero, Requested(s), Responded(s))
      BY OfCounts DEF AtMost, Zero
    <3>4. s \notin evicted => Exact(Zero, Requested(s), Responded(s), Failed(s))
      <4>1. s \notin evicted => Of(s, Received) = {} /\ Of(s, Finished) = {} /\ Of(s, failed) = {}
        BY <2>0, <2>2, CountedSets DEF Of
      <4> QED BY <4>1, FS_EmptySet DEF Exact, Zero, Requested, Responded, Failed
    <3> QED BY <1>0, <3>1, <3>2, <3>3, <3>4
  <2>3. CASE s # e.source
    <3>1. /\ Of(s, Received)' = Of(s, Received)
          /\ Requested(s)' = Requested(s) /\ Responded(s)' = Responded(s) /\ Failed(s)' = Failed(s)
      BY <2>3, OfCounts DEF Requested, Responded, Failed
    <3>2. s \in Tracked(mon)' => s \in Tracked(mon) /\ mon'.sources[s] = mon.sources[s]
      BY <1>0, <2>3
    <3> QED BY <1>0, <2>0, <3>1, <3>2
  <2> QED BY <2>1, <2>2, <2>3
<1> QED BY <1>2 DEF SessionsBalanced, AtMost, Exact, Requested, Responded, Failed

LEMMA NextCounts == Typed /\ CountsAreTrue /\ [Next]_vars => CountsAreTrue'
<1> SUFFICES ASSUME Typed, CountsAreTrue, [Next]_vars PROVE CountsAreTrue'
  OBVIOUS
<1>1. CASE Untold
  <2>1. Balanced'
    BY <1>1 DEF Untold, CountsAreTrue, Balanced
  <2>2. \A s : /\ Of(s, Received)' = Of(s, Received)
               /\ Of(s, Finished)' = Of(s, Finished)
               /\ Of(s, failed)' = Of(s, failed)
    BY <1>1 DEF Untold, Of
  <2>3. Tracked(mon)' = Tracked(mon) /\ mon' = mon /\ evicted' = evicted
    BY <1>1 DEF Untold, Tracked
  <2>4. SessionsBalanced'
    BY <2>2, <2>3 DEF CountsAreTrue, SessionsBalanced
  <2> QED BY <2>1, <2>4 DEF CountsAreTrue
<1>2. ASSUME NEW r \in Requests, NEW e \in Events, Told(r, e) PROVE CountsAreTrue'
  BY <1>2, NextBalanced, NextSessionsBalanced DEF CountsAreTrue
<1> QED BY <1>1, <1>2, StepTells

\* The counters are what happened: a request is counted when it comes and once
\* when it is answered, a status counts as not 200 only if it is the last one,
\* and a session that was never evicted has all of its own, with any number of
\* requests, sessions and retries (Record and isNon200 in monitor.go, the calls
\* of handleForward).
THEOREM TrueCounts == Spec => []CountsAreTrue
BY InitCounts, NextCounts, AlwaysTyped, PTL DEF Spec

-----------------------------------------------------------------------------
(* The log is whole *)

\* Whatever fails: the lines are in order, in a file and across the files, and
\* the file that is open has the last ones; one that is about to be rotated is
\* not empty.
LogInOrder ==
  /\ \A j \in 0 .. keep : In(j) \subseteq 1 .. lines /\ Increasing(log.files[j])
  /\ \A j, k \in 0 .. keep : j < k => \A m \in In(j), n \in In(k) : n < m
  /\ log.handle = "open" =>
       /\ log.size <= Len(log.files[0])
       /\ In(0) # {} => Interval(In(0)) /\ lines \in In(0)
       /\ rotating => log.size > maxLines

\* If nothing fails, the files fill up from the newest to the oldest, and a
\* line is only lost when they all have some.
LogUnbroken ==
  setup.rotation /\ faults = 0 =>
    /\ Interval(Kept)
    /\ log.handle = "open" <=> main \notin {"closed", "exited"}
    /\ log.handle = "open" =>
         /\ lines \in Kept \cup {0}
         /\ \A j, k \in 1 .. keep : j < k /\ In(k) # {} => In(j) # {}
         /\ 1 \in Kept \/ lines = 0 \/ \A j \in 1 .. keep : In(j) # {}

Lines(q) == {q[i] : i \in DOMAIN q}

LEMMA NoLines ==
  ASSUME NEW q \in Seq(Nat) PROVE Lines(q) = {} <=> q = <<>>
<1>1. q # <<>> => 1 \in DOMAIN q
  BY EmptySeq
<1> QED BY <1>1 DEF Lines

LEMMA AppendLines ==
  ASSUME NEW q \in Seq(Nat), NEW n \in Nat
  PROVE  /\ Lines(Append(q, n)) = Lines(q) \cup {n}
         /\ Len(Append(q, n)) = Len(q) + 1
         /\ Increasing(q) /\ (\A m \in Lines(q) : m < n) => Increasing(Append(q, n))
<1>1. /\ DOMAIN q = 1 .. Len(q) /\ Len(q) \in Nat
      /\ DOMAIN Append(q, n) = 1 .. Len(q) + 1 /\ Len(Append(q, n)) = Len(q) + 1
      /\ \A i \in 1 .. Len(q) : Append(q, n)[i] = q[i]
      /\ Append(q, n)[Len(q) + 1] = n
  BY AppendProperties, LenProperties
<1>2. 1 .. Len(q) + 1 = (1 .. Len(q)) \cup {Len(q) + 1}
  BY <1>1
<1>3. Lines(Append(q, n)) = Lines(q) \cup {n}
  BY <1>1, <1>2 DEF Lines
<1>4. ASSUME Increasing(q), \A m \in Lines(q) : m < n,
             NEW i \in DOMAIN Append(q, n), NEW j \in DOMAIN Append(q, n), i < j
      PROVE  Append(q, n)[i] < Append(q, n)[j]
  <2>1. i \in 1 .. Len(q) /\ (j \in 1 .. Len(q) \/ j = Len(q) + 1)
    BY <1>1, <1>4
  <2>2. CASE j \in 1 .. Len(q)
    BY <1>1, <1>4, <2>1, <2>2 DEF Increasing
  <2>3. CASE j = Len(q) + 1
    <3>1. q[i] \in Lines(q)
      BY <1>1, <2>1 DEF Lines
    <3> QED BY <1>1, <1>4, <2>1, <2>3, <3>1
  <2> QED BY <2>1, <2>2, <2>3
<1> QED BY <1>1, <1>3, <1>4 DEF Increasing

\* A step writes a line into the newest file, moves the files, or leaves them;
\* the handle, once it is lost, is never open again.
Appends ==
  /\ log.handle = "open" /\ log'.handle = "open" /\ lines' = lines + 1
  /\ log'.files = [log.files EXCEPT ![0] = Append(@, lines + 1)]
  /\ log'.size = log.size + 1
  /\ UNCHANGED <<rotating, faults>>

Moves(stuck) ==
  /\ log.handle = "open" /\ rotating /\ ~rotating' /\ lines' = lines
  /\ log'.handle = "open" => log'.size = 0
  /\ log'.files = Shifted(log.files, stuck)
  /\ faults' = 0 => faults = 0 /\ stuck = {} /\ log'.handle = "open"

Leaves ==
  /\ log'.files = log.files
  /\ \/ log'.handle = "open" /\ log.handle = "open" /\ UNCHANGED <<log, lines>>
     \/ log'.handle # "open"
  /\ lines' \in {lines, lines + 1}
  /\ rotating' /\ log'.handle = "open" => rotating \/ log.size > maxLines
  /\ faults' = 0 => faults = 0 /\ (log'.handle = log.handle \/ LogClosed)

LEMMA LogMoves ==
  ASSUME LogTyped, [Next]_vars
  PROVE  Appends \/ Leaves \/ \E stuck \in SUBSET (0 .. keep - 1) : Moves(stuck)
<1> USE DEF LogTyped
<1>0. log \in Logs
  BY DEF Logs, Files
<1>1. CASE Says /\ UNCHANGED <<rotating, faults>>
  <2>1. CASE log.handle = "open" /\ setup.rotation
    <3>1. log' = [files |-> [log.files EXCEPT ![0] = Append(@, lines + 1)],
                  handle |-> "open", size |-> log.size + 1]
      <4>1. log' = Write(log, lines + 1) /\ lines + 1 \in Nat
        BY <1>1, <2>1 DEF Says
      <4> QED BY <1>0, <2>1, <4>1, WriteTyped
    <3>2. lines' = lines + 1
      BY <1>1, <2>1 DEF Says
    <3> QED BY <1>1, <2>1, <3>1, <3>2 DEF Appends
  <2>2. CASE ~(log.handle = "open" /\ setup.rotation)
    <3>1. log' = log /\ lines' \in {lines, lines + 1} /\ (log.handle = "open" => lines' = lines)
      BY <1>0, <1>1, <2>2, WriteTyped DEF Says, writer
    <3> QED BY <1>1, <3>1 DEF Leaves
  <2> QED BY <2>1, <2>2
<1>2. CASE CheckSize
  BY <1>2 DEF CheckSize, TooLarge, writer, Leaves
<1>3. CASE Rotate
  <2>1. PICK fault \in Faults :
          /\ log' = rotate(log, fault)
          /\ faults' = IF fault = NoFault THEN faults ELSE faults + 1
    BY <1>3 DEF Rotate
  <2>2. rotating /\ rotating' = FALSE /\ lines' = lines
    BY <1>3 DEF Rotate
  <2>3. faults' = 0 => faults = 0 /\ fault = NoFault
    BY <2>1
  <2>4. CASE log' = log
    BY <2>2, <2>3, <2>4 DEF Leaves
  <2>5. CASE fault.close /\ log' = [files |-> log.files, handle |-> "shut", size |-> log.size]
    BY <2>2, <2>3, <2>5 DEF Leaves, NoFault
  <2>6. CASE /\ log.handle = "open" /\ ~fault.close
             /\ log' = [files |-> Shifted(log.files, fault.stuck),
                        handle |-> IF fault.open THEN "nil" ELSE "open",
                        size |-> IF fault.open THEN log.size ELSE 0]
    <3>1. fault.stuck \in SUBSET (0 .. keep - 1)
      BY DEF Faults
    <3>2. Moves(fault.stuck)
      BY <2>2, <2>3, <2>6 DEF Moves, NoFault
    <3> QED BY <3>1, <3>2
  <2> QED BY <1>0, <2>1, <2>4, <2>5, <2>6, RotateMeans
<1>4. CASE LogClosed
  BY <1>4 DEF LogClosed, CloseFile, Leaves
<1>5. CASE UNCHANGED <<log, lines, rotating, faults>>
  BY <1>5 DEF Leaves
<1> QED BY <1>1, <1>2, <1>3, <1>4, <1>5, LogSteps

\* What a step does to the sets of lines.
LEMMA AppendsMeans ==
  ASSUME LogTyped, LogInOrder, Appends
  PROVE  /\ In(0)' = In(0) \cup {lines + 1}
         /\ \A j \in 1 .. keep : In(j)' = In(j)
         /\ \A j \in 0 .. keep : Increasing(log'.files[j])
         /\ Len(log'.files[0]) = Len(log.files[0]) + 1 /\ Len(log.files[0]) \in Nat
<1>1. log.files \in [0 .. keep -> Seq(Nat)] /\ lines + 1 \in Nat /\ 0 \in 0 .. keep
  BY LogAssumption DEF LogTyped
<1>2. log.files[0] \in Seq(Nat)
  BY <1>1
<1>3. /\ log'.files[0] = Append(log.files[0], lines + 1)
      /\ \A j \in 1 .. keep : log'.files[j] = log.files[j]
  <2>1. log'.files = [log.files EXCEPT ![0] = Append(@, lines + 1)]
    BY DEF Appends
  <2>2. \A j \in 1 .. keep : j \in 0 .. keep /\ j # 0
    BY LogAssumption
  <2> QED BY <1>1, <2>1, <2>2
<1>4. \A m \in Lines(log.files[0]) : m < lines + 1
  <2>1. In(0) \subseteq 1 .. lines /\ lines \in Nat
    BY <1>1 DEF LogInOrder, LogTyped
  <2>2. Lines(log.files[0]) = In(0)
    BY DEF In, Lines
  <2> QED BY <2>1, <2>2
<1>5. /\ Lines(log'.files[0]) = Lines(log.files[0]) \cup {lines + 1}
      /\ Len(log'.files[0]) = Len(log.files[0]) + 1
      /\ Increasing(log'.files[0])
  BY <1>1, <1>2, <1>3, <1>4, AppendLines DEF LogInOrder
<1>6. \A j : In(j) = Lines(log.files[j]) /\ In(j)' = Lines(log'.files[j])
  BY DEF In, Lines
<1>7. \A j \in 0 .. keep : j = 0 \/ j \in 1 .. keep
  OBVIOUS
<1>8. \A j \in 0 .. keep : Increasing(log'.files[j])
  BY <1>1, <1>3, <1>5, <1>7 DEF LogInOrder
<1>9. Len(log.files[0]) \in Nat
  BY <1>2, LenProperties
<1> QED BY <1>3, <1>5, <1>6, <1>8, <1>9

LEMMA MovesMeans ==
  ASSUME LogTyped, NEW stuck, Moves(stuck)
  PROVE  LET moves(j) == j \in 0 .. keep - 1 /\ j \notin stuck /\ In(j) # {}
         IN  /\ \A j \in 0 .. keep :
                  In(j)' = IF moves(j - 1) THEN In(j - 1) ELSE IF moves(j) THEN {} ELSE In(j)
             /\ (\A j \in 0 .. keep : Increasing(log.files[j])) =>
                  \A j \in 0 .. keep : Increasing(log'.files[j])
<1> DEFINE moves(j) == j \in 0 .. keep - 1 /\ j \notin stuck /\ In(j) # {}
           filled(j) == j \in 0 .. keep - 1 /\ j \notin stuck /\ log.files[j] # <<>>
<1>1. log.files \in Files
  BY DEF LogTyped, Files
<1>2. \A j : In(j) = Lines(log.files[j]) /\ In(j)' = Lines(log'.files[j])
  BY DEF In, Lines
<1>3. \A j : moves(j) <=> filled(j)
  <2>1. \A j \in 0 .. keep : log.files[j] \in Seq(Nat)
    BY <1>1 DEF Files
  <2>2. \A j \in 0 .. keep - 1 : In(j) = {} <=> log.files[j] = <<>>
    BY <1>2, <2>1, NoLines, LogAssumption
  <2> QED BY <2>2
<1>4. \A j \in 0 .. keep :
        log'.files[j] = IF filled(j - 1) THEN log.files[j - 1]
                        ELSE IF filled(j) THEN <<>> ELSE log.files[j]
  BY <1>1, ShiftedMeans DEF Moves
<1>5. Lines(<<>>) = {} /\ Increasing(<<>>)
  BY DEF Lines, Increasing
<1> HIDE DEF moves, filled
<1>6. \A j \in 0 .. keep :
        In(j)' = IF moves(j - 1) THEN In(j - 1) ELSE IF moves(j) THEN {} ELSE In(j)
  BY <1>2, <1>3, <1>4, <1>5
<1>7. ASSUME \A j \in 0 .. keep : Increasing(log.files[j]), NEW j \in 0 .. keep
      PROVE  Increasing(log'.files[j])
  <2>1. filled(j - 1) => j - 1 \in 0 .. keep
    BY LogAssumption DEF filled
  <2> QED BY <1>4, <1>5, <1>7, <2>1
<1> QED BY <1>6, <1>7 DEF moves

LEMMA AppendsInOrder ==
  ASSUME LogTyped, LogInOrder, Appends
  PROVE  LogInOrder'
<1>0. /\ lines \in Nat /\ lines' = lines + 1 /\ keep \in Nat /\ maxLines \in Nat
      /\ log.size \in Nat /\ log'.size = log.size + 1 /\ log.handle = "open" /\ rotating' = rotating
  BY LogAssumption DEF LogTyped, Appends
<1>1. /\ In(0)' = In(0) \cup {lines + 1}
      /\ \A j \in 1 .. keep : In(j)' = In(j)
      /\ \A j \in 0 .. keep : j = 0 \/ j \in 1 .. keep
  BY <1>0, AppendsMeans
<1>2. /\ \A j \in 0 .. keep : In(j) \subseteq 1 .. lines
      /\ 0 \in 0 .. keep
  BY <1>0 DEF LogInOrder
<1>3. \A j \in 0 .. keep : In(j)' \subseteq 1 .. lines + 1 /\ Increasing(log'.files[j])
  BY <1>0, <1>1, <1>2, AppendsMeans
<1>4. ASSUME NEW j \in 0 .. keep, NEW k \in 0 .. keep, j < k, NEW m \in In(j)', NEW n \in In(k)'
      PROVE  n < m
  <2>1. k \in 1 .. keep /\ n \in In(k) /\ n \in 1 .. lines
    BY <1>0, <1>1, <1>2, <1>4
  <2>2. CASE m \in In(j)
    BY <1>4, <2>1, <2>2 DEF LogInOrder
  <2>3. CASE m = lines + 1
    BY <1>0, <2>1, <2>3
  <2> QED BY <1>1, <1>4, <2>2, <2>3
<1>5. Interval(In(0))' /\ lines' \in In(0)'
  <2>1. In(0) # {} => Interval(In(0)) /\ lines \in In(0)
    BY <1>0 DEF LogInOrder
  <2>2. ASSUME NEW m \in In(0) \cup {lines + 1}, NEW n \in In(0) \cup {lines + 1}, NEW x \in m .. n
        PROVE  x \in In(0) \cup {lines + 1}
    <3>1. m \in 1 .. lines + 1 /\ n \in 1 .. lines + 1 /\ (m # lines + 1 => m \in In(0))
      BY <1>0, <1>2
    <3>2. x \in m .. lines \/ x = lines + 1
      BY <1>0, <3>1
    <3>3. CASE x \in m .. lines
      <4>1. m \in In(0)
        BY <1>0, <3>1, <3>3
      <4> QED BY <2>1, <3>3, <4>1 DEF Interval
    <3> QED BY <3>2, <3>3
  <2>3. Interval(In(0) \cup {lines + 1})
    BY <2>2 DEF Interval
  <2> QED BY <1>0, <1>1, <2>3 DEF Interval
<1>6. log'.size <= Len(log'.files[0]) /\ (rotating' => log'.size > maxLines)
  <2>1. log.size <= Len(log.files[0]) /\ (rotating => log.size > maxLines)
    BY <1>0 DEF LogInOrder
  <2>2. Len(log'.files[0]) = Len(log.files[0]) + 1 /\ Len(log.files[0]) \in Nat
    BY AppendsMeans
  <2>3. log'.size <= Len(log'.files[0])
    BY <1>0, <2>1, <2>2
  <2>4. rotating => log'.size > maxLines
    BY <1>0, <2>1
  <2> QED BY <1>0, <2>3, <2>4
<1> QED BY <1>0, <1>3, <1>4, <1>5, <1>6 DEF LogInOrder

LEMMA MovesInOrder ==
  ASSUME LogTyped, LogInOrder, NEW stuck, Moves(stuck)
  PROVE  LogInOrder'
<1> DEFINE moves(j) == j \in 0 .. keep - 1 /\ j \notin stuck /\ In(j) # {}
<1>0. lines \in Nat /\ lines' = lines /\ keep \in Nat /\ 0 \in 0 .. keep /\ ~rotating'
  BY LogAssumption DEF LogTyped, Moves
<1>1. /\ \A j \in 0 .. keep :
           In(j)' = IF moves(j - 1) THEN In(j - 1) ELSE IF moves(j) THEN {} ELSE In(j)
      /\ \A j \in 0 .. keep : Increasing(log'.files[j])
  BY MovesMeans DEF LogInOrder
<1>2. \A j : moves(j) => j \in Int /\ j \in 0 .. keep
  BY <1>0
<1>3. ASSUME NEW j \in 0 .. keep PROVE In(j)' \subseteq 1 .. lines
  <2>1. \A i \in 0 .. keep : In(i) \subseteq 1 .. lines
    BY DEF LogInOrder
  <2> HIDE DEF moves
  <2> QED BY <1>1, <1>2, <2>1
<1>4. ASSUME NEW j \in 0 .. keep, NEW k \in 0 .. keep, j < k, NEW m \in In(j)', NEW n \in In(k)'
      PROVE  n < m
  <2>1. PICK i \in {j - 1, j} : /\ m \in In(i) /\ i \in 0 .. keep
                                /\ i = j => ~moves(j)
    BY <1>1, <1>2, <1>4
  <2>2. PICK l \in {k - 1, k} : /\ n \in In(l) /\ l \in 0 .. keep
                                /\ l = k - 1 => moves(l)
    BY <1>1, <1>2, <1>4
  <2> HIDE DEF moves
  <2>3. i < l
    <3>1. i = j /\ l = k - 1 => l # j
      BY <2>1, <2>2 DEF moves
    <3> QED BY <1>4, <2>1, <2>2, <3>1
  <2>4. \A a, b \in 0 .. keep : a < b => \A p \in In(a), q \in In(b) : q < p
    BY DEF LogInOrder
  <2> QED BY <2>1, <2>2, <2>3, <2>4
<1>5. /\ log'.handle = "open" => log'.size = 0
      /\ In(0)' # {} => Interval(In(0))' /\ lines' \in In(0)'
  <2>1. In(0)' = {} \/ In(0)' = In(0)
    <3>1. ~moves(0 - 1)
      OBVIOUS
    <3> HIDE DEF moves
    <3> QED BY <1>0, <1>1, <3>1
  <2>2. In(0) # {} => Interval(In(0)) /\ lines \in In(0)
    BY DEF LogInOrder, Moves
  <2>3. In(0)' = In(0) => Interval(In(0))' = Interval(In(0))
    BY DEF Interval
  <2> QED BY <1>0, <2>1, <2>2, <2>3 DEF Moves
<1>6. log'.handle = "open" => log'.size <= Len(log'.files[0])
  <2>1. log'.files[0] \in Seq(Nat)
    <3>1. log.files \in Files
      BY DEF LogTyped, Files
    <3>2. log'.files \in Files
      BY <3>1, ShiftedMeans DEF Moves
    <3> QED BY <1>0, <3>2 DEF Files
  <2>2. Len(log'.files[0]) \in Nat
    BY <2>1, LenProperties
  <2> QED BY <1>5, <2>2
<1> HIDE DEF moves
<1> QED BY <1>0, <1>1, <1>3, <1>4, <1>5, <1>6 DEF LogInOrder

LEMMA LeavesInOrder ==
  ASSUME LogTyped, LogInOrder, Leaves
  PROVE  LogInOrder'
<1>1. \A j : In(j)' = In(j) /\ log'.files[j] = log.files[j]
  BY DEF Leaves, In
<1>2. lines \in Nat /\ lines' \in {lines, lines + 1}
  BY DEF LogTyped, Leaves
<1>3. \A j \in 0 .. keep : In(j)' \subseteq 1 .. lines' /\ Increasing(log'.files[j])
  <2>1. 1 .. lines \subseteq 1 .. lines'
    BY <1>2
  <2> QED BY <1>1, <2>1 DEF LogInOrder
<1>4. \A j, k \in 0 .. keep : j < k => \A m \in In(j)', n \in In(k)' : n < m
  BY <1>1 DEF LogInOrder
<1>5. log'.handle = "open" =>
       /\ log'.size <= Len(log'.files[0])
       /\ In(0)' # {} => Interval(In(0))' /\ lines' \in In(0)'
       /\ rotating' => log'.size > maxLines
  <2> SUFFICES ASSUME log'.handle = "open"
               PROVE  /\ log'.size <= Len(log'.files[0])
                      /\ In(0)' # {} => Interval(In(0))' /\ lines' \in In(0)'
                      /\ rotating' => log'.size > maxLines
    OBVIOUS
  <2>1. log.handle = "open" /\ log' = log /\ lines' = lines
    BY DEF Leaves
  <2>2. Interval(In(0))' = Interval(In(0))
    BY <1>1 DEF Interval
  <2>3. rotating' => rotating \/ log.size > maxLines
    BY DEF Leaves
  <2> QED BY <1>1, <2>1, <2>2, <2>3 DEF LogInOrder
<1> QED BY <1>3, <1>4, <1>5 DEF LogInOrder

\* Until Close the writer has its file.
LEMMA OpenUntilClosed ==
  ASSUME LogTyped, MainTyped, [Next]_vars, faults' = 0,
         log.handle = "open" <=> main \notin {"closed", "exited"}
  PROVE  log'.handle = "open" <=> main' \notin {"closed", "exited"}
<1>1. main' \in {"closed", "exited"} <=> main \in {"closed", "exited"} \/ LogClosed
  <2>1. CASE Main
    BY <2>1 DEF Main, Signal, RetentionEnds, RetentionClosed, RotationEnds, LogClosed, Exit,
       Terminated, vars
  <2>2. CASE UNCHANGED <<main, loops>>
    BY <2>2 DEF LogClosed
  <2> QED BY <2>1, <2>2, MainSteps
<1>2. LogClosed => log'.handle = "nil"
  BY DEF LogClosed, CloseFile, LogTyped
<1>3. CASE Appends \/ \E stuck \in SUBSET (0 .. keep - 1) : Moves(stuck)
  <2>1. log.handle = "open" /\ log'.handle = "open"
    BY <1>3 DEF Appends, Moves
  <2> QED BY <1>1, <1>2, <2>1
<1>4. CASE Leaves
  <2>1. log'.handle = log.handle \/ LogClosed
    BY <1>4 DEF Leaves
  <2> QED BY <1>1, <1>2, <2>1
<1> QED BY <1>3, <1>4, LogMoves

LEMMA AppendsUnbroken ==
  ASSUME LogTyped, LogInOrder, Appends, Interval(Kept), lines \in Kept \cup {0},
         1 \in Kept \/ lines = 0 \/ \A j \in 1 .. keep : In(j) # {}
  PROVE  /\ Interval(Kept)' /\ lines' \in Kept'
         /\ 1 \in Kept' \/ \A j \in 1 .. keep : In(j)' # {}
<1>0. lines \in Nat /\ lines' = lines + 1 /\ keep \in Nat
  BY LogAssumption DEF LogTyped, Appends
<1>1. /\ In(0)' = In(0) \cup {lines + 1}
      /\ \A j \in 1 .. keep : In(j)' = In(j)
      /\ \A j \in 0 .. keep : j = 0 \/ j \in 1 .. keep
      /\ \A j \in 1 .. keep : j \in 0 .. keep
      /\ 0 \in 0 .. keep
  BY <1>0, AppendsMeans
<1>2. Kept' = Kept \cup {lines + 1}
  <2>1. \A x : x \in Kept <=> \E j \in 0 .. keep : x \in In(j)
    BY DEF Kept
  <2>2. \A x : x \in Kept' <=> \E j \in 0 .. keep : x \in In(j)'
    BY DEF Kept
  <2>3. \A x : x \in Kept' <=> x \in Kept \/ x = lines + 1
    BY <1>1, <2>1, <2>2
  <2> QED BY <2>3
<1>3. \A x \in Kept : x \in 1 .. lines
  BY DEF Kept, LogInOrder
<1>4. ASSUME NEW m \in Kept \cup {lines + 1}, NEW n \in Kept \cup {lines + 1}, NEW x \in m .. n
      PROVE  x \in Kept \cup {lines + 1}
  <2>1. m \in 1 .. lines + 1 /\ n \in 1 .. lines + 1 /\ (m # lines + 1 => m \in Kept)
    BY <1>0, <1>3
  <2>2. x \in m .. lines \/ x = lines + 1
    BY <1>0, <2>1
  <2>3. CASE x \in m .. lines
    <3>1. m \in Kept /\ lines \in Kept
      BY <1>0, <2>1, <2>3
    <3> QED BY <2>3, <3>1 DEF Interval
  <2> QED BY <2>2, <2>3
<1>5. Interval(Kept)'
  BY <1>2, <1>4 DEF Interval
<1>6. 1 \in Kept' \/ \A j \in 1 .. keep : In(j)' # {}
  BY <1>0, <1>1, <1>2
<1> QED BY <1>0, <1>2, <1>5, <1>6

LEMMA MovesUnbroken ==
  ASSUME LogTyped, LogInOrder, Moves({}), Interval(Kept), lines \in Kept \cup {0},
         \A j, k \in 1 .. keep : j < k /\ In(k) # {} => In(j) # {},
         1 \in Kept \/ lines = 0 \/ \A j \in 1 .. keep : In(j) # {}
  PROVE  /\ Interval(Kept)' /\ lines' = lines /\ lines \in Kept' \cup {0}
         /\ \A j, k \in 1 .. keep : j < k /\ In(k)' # {} => In(j)' # {}
         /\ 1 \in Kept' \/ lines = 0 \/ \A j \in 1 .. keep : In(j)' # {}
<1> DEFINE moves(j) == j \in 0 .. keep - 1 /\ In(j) # {}
<1>0. /\ lines \in Nat /\ lines' = lines /\ keep \in Nat /\ keep >= 1 /\ maxLines \in Nat
      /\ 0 \in 0 .. keep /\ log.size \in Nat
  BY LogAssumption DEF LogTyped, Moves
<1>1. \A j \in 0 .. keep :
        In(j)' = IF moves(j - 1) THEN In(j - 1) ELSE IF moves(j) THEN {} ELSE In(j)
  BY MovesMeans
<1>2. In(0) # {}
  <2>1. log.size > maxLines /\ log.size <= Len(log.files[0])
    BY DEF LogInOrder, Moves
  <2>2. log.files[0] \in Seq(Nat)
    BY <1>0 DEF LogTyped
  <2>3. Len(log.files[0]) \in Nat
    BY <2>2, LenProperties
  <2>4. Len(log.files[0]) # 0
    BY <1>0, <2>1, <2>3
  <2>5. log.files[0] # <<>>
    BY <2>4
  <2> QED BY <2>2, <2>5, NoLines DEF In, Lines
<1>3. \A x : /\ x \in Kept <=> \E j \in 0 .. keep : x \in In(j)
             /\ x \in Kept' <=> \E j \in 0 .. keep : x \in In(j)'
  BY DEF Kept
<1>4. \A j, k \in 0 .. keep : j < k => \A m \in In(j), n \in In(k) : n < m
  BY DEF LogInOrder
<1>5. \A j \in 0 .. keep : In(j) \subseteq 1 .. lines
  BY DEF LogInOrder
<1>6. ASSUME NEW x \in Kept' PROVE x \in Kept
  BY <1>0, <1>1, <1>3, <1>6
<1>7. ASSUME NEW x \in Kept, x \notin Kept'
      PROVE  x \in In(keep) /\ moves(keep - 1) /\ \A y \in Kept' : x < y
  <2>1. PICK j \in 0 .. keep : x \in In(j)
    BY <1>3
  <2>2. j = keep
    <3> SUFFICES ASSUME j # keep PROVE FALSE
      OBVIOUS
    <3>1. j + 1 \in 0 .. keep /\ moves(j + 1 - 1) /\ j + 1 - 1 = j
      BY <1>0, <2>1
    <3>2. In(j + 1)' = In(j)
      BY <1>1, <3>1
    <3> QED BY <1>3, <1>7, <2>1, <3>1, <3>2
  <2>3. moves(keep - 1)
    <3> SUFFICES ASSUME ~moves(keep - 1) PROVE FALSE
      OBVIOUS
    <3>1. keep \in 0 .. keep /\ ~moves(keep)
      BY <1>0
    <3>2. In(keep)' = In(keep)
      BY <1>1, <3>1
    <3> QED BY <1>3, <1>7, <2>1, <2>2, <3>1, <3>2
  <2>4. ASSUME NEW y \in Kept' PROVE x < y
    <3>1. PICK i \in 0 .. keep : y \in In(i)'
      BY <1>3
    <3>2. PICK l \in 0 .. keep - 1 : y \in In(l)
      <4>1. CASE moves(i - 1)
        BY <1>1, <3>1, <4>1
      <4>2. CASE ~moves(i - 1)
        <5>1. y \in In(i) /\ ~moves(i)
          BY <1>1, <3>1, <4>2
        <5>2. i # keep
          BY <2>3, <4>2
        <5> QED BY <1>0, <3>1, <5>1, <5>2
      <4> QED BY <4>1, <4>2
    <3>3. l \in 0 .. keep /\ keep \in 0 .. keep /\ l < keep
      BY <1>0
    <3> QED BY <1>4, <2>1, <2>2, <3>2, <3>3
  <2> QED BY <2>1, <2>2, <2>3, <2>4
<1>8. Interval(Kept)'
  <2>1. ASSUME NEW m \in Kept', NEW n \in Kept', NEW x \in m .. n PROVE x \in Kept'
    <3>1. x \in Kept /\ m \in Kept
      BY <1>6 DEF Interval
    <3>2. m \in Int /\ x \in Int
      BY <1>3, <1>5, <3>1
    <3>3. m <= x
      BY <1>3, <1>5, <1>6, <3>2
    <3> QED BY <1>7, <3>1, <3>2, <3>3
  <2> QED BY <2>1 DEF Interval
<1>9. lines \in Kept' \cup {0}
  <2> SUFFICES ASSUME lines \in Kept, lines \notin Kept' PROVE FALSE
    OBVIOUS
  <2>1. lines \in In(keep) /\ moves(keep - 1)
    BY <1>7
  <2>2. PICK y : y \in In(keep - 1)
    BY <2>1
  <2>3. keep - 1 \in 0 .. keep /\ keep \in 0 .. keep /\ keep - 1 < keep
    BY <1>0
  <2>4. lines < y /\ y \in 1 .. lines
    BY <1>4, <1>5, <2>1, <2>2, <2>3
  <2> QED BY <1>0, <2>4
<1>10. ASSUME NEW j \in 1 .. keep, j = 1 \/ In(j - 1) # {} PROVE In(j)' # {}
  <2>1. j \in 0 .. keep /\ j - 1 \in 0 .. keep - 1
    BY <1>0
  <2>2. moves(j - 1)
    BY <1>2, <1>10, <2>1
  <2> HIDE DEF moves
  <2>3. In(j)' = In(j - 1)
    BY <1>1, <2>1, <2>2
  <2> QED BY <2>2, <2>3 DEF moves
<1>11. ASSUME NEW j \in 1 .. keep, NEW k \in 1 .. keep, j < k, In(k)' # {} PROVE In(j)' # {}
  <2>1. k - 1 \in 1 .. keep /\ k \in 0 .. keep /\ (j # 1 => j - 1 \in 1 .. keep /\ j - 1 < k - 1)
    BY <1>0, <1>11
  <2>2. In(k - 1) # {}
    <3> SUFFICES ASSUME In(k - 1) = {} PROVE FALSE
      OBVIOUS
    <3>1. In(k) # {}
      BY <1>1, <1>11, <2>1
    <3>2. k - 1 < k
      BY <2>1
    <3> QED BY <2>1, <3>1, <3>2
  <2>3. j # 1 => In(j - 1) # {}
    BY <2>1, <2>2
  <2> QED BY <1>10, <2>3
<1>12. 1 \in Kept' \/ lines = 0 \/ \A j \in 1 .. keep : In(j)' # {}
  <2>1. ASSUME \A j \in 1 .. keep : In(j) # {} PROVE \A j \in 1 .. keep : In(j)' # {}
    <3> SUFFICES ASSUME NEW j \in 1 .. keep PROVE In(j)' # {}
      OBVIOUS
    <3>1. j # 1 => j - 1 \in 1 .. keep
      BY <1>0
    <3> QED BY <1>10, <2>1, <3>1
  <2>2. ASSUME 1 \in Kept, 1 \notin Kept' PROVE \A j \in 1 .. keep : In(j) # {}
    <3>1. In(keep) # {}
      BY <1>7, <2>2
    <3>2. \A j \in 1 .. keep : j = keep \/ j < keep
      BY <1>0
    <3>3. keep \in 1 .. keep
      BY <1>0
    <3> QED BY <3>1, <3>2, <3>3
  <2> QED BY <2>1, <2>2
<1> QED BY <1>0, <1>8, <1>9, <1>11, <1>12

LEMMA NextUnbroken ==
  ASSUME LogTyped, MainTyped, LogInOrder, LogUnbroken, [Next]_vars
  PROVE  LogUnbroken'
<1> SUFFICES ASSUME setup'.rotation, faults' = 0
             PROVE  /\ Interval(Kept)'
                    /\ log'.handle = "open" <=> main' \notin {"closed", "exited"}
                    /\ log'.handle = "open" =>
                         /\ lines' \in Kept' \cup {0}
                         /\ \A j, k \in 1 .. keep : j < k /\ In(k)' # {} => In(j)' # {}
                         /\ 1 \in Kept' \/ lines' = 0 \/ \A j \in 1 .. keep : In(j)' # {}
  BY DEF LogUnbroken
<1>1. setup.rotation
  BY MainSteps
<1>2. faults = 0
  BY LogMoves DEF Appends, Moves, Leaves
<1>3. /\ Interval(Kept)
      /\ log.handle = "open" <=> main \notin {"closed", "exited"}
      /\ log.handle = "open" =>
           /\ lines \in Kept \cup {0}
           /\ \A j, k \in 1 .. keep : j < k /\ In(k) # {} => In(j) # {}
           /\ 1 \in Kept \/ lines = 0 \/ \A j \in 1 .. keep : In(j) # {}
  BY <1>1, <1>2 DEF LogUnbroken
<1>4. log'.handle = "open" <=> main' \notin {"closed", "exited"}
  BY <1>3, OpenUntilClosed
<1>5. CASE Appends
  <2>1. log.handle = "open"
    BY <1>5 DEF Appends
  <2>2. \A j \in 1 .. keep : In(j)' = In(j)
    BY <1>5, AppendsMeans
  <2>3. /\ Interval(Kept)' /\ lines' \in Kept'
        /\ 1 \in Kept' \/ \A j \in 1 .. keep : In(j)' # {}
    BY <1>3, <1>5, <2>1, AppendsUnbroken
  <2>4. \A j, k \in 1 .. keep : j < k /\ In(k)' # {} => In(j)' # {}
    BY <1>3, <2>1, <2>2
  <2> QED BY <1>4, <2>3, <2>4
<1>6. ASSUME NEW stuck, Moves(stuck)
      PROVE  /\ Interval(Kept)' /\ lines' \in Kept' \cup {0}
             /\ \A j, k \in 1 .. keep : j < k /\ In(k)' # {} => In(j)' # {}
             /\ 1 \in Kept' \/ lines' = 0 \/ \A j \in 1 .. keep : In(j)' # {}
  <2>1. log.handle = "open" /\ Moves({})
    BY <1>6 DEF Moves
  <2>2. /\ Interval(Kept)' /\ lines' = lines /\ lines \in Kept' \cup {0}
        /\ \A j, k \in 1 .. keep : j < k /\ In(k)' # {} => In(j)' # {}
        /\ 1 \in Kept' \/ lines = 0 \/ \A j \in 1 .. keep : In(j)' # {}
    BY <1>3, <2>1, MovesUnbroken
  <2> QED BY <2>2
<1>7. CASE Leaves
  <2>1. \A j : In(j)' = In(j)
    BY <1>7 DEF Leaves, In
  <2>2. Kept' = Kept /\ Interval(Kept)' = Interval(Kept)
    BY <2>1 DEF Kept, Interval
  <2>3. log'.handle = "open" => log.handle = "open" /\ lines' = lines
    BY <1>7 DEF Leaves
  <2> QED BY <1>3, <1>4, <2>1, <2>2, <2>3
<1> QED BY <1>4, <1>5, <1>6, <1>7, LogMoves

LEMMA NextInOrder ==
  ASSUME LogTyped, LogInOrder, [Next]_vars
  PROVE  LogInOrder'
BY LogMoves, AppendsInOrder, MovesInOrder, LeavesInOrder

LEMMA InitLog == Init => LogInOrder /\ LogUnbroken
<1> SUFFICES ASSUME Init PROVE LogInOrder /\ LogUnbroken
  OBVIOUS
<1>1. keep \in Nat /\ 0 \in 0 .. keep
  BY LogAssumption
<1>2. /\ log.files = [j \in 0 .. keep |-> <<>>] /\ log.size = 0
      /\ log.handle = IF setup.rotation THEN "open" ELSE "nil"
  BY DEF Init, NewRotatingWriter, NoWriter
<1>3. lines = 0 /\ rotating = FALSE /\ main = "serving"
  BY DEF Init
<1>4. \A j \in 0 .. keep : log.files[j] = <<>> /\ In(j) = {} /\ Increasing(log.files[j])
  BY <1>2 DEF In, Increasing
<1>5. Kept = {}
  BY <1>4 DEF Kept
<1>6. Len(log.files[0]) = 0
  BY <1>1, <1>4
<1>7. LogInOrder
  BY <1>1, <1>2, <1>3, <1>4, <1>6 DEF LogInOrder
<1>8. \A k \in 1 .. keep : In(k) = {}
  BY <1>1, <1>4
<1>9. LogUnbroken
  BY <1>2, <1>3, <1>5, <1>8 DEF LogUnbroken, Interval
<1> QED BY <1>7, <1>9

\* The older log files and the newest one hold the lines in their order, with
\* no gap in the newest, wherever a rename, a close or an open fails; without
\* failures only the oldest lines are missing and the log is never silent
\* before Close: with any number of older files, any size and any number of
\* failures (Write, rotate and Close in log.go).
THEOREM WholeLog == Spec => []LogIsWhole
<1>1. Typed /\ LogInOrder /\ LogUnbroken /\ [Next]_vars => LogInOrder' /\ LogUnbroken'
  BY NextInOrder, NextUnbroken DEF Typed
<1>2. LogInOrder /\ LogUnbroken => LogIsWhole
  BY DEF LogInOrder, LogUnbroken, LogIsWhole
<1> QED BY <1>1, <1>2, InitLog, AlwaysTyped, PTL DEF Spec

-----------------------------------------------------------------------------
(* The originals are there to be served *)

\* What OriginalsServed says of a text.
Had(t) ==
  \/ Retrievable(t)
  \/ setup.maxAge > 0 /\ saved[t] + setup.maxAge < now
  \/ t \in unsaved \cup raced

\* The texts of a request that writeOriginals has been through.
PassedOn(r) ==
  IF /\ pc[r] \in {"storing", "writing", "adrift", "sent", "answered", "finished", "aborted"}
     /\ status[r] # 400
  THEN {body[r].input[i].output.name : i \in Replaced(body[r]) \ left[r]}
  ELSE {}

\* A sweep only goes for files that were last changed maxAge ago, and a whole
\* file was changed when its text was last stored, or after.
StoreInOrder ==
  /\ \A t \in Texts : disk[t].whole => saved[t] <= disk[t].at \/ t \in raced
  /\ sweep.on \/ sweep.judged # NoText =>
       setup.maxAge > 0 /\ sweep.cutoff <= now - setup.maxAge
  /\ sweep.judged # NoText => sweep.seen < sweep.cutoff
  /\ retLoop = "runs" => setup.maxAge > 0

OriginalsHad == \A r \in Requests : \A t \in PassedOn(r) : Had(t)

LEMMA HadImpliesServed ==
  Typed /\ OriginalsHad => OriginalsServed
<1> SUFFICES ASSUME Typed, OriginalsHad, NEW r \in Requests, WasSent(r),
                    NEW i \in DOMAIN body[r].input,
                    applyToRawBody(body[r])[i].output # body[r].input[i].output
             PROVE  Had(applyToRawBody(body[r])[i].output.of)
  BY DEF OriginalsServed, Had
<1>1. body[r] \in Bodies /\ left[r] = {}
  BY DEF Typed, Placed, WasSent
<1>2. DOMAIN body[r].input[i] = {"type", "output"}
  BY <1>1, ServiceAssumption
<1>3. i \in Replaced(body[r])
  BY DEF applyToRawBody
<1>4. applyToRawBody(body[r])[i].output = Compressed(body[r].input[i].output)
  BY <1>2, <1>3 DEF applyToRawBody
<1>5. applyToRawBody(body[r])[i].output.of = body[r].input[i].output.name
  BY <1>4 DEF Compressed
<1>6. body[r].input[i].output.name \in PassedOn(r)
  BY <1>1, <1>3 DEF PassedOn, WasSent
<1> QED BY <1>5, <1>6 DEF OriginalsHad

LEMMA PassedOnAreTexts ==
  ASSUME Typed, NEW r \in Requests PROVE PassedOn(r) \subseteq Texts
<1>1. CASE pc[r] = "new"
  BY <1>1 DEF PassedOn
<1>2. CASE pc[r] # "new"
  <2>1. body[r] \in Bodies
    BY <1>2 DEF Typed, Placed
  <2>2. PassedOn(r) \subseteq Originals(body[r])
    BY DEF PassedOn, Originals
  <2> QED BY <2>1, <2>2 DEF Texts
<1> QED BY <1>1, <1>2

\* A step at which no original is opened, written, lost or removed.
Calm ==
  /\ UNCHANGED <<disk, saved, unsaved, raced>>
  /\ \A p \in Requests :
       /\ pc[p] \in {"writing", "adrift"} =>
            pc'[p] = pc[p] /\ left'[p] = left[p] /\ body'[p] = body[p]
       /\ PassedOn(p)' \subseteq PassedOn(p)

LEMMA CalmHandler ==
  ASSUME Typed, NEW r \in Requests, Handler(r)
  PROVE  AtOriginals(r) \/ Calm
<1> USE DEF Typed, RequestsTyped, At, Goto
<1> DEFINE Mine == /\ pc[r] \notin {"writing", "adrift"}
                   /\ PassedOn(r)' \subseteq PassedOn(r)
<1>1. ASSUME UNCHANGED store, Mine PROVE Calm
  <2>1. \A p \in Requests : p # r =>
          /\ pc'[p] = pc[p] /\ body'[p] = body[p] /\ left'[p] = left[p]
          /\ status'[p] = status[p]
    BY HandlerIsAlone
  <2>2. ASSUME NEW p \in Requests, p # r PROVE PassedOn(p)' = PassedOn(p)
    <3>1. pc'[p] = pc[p] /\ body'[p] = body[p] /\ left'[p] = left[p] /\ status'[p] = status[p]
      BY <2>1, <2>2
    <3> QED BY <3>1 DEF PassedOn
  <2> QED BY <1>1, <2>1, <2>2 DEF Calm, store
<1>2. ASSUME NEW s \in setup.sessions, NEW b \in setup.bodies, Receive(r, s, b)
      PROVE  Calm
  BY <1>1, <1>2 DEF Receive, PassedOn
<1>3. ASSUME Refuse(r) PROVE Calm
  BY <1>1, <1>3 DEF Refuse, PassedOn
<1>4. ASSUME Process(r) PROVE Calm
  <2>1. left'[r] = Replaced(body[r]) /\ body'[r] = body[r] /\ pc[r] = "received"
    BY <1>4 DEF Process
  <2>2. PassedOn(r)' = {}
    BY <2>1 DEF PassedOn
  <2> QED BY <1>1, <1>4, <2>1, <2>2 DEF Process
<1>5. ASSUME Retry(r) PROVE Calm
  BY <1>1, <1>5 DEF Retry, request, PassedOn
<1>6. ASSUME NEW name, NEW st, Fails(r, name, st) PROVE Calm
  <2>1. pc[r] = "sent" /\ status[r] = 0 /\ left'[r] = left[r] /\ body'[r] = body[r]
    BY <1>6 DEF Fails, Placed
  <2> QED BY <1>1, <1>6, <2>1 DEF Fails, PassedOn
<1>7. ASSUME Answer(r) PROVE Calm
  <2>1. pc[r] = "sent" /\ status[r] = 0 /\ left'[r] = left[r] /\ body'[r] = body[r]
    BY <1>7 DEF Answer, Placed
  <2> QED BY <1>1, <1>7, <2>1 DEF Answer, PassedOn
<1>8. ASSUME Finish(r) PROVE Calm
  <2>1. pc[r] = "answered" /\ left' = left /\ body' = body /\ status' = status
    BY <1>8 DEF Finish
  <2> QED BY <1>1, <1>8, <2>1 DEF Finish, PassedOn
<1>9. ASSUME Abort(r) PROVE Calm
  <2>1. pc[r] = "sent" /\ left' = left /\ body' = body /\ status' = status
    BY <1>9 DEF Abort
  <2> QED BY <1>1, <1>9, <2>1 DEF Abort, PassedOn
<1> QED
  BY <1>2, <1>3, <1>4, <1>5, <1>6, <1>7, <1>8, <1>9
     DEF Handler, AtOriginals, FetchFailed, StreamFailed

LEMMA CalmSteps ==
  ASSUME Typed, [Next]_vars
  PROVE  \/ \E r \in Requests : AtOriginals(r)
         \/ Remove
         \/ Calm
<1>1. ASSUME UNCHANGED <<request, store>> PROVE Calm
  BY <1>1 DEF Calm, request, store, PassedOn
<1>2. CASE CheckSize \/ Rotate \/ Tick
  BY <1>1, <1>2 DEF CheckSize, Rotate, Tick
<1>3. CASE Sweep
  BY <1>1, <1>3 DEF Sweep, StartSweep, Judge, RemoveFails, EndSweep
<1>4. CASE Main
  BY <1>1, <1>4 DEF Main, Signal, RetentionEnds, RetentionClosed, RotationEnds, LogClosed, Exit,
     Terminated, vars
<1>5. CASE UNCHANGED vars
  BY <1>1, <1>5 DEF vars
<1> QED BY <1>2, <1>3, <1>4, <1>5, CalmHandler DEF Next

\* The request that a step of writeOriginals is about: what it is through with
\* by then are the text it was at, or all of its texts, which could not be stored.
LEMMA OriginalSteps ==
  ASSUME Typed, NEW r \in Requests, AtOriginals(r)
  PROVE  /\ Original(r) \in Texts
         /\ \A p \in Requests : p # r =>
              /\ pc'[p] = pc[p] /\ body'[p] = body[p] /\ left'[p] = left[p]
              /\ status'[p] = status[p]
         /\ body' = body /\ status' = status /\ setup' = setup /\ now' = now
         /\ sweep' = sweep
         /\ PassedOn(r)' \subseteq PassedOn(r) \cup {Original(r)} \cup unsaved'
<1> USE DEF Typed, RequestsTyped, At, Goto
<1>1. pc[r] \in {"storing", "writing", "adrift"}
  BY DEF AtOriginals, OpenOriginal, WriteOriginal, LoseOriginal, LoseOriginals
<1>2. Original(r) \in Texts
  BY <1>1, OriginalIsText
<1>3. Handler(r)
  BY DEF AtOriginals, Handler
<1>4. \A p \in Requests : p # r =>
        /\ pc'[p] = pc[p] /\ body'[p] = body[p] /\ left'[p] = left[p]
        /\ status'[p] = status[p]
  BY <1>3, HandlerIsAlone
<1>5. body' = body /\ status' = status /\ setup' = setup /\ now' = now /\ sweep' = sweep
  BY DEF AtOriginals, OpenOriginal, WriteOriginal, LoseOriginal, LoseOriginals
<1>6. status[r] # 400
  BY <1>1 DEF Placed
<1>7. CASE OpenOriginal(r) \/ WriteOriginal(r) \/ LoseOriginal(r)
  <2>1. left[r] \ left'[r] \subseteq {Place(r)}
    BY <1>7 DEF OpenOriginal, WriteOriginal, LoseOriginal, NextOriginal
  <2>2. PassedOn(r)' \subseteq PassedOn(r) \cup {Original(r)}
    BY <1>1, <1>5, <1>6, <2>1 DEF PassedOn, Original
  <2> QED BY <2>2, <1>2, <1>4, <1>5
<1>8. CASE LoseOriginals(r)
  <2>1. PassedOn(r)' \subseteq Originals(body[r])
    BY <1>5 DEF PassedOn, Originals
  <2>2. Originals(body[r]) \subseteq unsaved'
    BY <1>8 DEF LoseOriginals
  <2> QED BY <2>1, <2>2, <1>2, <1>4, <1>5
<1> QED BY <1>7, <1>8 DEF AtOriginals

\* Being written does not end for a text but with a step of its writer.
LEMMA StillWritten ==
  ASSUME NEW t, NEW p \in Requests, pc[p] \in {"writing", "adrift"}, Original(p) = t,
         pc'[p] \in {"writing", "adrift"}, left'[p] = left[p], body'[p] = body[p]
  PROVE  BeingWritten(t)'
<1>1. Place(p)' = Place(p)
  BY DEF Place
<1>2. Original(p)' = Original(p)
  BY <1>1 DEF Original
<1> QED BY <1>2 DEF BeingWritten

LEMMA HadStays ==
  ASSUME Typed, StoreInOrder, [Next]_vars, NEW t \in Texts, Had(t)
  PROVE  Had(t)'
<1>0. /\ setup' = setup /\ now \in Nat /\ now' \in Nat /\ now <= now'
      /\ setup.maxAge \in Nat /\ saved[t] \in Nat
  <2>1. setup' = setup /\ now \in Nat /\ now' \in Nat /\ now <= now'
    BY MainSteps, NextMainTyped DEF Typed
  <2>2. saved[t] \in 0 .. now
    BY DEF Typed, StoreTyped
  <2>3. setup.maxAge \in Nat
    BY ServiceAssumption DEF Typed, MainTyped
  <2> QED BY <2>1, <2>2, <2>3
<1>1. ASSUME disk'[t] = disk[t], saved'[t] = saved[t],
             t \in unsaved \cup raced => t \in unsaved' \cup raced',
             BeingWritten(t) => BeingWritten(t)'
      PROVE  Had(t)'
  <2>1. CASE Retrievable(t)
    BY <1>1, <2>1 DEF Retrievable, Had
  <2>2. CASE setup.maxAge > 0 /\ saved[t] + setup.maxAge < now
    <3>1. setup'.maxAge > 0 /\ saved'[t] + setup'.maxAge < now'
      BY <1>0, <1>1, <2>2
    <3> QED BY <3>1 DEF Had
  <2>3. CASE t \in unsaved \cup raced
    BY <1>1, <2>3 DEF Had
  <2> QED BY <2>1, <2>2, <2>3 DEF Had
<1>2. ASSUME NEW r \in Requests, AtOriginals(r), Original(r) # t
      PROVE  Had(t)'
  <2>1. BeingWritten(t) => BeingWritten(t)'
    <3> SUFFICES ASSUME NEW p \in Requests, pc[p] \in {"writing", "adrift"}, Original(p) = t
                 PROVE  BeingWritten(t)'
      BY DEF BeingWritten
    <3>1. p # r
      BY <1>2
    <3>2. pc'[p] = pc[p] /\ body'[p] = body[p] /\ left'[p] = left[p]
      BY <1>2, <3>1, OriginalSteps
    <3> QED BY <3>2, StillWritten
  <2>2. disk'[t] = disk[t] /\ saved'[t] = saved[t]
    BY <1>2 DEF AtOriginals, OpenOriginal, WriteOriginal, LoseOriginal, LoseOriginals, Typed,
       StoreTyped
  <2>3. t \in unsaved \cup raced => t \in unsaved' \cup raced'
    BY <1>2 DEF AtOriginals, OpenOriginal, WriteOriginal, LoseOriginal, LoseOriginals
  <2> QED BY <1>1, <2>1, <2>2, <2>3
<1>3. ASSUME NEW r \in Requests, OpenOriginal(r), Original(r) = t PROVE Had(t)'
  <2>1. pc'[r] = "writing" /\ left' = left /\ body' = body
    BY <1>3 DEF OpenOriginal, Goto, Typed, RequestsTyped
  <2>2. Original(r)' = Original(r)
    BY <2>1 DEF Original, Place
  <2> QED BY <1>3, <2>1, <2>2 DEF Had, Retrievable, BeingWritten
<1>4. ASSUME NEW r \in Requests, WriteOriginal(r), Original(r) = t PROVE Had(t)'
  <2>1. CASE pc[r] = "writing"
    <3>1. disk'[t] = [at |-> now, whole |-> TRUE]
      BY <1>4, <2>1 DEF WriteOriginal, Typed, StoreTyped
    <3> QED BY <3>1 DEF Had, Retrievable
  <2>2. CASE pc[r] # "writing"
    BY <1>4, <2>2 DEF WriteOriginal, Had
  <2> QED BY <2>1, <2>2
<1>5. ASSUME NEW r \in Requests, LoseOriginal(r), Original(r) = t PROVE Had(t)'
  BY <1>5 DEF LoseOriginal, Had
<1>8. ASSUME NEW r \in Requests, LoseOriginals(r), Original(r) = t PROVE Had(t)'
  <2>1. pc[r] = "storing" /\ left[r] = Replaced(body[r])
    BY <1>8 DEF LoseOriginals, At
  <2>2. Place(r) \in left[r]
    BY <2>1, OriginalIsText DEF Typed
  <2>3. t \in Originals(body[r])
    BY <1>8, <2>1, <2>2 DEF Original, Originals
  <2> QED BY <1>8, <2>3 DEF LoseOriginals, Had
<1>6. ASSUME Remove PROVE Had(t)'
  <2>1. BeingWritten(t) => BeingWritten(t)'
    <3> SUFFICES ASSUME NEW p \in Requests, pc[p] \in {"writing", "adrift"}, Original(p) = t
                 PROVE  BeingWritten(t)'
      BY DEF BeingWritten
    <3>1. pc'[p] \in {"writing", "adrift"} /\ left' = left /\ body' = body
      BY <1>6 DEF Remove
    <3> QED BY <3>1, StillWritten
  <2>2. saved' = saved /\ unsaved' = unsaved /\ raced \subseteq raced'
    BY <1>6 DEF Remove
  <2>3. CASE t # sweep.judged
    <3>1. disk'[t] = disk[t]
      BY <1>6, <2>3 DEF Remove, Unlink, Typed, StoreTyped
    <3> QED BY <1>1, <2>1, <2>2, <3>1
  <2>4. CASE t = sweep.judged /\ ~disk[t].whole
    <3>1. ~disk'[t].whole
      BY <1>6, <2>4 DEF Remove, Unlink, Absent, Typed, StoreTyped
    <3> QED BY <1>0, <2>1, <2>2, <2>4 DEF Had, Retrievable
  <2>5. CASE t = sweep.judged /\ disk[t].at # sweep.seen
    BY <1>6, <2>5 DEF Remove, Had
  <2>6. CASE t = sweep.judged /\ disk[t].whole /\ disk[t].at = sweep.seen
    <3>1. /\ setup.maxAge > 0 /\ sweep.cutoff <= now - setup.maxAge
          /\ sweep.seen < sweep.cutoff
      BY <1>6 DEF Remove, StoreInOrder
    <3>2. saved[t] <= disk[t].at \/ t \in raced
      BY <2>6 DEF StoreInOrder
    <3>3. disk[t].at < sweep.cutoff /\ disk[t].at \in Nat /\ sweep.cutoff \in Int
      BY <2>6, <3>1 DEF Typed, StoreTyped
    <3>4. now' = now
      BY <1>6 DEF Remove
    <3>5. CASE t \in raced
      BY <2>2, <3>5 DEF Had
    <3>6. CASE saved[t] <= disk[t].at
      <4>1. saved[t] + setup.maxAge < now
        BY <1>0, <3>1, <3>3, <3>6
      <4> QED BY <1>0, <2>2, <3>1, <3>4, <4>1 DEF Had
    <3> QED BY <3>2, <3>5, <3>6
  <2> QED BY <2>3, <2>4, <2>5, <2>6
<1>7. ASSUME Calm PROVE Had(t)'
  <2>1. BeingWritten(t) => BeingWritten(t)'
    BY <1>7, StillWritten DEF Calm, BeingWritten
  <2> QED BY <1>1, <1>7, <2>1 DEF Calm
<1> QED BY <1>2, <1>3, <1>4, <1>5, <1>6, <1>7, <1>8, CalmSteps DEF AtOriginals

LEMMA NextStoreInOrder ==
  ASSUME Typed, StoreInOrder, [Next]_vars
  PROVE  StoreInOrder'
<1>0. /\ setup' = setup /\ now \in Nat /\ now' \in Nat /\ now <= now' /\ setup.maxAge \in Nat
      /\ sweep.cutoff \in Int
  <2>1. setup' = setup /\ now \in Nat /\ now' \in Nat /\ now <= now'
    BY MainSteps, NextMainTyped DEF Typed
  <2>2. sweep.cutoff \in Int
    BY DEF Typed, StoreTyped
  <2>3. setup.maxAge \in Nat
    BY ServiceAssumption DEF Typed, MainTyped
  <2> QED BY <2>1, <2>2, <2>3
<1>1. ASSUME NEW t \in Texts, disk'[t].whole PROVE saved'[t] <= disk'[t].at \/ t \in raced'
  <2>0. /\ disk[t].whole => saved[t] <= disk[t].at \/ t \in raced
        /\ t \in DOMAIN disk /\ t \in DOMAIN saved
    BY DEF StoreInOrder, Typed, StoreTyped
  <2>1. ASSUME disk'[t] = disk[t], saved'[t] = saved[t], t \in raced => t \in raced'
        PROVE  saved'[t] <= disk'[t].at \/ t \in raced'
    BY <1>1, <2>0, <2>1
  <2>2. ASSUME NEW r \in Requests, OpenOriginal(r)
        PROVE  saved'[t] <= disk'[t].at \/ t \in raced'
    <3>1. disk' = [disk EXCEPT ![Original(r)] = [at |-> now, whole |-> FALSE]]
          /\ saved' = saved /\ raced' = raced
      BY <2>2 DEF OpenOriginal
    <3>2. t # Original(r)
      BY <1>1, <2>0, <3>1
    <3> QED BY <2>0, <2>1, <3>1, <3>2
  <2>3. ASSUME NEW r \in Requests, WriteOriginal(r), t = Original(r)
        PROVE  saved'[t] <= disk'[t].at \/ t \in raced'
    <3>1. CASE pc[r] = "writing"
      <4>1. disk'[t].at = now /\ saved'[t] = now
        BY <2>0, <2>3, <3>1 DEF WriteOriginal
      <4> QED BY <1>0, <4>1
    <3>2. CASE pc[r] # "writing"
      BY <2>3, <3>2 DEF WriteOriginal
    <3> QED BY <3>1, <3>2
  <2>4. ASSUME NEW r \in Requests, WriteOriginal(r), t # Original(r)
        PROVE  saved'[t] <= disk'[t].at \/ t \in raced'
    <3>1. disk'[t] = disk[t] /\ saved'[t] = saved[t] /\ (t \in raced => t \in raced')
      BY <2>0, <2>4 DEF WriteOriginal
    <3> QED BY <2>1, <3>1
  <2>5. ASSUME NEW r \in Requests, LoseOriginal(r) \/ LoseOriginals(r)
        PROVE  saved'[t] <= disk'[t].at \/ t \in raced'
    BY <2>1, <2>5 DEF LoseOriginal, LoseOriginals
  <2>6. ASSUME Remove PROVE saved'[t] <= disk'[t].at \/ t \in raced'
    <3>1. disk' = [disk EXCEPT ![sweep.judged] = Absent] /\ saved' = saved /\ raced \subseteq raced'
      BY <2>6 DEF Remove, Unlink
    <3>2. t # sweep.judged
      BY <1>1, <2>0, <3>1 DEF Absent
    <3> QED BY <2>0, <2>1, <3>1, <3>2
  <2>7. ASSUME Calm PROVE saved'[t] <= disk'[t].at \/ t \in raced'
    BY <2>1, <2>7 DEF Calm
  <2> QED BY <2>2, <2>3, <2>4, <2>5, <2>6, <2>7, CalmSteps DEF AtOriginals
<1>2. ASSUME sweep'.on \/ sweep'.judged # NoText
      PROVE  setup.maxAge > 0 /\ sweep'.cutoff <= now' - setup.maxAge
  <2>0. sweep.on \/ sweep.judged # NoText => setup.maxAge > 0 /\ sweep.cutoff <= now - setup.maxAge
    BY DEF StoreInOrder
  <2>1. ASSUME sweep'.cutoff = sweep.cutoff, sweep.on \/ sweep.judged # NoText
        PROVE  setup.maxAge > 0 /\ sweep'.cutoff <= now' - setup.maxAge
    BY <1>0, <2>0, <2>1
  <2>2. ASSUME StartSweep
        PROVE  setup.maxAge > 0 /\ sweep'.cutoff <= now' - setup.maxAge
    <3>1. setup.maxAge > 0 /\ sweep'.cutoff = now - setup.maxAge /\ now' = now
      BY <2>2 DEF StartSweep, StoreInOrder
    <3> QED BY <1>0, <3>1
  <2>3. ASSUME (\E t \in Texts : Judge(t)) \/ Remove \/ RemoveFails \/ EndSweep
        PROVE  sweep'.cutoff = sweep.cutoff /\ (sweep.on \/ sweep.judged # NoText)
    BY <1>2, <2>3 DEF Judge, Remove, RemoveFails, EndSweep, Typed, StoreTyped
  <2>4. ASSUME sweep' = sweep
        PROVE  setup.maxAge > 0 /\ sweep'.cutoff <= now' - setup.maxAge
    BY <1>2, <2>1, <2>4
  <2>5. ASSUME NEW r \in Requests, AtOriginals(r)
        PROVE  sweep' = sweep
    BY <2>5, OriginalSteps
  <2>6. Tick => sweep' = sweep
    BY DEF Tick
  <2> QED BY <2>1, <2>2, <2>3, <2>4, <2>5, <2>6, StoreSteps DEF Sweep
<1>3. retLoop' = "runs" => setup.maxAge > 0
  <2>1. retLoop' = "runs" => retLoop = "runs"
    <3>1. Main => (retLoop' = "runs" => retLoop = "runs")
      BY DEF Main, Signal, RetentionEnds, RetentionClosed, RotationEnds, LogClosed, Exit,
         Terminated, vars, loops
    <3> QED BY <3>1, MainSteps DEF loops
  <2> QED BY <2>1 DEF StoreInOrder
<1>4. sweep'.judged # NoText => sweep'.seen < sweep'.cutoff
  <2>0. sweep.judged # NoText => sweep.seen < sweep.cutoff
    BY DEF StoreInOrder
  <2>1. ASSUME NEW t \in Texts, Judge(t), sweep'.judged # NoText
        PROVE  sweep'.seen < sweep'.cutoff
    <3>1. Expired(t) /\ sweep'.seen = disk[t].at /\ sweep'.cutoff = sweep.cutoff
      BY <2>1 DEF Judge, Typed, StoreTyped
    <3> QED BY <3>1 DEF Expired
  <2>2. ASSUME Remove \/ RemoveFails PROVE sweep'.judged = NoText
    <3>1. sweep' = [sweep EXCEPT !.judged = NoText, !.seen = 0]
      BY <2>2 DEF Remove, RemoveFails
    <3> QED BY <3>1 DEF Typed, StoreTyped
  <2>7. ASSUME StartSweep PROVE sweep'.judged = NoText
    BY <2>7 DEF StartSweep
  <2>3. ASSUME EndSweep PROVE sweep'.judged = NoText
    BY <2>3 DEF EndSweep, Typed, StoreTyped
  <2>4. ASSUME sweep' = sweep PROVE sweep'.judged # NoText => sweep'.seen < sweep'.cutoff
    BY <2>0, <2>4
  <2>5. ASSUME NEW r \in Requests, AtOriginals(r)
        PROVE  sweep' = sweep
    BY <2>5, OriginalSteps
  <2>6. Tick => sweep' = sweep
    BY DEF Tick
  <2> QED BY <2>1, <2>2, <2>3, <2>4, <2>5, <2>6, <2>7, StoreSteps DEF Sweep
<1> QED BY <1>0, <1>1, <1>2, <1>3, <1>4 DEF StoreInOrder

LEMMA NextOriginalsHad ==
  ASSUME Typed, StoreInOrder, OriginalsHad, [Next]_vars, NEW p \in Requests, NEW t \in PassedOn(p)'
  PROVE  Had(t)'
<1>1. CASE t \in PassedOn(p)
  <2>1. t \in Texts /\ Had(t)
    BY <1>1, PassedOnAreTexts DEF OriginalsHad
  <2> QED BY <2>1, HadStays
<1>2. CASE t \notin PassedOn(p)
  <2>1. ~Calm
    BY <1>2 DEF Calm
  <2>2. ~Remove
    <3> SUFFICES ASSUME Remove PROVE FALSE
      OBVIOUS
    <3>1. /\ body' = body /\ left' = left /\ status' = status
          /\ pc'[p] = pc[p] \/ (pc[p] = "writing" /\ pc'[p] = "adrift")
      BY DEF Remove
    <3>2. PassedOn(p)' = PassedOn(p)
      BY <3>1 DEF PassedOn
    <3> QED BY <1>2, <3>2
  <2>3. PICK r \in Requests : AtOriginals(r)
    BY <2>1, <2>2, CalmSteps
  <2>4. p = r
    <3> SUFFICES ASSUME p # r PROVE FALSE
      OBVIOUS
    <3>1. /\ pc'[p] = pc[p] /\ body'[p] = body[p] /\ left'[p] = left[p]
          /\ status'[p] = status[p]
      BY <2>3, OriginalSteps
    <3>2. PassedOn(p)' = PassedOn(p)
      BY <3>1 DEF PassedOn
    <3> QED BY <1>2, <3>2
  <2>5. (t = Original(r) /\ t \in Texts) \/ t \in unsaved'
    BY <1>2, <2>3, <2>4, OriginalSteps
  <2>9. CASE t \in unsaved'
    BY <2>9 DEF Had
  <2>6. CASE OpenOriginal(r)
    <3>1. left' = left /\ body' = body /\ status' = status /\ pc[r] = "storing"
      BY <2>6 DEF OpenOriginal, At
    <3>2. PassedOn(r)' \subseteq PassedOn(r)
      BY <3>1 DEF PassedOn
    <3> QED BY <1>2, <2>4, <3>2
  <2>7. CASE WriteOriginal(r) /\ t = Original(r) /\ t \in Texts
    <3>1. CASE pc[r] = "writing"
      <4>1. disk'[t] = [at |-> now, whole |-> TRUE]
        BY <2>5, <2>7, <3>1 DEF WriteOriginal, Typed, StoreTyped
      <4> QED BY <4>1 DEF Had, Retrievable
    <3>2. CASE pc[r] # "writing"
      BY <2>5, <2>7, <3>2 DEF WriteOriginal, Had
    <3> QED BY <3>1, <3>2
  <2>8. CASE LoseOriginal(r) /\ t = Original(r)
    BY <2>8 DEF LoseOriginal, Had
  <2>10. CASE LoseOriginals(r) /\ t = Original(r)
    <3>1. t \notin PassedOn(r) /\ t \in PassedOn(r)'
      BY <1>2, <2>4
    <3>2. t \in Originals(body[r])
      BY <2>10, <3>1 DEF LoseOriginals, PassedOn, Originals
    <3> QED BY <2>10, <3>2 DEF LoseOriginals, Had
  <2> QED BY <2>3, <2>5, <2>6, <2>7, <2>8, <2>9, <2>10 DEF AtOriginals
<1> QED BY <1>1, <1>2

LEMMA InitStore == Init => StoreInOrder /\ OriginalsHad
<1> SUFFICES ASSUME Init PROVE StoreInOrder /\ OriginalsHad
  OBVIOUS
<1>1. StoreInOrder
  <2>1. \A t \in Texts : ~disk[t].whole
    BY DEF Init, Absent
  <2>2. retLoop = "runs" => setup.maxAge > 0
    BY DEF Init
  <2> QED BY <2>1, <2>2 DEF Init, StoreInOrder
<1>2. OriginalsHad
  BY DEF Init, OriginalsHad, PassedOn
<1> QED BY <1>1, <1>2

\* When a request goes to the upstream with a shortened output, its original
\* was stored before, and it stays in the store until it is older than maxAge;
\* the only texts of which this does not hold are those whose storing failed
\* when it was last tried, those being written again at the moment, and those
\* a sweep removed a newer file of than the one it had found expired.  It holds
\* for any requests that store the same texts at the same time, any order of
\* sweeps with them and any failures (writeOriginals in headroom.go, sweep in
\* retention.go).
THEOREM ServedOriginals == Spec => []OriginalsServed
<1>1. Typed /\ StoreInOrder /\ OriginalsHad /\ [Next]_vars => StoreInOrder' /\ OriginalsHad'
  BY NextStoreInOrder, NextOriginalsHad DEF OriginalsHad
<1>2. Typed /\ OriginalsHad => OriginalsServed
  BY HadImpliesServed
<1> QED BY <1>1, <1>2, InitStore, AlwaysTyped, PTL DEF Spec
=============================================================================
