------------------------------- MODULE Monitor -------------------------------
(***************************************************************************)
(* The counters behind the dashboard (monitor.go): the totals, and the      *)
(* statistics of each session that the table still has room for.  Every     *)
(* call holds the mutex from end to end, so Record is one step.  The ring   *)
(* of recent events, the minutes of the throughput chart and the durations  *)
(* are left out.                                                            *)
(***************************************************************************)
EXTENDS Integers, FiniteSets

CONSTANTS
  Sources,           \* the sessions a request header may name
  NoSource,          \* a request without such a header
  maxTrackedSources

ASSUME MonitorAssumption ==
  NoSource \notin Sources /\ maxTrackedSources \in Nat \ {0}

Zero == [requests |-> 0, responses |-> 0, retries429 |-> 0, errors |-> 0, non200 |-> 0]

NewMonitor == [total |-> Zero, sources |-> [s \in {} |-> Zero], seen |-> [s \in {} |-> 0]]

\* An event: its name, the status it carries (0: none), whether the name or
\* the level makes it an error, and the session.
Event(name, status, isError, source) ==
  [name |-> name, status |-> status, isError |-> isError, source |-> source]

One(b) == IF b THEN 1 ELSE 0

\* Mutant of isNon200: the status of a try that is retried counts as well.
isBadTry(e) == e.status \notin {0, 200, 204}

\* Only the status a request ends with counts as not 200.
isNon200(e) == e.name = "request_finish" /\ e.status \notin {0, 200, 204}

Counted(stat, e) ==
  [requests   |-> stat.requests + One(e.name = "request_received"),
   responses  |-> stat.responses + One(e.name = "request_finish"),
   retries429 |-> stat.retries429 + One(e.name = "upstream_retry" /\ e.status = 429),
   errors     |-> stat.errors + One(e.isError),
   non200     |-> stat.non200 + One(isNon200(e))]

Tracked(m) == DOMAIN m.sources

\* The sessions evictOldestSource may choose: one that nothing was heard of
\* for longest.  The order in which Go walks a map decides between equals.
Oldest(m) == {s \in Tracked(m) : \A t \in Tracked(m) : m.seen[s] <= m.seen[t]}

\* Mutant of WithRoom: nothing is evicted.
WithoutLimit(m, e) == {Tracked(m)}

\* The tables a new entry for e.source may be put in.
WithRoom(m, e) ==
  IF e.source = NoSource \/ e.source \in Tracked(m)
     \/ Cardinality(Tracked(m)) < maxTrackedSources
  THEN {Tracked(m)}
  ELSE {Tracked(m) \ {s} : s \in Oldest(m)}

\* What the monitor may be after an event at a time.
Record(m, e, now) ==
  {LET before(s) == IF s \in Tracked(m) THEN m.sources[s] ELSE Zero
       table     == kept \cup ({e.source} \ {NoSource})
   IN [total   |-> Counted(m.total, e),
       sources |-> [s \in table |-> IF s = e.source THEN Counted(before(s), e)
                                                    ELSE before(s)],
       seen    |-> [s \in table |-> IF s = e.source THEN now ELSE m.seen[s]]]
     : kept \in WithRoom(m, e)}
=============================================================================
