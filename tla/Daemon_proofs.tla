--------------------------- MODULE Daemon_proofs ---------------------------
(***************************************************************************)
(* Proofs about Daemon, for any operators and any process ids.             *)
(***************************************************************************)
EXTENDS Daemon, TLAPS

-----------------------------------------------------------------------------
(* However commands overlap *)

Starting == {"writePid", "poll"}

\* No two starts have the same child; while a start deals with its child the PID is
\* not free; and the ready file names such a child only if it wrote the file itself
\* or the file is older than the child.
Orderly ==
  /\ \A o, q \in Operators :
       o # q /\ cmd[o] \in Starting /\ cmd[q] \in Starting => my[o] # my[q]
  /\ \A o \in Operators :
       cmd[o] \in Starting => proc[my[o]] \in Running \cup {"holding", "zombie"}
  /\ \A p \in Pids : readyFile = p /\ Awaited(p) => p \in bound \cup misled

LEMMA InitOrderly == Init => TypeOK /\ Orderly
BY DaemonAssumption DEF Init, TypeOK, Orderly, Starting, Heeding, Running, Awaited

LEMMA NextTypeOK ==
  ASSUME TypeOK, Orderly, [Next]_vars
  PROVE  TypeOK'
<1> USE DEF TypeOK, Orderly, Running, Heeding, Becomes, Goto, Done, AfterStop, RemoveFiles,
        process, files, command, history, Starting, Awaited, Listening
<1>1. ASSUME NEW p \in Pids, Arm(p) PROVE TypeOK'
  BY <1>1 DEF Arm
<1>2. ASSUME NEW p \in Pids, BootFails(p) PROVE TypeOK'
  BY <1>2 DEF BootFails, Ends, Remains
<1>3. ASSUME NEW p \in Pids, Bind(p) PROVE TypeOK'
  BY <1>3 DEF Bind
<1>4. ASSUME NEW p \in Pids, MarkReady(p) PROVE TypeOK'
  BY <1>4 DEF MarkReady
<1>5. ASSUME NEW p \in Pids, ServeReturns(p) PROVE TypeOK'
  BY <1>5 DEF ServeReturns
<1>6. ASSUME NEW p \in Pids, ClearReady(p) PROVE TypeOK'
  BY <1>6 DEF ClearReady
<1>7. ASSUME NEW p \in Pids, Exit(p) PROVE TypeOK'
  BY <1>7 DEF Exit, Ends, Remains
<1>8. ASSUME NEW p \in Pids, Dies(p) PROVE TypeOK'
  BY <1>8 DEF Dies, Ends, Remains
<1>9. ASSUME NEW p \in Pids, ServeFails(p) PROVE TypeOK'
  BY <1>9 DEF ServeFails
<1>10. ASSUME NEW p \in Pids, ShutdownReturns(p) PROVE TypeOK'
  BY <1>10 DEF ShutdownReturns
<1>11. ASSUME NEW p \in Pids, Crash(p) PROVE TypeOK'
  BY <1>11 DEF Crash, Ends, Remains
<1>12. ASSUME NEW p \in Pids, OutsideSignal(p) PROVE TypeOK'
  BY <1>12 DEF OutsideSignal, SigTerm, SigKill, Ends, Remains
<1>13. ASSUME NEW p \in Pids, Stranger(p) PROVE TypeOK'
  BY <1>13 DEF Stranger
<1>15. ASSUME NEW o \in Operators, RunCommand(o) PROVE TypeOK'
  BY <1>15 DEF RunCommand
<1>16. ASSUME NEW o \in Operators, AlreadyRunning(o) PROVE TypeOK'
  BY <1>16 DEF AlreadyRunning
<1>17. ASSUME NEW o \in Operators, NotRunning(o) PROVE TypeOK'
  BY <1>17 DEF NotRunning
<1>18. ASSUME NEW o \in Operators, CannotSpawn(o) PROVE TypeOK'
  BY <1>18 DEF CannotSpawn
<1>19. ASSUME NEW o \in Operators, Spawn(o) PROVE TypeOK'
  BY <1>19 DEF Spawn
<1>20. ASSUME NEW o \in Operators, WritePid(o) PROVE TypeOK'
  BY <1>20 DEF WritePid
<1>21. ASSUME NEW o \in Operators, CannotWritePid(o) PROVE TypeOK'
  BY <1>21 DEF CannotWritePid, Returns, Abandon, Ends
<1>22. ASSUME NEW o \in Operators, ChildGone(o) PROVE TypeOK'
  BY <1>22 DEF ChildGone, Returns, Ends
<1>23. ASSUME NEW o \in Operators, SeenReady(o) PROVE TypeOK'
  BY <1>23 DEF SeenReady, Returns, Ends
<1>24. ASSUME NEW o \in Operators, StartTimeout(o) PROVE TypeOK'
  BY <1>24 DEF StartTimeout, Returns, Abandon, Ends
<1>25. ASSUME NEW o \in Operators, NothingToStop(o) PROVE TypeOK'
  BY <1>25 DEF NothingToStop
<1>26. ASSUME NEW o \in Operators, ReadPid(o) PROVE TypeOK'
  BY <1>26 DEF ReadPid
<1>27. ASSUME NEW o \in Operators, StaleFiles(o) PROVE TypeOK'
  BY <1>27 DEF StaleFiles
<1>28. ASSUME NEW o \in Operators, AskToStop(o) PROVE TypeOK'
  BY <1>28 DEF AskToStop, SigTerm, SigKill, Ends, Remains
<1>29. ASSUME NEW o \in Operators, SeenStopped(o) PROVE TypeOK'
  BY <1>29 DEF SeenStopped
<1>30. ASSUME NEW o \in Operators, StopTimeout(o) PROVE TypeOK'
  BY <1>30 DEF StopTimeout, SigKill, Ends, Remains
<1>31. ASSUME UNCHANGED vars PROVE TypeOK'
  BY <1>31 DEF vars
<1> QED
  BY <1>1, <1>2, <1>3, <1>4, <1>5, <1>6, <1>7, <1>8, <1>9, <1>10, <1>11, <1>12, <1>13,
     <1>15, <1>16, <1>17, <1>18, <1>19, <1>20, <1>21, <1>22, <1>23, <1>24, <1>25, <1>26, <1>27,
     <1>28, <1>29, <1>30, <1>31 DEF Next, Main, StartStep, StopStep

LEMMA NextOrderly ==
  ASSUME TypeOK, Orderly, [Next]_vars
  PROVE  Orderly'
<1> USE DaemonAssumption DEF TypeOK, Orderly, Running, Heeding, Becomes, Goto, Done, AfterStop, RemoveFiles,
        process, files, command, history, Starting, Awaited, Listening
<1>1. ASSUME NEW p \in Pids, Arm(p) PROVE Orderly'
  BY <1>1 DEF Arm
<1>2. ASSUME NEW p \in Pids, BootFails(p) PROVE Orderly'
  BY <1>2 DEF BootFails, Ends, Remains
<1>3. ASSUME NEW p \in Pids, Bind(p) PROVE Orderly'
  BY <1>3 DEF Bind
<1>4. ASSUME NEW p \in Pids, MarkReady(p) PROVE Orderly'
  BY <1>4 DEF MarkReady
<1>5. ASSUME NEW p \in Pids, ServeReturns(p) PROVE Orderly'
  BY <1>5 DEF ServeReturns
<1>6. ASSUME NEW p \in Pids, ClearReady(p) PROVE Orderly'
  BY <1>6 DEF ClearReady
<1>7. ASSUME NEW p \in Pids, Exit(p) PROVE Orderly'
  BY <1>7 DEF Exit, Ends, Remains
<1>8. ASSUME NEW p \in Pids, Dies(p) PROVE Orderly'
  BY <1>8 DEF Dies, Ends, Remains
<1>9. ASSUME NEW p \in Pids, ServeFails(p) PROVE Orderly'
  BY <1>9 DEF ServeFails
<1>10. ASSUME NEW p \in Pids, ShutdownReturns(p) PROVE Orderly'
  BY <1>10 DEF ShutdownReturns
<1>11. ASSUME NEW p \in Pids, Crash(p) PROVE Orderly'
  BY <1>11 DEF Crash, Ends, Remains
<1>12. ASSUME NEW p \in Pids, OutsideSignal(p) PROVE Orderly'
  BY <1>12 DEF OutsideSignal, SigTerm, SigKill, Ends, Remains
<1>13. ASSUME NEW p \in Pids, Stranger(p) PROVE Orderly'
  BY <1>13 DEF Stranger
<1>15. ASSUME NEW o \in Operators, RunCommand(o) PROVE Orderly'
  BY <1>15 DEF RunCommand
<1>16. ASSUME NEW o \in Operators, AlreadyRunning(o) PROVE Orderly'
  BY <1>16 DEF AlreadyRunning
<1>17. ASSUME NEW o \in Operators, NotRunning(o) PROVE Orderly'
  BY <1>17 DEF NotRunning
<1>18. ASSUME NEW o \in Operators, CannotSpawn(o) PROVE Orderly'
  BY <1>18 DEF CannotSpawn
<1>19. ASSUME NEW o \in Operators, Spawn(o) PROVE Orderly'
  BY <1>19 DEF Spawn
<1>20. ASSUME NEW o \in Operators, WritePid(o) PROVE Orderly'
  BY <1>20 DEF WritePid
<1>21. ASSUME NEW o \in Operators, CannotWritePid(o) PROVE Orderly'
  BY <1>21 DEF CannotWritePid, Returns, Abandon, Ends
<1>22. ASSUME NEW o \in Operators, ChildGone(o) PROVE Orderly'
  BY <1>22 DEF ChildGone, Returns, Ends
<1>23. ASSUME NEW o \in Operators, SeenReady(o) PROVE Orderly'
  BY <1>23 DEF SeenReady, Returns, Ends
<1>24. ASSUME NEW o \in Operators, StartTimeout(o) PROVE Orderly'
  BY <1>24 DEF StartTimeout, Returns, Abandon, Ends
<1>25. ASSUME NEW o \in Operators, NothingToStop(o) PROVE Orderly'
  BY <1>25 DEF NothingToStop
<1>26. ASSUME NEW o \in Operators, ReadPid(o) PROVE Orderly'
  BY <1>26 DEF ReadPid
<1>27. ASSUME NEW o \in Operators, StaleFiles(o) PROVE Orderly'
  BY <1>27 DEF StaleFiles
<1>28. ASSUME NEW o \in Operators, AskToStop(o) PROVE Orderly'
  BY <1>28 DEF AskToStop, SigTerm, SigKill, Ends, Remains
<1>29. ASSUME NEW o \in Operators, SeenStopped(o) PROVE Orderly'
  BY <1>29 DEF SeenStopped
<1>30. ASSUME NEW o \in Operators, StopTimeout(o) PROVE Orderly'
  BY <1>30 DEF StopTimeout, SigKill, Ends, Remains
<1>31. ASSUME UNCHANGED vars PROVE Orderly'
  BY <1>31 DEF vars
<1> QED
  BY <1>1, <1>2, <1>3, <1>4, <1>5, <1>6, <1>7, <1>8, <1>9, <1>10, <1>11, <1>12, <1>13,
     <1>15, <1>16, <1>17, <1>18, <1>19, <1>20, <1>21, <1>22, <1>23, <1>24, <1>25, <1>26, <1>27,
     <1>28, <1>29, <1>30, <1>31 DEF Next, Main, StartStep, StopStep

LEMMA AlwaysOrderly == Spec => [](TypeOK /\ Orderly)
BY InitOrderly, NextTypeOK, NextOrderly, PTL DEF Spec

\* Every variable has its type, only a process whose handler still waits is marked
\* as signalled, and a command that deals with a process has one: with any number
\* of overlapping commands and process ids (cmd.go, Main in server.go).
THEOREM TypeCorrect == Spec => []TypeOK
BY AlwaysOrderly, PTL

\* start reports success only on account of its own child, and only when that child
\* got the port or was spawned with the very PID that a ready file left behind still
\* held, however many commands run at once (daemonStart in cmd.go reads the ready
\* file and never clears it, markReady in cmd.go writes it).
THEOREM TrueStart == Spec => StartIsTrue
<1>1. TypeOK /\ Orderly /\ [Next]_vars => [\A o \in Operators : SeenReady(o) => my[o] \in bound \cup misled]_vars
  BY DEF TypeOK, Orderly, Awaited, Starting, SeenReady, Returns, Done, Goto
<1> QED BY <1>1, AlwaysOrderly, PTL DEF Spec, StartIsTrue

-----------------------------------------------------------------------------
(* As long as commands do not overlap *)

\* Processes that have or may yet get to the port, or have yet to remove the
\* ready file.
Live(p) == proc[p] \in {"booting", "armed", "bound", "serving", "closed"}

\* There is at most one of them: the child of the start that is running, or the
\* one that both files name.
Undisturbed ==
  ~overlapped =>
    /\ \A o, q \in Operators : o # q => cmd[o] = "idle" \/ cmd[q] = "idle"
    /\ \A o \in Operators : cmd[o] \in {"poll", "verify", "grace"} => pidFile = my[o]
    /\ \A p \in Pids : Live(p) =>
         \/ \E o \in Operators : cmd[o] \in Starting /\ my[o] = p
         \/ /\ \A o \in Operators : cmd[o] \notin Starting \cup {"spawn"}
            /\ pidFile = p /\ readyFile = p

LEMMA InitUndisturbed == Init => Undisturbed
BY DEF Init, Undisturbed, Live

LEMMA NextUndisturbed ==
  ASSUME TypeOK, Orderly, Undisturbed, [Next]_vars
  PROVE  Undisturbed'
<1> USE DaemonAssumption DEF TypeOK, Orderly, Undisturbed, Live, Running, Heeding, Becomes,
        Goto, Done, AfterStop, RemoveFiles, process, files, command, history, Starting, Awaited, Listening
<1>1. ASSUME NEW p \in Pids, Arm(p) PROVE Undisturbed'
  BY <1>1 DEF Arm
<1>2. ASSUME NEW p \in Pids, BootFails(p) PROVE Undisturbed'
  BY <1>2 DEF BootFails, Ends, Remains
<1>3. ASSUME NEW p \in Pids, Bind(p) PROVE Undisturbed'
  BY <1>3 DEF Bind
<1>4. ASSUME NEW p \in Pids, MarkReady(p) PROVE Undisturbed'
  BY <1>4 DEF MarkReady
<1>5. ASSUME NEW p \in Pids, ServeReturns(p) PROVE Undisturbed'
  BY <1>5 DEF ServeReturns
<1>6. ASSUME NEW p \in Pids, ClearReady(p) PROVE Undisturbed'
  BY <1>6 DEF ClearReady
<1>7. ASSUME NEW p \in Pids, Exit(p) PROVE Undisturbed'
  BY <1>7 DEF Exit, Ends, Remains
<1>8. ASSUME NEW p \in Pids, Dies(p) PROVE Undisturbed'
  BY <1>8 DEF Dies, Ends, Remains
<1>9. ASSUME NEW p \in Pids, ServeFails(p) PROVE Undisturbed'
  BY <1>9 DEF ServeFails
<1>10. ASSUME NEW p \in Pids, ShutdownReturns(p) PROVE Undisturbed'
  BY <1>10 DEF ShutdownReturns
<1>11. ASSUME NEW p \in Pids, Crash(p) PROVE Undisturbed'
  BY <1>11 DEF Crash, Ends, Remains
<1>12. ASSUME NEW p \in Pids, OutsideSignal(p) PROVE Undisturbed'
  BY <1>12 DEF OutsideSignal, SigTerm, SigKill, Ends, Remains
<1>13. ASSUME NEW p \in Pids, Stranger(p) PROVE Undisturbed'
  BY <1>13 DEF Stranger
<1>15. ASSUME NEW o \in Operators, RunCommand(o) PROVE Undisturbed'
  <2> SUFFICES ASSUME ~overlapped' PROVE Undisturbed'
    OBVIOUS
  <2>1. ~overlapped /\ \A q \in Operators : cmd[q] = "idle"
    BY <1>15 DEF RunCommand
  <2>2. \A q \in Operators : cmd'[q] \in {"idle", "check", "read"} /\ (q # o => cmd'[q] = "idle")
    BY <1>15, <2>1 DEF RunCommand
  <2>3. proc' = proc /\ pidFile' = pidFile /\ readyFile' = readyFile
    BY <1>15 DEF RunCommand
  <2>4. \A p \in Pids : Live(p) => pidFile = p /\ readyFile = p
    BY <2>1
  <2> QED BY <2>2, <2>3, <2>4
<1>16. ASSUME NEW o \in Operators, AlreadyRunning(o) PROVE Undisturbed'
  BY <1>16 DEF AlreadyRunning, Alive
<1>17. ASSUME NEW o \in Operators, NotRunning(o) PROVE Undisturbed'
  BY <1>17 DEF NotRunning, Alive
<1>18. ASSUME NEW o \in Operators, CannotSpawn(o) PROVE Undisturbed'
  BY <1>18 DEF CannotSpawn
<1>19. ASSUME NEW o \in Operators, Spawn(o) PROVE Undisturbed'
  BY <1>19 DEF Spawn
<1>20. ASSUME NEW o \in Operators, WritePid(o) PROVE Undisturbed'
  BY <1>20 DEF WritePid
<1>21. ASSUME NEW o \in Operators, CannotWritePid(o) PROVE Undisturbed'
  BY <1>21 DEF CannotWritePid, Returns, Abandon, Ends
<1>22. ASSUME NEW o \in Operators, ChildGone(o) PROVE Undisturbed'
  BY <1>22 DEF ChildGone, Returns, Ends
<1>23. ASSUME NEW o \in Operators, SeenReady(o) PROVE Undisturbed'
  BY <1>23 DEF SeenReady, Returns, Ends
<1>24. ASSUME NEW o \in Operators, StartTimeout(o) PROVE Undisturbed'
  BY <1>24 DEF StartTimeout, Returns, Abandon, Ends
<1>25. ASSUME NEW o \in Operators, NothingToStop(o) PROVE Undisturbed'
  BY <1>25 DEF NothingToStop
<1>26. ASSUME NEW o \in Operators, ReadPid(o) PROVE Undisturbed'
  BY <1>26 DEF ReadPid
<1>27. ASSUME NEW o \in Operators, StaleFiles(o) PROVE Undisturbed'
  BY <1>27 DEF StaleFiles
<1>28. ASSUME NEW o \in Operators, AskToStop(o) PROVE Undisturbed'
  BY <1>28 DEF AskToStop, SigTerm, SigKill, Ends, Remains
<1>29. ASSUME NEW o \in Operators, SeenStopped(o) PROVE Undisturbed'
  BY <1>29 DEF SeenStopped
<1>30. ASSUME NEW o \in Operators, StopTimeout(o) PROVE Undisturbed'
  BY <1>30 DEF StopTimeout, SigKill, Ends, Remains
<1>31. ASSUME UNCHANGED vars PROVE Undisturbed'
  BY <1>31 DEF vars
<1> QED
  BY <1>1, <1>2, <1>3, <1>4, <1>5, <1>6, <1>7, <1>8, <1>9, <1>10, <1>11, <1>12, <1>13,
     <1>15, <1>16, <1>17, <1>18, <1>19, <1>20, <1>21, <1>22, <1>23, <1>24, <1>25, <1>26, <1>27,
     <1>28, <1>29, <1>30, <1>31 DEF Next, Main, StartStep, StopStep

LEMMA AlwaysUndisturbed == Spec => [](TypeOK /\ Orderly /\ Undisturbed)
BY AlwaysOrderly, InitUndisturbed, NextUndisturbed, PTL DEF Spec

\* As long as commands never overlapped, a proxy that serves is named by both
\* files whenever no command runs, and so the next stop finds it: neither the
\* late clearReady of a predecessor nor the cleaning up of a stop takes its
\* files away (daemonStart, daemonStop in cmd.go, clearReady in server.go).
THEOREM AlwaysManageable == Spec => []Manageable
<1>1. Undisturbed => Manageable
  BY DEF Undisturbed, Manageable, Live, Starting
<1> QED BY <1>1, AlwaysUndisturbed, PTL

\* When stop returns, the process it signalled takes no more requests, whether stop
\* saw the ready file go, killed the process, which may not be gone yet, or found the
\* PID with a stranger (daemonStop in cmd.go).
THEOREM EffectiveStop == Spec => StopIsEffective
<1>1. ASSUME TypeOK, Orderly, Undisturbed, [Next]_vars, NEW o \in Operators,
             cmd[o] = "grace", cmd'[o] # "grace", ~overlapped
      PROVE  proc'[my[o]] \notin Listening
  <2> USE DEF TypeOK
  <2>1. SeenStopped(o) \/ StopTimeout(o)
    <3>1. ASSUME NEW p \in Pids, Main(p) \/ ServeFails(p) \/ ShutdownReturns(p)
                                \/ Crash(p) \/ OutsideSignal(p) \/ Stranger(p)
          PROVE  cmd' = cmd
      BY <3>1 DEF Main, Arm, BootFails, Bind, MarkReady, ServeReturns, ClearReady, Exit, Dies,
         ServeFails, ShutdownReturns, Crash, OutsideSignal, Stranger, command
    <3>2. ASSUME NEW q \in Operators, q # o, RunCommand(q) \/ StartStep(q) \/ StopStep(q)
          PROVE  cmd'[o] = cmd[o]
      <4>1. ASSUME NEW a, NEW b, Goto(q, a, b) PROVE cmd'[o] = cmd[o]
        BY <3>2, <4>1 DEF Goto
      <4>2. ASSUME NEW a, NEW b, Done(q, a, b) PROVE cmd'[o] = cmd[o]
        BY <4>1, <4>2 DEF Done
      <4>3. CASE RunCommand(q)
        BY <4>1, <4>3 DEF RunCommand
      <4>4. CASE StartStep(q)
        BY <4>1, <4>2, <4>4 DEF StartStep, AlreadyRunning, NotRunning, CannotSpawn, Spawn,
           WritePid, CannotWritePid, ChildGone, SeenReady, StartTimeout, Returns
      <4>5. CASE StopStep(q)
        BY <4>1, <4>2, <4>5 DEF StopStep, NothingToStop, ReadPid, StaleFiles, AskToStop,
           SeenStopped, StopTimeout
      <4> QED BY <3>2, <4>3, <4>4, <4>5
    <3>3. ASSUME RunCommand(o) \/ StartStep(o) \/ StopStep(o)
          PROVE  SeenStopped(o) \/ StopTimeout(o)
      BY <1>1, <3>3 DEF RunCommand, StartStep, AlreadyRunning, NotRunning, CannotSpawn, Spawn,
         WritePid, CannotWritePid, ChildGone, SeenReady, StartTimeout, StopStep, NothingToStop,
         ReadPid, StaleFiles, AskToStop, Goto, Done, Returns
    <3>4. UNCHANGED vars => cmd' = cmd
      BY DEF vars, command
    <3> QED BY <1>1, <3>1, <3>2, <3>3, <3>4 DEF Next
  <2>2. CASE SeenStopped(o)
    <3>1. my[o] \in Pids /\ pidFile = my[o] /\ readyFile # my[o]
      BY <1>1, <2>2 DEF Undisturbed, SeenStopped
    <3>2. \A q \in Operators : cmd[q] \notin Starting
      BY <1>1 DEF Undisturbed, Starting
    <3>3. ~Live(my[o])
      BY <1>1, <3>1, <3>2 DEF Undisturbed
    <3> QED BY <2>2, <3>3 DEF SeenStopped, Live, Listening
  <2>3. CASE StopTimeout(o)
    <3>1. my[o] \in Pids /\ SigKill(my[o])
      BY <1>1, <2>3 DEF StopTimeout
    <3>2. CASE proc[my[o]] \in Listening
      BY <1>1, <3>1, <3>2 DEF SigKill, Ends, Listening
    <3>3. CASE proc[my[o]] \in (Running \cup {"other"}) \ Listening
      BY <1>1, <3>1, <3>3 DEF SigKill, Ends, Remains, Listening
    <3>4. CASE proc[my[o]] \notin Listening \cup Running \cup {"other"}
      BY <3>1, <3>4 DEF SigKill
    <3> QED BY <3>2, <3>3, <3>4
  <2> QED BY <2>1, <2>2, <2>3
<1>2. TypeOK /\ Orderly /\ Undisturbed /\ [Next]_vars =>
        [\A o \in Operators :
           cmd[o] = "grace" /\ cmd'[o] # "grace" /\ ~overlapped
             => proc'[my[o]] \notin Listening]_vars
  BY <1>1
<1> QED BY <1>2, AlwaysUndisturbed, PTL DEF Spec, StopIsEffective
=============================================================================
