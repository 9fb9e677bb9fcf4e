------------------------------- MODULE Daemon -------------------------------
(***************************************************************************)
(* The life of the background proxy: the subcommands start, stop and       *)
(* restart (cmd.go), run by operators whose commands may overlap, and the  *)
(* life of the process they spawn (Main in server.go), which share two     *)
(* files, the PID file and the ready file, and the TCP port.  Processes    *)
(* crash and are signalled from outside, and the system gives the PID of   *)
(* one that has ended away again, to an unrelated program or to the next   *)
(* child of start.  The limits on the waits of start and stop may run out  *)
(* at any moment.                                                          *)
(***************************************************************************)
EXTENDS Naturals

CONSTANTS
  Operators,   \* whoever runs the subcommands
  Pids,        \* process ids
  None         \* no process: a file that does not exist, an unset variable

ASSUME DaemonAssumption == None \notin Pids

VARIABLES
  proc,        \* proc[p]: what process id p is
  signalled,   \* processes that have a SIGTERM or SIGINT still to act on
  busy,        \* processes whose Shutdown still waits for a request in flight
  bound,       \* history: children of a start still running that got to markReady
  misled,      \* history: those that a stale ready file named when they were spawned
  pidFile,     \* the PID in codex-relay.pid
  readyFile,   \* the PID in codex-relay.ready
  cmd,         \* cmd[o]: how far o's command is
  again,       \* again[o]: it is a restart that has not got to its start yet
  my,          \* my[o]: its pid (cmd.Process.Pid in start, pid in stop)
  overlapped   \* history: two commands have run at once

process == <<signalled, busy>>
files == <<pidFile, readyFile>>
command == <<cmd, again, my>>
history == <<bound, misled, overlapped>>
vars == <<proc, process, files, command, history>>

\* "booting": spawned, no signal handler yet; "armed": handler installed; "bound":
\* listening; "serving": past markReady; "closed": Serve has returned; "cleared":
\* past clearReady; "holding": killed, does nothing more, but its port is not free
\* yet; "zombie": ended, and its parent has yet to learn it; "other": an unrelated
\* program.
Heeding == {"armed", "bound", "serving"}
Running == {"booting", "closed", "cleared"} \cup Heeding
Listening == {"bound", "serving"}

\* A start deals with its child p.
Awaited(p) == \E o \in Operators : cmd[o] \in {"writePid", "poll"} /\ my[o] = p

TypeOK ==
  /\ proc \in [Pids -> Running \cup {"free", "holding", "zombie", "other"}]
  /\ signalled \subseteq {p \in Pids : proc[p] \in Heeding}
  /\ busy \subseteq {p \in Pids : proc[p] = "closed"}
  /\ pidFile \in Pids \cup {None} /\ readyFile \in Pids \cup {None}
  /\ cmd \in [Operators ->
       {"idle", "check", "spawn", "writePid", "poll", "read", "verify", "grace"}]
  /\ again \in [Operators -> BOOLEAN]
  /\ my \in [Operators -> Pids \cup {None}]
  /\ \A o \in Operators :
       cmd[o] \in {"writePid", "poll", "verify", "grace"} => my[o] \in Pids
  /\ bound \cup misled \subseteq {p \in Pids : Awaited(p)}
  /\ overlapped \in BOOLEAN

Init ==
  /\ proc = [p \in Pids |-> "free"]
  /\ signalled = {} /\ busy = {}
  /\ pidFile = None /\ readyFile = None
  /\ cmd = [o \in Operators |-> "idle"]
  /\ again = [o \in Operators |-> FALSE]
  /\ my = [o \in Operators |-> None]
  /\ bound = {} /\ misled = {} /\ overlapped = FALSE

\* No proxy has the port; another program may still.
PortFree == \A p \in Pids : proc[p] \notin Listening \cup {"holding"}

\* kill(pid, 0) finds zombies and strangers alive too.
Alive(p) == p # None /\ proc[p] # "free"

Becomes(p, s) ==
  /\ proc' = [proc EXCEPT ![p] = s]
  /\ UNCHANGED process

\* Nothing of p runs any more.
Ends(p, s) ==
  /\ proc' = [proc EXCEPT ![p] = s]
  /\ signalled' = signalled \ {p}
  /\ busy' = busy \ {p}

\* A process that ends while the start that spawned it still runs is a zombie
\* until start has learned it from Wait; only then is its PID free.
Remains(p) == IF Awaited(p) THEN "zombie" ELSE "free"

\* SIGKILL: nobody waits until the system has taken the process down.
SigKill(p) ==
  IF proc[p] \in Listening THEN Ends(p, "holding")
  ELSE IF proc[p] \in Running \cup {"other"} THEN Ends(p, Remains(p))
  ELSE UNCHANGED <<proc, process>>

\* The handler takes it, or nothing comes of it any more, or it kills.
SigTerm(p) ==
  IF proc[p] \in Heeding THEN
    /\ signalled' = signalled \cup {p}
    /\ UNCHANGED <<proc, busy>>
  ELSE IF proc[p] \in {"closed", "cleared"} THEN UNCHANGED <<proc, process>>
  ELSE SigKill(p)

-----------------------------------------------------------------------------
(* The proxy process: Main *)

\* Configuration, log, retention and server are set up; signal.Notify.
Arm(p) ==
  /\ proc[p] = "booting"
  /\ Becomes(p, "armed")
  /\ UNCHANGED <<files, command, history>>

\* The configuration is bad, or the port is taken, by a proxy or by a program that
\* start knows nothing of.
BootFails(p) ==
  /\ proc[p] \in {"booting", "armed"}
  /\ Ends(p, Remains(p))
  /\ UNCHANGED <<files, command, history>>

Bind(p) ==
  /\ proc[p] = "armed" /\ PortFree
  /\ Becomes(p, "bound")
  /\ UNCHANGED <<files, command, history>>

\* An error of the write is ignored; the file then names whom it named before.
MarkReady(p) ==
  /\ proc[p] = "bound"
  /\ proc' = [proc EXCEPT ![p] = "serving"]
  /\ bound' = IF Awaited(p) THEN bound \cup {p} ELSE bound
  /\ readyFile' \in {p, readyFile}
  /\ UNCHANGED <<process, misled, pidFile, command, overlapped>>

\* The signal goroutine calls Shutdown: the listener closes and Serve returns at
\* once; Shutdown goes on waiting for the requests in flight.
ServeReturns(p) ==
  /\ proc[p] = "serving" /\ p \in signalled
  /\ proc' = [proc EXCEPT ![p] = "closed"]
  /\ signalled' = signalled \ {p}
  /\ busy' \in {busy, busy \cup {p}}
  /\ UNCHANGED <<files, command, history>>

\* Accept has failed for good: Serve returns the error.
ServeFails(p) ==
  /\ proc[p] = "serving"
  /\ proc' = [proc EXCEPT ![p] = "closed"]
  /\ signalled' = signalled \ {p} /\ UNCHANGED busy
  /\ UNCHANGED <<files, command, history>>

\* The requests have ended, or their five seconds are over.
ShutdownReturns(p) ==
  /\ p \in busy
  /\ busy' = busy \ {p}
  /\ UNCHANGED <<proc, signalled, files, command, history>>

\* Mutant of ClearReady: Main waits for a Shutdown that has no time limit.
ClearReadyWhenIdle(p) ==
  /\ proc[p] = "closed" /\ p \notin busy
  /\ Becomes(p, "cleared")
  /\ readyFile' = None
  /\ UNCHANGED <<pidFile, command, history>>

\* Main returns: the deferred clearReady, whoever wrote the file.  What is still in
\* flight is lost.
ClearReady(p) ==
  /\ proc[p] = "closed"
  /\ proc' = [proc EXCEPT ![p] = "cleared"]
  /\ busy' = busy \ {p}
  /\ readyFile' = None
  /\ UNCHANGED <<signalled, pidFile, command, history>>

Exit(p) ==
  /\ proc[p] = "cleared"
  /\ Ends(p, Remains(p))
  /\ UNCHANGED <<files, command, history>>

-----------------------------------------------------------------------------
(* What happens to processes and to the port from outside *)

Crash(p) ==
  /\ proc[p] \in Running
  /\ Ends(p, Remains(p))
  /\ UNCHANGED <<files, command, history>>

OutsideSignal(p) ==
  /\ proc[p] \in Heeding /\ p \notin signalled
  /\ SigTerm(p)
  /\ UNCHANGED <<files, command, history>>

\* The killed process is gone.
Dies(p) ==
  /\ proc[p] = "holding"
  /\ Ends(p, Remains(p))
  /\ UNCHANGED <<files, command, history>>

\* An unrelated program is given a PID that a file or a command still knows (no
\* other matters here), or ends.
Known(p) == p \in {pidFile, readyFile} \/ \E o \in Operators : my[o] = p

Stranger(p) ==
  /\ \/ proc[p] = "free" /\ Known(p) /\ Becomes(p, "other")
     \/ proc[p] = "other" /\ Becomes(p, "free")
  /\ UNCHANGED <<files, command, history>>

-----------------------------------------------------------------------------
(* start *)

Goto(o, from, to) ==
  /\ cmd[o] = from
  /\ cmd' = [cmd EXCEPT ![o] = to]

\* The command or, in restart, its stop part is over.
Done(o, from, to) ==
  /\ Goto(o, from, to)
  /\ my' = [my EXCEPT ![o] = None]
  /\ again' = [again EXCEPT ![o] = FALSE]

\* start returns and deals with its child no more.
Returns(o, from) ==
  /\ Done(o, from, "idle")
  /\ bound' = bound \ {my[o]} /\ misled' = misled \ {my[o]}
  /\ UNCHANGED overlapped

AfterStop(o) == IF again[o] THEN "check" ELSE "idle"

RunCommand(o) ==
  /\ \E v \in {"start", "stop", "restart"} :
       /\ Goto(o, "idle", IF v = "start" THEN "check" ELSE "read")
       /\ again' = [again EXCEPT ![o] = (v = "restart")]
  /\ overlapped' = (overlapped \/ \E q \in Operators : cmd[q] # "idle")
  /\ UNCHANGED <<proc, process, files, my, bound, misled>>

AlreadyRunning(o) ==
  /\ Alive(pidFile)
  /\ Done(o, "check", "idle")
  /\ UNCHANGED <<proc, process, files, history>>

NotRunning(o) ==
  /\ ~Alive(pidFile)
  /\ Goto(o, "check", "spawn")
  /\ UNCHANGED <<proc, process, files, again, my, history>>

\* The log directory, the .out file or the new process cannot be had.
CannotSpawn(o) ==
  /\ Done(o, "spawn", "idle")
  /\ UNCHANGED <<proc, process, files, history>>

\* Mutant of Spawn: the child's PID is not kept.
SpawnAndForget(o) ==
  /\ Goto(o, "spawn", "writePid")
  /\ \E p \in Pids :
       /\ proc[p] = "free"
       /\ proc' = [proc EXCEPT ![p] = "booting"]
       /\ misled' = IF readyFile = p THEN misled \cup {p} ELSE misled
  /\ UNCHANGED <<process, files, again, my, bound, overlapped>>

\* The child has any PID that is free, a stale ready file's too: start does not
\* clear the file.
Spawn(o) ==
  /\ Goto(o, "spawn", "writePid")
  /\ \E p \in Pids :
       /\ proc[p] = "free"
       /\ proc' = [proc EXCEPT ![p] = "booting"]
       /\ misled' = IF readyFile = p THEN misled \cup {p} ELSE misled
       /\ my' = [my EXCEPT ![o] = p]
  /\ UNCHANGED <<process, files, again, bound, overlapped>>

WritePid(o) ==
  /\ Goto(o, "writePid", "poll")
  /\ pidFile' = my[o]
  /\ UNCHANGED <<proc, process, readyFile, again, my, history>>

\* start kills its child and returns: with start gone nothing keeps a zombie.
Abandon(p) ==
  Ends(p, IF proc[p] \in Listening \cup {"holding"} THEN "holding" ELSE "free")

\* The write may have failed after it had emptied the file.
CannotWritePid(o) ==
  /\ Returns(o, "writePid")
  /\ Abandon(my[o])
  /\ pidFile' \in {pidFile, None}
  /\ UNCHANGED readyFile

\* childDone: the child has ended, and Wait has collected it.
ChildGone(o) ==
  /\ Returns(o, "poll")
  /\ proc[my[o]] = "zombie"
  /\ Ends(my[o], "free")
  /\ pidFile' = None
  /\ UNCHANGED readyFile

\* Mutant of SeenReady: somebody answers on the port.
SeenHealthy(o) ==
  /\ ~PortFree
  /\ Returns(o, "poll")
  /\ UNCHANGED <<proc, process, files>>

\* The ready file holds the child's PID, whoever wrote it there: start reports
\* success.
SeenReady(o) ==
  /\ Returns(o, "poll")
  /\ readyFile = my[o]
  /\ IF proc[my[o]] = "zombie" THEN Ends(my[o], "free")
       ELSE UNCHANGED <<proc, process>>
  /\ UNCHANGED files

StartTimeout(o) ==
  /\ Returns(o, "poll")
  /\ Abandon(my[o])
  /\ pidFile' = None
  /\ UNCHANGED readyFile

-----------------------------------------------------------------------------
(* stop *)

NothingToStop(o) ==
  /\ pidFile = None
  /\ Done(o, "read", AfterStop(o))
  /\ UNCHANGED <<proc, process, files, history>>

ReadPid(o) ==
  /\ pidFile # None
  /\ Goto(o, "read", "verify")
  /\ my' = [my EXCEPT ![o] = pidFile]
  /\ UNCHANGED <<proc, process, files, again, history>>

RemoveFiles == pidFile' = None /\ readyFile' = None

\* The ready file is of another process, or there is none: only clean up.
StaleFiles(o) ==
  /\ readyFile # my[o]
  /\ Done(o, "verify", AfterStop(o))
  /\ RemoveFiles
  /\ UNCHANGED <<proc, process, history>>

AskToStop(o) ==
  /\ Goto(o, "verify", "grace")
  /\ readyFile = my[o]
  /\ SigTerm(my[o])
  /\ UNCHANGED <<files, again, my, history>>

\* Mutant of SeenStopped: the signal was sent, and that is that.
AssumeStopped(o) ==
  /\ Done(o, "grace", AfterStop(o))
  /\ RemoveFiles
  /\ UNCHANGED <<proc, process, history>>

\* The ready file is gone: the process is on its way out.
SeenStopped(o) ==
  /\ readyFile # my[o]
  /\ Done(o, "grace", AfterStop(o))
  /\ RemoveFiles
  /\ UNCHANGED <<proc, process, history>>

\* Mutants of StopTimeout: no SIGKILL, or no way out for a process that has gone
\* without removing its ready file.
GiveUpStop(o) ==
  /\ Done(o, "grace", AfterStop(o))
  /\ readyFile = my[o]
  /\ RemoveFiles
  /\ UNCHANGED <<proc, process, history>>

StopTimeoutIfAlive(o) ==
  /\ Done(o, "grace", AfterStop(o))
  /\ readyFile = my[o] /\ Alive(my[o])
  /\ SigKill(my[o])
  /\ RemoveFiles
  /\ UNCHANGED history

StopTimeout(o) ==
  /\ Done(o, "grace", AfterStop(o))
  /\ readyFile = my[o]
  /\ SigKill(my[o])
  /\ RemoveFiles
  /\ UNCHANGED history

-----------------------------------------------------------------------------

Main(p) ==
  Arm(p) \/ BootFails(p) \/ Bind(p) \/ MarkReady(p) \/ ServeReturns(p)
    \/ ClearReady(p) \/ Exit(p) \/ Dies(p)

StartStep(o) ==
  AlreadyRunning(o) \/ NotRunning(o) \/ CannotSpawn(o) \/ Spawn(o) \/ WritePid(o)
    \/ CannotWritePid(o) \/ ChildGone(o) \/ SeenReady(o) \/ StartTimeout(o)

StopStep(o) ==
  NothingToStop(o) \/ ReadPid(o) \/ StaleFiles(o) \/ AskToStop(o) \/ SeenStopped(o)
    \/ StopTimeout(o)

Next ==
  \/ \E p \in Pids : Main(p) \/ ShutdownReturns(p)
  \/ \E p \in Pids : ServeFails(p) \/ Crash(p) \/ OutsideSignal(p) \/ Stranger(p)
  \/ \E o \in Operators : RunCommand(o) \/ StartStep(o) \/ StopStep(o)

Spec == Init /\ [][Next]_vars

\* Processes run, and so do commands, whose waits are limited; requests need not
\* end, and nobody has to run a command.
FairSpec ==
  /\ Spec
  /\ \A p \in Pids : WF_vars(Main(p))
  /\ \A o \in Operators : WF_vars(StartStep(o) \/ StopStep(o))

-----------------------------------------------------------------------------
(* Properties *)

\* As long as commands never overlapped, a proxy that serves can be found and
\* stopped whenever no command runs: both files name it.  In particular neither
\* a predecessor's late clearReady nor a stop that cleans up removes them.
Manageable ==
  ~overlapped /\ (\A o \in Operators : cmd[o] = "idle") =>
    \A p \in Pids :
      proc[p] = "serving" /\ p \notin signalled => pidFile = p /\ readyFile = p

\* start reports success only if its own child got the port, never on account of
\* another instance, however commands overlap; it is misled only if the ready file
\* that a crash left behind named the child's PID before the child had it.
StartIsTrue ==
  [][\A o \in Operators : SeenReady(o) => my[o] \in bound \cup misled]_vars

\* When stop has signalled a process and returns, that process listens no more,
\* unless it has been killed and is not gone yet: then the start of a restart may
\* still find the port taken.
StopIsEffective ==
  [][\A o \in Operators :
       cmd[o] = "grace" /\ cmd'[o] # "grace" /\ ~overlapped
         => proc'[my[o]] \notin Listening]_vars

\* Every command returns, whatever became of the process it deals with.
CommandsReturn == \A o \in Operators : cmd[o] # "idle" ~> cmd[o] = "idle"

\* A proxy that has caught SIGTERM or SIGINT ends, even if it came between
\* Notify and Serve, and even if a request in flight never does.
SignalEnds == \A p \in Pids : p \in signalled ~> proc[p] \notin Running

\* The comment on the signal goroutine: an orderly shutdown waits for the
\* requests in flight, for at most five seconds.
ShutdownWaits ==
  [][\A p \in Pids :
       proc[p] = "closed" /\ proc'[p] = "cleared" => p \notin busy]_vars

\* The comment in daemonStop: no signal goes to an unrelated process that was
\* given the PID of a proxy.
StrangersSpared ==
  [][\A o \in Operators :
       cmd[o] = "verify" /\ cmd'[o] = "grace" => proc[my[o]] # "other"]_vars
=============================================================================
