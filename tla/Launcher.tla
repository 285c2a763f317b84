------------------------------ MODULE Launcher ------------------------------
(***************************************************************************)
(* The one-terminal launcher (src/scripts/start.mjs). A launcher takes the *)
(* lock directory, records its process in the state file, starts the       *)
(* containers that are not running yet and then its services one by one,   *)
(* and supervises them until a signal, the stop command, a service that    *)
(* exits or an error makes it shut down. The startup and the shutdown are  *)
(* two flows of one JavaScript process; every await is a point where they, *)
(* other launchers and the services interleave.                            *)
(*                                                                         *)
(* Services are numbered in their order of launch and own their ports. The *)
(* containers are one group. A launcher that is killed leaves its lock and *)
(* its services behind, for these run in process groups of their own.      *)
(***************************************************************************)
EXTENDS Naturals, FiniteSets

CONSTANTS
    Launchers, \* processes of `npm start`, each started at most once
    NoOne,     \* content of a lock directory without state file
    Services,  \* number of services of a session
    EarlyStop, \* TRUE if a signal may arrive before the state file is written
    MaxCrashes \* launchers killed (a bound)

ASSUME NoOneAssumption == NoOne \notin Launchers
ASSUME NumbersAssumption == Services \in Nat \ {0} /\ MaxCrashes \in Nat
ASSUME EarlyStopAssumption == EarlyStop \in BOOLEAN

VARIABLES
    locked,   \* the lock directory exists
    misled,   \* history: a launcher took another's new lock for a stale one, or for its own
    state,    \* launcher named by the state file in it
    pc,       \* startup flow of each launcher
    down,     \* shutdown flow: "no", "kill", "infra", "unlock", "done"
    server,   \* control server: "none", "open", "closed"
    old,      \* launcher read from the state file
    launched, \* number of services launched
    alive,    \* services of each launcher that run
    containers, \* the containers run
    owned,    \* this launcher found them not running (infraOwned)
    failed,   \* history: one of its services exited unexpectedly
    crashes

launcherVars ==
    <<locked, state, misled, pc, down, server, old, launched, alive, containers, owned, failed, crashes>>
lock == <<locked, state, misled>>
children == <<launched, alive>>
infra == <<containers, owned>>

Numbers == 1..Services
Over == {"new", "refused", "crashed", "ended"}
\* Flows of a process that has taken the lock.
Holding(l) == pc[l] \notin Over \cup {"occupied", "check", "remove", "retake"}
Process(l) == pc[l] \notin Over

LauncherInit ==
    /\ locked = FALSE /\ state = NoOne /\ misled = FALSE
    /\ pc = [l \in Launchers |-> "new"]
    /\ down = [l \in Launchers |-> "no"]
    /\ server = [l \in Launchers |-> "none"]
    /\ old = [l \in Launchers |-> NoOne]
    /\ launched = [l \in Launchers |-> 0]
    /\ alive = [l \in Launchers |-> {}]
    /\ containers \in BOOLEAN
    /\ owned = [l \in Launchers |-> FALSE]
    /\ failed = [l \in Launchers |-> FALSE]
    /\ crashes = 0

Goto(l, from, to) == pc[l] = from /\ pc' = [pc EXCEPT ![l] = to]

-----------------------------------------------------------------------------
(* The lock.                                                               *)

\* mkdir of the lock directory, atomic.
TakeLock(l) ==
    \/ /\ ~locked
       /\ Goto(l, "new", "logs")
       /\ locked' = TRUE /\ state' = NoOne
       /\ UNCHANGED <<misled, down, server, old, children, infra, failed, crashes>>
    \/ /\ locked
       /\ Goto(l, "new", "occupied")
       /\ UNCHANGED <<lock, down, server, old, children, infra, failed, crashes>>

\* Without a state file another launch is taken to be starting.
ReadState(l) ==
    /\ IF locked /\ state # NoOne THEN Goto(l, "occupied", "check")
       ELSE Goto(l, "occupied", "refused")
    /\ old' = [old EXCEPT ![l] = IF locked THEN state ELSE NoOne]
    /\ UNCHANGED <<lock, down, server, children, infra, failed, crashes>>

\* Variant: the holder is not looked for.
CheckHolderNot(l) ==
    /\ Goto(l, "check", "remove")
    /\ UNCHANGED <<lock, down, server, old, children, infra, failed, crashes>>

\* kill(pid, 0)
CheckHolder(l) ==
    /\ pc[l] = "check"
    /\ Goto(l, "check", IF Process(old[l]) THEN "refused" ELSE "remove")
    /\ UNCHANGED <<lock, down, server, old, children, infra, failed, crashes>>

RemoveStale(l) ==
    /\ Goto(l, "remove", "retake")
    /\ locked' = FALSE /\ state' = NoOne
    /\ misled' = (misled \/ (locked /\ state # old[l]))
    /\ UNCHANGED <<down, server, old, children, infra, failed, crashes>>

Retake(l) ==
    /\ IF locked
       THEN Goto(l, "retake", "refused") /\ UNCHANGED lock
       ELSE Goto(l, "retake", "logs") /\ locked' = TRUE /\ state' = NoOne /\ UNCHANGED misled
    /\ UNCHANGED <<down, server, old, children, infra, failed, crashes>>

\* A directory that cannot be made or removed, or a state file that cannot be
\* read, ends the launch before there is anything to shut down.
LaunchFails(l) ==
    /\ \E from \in {"new", "occupied", "remove", "retake"} : Goto(l, from, "refused")
    /\ UNCHANGED <<lock, down, server, old, children, infra, failed, crashes>>

-----------------------------------------------------------------------------
(* Startup. A step that throws joins the shutdown.                         *)

\* shutdown() is entered once; it sets `stopping` before its first await.
\* It closes the control server if there is one.
ShutDown(l) ==
    IF down[l] = "no"
    THEN /\ down' = [down EXCEPT ![l] = "kill"]
         /\ server' = [server EXCEPT ![l] = IF @ = "open" THEN "closed" ELSE @]
    ELSE UNCHANGED <<down, server>>

Throw(l, from) ==
    /\ Goto(l, from, "caught")
    /\ ShutDown(l)
    /\ UNCHANGED <<lock, old, children, infra, failed, crashes>>

\* The logs directory exists: the control server is created, also when a signal
\* has begun the shutdown in the meantime.
OpenServer(l) ==
    /\ Goto(l, "logs", "prepare")
    /\ server' = [server EXCEPT ![l] = "open"]
    /\ UNCHANGED <<lock, down, old, children, infra, failed, crashes>>

\* The control server is listening: the state file names this process. The
\* lock directory may be gone.
WriteState(l) ==
    \/ /\ locked
       /\ Goto(l, "prepare", "ports")
       /\ state' = l
       /\ misled' = (misled \/ down[l] = "done")
       /\ UNCHANGED <<locked, down, server, old, children, infra, failed, crashes>>
    \/ ~locked /\ Throw(l, "prepare")

PortsInUse(l) == \E m \in Launchers \ {l} : alive[m] # {}

\* Services that another launcher left behind hold their ports. A port may also
\* belong to a foreign program, or not be a usable number at all.
CheckPorts(l) ==
    \/ /\ ~PortsInUse(l)
       /\ Goto(l, "ports", "status")
       /\ UNCHANGED <<lock, down, server, old, children, infra, failed, crashes>>
    \/ Throw(l, "ports")

\* A command is only started when the session is not stopping; one that runs
\* then is killed, or ends before it is.
ContainerStatus(l) ==
    \/ /\ down[l] = "no"
       /\ Goto(l, "status", "up")
       /\ owned' = [owned EXCEPT ![l] = ~containers]
       /\ UNCHANGED <<lock, down, server, old, children, containers, failed, crashes>>
    \/ down[l] # "no" /\ Throw(l, "status")

StartContainers(l) ==
    \/ /\ down[l] \in {"no", "kill"}
       /\ Goto(l, "up", "launch")
       /\ containers' = TRUE
       /\ UNCHANGED <<lock, down, server, old, children, owned, failed, crashes>>
    \/ down[l] # "no" /\ Throw(l, "up")

\* A directory or the state file cannot be written, or a command fails.
StartupFails(l) ==
    \E from \in {"logs", "prepare", "status", "up", "launch"} : Throw(l, from)

\* The control server cannot listen: one that does not listen keeps no process alive.
ListenFails(l) ==
    /\ Goto(l, "prepare", "caught")
    /\ server' = [server EXCEPT ![l] = "closed"]
    /\ down' = [down EXCEPT ![l] = IF @ = "no" THEN "kill" ELSE @]
    /\ UNCHANGED <<lock, old, children, infra, failed, crashes>>

\* Variant: a service is launched although the session is stopping.
LaunchServiceLate(l) ==
    /\ launched[l] < Services
    /\ Goto(l, "launch", "launch")
    /\ launched' = [launched EXCEPT ![l] = @ + 1]
    /\ alive' = [alive EXCEPT ![l] = @ \cup {launched[l] + 1}]
    /\ UNCHANGED <<lock, down, server, old, infra, failed, crashes>>

LaunchService(l) ==
    /\ launched[l] < Services
    /\ \/ /\ down[l] = "no"
          /\ Goto(l, "launch", "launch")
          /\ launched' = [launched EXCEPT ![l] = @ + 1]
          /\ alive' = [alive EXCEPT ![l] = @ \cup {launched[l] + 1}]
          /\ UNCHANGED <<lock, down, server, old, infra, failed, crashes>>
       \/ down[l] # "no" /\ Throw(l, "launch")

\* The last service answers.
Ready(l) ==
    /\ launched[l] = Services
    /\ IF down[l] = "no" THEN Goto(l, "launch", "ready") ELSE Goto(l, "launch", "caught")
    /\ UNCHANGED <<lock, down, server, old, children, infra, failed, crashes>>

-----------------------------------------------------------------------------
(* Supervision and shutdown.                                               *)

\* SIGINT, SIGTERM or the stop command.
Stop(l) ==
    /\ Holding(l) /\ down[l] = "no"
    /\ pc[l] \in {"logs", "prepare"} => EarlyStop
    /\ ShutDown(l)
    /\ UNCHANGED <<lock, pc, old, children, infra, failed, crashes>>

\* A service that exits while its session is not stopping stops the session.
\* The launcher of an orphan no longer runs.
ServiceExits(l, i) ==
    /\ i \in alive[l]
    /\ alive' = [alive EXCEPT ![l] = @ \ {i}]
    /\ IF Holding(l) /\ down[l] = "no"
       THEN ShutDown(l) /\ failed' = [failed EXCEPT ![l] = TRUE]
       ELSE UNCHANGED <<down, server, failed>>
    /\ UNCHANGED <<lock, pc, old, launched, infra, crashes>>

Shut(l, from, to) == Holding(l) /\ down[l] = from /\ down' = [down EXCEPT ![l] = to]

\* Variant: children that ignore SIGTERM are waited for.
KillChildrenWaiting(l) ==
    /\ Shut(l, "kill", "infra")
    /\ alive[l] = {}
    /\ UNCHANGED <<lock, pc, server, old, children, infra, failed, crashes>>

\* SIGTERM to all children, and SIGKILL to those left after three seconds.
KillChildren(l) ==
    /\ Shut(l, "kill", "infra")
    /\ alive' = [alive EXCEPT ![l] = {}]
    /\ UNCHANGED <<lock, pc, server, old, launched, infra, failed, crashes>>

\* Only the containers that this session started; an error is reported only.
StopContainers(l) ==
    /\ Shut(l, "infra", "unlock")
    /\ containers' \in IF owned[l] THEN {FALSE, containers} ELSE {containers}
    /\ UNCHANGED <<lock, pc, server, old, children, owned, failed, crashes>>

\* The lock directory is removed, whichever launcher it belongs to.
Unlock(l) ==
    /\ Shut(l, "unlock", "done")
    /\ locked' = FALSE /\ state' = NoOne
    /\ UNCHANGED <<misled, pc, server, old, children, infra, failed, crashes>>

\* Both flows are over. A control server that was opened after the shutdown
\* began is never closed and keeps the process alive.
End(l) ==
    /\ server[l] # "open"
    /\ down[l] = "done" /\ pc[l] \in {"ready", "caught"}
    /\ pc' = [pc EXCEPT ![l] = "ended"]
    /\ UNCHANGED <<lock, down, server, old, children, infra, failed, crashes>>

\* SIGKILL, or the terminal is closed: SIGHUP is not handled.
Crash(l) ==
    /\ Process(l) /\ crashes < MaxCrashes
    /\ crashes' = crashes + 1
    /\ pc' = [pc EXCEPT ![l] = "crashed"]
    /\ UNCHANGED <<lock, down, server, old, children, infra, failed>>

Startup(l) ==
    \/ TakeLock(l) \/ ReadState(l) \/ CheckHolder(l) \/ RemoveStale(l) \/ Retake(l)
    \/ LaunchFails(l) \/ OpenServer(l) \/ ListenFails(l) \/ WriteState(l) \/ CheckPorts(l)
    \/ ContainerStatus(l) \/ StartContainers(l)
    \/ StartupFails(l) \/ LaunchService(l) \/ Ready(l)

Shutdown(l) == KillChildren(l) \/ StopContainers(l) \/ Unlock(l) \/ End(l)

LauncherNext ==
    \E l \in Launchers :
        \/ Startup(l) \/ Shutdown(l)
        \/ Stop(l) \/ Crash(l)
        \/ \E i \in Numbers : ServiceExits(l, i)

LauncherSpec == LauncherInit /\ [][LauncherNext]_launcherVars

\* A launcher's process runs; commands and probes of the startup have timeouts.
FairLauncherSpec ==
    LauncherSpec /\ \A l \in Launchers : WF_launcherVars(Startup(l)) /\ WF_launcherVars(Shutdown(l))

-----------------------------------------------------------------------------
(* Properties.                                                             *)

\* The variables are typed; a state file lies in an existing lock directory.
LauncherTypeOK ==
    /\ locked \in BOOLEAN /\ misled \in BOOLEAN /\ state \in Launchers \cup {NoOne}
    /\ locked \/ state = NoOne
    /\ pc \in [Launchers ->
          Over \cup {"occupied", "check", "remove", "retake", "logs", "prepare", "ports",
                     "status", "up", "launch", "ready", "caught"}]
    /\ down \in [Launchers -> {"no", "kill", "infra", "unlock", "done"}]
    /\ server \in [Launchers -> {"none", "open", "closed"}]
    /\ old \in [Launchers -> Launchers \cup {NoOne}]
    /\ launched \in [Launchers -> 0..Services]
    /\ alive \in [Launchers -> SUBSET Numbers]
    /\ \A l \in Launchers : alive[l] \subseteq 1..launched[l]
    /\ containers \in BOOLEAN
    /\ owned \in [Launchers -> BOOLEAN] /\ failed \in [Launchers -> BOOLEAN]
    /\ crashes \in 0..MaxCrashes

\* The startup may still be underway when a session is stopped, by its
\* user or by the exit of a service: nothing that it launches outlives it.
NothingLeftBehind == \A l \in Launchers : pc[l] = "ended" => alive[l] = {}

\* Two sessions never start services at the same time, unless a launcher found a
\* stale lock and removed, a step later, the one that another had taken since, or
\* wrote its name into one after a signal had freed its own.
OneSession ==
    ~misled =>
        \A l, m \in Launchers :
            Holding(l) /\ Holding(m) /\ down[l] = "no" /\ down[m] = "no" => l = m

\* A session that is told to stop once its control server exists, at whatever
\* point of its startup, comes to its end, in spite of commands that still run;
\* the unexpected exit of one service stops the rest of its session, and the next
\* launcher is not refused because of it; and containers that ran before the
\* first launcher are left running by all that.
SessionsEndCleanly ==
    /\ \A l \in Launchers : server[l] = "closed" ~> pc[l] \in {"ended", "crashed"}
    /\ \A l \in Launchers : failed[l] ~> (alive[l] = {} /\ state # l) \/ pc[l] = "crashed"
    /\ containers => []containers
=============================================================================
