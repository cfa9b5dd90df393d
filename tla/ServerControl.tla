--------------------------- MODULE ServerControl ---------------------------
(***************************************************************************)
(* The life of the controller process on one data directory: the commands *)
(* of express233-server (start, stop, restart, set-port, update,           *)
(* enable-autostart, disable-autostart, reload-config), the processes they *)
(* and systemd start, and the files by which they find each other:         *)
(* run/server-runtime.json, run/server-state.json, run/server.pid, the     *)
(* unit file and the executable itself.                                    *)
(*                                                                         *)
(* The id of a process stands for its PID and for the control token it     *)
(* draws; an id is used again once no file and no command names it.  The   *)
(* deployments that a process drains before it exits are PushDeploy's;     *)
(* here one of them runs or none does.  Linux with systemd is modelled.    *)
(***************************************************************************)
EXTENDS Naturals, FiniteSets

CONSTANTS
    Procs,       \* processes, as numbers
    Cmds,        \* terminals, as numbers: a command takes the first idle one
    Addrs,       \* listen addresses
    DefaultAddr, \* the address without configuration
    Foreign,     \* addresses that another program listens on
    Kinds,       \* commands that are given
    MaxCommands, \* bound on commands given
    MaxCrashes,  \* bound on killed processes and reboots
    None         \* no process, no address, no file

ASSUME AddrAssumption == DefaultAddr \in Addrs /\ Foreign \subseteq Addrs
ASSUME IdAssumption == Procs \subseteq Nat /\ Procs # {} /\ Cmds \subseteq Nat
ASSUME NoneAssumption == None \notin Procs \cup Addrs
ASSUME BoundAssumption == {MaxCommands, MaxCrashes} \subseteq Nat

VARIABLES
    srv,       \* the processes that run serve
    lock,      \* who holds controller.lock
    pushing,   \* the processes that execute a deployment
    stateFile, \* server-state.json: the process it names
    pidFile,   \* server.pid: the process it names
    cfg,       \* server-runtime.json: the configured address
    unit,      \* systemd: the address in the unit file, and the unit's state
    exe,       \* the binary on disk
    cli,       \* the command lines
    given,     \* commands given so far
    crashes    \* processes killed and reboots so far

vars == <<srv, lock, pushing, stateFile, pidFile, cfg, unit, exe, cli, given, crashes>>

AllKinds == {"start", "stop", "restart", "setport", "update", "enable",
             "disable", "reload"}
ASSUME KindAssumption == Kinds \subseteq AllKinds

\* A process holds the lock from "locked" to "cleaned", and lives on a little
\* after it has let go.
Owning == {"locked", "recovered", "stated", "published", "starting", "halting",
           "serving", "stopping", "draining", "failed", "cleaned"}
Alive == {"spawned", "released"} \cup Owning
Listening == {"serving", "stopping"}

NoServer == [pc |-> "dead", addr |-> None, mgr |-> FALSE, bin |-> "old", err |-> FALSE]
NoCommand == [kind |-> "start", pc |-> "done", addr |-> None, seen |-> None,
              via |-> None, boot |-> "none"]

\* Steps of a command line, and those of the script that an update leaves.
CommandPcs == {"systemctl", "settle", "unitstart", "unit", "read", "probe",
               "download", "post", "waitdown", "remove", "spawn", "waitup", "schedule"}
ScriptPcs == {"swap", "copying", "boot"}

Servers == [pc : Alive \cup {"dead"}, addr : Addrs \cup {None}, mgr : BOOLEAN,
            bin : {"old", "new"}, err : BOOLEAN]
Units == [file : Addrs \cup {None},
          state : {"inactive", "activating", "active", "deactivating"}]
Commands == [kind : AllKinds, pc : {"done"} \cup CommandPcs \cup ScriptPcs,
             addr : Addrs \cup {None}, seen : Procs \cup {None},
             via : Procs \cup {None}, boot : {"none", "start", "unit"}]

TypeOK ==
    /\ srv \in [Procs -> Servers]
    /\ {lock, stateFile, pidFile} \subseteq Procs \cup {None} /\ pushing \subseteq Procs
    /\ cfg \in Addrs \cup {None} /\ unit \in Units /\ exe \in {"old", "new", "torn"}
    /\ cli \in [Cmds -> Commands]
    /\ given \in 0..MaxCommands /\ crashes \in 0..MaxCrashes

\* Nothing was ever started, or a controller serves: started by hand or by
\* an enabled unit.
Init ==
    /\ LET first == CHOOSE p \in Procs : \A q \in Procs : p <= q IN
       \E running, mgr \in BOOLEAN :
          /\ mgr => running
          /\ srv = [p \in Procs |->
                      IF running /\ p = first
                      THEN [NoServer EXCEPT !.pc = "serving", !.addr = DefaultAddr, !.mgr = mgr]
                      ELSE NoServer]
          /\ lock = IF running THEN first ELSE None
          /\ stateFile = lock /\ pidFile = lock
          /\ cfg = IF running THEN DefaultAddr ELSE None
          /\ unit = IF mgr THEN [file |-> DefaultAddr, state |-> "active"]
                    ELSE [file |-> None, state |-> "inactive"]
    /\ pushing = {} /\ exe = "old"
    /\ cli = [c \in Cmds |-> NoCommand]
    /\ given = 0 /\ crashes = 0

-----------------------------------------------------------------------------
\* What the commands see.

\* Who answers on an address, and whether /healthz there says ok.
Listener(a) == {p \in Procs : srv[p].pc \in Listening /\ srv[p].addr = a}
healthzOK(a) == Listener(a) # {}

\* Flag, then configured address, then the default.
Configured == IF cfg # None THEN cfg ELSE DefaultAddr
resolveListenAddr(flag) == IF flag # None THEN flag ELSE Configured
saveRuntimeConfig(a) == cfg' = a

\* Process ids that nothing refers to any more.
Free == {p \in Procs : /\ srv[p].pc = "dead" /\ p \notin {stateFile, pidFile}
                       /\ \A c \in Cmds : p \notin {cli[c].seen, cli[c].via}}
NextId == CHOOSE p \in Free : \A q \in Free : p <= q

Spawned(a, mgr) ==
    [srv EXCEPT ![NextId] = [NoServer EXCEPT !.pc = "spawned", !.addr = a,
                                             !.mgr = mgr, !.bin = exe]]

\* What is left of a process is the address that its state file names.
Gone(p) == [NoServer EXCEPT !.addr = srv[p].addr]

\* systemd is told that a process is gone: Restart=on-failure.
UnitAfterExit(p, failed) ==
    IF ~srv[p].mgr THEN unit
    ELSE [unit EXCEPT !.state = IF failed /\ @ = "active" THEN "activating" ELSE "inactive"]

-----------------------------------------------------------------------------
\* serve.

\* The flock is held.  Mutants: a PID file instead of a lock; no lock.
HeldByPidFile == pidFile # None
LockIgnored == FALSE
LockHeld == lock # None

\* Who does not get the lock touches nothing.  Mutant: it cleans up first.
GiveUpAndClean == stateFile' = None /\ pidFile' = None
GiveUp == UNCHANGED <<stateFile, pidFile>>

\* The non-blocking flock of the data directory; who finds it held gives up.
Acquire(p) ==
    /\ srv[p].pc = "spawned"
    /\ IF LockHeld
       THEN /\ srv' = [srv EXCEPT ![p] = Gone(p)]
            /\ unit' = UnitAfterExit(p, TRUE)
            /\ GiveUp /\ UNCHANGED lock
       ELSE /\ lock' = p /\ srv' = [srv EXCEPT ![p].pc = "locked"]
            /\ UNCHANGED <<stateFile, pidFile, unit>>
    /\ UNCHANGED <<pushing, cfg, exe, cli, given, crashes>>

\* saveRuntimeConfig, store.Open and InterruptPushDeployments.
Recover(p) ==
    /\ srv[p].pc = "locked"
    /\ saveRuntimeConfig(srv[p].addr)
    /\ srv' = [srv EXCEPT ![p].pc = "recovered"]
    /\ UNCHANGED <<lock, pushing, stateFile, pidFile, unit, exe, cli, given, crashes>>

\* saveRuntimeState writes the state file, then the PID file.
saveRuntimeState(p) ==
    /\ \/ /\ srv[p].pc = "recovered"
          /\ stateFile' = p /\ srv' = [srv EXCEPT ![p].pc = "stated"]
          /\ UNCHANGED pidFile
       \/ /\ srv[p].pc = "stated"
          /\ pidFile' = p /\ srv' = [srv EXCEPT ![p].pc = "published"]
          /\ UNCHANGED stateFile
    /\ UNCHANGED <<lock, pushing, cfg, unit, exe, cli, given, crashes>>

\* Another program answers on the port.
warnIfPortBlocked(a) == a \in Foreign

\* The signal handler is installed.
NotifyContext(p) ==
    /\ srv[p].pc = "published"
    /\ srv' = [srv EXCEPT ![p].pc = "starting"]
    /\ UNCHANGED <<lock, pushing, stateFile, pidFile, cfg, unit, exe, cli, given, crashes>>

\* warnIfPortBlocked, which makes serve return, and ListenAndServe, which
\* returns at once in a process that was told to stop already.
Listen(p) ==
    /\ srv[p].pc \in {"starting", "halting"}
    /\ LET blocked == warnIfPortBlocked(srv[p].addr) IN
       srv' = [srv EXCEPT ![p].pc = IF blocked THEN "failed"
                                    ELSE IF @ = "starting" THEN "serving" ELSE "draining",
                          ![p].err = blocked]
    /\ UNCHANGED <<lock, pushing, stateFile, pidFile, cfg, unit, exe, cli, given, crashes>>

\* A deployment begins and ends.  The worker of the hooks is started before the
\* port is tried; a draining process starts none.
Push(p) ==
    /\ \/ /\ srv[p].pc \in {"published", "starting", "serving"} /\ p \notin pushing
          /\ pushing' = pushing \cup {p}
       \/ p \in pushing /\ pushing' = pushing \ {p}
    /\ UNCHANGED <<srv, lock, stateFile, pidFile, cfg, unit, exe, cli, given, crashes>>

\* shutdownServer begins the drain and closes the listener in a goroutine.
shutdownServer(p) == [srv[p] EXCEPT !.pc = "stopping"]

\* server.Shutdown closes the listener and ListenAndServe returns.
CloseListener(p) ==
    /\ srv[p].pc = "stopping"
    /\ srv' = [srv EXCEPT ![p].pc = "draining"]
    /\ UNCHANGED <<lock, pushing, stateFile, pidFile, cfg, unit, exe, cli, given, crashes>>

\* WaitForDeployments.  Mutant: the process does not wait.
DrainSkipped(p) == TRUE
Drained(p) == p \notin pushing

\* WaitForDeployments, which a process that found its port blocked does not come
\* to, then the deferred cleanupRuntimeState, which leaves the files alone if
\* the PID file names another process.
WaitAndCleanup(p) ==
    /\ \/ srv[p].pc = "draining" /\ Drained(p)
       \/ srv[p].pc = "failed"
    /\ IF pidFile \in {None, p}
       THEN stateFile' = None /\ pidFile' = None
       ELSE UNCHANGED <<stateFile, pidFile>>
    /\ srv' = [srv EXCEPT ![p].pc = "cleaned"]
    /\ UNCHANGED <<lock, pushing, cfg, unit, exe, cli, given, crashes>>

\* The store is closed and the lock released.
Release(p) ==
    /\ srv[p].pc = "cleaned"
    /\ lock' = None
    /\ srv' = [srv EXCEPT ![p].pc = "released"]
    /\ UNCHANGED <<pushing, stateFile, pidFile, cfg, unit, exe, cli, given, crashes>>

\* main returns, and whatever the process still does ends with it.
Exit(p) ==
    /\ srv[p].pc = "released"
    /\ srv' = [srv EXCEPT ![p] = Gone(p)]
    /\ pushing' = pushing \ {p}
    /\ unit' = UnitAfterExit(p, srv[p].err)
    /\ UNCHANGED <<lock, stateFile, pidFile, cfg, exe, cli, given, crashes>>

\* The process is killed; the kernel releases its lock.
Crash(p) ==
    /\ srv[p].pc \in Alive /\ crashes < MaxCrashes
    /\ crashes' = crashes + 1
    /\ srv' = [srv EXCEPT ![p] = Gone(p)]
    /\ lock' = IF lock = p THEN None ELSE lock
    /\ pushing' = pushing \ {p}
    /\ unit' = UnitAfterExit(p, TRUE)
    /\ UNCHANGED <<stateFile, pidFile, cfg, exe, cli, given>>

\* The machine restarts: everything but the files is gone, and systemd starts
\* the unit (WantedBy=multi-user.target).
Reboot ==
    /\ crashes < MaxCrashes /\ \E p \in Procs : srv[p].pc \in Alive
    /\ crashes' = crashes + 1
    /\ srv' = [p \in Procs |-> Gone(p)]
    /\ lock' = None /\ pushing' = {}
    /\ unit' = [unit EXCEPT !.state = IF unit.file # None
                                      THEN "activating" ELSE "inactive"]
    /\ cli' = [c \in Cmds |-> NoCommand]
    /\ UNCHANGED <<stateFile, pidFile, cfg, exe, given>>

\* systemd starts the main process of an activating unit; an executable that is
\* not whole does not start, and systemd tries again.
Activate ==
    /\ unit.state = "activating" /\ unit.file # None /\ Free # {} /\ exe # "torn"
    /\ srv' = Spawned(unit.file, TRUE)
    /\ unit' = [unit EXCEPT !.state = "active"]
    /\ UNCHANGED <<lock, pushing, stateFile, pidFile, cfg, exe, cli, given, crashes>>

-----------------------------------------------------------------------------
\* The commands.

Goto(c, next) == cli' = [cli EXCEPT ![c].pc = next]
Done(c) == cli' = [cli EXCEPT ![c] = NoCommand]

\* One step is left, which needs nothing of what the command knows.
Last(c, step) == cli' = [cli EXCEPT ![c] = [NoCommand EXCEPT !.pc = step]]

\* A command is typed at the first idle terminal; it is a run of the executable.
Idle(c) == /\ cli[c].pc = "done" /\ given < MaxCommands /\ exe # "torn"
           /\ \A e \in Cmds : e < c => cli[e].pc # "done"
Command(k, a, first) ==
    [NoCommand EXCEPT !.kind = k, !.addr = a, !.pc = first]
Give(c, cmd) ==
    /\ Idle(c) /\ cmd.kind \in Kinds
    /\ given' = given + 1
    /\ cli' = [cli EXCEPT ![c] = cmd]
    /\ UNCHANGED <<srv, lock, pushing, stateFile, pidFile, unit, exe, crashes>>

\* Is there a unit file?  Then start, stop and restart are left to systemd, and
\* an address on the command line is an error.
detectAutostartStatus == unit.file # None

\* Flag None: the address is the configured one.
runStart(c, flag) ==
    /\ detectAutostartStatus => flag = None
    /\ Give(c, IF detectAutostartStatus THEN Command("start", None, "unitstart")
               ELSE Command("start", resolveListenAddr(flag), "read"))
    /\ UNCHANGED cfg

runStop(c) ==
    /\ Give(c, Command("stop", None, IF detectAutostartStatus THEN "systemctl" ELSE "read"))
    /\ UNCHANGED cfg

runRestart(c, flag) ==
    /\ detectAutostartStatus => flag = None
    /\ Give(c, IF detectAutostartStatus THEN Command("restart", None, "systemctl")
               ELSE Command("restart", resolveListenAddr(flag), "read"))
    /\ UNCHANGED cfg

\* set-port saves the address, and does not ask for a unit file.
runSetPort(c, a, restart) ==
    /\ Give(c, IF restart THEN Command("setport", a, "read")
               ELSE [NoCommand EXCEPT !.kind = "setport"])
    /\ saveRuntimeConfig(a)

runUpdate(c, restart) ==
    /\ Give(c, [Command("update", None, "read")
                   EXCEPT !.boot = IF restart THEN "start" ELSE "none"])
    /\ UNCHANGED cfg

\* The console runs the command as a child of the controller, one at a time.
runSystemUpdate(p) == \E e \in Cmds : cli[e].via = p
handleSystemUpdate(c, p) ==
    /\ srv[p].pc = "serving" /\ ~runSystemUpdate(p)
    /\ Give(c, [Command("update", None, "read")
                   EXCEPT !.boot = "start", !.via = p])
    /\ UNCHANGED cfg

runEnableAutostart(c, flag) ==
    /\ Give(c, Command("enable", resolveListenAddr(flag), "read"))
    /\ UNCHANGED cfg

runDisableAutostart(c) ==
    /\ detectAutostartStatus
    /\ Give(c, Command("disable", None, "systemctl"))
    /\ UNCHANGED cfg

\* A server.yaml that does not parse is refused before anything is read.
runReloadConfig(c) ==
    /\ Give(c, Command("reload", None, "read"))
    /\ UNCHANGED cfg

\* What a command does once it knows whether a controller answers.
WhenRunning(k) == CASE k = "start" -> "done" [] k = "update" -> "download" [] OTHER -> "post"
WhenStopped(k) == CASE k \in {"start", "restart"} -> "spawn"
                    [] k = "update" -> "download"
                    [] k = "enable" -> "unit"
                    [] OTHER -> "done"

\* loadRuntimeState: the file is read, then the address in it is asked.
Read(c) ==
    /\ cli[c].pc = "read"
    /\ cli' = [cli EXCEPT ![c].seen = stateFile, ![c].pc = "probe"]
    /\ UNCHANGED <<srv, lock, pushing, stateFile, pidFile, cfg, unit, exe, given, crashes>>

Probe(c) ==
    /\ cli[c].pc = "probe"
    /\ LET ok == cli[c].seen # None /\ healthzOK(srv[cli[c].seen].addr)
           next == IF ok THEN WhenRunning(cli[c].kind) ELSE WhenStopped(cli[c].kind)
       IN IF next = "done" THEN Done(c)
          ELSE cli' = [cli EXCEPT ![c].pc = next, ![c].seen = IF ok THEN @ ELSE None]
    /\ UNCHANGED <<srv, lock, pushing, stateFile, pidFile, cfg, unit, exe, given, crashes>>

\* runUpdate downloads before it stops; a failed download ends it.
Download(c) ==
    /\ cli[c].pc = "download"
    /\ \/ Goto(c, IF cli[c].seen = None THEN "schedule" ELSE "post")
       \/ Done(c)
    /\ UNCHANGED <<srv, lock, pushing, stateFile, pidFile, cfg, unit, exe, given, crashes>>

\* The request reaches whoever listens; the token must be its own.  Shutdown
\* begins the drain, once; a reload only loads server.yaml.
\* Mutant: any local request will do.
AuthorizeLocal(c, p) == TRUE
authorizeControlRequest(c, p) == cli[c].seen = p
postControl(c) ==
    /\ cli[c].pc = "post"
    /\ LET to == {p \in Listener(srv[cli[c].seen].addr) : authorizeControlRequest(c, p)} IN
       \/ /\ to = {} /\ Done(c) /\ UNCHANGED srv
       \/ /\ to # {} /\ cli[c].kind = "reload"
          /\ Done(c)
          /\ UNCHANGED srv
       \/ /\ to # {} /\ cli[c].kind # "reload"
          /\ srv' = [p \in Procs |-> IF p \in to THEN shutdownServer(p) ELSE srv[p]]
          /\ Goto(c, "waitdown")
    /\ UNCHANGED <<lock, pushing, stateFile, pidFile, cfg, unit, exe, given, crashes>>

\* stopServer asks /healthz until it fails, for ten seconds.
AfterStop(k) == CASE k = "stop" -> "remove" [] k = "update" -> "schedule"
                  [] k = "enable" -> "unit" [] OTHER -> "spawn"
WaitDown(c) ==
    /\ cli[c].pc = "waitdown"
    /\ IF healthzOK(srv[cli[c].seen].addr) THEN Done(c)
       ELSE cli' = [cli EXCEPT ![c].pc = AfterStop(cli[c].kind), ![c].seen = None]
    /\ UNCHANGED <<srv, lock, pushing, stateFile, pidFile, cfg, unit, exe, given, crashes>>

\* stop removes the state and the PID file, whoever they name by now.
RemoveState(c) ==
    /\ cli[c].pc = "remove"
    /\ stateFile' = None /\ pidFile' = None
    /\ Done(c)
    /\ UNCHANGED <<srv, lock, pushing, cfg, unit, exe, given, crashes>>

\* saveRuntimeConfig and the start of a detached process; set-port has saved.
startDetachedServer(c) ==
    /\ cli[c].pc = "spawn" /\ Free # {}
    /\ IF cli[c].kind = "setport" THEN UNCHANGED cfg ELSE saveRuntimeConfig(cli[c].addr)
    /\ srv' = Spawned(cli[c].addr, FALSE)
    /\ Last(c, "waitup")
    /\ UNCHANGED <<lock, pushing, stateFile, pidFile, unit, exe, given, crashes>>

\* It waits for a state file with an address that answers, for ten seconds.
WaitUp(c) ==
    /\ cli[c].pc = "waitup"
    /\ Done(c)
    /\ UNCHANGED <<srv, lock, pushing, stateFile, pidFile, cfg, unit, exe, given, crashes>>

\* scheduleBinarySwap starts the script; restartStrategyCommand is fixed now.
restartStrategyCommand(c) ==
    IF cli[c].boot = "start" /\ detectAutostartStatus THEN "unit" ELSE cli[c].boot
scheduleBinarySwap(c) ==
    /\ cli[c].pc = "schedule"
    /\ cli' = [cli EXCEPT ![c].pc = "swap", ![c].boot = restartStrategyCommand(c),
                          ![c].via = None, ![c].seen = None]
    /\ UNCHANGED <<srv, lock, pushing, stateFile, pidFile, cfg, unit, exe, given, crashes>>

\* cp over the executable fails while any process runs it: text file busy.
\* Otherwise it empties the file and fills it again.
TextBusy(c) == \/ \E p \in Procs : srv[p].pc \in Alive
               \/ \E e \in Cmds : e # c /\ cli[e].pc \in CommandPcs
SwapBinary(c) ==
    /\ cli[c].pc = "swap"
    /\ IF TextBusy(c) THEN Done(c) /\ UNCHANGED exe
       ELSE Goto(c, "copying") /\ exe' = "torn"
    /\ UNCHANGED <<srv, lock, pushing, stateFile, pidFile, cfg, unit, given, crashes>>

\* cp ends, and the file is whole once no other script writes it; or it fails
\* half way and the script with it.
Copied(c) ==
    /\ cli[c].pc = "copying"
    /\ \/ /\ Goto(c, "boot") /\ UNCHANGED crashes
          /\ exe' = IF \E e \in Cmds \ {c} : cli[e].pc = "copying" THEN exe ELSE "new"
       \/ /\ crashes < MaxCrashes /\ crashes' = crashes + 1
          /\ Done(c) /\ UNCHANGED exe
    /\ UNCHANGED <<srv, lock, pushing, stateFile, pidFile, cfg, unit, given>>

\* The script restarts by systemctl start.  Without autostart it starts nothing:
\* its command is a quoted path in quotes, which is no file.
RestartAfterSwap(c) ==
    /\ cli[c].pc = "boot"
    /\ IF cli[c].boot = "unit" THEN Last(c, "unitstart") ELSE Done(c)
    /\ UNCHANGED <<srv, lock, pushing, stateFile, pidFile, cfg, unit, exe, given, crashes>>

-----------------------------------------------------------------------------
\* systemctl.

\* stop: SIGTERM to the main process (KillMode=process).  Before the handler
\* is installed the signal kills; later it begins the shutdown, once.
Signalled(p) ==
    IF srv[p].pc = "serving" THEN shutdownServer(p)
    ELSE IF srv[p].pc = "starting" THEN [srv[p] EXCEPT !.pc = "halting"]
    ELSE IF srv[p].pc \in {"spawned", "locked", "recovered", "stated", "published"}
    THEN Gone(p) ELSE srv[p]
Main == {p \in Procs : srv[p].mgr /\ srv[p].pc \in Alive}

SystemctlStop(c) ==
    /\ cli[c].pc = "systemctl"
    /\ srv' = [p \in Procs |-> IF p \in Main THEN Signalled(p) ELSE srv[p]]
    /\ lock' = IF lock # None /\ srv'[lock].pc = "dead" THEN None ELSE lock
    /\ unit' = [unit EXCEPT !.state = IF \E p \in Main : srv'[p].pc \in Alive
                                      THEN "deactivating" ELSE "inactive"]
    /\ pushing' = {p \in pushing : srv'[p].pc # "dead"}
    /\ Goto(c, "settle")
    /\ UNCHANGED <<stateFile, pidFile, cfg, exe, given, crashes>>

\* It returns when the unit is inactive; disable then removes the unit file.
SystemctlStopped(c) ==
    /\ cli[c].pc = "settle" /\ unit.state = "inactive"
    /\ IF cli[c].kind = "restart" THEN Last(c, "unitstart") ELSE Done(c)
    /\ unit' = IF cli[c].kind = "disable" THEN [unit EXCEPT !.file = None] ELSE unit
    /\ UNCHANGED <<srv, lock, pushing, stateFile, pidFile, cfg, exe, given, crashes>>

\* enable-autostart writes the unit file before it starts the unit.
enableNativeAutostart(c) ==
    /\ cli[c].pc = "unit"
    /\ unit' = [unit EXCEPT !.file = cli[c].addr]
    /\ saveRuntimeConfig(cli[c].addr)
    /\ Last(c, "unitstart")
    /\ UNCHANGED <<srv, lock, pushing, stateFile, pidFile, exe, given, crashes>>

SystemctlStart(c) ==
    /\ cli[c].pc = "unitstart" /\ unit.state # "deactivating"
    /\ Done(c)
    /\ unit' = IF unit.file # None /\ unit.state = "inactive"
               THEN [unit EXCEPT !.state = "activating"] ELSE unit
    /\ UNCHANGED <<srv, lock, pushing, stateFile, pidFile, cfg, exe, given, crashes>>

-----------------------------------------------------------------------------
ServerStep(p) ==
    \/ Acquire(p) \/ Recover(p) \/ saveRuntimeState(p) \/ NotifyContext(p)
    \/ Listen(p) \/ CloseListener(p) \/ WaitAndCleanup(p) \/ Release(p) \/ Exit(p)

CommandStep(c) ==
    \/ Read(c) \/ Probe(c) \/ Download(c) \/ postControl(c) \/ WaitDown(c)
    \/ RemoveState(c) \/ startDetachedServer(c) \/ WaitUp(c)
    \/ scheduleBinarySwap(c) \/ SwapBinary(c) \/ Copied(c) \/ RestartAfterSwap(c)
    \/ SystemctlStop(c) \/ SystemctlStopped(c) \/ enableNativeAutostart(c)
    \/ SystemctlStart(c)

Operator(c) ==
    \/ \E flag \in Addrs \cup {None} :
          runStart(c, flag) \/ runRestart(c, flag) \/ runEnableAutostart(c, flag)
    \/ \E a \in Addrs, restart \in BOOLEAN : runSetPort(c, a, restart)
    \/ \E restart \in BOOLEAN : runUpdate(c, restart)
    \/ \E p \in Procs : handleSystemUpdate(c, p)
    \/ runStop(c) \/ runDisableAutostart(c) \/ runReloadConfig(c)

Next ==
    \/ \E p \in Procs : ServerStep(p) \/ Push(p) \/ Crash(p)
    \/ \E c \in Cmds : CommandStep(c) \/ Operator(c)
    \/ Reboot \/ Activate

Spec == Init /\ [][Next]_vars

\* A process that can take a step takes one, the deployment that it drains ends
\* (every remote command has a deadline), and as long as commands can go on or
\* systemd has a unit to start one of that happens.
FairSpec ==
    /\ Spec
    /\ \A p \in Procs : WF_vars(ServerStep(p) \/ (srv[p].pc = "draining" /\ Push(p)))
    /\ WF_vars(Activate \/ \E c \in Cmds : CommandStep(c))

-----------------------------------------------------------------------------
\* The controller.lock: exactly the processes between Acquire and Exit hold it,
\* so there is one controller, however commands, systemd and crashes cross.
OneController ==
    \A p \in Procs : srv[p].pc \in Owning <=> lock = p

\* A new controller marks running deployments as interrupted only when no
\* process executes one any more: the old one drains before it lets go.  The
\* exception is an old one that found its port blocked: its hook worker may be
\* deploying by then, and serve returns past WaitForDeployments and lets go of
\* the lock before the process is gone.
RecoveryIsExclusive ==
    [][\A p \in Procs : srv[p].pc = "locked" /\ srv'[p].pc = "recovered"
          => \A q \in pushing : /\ srv[q].pc = "released"
                                /\ srv[q].err /\ srv[q].addr \in Foreign]_vars

\* Only a stop takes the state file from a controller on its way up or at
\* work; the cleanup of another process never does.
OnlyStopUnpublishes ==
    [][\A p \in Procs :
          /\ stateFile = p
          /\ srv[p].pc \in {"stated", "published", "starting", "halting",
                           "serving", "stopping"}
          => \/ stateFile' = p
             \/ \E c \in Cmds : cli[c].pc = "remove" /\ cli'[c].pc # "remove"]_vars

\* A controller is shut down by systemd or by a command that has read this
\* very process's state file: a stale file never stops its successor.
ShutdownIsAddressed ==
    [][\A p \in Procs :
          srv[p].pc = "serving" /\ srv'[p].pc = "stopping"
          => \/ unit'.state = "deactivating"
             \/ \E c \in Cmds : /\ cli[c].seen = p
                                /\ cli[c].pc = "post" /\ cli'[c].pc # "post"]_vars

\* What runs is what is on disk: the swap of an update never goes under a
\* process, not even one that systemd has restarted meanwhile.
RunsWhatIsInstalled ==
    \A p \in Procs : srv[p].pc \in Alive => srv[p].bin = exe

\* One controller of the installed binary at most, however commands, scripts,
\* systemd and crashes cross; and everything keeps its type.
OneCurrentController == TypeOK /\ OneController /\ RunsWhatIsInstalled

Serving == \E p \in Procs : srv[p].pc = "serving"

\* The executable was left half written: by a reboot, or by a cp that failed.
ExecutableLost == exe = "torn" /\ \A c \in Cmds : cli[c].pc # "copying"

\* With autostart enabled a controller that crashed, or that found the data
\* directory owned, serves again, unless it is stopped, its port is taken or
\* the update in whose middle it went down left no executable.
CrashComesBack ==
    unit.state = "activating" ~>
        Serving \/ unit.state = "inactive" \/ unit.file \in Foreign \/ ExecutableLost
=============================================================================
