----------------------- MODULE ServerControlProofs ------------------------
(***************************************************************************)
(* Proofs about the life cycle of the controller, for every number of      *)
(* processes, command lines, addresses, commands and crashes.              *)
(***************************************************************************)
EXTENDS ServerControl, WellFoundedInduction, TLAPS

\* A deployment is executed by a process on its way up, at work or draining, or
\* by one that found its port blocked and is not gone yet.
PushInv ==
    \A p \in pushing :
       \/ srv[p].pc \in {"published", "starting", "halting", "serving", "stopping",
                         "draining"}
       \/ /\ srv[p].pc \in {"failed", "cleaned", "released"}
          /\ srv[p].err /\ srv[p].addr \in Foreign

\* While the executable is not whole nobody runs it, and it is not whole while
\* a script copies.
CopyInv ==
    /\ exe = "torn" => \A c \in Cmds : cli[c].pc \notin CommandPcs \ {"unitstart"}
    /\ \A c \in Cmds : cli[c].pc = "copying" => exe = "torn"

IndInv == OneCurrentController /\ PushInv /\ CopyInv

\* The part of TypeOK about the files, the locks, the unit and the bounds.
FilesTyped ==
    /\ {lock, stateFile, pidFile} \subseteq Procs \cup {None} /\ pushing \subseteq Procs
    /\ cfg \in Addrs \cup {None} /\ unit \in Units /\ exe \in {"old", "new", "torn"}
    /\ given \in 0..MaxCommands /\ crashes \in 0..MaxCrashes

-----------------------------------------------------------------------------
(* Process ids.                                                            *)

\* The order of the natural numbers as a set of pairs, for WFMin.
Below == {ss \in Nat \X Nat : ss[1] < ss[2]}

\* That order is well founded.
LEMMA BelowIsWellFounded == IsWellFoundedOn(Below, Nat)
<1>1. Below = OpToRel(<, Nat)
  BY Zenon DEF Below, OpToRel
<1> QED
  BY <1>1, NatLessThanWellFounded, Zenon

\* Among process ids there is a least.
LEMMA LeastId ==
  ASSUME NEW S, S \subseteq Nat, S # {}
  PROVE  \E p \in S : \A q \in S : p <= q
<1>1. PICK p \in S : \A q \in S : <<q, p>> \notin Below
  BY BelowIsWellFounded, WFMin, Zenon
<1>2. ASSUME NEW q \in S PROVE p <= q
  <2>1. <<q, p>> \notin Below /\ <<q, p>> \in Nat \X Nat
    BY <1>1
  <2>2. <<q, p>>[1] = q /\ <<q, p>>[2] = p
    OBVIOUS
  <2>3. ~(q < p)
    BY <2>1, <2>2, Zenon DEF Below
  <2> QED
    BY <2>3
<1> QED
  BY <1>2

\* The id a new process gets is one that nothing refers to.
LEMMA NextIdIsFree == Free # {} => NextId \in Free
<1> SUFFICES ASSUME Free # {} PROVE NextId \in Free
  OBVIOUS
<1>1. Free \subseteq Nat
  BY IdAssumption DEF Free
<1>2. \E p \in Free : \A q \in Free : p <= q
  BY <1>1, LeastId
<1> QED
  BY <1>2, Zenon DEF NextId

\* A process that is gone is dead.
LEMMA GoneIsDead ==
  /\ \A p \in Procs : Gone(p).pc = "dead"
  /\ TypeOK => \A p \in Procs : Gone(p) \in Servers
BY AddrAssumption DEF Gone, NoServer, TypeOK, Servers

-----------------------------------------------------------------------------
(* The steps preserve the invariant.                                       *)

\* A process listens, fails, or drains at once.
LEMMA ListenEnds ==
  ASSUME NEW p \in Procs, srv \in [Procs -> Servers], Listen(p)
  PROVE  \E x \in {"failed", "serving", "draining"}, b \in BOOLEAN :
            /\ srv' = [srv EXCEPT ![p] = [srv[p] EXCEPT !.pc = x, !.err = b]]
            /\ x = "failed" => b = TRUE /\ srv[p].addr \in Foreign
<1>1. CASE warnIfPortBlocked(srv[p].addr)
  <2>1. srv' = [srv EXCEPT ![p] = [srv[p] EXCEPT !.pc = "failed", !.err = TRUE]]
    BY <1>1 DEF Listen, Servers, warnIfPortBlocked
  <2> QED
    BY <1>1, <2>1 DEF warnIfPortBlocked
<1>2. CASE ~warnIfPortBlocked(srv[p].addr) /\ srv[p].pc = "starting"
  <2>1. warnIfPortBlocked(srv[p].addr) = FALSE
    BY <1>2 DEF warnIfPortBlocked
  <2>2. srv' = [srv EXCEPT ![p] = [srv[p] EXCEPT !.pc = "serving", !.err = FALSE]]
    BY <1>2, <2>1 DEF Listen, Servers
  <2> QED
    BY <2>2
<1>3. CASE ~warnIfPortBlocked(srv[p].addr) /\ srv[p].pc # "starting"
  <2>1. warnIfPortBlocked(srv[p].addr) = FALSE
    BY <1>3 DEF warnIfPortBlocked
  <2>2. srv' = [srv EXCEPT ![p] = [srv[p] EXCEPT !.pc = "draining", !.err = FALSE]]
    BY <1>3, <2>1 DEF Listen, Servers
  <2> QED
    BY <2>2
<1> QED
  BY <1>1, <1>2, <1>3

\* Processes keep their types.
LEMMA ServerTypeStep == IndInv /\ [Next]_vars => srv' \in [Procs -> Servers]
<1> SUFFICES ASSUME IndInv, [Next]_vars PROVE srv' \in [Procs -> Servers]
  OBVIOUS
<1> USE AddrAssumption DEF IndInv, OneCurrentController, TypeOK, Servers, Alive,
     Owning
<1>1. ASSUME NEW p \in Procs, ServerStep(p) PROVE srv' \in [Procs -> Servers]
  <2>1. CASE Acquire(p)
    <3>1. CASE LockHeld
      BY GoneIsDead, <2>1, <3>1 DEF Acquire
    <3>2. CASE ~LockHeld
      BY GoneIsDead, <2>1, <3>2 DEF Acquire
    <3> QED
      BY <2>1, <3>1, <3>2
  <2>2. CASE Recover(p)
    BY <2>2 DEF Recover, saveRuntimeConfig
  <2>3. CASE saveRuntimeState(p)
    <3>1. CASE srv[p].pc = "recovered"
      BY <2>3, <3>1 DEF saveRuntimeState
    <3>2. CASE srv[p].pc = "stated"
      BY <2>3, <3>2 DEF saveRuntimeState
    <3> QED
      BY <2>3, <3>1, <3>2 DEF saveRuntimeState
  <2>4. CASE Listen(p)
    <3>1. ASSUME NEW x \in Alive, NEW b \in BOOLEAN
          PROVE  [srv[p] EXCEPT !.pc = x, !.err = b] \in Servers
      <4> DEFINE j == [srv[p] EXCEPT !.pc = x]
      <4>1. j \in Servers
        OBVIOUS
      <4> HIDE DEF j
      <4>2. [j EXCEPT !.err = b] \in Servers
        BY <4>1
      <4> QED
        BY <4>2 DEF j
    <3> HIDE DEF Servers
    <3>2. PICK x \in {"failed", "serving", "draining"}, b \in BOOLEAN :
            srv' = [srv EXCEPT ![p] = [srv[p] EXCEPT !.pc = x, !.err = b]]
      BY <2>4, ListenEnds
    <3> QED
      BY <3>1, <3>2
  <2>5. CASE CloseListener(p)
    BY <2>5 DEF CloseListener
  <2>6. CASE WaitAndCleanup(p)
    BY SMTT(30), <2>6 DEF WaitAndCleanup, Drained
  <2>7. CASE Exit(p)
    BY GoneIsDead, <2>7 DEF Exit, UnitAfterExit
  <2>8. CASE NotifyContext(p)
    BY <2>8 DEF NotifyContext
  <2>9. CASE Release(p)
    BY <2>9 DEF Release
  <2> QED
    BY <1>1, <2>1, <2>2, <2>3, <2>4, <2>5, <2>6, <2>7, <2>8,
         <2>9 DEF ServerStep
<1>2. ASSUME NEW p \in Procs, Push(p) PROVE srv' \in [Procs -> Servers]
  BY <1>2 DEF Push
<1>3. ASSUME NEW p \in Procs, Crash(p) PROVE srv' \in [Procs -> Servers]
  BY GoneIsDead, <1>3 DEF Crash, UnitAfterExit
<1>4. ASSUME NEW c \in Cmds, CommandStep(c) PROVE srv' \in [Procs -> Servers]
  <2>1. CASE Read(c)
    BY <2>1 DEF Read
  <2>2. CASE Probe(c)
    BY <2>2 DEF Probe, WhenRunning, WhenStopped, Done
  <2>3. CASE Download(c)
    BY <2>3 DEF Download, Goto, Done
  <2>4. CASE postControl(c)
    BY <2>4 DEF postControl, shutdownServer
  <2>5. CASE WaitDown(c)
    BY <2>5 DEF WaitDown, AfterStop, Goto, Done
  <2>6. CASE RemoveState(c)
    BY <2>6 DEF RemoveState, Done
  <2>7. CASE startDetachedServer(c)
    <3>1. exe # "torn"
      BY <2>7 DEF startDetachedServer, Last, CopyInv, CommandPcs
    <3> QED
      BY <2>7, <3>1 DEF startDetachedServer, Last, Spawned, NoServer, Commands
  <2>8. CASE WaitUp(c)
    BY <2>8 DEF WaitUp, Done
  <2>9. CASE scheduleBinarySwap(c)
    BY <2>9 DEF scheduleBinarySwap, restartStrategyCommand
  <2>10. CASE SwapBinary(c)
    BY <2>10 DEF SwapBinary, TextBusy, Goto, Done
  <2>11. CASE RestartAfterSwap(c)
    BY <2>11 DEF RestartAfterSwap, Last, Goto, Done
  <2>12. CASE SystemctlStop(c)
    <3>1. \A p \in Procs : Signalled(p) \in Servers
      BY SMTT(30), GoneIsDead DEF Signalled, shutdownServer
    <3> QED
      BY <2>12, <3>1 DEF SystemctlStop
  <2>13. CASE SystemctlStopped(c)
    BY <2>13 DEF SystemctlStopped, Last, Goto, Done
  <2>14. CASE enableNativeAutostart(c)
    BY <2>14 DEF enableNativeAutostart, Last, saveRuntimeConfig, Goto
  <2>15. CASE SystemctlStart(c)
    BY <2>15 DEF SystemctlStart, Done
  <2>16. CASE Copied(c)
    BY <2>16 DEF Copied, Goto, Done
  <2> QED
    BY <1>4, <2>1, <2>2, <2>3, <2>4, <2>5, <2>6, <2>7, <2>8, <2>9, <2>10, <2>11,
         <2>12, <2>13, <2>14, <2>15, <2>16 DEF CommandStep
<1>5. ASSUME NEW c \in Cmds, Operator(c) PROVE srv' \in [Procs -> Servers]
  BY <1>5 DEF Operator, runStart, runRestart, runEnableAutostart, runSetPort,
       saveRuntimeConfig, runUpdate, handleSystemUpdate, runStop,
       runDisableAutostart, runReloadConfig, Give
<1>6. CASE Reboot
  BY GoneIsDead, <1>6 DEF Reboot
<1>7. CASE Activate
  BY <1>7 DEF Activate, Spawned, NoServer, Units
<1>8. CASE UNCHANGED vars
  BY <1>8 DEF vars
<1> QED
  BY <1>1, <1>2, <1>3, <1>4, <1>5, <1>6, <1>7, <1>8 DEF Next

\* Commands keep their types.
LEMMA CommandTypeStep == IndInv /\ [Next]_vars => cli' \in [Cmds -> Commands]
<1> SUFFICES ASSUME IndInv, [Next]_vars PROVE cli' \in [Cmds -> Commands]
  OBVIOUS
<1> USE AddrAssumption, KindAssumption DEF IndInv, OneCurrentController, TypeOK,
     Commands, NoCommand, AllKinds, CommandPcs, ScriptPcs
<1>1. ASSUME NEW p \in Procs, ServerStep(p) PROVE cli' \in [Cmds -> Commands]
  <2>1. CASE Acquire(p)
    BY <2>1 DEF Acquire, LockHeld, GiveUp, UnitAfterExit
  <2>2. CASE Recover(p)
    BY <2>2 DEF Recover, saveRuntimeConfig
  <2>3. CASE saveRuntimeState(p)
    BY <2>3 DEF saveRuntimeState
  <2>4. CASE Listen(p)
    BY <2>4 DEF Listen, warnIfPortBlocked
  <2>5. CASE CloseListener(p)
    BY <2>5 DEF CloseListener
  <2>6. CASE WaitAndCleanup(p)
    BY <2>6 DEF WaitAndCleanup, Drained
  <2>7. CASE Exit(p)
    BY <2>7 DEF Exit, UnitAfterExit
  <2>8. CASE NotifyContext(p)
    BY <2>8 DEF NotifyContext
  <2>9. CASE Release(p)
    BY <2>9 DEF Release
  <2> QED
    BY <1>1, <2>1, <2>2, <2>3, <2>4, <2>5, <2>6, <2>7, <2>8,
         <2>9 DEF ServerStep
<1>2. ASSUME NEW p \in Procs, Push(p) PROVE cli' \in [Cmds -> Commands]
  BY <1>2 DEF Push
<1>3. ASSUME NEW p \in Procs, Crash(p) PROVE cli' \in [Cmds -> Commands]
  BY <1>3 DEF Crash, UnitAfterExit
<1>4. ASSUME NEW c \in Cmds, CommandStep(c) PROVE cli' \in [Cmds -> Commands]
  <2>1. CASE Read(c)
    BY <2>1 DEF Read
  <2>2. CASE Probe(c)
    BY <2>2 DEF Probe, WhenRunning, WhenStopped, Done
  <2>3. CASE Download(c)
    BY <2>3 DEF Download, Goto, Done
  <2>4. CASE postControl(c)
    BY <2>4 DEF postControl, Listener, Listening, shutdownServer, Goto, Done
  <2>5. CASE WaitDown(c)
    BY <2>5 DEF WaitDown, AfterStop, Goto, Done
  <2>6. CASE RemoveState(c)
    BY <2>6 DEF RemoveState, Done
  <2>7. CASE startDetachedServer(c)
    BY <2>7, NextIdIsFree DEF startDetachedServer, Last, saveRuntimeConfig, Spawned,
         NoServer, Free, Goto
  <2>8. CASE WaitUp(c)
    BY <2>8 DEF WaitUp, Done
  <2>9. CASE scheduleBinarySwap(c)
    <3> DEFINE b == restartStrategyCommand(c)
               j == [cli[c] EXCEPT !.pc = "swap"]
               k == [j EXCEPT !.boot = b]
    <3>1. b \in {"none", "start", "unit"}
      BY DEF restartStrategyCommand
    <3> HIDE DEF b
    <3>2. j \in Commands
      OBVIOUS
    <3> HIDE DEF j
    <3>3. k \in Commands
      BY <3>1, <3>2
    <3> HIDE DEF k
    <3>4. [k EXCEPT !.via = None, !.seen = None] \in Commands
      BY <3>3
    <3>5. cli' = [cli EXCEPT ![c] = [k EXCEPT !.via = None, !.seen = None]]
      BY <2>9 DEF scheduleBinarySwap, b, j, k
    <3> QED
      BY <3>4, <3>5
  <2>10. CASE SwapBinary(c)
    BY <2>10, SMTT(30) DEF SwapBinary, TextBusy, Goto, Done
  <2>11. CASE RestartAfterSwap(c)
    BY SMTT(30), <2>11 DEF RestartAfterSwap, Last, Goto, Done
  <2>12. CASE SystemctlStop(c)
    BY SMTT(30), <2>12
       DEF SystemctlStop, Main, Signalled, shutdownServer, Goto
  <2>13. CASE SystemctlStopped(c)
    BY <2>13 DEF SystemctlStopped, Last, Goto, Done
  <2>14. CASE enableNativeAutostart(c)
    BY <2>14 DEF enableNativeAutostart, Last, saveRuntimeConfig, Goto
  <2>15. CASE SystemctlStart(c)
    BY <2>15 DEF SystemctlStart, Done
  <2>16. CASE Copied(c)
    BY <2>16 DEF Copied, Goto, Done
  <2> QED
    BY <1>4, <2>1, <2>2, <2>3, <2>4, <2>5, <2>6, <2>7, <2>8, <2>9, <2>10, <2>11,
         <2>12, <2>13, <2>14, <2>15, <2>16 DEF CommandStep
<1>5. ASSUME NEW c \in Cmds, Operator(c) PROVE cli' \in [Cmds -> Commands]
  <2>1. ASSUME NEW cmd \in Commands, Give(c, cmd) PROVE cli' \in [Cmds -> Commands]
    BY <2>1 DEF Give
  <2>2. ASSUME NEW k \in AllKinds, NEW a \in Addrs \cup {None}, NEW first \in CommandPcs
        PROVE  Command(k, a, first) \in Commands
    BY DEF Command
  <2>3. \A flag \in Addrs \cup {None} : resolveListenAddr(flag) \in Addrs \cup {None}
    BY DEF resolveListenAddr, Configured
  <2>4. ASSUME NEW k \in Commands, NEW b \in {"none", "start"}
        PROVE  /\ [k EXCEPT !.boot = b] \in Commands
               /\ \A p \in Procs : [k EXCEPT !.boot = b, !.via = p] \in Commands
               /\ [k EXCEPT !.kind = "setport"] \in Commands
    <3>1. [k EXCEPT !.boot = b] \in Commands
      OBVIOUS
    <3>2. \A p \in Procs : [k EXCEPT !.boot = b, !.via = p] \in Commands
      OBVIOUS
    <3>3. [k EXCEPT !.kind = "setport"] \in Commands
      OBVIOUS
    <3> QED
      BY <3>1, <3>2, <3>3
  <2>5. NoCommand \in Commands
    OBVIOUS
  <2> HIDE DEF Commands, NoCommand
  <2>6. ASSUME NEW flag \in Addrs \cup {None},
               runStart(c, flag) \/ runRestart(c, flag) \/ runEnableAutostart(c, flag)
        PROVE  cli' \in [Cmds -> Commands]
    BY <2>1, <2>2, <2>3, <2>6 DEF runStart, runRestart, runEnableAutostart
  <2>7. ASSUME NEW a \in Addrs, NEW restart \in BOOLEAN, runSetPort(c, a, restart)
        PROVE  cli' \in [Cmds -> Commands]
    <3>1. [NoCommand EXCEPT !.kind = "setport"] \in Commands
      BY <2>4, <2>5
    <3>2. Command("setport", a, "read") \in Commands
      BY <2>2
    <3> QED
      BY <2>1, <2>7, <3>1, <3>2 DEF runSetPort
  <2>8. ASSUME NEW restart \in BOOLEAN, runUpdate(c, restart)
        PROVE  cli' \in [Cmds -> Commands]
    <3> DEFINE k == Command("update", None, "read")
    <3>1. k \in Commands
      BY <2>2, <2>3
    <3>2. [k EXCEPT !.boot = IF restart THEN "start" ELSE "none"] \in Commands
      BY <2>4, <3>1
    <3> QED
      BY <2>1, <2>8, <3>2 DEF runUpdate
  <2>9. ASSUME NEW p \in Procs, handleSystemUpdate(c, p)
        PROVE  cli' \in [Cmds -> Commands]
    BY <2>1, <2>2, <2>3, <2>4, <2>9 DEF handleSystemUpdate
  <2>10. CASE runStop(c) \/ runDisableAutostart(c) \/ runReloadConfig(c)
    BY <2>1, <2>2, <2>10 DEF runStop, runDisableAutostart, runReloadConfig
  <2> QED
    BY <1>5, <2>6, <2>7, <2>8, <2>9, <2>10 DEF Operator
<1>6. CASE Reboot
  BY <1>6 DEF Reboot
<1>7. CASE Activate
  BY <1>7, NextIdIsFree DEF Activate, Spawned, NoServer, Free
<1>8. CASE UNCHANGED vars
  BY <1>8 DEF vars
<1> QED
  BY <1>1, <1>2, <1>3, <1>4, <1>5, <1>6, <1>7, <1>8 DEF Next

\* Files, the unit and the counters keep their types.
LEMMA FileTypeStep == IndInv /\ [Next]_vars => FilesTyped'
<1> SUFFICES ASSUME IndInv, [Next]_vars PROVE FilesTyped'
  OBVIOUS
<1> USE AddrAssumption, BoundAssumption DEF FilesTyped, IndInv,
     OneCurrentController, TypeOK, Units, Servers, Commands
<1>1. ASSUME NEW p \in Procs, ServerStep(p) PROVE FilesTyped'
  <2>1. CASE Acquire(p)
    BY <2>1 DEF Acquire, LockHeld, GiveUp, UnitAfterExit
  <2>2. CASE Recover(p)
    BY <2>2 DEF Recover, saveRuntimeConfig
  <2>3. CASE saveRuntimeState(p)
    BY <2>3 DEF saveRuntimeState
  <2>4. CASE Listen(p)
    BY <2>4 DEF Listen, warnIfPortBlocked
  <2>5. CASE CloseListener(p)
    BY <2>5 DEF CloseListener
  <2>6. CASE WaitAndCleanup(p)
    BY <2>6 DEF WaitAndCleanup, Drained
  <2>7. CASE Exit(p)
    BY <2>7 DEF Exit, UnitAfterExit
  <2>8. CASE NotifyContext(p)
    BY <2>8 DEF NotifyContext
  <2>9. CASE Release(p)
    BY <2>9 DEF Release
  <2> QED
    BY <1>1, <2>1, <2>2, <2>3, <2>4, <2>5, <2>6, <2>7, <2>8,
         <2>9 DEF ServerStep
<1>2. ASSUME NEW p \in Procs, Push(p) PROVE FilesTyped'
  BY <1>2 DEF Push
<1>3. ASSUME NEW p \in Procs, Crash(p) PROVE FilesTyped'
  BY <1>3 DEF Crash, UnitAfterExit
<1>4. ASSUME NEW c \in Cmds, CommandStep(c) PROVE FilesTyped'
  <2>1. CASE Read(c)
    BY <2>1 DEF Read
  <2>2. CASE Probe(c)
    BY <2>2 DEF Probe, WhenRunning, WhenStopped, Done
  <2>3. CASE Download(c)
    BY <2>3 DEF Download, Goto, Done
  <2>4. CASE postControl(c)
    BY <2>4 DEF postControl, Listener, Listening, shutdownServer, Goto, Done
  <2>5. CASE WaitDown(c)
    BY <2>5 DEF WaitDown, AfterStop, Goto, Done
  <2>6. CASE RemoveState(c)
    BY <2>6 DEF RemoveState, Done
  <2>7. CASE startDetachedServer(c)
    BY <2>7, NextIdIsFree DEF startDetachedServer, Last, saveRuntimeConfig, Spawned,
         NoServer, Free, Goto
  <2>8. CASE WaitUp(c)
    BY <2>8 DEF WaitUp, Done
  <2>9. CASE scheduleBinarySwap(c)
    BY <2>9 DEF scheduleBinarySwap, restartStrategyCommand
  <2>10. CASE SwapBinary(c)
    BY <2>10 DEF SwapBinary, TextBusy, Goto, Done
  <2>11. CASE RestartAfterSwap(c)
    BY <2>11 DEF RestartAfterSwap, Last, Goto, Done
  <2>12. CASE SystemctlStop(c)
    BY <2>12
       DEF SystemctlStop, Main, Signalled, shutdownServer, Goto
  <2>13. CASE SystemctlStopped(c)
    BY <2>13 DEF SystemctlStopped, Last, Goto, Done
  <2>14. CASE enableNativeAutostart(c)
    BY <2>14 DEF enableNativeAutostart, Last, saveRuntimeConfig, Goto
  <2>15. CASE SystemctlStart(c)
    BY <2>15 DEF SystemctlStart, Done
  <2>16. CASE Copied(c)
    BY <2>16 DEF Copied, Goto, Done
  <2> QED
    BY <1>4, <2>1, <2>2, <2>3, <2>4, <2>5, <2>6, <2>7, <2>8, <2>9, <2>10, <2>11,
         <2>12, <2>13, <2>14, <2>15, <2>16 DEF CommandStep
<1>5. ASSUME NEW c \in Cmds, Operator(c) PROVE FilesTyped'
  <2>1. /\ UNCHANGED <<lock, pushing, stateFile, pidFile, unit, exe, crashes>>
        /\ given < MaxCommands /\ given' = given + 1
    BY <1>5 DEF Operator, runStart, runRestart, runEnableAutostart, runSetPort, runUpdate,
         handleSystemUpdate, runStop, runDisableAutostart, runReloadConfig, Give, Idle
  <2>2. cfg' \in Addrs \cup {None}
    BY <1>5 DEF Operator, runStart, runRestart, runEnableAutostart, runSetPort,
         saveRuntimeConfig, runUpdate, handleSystemUpdate, runStop, runDisableAutostart,
         runReloadConfig
  <2> QED
    BY <2>1, <2>2
<1>6. CASE Reboot
  BY <1>6 DEF Reboot
<1>7. CASE Activate
  BY <1>7, NextIdIsFree DEF Activate, Spawned, NoServer, Free
<1>8. CASE UNCHANGED vars
  BY <1>8 DEF vars
<1> QED
  BY <1>1, <1>2, <1>3, <1>4, <1>5, <1>6, <1>7, <1>8 DEF Next

\* The lock is passed only through Acquire, and given up with the process.
LEMMA OwnerStep == IndInv /\ [Next]_vars => OneController'
<1> SUFFICES ASSUME IndInv, [Next]_vars PROVE OneController'
  OBVIOUS
<1> USE NoneAssumption DEF IndInv, OneCurrentController, OneController, PushInv,
     TypeOK, Servers, Alive, Owning
<1>1. ASSUME NEW p \in Procs, ServerStep(p) PROVE OneController'
  <2>1. CASE Acquire(p)
    BY GoneIsDead, <2>1 DEF Acquire, LockHeld, GiveUp, UnitAfterExit
  <2>2. CASE Recover(p)
    BY <2>2 DEF Recover, saveRuntimeConfig
  <2>3. CASE saveRuntimeState(p)
    BY <2>3 DEF saveRuntimeState
  <2>4. CASE Listen(p)
    BY <2>4 DEF Listen, warnIfPortBlocked
  <2>5. CASE CloseListener(p)
    BY <2>5 DEF CloseListener
  <2>6. CASE WaitAndCleanup(p)
    BY <2>6 DEF WaitAndCleanup, Drained
  <2>7. CASE Exit(p)
    BY GoneIsDead, <2>7 DEF Exit, UnitAfterExit
  <2>8. CASE NotifyContext(p)
    BY <2>8 DEF NotifyContext
  <2>9. CASE Release(p)
    BY <2>9 DEF Release
  <2> QED
    BY <1>1, <2>1, <2>2, <2>3, <2>4, <2>5, <2>6, <2>7, <2>8,
         <2>9 DEF ServerStep
<1>2. ASSUME NEW p \in Procs, Push(p) PROVE OneController'
  BY <1>2 DEF Push
<1>3. ASSUME NEW p \in Procs, Crash(p) PROVE OneController'
  BY GoneIsDead, <1>3 DEF Crash, UnitAfterExit
<1>4. ASSUME NEW c \in Cmds, CommandStep(c) PROVE OneController'
  <2>1. CASE Read(c)
    BY <2>1 DEF Read
  <2>2. CASE Probe(c)
    BY <2>2 DEF Probe, WhenRunning, WhenStopped, Done
  <2>3. CASE Download(c)
    BY <2>3 DEF Download, Goto, Done
  <2>4. CASE postControl(c)
    BY <2>4 DEF postControl, Listener, Listening, shutdownServer, Goto, Done
  <2>5. CASE WaitDown(c)
    BY <2>5 DEF WaitDown, AfterStop, Goto, Done
  <2>6. CASE RemoveState(c)
    BY <2>6 DEF RemoveState, Done
  <2>7. CASE startDetachedServer(c)
    BY <2>7, NextIdIsFree DEF startDetachedServer, Last, saveRuntimeConfig, Spawned,
         NoServer, Free, Goto
  <2>8. CASE WaitUp(c)
    BY <2>8 DEF WaitUp, Done
  <2>9. CASE scheduleBinarySwap(c)
    BY <2>9 DEF scheduleBinarySwap, restartStrategyCommand
  <2>10. CASE SwapBinary(c)
    BY <2>10 DEF SwapBinary, TextBusy, Goto, Done
  <2>11. CASE RestartAfterSwap(c)
    BY <2>11 DEF RestartAfterSwap, Last, Goto, Done
  <2>12. CASE SystemctlStop(c)
    BY GoneIsDead, <2>12
       DEF SystemctlStop, Main, Signalled, shutdownServer, Goto
  <2>13. CASE SystemctlStopped(c)
    BY <2>13 DEF SystemctlStopped, Last, Goto, Done
  <2>14. CASE enableNativeAutostart(c)
    BY <2>14 DEF enableNativeAutostart, Last, saveRuntimeConfig, Goto
  <2>15. CASE SystemctlStart(c)
    BY <2>15 DEF SystemctlStart, Done
  <2>16. CASE Copied(c)
    BY <2>16 DEF Copied, Goto, Done
  <2> QED
    BY <1>4, <2>1, <2>2, <2>3, <2>4, <2>5, <2>6, <2>7, <2>8, <2>9, <2>10, <2>11,
         <2>12, <2>13, <2>14, <2>15, <2>16 DEF CommandStep
<1>5. ASSUME NEW c \in Cmds, Operator(c) PROVE OneController'
  BY <1>5 DEF Operator, runStart, runRestart, runEnableAutostart, runSetPort,
       saveRuntimeConfig, runUpdate, handleSystemUpdate, runStop,
       runDisableAutostart, runReloadConfig, Give
<1>6. CASE Reboot
  BY GoneIsDead, <1>6 DEF Reboot
<1>7. CASE Activate
  BY <1>7, NextIdIsFree DEF Activate, Spawned, NoServer, Free
<1>8. CASE UNCHANGED vars
  BY <1>8 DEF vars
<1> QED
  BY <1>1, <1>2, <1>3, <1>4, <1>5, <1>6, <1>7, <1>8 DEF Next

\* Who executes a deployment drains it before it cleans up.
LEMMA PushStep == IndInv /\ [Next]_vars => PushInv'
<1> SUFFICES ASSUME IndInv, [Next]_vars PROVE PushInv'
  OBVIOUS
<1> USE NoneAssumption DEF IndInv, OneCurrentController, OneController, PushInv,
     TypeOK, Servers, Alive, Owning
<1>1. ASSUME NEW p \in Procs, ServerStep(p) PROVE PushInv'
  <2>1. CASE Acquire(p)
    BY GoneIsDead, <2>1 DEF Acquire, LockHeld, GiveUp, UnitAfterExit
  <2>2. CASE Recover(p)
    BY <2>2 DEF Recover, saveRuntimeConfig
  <2>3. CASE saveRuntimeState(p)
    BY <2>3 DEF saveRuntimeState
  <2>4. CASE Listen(p)
    BY <2>4 DEF Listen, warnIfPortBlocked
  <2>5. CASE CloseListener(p)
    BY <2>5 DEF CloseListener
  <2>6. CASE WaitAndCleanup(p)
    BY <2>6 DEF WaitAndCleanup, Drained
  <2>7. CASE Exit(p)
    BY GoneIsDead, <2>7 DEF Exit, UnitAfterExit
  <2>8. CASE NotifyContext(p)
    BY <2>8 DEF NotifyContext
  <2>9. CASE Release(p)
    BY <2>9 DEF Release
  <2> QED
    BY <1>1, <2>1, <2>2, <2>3, <2>4, <2>5, <2>6, <2>7, <2>8,
         <2>9 DEF ServerStep
<1>2. ASSUME NEW p \in Procs, Push(p) PROVE PushInv'
  BY <1>2 DEF Push
<1>3. ASSUME NEW p \in Procs, Crash(p) PROVE PushInv'
  BY GoneIsDead, <1>3 DEF Crash, UnitAfterExit
<1>4. ASSUME NEW c \in Cmds, CommandStep(c) PROVE PushInv'
  <2>1. CASE Read(c)
    BY <2>1 DEF Read
  <2>2. CASE Probe(c)
    BY <2>2 DEF Probe, WhenRunning, WhenStopped, Done
  <2>3. CASE Download(c)
    BY <2>3 DEF Download, Goto, Done
  <2>4. CASE postControl(c)
    BY <2>4 DEF postControl, Listener, Listening, shutdownServer, Goto, Done
  <2>5. CASE WaitDown(c)
    BY <2>5 DEF WaitDown, AfterStop, Goto, Done
  <2>6. CASE RemoveState(c)
    BY <2>6 DEF RemoveState, Done
  <2>7. CASE startDetachedServer(c)
    BY <2>7, NextIdIsFree DEF startDetachedServer, Last, saveRuntimeConfig, Spawned,
         NoServer, Free, Goto
  <2>8. CASE WaitUp(c)
    BY <2>8 DEF WaitUp, Done
  <2>9. CASE scheduleBinarySwap(c)
    BY <2>9 DEF scheduleBinarySwap, restartStrategyCommand
  <2>10. CASE SwapBinary(c)
    BY <2>10 DEF SwapBinary, TextBusy, Goto, Done
  <2>11. CASE RestartAfterSwap(c)
    BY <2>11 DEF RestartAfterSwap, Last, Goto, Done
  <2>12. CASE SystemctlStop(c)
    <3>1. \A p \in Procs : srv'[p] \in {srv[p], Signalled(p)}
      BY <2>12 DEF SystemctlStop
    <3>2. \A p \in pushing' : p \in pushing /\ srv'[p].pc # "dead"
      BY <2>12 DEF SystemctlStop
    <3>3. ASSUME NEW p \in Procs, Signalled(p).pc # "dead"
          PROVE  /\ Signalled(p).err = srv[p].err /\ Signalled(p).addr = srv[p].addr
                 /\ \/ Signalled(p).pc = srv[p].pc
                    \/ Signalled(p).pc \in {"stopping", "halting"}
      BY <3>3, GoneIsDead DEF Signalled, shutdownServer
    <3> QED
      BY <3>1, <3>2, <3>3
  <2>13. CASE SystemctlStopped(c)
    BY <2>13 DEF SystemctlStopped, Last, Goto, Done
  <2>14. CASE enableNativeAutostart(c)
    BY <2>14 DEF enableNativeAutostart, Last, saveRuntimeConfig, Goto
  <2>15. CASE SystemctlStart(c)
    BY <2>15 DEF SystemctlStart, Done
  <2>16. CASE Copied(c)
    BY <2>16 DEF Copied, Goto, Done
  <2> QED
    BY <1>4, <2>1, <2>2, <2>3, <2>4, <2>5, <2>6, <2>7, <2>8, <2>9, <2>10, <2>11,
         <2>12, <2>13, <2>14, <2>15, <2>16 DEF CommandStep
<1>5. ASSUME NEW c \in Cmds, Operator(c) PROVE PushInv'
  BY <1>5 DEF Operator, runStart, runRestart, runEnableAutostart, runSetPort,
       saveRuntimeConfig, runUpdate, handleSystemUpdate, runStop,
       runDisableAutostart, runReloadConfig, Give
<1>6. CASE Reboot
  BY GoneIsDead, <1>6 DEF Reboot
<1>7. CASE Activate
  BY <1>7, NextIdIsFree DEF Activate, Spawned, NoServer, Free
<1>8. CASE UNCHANGED vars
  BY <1>8 DEF vars
<1> QED
  BY <1>1, <1>2, <1>3, <1>4, <1>5, <1>6, <1>7, <1>8 DEF Next

\* The executable is replaced only while no process runs.
LEMMA BinaryStep == IndInv /\ [Next]_vars => RunsWhatIsInstalled'
<1> SUFFICES ASSUME IndInv, [Next]_vars PROVE RunsWhatIsInstalled'
  OBVIOUS
<1> USE NoneAssumption DEF IndInv, OneCurrentController, RunsWhatIsInstalled,
     TypeOK, Servers, Alive, Owning
<1>1. ASSUME NEW p \in Procs, ServerStep(p) PROVE RunsWhatIsInstalled'
  <2>1. CASE Acquire(p)
    BY GoneIsDead, <2>1 DEF Acquire, LockHeld, GiveUp, UnitAfterExit
  <2>2. CASE Recover(p)
    BY <2>2 DEF Recover, saveRuntimeConfig
  <2>3. CASE saveRuntimeState(p)
    BY <2>3 DEF saveRuntimeState
  <2>4. CASE Listen(p)
    BY <2>4 DEF Listen, warnIfPortBlocked
  <2>5. CASE CloseListener(p)
    BY <2>5 DEF CloseListener
  <2>6. CASE WaitAndCleanup(p)
    BY <2>6 DEF WaitAndCleanup, Drained
  <2>7. CASE Exit(p)
    BY GoneIsDead, <2>7 DEF Exit, UnitAfterExit
  <2>8. CASE NotifyContext(p)
    BY <2>8 DEF NotifyContext
  <2>9. CASE Release(p)
    BY <2>9 DEF Release
  <2> QED
    BY <1>1, <2>1, <2>2, <2>3, <2>4, <2>5, <2>6, <2>7, <2>8,
         <2>9 DEF ServerStep
<1>2. ASSUME NEW p \in Procs, Push(p) PROVE RunsWhatIsInstalled'
  BY <1>2 DEF Push
<1>3. ASSUME NEW p \in Procs, Crash(p) PROVE RunsWhatIsInstalled'
  BY GoneIsDead, <1>3 DEF Crash, UnitAfterExit
<1>4. ASSUME NEW c \in Cmds, CommandStep(c) PROVE RunsWhatIsInstalled'
  <2>1. CASE Read(c)
    BY <2>1 DEF Read
  <2>2. CASE Probe(c)
    BY <2>2 DEF Probe, WhenRunning, WhenStopped, Done
  <2>3. CASE Download(c)
    BY <2>3 DEF Download, Goto, Done
  <2>4. CASE postControl(c)
    BY <2>4 DEF postControl, Listener, Listening, shutdownServer, Goto, Done
  <2>5. CASE WaitDown(c)
    BY <2>5 DEF WaitDown, AfterStop, Goto, Done
  <2>6. CASE RemoveState(c)
    BY <2>6 DEF RemoveState, Done
  <2>7. CASE startDetachedServer(c)
    BY <2>7, NextIdIsFree DEF startDetachedServer, Last, saveRuntimeConfig, Spawned,
         NoServer, Free, Goto
  <2>8. CASE WaitUp(c)
    BY <2>8 DEF WaitUp, Done
  <2>9. CASE scheduleBinarySwap(c)
    BY <2>9 DEF scheduleBinarySwap, restartStrategyCommand
  <2>10. CASE SwapBinary(c)
    BY <2>10 DEF SwapBinary, TextBusy, Goto, Done
  <2>11. CASE RestartAfterSwap(c)
    BY <2>11 DEF RestartAfterSwap, Last, Goto, Done
  <2>12. CASE SystemctlStop(c)
    BY GoneIsDead, <2>12
       DEF SystemctlStop, Main, Signalled, shutdownServer, Goto
  <2>13. CASE SystemctlStopped(c)
    BY <2>13 DEF SystemctlStopped, Last, Goto, Done
  <2>14. CASE enableNativeAutostart(c)
    BY <2>14 DEF enableNativeAutostart, Last, saveRuntimeConfig, Goto
  <2>15. CASE SystemctlStart(c)
    BY <2>15 DEF SystemctlStart, Done
  <2>16. CASE Copied(c)
    <3>1. exe = "torn" /\ UNCHANGED srv
      BY <2>16 DEF Copied, CopyInv
    <3>2. \A p \in Procs : srv[p].pc \notin Alive
      BY <3>1
    <3> QED
      BY <3>1, <3>2
  <2> QED
    BY <1>4, <2>1, <2>2, <2>3, <2>4, <2>5, <2>6, <2>7, <2>8, <2>9, <2>10, <2>11,
         <2>12, <2>13, <2>14, <2>15, <2>16 DEF CommandStep
<1>5. ASSUME NEW c \in Cmds, Operator(c) PROVE RunsWhatIsInstalled'
  BY <1>5 DEF Operator, runStart, runRestart, runEnableAutostart, runSetPort,
       saveRuntimeConfig, runUpdate, handleSystemUpdate, runStop,
       runDisableAutostart, runReloadConfig, Give
<1>6. CASE Reboot
  BY GoneIsDead, <1>6 DEF Reboot
<1>7. CASE Activate
  BY <1>7, NextIdIsFree DEF Activate, Spawned, NoServer, Free
<1>8. CASE UNCHANGED vars
  BY <1>8 DEF vars
<1> QED
  BY <1>1, <1>2, <1>3, <1>4, <1>5, <1>6, <1>7, <1>8 DEF Next

\* Commands of the executable are not given, and scripts are not started, while
\* it is being copied.
LEMMA CopyStep == IndInv /\ [Next]_vars => CopyInv'
<1> SUFFICES ASSUME IndInv, [Next]_vars PROVE CopyInv'
  OBVIOUS
<1> USE NoneAssumption DEF IndInv, OneCurrentController, CopyInv, CommandPcs, NoCommand, Commands,
     TypeOK
<1>1. ASSUME NEW p \in Procs, ServerStep(p) PROVE CopyInv'
  <2>1. CASE Acquire(p)
    BY <2>1 DEF Acquire, LockHeld, GiveUp, UnitAfterExit
  <2>2. CASE Recover(p)
    BY <2>2 DEF Recover, saveRuntimeConfig
  <2>3. CASE saveRuntimeState(p)
    BY <2>3 DEF saveRuntimeState
  <2>4. CASE Listen(p)
    BY <2>4 DEF Listen, warnIfPortBlocked
  <2>5. CASE CloseListener(p)
    BY <2>5 DEF CloseListener
  <2>6. CASE WaitAndCleanup(p)
    BY <2>6 DEF WaitAndCleanup, Drained
  <2>7. CASE Exit(p)
    BY <2>7 DEF Exit, UnitAfterExit
  <2>8. CASE NotifyContext(p)
    BY <2>8 DEF NotifyContext
  <2>9. CASE Release(p)
    BY <2>9 DEF Release
  <2> QED
    BY <1>1, <2>1, <2>2, <2>3, <2>4, <2>5, <2>6, <2>7, <2>8,
         <2>9 DEF ServerStep
<1>2. ASSUME NEW p \in Procs, Push(p) PROVE CopyInv'
  BY <1>2 DEF Push
<1>3. ASSUME NEW p \in Procs, Crash(p) PROVE CopyInv'
  BY <1>3 DEF Crash, UnitAfterExit
<1>4. ASSUME NEW c \in Cmds, CommandStep(c) PROVE CopyInv'
  <2>1. CASE Read(c)
    BY <2>1 DEF Read
  <2>2. CASE Probe(c)
    BY <2>2 DEF Probe, WhenRunning, WhenStopped, Done
  <2>3. CASE Download(c)
    BY <2>3 DEF Download, Goto, Done
  <2>4. CASE postControl(c)
    BY <2>4 DEF postControl, Listener, Listening, shutdownServer, Goto, Done
  <2>5. CASE WaitDown(c)
    BY <2>5 DEF WaitDown, AfterStop, Goto, Done
  <2>6. CASE RemoveState(c)
    BY <2>6 DEF RemoveState, Done
  <2>7. CASE startDetachedServer(c)
    BY <2>7, NextIdIsFree DEF startDetachedServer, Last, saveRuntimeConfig, Spawned,
         NoServer, Free, Goto
  <2>8. CASE WaitUp(c)
    BY <2>8 DEF WaitUp, Done
  <2>9. CASE scheduleBinarySwap(c)
    BY <2>9 DEF scheduleBinarySwap, restartStrategyCommand
  <2>10. CASE SwapBinary(c)
    BY <2>10 DEF SwapBinary, TextBusy, Goto, Done
  <2>11. CASE RestartAfterSwap(c)
    BY <2>11 DEF RestartAfterSwap, Last, Goto, Done
  <2>12. CASE SystemctlStop(c)
    BY <2>12
       DEF SystemctlStop, Main, Signalled, shutdownServer, Goto
  <2>13. CASE SystemctlStopped(c)
    BY <2>13 DEF SystemctlStopped, Last, Goto, Done
  <2>14. CASE enableNativeAutostart(c)
    BY <2>14 DEF enableNativeAutostart, Last, saveRuntimeConfig, Goto
  <2>15. CASE SystemctlStart(c)
    BY <2>15 DEF SystemctlStart, Done
  <2>16. CASE Copied(c)
    BY <2>16 DEF Copied, Goto, Done
  <2> QED
    BY <1>4, <2>1, <2>2, <2>3, <2>4, <2>5, <2>6, <2>7, <2>8, <2>9, <2>10, <2>11,
         <2>12, <2>13, <2>14, <2>15, <2>16 DEF CommandStep
<1>5. ASSUME NEW c \in Cmds, Operator(c) PROVE CopyInv'
  <2>1. exe # "torn" /\ exe' = exe
    BY <1>5 DEF Operator, runStart, runRestart, runEnableAutostart, runSetPort,
         runUpdate, handleSystemUpdate, runStop, runDisableAutostart, runReloadConfig,
         Give, Idle
  <2>2. ASSUME NEW cmd, Give(c, cmd), cmd.pc # "copying" PROVE CopyInv'
    BY <2>1, <2>2 DEF Give
  <2>3. ASSUME NEW k, NEW a, NEW x \in CommandPcs PROVE Command(k, a, x).pc # "copying"
    BY DEF Command
  <2>4. ASSUME NEW k, NEW a, NEW b
        PROVE  [Command(k, a, "read") EXCEPT !.boot = b].pc # "copying"
    BY DEF Command
  <2>5. ASSUME NEW k, NEW a, NEW b, NEW v
        PROVE  [Command(k, a, "read") EXCEPT !.boot = b, !.via = v].pc # "copying"
    BY DEF Command
  <2>6. [NoCommand EXCEPT !.kind = "setport"].pc # "copying"
    OBVIOUS
  <2> HIDE DEF NoCommand, CopyInv
  <2>7. CASE \E flag \in Addrs \cup {None} :
               runStart(c, flag) \/ runRestart(c, flag) \/ runEnableAutostart(c, flag)
    BY <2>2, <2>3, <2>7 DEF runStart, runRestart, runEnableAutostart
  <2>8. ASSUME NEW a \in Addrs, NEW restart \in BOOLEAN, runSetPort(c, a, restart)
        PROVE  CopyInv'
    <3>1. CASE restart
      BY <2>2, <2>3, <2>8, <3>1 DEF runSetPort
    <3>2. CASE ~restart
      BY <2>2, <2>6, <2>8, <3>2 DEF runSetPort
    <3> QED
      BY <3>1, <3>2
  <2>9. ASSUME NEW restart \in BOOLEAN, runUpdate(c, restart) PROVE CopyInv'
    <3> DEFINE b == IF restart THEN "start" ELSE "none"
               k == [Command("update", None, "read") EXCEPT !.boot = b]
    <3>1. Give(c, k)
      BY <2>9 DEF runUpdate
    <3>2. k.pc # "copying"
      BY <2>4
    <3> QED
      BY <2>2, <3>1, <3>2
  <2>10. ASSUME NEW p \in Procs, handleSystemUpdate(c, p) PROVE CopyInv'
    <3> DEFINE k == [Command("update", None, "read")
                        EXCEPT !.boot = "start", !.via = p]
    <3>1. Give(c, k)
      BY <2>10 DEF handleSystemUpdate
    <3>2. k.pc # "copying"
      BY <2>5
    <3> QED
      BY <2>2, <3>1, <3>2
  <2>11. CASE runStop(c) \/ runDisableAutostart(c) \/ runReloadConfig(c)
    BY <2>2, <2>3, <2>11 DEF runStop, runDisableAutostart, runReloadConfig
  <2> QED
    BY <1>5, <2>7, <2>8, <2>9, <2>10, <2>11 DEF Operator
<1>6. CASE Reboot
  BY <1>6 DEF Reboot
<1>7. CASE Activate
  BY <1>7, NextIdIsFree DEF Activate, Spawned, NoServer, Free
<1>8. CASE UNCHANGED vars
  BY <1>8 DEF vars
<1> QED
  BY <1>1, <1>2, <1>3, <1>4, <1>5, <1>6, <1>7, <1>8 DEF Next

-----------------------------------------------------------------------------
\* A data directory that nobody serves, or that one controller serves.
LEMMA InitIndInv == Init => IndInv
<1> SUFFICES ASSUME Init PROVE IndInv
  OBVIOUS
<1> DEFINE first == CHOOSE p \in Procs : \A q \in Procs : p <= q
<1>1. first \in Procs
  <2>1. \E p \in Procs : \A q \in Procs : p <= q
    BY IdAssumption, LeastId
  <2> QED
    BY <2>1, Zenon
<1> HIDE DEF first
<1>2. PICK running \in BOOLEAN, mgr \in BOOLEAN :
        /\ srv = [p \in Procs |->
                    IF running /\ p = first
                    THEN [NoServer EXCEPT !.pc = "serving", !.addr = DefaultAddr, !.mgr = mgr]
                    ELSE NoServer]
        /\ lock = IF running THEN first ELSE None
        /\ stateFile = lock /\ pidFile = lock
        /\ cfg = IF running THEN DefaultAddr ELSE None
        /\ unit = IF mgr THEN [file |-> DefaultAddr, state |-> "active"]
                  ELSE [file |-> None, state |-> "inactive"]
  BY DEF Init, first
<1>3. /\ pushing = {} /\ exe = "old" /\ cli = [c \in Cmds |-> NoCommand]
      /\ given = 0 /\ crashes = 0
  BY DEF Init
<1> USE NoneAssumption, AddrAssumption, BoundAssumption
<1>4. TypeOK
  <2>1. srv \in [Procs -> Servers]
    BY <1>1, <1>2 DEF Servers, NoServer, Alive, Owning
  <2>2. cli \in [Cmds -> Commands]
    BY <1>3 DEF Commands, NoCommand, AllKinds
  <2>3. unit \in Units
    BY <1>2 DEF Units
  <2> QED
    BY <1>1, <1>2, <1>3, <2>1, <2>2, <2>3 DEF TypeOK
<1>5. OneController
  BY <1>1, <1>2 DEF OneController, NoServer, Owning
<1>6. RunsWhatIsInstalled
  BY <1>2, <1>3 DEF RunsWhatIsInstalled, NoServer
<1> QED
  BY <1>3, <1>4, <1>5, <1>6 DEF IndInv, OneCurrentController, PushInv, CopyInv,
       NoCommand, NoServer

\* No step of a process, a command, systemd or an operator breaks the invariant.
LEMMA Invariance == Spec => []IndInv
<1>1. IndInv /\ [Next]_vars => IndInv'
  <2> SUFFICES ASSUME IndInv, [Next]_vars PROVE IndInv'
    OBVIOUS
  <2>1. TypeOK'
    BY ServerTypeStep, CommandTypeStep, FileTypeStep DEF FilesTyped, TypeOK
  <2> QED
    BY <2>1, OwnerStep, PushStep, BinaryStep, CopyStep DEF IndInv, OneCurrentController
<1> QED
  BY InitIndInv, <1>1, PTL DEF Spec

\* There is one controller at most, it holds the lock of the data directory, and
\* it runs the binary that is on disk.
THEOREM ControllerIsUnique == Spec => []OneCurrentController
BY Invariance, PTL DEF IndInv

\* A controller takes over running deployments only when nobody executes one,
\* or a process does that found its port blocked and is about to be gone.
THEOREM RecoveryComesAfterDrain == Spec => RecoveryIsExclusive
<1> DEFINE Step == \A p \in Procs :
       srv[p].pc = "locked" /\ srv'[p].pc = "recovered"
       => \A q \in pushing : /\ srv[q].pc = "released"
                             /\ srv[q].err /\ srv[q].addr \in Foreign
<1> USE NoneAssumption DEF IndInv, OneCurrentController, OneController, PushInv,
     TypeOK, Servers, Alive, Owning
<1>1. ASSUME IndInv, NEW p \in Procs, ServerStep(p) PROVE Step
  <2>1. CASE Acquire(p)
    BY GoneIsDead, <1>1, <2>1 DEF Acquire, LockHeld, GiveUp, UnitAfterExit
  <2>2. CASE Recover(p)
    BY <1>1, <2>2 DEF Recover, saveRuntimeConfig
  <2>3. CASE saveRuntimeState(p)
    BY <1>1, <2>3 DEF saveRuntimeState
  <2>4. CASE Listen(p)
    BY <1>1, <2>4 DEF Listen, warnIfPortBlocked
  <2>5. CASE CloseListener(p)
    BY <1>1, <2>5 DEF CloseListener
  <2>6. CASE WaitAndCleanup(p)
    BY <1>1, <2>6 DEF WaitAndCleanup, Drained
  <2>7. CASE Exit(p)
    BY GoneIsDead, <1>1, <2>7 DEF Exit, UnitAfterExit
  <2>8. CASE NotifyContext(p)
    BY <1>1, <2>8 DEF NotifyContext
  <2>9. CASE Release(p)
    BY <1>1, <2>9 DEF Release
  <2> QED
    BY <1>1, <2>1, <2>2, <2>3, <2>4, <2>5, <2>6, <2>7, <2>8,
         <2>9 DEF ServerStep
<1>2. ASSUME IndInv, NEW p \in Procs, Push(p) \/ Crash(p) PROVE Step
  BY GoneIsDead, <1>2 DEF Push, Crash
<1>3. ASSUME IndInv, NEW c \in Cmds, CommandStep(c) PROVE Step
  <2>1. CASE Read(c)
    BY <1>3, <2>1 DEF Read
  <2>2. CASE Probe(c)
    BY <1>3, <2>2 DEF Probe, WhenRunning, WhenStopped, Done
  <2>3. CASE Download(c)
    BY <1>3, <2>3 DEF Download, Goto, Done
  <2>4. CASE postControl(c)
    BY <1>3, <2>4 DEF postControl, Listener, Listening, shutdownServer, Goto,
         Done
  <2>5. CASE WaitDown(c)
    BY <1>3, <2>5 DEF WaitDown, AfterStop, Goto, Done
  <2>6. CASE RemoveState(c)
    BY <1>3, <2>6 DEF RemoveState, Done
  <2>7. CASE startDetachedServer(c)
    BY <1>3, <2>7, NextIdIsFree DEF startDetachedServer, Last, saveRuntimeConfig,
         Spawned, NoServer, Free, Goto
  <2>8. CASE WaitUp(c)
    BY <1>3, <2>8 DEF WaitUp, Done
  <2>9. CASE scheduleBinarySwap(c)
    BY <1>3, <2>9 DEF scheduleBinarySwap, restartStrategyCommand
  <2>10. CASE SwapBinary(c)
    BY <1>3, <2>10 DEF SwapBinary, TextBusy, Goto, Done
  <2>11. CASE RestartAfterSwap(c)
    BY <1>3, <2>11 DEF RestartAfterSwap, Last, Goto, Done
  <2>12. CASE SystemctlStop(c)
    BY GoneIsDead, <1>3, <2>12
       DEF SystemctlStop, Main, Signalled, shutdownServer, Goto
  <2>13. CASE SystemctlStopped(c)
    BY <1>3, <2>13 DEF SystemctlStopped, Last, Goto, Done
  <2>14. CASE enableNativeAutostart(c)
    BY <1>3, <2>14 DEF enableNativeAutostart, Last, saveRuntimeConfig, Goto
  <2>15. CASE SystemctlStart(c)
    BY <1>3, <2>15 DEF SystemctlStart, Done
  <2>16. CASE Copied(c)
    BY <1>3, <2>16 DEF Copied, Goto, Done
  <2> QED
    BY <1>3, <2>1, <2>2, <2>3, <2>4, <2>5, <2>6, <2>7, <2>8, <2>9, <2>10, <2>11,
         <2>12, <2>13, <2>14, <2>15, <2>16 DEF CommandStep
<1>4. ASSUME IndInv, NEW c \in Cmds, Operator(c) PROVE Step
  BY <1>4 DEF Operator, runStart, runRestart, runEnableAutostart, runSetPort,
       saveRuntimeConfig, runUpdate, handleSystemUpdate, runStop,
       runDisableAutostart, runReloadConfig, Give
<1>5. ASSUME IndInv, Reboot PROVE Step
  BY GoneIsDead, <1>5 DEF Reboot
<1>6. ASSUME IndInv, Activate PROVE Step
  BY <1>6, NextIdIsFree DEF Activate, Spawned, NoServer, Free
<1>7. ASSUME IndInv, UNCHANGED vars PROVE Step
  BY <1>7 DEF vars
<1>8. IndInv /\ [Next]_vars => [Step]_vars
  BY <1>1, <1>2, <1>3, <1>4, <1>5, <1>6, <1>7 DEF Next
<1> QED
  BY <1>8, Invariance, PTL DEF Spec, RecoveryIsExclusive

\* Only a stop removes the state file of a controller on its way up or at work.
THEOREM StateFileIsKept == Spec => OnlyStopUnpublishes
<1> DEFINE Step == \A p \in Procs :
       /\ stateFile = p
       /\ srv[p].pc \in {"stated", "published", "starting", "halting",
                        "serving", "stopping"}
       => \/ stateFile' = p
          \/ \E c \in Cmds : cli[c].pc = "remove" /\ cli'[c].pc # "remove"
<1> USE NoneAssumption DEF IndInv, OneCurrentController, OneController, PushInv,
     TypeOK, Servers, Alive, Owning
<1>1. ASSUME IndInv, NEW p \in Procs, ServerStep(p) PROVE Step
  <2>1. CASE Acquire(p)
    BY GoneIsDead, <1>1, <2>1 DEF Acquire, LockHeld, GiveUp, UnitAfterExit
  <2>2. CASE Recover(p)
    BY <1>1, <2>2 DEF Recover, saveRuntimeConfig
  <2>3. CASE saveRuntimeState(p)
    BY <1>1, <2>3 DEF saveRuntimeState
  <2>4. CASE Listen(p)
    BY <1>1, <2>4 DEF Listen, warnIfPortBlocked
  <2>5. CASE CloseListener(p)
    BY <1>1, <2>5 DEF CloseListener
  <2>6. CASE WaitAndCleanup(p)
    BY <1>1, <2>6 DEF WaitAndCleanup, Drained
  <2>7. CASE Exit(p)
    BY GoneIsDead, <1>1, <2>7 DEF Exit, UnitAfterExit
  <2>8. CASE NotifyContext(p)
    BY <1>1, <2>8 DEF NotifyContext
  <2>9. CASE Release(p)
    BY <1>1, <2>9 DEF Release
  <2> QED
    BY <1>1, <2>1, <2>2, <2>3, <2>4, <2>5, <2>6, <2>7, <2>8,
         <2>9 DEF ServerStep
<1>2. ASSUME IndInv, NEW p \in Procs, Push(p) \/ Crash(p) PROVE Step
  BY GoneIsDead, <1>2 DEF Push, Crash
<1>3. ASSUME IndInv, NEW c \in Cmds, CommandStep(c) PROVE Step
  <2>1. CASE Read(c)
    BY <1>3, <2>1 DEF Read
  <2>2. CASE Probe(c)
    BY <1>3, <2>2 DEF Probe, WhenRunning, WhenStopped, Done
  <2>3. CASE Download(c)
    BY <1>3, <2>3 DEF Download, Goto, Done
  <2>4. CASE postControl(c)
    BY <1>3, <2>4 DEF postControl, Listener, Listening, shutdownServer, Goto,
         Done
  <2>5. CASE WaitDown(c)
    BY <1>3, <2>5 DEF WaitDown, AfterStop, Goto, Done
  <2>6. CASE RemoveState(c)
    BY <1>3, <2>6 DEF RemoveState, Done, NoCommand
  <2>7. CASE startDetachedServer(c)
    BY <1>3, <2>7, NextIdIsFree DEF startDetachedServer, Last, saveRuntimeConfig,
         Spawned, NoServer, Free, Goto
  <2>8. CASE WaitUp(c)
    BY <1>3, <2>8 DEF WaitUp, Done
  <2>9. CASE scheduleBinarySwap(c)
    BY <1>3, <2>9 DEF scheduleBinarySwap, restartStrategyCommand
  <2>10. CASE SwapBinary(c)
    BY <1>3, <2>10 DEF SwapBinary, TextBusy, Goto, Done
  <2>11. CASE RestartAfterSwap(c)
    BY <1>3, <2>11 DEF RestartAfterSwap, Last, Goto, Done
  <2>12. CASE SystemctlStop(c)
    BY GoneIsDead, <1>3, <2>12
       DEF SystemctlStop, Main, Signalled, shutdownServer, Goto
  <2>13. CASE SystemctlStopped(c)
    BY <1>3, <2>13 DEF SystemctlStopped, Last, Goto, Done
  <2>14. CASE enableNativeAutostart(c)
    BY <1>3, <2>14 DEF enableNativeAutostart, Last, saveRuntimeConfig, Goto
  <2>15. CASE SystemctlStart(c)
    BY <1>3, <2>15 DEF SystemctlStart, Done
  <2>16. CASE Copied(c)
    BY <1>3, <2>16 DEF Copied, Goto, Done
  <2> QED
    BY <1>3, <2>1, <2>2, <2>3, <2>4, <2>5, <2>6, <2>7, <2>8, <2>9, <2>10, <2>11,
         <2>12, <2>13, <2>14, <2>15, <2>16 DEF CommandStep
<1>4. ASSUME IndInv, NEW c \in Cmds, Operator(c) PROVE Step
  BY <1>4 DEF Operator, runStart, runRestart, runEnableAutostart, runSetPort,
       saveRuntimeConfig, runUpdate, handleSystemUpdate, runStop,
       runDisableAutostart, runReloadConfig, Give
<1>5. ASSUME IndInv, Reboot PROVE Step
  BY GoneIsDead, <1>5 DEF Reboot
<1>6. ASSUME IndInv, Activate PROVE Step
  BY <1>6, NextIdIsFree DEF Activate, Spawned, NoServer, Free
<1>7. ASSUME IndInv, UNCHANGED vars PROVE Step
  BY <1>7 DEF vars
<1>8. IndInv /\ [Next]_vars => [Step]_vars
  BY <1>1, <1>2, <1>3, <1>4, <1>5, <1>6, <1>7 DEF Next
<1> QED
  BY <1>8, Invariance, PTL DEF Spec, OnlyStopUnpublishes

\* A controller shuts down for systemd, or for a command that read its own state
\* file.
THEOREM ShutdownReachesItsTarget == Spec => ShutdownIsAddressed
<1> DEFINE Step == \A p \in Procs :
       srv[p].pc = "serving" /\ srv'[p].pc = "stopping"
       => \/ unit'.state = "deactivating"
          \/ \E c \in Cmds : /\ cli[c].seen = p
                             /\ cli[c].pc = "post" /\ cli'[c].pc # "post"
<1> USE NoneAssumption DEF IndInv, OneCurrentController, OneController, PushInv,
     TypeOK, Servers, Alive, Owning, Units, Commands
<1>1. ASSUME IndInv, NEW p \in Procs, ServerStep(p) PROVE Step
  <2>1. CASE Acquire(p)
    BY GoneIsDead, <1>1, <2>1 DEF Acquire, LockHeld, GiveUp, UnitAfterExit
  <2>2. CASE Recover(p)
    BY <1>1, <2>2 DEF Recover, saveRuntimeConfig
  <2>3. CASE saveRuntimeState(p)
    BY <1>1, <2>3 DEF saveRuntimeState
  <2>4. CASE Listen(p)
    BY <1>1, <2>4 DEF Listen, warnIfPortBlocked
  <2>5. CASE CloseListener(p)
    BY <1>1, <2>5 DEF CloseListener
  <2>6. CASE WaitAndCleanup(p)
    BY <1>1, <2>6 DEF WaitAndCleanup, Drained
  <2>7. CASE Exit(p)
    BY GoneIsDead, <1>1, <2>7 DEF Exit, UnitAfterExit
  <2>8. CASE NotifyContext(p)
    BY <1>1, <2>8 DEF NotifyContext
  <2>9. CASE Release(p)
    BY <1>1, <2>9 DEF Release
  <2> QED
    BY <1>1, <2>1, <2>2, <2>3, <2>4, <2>5, <2>6, <2>7, <2>8,
         <2>9 DEF ServerStep
<1>2. ASSUME IndInv, NEW p \in Procs, Push(p) \/ Crash(p) PROVE Step
  <2>1. CASE Push(p)
    BY <1>2, <2>1 DEF Push
  <2>2. CASE Crash(p)
    <3>1. \A q \in Procs : srv'[q].pc = srv[q].pc \/ q = p
      BY GoneIsDead, <1>2, <2>2 DEF Crash
    <3>2. srv'[p].pc = "dead"
      BY GoneIsDead, <1>2, <2>2 DEF Crash
    <3> QED
      BY <3>1, <3>2
  <2> QED
    BY <1>2, <2>1, <2>2
<1>3. ASSUME IndInv, NEW c \in Cmds, CommandStep(c) PROVE Step
  <2>1. CASE Read(c)
    BY <1>3, <2>1 DEF Read
  <2>2. CASE Probe(c)
    BY <1>3, <2>2 DEF Probe, WhenRunning, WhenStopped, Done
  <2>3. CASE Download(c)
    BY <1>3, <2>3 DEF Download, Goto, Done
  <2>4. CASE postControl(c)
    BY <1>3, <2>4 DEF postControl, authorizeControlRequest, Listener,
         shutdownServer, Goto, Done, NoCommand
  <2>5. CASE WaitDown(c)
    BY <1>3, <2>5 DEF WaitDown, AfterStop, Goto, Done
  <2>6. CASE RemoveState(c)
    BY <1>3, <2>6 DEF RemoveState, Done
  <2>7. CASE startDetachedServer(c)
    BY <1>3, <2>7, NextIdIsFree DEF startDetachedServer, Last, saveRuntimeConfig,
         Spawned, NoServer, Free, Goto
  <2>8. CASE WaitUp(c)
    BY <1>3, <2>8 DEF WaitUp, Done
  <2>9. CASE scheduleBinarySwap(c)
    BY <1>3, <2>9 DEF scheduleBinarySwap, restartStrategyCommand
  <2>10. CASE SwapBinary(c)
    BY <1>3, <2>10 DEF SwapBinary, TextBusy, Goto, Done
  <2>11. CASE RestartAfterSwap(c)
    BY <1>3, <2>11 DEF RestartAfterSwap, Last, Goto, Done
  <2>12. CASE SystemctlStop(c)
    BY GoneIsDead, <1>3, <2>12
       DEF SystemctlStop, Main, Signalled, shutdownServer, Goto
  <2>13. CASE SystemctlStopped(c)
    BY <1>3, <2>13 DEF SystemctlStopped, Last, Goto, Done
  <2>14. CASE enableNativeAutostart(c)
    BY <1>3, <2>14 DEF enableNativeAutostart, Last, saveRuntimeConfig, Goto
  <2>15. CASE SystemctlStart(c)
    BY <1>3, <2>15 DEF SystemctlStart, Done
  <2>16. CASE Copied(c)
    BY <1>3, <2>16 DEF Copied, Goto, Done
  <2> QED
    BY <1>3, <2>1, <2>2, <2>3, <2>4, <2>5, <2>6, <2>7, <2>8, <2>9, <2>10, <2>11,
         <2>12, <2>13, <2>14, <2>15, <2>16 DEF CommandStep
<1>4. ASSUME IndInv, NEW c \in Cmds, Operator(c) PROVE Step
  BY <1>4 DEF Operator, runStart, runRestart, runEnableAutostart, runSetPort,
       saveRuntimeConfig, runUpdate, handleSystemUpdate, runStop,
       runDisableAutostart, runReloadConfig, Give
<1>5. ASSUME IndInv, Reboot PROVE Step
  BY GoneIsDead, <1>5 DEF Reboot
<1>6. ASSUME IndInv, Activate PROVE Step
  BY <1>6, NextIdIsFree DEF Activate, Spawned, NoServer, Free
<1>7. ASSUME IndInv, UNCHANGED vars PROVE Step
  BY <1>7 DEF vars
<1>8. IndInv /\ [Next]_vars => [Step]_vars
  BY <1>1, <1>2, <1>3, <1>4, <1>5, <1>6, <1>7 DEF Next
<1> QED
  BY <1>8, Invariance, PTL DEF Spec, ShutdownIsAddressed

=============================================================================
