-------------------------- MODULE SafeDeployProofs --------------------------
(***************************************************************************)
(* Proofs about safe-deploy.sh, for every set of invocations, releases and *)
(* projects.                                                               *)
(***************************************************************************)
EXTENDS SafeDeploy, TLAPS

\* Program points at which the flock is held, those before the swap is
\* recorded, and those after.
Working   == Trapped \cup {"locked", "prepared"}
BeforeSwap == {"stopping", "stopped", "swapping", "synced"}
AfterSwap  == {"swapped", "starting", "started", "healthy", "committed",
               "rollback", "unpacked", "restoring", "restored", "restarting",
               "restarted"}

\* Who works holds the flock, and only rsync works without its shell.
LockInv ==
    \A r \in Runs :
        /\ pc[r] \in Working <=> lock = r
        /\ r \in headless => pc[r] \in Syncing

\* The attempt file follows the run that holds the flock, and names one that
\* got that far.
PhaseInv ==
    /\ \A r \in Runs :
         /\ pc[r] \notin {"new", "done"} => release[r] \in Releases
         /\ pc[r] = "prepared" => attempt = [phase |-> "prepared", run |-> r]
         /\ pc[r] \in BeforeSwap => attempt = [phase |-> "stopping", run |-> r]
         /\ pc[r] \in AfterSwap => attempt = [phase |-> "swapped", run |-> r]
         /\ pc[r] = "ending" => attempt # Nil /\ attempt.run = r
    /\ attempt # Nil => pc[attempt.run] \notin {"new", "staged", "locked"}

\* A lifecycle script without a shell belongs to the attempt on file, which is
\* fenced; an acknowledged run is over; so nobody touches the service beside
\* such a script, and the server is down while files are replaced.
OrphanInv ==
    /\ \A r \in Runs :
         /\ ack[r] # Nil => pc[ack[r]] = "done" /\ ack[r] \notin orphan
         /\ r \in orphan => /\ pc[r] = "done"
                            /\ attempt # Nil /\ attempt.run = r
                            /\ attempt.phase \notin Terminal
         /\ pc[r] \in Working \ {"locked"} => orphan = {}
         /\ pc[r] \in {"stopped", "swapping", "unpacked", "restoring"} => server = Nil
    /\ server # Nil => pidfile

\* What the files and the archive hold at each point of a run.
TreeInv ==
    /\ \A r \in Runs :
         /\ pc[r] \in {"new", "staged", "locked", "prepared"} => backup[r] = Nil
         /\ pc[r] \in {"prepared", "stopping", "stopped"} => tree = found[r]
         /\ pc[r] \in {"prepared", "stopping", "stopped", "swapping", "restoring"} =>
              (state # Nil => state.project = ProjectOf[r])
         /\ pc[r] \in Syncing => tree = Torn
         /\ pc[r] \in {"synced", "swapped", "starting", "started", "healthy",
                       "committed", "rollback", "unpacked"} => tree = release[r]
         /\ pc[r] \in {"synced", "swapped", "starting", "started", "healthy",
                       "rollback", "unpacked"} => state = Nil
         /\ pc[r] = "committed" => state # Nil
         /\ pc[r] \in {"unpacked", "restoring"} => backup[r] # Nil
         /\ pc[r] \in {"restored", "restarting", "restarted"} =>
              r \in faulted \/ tree = found[r]
         /\ backup[r] # Nil =>
              /\ pc[r] \in Trapped => backup[r].tree = found[r]
              /\ backup[r].state # Nil =>
                   /\ backup[r].tree \in {backup[r].state.release, Torn}
                   /\ backup[r].state.project = ProjectOf[r]
    /\ orphan # {} /\ tree = Torn => Overlooked

\* The named parts of FilesTellTheTruth beside the types and NoOpIsSound, which
\* follows.
FilesInv ==
    /\ TornIsFenced /\ StateIsInstalled
    /\ CompletedIsInstalled /\ PreviousIsBackIfSynced

IndInv == LockInv /\ PhaseInv /\ OrphanInv /\ TreeInv /\ FilesTellTheTruth

-----------------------------------------------------------------------------
\* The flock passes only through Lock, the end of a shell and a reboot.
LEMMA LockStep == TypeOK /\ LockInv /\ [Next]_vars => LockInv'
<1> SUFFICES ASSUME TypeOK, LockInv, [Next]_vars PROVE LockInv'
  OBVIOUS
<1> USE NilAssumption, FileAssumption, ProjectAssumption DEF TypeOK, LockInv,
      Working, Trapped, Points, Syncing, Hooking
<1>1. ASSUME NEW r \in Runs, NEW v \in Releases, Stage(r, v) PROVE LockInv'
  BY <1>1 DEF Stage, At, fileVars, history
<1>2. ASSUME NEW r \in Runs, Deploy(r) PROVE LockInv'
  BY <1>2 DEF Deploy, Lock, GiveUp, Refuse, Prepare, Backup, PrestopBlocks, Stop,
       StopFails, SwapBegins, SwapEnds, MarkSwapped, StartHook, StartOk,
       StartFails, StartBlocked, HealthCheck, CommitState, Complete, Finish, At,
       Exit, EndWith, StopSucceeds, SyncBegins, RunHook, LockFree, write_attempt,
       HookEffect, Foreign, Fenced, fileVars, history
<1>3. ASSUME NEW r \in Runs, Recover(r) PROVE LockInv'
  BY <1>3 DEF Recover, RollbackFails, RollbackStop, RestoreBegins, RestoreRecord,
       RestoreEnds, RestoreFaultIgnored, RestoreHook, RestoreStarts, RestoreHookFails,
       RolledBack, At, Exit, EndWith, StopSucceeds, SyncBegins, RunHook,
       write_attempt, HookEffect, shellVars, fileVars, history
<1>4. ASSUME NEW r \in Runs, Interrupt(r) PROVE LockInv'
  BY <1>4 DEF Interrupt, Signal, Die, DieSyncing, HeadlessEnds, OrphanEnds, Exit,
       write_attempt, HookEffect, shellVars, fileVars, history
<1>5. CASE ServerExits \/ Reboot \/ OperatorStarts \/ UNCHANGED vars
  BY <1>5 DEF ServerExits, Reboot, OperatorStarts, vars, shellVars, fileVars, history
<1> QED
  BY <1>1, <1>2, <1>3, <1>4, <1>5 DEF Next

\* The types of everything.
LEMMA TypeStep == 
   TypeOK /\ LockInv /\ PhaseInv /\ TreeInv /\ [Next]_vars => TypeOK'
<1> SUFFICES ASSUME TypeOK, LockInv, PhaseInv, TreeInv, [Next]_vars
             PROVE TypeOK'
  OBVIOUS
<1> USE ProjectAssumption DEF TypeOK, PhaseInv, TreeInv, Trees, States,
      Archives, Attempts, Terminal, Open, BeforeSwap, AfterSwap, Working,
      Trapped, Points, Syncing, Hooking, shellVars, fileVars, history
<1>1. ASSUME NEW r \in Runs, NEW v \in Releases, Stage(r, v) PROVE TypeOK'
  BY <1>1 DEF Stage, At
<1>2. ASSUME NEW r \in Runs, Deploy(r) PROVE TypeOK'
  <2>1. CASE Lock(r)
    BY <2>1 DEF Lock, At, LockFree
  <2>2. CASE GiveUp(r)
    BY <2>2 DEF GiveUp, Exit, LockFree
  <2>3. CASE Refuse(r)
    BY <2>3 DEF Refuse, Exit
  <2>4. CASE Prepare(r)
    BY <2>4 DEF Prepare, At, write_attempt
  <2>5. CASE Backup(r)
    BY <2>5 DEF Backup, At, write_attempt
  <2>6. CASE PrestopBlocks(r)
    BY <2>6 DEF PrestopBlocks, EndWith, write_attempt
  <2>7. CASE Stop(r)
    BY <2>7 DEF Stop, StopSucceeds, At
  <2>8. CASE StopFails(r)
    BY <2>8 DEF StopFails, EndWith, write_attempt
  <2>9. CASE SwapBegins(r)
    BY <2>9 DEF SwapBegins, SyncBegins, At
  <2>10. CASE SwapEnds(r)
    BY <2>10 DEF SwapEnds, At
  <2>11. CASE MarkSwapped(r)
    BY <2>11 DEF MarkSwapped, At, write_attempt
  <2>12. CASE StartHook(r)
    BY <2>12 DEF StartHook, RunHook, At
  <2>13. CASE StartOk(r)
    BY <2>13 DEF StartOk, At
  <2>14. CASE StartFails(r)
    BY <2>14 DEF StartFails, At, HookEffect
  <2>15. CASE StartBlocked(r)
    BY <2>15 DEF StartBlocked, At, HookEffect, write_attempt
  <2>16. CASE HealthCheck(r)
    BY <2>16 DEF HealthCheck, RunHook, At
  <2>17. CASE CommitState(r)
    BY <2>17 DEF CommitState, At
  <2>18. CASE Complete(r)
    BY <2>18 DEF Complete, EndWith, write_attempt
  <2>19. CASE Finish(r)
    BY <2>19 DEF Finish, Exit
  <2> QED
    BY <1>2, <2>1, <2>2, <2>3, <2>4, <2>5, <2>6, <2>7, <2>8, <2>9, <2>10, <2>11,
          <2>12, <2>13, <2>14, <2>15, <2>16, <2>17, <2>18, <2>19 DEF Deploy
<1>3. ASSUME NEW r \in Runs, Recover(r) PROVE TypeOK'
  <2>1. CASE RollbackFails(r)
    BY <2>1 DEF RollbackFails, EndWith, write_attempt
  <2>2. CASE RollbackStop(r)
    BY <2>2 DEF RollbackStop, StopSucceeds, At
  <2>3. CASE RestoreBegins(r)
    BY <2>3 DEF RestoreBegins, SyncBegins, At
  <2>4. CASE RestoreEnds(r)
    BY <2>4 DEF RestoreEnds, At
  <2>5. CASE RestoreFaultIgnored(r)
    BY <2>5 DEF RestoreFaultIgnored, At
  <2>6. CASE RestoreHook(r)
    BY <2>6 DEF RestoreHook, RunHook, At
  <2>7. CASE RestoreStarts(r)
    BY <2>7 DEF RestoreStarts, At
  <2>8. CASE RestoreHookFails(r)
    BY <2>8 DEF RestoreHookFails, At, HookEffect, write_attempt
  <2>9. CASE RolledBack(r)
    BY <2>9 DEF RolledBack, EndWith, write_attempt
  <2>10. CASE RestoreRecord(r)
    BY <2>10 DEF RestoreRecord
  <2> QED
    BY <1>3, <2>1, <2>2, <2>3, <2>4, <2>5, <2>6, <2>7, <2>8, <2>9, <2>10 DEF Recover
<1>4. ASSUME NEW r \in Runs, Interrupt(r) PROVE TypeOK'
  <2>1. CASE Signal(r)
    BY <2>1 DEF Signal, Exit, write_attempt
  <2>2. CASE Die(r)
    BY <2>2 DEF Die, Exit
  <2>3. CASE DieSyncing(r)
    BY <2>3 DEF DieSyncing, Exit
  <2>4. CASE OrphanEnds(r)
    BY <2>4 DEF OrphanEnds, HookEffect
  <2>5. CASE HeadlessEnds(r)
    BY <2>5 DEF HeadlessEnds, Exit
  <2> QED
    BY <1>4, <2>1, <2>2, <2>3, <2>4, <2>5 DEF Interrupt
<1>5. CASE ServerExits
  BY <1>5 DEF ServerExits
<1>6. CASE Reboot
  BY <1>6 DEF Reboot
<1>7. CASE OperatorStarts
  BY <1>7 DEF OperatorStarts
<1>8. CASE UNCHANGED vars
  BY <1>8 DEF vars
<1> QED
  BY <1>1, <1>2, <1>3, <1>4, <1>5, <1>6, <1>7, <1>8 DEF Next

\* Only who holds the flock writes the attempt file.
LEMMA PhaseStep == TypeOK /\ LockInv /\ PhaseInv /\ [Next]_vars => PhaseInv'
<1> SUFFICES ASSUME TypeOK, LockInv, PhaseInv, [Next]_vars PROVE PhaseInv'
  OBVIOUS
<1> USE NilAssumption, FileAssumption, ProjectAssumption DEF TypeOK, LockInv,
      PhaseInv, Attempts, Terminal, Open, BeforeSwap, AfterSwap, Working,
      Trapped, Points, Syncing, Hooking
<1>1. ASSUME NEW r \in Runs, NEW v \in Releases, Stage(r, v) PROVE PhaseInv'
  BY <1>1 DEF Stage, At, fileVars, history
<1>2. ASSUME NEW r \in Runs, Deploy(r) PROVE PhaseInv'
  BY <1>2 DEF Deploy, Lock, GiveUp, Refuse, Prepare, Backup, PrestopBlocks, Stop,
       StopFails, SwapBegins, SwapEnds, MarkSwapped, StartHook, StartOk,
       StartFails, StartBlocked, HealthCheck, CommitState, Complete, Finish, At,
       Exit, EndWith, StopSucceeds, SyncBegins, RunHook, LockFree, write_attempt,
       HookEffect, Foreign, Fenced, fileVars, history
<1>3. ASSUME NEW r \in Runs, Recover(r) PROVE PhaseInv'
  BY <1>3 DEF Recover, RollbackFails, RollbackStop, RestoreBegins, RestoreRecord,
       RestoreEnds, RestoreFaultIgnored, RestoreHook, RestoreStarts, RestoreHookFails,
       RolledBack, At, Exit, EndWith, StopSucceeds, SyncBegins, RunHook,
       write_attempt, HookEffect, shellVars, fileVars, history
<1>4. ASSUME NEW r \in Runs, Interrupt(r) PROVE PhaseInv'
  BY <1>4 DEF Interrupt, Signal, Die, DieSyncing, HeadlessEnds, OrphanEnds, Exit,
       write_attempt, HookEffect, shellVars, fileVars, history
<1>5. CASE ServerExits \/ Reboot \/ OperatorStarts \/ UNCHANGED vars
  BY <1>5 DEF ServerExits, Reboot, OperatorStarts, vars, shellVars, fileVars, history
<1> QED
  BY <1>1, <1>2, <1>3, <1>4, <1>5 DEF Next

\* A run that gets past the fence finds no script of an earlier run at work.
LEMMA OrphanStep == 
   TypeOK /\ LockInv /\ PhaseInv /\ OrphanInv /\ [Next]_vars => OrphanInv'
<1> SUFFICES ASSUME TypeOK, LockInv, PhaseInv, OrphanInv, [Next]_vars
             PROVE OrphanInv'
  OBVIOUS
<1> USE NilAssumption, FileAssumption, ProjectAssumption DEF TypeOK, LockInv,
      PhaseInv, OrphanInv, Attempts, BeforeSwap, AfterSwap, Terminal, Open,
      Trees, Working, Trapped, Points, Syncing, Hooking
<1>1. ASSUME NEW r \in Runs, NEW v \in Releases, Stage(r, v) PROVE OrphanInv'
  BY <1>1 DEF Stage, At, fileVars, history
<1>2. ASSUME NEW r \in Runs, Deploy(r) PROVE OrphanInv'
  <2> USE DEF At, Exit, EndWith, write_attempt, fileVars, history
  <2>1. CASE Lock(r) \/ GiveUp(r) \/ Refuse(r) \/ Finish(r)
    BY <2>1 DEF Lock, GiveUp, Refuse, Finish, LockFree
  <2>2. CASE Prepare(r)
    BY <2>2 DEF Prepare, Foreign, Fenced
  <2>3. CASE Backup(r) \/ PrestopBlocks(r) \/ Stop(r) \/ StopFails(r)
    BY <2>3 DEF Backup, PrestopBlocks, Stop, StopFails, StopSucceeds, HookEffect
  <2>4. CASE SwapBegins(r) \/ SwapEnds(r) \/ MarkSwapped(r)
    BY <2>4 DEF SwapBegins, SwapEnds, MarkSwapped, SyncBegins
  <2>5. CASE StartHook(r)
    BY <2>5 DEF StartHook, RunHook, HookEffect
  <2>6. CASE StartOk(r) \/ StartFails(r)
    BY <2>6 DEF StartOk, StartFails, HookEffect
  <2>7. CASE StartBlocked(r)
    BY <2>7 DEF StartBlocked, HookEffect
  <2>8. CASE HealthCheck(r)
    <3>1. CASE RunHook("started", "healthy", r)
      BY <3>1 DEF RunHook
    <3>2. CASE RunHook("started", "rollback", r)
      BY <3>2 DEF RunHook
    <3> QED
      BY <2>8, <3>1, <3>2 DEF HealthCheck
  <2>9. CASE CommitState(r)
    BY <2>9 DEF CommitState
  <2>10. CASE Complete(r)
    BY <2>10 DEF Complete
  <2> QED
    BY <1>2, <2>1, <2>2, <2>3, <2>4, <2>5, <2>6, <2>7, <2>8, <2>9, <2>10
       DEF Deploy
<1>3. ASSUME NEW r \in Runs, Recover(r) PROVE OrphanInv'
  BY <1>3 DEF Recover, RollbackFails, RollbackStop, RestoreBegins, RestoreRecord,
       RestoreEnds, RestoreFaultIgnored, RestoreHook, RestoreStarts, RestoreHookFails,
       RolledBack, At, Exit, EndWith, StopSucceeds, SyncBegins, RunHook,
       write_attempt, HookEffect, shellVars, fileVars, history
<1>4. ASSUME NEW r \in Runs, Interrupt(r) PROVE OrphanInv'
  BY <1>4 DEF Interrupt, Signal, Die, DieSyncing, HeadlessEnds, OrphanEnds, Exit,
       write_attempt, HookEffect, shellVars, fileVars, history
<1>5. CASE ServerExits \/ Reboot \/ OperatorStarts \/ UNCHANGED vars
  BY <1>5 DEF ServerExits, Reboot, OperatorStarts, vars, shellVars, fileVars, history
<1> QED
  BY <1>1, <1>2, <1>3, <1>4, <1>5 DEF Next

\* What a run knows of the files stays true while it holds the flock.
LEMMA TreeStep == 
   TypeOK /\ LockInv /\ PhaseInv /\ OrphanInv /\ OrphanInv' /\ TreeInv /\ StateIsInstalled
   /\ [Next]_vars => TreeInv'
<1> SUFFICES ASSUME TypeOK, LockInv, PhaseInv, OrphanInv, OrphanInv', TreeInv,
                    StateIsInstalled, [Next]_vars
             PROVE TreeInv'
  OBVIOUS
<1> USE NilAssumption, FileAssumption, ProjectAssumption DEF TypeOK, LockInv,
      PhaseInv, OrphanInv, TreeInv, StateIsInstalled, Overlooked, Attempts,
      Terminal, Open, States, Archives, BeforeSwap, AfterSwap, Working, Trapped,
      Points, Syncing, Hooking
<1>1. ASSUME NEW r \in Runs, NEW v \in Releases, Stage(r, v) PROVE TreeInv'
  BY <1>1 DEF Stage, At, fileVars, history
<1>2. ASSUME NEW r \in Runs, Deploy(r) PROVE TreeInv'
  BY <1>2 DEF Deploy, Lock, GiveUp, Refuse, Prepare, Backup, PrestopBlocks, Stop,
       StopFails, SwapBegins, SwapEnds, MarkSwapped, StartHook, StartOk,
       StartFails, StartBlocked, HealthCheck, CommitState, Complete, Finish, At,
       Exit, EndWith, StopSucceeds, SyncBegins, RunHook, LockFree, write_attempt,
       HookEffect, Foreign, Fenced, fileVars, history
<1>3. ASSUME NEW r \in Runs, Recover(r) PROVE TreeInv'
  BY <1>3 DEF Recover, RollbackFails, RollbackStop, RestoreBegins, RestoreRecord,
       RestoreEnds, RestoreFaultIgnored, RestoreHook, RestoreStarts, RestoreHookFails,
       RolledBack, At, Exit, EndWith, StopSucceeds, SyncBegins, RunHook,
       write_attempt, HookEffect, shellVars, fileVars, history
<1>4. ASSUME NEW r \in Runs, Interrupt(r) PROVE TreeInv'
  BY <1>4 DEF Interrupt, Signal, Die, DieSyncing, HeadlessEnds, OrphanEnds, Exit,
       write_attempt, HookEffect, shellVars, fileVars, history
<1>5. CASE ServerExits \/ Reboot \/ OperatorStarts \/ UNCHANGED vars
  BY <1>5 DEF ServerExits, Reboot, OperatorStarts, vars, shellVars, fileVars, history
<1> QED
  BY <1>1, <1>2, <1>3, <1>4, <1>5 DEF Next

\* What the files say stays true.
LEMMA FilesStep == 
   TypeOK /\ LockInv /\ PhaseInv /\ OrphanInv /\ TreeInv /\ FilesInv /\ [Next]_vars
   => FilesInv'
<1> SUFFICES ASSUME TypeOK, LockInv, PhaseInv, OrphanInv, TreeInv, FilesInv, [Next]_vars
             PROVE FilesInv'
  OBVIOUS
<1> USE NilAssumption, FileAssumption, ProjectAssumption DEF FilesInv, TypeOK, LockInv,
      PhaseInv, OrphanInv, TreeInv, TornIsFenced, Overlooked, StateIsInstalled,
      CompletedIsInstalled, PreviousIsBackIfSynced, Attempts, Terminal, Open,
      States, Archives, BeforeSwap, AfterSwap, Working, Trapped, Points,
      Syncing, Hooking
<1>1. ASSUME NEW r \in Runs, NEW v \in Releases, Stage(r, v) PROVE FilesInv'
  BY <1>1 DEF Stage, At, fileVars, history
<1>2. ASSUME NEW r \in Runs, Deploy(r) PROVE FilesInv'
  <2>1. CASE Lock(r) \/ GiveUp(r) \/ Refuse(r) \/ Finish(r)
    BY <2>1 DEF Lock, GiveUp, Refuse, Finish, At, Exit, LockFree, fileVars, history
  <2>2. CASE Prepare(r)
    BY <2>2 DEF Prepare, At, write_attempt
  <2>3. CASE Backup(r) \/ MarkSwapped(r)
    BY <2>3 DEF Backup, MarkSwapped, At, write_attempt, history
  <2>4. CASE PrestopBlocks(r) \/ StopFails(r)
    BY <2>4 DEF PrestopBlocks, StopFails, EndWith, write_attempt, history
  <2>5. CASE Complete(r)
    BY <2>5 DEF Complete, EndWith, write_attempt, history
  <2>6. CASE Stop(r) \/ StartHook(r) \/ HealthCheck(r)
    BY <2>6 DEF Stop, StopSucceeds, StartHook, HealthCheck, RunHook, At, fileVars, history
  <2>7. CASE SwapBegins(r) \/ SwapEnds(r)
    BY <2>7 DEF SwapBegins, SwapEnds, SyncBegins, At, history
  <2>8. CASE StartOk(r) \/ StartFails(r) \/ StartBlocked(r)
    BY <2>8 DEF StartOk, StartFails, StartBlocked, HookEffect, write_attempt, At, history
  <2>9. CASE CommitState(r)
    BY <2>9 DEF CommitState, At, history
  <2> QED
    BY <1>2, <2>1, <2>2, <2>3, <2>4, <2>5, <2>6, <2>7, <2>8, <2>9 DEF Deploy
<1>3. ASSUME NEW r \in Runs, Recover(r) PROVE FilesInv'
  BY <1>3 DEF Recover, RollbackFails, RollbackStop, RestoreBegins, RestoreRecord,
       RestoreEnds, RestoreFaultIgnored, RestoreHook, RestoreStarts, RestoreHookFails,
       RolledBack, At, Exit, EndWith, StopSucceeds, SyncBegins, RunHook,
       write_attempt, HookEffect, shellVars, fileVars, history
<1>4. ASSUME NEW r \in Runs, Interrupt(r) PROVE FilesInv'
  BY <1>4 DEF Interrupt, Signal, Die, DieSyncing, HeadlessEnds, OrphanEnds, Exit,
       write_attempt, HookEffect, shellVars, fileVars, history
<1>5. CASE ServerExits \/ Reboot \/ OperatorStarts \/ UNCHANGED vars
  BY <1>5 DEF ServerExits, Reboot, OperatorStarts, vars, shellVars, fileVars, history
<1> QED
  BY <1>1, <1>2, <1>3, <1>4, <1>5 DEF Next

\* The no-op needs a live server, and a torn tree is down unless Overlooked.
LEMMA NoOp == TornIsFenced /\ StateIsInstalled => NoOpIsSound
BY DEF TornIsFenced, StateIsInstalled, NoOpIsSound, CurrentReleaseMatches

-----------------------------------------------------------------------------
\* An instance that was never deployed to, or by other means, is consistent.
LEMMA InitIndInv == Init => IndInv
<1> SUFFICES ASSUME Init PROVE IndInv
  OBVIOUS
<1> USE NilAssumption DEF Init
<1>1. TypeOK
  BY DEF TypeOK, Points, Trees
<1>2. LockInv /\ OrphanInv
  BY DEF LockInv, OrphanInv, Working, Trapped
<1>3. PhaseInv /\ TreeInv
  BY DEF PhaseInv, TreeInv, BeforeSwap, AfterSwap, Trapped, Syncing
<1>4. FilesTellTheTruth
  BY <1>1, NoOp DEF FilesTellTheTruth, TornIsFenced, StateIsInstalled,
       CompletedIsInstalled, PreviousIsBackIfSynced
<1> QED
  BY <1>2, <1>3, <1>4 DEF IndInv

\* No step of any invocation, node or operator breaks the invariant.
LEMMA Invariance == Spec => []IndInv
<1>1. IndInv /\ [Next]_vars => IndInv'
  <2> SUFFICES ASSUME IndInv, [Next]_vars PROVE IndInv'
    OBVIOUS
  <2>1. TypeOK /\ LockInv /\ PhaseInv /\ OrphanInv /\ TreeInv /\ FilesTellTheTruth
    BY DEF IndInv, FilesTellTheTruth
  <2>2. TypeOK' /\ LockInv' /\ PhaseInv'
    BY <2>1, TypeStep, LockStep, PhaseStep
  <2>3. OrphanInv' /\ TreeInv'
    BY <2>1, OrphanStep, TreeStep DEF FilesTellTheTruth
  <2>4. FilesInv'
    BY <2>1, FilesStep DEF FilesTellTheTruth, FilesInv
  <2>5. NoOpIsSound'
    BY <2>4, NoOp, PTL DEF FilesInv
  <2>6. FilesTellTheTruth'
    BY <2>2, <2>4, <2>5 DEF FilesTellTheTruth, FilesInv
  <2> QED
    BY <2>2, <2>3, <2>6 DEF IndInv
<1> QED
  BY InitIndInv, <1>1, PTL DEF Spec

\* What the state and attempt files of an instance say of its release files is
\* true, whatever runs were killed, blocked or rolled back there.
THEOREM FilesAreTrue == Spec => []FilesTellTheTruth
BY Invariance, PTL DEF IndInv

\* No file is replaced under a running game server, not even one that a start
\* script of an earlier run brings up late.
THEOREM SwapsWhileStopped == Spec => []SwapWhileStopped
<1>1. IndInv => SwapWhileStopped
  BY DEF IndInv, OrphanInv, SwapWhileStopped, Syncing
<1> QED
  BY <1>1, Invariance, PTL

\* While rsync replaces the files nobody else works on the instance, also when
\* the shell that started it was killed.
THEOREM RsyncIsAlone == Spec => []NobodyInterferes
<1>1. IndInv => NobodyInterferes
  <2> SUFFICES ASSUME IndInv, NEW r \in Runs, pc[r] \in Syncing
               PROVE  orphan = {} /\ \A s \in Runs \ {r} : pc[s] \in {"new", "staged", "done"}
    BY DEF NobodyInterferes
  <2>1. orphan = {} /\ lock = r
    BY DEF IndInv, OrphanInv, LockInv, Working, Trapped, Syncing
  <2>2. \A s \in Runs \ {r} : pc[s] \in Points \ Working
    BY <2>1 DEF IndInv, LockInv, FilesTellTheTruth, TypeOK
  <2> QED
    BY <2>1, <2>2 DEF Working, Points
<1> QED
  BY <1>1, Invariance, PTL

\* Release files change only under an attempt file that says so, by the run that
\* holds the flock, for the project that owns the installation.
THEOREM WritesAhead == Spec => WriteAhead
<1> DEFINE Step == (tree' # tree =>
      /\ attempt # Nil /\ attempt.run = lock /\ attempt.phase \in {"stopping", "swapped"}
      /\ state # Nil => ProjectOf[lock] = state.project)
<1> USE NilAssumption, FileAssumption, ProjectAssumption DEF IndInv,
      FilesTellTheTruth, TypeOK, LockInv, PhaseInv, TreeInv, Attempts, Terminal,
      Open, States, Archives, BeforeSwap, AfterSwap, Working, Trapped, Points,
      Syncing, Hooking
<1>1. ASSUME IndInv, NEW r \in Runs, NEW v \in Releases, Stage(r, v) PROVE Step
  BY <1>1 DEF Stage, At, fileVars, history
<1>2. ASSUME IndInv, NEW r \in Runs, Deploy(r) PROVE Step
  BY <1>2 DEF Deploy, Lock, GiveUp, Refuse, Prepare, Backup, PrestopBlocks, Stop,
       StopFails, SwapBegins, SwapEnds, MarkSwapped, StartHook, StartOk,
       StartFails, StartBlocked, HealthCheck, CommitState, Complete, Finish, At,
       Exit, EndWith, StopSucceeds, SyncBegins, RunHook, LockFree, write_attempt,
       HookEffect, Foreign, Fenced, fileVars, history
<1>3. ASSUME IndInv, NEW r \in Runs, Recover(r) PROVE Step
  BY <1>3 DEF Recover, RollbackFails, RollbackStop, RestoreBegins, RestoreRecord,
       RestoreEnds, RestoreFaultIgnored, RestoreHook, RestoreStarts, RestoreHookFails,
       RolledBack, At, Exit, EndWith, StopSucceeds, SyncBegins, RunHook,
       write_attempt, HookEffect, shellVars, fileVars, history
<1>4. ASSUME IndInv, NEW r \in Runs, Interrupt(r) PROVE Step
  BY <1>4 DEF Interrupt, Signal, Die, DieSyncing, HeadlessEnds, OrphanEnds, Exit,
       write_attempt, HookEffect, shellVars, fileVars, history
<1>5. ASSUME IndInv, ServerExits \/ Reboot \/ OperatorStarts \/ UNCHANGED vars PROVE Step
  BY <1>5 DEF ServerExits, Reboot, OperatorStarts, vars, shellVars, fileVars, history
<1>6. IndInv /\ [Next]_vars => Step
  BY <1>1, <1>2, <1>3, <1>4, <1>5 DEF Next
<1>7. IndInv /\ [Next]_vars => [Step]_vars
  BY <1>6
<1> QED
  BY <1>7, Invariance, PTL DEF Spec, WriteAhead

\* Only a run that an operator told to acknowledge it takes over an attempt that
\* was interrupted or blocked.
THEOREM RecoveryIsExplicit == Spec => RecoveryIsAcknowledged
<1> DEFINE Step == (/\ attempt # Nil /\ attempt.phase \notin Terminal
                /\ attempt' # attempt /\ attempt'.run # attempt.run
                => ack[attempt'.run] = attempt.run)
<1> USE NilAssumption, FileAssumption, ProjectAssumption DEF IndInv,
      FilesTellTheTruth, TypeOK, LockInv, PhaseInv, TreeInv, Attempts, Terminal,
      Open, States, Archives, BeforeSwap, AfterSwap, Working, Trapped, Points,
      Syncing, Hooking
<1>1. ASSUME IndInv, NEW r \in Runs, NEW v \in Releases, Stage(r, v) PROVE Step
  BY <1>1 DEF Stage, At, fileVars, history
<1>2. ASSUME IndInv, NEW r \in Runs, Deploy(r) PROVE Step
  BY <1>2 DEF Deploy, Lock, GiveUp, Refuse, Prepare, Backup, PrestopBlocks, Stop,
       StopFails, SwapBegins, SwapEnds, MarkSwapped, StartHook, StartOk,
       StartFails, StartBlocked, HealthCheck, CommitState, Complete, Finish, At,
       Exit, EndWith, StopSucceeds, SyncBegins, RunHook, LockFree, write_attempt,
       HookEffect, Foreign, Fenced, fileVars, history
<1>3. ASSUME IndInv, NEW r \in Runs, Recover(r) PROVE Step
  BY <1>3 DEF Recover, RollbackFails, RollbackStop, RestoreBegins, RestoreRecord,
       RestoreEnds, RestoreFaultIgnored, RestoreHook, RestoreStarts, RestoreHookFails,
       RolledBack, At, Exit, EndWith, StopSucceeds, SyncBegins, RunHook,
       write_attempt, HookEffect, shellVars, fileVars, history
<1>4. ASSUME IndInv, NEW r \in Runs, Interrupt(r) PROVE Step
  BY <1>4 DEF Interrupt, Signal, Die, DieSyncing, HeadlessEnds, OrphanEnds, Exit,
       write_attempt, HookEffect, shellVars, fileVars, history
<1>5. ASSUME IndInv, ServerExits \/ Reboot \/ OperatorStarts \/ UNCHANGED vars PROVE Step
  BY <1>5 DEF ServerExits, Reboot, OperatorStarts, vars, shellVars, fileVars, history
<1>6. IndInv /\ [Next]_vars => Step
  BY <1>1, <1>2, <1>3, <1>4, <1>5 DEF Next
<1>7. IndInv /\ [Next]_vars => [Step]_vars
  BY <1>6
<1> QED
  BY <1>7, Invariance, PTL DEF Spec, RecoveryIsAcknowledged

-----------------------------------------------------------------------------
(* The abstract installation.                                              *)

\* What else the refinement needs: a run is staged and starts once, what was
\* committed is recorded for the project of the run, and a restore that failed
\* left the files torn.
InstallInv ==
    \A r \in Runs :
        /\ pc[r] = "new" => release[r] = Nil
        /\ pc[r] \in {"new", "staged", "locked"} => found[r] = Nil
        /\ pc[r] = "committed" => state.project = ProjectOf[r]
        /\ pc[r] \in {"restored", "restarting", "restarted"} => tree \in {found[r], Torn}

\* No step breaks it.
LEMMA InstallInvStep == IndInv /\ InstallInv /\ [Next]_vars => InstallInv'
<1> SUFFICES ASSUME IndInv, InstallInv, [Next]_vars PROVE InstallInv'
  OBVIOUS
<1> USE NilAssumption, FileAssumption, ProjectAssumption DEF IndInv, InstallInv,
      FilesTellTheTruth, TypeOK, LockInv, PhaseInv, TreeInv, Attempts, States,
      Archives, BeforeSwap, AfterSwap, Working, Trapped, Points, Syncing, Hooking
<1>1. ASSUME NEW r \in Runs, NEW v \in Releases, Stage(r, v) PROVE InstallInv'
  BY <1>1 DEF Stage, At, fileVars, history
<1>2. ASSUME NEW r \in Runs, Deploy(r) PROVE InstallInv'
  BY <1>2 DEF Deploy, Lock, GiveUp, Refuse, Prepare, Backup, PrestopBlocks, Stop,
       StopFails, SwapBegins, SwapEnds, MarkSwapped, StartHook, StartOk,
       StartFails, StartBlocked, HealthCheck, CommitState, Complete, Finish, At,
       Exit, EndWith, StopSucceeds, SyncBegins, RunHook, LockFree, write_attempt,
       HookEffect, Foreign, Fenced, fileVars, history
<1>3. ASSUME NEW r \in Runs, Recover(r) PROVE InstallInv'
  BY <1>3 DEF Recover, RollbackFails, RollbackStop, RestoreBegins, RestoreRecord,
       RestoreEnds, RestoreFaultIgnored, RestoreHook, RestoreStarts, RestoreHookFails,
       RolledBack, At, Exit, EndWith, StopSucceeds, SyncBegins, RunHook,
       write_attempt, HookEffect, shellVars, fileVars, history
<1>4. ASSUME NEW r \in Runs, Interrupt(r) PROVE InstallInv'
  BY <1>4 DEF Interrupt, Signal, Die, DieSyncing, HeadlessEnds, OrphanEnds, Exit,
       write_attempt, HookEffect, shellVars, fileVars, history
<1>5. CASE ServerExits \/ Reboot \/ OperatorStarts \/ UNCHANGED vars
  BY <1>5 DEF ServerExits, Reboot, OperatorStarts, vars, shellVars, fileVars, history
<1> QED
  BY <1>1, <1>2, <1>3, <1>4, <1>5 DEF Next

\* What an installation does not show: shells, locks, archives and servers.
LEMMA Unseen ==
  ASSUME UNCHANGED <<release, ack, tree, state, found>>, UNCHANGED <<Latest, Verdict>>
  PROVE  Install!Next
BY DEF Install!Next, Install!Elsewhere, Install!installation

\* Program points at which a run has neither concluded nor given up.
Busy == (Trapped \ {"ending"}) \cup {"prepared"}

\* A run that has begun has its attempt on file, without a verdict.
LEMMA AttemptIsOpen ==
  ASSUME IndInv, NEW r \in Runs, pc[r] \in Busy
  PROVE  Install!Attempting(r)
<1>1. attempt \in Attempts /\ attempt.run = r /\ attempt.phase \in {"prepared", "stopping", "swapped"}
  BY DEF IndInv, FilesTellTheTruth, TypeOK, PhaseInv, Attempts, Terminal, Open,
       BeforeSwap, AfterSwap, Trapped, Busy
<1>2. attempt # Nil
  BY <1>1, FileAssumption
<1> QED
  BY <1>1, <1>2 DEF Latest, Verdict, Terminal, Install!Attempting

\* What it writes in the attempt file, in the terms of the installation.
LEMMA AttemptWritten ==
  ASSUME NEW r \in Runs, NEW phase \in Terminal \cup Open, write_attempt(r, phase)
  PROVE  /\ Latest' = r
         /\ phase \in Terminal => Verdict' = phase
         /\ phase \in {"blocked", "interrupted"} => Verdict' = "lost"
         /\ phase \in {"prepared", "stopping", "swapped"} => Verdict' = "open"
<1>1. attempt' = [phase |-> phase, run |-> r] /\ attempt' \in Attempts
  BY DEF write_attempt, Attempts
<1>2. attempt' # Nil
  BY <1>1, FileAssumption
<1> QED
  BY <1>1, <1>2 DEF Latest, Verdict, Terminal

\* So another phase of an open attempt is not seen.
LEMMA StillOpen ==
  ASSUME IndInv, NEW r \in Runs, pc[r] \in Busy,
         NEW phase \in {"stopping", "swapped"}, write_attempt(r, phase),
         UNCHANGED <<release, ack, tree, state, found>>
  PROVE  Install!Next
<1>1. Latest = r /\ Verdict = "open"
  BY AttemptIsOpen DEF Install!Attempting
<1>2. Latest' = r /\ Verdict' = "open"
  BY AttemptWritten DEF Open
<1> QED
  BY <1>1, <1>2, Unseen

\* And a report of failure gives the attempt up, also one that had concluded.
LEMMA LoseStep ==
  ASSUME IndInv, NEW r \in Runs, pc[r] \in Trapped,
         NEW phase \in {"blocked", "interrupted"}, write_attempt(r, phase),
         UNCHANGED <<release, ack, tree, state, found>>
  PROVE  Install!Next
<1>1. Latest = r
  <2>1. CASE pc[r] \in Busy
    BY <2>1, AttemptIsOpen DEF Install!Attempting
  <2>2. CASE pc[r] = "ending"
    BY <2>2 DEF IndInv, PhaseInv, Latest
  <2> QED
    BY <2>1, <2>2 DEF Busy
<1>2. Latest' = r /\ Verdict' = "lost"
  BY AttemptWritten DEF Open
<1>3. Install!Lose(r)
  BY <1>1, <1>2 DEF Install!Lose
<1> QED
  BY <1>3 DEF Install!Next

\* A staged run has its order.
LEMMA OrderStep ==
  ASSUME IndInv, InstallInv, NEW r \in Runs, NEW v \in Releases, Stage(r, v)
  PROVE  Install!Order(r)
<1>1. release[r] = Nil /\ release' = [release EXCEPT ![r] = v]
  BY DEF InstallInv, Stage, At
<1>2. UNCHANGED <<tree, state, Latest, Verdict, found>>
  BY DEF Stage, fileVars, history, Latest, Verdict
<1>3. ack' = ack \/ (Latest # Nil /\ ack' = [ack EXCEPT ![r] = Latest])
  <2>1. CASE attempt # Nil /\ ack' = [ack EXCEPT ![r] = attempt.run]
    <3>1. Latest = attempt.run /\ attempt.run \in Runs
      BY <2>1 DEF Latest, IndInv, FilesTellTheTruth, TypeOK, Attempts
    <3> QED
      BY <2>1, <3>1, NilAssumption
  <2> QED
    BY <2>1 DEF Stage
<1> QED
  BY <1>1, <1>2, <1>3 DEF Install!Order

\* The first attempt that a run writes is where it starts.
LEMMA StartStep ==
  ASSUME IndInv, InstallInv, NEW r \in Runs, Prepare(r)
  PROVE  Install!Start(r)
<1>1. release[r] \in Releases /\ found[r] = Nil
  BY DEF IndInv, PhaseInv, InstallInv, Prepare, At
<1>2. release[r] # Nil /\ Install!Owns(r)
  BY <1>1, NilAssumption DEF Prepare, Foreign, Install!Owns
<1>3. Install!Concluded \/ ack[r] = Latest
  <2>1. CASE attempt = Nil
    BY <2>1 DEF Verdict, Install!Concluded
  <2>2. CASE attempt # Nil /\ attempt.phase \in Terminal
    BY <2>2 DEF Verdict, Terminal, Install!Concluded
  <2>3. CASE attempt # Nil /\ attempt.phase \notin Terminal
    BY <2>3 DEF Prepare, Fenced, Latest
  <2> QED
    BY <2>1, <2>2, <2>3
<1>4. Latest' = r /\ Verdict' = "open"
  BY AttemptWritten DEF Prepare, Open
<1>5. found' = [found EXCEPT ![r] = tree] /\ UNCHANGED <<release, ack, tree, state>>
  BY DEF Prepare
<1> QED
  BY <1>1, <1>2, <1>3, <1>4, <1>5 DEF Install!Start

\* A run may replace the files that it found, or its own.
LEMMA RunOwns ==
  ASSUME IndInv, NEW r \in Runs, pc[r] \in {"stopped", "unpacked"}
  PROVE  Install!Owns(r)
BY DEF IndInv, TreeInv, Install!Owns

\* rsync begins: the files break.
LEMMA BreakStep ==
  ASSUME IndInv, NEW r \in Runs, SwapBegins(r) \/ RestoreBegins(r)
  PROVE  Install!Break(r)
<1>1. pc[r] \in {"stopped", "unpacked"}
  BY DEF SwapBegins, RestoreBegins, SyncBegins, At
<1>2. Install!Attempting(r) /\ Install!Owns(r)
  BY <1>1, AttemptIsOpen, RunOwns DEF Busy, Trapped
<1>3. tree' = Torn /\ state' \in {state, Nil} /\ UNCHANGED <<release, ack, attempt, found>>
  BY DEF SwapBegins, RestoreBegins, SyncBegins, history
<1>4. UNCHANGED <<Latest, Verdict>>
  BY <1>3 DEF Latest, Verdict
<1> QED
  BY <1>2, <1>3, <1>4 DEF Install!Break

\* rsync ends, with or without the shell that began it.
LEMMA InstallStep ==
  ASSUME IndInv, NEW r \in Runs, pc[r] = "swapping", tree' = release[r], state' = Nil,
         UNCHANGED <<release, ack, attempt, found>>
  PROVE  Install!Install(r)
<1>1. Install!Attempting(r) /\ tree = Torn
  BY AttemptIsOpen DEF Busy, Trapped, IndInv, TreeInv, Syncing
<1>2. UNCHANGED <<Latest, Verdict>>
  BY DEF Latest, Verdict
<1> QED
  BY <1>1, <1>2 DEF Install!Install

\* And the same for what the archive holds, the state file alone or all of it.
LEMMA RestoreStep ==
  ASSUME IndInv, NEW r \in Runs, pc[r] = "restoring",
         tree' \in {tree, backup[r].tree}, state' = backup[r].state,
         UNCHANGED <<release, ack, attempt, found>>
  PROVE  Install!Restore(r)
<1>1. Install!Attempting(r) /\ tree = Torn
  BY AttemptIsOpen DEF Busy, Trapped, IndInv, TreeInv, Syncing
<1>2. backup[r] \in Archives /\ backup[r].tree = found[r]
  BY DEF IndInv, FilesTellTheTruth, TypeOK, TreeInv, Trapped
<1>3. ASSUME state' # Nil
      PROVE  \E v \in Releases : /\ found[r] \in {v, Torn}
                                /\ state' = [release |-> v, project |-> ProjectOf[r]]
  <2>1. backup[r].state \in States
    BY <1>2, <1>3 DEF Archives
  <2>2. /\ backup[r].tree \in {backup[r].state.release, Torn}
        /\ backup[r].state.project = ProjectOf[r]
    BY <1>3, NilAssumption DEF IndInv, TreeInv
  <2> QED
    BY <1>2, <2>1, <2>2 DEF States
<1>4. UNCHANGED <<Latest, Verdict>>
  BY DEF Latest, Verdict
<1> QED
  BY <1>1, <1>2, <1>3, <1>4 DEF Install!Restore

\* The state file is written over the files of the run.
LEMMA CommitStep ==
  ASSUME IndInv, NEW r \in Runs, CommitState(r)
  PROVE  Install!Commit(r)
<1>1. pc[r] = "healthy"
  BY DEF CommitState, At
<1>2. Install!Attempting(r) /\ tree = release[r] /\ state = Nil
  BY <1>1, AttemptIsOpen DEF Busy, Trapped, IndInv, TreeInv
<1>3. /\ state' = [release |-> release[r], project |-> ProjectOf[r]]
      /\ UNCHANGED <<release, ack, tree, attempt, found>>
  BY DEF CommitState, history
<1>4. UNCHANGED <<Latest, Verdict>>
  BY <1>3 DEF Latest, Verdict
<1> QED
  BY <1>2, <1>3, <1>4 DEF Install!Commit

\* A terminal phase is a verdict, and a true one.
LEMMA ConcludeStep ==
  ASSUME IndInv, InstallInv, NEW r \in Runs, StopFails(r) \/ Complete(r) \/ RolledBack(r)
  PROVE  Install!Conclude(r)
<1>1. PICK phase \in Terminal :
        /\ EndWith(r, phase)
        /\ phase = "aborted" => pc[r] = "stopping"
        /\ phase = "completed" => pc[r] = "committed"
        /\ phase = "rolled_back" => pc[r] = "restarted"
        /\ pc[r] \in {"stopping", "committed", "restarted"}
  BY DEF StopFails, Complete, RolledBack, Terminal
<1>2. Install!Attempting(r)
  BY <1>1, AttemptIsOpen DEF Busy, Trapped
<1>3. Latest' = r /\ Verdict' = phase
  BY <1>1, AttemptWritten DEF EndWith
<1>4. Install!True(r, phase)
  <2>1. phase = "aborted" => tree = found[r]
    BY <1>1 DEF IndInv, TreeInv
  <2>2. phase = "rolled_back" => tree \in {found[r], Torn}
    BY <1>1 DEF InstallInv
  <2>3. ASSUME phase = "completed"
        PROVE  tree = release[r] /\ state = [release |-> release[r], project |-> ProjectOf[r]]
    <3>1. tree = release[r] /\ state # Nil /\ state.project = ProjectOf[r]
      BY <1>1, <2>3 DEF IndInv, TreeInv, InstallInv
    <3>2. state \in States /\ release[r] \in Releases
      BY <1>1, <3>1 DEF IndInv, FilesTellTheTruth, TypeOK, PhaseInv
    <3>3. state.release = tree
      BY <3>1, <3>2, NilAssumption DEF IndInv, FilesTellTheTruth, StateIsInstalled
    <3> QED
      BY <3>1, <3>2, <3>3 DEF States
  <2> QED
    BY <2>1, <2>2, <2>3 DEF Install!True
<1>5. UNCHANGED <<release, ack, tree, state, found>>
  BY <1>1 DEF EndWith, history
<1> QED
  BY <1>2, <1>3, <1>4, <1>5 DEF Install!Conclude, Install!Attempting, Terminal

\* Every step of the script, of the node and of the operator is a step of the
\* installation or is not seen there.
LEMMA InstallationStep == IndInv /\ InstallInv /\ [Next]_vars => Install!Next
<1> SUFFICES ASSUME IndInv, InstallInv, [Next]_vars PROVE Install!Next
  OBVIOUS
<1>1. ASSUME NEW r \in Runs, NEW v \in Releases, Stage(r, v) PROVE Install!Next
  BY <1>1, OrderStep DEF Install!Next
<1>2. ASSUME UNCHANGED <<release, ack, tree, state, attempt, found>> PROVE Install!Next
  <2>1. UNCHANGED <<Latest, Verdict>>
    BY <1>2 DEF Latest, Verdict
  <2> QED
    BY <1>2, <2>1, Unseen
<1>3. ASSUME NEW r \in Runs, Deploy(r) PROVE Install!Next
  <2>1. CASE Lock(r) \/ GiveUp(r) \/ Refuse(r) \/ Finish(r)
    BY <2>1, <1>2 DEF Lock, GiveUp, Refuse, Finish, fileVars, history
  <2>2. CASE Prepare(r)
    BY <2>2, StartStep DEF Install!Next
  <2>3. CASE Backup(r) \/ MarkSwapped(r)
    BY <2>3, StillOpen DEF Backup, MarkSwapped, At, Busy, Trapped, history
  <2>4. CASE PrestopBlocks(r)
    BY <2>4, LoseStep DEF PrestopBlocks, EndWith, Trapped, history
  <2>5. CASE StartBlocked(r)
    BY <2>5, LoseStep DEF StartBlocked, At, Trapped, history
  <2>6. CASE Stop(r) \/ StartHook(r) \/ StartOk(r) \/ StartFails(r) \/ HealthCheck(r)
    BY <2>6, <1>2 DEF Stop, StopSucceeds, StartHook, StartOk, StartFails, HealthCheck,
         RunHook, fileVars, history
  <2>7. CASE SwapBegins(r)
    BY <2>7, BreakStep DEF Install!Next
  <2>8. CASE SwapEnds(r)
    BY <2>8, InstallStep DEF SwapEnds, At, history, Install!Next
  <2>9. CASE CommitState(r)
    BY <2>9, CommitStep DEF Install!Next
  <2>10. CASE StopFails(r) \/ Complete(r)
    BY <2>10, ConcludeStep DEF Install!Next
  <2> QED
    BY <1>3, <2>1, <2>2, <2>3, <2>4, <2>5, <2>6, <2>7, <2>8, <2>9, <2>10 DEF Deploy
<1>4. ASSUME NEW r \in Runs, Recover(r) PROVE Install!Next
  <2>1. CASE RollbackFails(r)
    BY <2>1, LoseStep DEF RollbackFails, EndWith, Trapped, history
  <2>2. CASE RollbackStop(r) \/ RestoreFaultIgnored(r) \/ RestoreHook(r) \/ RestoreStarts(r)
    BY <2>2, <1>2 DEF RollbackStop, StopSucceeds, RestoreFaultIgnored, RestoreHook,
         RunHook, RestoreStarts, fileVars, history
  <2>3. CASE RestoreBegins(r)
    BY <2>3, BreakStep DEF Install!Next
  <2>4. CASE RestoreRecord(r) \/ RestoreEnds(r)
    BY <2>4, RestoreStep DEF RestoreRecord, RestoreEnds, At, shellVars, history, Install!Next
  <2>5. CASE RestoreHookFails(r)
    BY <2>5, LoseStep DEF RestoreHookFails, At, Trapped, history
  <2>6. CASE RolledBack(r)
    BY <2>6, ConcludeStep DEF Install!Next
  <2> QED
    BY <1>4, <2>1, <2>2, <2>3, <2>4, <2>5, <2>6 DEF Recover
<1>5. ASSUME NEW r \in Runs, Interrupt(r) PROVE Install!Next
  <2>1. CASE Signal(r)
    BY <2>1, LoseStep DEF Signal, history
  <2>2. CASE Die(r) \/ DieSyncing(r) \/ OrphanEnds(r)
    BY <2>2, <1>2 DEF Die, DieSyncing, OrphanEnds, shellVars, fileVars, history
  <2>3. CASE HeadlessEnds(r)
    <3>1. UNCHANGED <<release, ack, attempt, found>>
      BY <2>3 DEF HeadlessEnds, history
    <3>2. CASE UNCHANGED <<tree, state>>
      BY <3>1, <3>2, <1>2
    <3>3. CASE pc[r] = "swapping" /\ tree' = release[r] /\ state' = Nil
      BY <3>1, <3>3, InstallStep DEF Install!Next
    <3>4. CASE pc[r] = "restoring" /\ tree' = backup[r].tree /\ state' = backup[r].state
      BY <3>1, <3>4, RestoreStep DEF Install!Next
    <3> QED
      BY <2>3, <3>2, <3>3, <3>4 DEF HeadlessEnds
  <2> QED
    BY <1>5, <2>1, <2>2, <2>3 DEF Interrupt
<1>6. CASE ServerExits \/ Reboot \/ OperatorStarts \/ UNCHANGED vars
  BY <1>6, <1>2 DEF ServerExits, Reboot, OperatorStarts, vars, shellVars, fileVars, history
<1> QED
  BY <1>1, <1>3, <1>4, <1>5, <1>6 DEF Next

\* safe-deploy.sh implements the abstract installation: however invocations
\* compete, are trapped, killed, rolled back or rebooted away, whoever looks at
\* the instance directory sees attempts of one project that follow one another,
\* break the files and make them whole, and conclude with what is true.
THEOREM InstallIsImplemented == Spec => ImplementsInstall
<1>1. Init => InstallInv /\ Install!Init
  <2> SUFFICES ASSUME Init PROVE InstallInv /\ Install!Init
    OBVIOUS
  <2>1. InstallInv
    BY DEF Init, InstallInv, Syncing
  <2>2. Install!Init
    BY DEF Init, Install!Init, Latest, Verdict
  <2> QED
    BY <2>1, <2>2
<1>2. IndInv /\ InstallInv /\ [Next]_vars => [Install!Next]_(Install!installation)
  BY InstallationStep
<1> QED
  BY <1>1, <1>2, Invariance, InstallInvStep, PTL DEF Spec, ImplementsInstall, Install!Spec
=============================================================================
