-------------------------- MODULE PushDeployProofs --------------------------
(***************************************************************************)
(* Proofs about the push-deployment controller, for every set of           *)
(* deployments, bindings, versions and contents.                           *)
(***************************************************************************)
EXTENDS PushDeploy, TLAPS

Active == Executing \cup {"sweeping"}
AtTarget == {"dialing", "remote", "recording"}

\* Nothing runs in a dead process; a row that exists has its request; a run is
\* active only on a running row, a dry run never executes, and executing is
\* done under the mutex.
RowInv ==
    \A d \in Deployments :
        /\ power # "up" => pc[d] = "idle" /\ waiting[d] = {}
        /\ waiting[d] # {} => ~request[d].dry
        /\ status[d] # "absent" \/ pc[d] = "frozen" => request[d] \in Requests
        /\ status[d] = "absent" => pc[d] \in {"idle", "frozen"} /\ waiting[d] = {}
        /\ pc[d] = "frozen" => status[d] = "absent"
        /\ pc[d] = "dry" => status[d] = "queued" /\ request[d].dry
        /\ pc[d] \in Active => status[d] = "running"
        /\ pc[d] \in Executing => mutex = d /\ ~request[d].dry

\* What the targets of a deployment can be at each point of its life, and
\* which of them a command was issued for.
TargetInv ==
    \A d \in Deployments :
        /\ status[d] = "absent" => \A b \in Bindings : tstat[d][b] = "none"
        /\ status[d] = "queued" => \A b \in Bindings :
              tstat[d][b] = IF b \in request[d].fleet THEN "queued" ELSE "none"
        /\ pc[d] \notin Active => todo[d] = {}
        /\ \A b \in todo[d] : tstat[d][b] = "queued" /\ b \in request[d].fleet
        /\ pc[d] \in AtTarget => target[d] \in Bindings /\ tstat[d][target[d]] = "running"
                                   /\ target[d] \in request[d].fleet
        /\ pc[d] = "dialing" => issued[d][target[d]] = 0
        /\ pc[d] \in {"recording", "sweeping"} => result[d] \in Outcomes
        /\ pc[d] = "recording" => result[d] # "skipped"
        /\ \A b \in Bindings :
             /\ issued[d][b] \in {0, 1}
             /\ issued[d][b] = 0 <=> remote[d][b] = "none"
             /\ remote[d][b] # "none" => pulled[d][b] \in Plans
             /\ tstat[d][b] \in {"none", "queued", "skipped"} => issued[d][b] = 0

\* A command without a recorded success is the one of the current target
\* while the run goes on, and the only one afterwards.
StopInv ==
    /\ FailStop
    /\ \A d \in Deployments, b \in Bindings :
          /\ issued[d][b] > 0 /\ tstat[d][b] # "success"
          /\ pc[d] \in Executing
          => pc[d] \in {"remote", "recording"} /\ b = target[d]

IndInv == TypeOK /\ RowInv /\ TargetInv /\ StopInv

\* A dead process has released the mutex; the targets of a row are those of its
\* fleet.
FleetInv ==
    /\ power # "up" => mutex = Absent
    /\ \A d \in Deployments : status[d] # "absent" =>
          \A b \in Bindings : tstat[d][b] = "none" <=> b \notin request[d].fleet

\* A run marks one target at a time as running, and sweeps or records a success
\* only of a dry run or of a command.
SweepInv ==
    \A d \in Deployments :
        /\ pc[d] = "sweeping" /\ ~request[d].dry => result[d] # "success"
        /\ pc[d] = "recording" /\ result[d] = "success" => issued[d][target[d]] > 0
        /\ \A b \in Bindings : tstat[d][b] = "running" /\ pc[d] \in Active =>
              pc[d] \in AtTarget /\ b = target[d]

\* Unless a write failed, only a run, or its crash, leaves targets running, and
\* what a run has not reached is still to be done.
ProgressInv ==
    \A d \in Deployments \ lost : \A b \in Bindings :
        /\ tstat[d][b] = "running" =>
              status[d] = "running" /\ (power = "up" => pc[d] \in Active)
        /\ pc[d] \in Active /\ b \in request[d].fleet =>
              b \in todo[d] \/ tstat[d][b] \in Outcomes \cup {"running"}

LedgerInv == FleetInv /\ SweepInv /\ ProgressInv /\ VerdictAgrees

\* Only a run keeps validated rows; the plan of a validated target is what the
\* catalog holds for as long as the run executes.
SnapshotInv ==
    \A d \in Deployments, b \in Bindings :
        /\ pc[d] \notin Active => snapshot[d][b] = Absent
        /\ pc[d] \in Executing /\ snapshot[d][b] # Absent =>
              /\ artifact[request[d].version] # Absent
              /\ plan[d][b] = [artifact |-> artifact[request[d].version],
                               setting |-> snapshot[d][b], entry |-> cache[b]]

\* The whole fleet is validated before the first command; only a dry run
\* sweeps with a success.
PreparedInv ==
    \A d \in Deployments :
        /\ pc[d] \in {"next", "dialing", "remote", "recording"} =>
              \A b \in request[d].fleet : snapshot[d][b] # Absent
        /\ pc[d] = "sweeping" /\ ~request[d].dry => result[d] # "success"

\* What the command of the current target works with.
CommandInv ==
    \A d \in Deployments, b \in Bindings :
        /\ pc[d] = "remote" /\ b = target[d] =>
              /\ remote[d][b] = "started" => pulled[d][b].setting = snapshot[d][b]
              /\ remote[d][b] \in {"pulled", "ok"} => pulled[d][b] = plan[d][b]
        /\ pc[d] = "recording" /\ b = target[d] /\ result[d] = "success" =>
              remote[d][b] = "ok" /\ pulled[d][b] = plan[d][b]

SuccessInv ==
    \A d \in Deployments, b \in Bindings :
        tstat[d][b] = "success" /\ ~request[d].dry =>
            remote[d][b] = "ok" /\ pulled[d][b] = plan[d][b]

\* Without hand edits the cache is the file, so the login's reload changes
\* nothing under a run.
FrozenInv == disk = cache /\ SnapshotInv /\ PreparedInv /\ CommandInv /\ SuccessInv

\* The step formula of OutcomesAreFinal.
OutcomesKept ==
    \A d \in Deployments :
        /\ \A b \in Bindings : tstat[d][b] \in Outcomes => tstat'[d][b] = tstat[d][b]
        /\ status[d] \in {"success", "failed"} => status'[d] = status[d]

-----------------------------------------------------------------------------
(* The steps preserve the invariant.  One step per action.                   *)

\* Every step keeps the types.
LEMMA TypeStep == IndInv /\ [Next]_vars => TypeOK'
<1> SUFFICES ASSUME IndInv, [Next]_vars PROVE TypeOK'
  OBVIOUS
<1>1. ASSUME NEW d \in Deployments, NEW v \in Versions, NEW fleet \in (SUBSET Bindings) \ {{}},
                NEW k \in Keys \cup {Absent}, NEW dry \in BOOLEAN,
                FreezePushPlan(d, v, fleet, k, dry)
      PROVE  TypeOK'
  BY <1>1 DEF IndInv, TypeOK, RowInv, TargetInv, Requests, Plans, Statuses,
       Outcomes, Executing, Active, AtTarget, Callers, FreezePushPlan,
       PushPlanDigest, Resolvable, catalogVars, nodeVars
<1>2. ASSUME NEW d \in Deployments, ReplayPushDeployment(d)
      PROVE  TypeOK'
  BY <1>2 DEF IndInv, TypeOK, RowInv, TargetInv, Requests, Plans, Statuses,
       Outcomes, Executing, Active, AtTarget, Callers, ReplayPushDeployment,
       catalogVars, nodeVars
<1>3. ASSUME NEW d \in Deployments, CreatePushDeployment(d)
      PROVE  TypeOK'
  <2>1. request[d] \in Requests
    BY <1>3 DEF CreatePushDeployment, IndInv, RowInv
  <2>2. waiting' \in [Deployments -> SUBSET Callers]
    <3>1. CASE request[d].dry
      BY <1>3, <3>1 DEF CreatePushDeployment, IndInv, TypeOK
    <3>2. CASE ~request[d].dry
      <4>1. waiting' = [waiting EXCEPT ![d] = {"create"}]
        BY <1>3, <3>2, Zenon DEF CreatePushDeployment
      <4> QED
        BY <4>1 DEF IndInv, TypeOK, Callers
    <3> QED
      BY <3>1, <3>2
  <2>3. tstat' \in [Deployments -> [Bindings -> Outcomes \cup {"none", "queued", "running"}]]
    BY <1>3, <2>1 DEF CreatePushDeployment, IndInv, TypeOK
  <2>4. pc' \in [Deployments -> Executing \cup {"idle", "frozen", "dry", "sweeping"}]
    <3>1. \E p \in {"dry", "idle"} : pc' = [pc EXCEPT ![d] = p]
      BY <1>3, Zenon DEF CreatePushDeployment
    <3> QED
      BY <3>1 DEF IndInv, TypeOK
  <2> QED
    BY <1>3, <2>2, <2>3, <2>4 DEF CreatePushDeployment, IndInv, TypeOK, Statuses,
       catalogVars, nodeVars
<1>4. ASSUME NEW d \in Deployments, CompletePushDryRun(d)
      PROVE  TypeOK'
  BY <1>4 DEF IndInv, TypeOK, RowInv, TargetInv, Requests, Plans, Statuses,
       Outcomes, Executing, Active, AtTarget, Callers, CompletePushDryRun,
       catalogVars, nodeVars
<1>5. ASSUME NEW d \in Deployments, RedispatchHook(d)
      PROVE  TypeOK'
  BY <1>5 DEF IndInv, TypeOK, RowInv, TargetInv, Requests, Plans, Statuses,
       Outcomes, Executing, Active, AtTarget, Callers, RedispatchHook,
       ledgerVars, catalogVars, nodeVars
<1>6. ASSUME NEW d \in Deployments, NEW c \in Callers, ClaimDeployment(d, c)
      PROVE  TypeOK'
  <2>1. request[d] \in Requests
    BY <1>6 DEF ClaimDeployment, LockFree, Claimable, IndInv, RowInv
  <2>2. waiting' \in [Deployments -> SUBSET Callers]
    BY <1>6 DEF ClaimDeployment, LockFree, Claimable, IndInv, TypeOK
  <2>3. todo' \in [Deployments -> SUBSET Bindings]
    BY <1>6, <2>1 DEF ClaimDeployment, LockFree, Claimable, IndInv, TypeOK, Requests
  <2>4. pc' \in [Deployments -> Executing \cup {"idle", "frozen", "dry", "sweeping"}]
    BY <1>6 DEF ClaimDeployment, LockFree, Claimable, IndInv, TypeOK, Executing
  <2> QED
    BY <1>6, <2>2, <2>3, <2>4 DEF ClaimDeployment, LockFree, Claimable, IndInv, TypeOK,
       Statuses, catalogVars, nodeVars
<1>7. ASSUME NEW d \in Deployments, NEW c \in Callers, RefuseRun(d, c)
      PROVE  TypeOK'
  BY <1>7 DEF IndInv, TypeOK, RowInv, TargetInv, Requests, Plans, Statuses,
       Outcomes, Executing, Active, AtTarget, Callers, RefuseRun, LockFree,
       Claimable, ledgerVars, catalogVars, nodeVars
<1>8. ASSUME NEW d \in Deployments, NEW b \in Bindings, ValidateTarget(d, b)
      PROVE  TypeOK'
  BY <1>8 DEF IndInv, TypeOK, RowInv, TargetInv, Requests, Plans, Statuses,
       Outcomes, Executing, Active, AtTarget, Callers, ValidateTarget,
       ledgerVars, catalogVars, nodeVars
<1>9. ASSUME NEW d \in Deployments, FailBeforeExecution(d)
      PROVE  TypeOK'
  BY <1>9 DEF IndInv, TypeOK, RowInv, TargetInv, Requests, Plans, Statuses,
       Outcomes, Executing, Active, AtTarget, Callers, FailBeforeExecution,
       ledgerVars, catalogVars, nodeVars
<1>10. ASSUME NEW d \in Deployments, FleetPrepared(d)
      PROVE  TypeOK'
  BY <1>10 DEF IndInv, TypeOK, RowInv, TargetInv, Requests, Plans, Statuses,
       Outcomes, Executing, Active, AtTarget, Callers, FleetPrepared,
       ledgerVars, catalogVars, nodeVars
<1>11. ASSUME NEW d \in Deployments, NEW b \in Bindings, LaunchTarget(d, b)
      PROVE  TypeOK'
  BY <1>11, SMTT(30) DEF IndInv, TypeOK, RowInv, TargetInv, Requests, Plans, Statuses,
       Outcomes, Executing, Active, AtTarget, Callers, LaunchTarget,
       catalogVars, nodeVars
<1>12. ASSUME NEW d \in Deployments, DialFails(d)
      PROVE  TypeOK'
  BY <1>12 DEF IndInv, TypeOK, RowInv, TargetInv, Requests, Plans, Statuses,
       Outcomes, Executing, Active, AtTarget, Callers, DialFails, ledgerVars,
       catalogVars, nodeVars
<1>13. ASSUME NEW d \in Deployments, StartSession(d)
      PROVE  TypeOK'
  <2>1. target[d] \in Bindings
    BY <1>13 DEF StartSession, IndInv, TargetInv, AtTarget
  <2>2. [artifact |-> Absent, setting |-> snapshot[d][target[d]], entry |-> Absent] \in Plans
    BY <2>1 DEF Plans, IndInv, TypeOK
  <2>3. pulled' \in [Deployments -> [Bindings -> Plans \cup {Absent}]]
    BY <1>13, <2>1, <2>2 DEF StartSession, IndInv, TypeOK
  <2>4. /\ remote' \in [Deployments -> [Bindings -> {"none", "started", "pulled", "ok", "error"}]]
        /\ issued' \in [Deployments -> [Bindings -> Nat]]
        /\ pc' \in [Deployments -> Executing \cup {"idle", "frozen", "dry", "sweeping"}]
    BY <1>13, <2>1 DEF StartSession, IndInv, TypeOK, Executing
  <2> QED
    BY <1>13, <2>3, <2>4 DEF StartSession, IndInv, TypeOK, ledgerVars, catalogVars
<1>14. ASSUME NEW d \in Deployments, SessionEnds(d)
      PROVE  TypeOK'
  BY <1>14 DEF IndInv, TypeOK, RowInv, TargetInv, Requests, Plans, Statuses,
       Outcomes, Executing, Active, AtTarget, Callers, SessionEnds,
       ledgerVars, catalogVars, nodeVars
<1>15. ASSUME NEW d \in Deployments, SessionLost(d)
      PROVE  TypeOK'
  BY <1>15 DEF IndInv, TypeOK, RowInv, TargetInv, Requests, Plans, Statuses,
       Outcomes, Executing, Active, AtTarget, Callers, SessionLost,
       ledgerVars, catalogVars, nodeVars
<1>16. ASSUME NEW d \in Deployments, RecordTarget(d)
      PROVE  TypeOK'
  <2>1. target[d] \in Bindings /\ result[d] \in Outcomes
    BY <1>16 DEF RecordTarget, StopsFleet, IndInv, TargetInv, AtTarget
  <2>2. tstat' \in [Deployments -> [Bindings -> Outcomes \cup {"none", "queued", "running"}]]
    BY <1>16, <2>1 DEF RecordTarget, StopsFleet, IndInv, TypeOK
  <2>3. /\ pc' \in [Deployments -> Executing \cup {"idle", "frozen", "dry", "sweeping"}]
        /\ result' \in [Deployments -> Outcomes \cup {"none"}]
    BY <1>16 DEF RecordTarget, StopsFleet, IndInv, TypeOK, Executing, Outcomes
  <2> QED
    BY <1>16, <2>2, <2>3 DEF RecordTarget, StopsFleet, IndInv, TypeOK, catalogVars, nodeVars
<1>17. ASSUME NEW d \in Deployments, NEW b \in Bindings, SweepTarget(d, b)
      PROVE  TypeOK'
  <2>1. result[d] \in Outcomes
    BY <1>17 DEF SweepTarget, IndInv, TargetInv
  <2>2. tstat' \in [Deployments -> [Bindings -> Outcomes \cup {"none", "queued", "running"}]]
    <3>1. CASE tstat' = [tstat EXCEPT ![d][b] = result[d]]
      BY <3>1, <2>1 DEF IndInv, TypeOK
    <3>2. CASE UNCHANGED tstat
      BY <3>2 DEF IndInv, TypeOK
    <3> QED
      BY <1>17, <3>1, <3>2 DEF SweepTarget
  <2>3. todo' \in [Deployments -> SUBSET Bindings] /\ lost' \subseteq Deployments
    BY <1>17 DEF SweepTarget, IndInv, TypeOK
  <2> QED
    BY <1>17, <2>2, <2>3 DEF SweepTarget, IndInv, TypeOK, catalogVars, nodeVars
<1>18. ASSUME NEW d \in Deployments, CompletePushDeployment(d)
      PROVE  TypeOK'
  BY <1>18 DEF IndInv, TypeOK, RowInv, TargetInv, Requests, Plans, Statuses,
       Outcomes, Executing, Active, AtTarget, Callers, CompletePushDeployment,
       Return, FinalStatus, catalogVars, nodeVars
<1>19. ASSUME NEW d \in Deployments, StoreErrorEndsRun(d)
      PROVE  TypeOK'
  BY <1>19 DEF IndInv, TypeOK, RowInv, TargetInv, Requests, Plans, Statuses,
       Outcomes, Executing, Active, AtTarget, Callers, StoreErrorEndsRun,
       Return, ledgerVars, catalogVars, nodeVars
<1>20. ASSUME NEW d \in Deployments, NEW b \in Bindings, RemotePull(d, b)
      PROVE  TypeOK'
  <2>1. pulled[d][b] \in Plans
    BY <1>20 DEF RemotePull, IndInv, TargetInv
  <2>2. status[d] # "absent" /\ request[d] \in Requests
    BY <1>20 DEF RemotePull, IndInv, RowInv, TargetInv
  <2>3. [artifact |-> artifact[request[d].version], setting |-> pulled[d][b].setting,
         entry |-> cache[b]] \in Plans
    BY <2>1, <2>2 DEF Plans, Requests, IndInv, TypeOK
  <2>4. pulled' \in [Deployments -> [Bindings -> Plans \cup {Absent}]]
    BY <1>20, <2>3 DEF RemotePull, IndInv, TypeOK
  <2>5. remote' \in [Deployments -> [Bindings -> {"none", "started", "pulled", "ok", "error"}]]
    BY <1>20 DEF RemotePull, IndInv, TypeOK
  <2> QED
    BY <1>20, <2>4, <2>5 DEF RemotePull, IndInv, TypeOK, processVars, ledgerVars,
       catalogVars
<1>21. ASSUME NEW d \in Deployments, NEW b \in Bindings, RemoteExit(d, b)
      PROVE  TypeOK'
  <2>1. remote' \in [Deployments -> [Bindings -> {"none", "started", "pulled", "ok", "error"}]]
    <3>1. CASE remote[d][b] = "pulled" /\ remote' = [remote EXCEPT ![d][b] = "ok"]
      BY <3>1 DEF IndInv, TypeOK
    <3>2. CASE /\ remote[d][b] \in {"started", "pulled"}
               /\ remote' = [remote EXCEPT ![d][b] = "error"]
      BY <3>2 DEF IndInv, TypeOK
    <3> QED
      BY <1>21, <3>1, <3>2 DEF RemoteExit
  <2> QED
    BY <1>21, <2>1 DEF RemoteExit, IndInv, TypeOK, processVars, ledgerVars, catalogVars
<1>22. ASSUME AdminStep PROVE TypeOK'
  <2>1. /\ artifact' \in [Versions -> Artifacts \cup {Absent}]
        /\ setting' \in [Bindings -> Settings \cup {Absent}]
        /\ disk' \in [Bindings -> Entries \cup {Absent}]
        /\ cache' \in [Bindings -> Entries \cup {Absent}]
    <3>1. ASSUME NEW b \in Bindings, NEW s \in Settings \cup {Absent}, UpdateBinding(b, s)
          PROVE  setting' \in [Bindings -> Settings \cup {Absent}] /\ UNCHANGED <<artifact, disk, cache>>
      BY <3>1 DEF UpdateBinding, IndInv, TypeOK
    <3>2. ASSUME NEW v \in Versions, NEW a \in Artifacts, PublishVersion(v, a)
          PROVE  artifact' \in [Versions -> Artifacts \cup {Absent}] /\ UNCHANGED <<setting, disk, cache>>
      BY <3>2 DEF PublishVersion, IndInv, TypeOK
    <3>3. ASSUME NEW v \in Versions, DeleteVersion(v)
          PROVE  artifact' \in [Versions -> Artifacts \cup {Absent}] /\ UNCHANGED <<setting, disk, cache>>
      BY <3>3 DEF DeleteVersion, IndInv, TypeOK
    <3>4. ASSUME NEW b \in Bindings, NEW e \in Entries \cup {Absent},
                 PutServerEntry(b, e) \/ EditServerYAML(b, e)
          PROVE  /\ disk' \in [Bindings -> Entries \cup {Absent}]
                 /\ cache' \in [Bindings -> Entries \cup {Absent}]
                 /\ UNCHANGED <<artifact, setting>>
      <4>1. disk' = [disk EXCEPT ![b] = e] /\ cache' \in {cache, disk'}
        BY <3>4 DEF PutServerEntry, EditServerYAML
      <4>2. disk' \in [Bindings -> Entries \cup {Absent}]
        BY <4>1 DEF IndInv, TypeOK
      <4> QED
        BY <3>4, <4>1, <4>2 DEF PutServerEntry, EditServerYAML, IndInv, TypeOK
    <3> QED
      BY <1>22, <3>1, <3>2, <3>3, <3>4 DEF AdminStep, ReloadAllServerYAML, LoginReload,
           IndInv, TypeOK
  <2>2. UNCHANGED <<processVars, ledgerVars, nodeVars, lost>>
    BY <1>22 DEF AdminStep, UpdateBinding, PublishVersion, DeleteVersion, PutServerEntry,
         EditServerYAML, ReloadAllServerYAML, LoginReload
  <2> QED
    BY <2>1, <2>2 DEF IndInv, TypeOK, processVars, ledgerVars, nodeVars
<1>23. ASSUME BeginDeploymentDrain PROVE TypeOK'
  BY <1>23 DEF IndInv, TypeOK, RowInv, TargetInv, Requests, Plans, Statuses,
       Outcomes, Executing, Active, AtTarget, Callers, BeginDeploymentDrain,
       ledgerVars, catalogVars, nodeVars
<1>24. ASSUME CleanExit PROVE TypeOK'
  BY <1>24, ZenonT(60) DEF IndInv, TypeOK, RowInv, TargetInv, Requests, Plans, Statuses,
       Outcomes, Executing, Active, AtTarget, Callers, CleanExit, ProcessDies,
       LockFree, catalogVars, nodeVars
<1>25. ASSUME Crash PROVE TypeOK'
  BY <1>25, ZenonT(60) DEF IndInv, TypeOK, RowInv, TargetInv, Requests, Plans, Statuses,
       Outcomes, Executing, Active, AtTarget, Callers, Crash, ProcessDies,
       catalogVars, nodeVars
<1>26. ASSUME Restart PROVE TypeOK'
  BY <1>26 DEF IndInv, TypeOK, RowInv, TargetInv, Requests, Plans, Statuses,
       Outcomes, Executing, Active, AtTarget, Callers, Restart, Interruptible,
       Interrupted, nodeVars
<1>27. ASSUME UNCHANGED vars PROVE TypeOK'
  BY <1>27 DEF IndInv, TypeOK, RowInv, TargetInv, Requests, Plans, Statuses,
       Outcomes, Executing, Active, AtTarget, Callers, vars
<1>28. ASSUME NEW d \in Deployments, RequestStep(d) PROVE TypeOK'
  BY <1>28, <1>1, <1>2, <1>3, <1>4, <1>5 DEF RequestStep
<1>29. ASSUME NEW d \in Deployments, RunStep(d) PROVE TypeOK'
  BY <1>29, <1>6, <1>7, <1>8, <1>9, <1>10, <1>11, <1>12, <1>13, <1>14, <1>15,
       <1>16, <1>17, <1>18, <1>19 DEF RunStep
<1>30. ASSUME NEW d \in Deployments, NodeStep(d) PROVE TypeOK'
  BY <1>30, <1>20, <1>21 DEF NodeStep
<1> QED
  BY <1>22, <1>23, <1>24, <1>25, <1>26, <1>27, <1>28, <1>29, <1>30 DEF Next, ProcessStep

\* Every step keeps rows, requests, runs and the mutex consistent.
LEMMA RowStep == IndInv /\ [Next]_vars => RowInv'
<1> SUFFICES ASSUME IndInv, [Next]_vars PROVE RowInv'
  OBVIOUS
<1>1. ASSUME NEW d \in Deployments, NEW v \in Versions, NEW fleet \in (SUBSET Bindings) \ {{}},
                NEW k \in Keys \cup {Absent}, NEW dry \in BOOLEAN,
                FreezePushPlan(d, v, fleet, k, dry)
      PROVE  RowInv'
  BY <1>1 DEF IndInv, TypeOK, RowInv, Executing, Active, Requests,
       FreezePushPlan, PushPlanDigest, Resolvable, catalogVars, nodeVars
<1>2. ASSUME NEW d \in Deployments, ReplayPushDeployment(d)
      PROVE  RowInv'
  BY <1>2 DEF IndInv, TypeOK, RowInv, Executing, Active, Requests,
       ReplayPushDeployment, catalogVars, nodeVars
<1>3. ASSUME NEW d \in Deployments, CreatePushDeployment(d)
      PROVE  RowInv'
  BY <1>3 DEF IndInv, TypeOK, RowInv, Executing, Active, Requests,
       CreatePushDeployment, catalogVars, nodeVars
<1>4. ASSUME NEW d \in Deployments, CompletePushDryRun(d)
      PROVE  RowInv'
  BY <1>4 DEF IndInv, TypeOK, RowInv, Executing, Active, Requests,
       CompletePushDryRun, catalogVars, nodeVars
<1>5. ASSUME NEW d \in Deployments, RedispatchHook(d)
      PROVE  RowInv'
  BY <1>5 DEF IndInv, TypeOK, RowInv, Executing, Active, Requests,
       RedispatchHook, ledgerVars, catalogVars, nodeVars
<1>6. ASSUME NEW d \in Deployments, NEW c \in Callers, ClaimDeployment(d, c)
      PROVE  RowInv'
  BY <1>6, AbsentAssumption DEF IndInv, TypeOK, RowInv, Executing, Active,
       Requests, ClaimDeployment, LockFree, Claimable, catalogVars, nodeVars
<1>7. ASSUME NEW d \in Deployments, NEW c \in Callers, RefuseRun(d, c)
      PROVE  RowInv'
  BY <1>7 DEF IndInv, TypeOK, RowInv, Executing, Active, Requests, RefuseRun,
       LockFree, Claimable, ledgerVars, catalogVars, nodeVars
<1>8. ASSUME NEW d \in Deployments, NEW b \in Bindings, ValidateTarget(d, b)
      PROVE  RowInv'
  BY <1>8 DEF IndInv, TypeOK, RowInv, Executing, Active, Requests,
       ValidateTarget, ledgerVars, catalogVars, nodeVars
<1>9. ASSUME NEW d \in Deployments, FailBeforeExecution(d)
      PROVE  RowInv'
  BY <1>9 DEF IndInv, TypeOK, RowInv, Executing, Active, Requests,
       FailBeforeExecution, ledgerVars, catalogVars, nodeVars
<1>10. ASSUME NEW d \in Deployments, FleetPrepared(d)
      PROVE  RowInv'
  BY <1>10 DEF IndInv, TypeOK, RowInv, Executing, Active, Requests,
       FleetPrepared, ledgerVars, catalogVars, nodeVars
<1>11. ASSUME NEW d \in Deployments, NEW b \in Bindings, LaunchTarget(d, b)
      PROVE  RowInv'
  BY <1>11 DEF IndInv, TypeOK, RowInv, Executing, Active, Requests,
       LaunchTarget, catalogVars, nodeVars
<1>12. ASSUME NEW d \in Deployments, DialFails(d)
      PROVE  RowInv'
  BY <1>12 DEF IndInv, TypeOK, RowInv, Executing, Active, Requests, DialFails,
       ledgerVars, catalogVars, nodeVars
<1>13. ASSUME NEW d \in Deployments, StartSession(d)
      PROVE  RowInv'
  BY <1>13 DEF IndInv, TypeOK, RowInv, Executing, Active, Requests,
       StartSession, ledgerVars, catalogVars
<1>14. ASSUME NEW d \in Deployments, SessionEnds(d)
      PROVE  RowInv'
  BY <1>14 DEF IndInv, TypeOK, RowInv, Executing, Active, Requests,
       SessionEnds, ledgerVars, catalogVars, nodeVars
<1>15. ASSUME NEW d \in Deployments, SessionLost(d)
      PROVE  RowInv'
  BY <1>15 DEF IndInv, TypeOK, RowInv, Executing, Active, Requests,
       SessionLost, ledgerVars, catalogVars, nodeVars
<1>16. ASSUME NEW d \in Deployments, RecordTarget(d)
      PROVE  RowInv'
  BY <1>16 DEF IndInv, TypeOK, RowInv, Executing, Active, Requests,
       RecordTarget, StopsFleet, catalogVars, nodeVars
<1>17. ASSUME NEW d \in Deployments, NEW b \in Bindings, SweepTarget(d, b)
      PROVE  RowInv'
  BY <1>17 DEF IndInv, TypeOK, RowInv, Executing, Active, Requests,
       SweepTarget, catalogVars, nodeVars
<1>18. ASSUME NEW d \in Deployments, CompletePushDeployment(d)
      PROVE  RowInv'
  BY <1>18 DEF IndInv, TypeOK, RowInv, Executing, Active, Requests,
       CompletePushDeployment, Return, FinalStatus, catalogVars, nodeVars
<1>19. ASSUME NEW d \in Deployments, StoreErrorEndsRun(d)
      PROVE  RowInv'
  BY <1>19 DEF IndInv, TypeOK, RowInv, Executing, Active, Requests,
       StoreErrorEndsRun, Return, ledgerVars, catalogVars, nodeVars
<1>20. ASSUME NEW d \in Deployments, NEW b \in Bindings, RemotePull(d, b)
      PROVE  RowInv'
  BY <1>20 DEF IndInv, TypeOK, RowInv, Executing, Active, Requests,
       RemotePull, processVars, ledgerVars, catalogVars
<1>21. ASSUME NEW d \in Deployments, NEW b \in Bindings, RemoteExit(d, b)
      PROVE  RowInv'
  BY <1>21 DEF IndInv, TypeOK, RowInv, Executing, Active, Requests,
       RemoteExit, processVars, ledgerVars, catalogVars
<1>22. ASSUME AdminStep PROVE RowInv'
  BY <1>22 DEF IndInv, TypeOK, RowInv, Executing, Active, Requests, AdminStep,
       UpdateBinding, PublishVersion, DeleteVersion, PutServerEntry,
       EditServerYAML, ReloadAllServerYAML, LoginReload, processVars,
       ledgerVars, nodeVars
<1>23. ASSUME BeginDeploymentDrain PROVE RowInv'
  BY <1>23 DEF IndInv, TypeOK, RowInv, Executing, Active, Requests,
       BeginDeploymentDrain, ledgerVars, catalogVars, nodeVars
<1>24. ASSUME CleanExit PROVE RowInv'
  BY <1>24 DEF IndInv, TypeOK, RowInv, Executing, Active, Requests, CleanExit,
       ProcessDies, LockFree, catalogVars, nodeVars
<1>25. ASSUME Crash PROVE RowInv'
  BY <1>25 DEF IndInv, TypeOK, RowInv, Executing, Active, Requests, Crash,
       ProcessDies, catalogVars, nodeVars
<1>26. ASSUME Restart PROVE RowInv'
  BY <1>26 DEF IndInv, TypeOK, RowInv, Executing, Active, Requests, Restart,
       Interruptible, Interrupted, nodeVars
<1>27. ASSUME UNCHANGED vars PROVE RowInv'
  BY <1>27 DEF IndInv, TypeOK, RowInv, Executing, Active, Requests, vars
<1>28. ASSUME NEW d \in Deployments, RequestStep(d) PROVE RowInv'
  BY <1>28, <1>1, <1>2, <1>3, <1>4, <1>5 DEF RequestStep
<1>29. ASSUME NEW d \in Deployments, RunStep(d) PROVE RowInv'
  BY <1>29, <1>6, <1>7, <1>8, <1>9, <1>10, <1>11, <1>12, <1>13, <1>14, <1>15,
       <1>16, <1>17, <1>18, <1>19 DEF RunStep
<1>30. ASSUME NEW d \in Deployments, NodeStep(d) PROVE RowInv'
  BY <1>30, <1>20, <1>21 DEF NodeStep
<1> QED
  BY <1>22, <1>23, <1>24, <1>25, <1>26, <1>27, <1>28, <1>29, <1>30 DEF Next, ProcessStep

\* Every step keeps the targets of a deployment consistent with its run and
\* with the commands issued.
LEMMA TargetStep == IndInv /\ [Next]_vars => TargetInv'
<1> SUFFICES ASSUME IndInv, [Next]_vars PROVE TargetInv'
  OBVIOUS
<1>1. ASSUME NEW d \in Deployments, NEW v \in Versions, NEW fleet \in (SUBSET Bindings) \ {{}},
                NEW k \in Keys \cup {Absent}, NEW dry \in BOOLEAN,
                FreezePushPlan(d, v, fleet, k, dry)
      PROVE  TargetInv'
  BY <1>1 DEF IndInv, TypeOK, RowInv, TargetInv, Executing, Active, AtTarget,
       Outcomes, Requests, Plans, FreezePushPlan, PushPlanDigest, Resolvable,
       catalogVars, nodeVars
<1>2. ASSUME NEW d \in Deployments, ReplayPushDeployment(d)
      PROVE  TargetInv'
  BY <1>2 DEF IndInv, TypeOK, RowInv, TargetInv, Executing, Active, AtTarget,
       Outcomes, Requests, Plans, ReplayPushDeployment, catalogVars, nodeVars
<1>3. ASSUME NEW d \in Deployments, CreatePushDeployment(d)
      PROVE  TargetInv'
  BY <1>3 DEF IndInv, TypeOK, RowInv, TargetInv, Executing, Active, AtTarget,
       Outcomes, Requests, Plans, CreatePushDeployment, catalogVars, nodeVars
<1>4. ASSUME NEW d \in Deployments, CompletePushDryRun(d)
      PROVE  TargetInv'
  BY <1>4 DEF IndInv, TypeOK, RowInv, TargetInv, Executing, Active, AtTarget,
       Outcomes, Requests, Plans, CompletePushDryRun, catalogVars, nodeVars
<1>5. ASSUME NEW d \in Deployments, RedispatchHook(d)
      PROVE  TargetInv'
  BY <1>5 DEF IndInv, TypeOK, RowInv, TargetInv, Executing, Active, AtTarget,
       Outcomes, Requests, Plans, RedispatchHook, ledgerVars, catalogVars,
       nodeVars
<1>6. ASSUME NEW d \in Deployments, NEW c \in Callers, ClaimDeployment(d, c)
      PROVE  TargetInv'
  BY <1>6 DEF IndInv, TypeOK, RowInv, TargetInv, Executing, Active, AtTarget,
       Outcomes, Requests, Plans, ClaimDeployment, LockFree, Claimable,
       catalogVars, nodeVars
<1>7. ASSUME NEW d \in Deployments, NEW c \in Callers, RefuseRun(d, c)
      PROVE  TargetInv'
  BY <1>7 DEF IndInv, TypeOK, RowInv, TargetInv, Executing, Active, AtTarget,
       Outcomes, Requests, Plans, RefuseRun, LockFree, Claimable, ledgerVars,
       catalogVars, nodeVars
<1>8. ASSUME NEW d \in Deployments, NEW b \in Bindings, ValidateTarget(d, b)
      PROVE  TargetInv'
  BY <1>8 DEF IndInv, TypeOK, RowInv, TargetInv, Executing, Active, AtTarget,
       Outcomes, Requests, Plans, ValidateTarget, ledgerVars, catalogVars,
       nodeVars
<1>9. ASSUME NEW d \in Deployments, FailBeforeExecution(d)
      PROVE  TargetInv'
  BY <1>9 DEF IndInv, TypeOK, RowInv, TargetInv, Executing, Active, AtTarget,
       Outcomes, Requests, Plans, FailBeforeExecution, ledgerVars,
       catalogVars, nodeVars
<1>10. ASSUME NEW d \in Deployments, FleetPrepared(d)
      PROVE  TargetInv'
  BY <1>10 DEF IndInv, TypeOK, RowInv, TargetInv, Executing, Active, AtTarget,
       Outcomes, Requests, Plans, FleetPrepared, ledgerVars, catalogVars,
       nodeVars
<1>11. ASSUME NEW d \in Deployments, NEW b \in Bindings, LaunchTarget(d, b)
      PROVE  TargetInv'
  BY <1>11 DEF IndInv, TypeOK, RowInv, TargetInv, Executing, Active, AtTarget,
       Outcomes, Requests, Plans, LaunchTarget, catalogVars, nodeVars
<1>12. ASSUME NEW d \in Deployments, DialFails(d)
      PROVE  TargetInv'
  BY <1>12 DEF IndInv, TypeOK, RowInv, TargetInv, Executing, Active, AtTarget,
       Outcomes, Requests, Plans, DialFails, ledgerVars, catalogVars, nodeVars
<1>13. ASSUME NEW d \in Deployments, StartSession(d)
      PROVE  TargetInv'
  BY <1>13 DEF IndInv, TypeOK, RowInv, TargetInv, Executing, Active, AtTarget,
       Outcomes, Requests, Plans, StartSession, ledgerVars, catalogVars
<1>14. ASSUME NEW d \in Deployments, SessionEnds(d)
      PROVE  TargetInv'
  BY <1>14 DEF IndInv, TypeOK, RowInv, TargetInv, Executing, Active, AtTarget,
       Outcomes, Requests, Plans, SessionEnds, ledgerVars, catalogVars,
       nodeVars
<1>15. ASSUME NEW d \in Deployments, SessionLost(d)
      PROVE  TargetInv'
  BY <1>15 DEF IndInv, TypeOK, RowInv, TargetInv, Executing, Active, AtTarget,
       Outcomes, Requests, Plans, SessionLost, ledgerVars, catalogVars,
       nodeVars
<1>16. ASSUME NEW d \in Deployments, RecordTarget(d)
      PROVE  TargetInv'
  BY <1>16 DEF IndInv, TypeOK, RowInv, TargetInv, Executing, Active, AtTarget,
       Outcomes, Requests, Plans, RecordTarget, StopsFleet, catalogVars,
       nodeVars
<1>17. ASSUME NEW d \in Deployments, NEW b \in Bindings, SweepTarget(d, b)
      PROVE  TargetInv'
  BY <1>17 DEF IndInv, TypeOK, RowInv, TargetInv, Executing, Active, AtTarget,
       Outcomes, Requests, Plans, SweepTarget, catalogVars, nodeVars
<1>18. ASSUME NEW d \in Deployments, CompletePushDeployment(d)
      PROVE  TargetInv'
  BY <1>18 DEF IndInv, TypeOK, RowInv, TargetInv, Executing, Active, AtTarget,
       Outcomes, Requests, Plans, CompletePushDeployment, Return, FinalStatus,
       catalogVars, nodeVars
<1>19. ASSUME NEW d \in Deployments, StoreErrorEndsRun(d)
      PROVE  TargetInv'
  BY <1>19 DEF IndInv, TypeOK, RowInv, TargetInv, Executing, Active, AtTarget,
       Outcomes, Requests, Plans, StoreErrorEndsRun, Return, ledgerVars,
       catalogVars, nodeVars
<1>20. ASSUME NEW d \in Deployments, NEW b \in Bindings, RemotePull(d, b)
      PROVE  TargetInv'
  <2>1. pulled[d][b] \in Plans /\ issued[d][b] # 0
    BY <1>20 DEF RemotePull, IndInv, TargetInv, TypeOK
  <2>2. status[d] # "absent" /\ request[d] \in Requests
    BY <1>20 DEF RemotePull, IndInv, RowInv, TargetInv
  <2>3. [artifact |-> artifact[request[d].version], setting |-> pulled[d][b].setting,
         entry |-> cache[b]] \in Plans
    BY <2>1, <2>2 DEF Plans, Requests, IndInv, TypeOK
  <2>4. \A e \in Deployments, t \in Bindings :
           remote'[e][t] # "none" => remote[e][t] # "none" /\ pulled'[e][t] \in Plans
    BY <1>20, <2>3 DEF RemotePull, IndInv, TypeOK, TargetInv
  <2>5. \A e \in Deployments, t \in Bindings :
           remote'[e][t] = "none" <=> remote[e][t] = "none"
    BY <1>20 DEF RemotePull, IndInv, TypeOK
  <2> QED
    BY <1>20, <2>4, <2>5 DEF RemotePull, IndInv, TargetInv, processVars, ledgerVars,
       catalogVars
<1>21. ASSUME NEW d \in Deployments, NEW b \in Bindings, RemoteExit(d, b)
      PROVE  TargetInv'
  <2>1. \A e \in Deployments, t \in Bindings :
           remote'[e][t] = "none" <=> remote[e][t] = "none"
    <3>1. CASE remote[d][b] = "pulled" /\ remote' = [remote EXCEPT ![d][b] = "ok"]
      BY <3>1 DEF IndInv, TypeOK
    <3>2. CASE /\ remote[d][b] \in {"started", "pulled"}
               /\ remote' = [remote EXCEPT ![d][b] = "error"]
      BY <3>2 DEF IndInv, TypeOK
    <3> QED
      BY <1>21, <3>1, <3>2 DEF RemoteExit
  <2> QED
    BY <1>21, <2>1 DEF RemoteExit, IndInv, TargetInv, processVars, ledgerVars, catalogVars
<1>22. ASSUME AdminStep PROVE TargetInv'
  BY <1>22 DEF IndInv, TypeOK, RowInv, TargetInv, Executing, Active, AtTarget,
       Outcomes, Requests, Plans, AdminStep, UpdateBinding, PublishVersion,
       DeleteVersion, PutServerEntry, EditServerYAML, ReloadAllServerYAML,
       LoginReload, processVars, ledgerVars, nodeVars
<1>23. ASSUME BeginDeploymentDrain PROVE TargetInv'
  BY <1>23 DEF IndInv, TypeOK, RowInv, TargetInv, Executing, Active, AtTarget,
       Outcomes, Requests, Plans, BeginDeploymentDrain, ledgerVars,
       catalogVars, nodeVars
<1>24. ASSUME CleanExit PROVE TargetInv'
  BY <1>24 DEF IndInv, TypeOK, RowInv, TargetInv, Executing, Active, AtTarget,
       Outcomes, Requests, Plans, CleanExit, ProcessDies, LockFree,
       catalogVars, nodeVars
<1>25. ASSUME Crash PROVE TargetInv'
  BY <1>25 DEF IndInv, TypeOK, RowInv, TargetInv, Executing, Active, AtTarget,
       Outcomes, Requests, Plans, Crash, ProcessDies, catalogVars, nodeVars
<1>26. ASSUME Restart PROVE TargetInv'
  BY <1>26 DEF IndInv, TypeOK, RowInv, TargetInv, Executing, Active, AtTarget,
       Outcomes, Requests, Plans, Restart, Interruptible, Interrupted,
       nodeVars
<1>27. ASSUME UNCHANGED vars PROVE TargetInv'
  BY <1>27 DEF IndInv, TypeOK, RowInv, TargetInv, Executing, Active, AtTarget,
       Outcomes, Requests, Plans, vars
<1>28. ASSUME NEW d \in Deployments, RequestStep(d) PROVE TargetInv'
  BY <1>28, <1>1, <1>2, <1>3, <1>4, <1>5 DEF RequestStep
<1>29. ASSUME NEW d \in Deployments, RunStep(d) PROVE TargetInv'
  BY <1>29, <1>6, <1>7, <1>8, <1>9, <1>10, <1>11, <1>12, <1>13, <1>14, <1>15,
       <1>16, <1>17, <1>18, <1>19 DEF RunStep
<1>30. ASSUME NEW d \in Deployments, NodeStep(d) PROVE TargetInv'
  BY <1>30, <1>20, <1>21 DEF NodeStep
<1> QED
  BY <1>22, <1>23, <1>24, <1>25, <1>26, <1>27, <1>28, <1>29, <1>30 DEF Next, ProcessStep

\* Every step leaves the fleet at the first target without a success.
LEMMA StopStep == IndInv /\ [Next]_vars => StopInv'
<1> SUFFICES ASSUME IndInv, [Next]_vars PROVE StopInv'
  OBVIOUS
<1>1. ASSUME NEW d \in Deployments, NEW v \in Versions, NEW fleet \in (SUBSET Bindings) \ {{}},
                NEW k \in Keys \cup {Absent}, NEW dry \in BOOLEAN,
                FreezePushPlan(d, v, fleet, k, dry)
      PROVE  StopInv'
  BY <1>1 DEF IndInv, TypeOK, RowInv, TargetInv, StopInv, FailStop, Executing,
       Active, AtTarget, Outcomes, Requests, Plans, FreezePushPlan,
       PushPlanDigest, Resolvable, catalogVars, nodeVars
<1>2. ASSUME NEW d \in Deployments, ReplayPushDeployment(d)
      PROVE  StopInv'
  BY <1>2 DEF IndInv, TypeOK, RowInv, TargetInv, StopInv, FailStop, Executing,
       Active, AtTarget, Outcomes, Requests, Plans, ReplayPushDeployment,
       catalogVars, nodeVars
<1>3. ASSUME NEW d \in Deployments, CreatePushDeployment(d)
      PROVE  StopInv'
  BY <1>3 DEF IndInv, TypeOK, RowInv, TargetInv, StopInv, FailStop, Executing,
       Active, AtTarget, Outcomes, Requests, Plans, CreatePushDeployment,
       catalogVars, nodeVars
<1>4. ASSUME NEW d \in Deployments, CompletePushDryRun(d)
      PROVE  StopInv'
  BY <1>4 DEF IndInv, TypeOK, RowInv, TargetInv, StopInv, FailStop, Executing,
       Active, AtTarget, Outcomes, Requests, Plans, CompletePushDryRun,
       catalogVars, nodeVars
<1>5. ASSUME NEW d \in Deployments, RedispatchHook(d)
      PROVE  StopInv'
  BY <1>5 DEF IndInv, TypeOK, RowInv, TargetInv, StopInv, FailStop, Executing,
       Active, AtTarget, Outcomes, Requests, Plans, RedispatchHook,
       ledgerVars, catalogVars, nodeVars
<1>6. ASSUME NEW d \in Deployments, NEW c \in Callers, ClaimDeployment(d, c)
      PROVE  StopInv'
  <2>1. \A t \in Bindings : issued[d][t] = 0
    BY <1>6 DEF ClaimDeployment, LockFree, Claimable, IndInv, TargetInv
  <2> QED
    BY <1>6, <2>1 DEF IndInv, TypeOK, RowInv, TargetInv, StopInv, FailStop, Executing,
       Active, AtTarget, Outcomes, Requests, Plans, ClaimDeployment, LockFree,
       Claimable, catalogVars, nodeVars
<1>7. ASSUME NEW d \in Deployments, NEW c \in Callers, RefuseRun(d, c)
      PROVE  StopInv'
  BY <1>7 DEF IndInv, TypeOK, RowInv, TargetInv, StopInv, FailStop, Executing,
       Active, AtTarget, Outcomes, Requests, Plans, RefuseRun, LockFree,
       Claimable, ledgerVars, catalogVars, nodeVars
<1>8. ASSUME NEW d \in Deployments, NEW b \in Bindings, ValidateTarget(d, b)
      PROVE  StopInv'
  BY <1>8 DEF IndInv, TypeOK, RowInv, TargetInv, StopInv, FailStop, Executing,
       Active, AtTarget, Outcomes, Requests, Plans, ValidateTarget,
       ledgerVars, catalogVars, nodeVars
<1>9. ASSUME NEW d \in Deployments, FailBeforeExecution(d)
      PROVE  StopInv'
  BY <1>9 DEF IndInv, TypeOK, RowInv, TargetInv, StopInv, FailStop, Executing,
       Active, AtTarget, Outcomes, Requests, Plans, FailBeforeExecution,
       ledgerVars, catalogVars, nodeVars
<1>10. ASSUME NEW d \in Deployments, FleetPrepared(d)
      PROVE  StopInv'
  BY <1>10 DEF IndInv, TypeOK, RowInv, TargetInv, StopInv, FailStop,
       Executing, Active, AtTarget, Outcomes, Requests, Plans, FleetPrepared,
       ledgerVars, catalogVars, nodeVars
<1>11. ASSUME NEW d \in Deployments, NEW b \in Bindings, LaunchTarget(d, b)
      PROVE  StopInv'
  BY <1>11 DEF IndInv, TypeOK, RowInv, TargetInv, StopInv, FailStop,
       Executing, Active, AtTarget, Outcomes, Requests, Plans, LaunchTarget,
       catalogVars, nodeVars
<1>12. ASSUME NEW d \in Deployments, DialFails(d)
      PROVE  StopInv'
  BY <1>12 DEF IndInv, TypeOK, RowInv, TargetInv, StopInv, FailStop,
       Executing, Active, AtTarget, Outcomes, Requests, Plans, DialFails,
       ledgerVars, catalogVars, nodeVars
<1>13. ASSUME NEW d \in Deployments, StartSession(d)
      PROVE  StopInv'
  BY <1>13 DEF IndInv, TypeOK, RowInv, TargetInv, StopInv, FailStop,
       Executing, Active, AtTarget, Outcomes, Requests, Plans, StartSession,
       ledgerVars, catalogVars
<1>14. ASSUME NEW d \in Deployments, SessionEnds(d)
      PROVE  StopInv'
  BY <1>14 DEF IndInv, TypeOK, RowInv, TargetInv, StopInv, FailStop,
       Executing, Active, AtTarget, Outcomes, Requests, Plans, SessionEnds,
       ledgerVars, catalogVars, nodeVars
<1>15. ASSUME NEW d \in Deployments, SessionLost(d)
      PROVE  StopInv'
  BY <1>15 DEF IndInv, TypeOK, RowInv, TargetInv, StopInv, FailStop,
       Executing, Active, AtTarget, Outcomes, Requests, Plans, SessionLost,
       ledgerVars, catalogVars, nodeVars
<1>16. ASSUME NEW d \in Deployments, RecordTarget(d)
      PROVE  StopInv'
  BY <1>16 DEF IndInv, TypeOK, RowInv, TargetInv, StopInv, FailStop,
       Executing, Active, AtTarget, Outcomes, Requests, Plans, RecordTarget,
       StopsFleet, catalogVars, nodeVars
<1>17. ASSUME NEW d \in Deployments, NEW b \in Bindings, SweepTarget(d, b)
      PROVE  StopInv'
  <2>1. issued[d][b] = 0
    BY <1>17 DEF SweepTarget, IndInv, TargetInv
  <2>2. \A e \in Deployments, t \in Bindings :
           issued[e][t] > 0 => tstat'[e][t] = tstat[e][t]
    <3>1. CASE tstat' = [tstat EXCEPT ![d][b] = result[d]]
      BY <3>1, <2>1 DEF IndInv, TypeOK
    <3>2. CASE UNCHANGED tstat
      BY <3>2
    <3> QED
      BY <1>17, <3>1, <3>2 DEF SweepTarget
  <2> QED
    BY <1>17, <2>2 DEF SweepTarget, IndInv, StopInv, FailStop, Executing, nodeVars
<1>18. ASSUME NEW d \in Deployments, CompletePushDeployment(d)
      PROVE  StopInv'
  BY <1>18 DEF IndInv, TypeOK, RowInv, TargetInv, StopInv, FailStop,
       Executing, Active, AtTarget, Outcomes, Requests, Plans,
       CompletePushDeployment, Return, FinalStatus, catalogVars, nodeVars
<1>19. ASSUME NEW d \in Deployments, StoreErrorEndsRun(d)
      PROVE  StopInv'
  BY <1>19 DEF IndInv, TypeOK, RowInv, TargetInv, StopInv, FailStop,
       Executing, Active, AtTarget, Outcomes, Requests, Plans,
       StoreErrorEndsRun, Return, ledgerVars, catalogVars, nodeVars
<1>20. ASSUME NEW d \in Deployments, NEW b \in Bindings, RemotePull(d, b)
      PROVE  StopInv'
  BY <1>20 DEF IndInv, TypeOK, RowInv, TargetInv, StopInv, FailStop,
       Executing, Active, AtTarget, Outcomes, Requests, Plans, RemotePull,
       processVars, ledgerVars, catalogVars
<1>21. ASSUME NEW d \in Deployments, NEW b \in Bindings, RemoteExit(d, b)
      PROVE  StopInv'
  BY <1>21 DEF IndInv, TypeOK, RowInv, TargetInv, StopInv, FailStop,
       Executing, Active, AtTarget, Outcomes, Requests, Plans, RemoteExit,
       processVars, ledgerVars, catalogVars
<1>22. ASSUME AdminStep PROVE StopInv'
  BY <1>22 DEF IndInv, TypeOK, RowInv, TargetInv, StopInv, FailStop,
       Executing, Active, AtTarget, Outcomes, Requests, Plans, AdminStep,
       UpdateBinding, PublishVersion, DeleteVersion, PutServerEntry,
       EditServerYAML, ReloadAllServerYAML, LoginReload, processVars,
       ledgerVars, nodeVars
<1>23. ASSUME BeginDeploymentDrain PROVE StopInv'
  BY <1>23 DEF IndInv, TypeOK, RowInv, TargetInv, StopInv, FailStop,
       Executing, Active, AtTarget, Outcomes, Requests, Plans,
       BeginDeploymentDrain, ledgerVars, catalogVars, nodeVars
<1>24. ASSUME CleanExit PROVE StopInv'
  BY <1>24 DEF IndInv, TypeOK, RowInv, TargetInv, StopInv, FailStop,
       Executing, Active, AtTarget, Outcomes, Requests, Plans, CleanExit,
       ProcessDies, LockFree, catalogVars, nodeVars
<1>25. ASSUME Crash PROVE StopInv'
  BY <1>25 DEF IndInv, TypeOK, RowInv, TargetInv, StopInv, FailStop,
       Executing, Active, AtTarget, Outcomes, Requests, Plans, Crash,
       ProcessDies, catalogVars, nodeVars
<1>26. ASSUME Restart PROVE StopInv'
  BY <1>26 DEF IndInv, TypeOK, RowInv, TargetInv, StopInv, FailStop,
       Executing, Active, AtTarget, Outcomes, Requests, Plans, Restart,
       Interruptible, Interrupted, nodeVars
<1>27. ASSUME UNCHANGED vars PROVE StopInv'
  BY <1>27 DEF IndInv, TypeOK, RowInv, TargetInv, StopInv, FailStop,
       Executing, Active, AtTarget, Outcomes, Requests, Plans, vars
<1>28. ASSUME NEW d \in Deployments, RequestStep(d) PROVE StopInv'
  BY <1>28, <1>1, <1>2, <1>3, <1>4, <1>5 DEF RequestStep
<1>29. ASSUME NEW d \in Deployments, RunStep(d) PROVE StopInv'
  BY <1>29, <1>6, <1>7, <1>8, <1>9, <1>10, <1>11, <1>12, <1>13, <1>14, <1>15,
       <1>16, <1>17, <1>18, <1>19 DEF RunStep
<1>30. ASSUME NEW d \in Deployments, NodeStep(d) PROVE StopInv'
  BY <1>30, <1>20, <1>21 DEF NodeStep
<1> QED
  BY <1>22, <1>23, <1>24, <1>25, <1>26, <1>27, <1>28, <1>29, <1>30 DEF Next, ProcessStep

\* Without hand edits, every step keeps what is applied equal to what was
\* frozen.
LEMMA FrozenStep == IndInv /\ FrozenInv /\ ~HandEdits /\ [Next]_vars => FrozenInv'
<1> SUFFICES ASSUME IndInv, FrozenInv, ~HandEdits, [Next]_vars PROVE FrozenInv'
  OBVIOUS
<1>1. ASSUME NEW d \in Deployments, NEW v \in Versions, NEW fleet \in (SUBSET Bindings) \ {{}},
                NEW k \in Keys \cup {Absent}, NEW dry \in BOOLEAN,
                FreezePushPlan(d, v, fleet, k, dry)
      PROVE  FrozenInv'
  <2>1. (disk = cache)'
    BY <1>1 DEF FreezePushPlan, PushPlanDigest, Resolvable, catalogVars,
         nodeVars, IndInv, TypeOK, RowInv, TargetInv, FrozenInv, RowInv,
         Executing, Active, AtTarget
  <2>2. SnapshotInv'
    <3>1. \A e \in Deployments :
             /\ pc'[e] \notin Active => pc[e] \notin Active
             /\ pc'[e] \in Executing =>
                   pc[e] \in Executing /\ request'[e] = request[e] /\ plan'[e] = plan[e]
      BY <1>1 DEF FreezePushPlan, IndInv, TypeOK, Executing, Active
    <3>2. UNCHANGED <<snapshot, artifact, cache>>
      BY <1>1 DEF FreezePushPlan, catalogVars
    <3> QED
      BY <3>1, <3>2, ZenonT(60) DEF FrozenInv, SnapshotInv, Active, Executing
  <2>3. PreparedInv'
    BY <1>1 DEF FreezePushPlan, PushPlanDigest, Resolvable, catalogVars,
         nodeVars, IndInv, TypeOK, RowInv, TargetInv, FrozenInv, PreparedInv,
         Executing, Active, AtTarget
  <2>4. CommandInv'
    BY <1>1 DEF FreezePushPlan, PushPlanDigest, Resolvable, catalogVars,
         nodeVars, IndInv, TypeOK, RowInv, TargetInv, FrozenInv, CommandInv,
         Executing, Active, AtTarget
  <2>5. SuccessInv'
    BY <1>1 DEF FreezePushPlan, PushPlanDigest, Resolvable, catalogVars,
         nodeVars, IndInv, TypeOK, RowInv, TargetInv, FrozenInv, SuccessInv,
         Executing, Active, AtTarget
  <2> QED
    BY <2>1, <2>2, <2>3, <2>4, <2>5 DEF FrozenInv
<1>2. ASSUME NEW d \in Deployments, ReplayPushDeployment(d)
      PROVE  FrozenInv'
  <2>1. (disk = cache)'
    BY <1>2 DEF ReplayPushDeployment, catalogVars, nodeVars, IndInv, TypeOK,
         RowInv, TargetInv, FrozenInv, RowInv, Executing, Active, AtTarget
  <2>2. SnapshotInv'
    <3>1. \A e \in Deployments :
             /\ pc'[e] \notin Active => pc[e] \notin Active
             /\ pc'[e] \in Executing =>
                   pc[e] \in Executing /\ request'[e] = request[e] /\ plan'[e] = plan[e]
      BY <1>2 DEF ReplayPushDeployment, IndInv, TypeOK, Executing, Active
    <3>2. UNCHANGED <<snapshot, artifact, cache>>
      BY <1>2 DEF ReplayPushDeployment, catalogVars
    <3> QED
      BY <3>1, <3>2 DEF FrozenInv, SnapshotInv, Active, Executing
  <2>3. PreparedInv'
    BY <1>2 DEF ReplayPushDeployment, catalogVars, nodeVars, IndInv, TypeOK,
         RowInv, TargetInv, FrozenInv, PreparedInv, Executing, Active,
         AtTarget
  <2>4. CommandInv'
    BY <1>2 DEF ReplayPushDeployment, catalogVars, nodeVars, IndInv, TypeOK,
         RowInv, TargetInv, FrozenInv, CommandInv, Executing, Active, AtTarget
  <2>5. SuccessInv'
    BY <1>2 DEF ReplayPushDeployment, catalogVars, nodeVars, IndInv, TypeOK,
         RowInv, TargetInv, FrozenInv, SuccessInv, Executing, Active, AtTarget
  <2> QED
    BY <2>1, <2>2, <2>3, <2>4, <2>5 DEF FrozenInv
<1>3. ASSUME NEW d \in Deployments, CreatePushDeployment(d)
      PROVE  FrozenInv'
  <2>1. (disk = cache)'
    BY <1>3 DEF CreatePushDeployment, catalogVars, nodeVars, IndInv, TypeOK,
         RowInv, TargetInv, FrozenInv, RowInv, Executing, Active, AtTarget
  <2>2. SnapshotInv'
    <3>1. \A e \in Deployments :
             /\ pc'[e] \notin Active => pc[e] \notin Active
             /\ pc'[e] \in Executing => pc[e] \in Executing
      <4>1. \E p \in {"dry", "idle"} : pc' = [pc EXCEPT ![d] = p]
        BY <1>3, Zenon DEF CreatePushDeployment
      <4> QED
        BY <1>3, <4>1 DEF CreatePushDeployment, IndInv, TypeOK, Executing, Active
    <3>2. UNCHANGED <<snapshot, request, plan, artifact, cache>>
      BY <1>3 DEF CreatePushDeployment, catalogVars
    <3> QED
      BY <3>1, <3>2 DEF FrozenInv, SnapshotInv, Active, Executing
  <2>3. PreparedInv'
    BY <1>3 DEF CreatePushDeployment, catalogVars, nodeVars, IndInv, TypeOK,
         RowInv, TargetInv, FrozenInv, PreparedInv, Executing, Active,
         AtTarget
  <2>4. CommandInv'
    BY <1>3 DEF CreatePushDeployment, catalogVars, nodeVars, IndInv, TypeOK,
         RowInv, TargetInv, FrozenInv, CommandInv, Executing, Active, AtTarget
  <2>5. SuccessInv'
    BY <1>3 DEF CreatePushDeployment, catalogVars, nodeVars, IndInv, TypeOK,
         RowInv, TargetInv, FrozenInv, SuccessInv, Executing, Active, AtTarget
  <2> QED
    BY <2>1, <2>2, <2>3, <2>4, <2>5 DEF FrozenInv
<1>4. ASSUME NEW d \in Deployments, CompletePushDryRun(d)
      PROVE  FrozenInv'
  <2>1. (disk = cache)'
    BY <1>4 DEF CompletePushDryRun, catalogVars, nodeVars, IndInv, TypeOK,
         RowInv, TargetInv, FrozenInv, RowInv, Executing, Active, AtTarget
  <2>2. SnapshotInv'
    BY <1>4 DEF CompletePushDryRun, catalogVars, nodeVars, IndInv, TypeOK,
         RowInv, TargetInv, FrozenInv, SnapshotInv, Executing, Active,
         AtTarget
  <2>3. PreparedInv'
    BY <1>4 DEF CompletePushDryRun, catalogVars, nodeVars, IndInv, TypeOK,
         RowInv, TargetInv, FrozenInv, PreparedInv, Executing, Active,
         AtTarget
  <2>4. CommandInv'
    BY <1>4 DEF CompletePushDryRun, catalogVars, nodeVars, IndInv, TypeOK,
         RowInv, TargetInv, FrozenInv, CommandInv, Executing, Active, AtTarget
  <2>5. SuccessInv'
    BY <1>4 DEF CompletePushDryRun, catalogVars, nodeVars, IndInv, TypeOK,
         RowInv, TargetInv, FrozenInv, SuccessInv, Executing, Active, AtTarget
  <2> QED
    BY <2>1, <2>2, <2>3, <2>4, <2>5 DEF FrozenInv
<1>5. ASSUME NEW d \in Deployments, RedispatchHook(d)
      PROVE  FrozenInv'
  BY <1>5 DEF IndInv, TypeOK, RowInv, TargetInv, FrozenInv, SnapshotInv,
       PreparedInv, CommandInv, SuccessInv, Executing, Active, AtTarget,
       Outcomes, Requests, Plans, RedispatchHook, ledgerVars, catalogVars,
       nodeVars
<1>6. ASSUME NEW d \in Deployments, NEW c \in Callers, ClaimDeployment(d, c)
      PROVE  FrozenInv'
  BY <1>6 DEF IndInv, TypeOK, RowInv, TargetInv, FrozenInv, SnapshotInv,
       PreparedInv, CommandInv, SuccessInv, Executing, Active, AtTarget,
       Outcomes, Requests, Plans, ClaimDeployment, LockFree, Claimable,
       catalogVars, nodeVars
<1>7. ASSUME NEW d \in Deployments, NEW c \in Callers, RefuseRun(d, c)
      PROVE  FrozenInv'
  BY <1>7 DEF IndInv, TypeOK, RowInv, TargetInv, FrozenInv, SnapshotInv,
       PreparedInv, CommandInv, SuccessInv, Executing, Active, AtTarget,
       Outcomes, Requests, Plans, RefuseRun, LockFree, Claimable, ledgerVars,
       catalogVars, nodeVars
<1>8. ASSUME NEW d \in Deployments, NEW b \in Bindings, ValidateTarget(d, b)
      PROVE  FrozenInv'
  <2>1. (disk = cache)'
    BY <1>8 DEF ValidateTarget, ledgerVars, catalogVars, nodeVars, IndInv,
         TypeOK, RowInv, TargetInv, FrozenInv, RowInv, Executing, Active,
         AtTarget
  <2>2. SnapshotInv'
    BY <1>8, AbsentAssumption DEF ValidateTarget, ledgerVars, catalogVars,
         nodeVars, IndInv, TypeOK, RowInv, TargetInv, FrozenInv, SnapshotInv,
         Executing, Active, AtTarget, PlanHolds, Resolvable, PushPlanDigest
  <2>3. PreparedInv'
    BY <1>8 DEF ValidateTarget, ledgerVars, catalogVars, nodeVars, IndInv,
         TypeOK, RowInv, TargetInv, FrozenInv, PreparedInv, Executing, Active,
         AtTarget
  <2>4. CommandInv'
    BY <1>8 DEF ValidateTarget, ledgerVars, catalogVars, nodeVars, IndInv,
         TypeOK, RowInv, TargetInv, FrozenInv, CommandInv, Executing, Active,
         AtTarget
  <2>5. SuccessInv'
    BY <1>8 DEF ValidateTarget, ledgerVars, catalogVars, nodeVars, IndInv,
         TypeOK, RowInv, TargetInv, FrozenInv, SuccessInv, Executing, Active,
         AtTarget
  <2> QED
    BY <2>1, <2>2, <2>3, <2>4, <2>5 DEF FrozenInv
<1>9. ASSUME NEW d \in Deployments, FailBeforeExecution(d)
      PROVE  FrozenInv'
  BY <1>9 DEF IndInv, TypeOK, RowInv, TargetInv, FrozenInv, SnapshotInv,
       PreparedInv, CommandInv, SuccessInv, Executing, Active, AtTarget,
       Outcomes, Requests, Plans, FailBeforeExecution, ledgerVars,
       catalogVars, nodeVars
<1>10. ASSUME NEW d \in Deployments, FleetPrepared(d)
      PROVE  FrozenInv'
  BY <1>10 DEF IndInv, TypeOK, RowInv, TargetInv, FrozenInv, SnapshotInv,
       PreparedInv, CommandInv, SuccessInv, Executing, Active, AtTarget,
       Outcomes, Requests, Plans, FleetPrepared, ledgerVars, catalogVars,
       nodeVars
<1>11. ASSUME NEW d \in Deployments, NEW b \in Bindings, LaunchTarget(d, b)
      PROVE  FrozenInv'
  BY <1>11 DEF IndInv, TypeOK, RowInv, TargetInv, FrozenInv, SnapshotInv,
       PreparedInv, CommandInv, SuccessInv, Executing, Active, AtTarget,
       Outcomes, Requests, Plans, LaunchTarget, catalogVars, nodeVars
<1>12. ASSUME NEW d \in Deployments, DialFails(d)
      PROVE  FrozenInv'
  BY <1>12 DEF IndInv, TypeOK, RowInv, TargetInv, FrozenInv, SnapshotInv,
       PreparedInv, CommandInv, SuccessInv, Executing, Active, AtTarget,
       Outcomes, Requests, Plans, DialFails, ledgerVars, catalogVars, nodeVars
<1>13. ASSUME NEW d \in Deployments, StartSession(d)
      PROVE  FrozenInv'
  BY <1>13 DEF IndInv, TypeOK, RowInv, TargetInv, FrozenInv, SnapshotInv,
       PreparedInv, CommandInv, SuccessInv, Executing, Active, AtTarget,
       Outcomes, Requests, Plans, StartSession, ledgerVars, catalogVars
<1>14. ASSUME NEW d \in Deployments, SessionEnds(d)
      PROVE  FrozenInv'
  BY <1>14 DEF IndInv, TypeOK, RowInv, TargetInv, FrozenInv, SnapshotInv,
       PreparedInv, CommandInv, SuccessInv, Executing, Active, AtTarget,
       Outcomes, Requests, Plans, SessionEnds, ledgerVars, catalogVars,
       nodeVars
<1>15. ASSUME NEW d \in Deployments, SessionLost(d)
      PROVE  FrozenInv'
  BY <1>15 DEF IndInv, TypeOK, RowInv, TargetInv, FrozenInv, SnapshotInv,
       PreparedInv, CommandInv, SuccessInv, Executing, Active, AtTarget,
       Outcomes, Requests, Plans, SessionLost, ledgerVars, catalogVars,
       nodeVars
<1>16. ASSUME NEW d \in Deployments, RecordTarget(d)
      PROVE  FrozenInv'
  <2>1. (disk = cache)'
    BY <1>16 DEF RecordTarget, StopsFleet, catalogVars, nodeVars, IndInv,
         TypeOK, RowInv, TargetInv, FrozenInv, RowInv, Executing, Active,
         AtTarget
  <2>2. SnapshotInv'
    BY <1>16 DEF RecordTarget, StopsFleet, catalogVars, nodeVars, IndInv,
         TypeOK, RowInv, TargetInv, FrozenInv, SnapshotInv, Executing, Active,
         AtTarget
  <2>3. PreparedInv'
    BY <1>16 DEF RecordTarget, StopsFleet, catalogVars, nodeVars, IndInv,
         TypeOK, RowInv, TargetInv, FrozenInv, PreparedInv, Executing, Active,
         AtTarget
  <2>4. CommandInv'
    <3>1. \A e \in Deployments : pc'[e] \in {"remote", "recording"} =>
             pc'[e] = pc[e] /\ result'[e] = result[e]
      <4>1. \E p \in {"next", "sweeping"}, r \in Outcomes :
               pc' = [pc EXCEPT ![d] = p] /\ result' \in {result, [result EXCEPT ![d] = r]}
        BY <1>16, Zenon DEF RecordTarget, StopsFleet, Outcomes
      <4> QED
        BY <4>1 DEF IndInv, TypeOK
    <3> QED
      BY <1>16, <3>1 DEF RecordTarget, StopsFleet, catalogVars, nodeVars, FrozenInv,
         CommandInv
  <2>5. SuccessInv'
    <3>1. \A e \in Deployments, t \in Bindings : tstat'[e][t] = "success" =>
             tstat[e][t] = "success" \/ (e = d /\ t = target[d] /\ result[d] = "success")
      BY <1>16 DEF RecordTarget, StopsFleet, IndInv, TypeOK
    <3> QED
      BY <1>16, <3>1 DEF RecordTarget, StopsFleet, catalogVars, nodeVars, FrozenInv,
         CommandInv, SuccessInv
  <2> QED
    BY <2>1, <2>2, <2>3, <2>4, <2>5 DEF FrozenInv
<1>17. ASSUME NEW d \in Deployments, NEW b \in Bindings, SweepTarget(d, b)
      PROVE  FrozenInv'
  <2>1. (disk = cache)'
    BY <1>17 DEF SweepTarget, catalogVars, nodeVars, IndInv, TypeOK, RowInv,
         TargetInv, FrozenInv, RowInv, Executing, Active, AtTarget
  <2>2. SnapshotInv'
    BY <1>17 DEF SweepTarget, catalogVars, nodeVars, IndInv, TypeOK, RowInv,
         TargetInv, FrozenInv, SnapshotInv, Executing, Active, AtTarget
  <2>3. PreparedInv'
    BY <1>17 DEF SweepTarget, catalogVars, nodeVars, IndInv, TypeOK, RowInv,
         TargetInv, FrozenInv, PreparedInv, Executing, Active, AtTarget
  <2>4. CommandInv'
    BY <1>17 DEF SweepTarget, catalogVars, nodeVars, IndInv, TypeOK, RowInv,
         TargetInv, FrozenInv, CommandInv, Executing, Active, AtTarget
  <2>5. SuccessInv'
    <3>1. \A e \in Deployments, t \in Bindings : tstat'[e][t] = "success" =>
             tstat[e][t] = "success" \/ (e = d /\ result[d] = "success")
      <4>1. CASE tstat' = [tstat EXCEPT ![d][b] = result[d]]
        BY <4>1 DEF IndInv, TypeOK
      <4>2. CASE UNCHANGED tstat
        BY <4>2
      <4> QED
        BY <1>17, <4>1, <4>2 DEF SweepTarget
    <3> QED
      BY <1>17, <3>1 DEF SweepTarget, catalogVars, nodeVars, FrozenInv, PreparedInv,
         SuccessInv
  <2> QED
    BY <2>1, <2>2, <2>3, <2>4, <2>5 DEF FrozenInv
<1>18. ASSUME NEW d \in Deployments, CompletePushDeployment(d)
      PROVE  FrozenInv'
  BY <1>18 DEF IndInv, TypeOK, RowInv, TargetInv, FrozenInv, SnapshotInv,
       PreparedInv, CommandInv, SuccessInv, Executing, Active, AtTarget,
       Outcomes, Requests, Plans, CompletePushDeployment, Return, FinalStatus,
       catalogVars, nodeVars
<1>19. ASSUME NEW d \in Deployments, StoreErrorEndsRun(d)
      PROVE  FrozenInv'
  BY <1>19 DEF IndInv, TypeOK, RowInv, TargetInv, FrozenInv, SnapshotInv,
       PreparedInv, CommandInv, SuccessInv, Executing, Active, AtTarget,
       Outcomes, Requests, Plans, StoreErrorEndsRun, Return, ledgerVars,
       catalogVars, nodeVars
<1>20. ASSUME NEW d \in Deployments, NEW b \in Bindings, RemotePull(d, b)
      PROVE  FrozenInv'
  BY <1>20 DEF IndInv, TypeOK, RowInv, TargetInv, FrozenInv, SnapshotInv,
       PreparedInv, CommandInv, SuccessInv, Executing, Active, AtTarget,
       Outcomes, Requests, Plans, RemotePull, processVars, ledgerVars,
       catalogVars
<1>21. ASSUME NEW d \in Deployments, NEW b \in Bindings, RemoteExit(d, b)
      PROVE  FrozenInv'
  <2>1. (disk = cache)'
    BY <1>21 DEF RemoteExit, processVars, ledgerVars, catalogVars, IndInv,
         TypeOK, RowInv, TargetInv, FrozenInv, RowInv, Executing, Active,
         AtTarget
  <2>2. SnapshotInv'
    BY <1>21 DEF RemoteExit, processVars, ledgerVars, catalogVars, IndInv,
         TypeOK, RowInv, TargetInv, FrozenInv, SnapshotInv, Executing, Active,
         AtTarget
  <2>3. PreparedInv'
    BY <1>21 DEF RemoteExit, processVars, ledgerVars, catalogVars, IndInv,
         TypeOK, RowInv, TargetInv, FrozenInv, PreparedInv, Executing, Active,
         AtTarget
  <2>4. CommandInv'
    <3>1. \A e \in Deployments, t \in Bindings :
             \/ remote'[e][t] = remote[e][t]
             \/ remote'[e][t] = "error" /\ remote[e][t] \in {"started", "pulled"}
             \/ remote'[e][t] = "ok" /\ remote[e][t] = "pulled"
      <4>1. CASE remote[d][b] = "pulled" /\ remote' = [remote EXCEPT ![d][b] = "ok"]
        BY <4>1 DEF IndInv, TypeOK
      <4>2. CASE /\ remote[d][b] \in {"started", "pulled"}
                 /\ remote' = [remote EXCEPT ![d][b] = "error"]
        BY <4>2 DEF IndInv, TypeOK
      <4> QED
        BY <1>21, <4>1, <4>2 DEF RemoteExit
    <3> QED
      BY <1>21, <3>1 DEF RemoteExit, processVars, ledgerVars, FrozenInv, CommandInv
  <2>5. SuccessInv'
    <3>1. \A e \in Deployments, t \in Bindings :
             remote[e][t] = "ok" => remote'[e][t] = "ok"
      <4>1. \E r \in {"ok", "error"} : remote' = [remote EXCEPT ![d][b] = r]
        BY <1>21 DEF RemoteExit
      <4>2. remote[d][b] # "ok"
        BY <1>21 DEF RemoteExit
      <4> QED
        BY <4>1, <4>2 DEF IndInv, TypeOK
    <3> QED
      BY <1>21, <3>1 DEF RemoteExit, processVars, ledgerVars, FrozenInv, SuccessInv
  <2> QED
    BY <2>1, <2>2, <2>3, <2>4, <2>5 DEF FrozenInv
<1>22. ASSUME AdminStep PROVE FrozenInv'
  <2>1. (disk = cache)'
    BY <1>22 DEF AdminStep, UpdateBinding, PublishVersion, DeleteVersion,
         PutServerEntry, EditServerYAML, ReloadAllServerYAML, LoginReload,
         processVars, ledgerVars, nodeVars, IndInv, TypeOK, RowInv, TargetInv,
         FrozenInv, RowInv, Executing, Active, AtTarget
  <2>2. SnapshotInv'
    <3>1. \A e \in Deployments : pc[e] \in Executing =>
             mutex # Absent /\ status[e] = "running" /\ request[e] \in Requests
      BY AbsentAssumption DEF IndInv, RowInv, Active
    <3>2. \A e \in Deployments : pc[e] \in Executing => cache' = cache
      BY <1>22, <3>1 DEF AdminStep, UpdateBinding, PublishVersion, DeleteVersion,
         PutServerEntry,
           EditServerYAML, ReloadAllServerYAML, LoginReload, ConfigUnlocked, FrozenInv
    <3>3. ASSUME NEW e \in Deployments, pc[e] \in Executing,
                 artifact[request[e].version] # Absent
          PROVE  artifact'[request[e].version] = artifact[request[e].version]
      <4>1. CASE UNCHANGED artifact
        BY <4>1
      <4>2. ASSUME NEW v \in Versions, NEW a \in Artifacts, PublishVersion(v, a)
            PROVE  artifact'[request[e].version] = artifact[request[e].version]
        BY <4>2, <3>1, <3>3 DEF PublishVersion, IndInv, TypeOK, Requests
      <4>3. ASSUME NEW v \in Versions, DeleteVersion(v)
            PROVE  artifact'[request[e].version] = artifact[request[e].version]
        BY <4>3, <3>1, <3>3 DEF DeleteVersion, Pinned, IndInv, TypeOK, Requests
      <4> QED
        BY <1>22, <4>1, <4>2, <4>3 DEF AdminStep, UpdateBinding, PutServerEntry,
             EditServerYAML, ReloadAllServerYAML, LoginReload
    <3>4. UNCHANGED <<pc, snapshot, request, plan>>
      BY <1>22 DEF AdminStep, UpdateBinding, PublishVersion, DeleteVersion, PutServerEntry,
           EditServerYAML, ReloadAllServerYAML, LoginReload, processVars, ledgerVars
    <3> QED
      BY <3>2, <3>3, <3>4 DEF FrozenInv, SnapshotInv
  <2>3. PreparedInv'
    BY <1>22 DEF AdminStep, UpdateBinding, PublishVersion, DeleteVersion,
         PutServerEntry, EditServerYAML, ReloadAllServerYAML, LoginReload,
         processVars, ledgerVars, nodeVars, IndInv, TypeOK, RowInv, TargetInv,
         FrozenInv, PreparedInv, Executing, Active, AtTarget
  <2>4. CommandInv'
    BY <1>22 DEF AdminStep, UpdateBinding, PublishVersion, DeleteVersion,
         PutServerEntry, EditServerYAML, ReloadAllServerYAML, LoginReload,
         processVars, ledgerVars, nodeVars, IndInv, TypeOK, RowInv, TargetInv,
         FrozenInv, CommandInv, Executing, Active, AtTarget
  <2>5. SuccessInv'
    BY <1>22 DEF AdminStep, UpdateBinding, PublishVersion, DeleteVersion,
         PutServerEntry, EditServerYAML, ReloadAllServerYAML, LoginReload,
         processVars, ledgerVars, nodeVars, IndInv, TypeOK, RowInv, TargetInv,
         FrozenInv, SuccessInv, Executing, Active, AtTarget
  <2> QED
    BY <2>1, <2>2, <2>3, <2>4, <2>5 DEF FrozenInv
<1>23. ASSUME BeginDeploymentDrain PROVE FrozenInv'
  BY <1>23 DEF IndInv, TypeOK, RowInv, TargetInv, FrozenInv, SnapshotInv,
       PreparedInv, CommandInv, SuccessInv, Executing, Active, AtTarget,
       Outcomes, Requests, Plans, BeginDeploymentDrain, ledgerVars,
       catalogVars, nodeVars
<1>24. ASSUME CleanExit PROVE FrozenInv'
  <2>1. (disk = cache)'
    BY <1>24 DEF CleanExit, ProcessDies, LockFree, catalogVars, nodeVars,
         IndInv, TypeOK, RowInv, TargetInv, FrozenInv, RowInv, Executing,
         Active, AtTarget
  <2>2. SnapshotInv'
    BY <1>24 DEF CleanExit, ProcessDies, LockFree, catalogVars, nodeVars,
         IndInv, TypeOK, RowInv, TargetInv, FrozenInv, SnapshotInv, Executing,
         Active, AtTarget
  <2>3. PreparedInv'
    BY <1>24 DEF CleanExit, ProcessDies, LockFree, catalogVars, nodeVars,
         IndInv, TypeOK, RowInv, TargetInv, FrozenInv, PreparedInv, Executing,
         Active, AtTarget
  <2>4. CommandInv'
    BY <1>24 DEF CleanExit, ProcessDies, LockFree, catalogVars, nodeVars,
         IndInv, TypeOK, RowInv, TargetInv, FrozenInv, CommandInv, Executing,
         Active, AtTarget
  <2>5. SuccessInv'
    BY <1>24 DEF CleanExit, ProcessDies, LockFree, catalogVars, nodeVars,
         IndInv, TypeOK, RowInv, TargetInv, FrozenInv, SuccessInv, Executing,
         Active, AtTarget
  <2> QED
    BY <2>1, <2>2, <2>3, <2>4, <2>5 DEF FrozenInv
<1>25. ASSUME Crash PROVE FrozenInv'
  <2>1. (disk = cache)'
    BY <1>25 DEF Crash, ProcessDies, catalogVars, nodeVars, IndInv, TypeOK,
         RowInv, TargetInv, FrozenInv, RowInv, Executing, Active, AtTarget
  <2>2. SnapshotInv'
    BY <1>25 DEF Crash, ProcessDies, catalogVars, nodeVars, IndInv, TypeOK,
         RowInv, TargetInv, FrozenInv, SnapshotInv, Executing, Active,
         AtTarget
  <2>3. PreparedInv'
    BY <1>25 DEF Crash, ProcessDies, catalogVars, nodeVars, IndInv, TypeOK,
         RowInv, TargetInv, FrozenInv, PreparedInv, Executing, Active,
         AtTarget
  <2>4. CommandInv'
    BY <1>25 DEF Crash, ProcessDies, catalogVars, nodeVars, IndInv, TypeOK,
         RowInv, TargetInv, FrozenInv, CommandInv, Executing, Active, AtTarget
  <2>5. SuccessInv'
    BY <1>25 DEF Crash, ProcessDies, catalogVars, nodeVars, IndInv, TypeOK,
         RowInv, TargetInv, FrozenInv, SuccessInv, Executing, Active, AtTarget
  <2> QED
    BY <2>1, <2>2, <2>3, <2>4, <2>5 DEF FrozenInv
<1>26. ASSUME Restart PROVE FrozenInv'
  BY <1>26 DEF IndInv, TypeOK, RowInv, TargetInv, FrozenInv, SnapshotInv,
       PreparedInv, CommandInv, SuccessInv, Executing, Active, AtTarget,
       Outcomes, Requests, Plans, Restart, Interruptible, Interrupted,
       nodeVars
<1>27. ASSUME UNCHANGED vars PROVE FrozenInv'
  BY <1>27 DEF IndInv, TypeOK, RowInv, TargetInv, FrozenInv, SnapshotInv,
       PreparedInv, CommandInv, SuccessInv, Executing, Active, AtTarget,
       Outcomes, Requests, Plans, vars
<1>28. ASSUME NEW d \in Deployments, RequestStep(d) PROVE FrozenInv'
  BY <1>28, <1>1, <1>2, <1>3, <1>4, <1>5 DEF RequestStep
<1>29. ASSUME NEW d \in Deployments, RunStep(d) PROVE FrozenInv'
  BY <1>29, <1>6, <1>7, <1>8, <1>9, <1>10, <1>11, <1>12, <1>13, <1>14, <1>15,
       <1>16, <1>17, <1>18, <1>19 DEF RunStep
<1>30. ASSUME NEW d \in Deployments, NodeStep(d) PROVE FrozenInv'
  BY <1>30, <1>20, <1>21 DEF NodeStep
<1> QED
  BY <1>22, <1>23, <1>24, <1>25, <1>26, <1>27, <1>28, <1>29, <1>30 DEF Next, ProcessStep

\* No step rewrites a recorded outcome or verdict.
LEMMA FinalStep == IndInv /\ [Next]_vars => OutcomesKept
<1> SUFFICES ASSUME IndInv, [Next]_vars PROVE OutcomesKept
  OBVIOUS
<1>1. ASSUME NEW d \in Deployments, NEW v \in Versions, NEW fleet \in (SUBSET Bindings) \ {{}},
                NEW k \in Keys \cup {Absent}, NEW dry \in BOOLEAN,
                FreezePushPlan(d, v, fleet, k, dry)
      PROVE  OutcomesKept
  BY <1>1 DEF IndInv, TypeOK, RowInv, TargetInv, Outcomes, Executing, Active,
       AtTarget, OutcomesKept, FreezePushPlan, PushPlanDigest, Resolvable,
       catalogVars, nodeVars
<1>2. ASSUME NEW d \in Deployments, ReplayPushDeployment(d)
      PROVE  OutcomesKept
  BY <1>2 DEF IndInv, TypeOK, RowInv, TargetInv, Outcomes, Executing, Active,
       AtTarget, OutcomesKept, ReplayPushDeployment, catalogVars, nodeVars
<1>3. ASSUME NEW d \in Deployments, CreatePushDeployment(d)
      PROVE  OutcomesKept
  BY <1>3 DEF IndInv, TypeOK, RowInv, TargetInv, Outcomes, Executing, Active,
       AtTarget, OutcomesKept, CreatePushDeployment, catalogVars, nodeVars
<1>4. ASSUME NEW d \in Deployments, CompletePushDryRun(d)
      PROVE  OutcomesKept
  BY <1>4 DEF IndInv, TypeOK, RowInv, TargetInv, Outcomes, Executing, Active,
       AtTarget, OutcomesKept, CompletePushDryRun, catalogVars, nodeVars
<1>5. ASSUME NEW d \in Deployments, RedispatchHook(d)
      PROVE  OutcomesKept
  BY <1>5 DEF IndInv, TypeOK, RowInv, TargetInv, Outcomes, Executing, Active,
       AtTarget, OutcomesKept, RedispatchHook, ledgerVars, catalogVars,
       nodeVars
<1>6. ASSUME NEW d \in Deployments, NEW c \in Callers, ClaimDeployment(d, c)
      PROVE  OutcomesKept
  BY <1>6 DEF IndInv, TypeOK, RowInv, TargetInv, Outcomes, Executing, Active,
       AtTarget, OutcomesKept, ClaimDeployment, LockFree, Claimable,
       catalogVars, nodeVars
<1>7. ASSUME NEW d \in Deployments, NEW c \in Callers, RefuseRun(d, c)
      PROVE  OutcomesKept
  BY <1>7 DEF IndInv, TypeOK, RowInv, TargetInv, Outcomes, Executing, Active,
       AtTarget, OutcomesKept, RefuseRun, LockFree, Claimable, ledgerVars,
       catalogVars, nodeVars
<1>8. ASSUME NEW d \in Deployments, NEW b \in Bindings, ValidateTarget(d, b)
      PROVE  OutcomesKept
  BY <1>8 DEF IndInv, TypeOK, RowInv, TargetInv, Outcomes, Executing, Active,
       AtTarget, OutcomesKept, ValidateTarget, ledgerVars, catalogVars,
       nodeVars
<1>9. ASSUME NEW d \in Deployments, FailBeforeExecution(d)
      PROVE  OutcomesKept
  BY <1>9 DEF IndInv, TypeOK, RowInv, TargetInv, Outcomes, Executing, Active,
       AtTarget, OutcomesKept, FailBeforeExecution, ledgerVars, catalogVars,
       nodeVars
<1>10. ASSUME NEW d \in Deployments, FleetPrepared(d)
      PROVE  OutcomesKept
  BY <1>10 DEF IndInv, TypeOK, RowInv, TargetInv, Outcomes, Executing, Active,
       AtTarget, OutcomesKept, FleetPrepared, ledgerVars, catalogVars,
       nodeVars
<1>11. ASSUME NEW d \in Deployments, NEW b \in Bindings, LaunchTarget(d, b)
      PROVE  OutcomesKept
  BY <1>11 DEF IndInv, TypeOK, RowInv, TargetInv, Outcomes, Executing, Active,
       AtTarget, OutcomesKept, LaunchTarget, catalogVars, nodeVars
<1>12. ASSUME NEW d \in Deployments, DialFails(d)
      PROVE  OutcomesKept
  BY <1>12 DEF IndInv, TypeOK, RowInv, TargetInv, Outcomes, Executing, Active,
       AtTarget, OutcomesKept, DialFails, ledgerVars, catalogVars, nodeVars
<1>13. ASSUME NEW d \in Deployments, StartSession(d)
      PROVE  OutcomesKept
  BY <1>13 DEF IndInv, TypeOK, RowInv, TargetInv, Outcomes, Executing, Active,
       AtTarget, OutcomesKept, StartSession, ledgerVars, catalogVars
<1>14. ASSUME NEW d \in Deployments, SessionEnds(d)
      PROVE  OutcomesKept
  BY <1>14 DEF IndInv, TypeOK, RowInv, TargetInv, Outcomes, Executing, Active,
       AtTarget, OutcomesKept, SessionEnds, ledgerVars, catalogVars, nodeVars
<1>15. ASSUME NEW d \in Deployments, SessionLost(d)
      PROVE  OutcomesKept
  BY <1>15 DEF IndInv, TypeOK, RowInv, TargetInv, Outcomes, Executing, Active,
       AtTarget, OutcomesKept, SessionLost, ledgerVars, catalogVars, nodeVars
<1>16. ASSUME NEW d \in Deployments, RecordTarget(d)
      PROVE  OutcomesKept
  BY <1>16 DEF IndInv, TypeOK, RowInv, TargetInv, Outcomes, Executing, Active,
       AtTarget, OutcomesKept, RecordTarget, StopsFleet, catalogVars, nodeVars
<1>17. ASSUME NEW d \in Deployments, NEW b \in Bindings, SweepTarget(d, b)
      PROVE  OutcomesKept
  <2>1. tstat[d][b] = "queued"
    BY <1>17 DEF SweepTarget, IndInv, TargetInv
  <2>2. \A e \in Deployments, t \in Bindings : tstat[e][t] # "queued" => tstat'[e][t] = tstat[e][t]
    <3>1. CASE tstat' = [tstat EXCEPT ![d][b] = result[d]]
      BY <3>1, <2>1 DEF IndInv, TypeOK
    <3>2. CASE UNCHANGED tstat
      BY <3>2
    <3> QED
      BY <1>17, <3>1, <3>2 DEF SweepTarget
  <2> QED
    BY <1>17, <2>2 DEF SweepTarget, OutcomesKept, Outcomes
<1>18. ASSUME NEW d \in Deployments, CompletePushDeployment(d)
      PROVE  OutcomesKept
  BY <1>18 DEF IndInv, TypeOK, RowInv, TargetInv, Outcomes, Executing, Active,
       AtTarget, OutcomesKept, CompletePushDeployment, Return, FinalStatus,
       catalogVars, nodeVars
<1>19. ASSUME NEW d \in Deployments, StoreErrorEndsRun(d)
      PROVE  OutcomesKept
  BY <1>19 DEF IndInv, TypeOK, RowInv, TargetInv, Outcomes, Executing, Active,
       AtTarget, OutcomesKept, StoreErrorEndsRun, Return, ledgerVars,
       catalogVars, nodeVars
<1>20. ASSUME NEW d \in Deployments, NEW b \in Bindings, RemotePull(d, b)
      PROVE  OutcomesKept
  BY <1>20 DEF IndInv, TypeOK, RowInv, TargetInv, Outcomes, Executing, Active,
       AtTarget, OutcomesKept, RemotePull, processVars, ledgerVars,
       catalogVars
<1>21. ASSUME NEW d \in Deployments, NEW b \in Bindings, RemoteExit(d, b)
      PROVE  OutcomesKept
  BY <1>21 DEF IndInv, TypeOK, RowInv, TargetInv, Outcomes, Executing, Active,
       AtTarget, OutcomesKept, RemoteExit, processVars, ledgerVars,
       catalogVars
<1>22. ASSUME AdminStep PROVE OutcomesKept
  BY <1>22 DEF IndInv, TypeOK, RowInv, TargetInv, Outcomes, Executing, Active,
       AtTarget, OutcomesKept, AdminStep, UpdateBinding, PublishVersion,
       DeleteVersion, PutServerEntry, EditServerYAML, ReloadAllServerYAML,
       LoginReload, processVars, ledgerVars, nodeVars
<1>23. ASSUME BeginDeploymentDrain PROVE OutcomesKept
  BY <1>23 DEF IndInv, TypeOK, RowInv, TargetInv, Outcomes, Executing, Active,
       AtTarget, OutcomesKept, BeginDeploymentDrain, ledgerVars, catalogVars,
       nodeVars
<1>24. ASSUME CleanExit PROVE OutcomesKept
  BY <1>24 DEF IndInv, TypeOK, RowInv, TargetInv, Outcomes, Executing, Active,
       AtTarget, OutcomesKept, CleanExit, ProcessDies, LockFree, catalogVars,
       nodeVars
<1>25. ASSUME Crash PROVE OutcomesKept
  BY <1>25 DEF IndInv, TypeOK, RowInv, TargetInv, Outcomes, Executing, Active,
       AtTarget, OutcomesKept, Crash, ProcessDies, catalogVars, nodeVars
<1>26. ASSUME Restart PROVE OutcomesKept
  BY <1>26 DEF IndInv, TypeOK, RowInv, TargetInv, Outcomes, Executing, Active,
       AtTarget, OutcomesKept, Restart, Interruptible, Interrupted, nodeVars
<1>27. ASSUME UNCHANGED vars PROVE OutcomesKept
  BY <1>27 DEF IndInv, TypeOK, RowInv, TargetInv, Outcomes, Executing, Active,
       AtTarget, OutcomesKept, vars
<1>28. ASSUME NEW d \in Deployments, RequestStep(d) PROVE OutcomesKept
  BY <1>28, <1>1, <1>2, <1>3, <1>4, <1>5 DEF RequestStep
<1>29. ASSUME NEW d \in Deployments, RunStep(d) PROVE OutcomesKept
  BY <1>29, <1>6, <1>7, <1>8, <1>9, <1>10, <1>11, <1>12, <1>13, <1>14, <1>15,
       <1>16, <1>17, <1>18, <1>19 DEF RunStep
<1>30. ASSUME NEW d \in Deployments, NodeStep(d) PROVE OutcomesKept
  BY <1>30, <1>20, <1>21 DEF NodeStep
<1> QED
  BY <1>22, <1>23, <1>24, <1>25, <1>26, <1>27, <1>28, <1>29, <1>30 DEF Next, ProcessStep

\* Every step keeps the fleet of a row, and a dead process the mutex free.
LEMMA FleetStep == IndInv /\ LedgerInv /\ [Next]_vars => FleetInv'
<1> SUFFICES ASSUME IndInv, LedgerInv, [Next]_vars PROVE FleetInv'
  OBVIOUS
<1> USE DEF IndInv, TypeOK, RowInv, TargetInv, LedgerInv, FleetInv, Executing,
     Active, AtTarget, Outcomes, ledgerVars, catalogVars, nodeVars
<1>1. ASSUME NEW d \in Deployments, NEW v \in Versions, NEW fleet \in (SUBSET
     Bindings) \ {{}}, NEW k \in Keys \cup {Absent}, NEW dry \in BOOLEAN,
     FreezePushPlan(d, v, fleet, k, dry) PROVE FleetInv'
  BY <1>1 DEF FreezePushPlan
<1>2. ASSUME NEW d \in Deployments, ReplayPushDeployment(d) PROVE FleetInv'
  BY <1>2 DEF ReplayPushDeployment
<1>3. ASSUME NEW d \in Deployments, CreatePushDeployment(d) PROVE FleetInv'
  BY <1>3 DEF CreatePushDeployment
<1>4. ASSUME NEW d \in Deployments, CompletePushDryRun(d) PROVE FleetInv'
  BY <1>4 DEF CompletePushDryRun
<1>5. ASSUME NEW d \in Deployments, RedispatchHook(d) PROVE FleetInv'
  BY <1>5 DEF RedispatchHook
<1>6. ASSUME NEW d \in Deployments, NEW c \in Callers, ClaimDeployment(d, c)
     PROVE FleetInv'
  BY <1>6 DEF ClaimDeployment, LockFree, Claimable
<1>7. ASSUME NEW d \in Deployments, NEW c \in Callers, RefuseRun(d, c) PROVE
     FleetInv'
  BY <1>7 DEF RefuseRun
<1>8. ASSUME NEW d \in Deployments, NEW b \in Bindings, ValidateTarget(d, b)
     PROVE FleetInv'
  BY <1>8 DEF ValidateTarget
<1>9. ASSUME NEW d \in Deployments, FailBeforeExecution(d) PROVE FleetInv'
  BY <1>9 DEF FailBeforeExecution
<1>10. ASSUME NEW d \in Deployments, FleetPrepared(d) PROVE FleetInv'
  BY <1>10 DEF FleetPrepared
<1>11. ASSUME NEW d \in Deployments, NEW b \in Bindings, LaunchTarget(d, b)
     PROVE FleetInv'
  BY <1>11 DEF LaunchTarget
<1>12. ASSUME NEW d \in Deployments, DialFails(d) PROVE FleetInv'
  BY <1>12 DEF DialFails
<1>13. ASSUME NEW d \in Deployments, StartSession(d) PROVE FleetInv'
  BY <1>13 DEF StartSession
<1>14. ASSUME NEW d \in Deployments, SessionEnds(d) PROVE FleetInv'
  BY <1>14 DEF SessionEnds
<1>15. ASSUME NEW d \in Deployments, SessionLost(d) PROVE FleetInv'
  BY <1>15 DEF SessionLost
<1>16. ASSUME NEW d \in Deployments, RecordTarget(d) PROVE FleetInv'
  <2>1. /\ target[d] \in Bindings /\ target[d] \in request[d].fleet
        /\ result[d] \in Outcomes /\ status[d] = "running"
    BY <1>16 DEF RecordTarget
  <2>2. \A e \in Deployments, t \in Bindings : tstat'[e][t] =
          IF e = d /\ t = target[d] THEN result[d] ELSE tstat[e][t]
    BY <1>16, <2>1 DEF RecordTarget
  <2>3. UNCHANGED <<status, request, power, mutex>>
    BY <1>16 DEF RecordTarget
  <2>4. \A e \in Deployments, t \in Bindings :
          tstat'[e][t] = "none" <=> tstat[e][t] = "none"
    BY <1>16, <2>1, <2>2 DEF RecordTarget
  <2> QED
    BY <2>3, <2>4
<1>17. ASSUME NEW d \in Deployments, NEW b \in Bindings, SweepTarget(d, b)
     PROVE FleetInv'
  <2>1. /\ b \in request[d].fleet /\ tstat[d][b] = "queued"
        /\ result[d] \in Outcomes /\ status[d] = "running"
    BY <1>17 DEF SweepTarget
  <2>2. \A e \in Deployments, t \in Bindings :
          \/ tstat'[e][t] = tstat[e][t]
          \/ e = d /\ t = b /\ tstat'[e][t] = result[d]
    <3>1. CASE tstat' = [tstat EXCEPT ![d][b] = result[d]]
      BY <3>1
    <3>2. CASE UNCHANGED tstat
      BY <3>2
    <3> QED
      BY <1>17, <3>1, <3>2 DEF SweepTarget
  <2>3. UNCHANGED <<status, request, power, mutex>>
    BY <1>17 DEF SweepTarget
  <2>4. \A e \in Deployments, t \in Bindings :
          tstat'[e][t] = "none" <=> tstat[e][t] = "none"
    <3>1. tstat[d][b] # "none" /\ result[d] # "none"
      BY <2>1
    <3> QED
      BY <2>2, <3>1
  <2> QED
    BY <2>3, <2>4
<1>18. ASSUME NEW d \in Deployments, CompletePushDeployment(d) PROVE FleetInv'
  BY <1>18 DEF CompletePushDeployment, Return, FinalStatus
<1>19. ASSUME NEW d \in Deployments, StoreErrorEndsRun(d) PROVE FleetInv'
  BY <1>19 DEF StoreErrorEndsRun, Return
<1>20. ASSUME NEW d \in Deployments, NEW b \in Bindings, RemotePull(d, b)
     PROVE FleetInv'
  BY <1>20 DEF RemotePull, processVars
<1>21. ASSUME NEW d \in Deployments, NEW b \in Bindings, RemoteExit(d, b)
     PROVE FleetInv'
  BY <1>21 DEF RemoteExit, processVars
<1>22. ASSUME AdminStep PROVE FleetInv'
  BY <1>22 DEF AdminStep, UpdateBinding, PublishVersion, DeleteVersion,
       PutServerEntry, EditServerYAML, ReloadAllServerYAML, LoginReload,
       processVars
<1>23. ASSUME BeginDeploymentDrain PROVE FleetInv'
  BY <1>23 DEF BeginDeploymentDrain
<1>24. ASSUME CleanExit PROVE FleetInv'
  BY <1>24 DEF CleanExit, ProcessDies, LockFree
<1>25. ASSUME Crash PROVE FleetInv'
  BY <1>25 DEF Crash, ProcessDies
<1>26. ASSUME Restart PROVE FleetInv'
  BY <1>26 DEF Restart, Interruptible, Interrupted
<1>27. ASSUME UNCHANGED vars PROVE FleetInv'
  BY <1>27 DEF vars
<1> HIDE DEF IndInv, TypeOK, RowInv, TargetInv, LedgerInv, FleetInv,
     Executing, Active, AtTarget, Outcomes, ledgerVars, catalogVars, nodeVars
<1>28. ASSUME NEW d \in Deployments, RequestStep(d) PROVE FleetInv'
  BY <1>28, <1>1, <1>2, <1>3, <1>4, <1>5 DEF RequestStep
<1>29. ASSUME NEW d \in Deployments, RunStep(d) PROVE FleetInv'
  BY <1>29, <1>6, <1>7, <1>8, <1>9, <1>10, <1>11, <1>12, <1>13, <1>14, <1>15,
       <1>16, <1>17, <1>18, <1>19 DEF RunStep
<1>30. ASSUME NEW d \in Deployments, NodeStep(d) PROVE FleetInv'
  BY <1>30, <1>20, <1>21 DEF NodeStep
<1> QED
  BY <1>22, <1>23, <1>24, <1>25, <1>26, <1>27, <1>28, <1>29, <1>30 DEF Next,
       ProcessStep

\* Every step keeps the one running target, and successes without a command to
\* dry runs.
LEMMA SweepStep == IndInv /\ LedgerInv /\ [Next]_vars => SweepInv'
<1> SUFFICES ASSUME IndInv, LedgerInv, [Next]_vars PROVE SweepInv'
  OBVIOUS
<1> USE DEF IndInv, TypeOK, RowInv, TargetInv, LedgerInv, SweepInv, Executing,
     Active, AtTarget, Outcomes, ledgerVars, catalogVars, nodeVars
<1>1. ASSUME NEW d \in Deployments, NEW v \in Versions, NEW fleet \in (SUBSET
     Bindings) \ {{}}, NEW k \in Keys \cup {Absent}, NEW dry \in BOOLEAN,
     FreezePushPlan(d, v, fleet, k, dry) PROVE SweepInv'
  BY <1>1 DEF FreezePushPlan
<1>2. ASSUME NEW d \in Deployments, ReplayPushDeployment(d) PROVE SweepInv'
  BY <1>2 DEF ReplayPushDeployment
<1>3. ASSUME NEW d \in Deployments, CreatePushDeployment(d) PROVE SweepInv'
  BY <1>3 DEF CreatePushDeployment
<1>4. ASSUME NEW d \in Deployments, CompletePushDryRun(d) PROVE SweepInv'
  BY <1>4, SMTT(30) DEF CompletePushDryRun
<1>5. ASSUME NEW d \in Deployments, RedispatchHook(d) PROVE SweepInv'
  BY <1>5 DEF RedispatchHook
<1>6. ASSUME NEW d \in Deployments, NEW c \in Callers, ClaimDeployment(d, c)
     PROVE SweepInv'
  <2>1. \A t \in Bindings : tstat[d][t] # "running"
    BY <1>6 DEF ClaimDeployment, Claimable
  <2>2. /\ UNCHANGED <<request, result, issued, target, tstat>>
        /\ pc' = [pc EXCEPT ![d] = "validating"]
    BY <1>6 DEF ClaimDeployment
  <2> QED
    BY <2>1, <2>2
<1>7. ASSUME NEW d \in Deployments, NEW c \in Callers, RefuseRun(d, c) PROVE
     SweepInv'
  BY <1>7 DEF RefuseRun
<1>8. ASSUME NEW d \in Deployments, NEW b \in Bindings, ValidateTarget(d, b)
     PROVE SweepInv'
  BY <1>8 DEF ValidateTarget
<1>9. ASSUME NEW d \in Deployments, FailBeforeExecution(d) PROVE SweepInv'
  BY <1>9 DEF FailBeforeExecution
<1>10. ASSUME NEW d \in Deployments, FleetPrepared(d) PROVE SweepInv'
  BY <1>10 DEF FleetPrepared
<1>11. ASSUME NEW d \in Deployments, NEW b \in Bindings, LaunchTarget(d, b)
     PROVE SweepInv'
  BY <1>11 DEF LaunchTarget
<1>12. ASSUME NEW d \in Deployments, DialFails(d) PROVE SweepInv'
  BY <1>12 DEF DialFails
<1>13. ASSUME NEW d \in Deployments, StartSession(d) PROVE SweepInv'
  BY <1>13 DEF StartSession
<1>14. ASSUME NEW d \in Deployments, SessionEnds(d) PROVE SweepInv'
  BY <1>14 DEF SessionEnds
<1>15. ASSUME NEW d \in Deployments, SessionLost(d) PROVE SweepInv'
  BY <1>15 DEF SessionLost
<1>16. ASSUME NEW d \in Deployments, RecordTarget(d) PROVE SweepInv'
  <2>1. /\ target[d] \in Bindings /\ target[d] \in request[d].fleet
        /\ result[d] \in Outcomes /\ status[d] = "running"
    BY <1>16 DEF RecordTarget
  <2>2. \A e \in Deployments, t \in Bindings : tstat'[e][t] =
          IF e = d /\ t = target[d] THEN result[d] ELSE tstat[e][t]
    BY <1>16, <2>1 DEF RecordTarget
  <2>3. UNCHANGED <<request, issued, target>>
    BY <1>16 DEF RecordTarget
  <2>4. /\ pc' = [pc EXCEPT ![d] = IF result[d] # "success" THEN "sweeping" ELSE "next"]
        /\ result' = IF result[d] # "success" THEN [result EXCEPT ![d] = "skipped"]
                     ELSE result
    BY <1>16 DEF RecordTarget, StopsFleet
  <2>5. \A e \in Deployments \ {d} : pc'[e] = pc[e] /\ result'[e] = result[e]
    BY <2>4
  <2>6. pc'[d] \in {"sweeping", "next"} /\ (pc'[d] = "sweeping" => result'[d] = "skipped")
    BY <2>4
  <2>7. \A t \in Bindings : tstat'[d][t] # "running"
    BY <1>16, <2>1, <2>2 DEF RecordTarget
  <2> SUFFICES ASSUME NEW e \in Deployments
               PROVE  /\ pc'[e] = "sweeping" /\ ~request'[e].dry => result'[e] # "success"
                      /\ pc'[e] = "recording" /\ result'[e] = "success"
                           => issued'[e][target'[e]] > 0
                      /\ \A t \in Bindings : tstat'[e][t] = "running" /\ pc'[e] \in Active
                           => pc'[e] \in AtTarget /\ t = target'[e]
    OBVIOUS
  <2>8. CASE e = d
    BY <2>6, <2>7, <2>8
  <2>9. CASE e # d
    BY <2>2, <2>3, <2>5, <2>9
  <2> QED
    BY <2>8, <2>9
<1>17. ASSUME NEW d \in Deployments, NEW b \in Bindings, SweepTarget(d, b)
     PROVE SweepInv'
  <2>1. /\ b \in request[d].fleet /\ tstat[d][b] = "queued"
        /\ result[d] \in Outcomes /\ status[d] = "running"
    BY <1>17 DEF SweepTarget
  <2>2. \A e \in Deployments, t \in Bindings :
          \/ tstat'[e][t] = tstat[e][t]
          \/ e = d /\ t = b /\ tstat'[e][t] = result[d]
    <3>1. CASE tstat' = [tstat EXCEPT ![d][b] = result[d]]
      BY <3>1
    <3>2. CASE UNCHANGED tstat
      BY <3>2
    <3> QED
      BY <1>17, <3>1, <3>2 DEF SweepTarget
  <2>3. UNCHANGED <<request, issued, target, pc, result>>
    BY <1>17 DEF SweepTarget
  <2> QED
    BY <2>1, <2>2, <2>3
<1>18. ASSUME NEW d \in Deployments, CompletePushDeployment(d) PROVE SweepInv'
  BY <1>18 DEF CompletePushDeployment, Return, FinalStatus
<1>19. ASSUME NEW d \in Deployments, StoreErrorEndsRun(d) PROVE SweepInv'
  BY <1>19 DEF StoreErrorEndsRun, Return
<1>20. ASSUME NEW d \in Deployments, NEW b \in Bindings, RemotePull(d, b)
     PROVE SweepInv'
  BY <1>20 DEF RemotePull, processVars
<1>21. ASSUME NEW d \in Deployments, NEW b \in Bindings, RemoteExit(d, b)
     PROVE SweepInv'
  BY <1>21 DEF RemoteExit, processVars
<1>22. ASSUME AdminStep PROVE SweepInv'
  BY <1>22 DEF AdminStep, UpdateBinding, PublishVersion, DeleteVersion,
       PutServerEntry, EditServerYAML, ReloadAllServerYAML, LoginReload,
       processVars
<1>23. ASSUME BeginDeploymentDrain PROVE SweepInv'
  BY <1>23 DEF BeginDeploymentDrain
<1>24. ASSUME CleanExit PROVE SweepInv'
  BY <1>24 DEF CleanExit, ProcessDies, LockFree
<1>25. ASSUME Crash PROVE SweepInv'
  BY <1>25 DEF Crash, ProcessDies
<1>26. ASSUME Restart PROVE SweepInv'
  BY <1>26 DEF Restart, Interruptible, Interrupted
<1>27. ASSUME UNCHANGED vars PROVE SweepInv'
  BY <1>27 DEF vars
<1> HIDE DEF IndInv, TypeOK, RowInv, TargetInv, LedgerInv, SweepInv,
     Executing, Active, AtTarget, Outcomes, ledgerVars, catalogVars, nodeVars
<1>28. ASSUME NEW d \in Deployments, RequestStep(d) PROVE SweepInv'
  BY <1>28, <1>1, <1>2, <1>3, <1>4, <1>5 DEF RequestStep
<1>29. ASSUME NEW d \in Deployments, RunStep(d) PROVE SweepInv'
  BY <1>29, <1>6, <1>7, <1>8, <1>9, <1>10, <1>11, <1>12, <1>13, <1>14, <1>15,
       <1>16, <1>17, <1>18, <1>19 DEF RunStep
<1>30. ASSUME NEW d \in Deployments, NodeStep(d) PROVE SweepInv'
  BY <1>30, <1>20, <1>21 DEF NodeStep
<1> QED
  BY <1>22, <1>23, <1>24, <1>25, <1>26, <1>27, <1>28, <1>29, <1>30 DEF Next,
       ProcessStep

\* Every step keeps what a run still has to do.
LEMMA ProgressStep == IndInv /\ LedgerInv /\ [Next]_vars => ProgressInv'
<1> SUFFICES ASSUME IndInv, LedgerInv, [Next]_vars PROVE ProgressInv'
  OBVIOUS
<1> USE DEF IndInv, TypeOK, RowInv, TargetInv, LedgerInv, SweepInv, FleetInv,
     ProgressInv, Executing, Active, AtTarget, Outcomes, ledgerVars,
     catalogVars, nodeVars
<1>1. ASSUME NEW d \in Deployments, NEW v \in Versions, NEW fleet \in (SUBSET
     Bindings) \ {{}}, NEW k \in Keys \cup {Absent}, NEW dry \in BOOLEAN,
     FreezePushPlan(d, v, fleet, k, dry) PROVE ProgressInv'
  BY <1>1 DEF FreezePushPlan
<1>2. ASSUME NEW d \in Deployments, ReplayPushDeployment(d) PROVE ProgressInv'
  BY <1>2 DEF ReplayPushDeployment
<1>3. ASSUME NEW d \in Deployments, CreatePushDeployment(d) PROVE ProgressInv'
  BY <1>3 DEF CreatePushDeployment
<1>4. ASSUME NEW d \in Deployments, CompletePushDryRun(d) PROVE ProgressInv'
  BY <1>4 DEF CompletePushDryRun
<1>5. ASSUME NEW d \in Deployments, RedispatchHook(d) PROVE ProgressInv'
  BY <1>5 DEF RedispatchHook
<1>6. ASSUME NEW d \in Deployments, NEW c \in Callers, ClaimDeployment(d, c)
     PROVE ProgressInv'
  BY <1>6 DEF ClaimDeployment, LockFree, Claimable
<1>7. ASSUME NEW d \in Deployments, NEW c \in Callers, RefuseRun(d, c) PROVE
     ProgressInv'
  BY <1>7 DEF RefuseRun
<1>8. ASSUME NEW d \in Deployments, NEW b \in Bindings, ValidateTarget(d, b)
     PROVE ProgressInv'
  BY <1>8 DEF ValidateTarget
<1>9. ASSUME NEW d \in Deployments, FailBeforeExecution(d) PROVE ProgressInv'
  BY <1>9 DEF FailBeforeExecution
<1>10. ASSUME NEW d \in Deployments, FleetPrepared(d) PROVE ProgressInv'
  BY <1>10 DEF FleetPrepared
<1>11. ASSUME NEW d \in Deployments, NEW b \in Bindings, LaunchTarget(d, b)
     PROVE ProgressInv'
  BY <1>11 DEF LaunchTarget
<1>12. ASSUME NEW d \in Deployments, DialFails(d) PROVE ProgressInv'
  BY <1>12 DEF DialFails
<1>13. ASSUME NEW d \in Deployments, StartSession(d) PROVE ProgressInv'
  BY <1>13 DEF StartSession
<1>14. ASSUME NEW d \in Deployments, SessionEnds(d) PROVE ProgressInv'
  BY <1>14 DEF SessionEnds
<1>15. ASSUME NEW d \in Deployments, SessionLost(d) PROVE ProgressInv'
  BY <1>15 DEF SessionLost
<1>16. ASSUME NEW d \in Deployments, RecordTarget(d) PROVE ProgressInv'
  BY <1>16 DEF RecordTarget, StopsFleet
<1>17. ASSUME NEW d \in Deployments, NEW b \in Bindings, SweepTarget(d, b)
     PROVE ProgressInv'
  BY <1>17 DEF SweepTarget
<1>18. ASSUME NEW d \in Deployments, CompletePushDeployment(d) PROVE
     ProgressInv'
  BY <1>18 DEF CompletePushDeployment, Return, FinalStatus
<1>19. ASSUME NEW d \in Deployments, StoreErrorEndsRun(d) PROVE ProgressInv'
  BY <1>19 DEF StoreErrorEndsRun, Return
<1>20. ASSUME NEW d \in Deployments, NEW b \in Bindings, RemotePull(d, b)
     PROVE ProgressInv'
  BY <1>20 DEF RemotePull, processVars
<1>21. ASSUME NEW d \in Deployments, NEW b \in Bindings, RemoteExit(d, b)
     PROVE ProgressInv'
  BY <1>21 DEF RemoteExit, processVars
<1>22. ASSUME AdminStep PROVE ProgressInv'
  BY <1>22 DEF AdminStep, UpdateBinding, PublishVersion, DeleteVersion,
       PutServerEntry, EditServerYAML, ReloadAllServerYAML, LoginReload,
       processVars
<1>23. ASSUME BeginDeploymentDrain PROVE ProgressInv'
  BY <1>23 DEF BeginDeploymentDrain
<1>24. ASSUME CleanExit PROVE ProgressInv'
  BY <1>24 DEF CleanExit, ProcessDies, LockFree
<1>25. ASSUME Crash PROVE ProgressInv'
  BY <1>25 DEF Crash, ProcessDies
<1>26. ASSUME Restart PROVE ProgressInv'
  BY <1>26 DEF Restart, Interruptible, Interrupted
<1>27. ASSUME UNCHANGED vars PROVE ProgressInv'
  BY <1>27 DEF vars
<1> HIDE DEF IndInv, TypeOK, RowInv, TargetInv, LedgerInv, SweepInv, FleetInv,
     ProgressInv, Executing, Active, AtTarget, Outcomes, ledgerVars,
     catalogVars, nodeVars
<1>28. ASSUME NEW d \in Deployments, RequestStep(d) PROVE ProgressInv'
  BY <1>28, <1>1, <1>2, <1>3, <1>4, <1>5 DEF RequestStep
<1>29. ASSUME NEW d \in Deployments, RunStep(d) PROVE ProgressInv'
  BY <1>29, <1>6, <1>7, <1>8, <1>9, <1>10, <1>11, <1>12, <1>13, <1>14, <1>15,
       <1>16, <1>17, <1>18, <1>19 DEF RunStep
<1>30. ASSUME NEW d \in Deployments, NodeStep(d) PROVE ProgressInv'
  BY <1>30, <1>20, <1>21 DEF NodeStep
<1> QED
  BY <1>22, <1>23, <1>24, <1>25, <1>26, <1>27, <1>28, <1>29, <1>30 DEF Next,
       ProcessStep

\* Every step keeps the verdicts in agreement with the targets.
LEMMA VerdictStep == IndInv /\ LedgerInv /\ [Next]_vars => VerdictAgrees'
<1> SUFFICES ASSUME IndInv, LedgerInv, [Next]_vars PROVE VerdictAgrees'
  OBVIOUS
<1> USE DEF IndInv, TypeOK, RowInv, TargetInv, LedgerInv, SweepInv, FleetInv,
     ProgressInv, VerdictAgrees, Executing, Active, AtTarget, Outcomes,
     ledgerVars, catalogVars, nodeVars
<1>1. ASSUME NEW d \in Deployments, NEW v \in Versions, NEW fleet \in (SUBSET
     Bindings) \ {{}}, NEW k \in Keys \cup {Absent}, NEW dry \in BOOLEAN,
     FreezePushPlan(d, v, fleet, k, dry) PROVE VerdictAgrees'
  BY <1>1 DEF FreezePushPlan
<1>2. ASSUME NEW d \in Deployments, ReplayPushDeployment(d) PROVE
     VerdictAgrees'
  BY <1>2 DEF ReplayPushDeployment
<1>3. ASSUME NEW d \in Deployments, CreatePushDeployment(d) PROVE
     VerdictAgrees'
  BY <1>3 DEF CreatePushDeployment
<1>4. ASSUME NEW d \in Deployments, CompletePushDryRun(d) PROVE VerdictAgrees'
  BY <1>4 DEF CompletePushDryRun
<1>5. ASSUME NEW d \in Deployments, RedispatchHook(d) PROVE VerdictAgrees'
  BY <1>5 DEF RedispatchHook
<1>6. ASSUME NEW d \in Deployments, NEW c \in Callers, ClaimDeployment(d, c)
     PROVE VerdictAgrees'
  BY <1>6 DEF ClaimDeployment, LockFree, Claimable
<1>7. ASSUME NEW d \in Deployments, NEW c \in Callers, RefuseRun(d, c) PROVE
     VerdictAgrees'
  BY <1>7 DEF RefuseRun
<1>8. ASSUME NEW d \in Deployments, NEW b \in Bindings, ValidateTarget(d, b)
     PROVE VerdictAgrees'
  BY <1>8 DEF ValidateTarget
<1>9. ASSUME NEW d \in Deployments, FailBeforeExecution(d) PROVE
     VerdictAgrees'
  BY <1>9 DEF FailBeforeExecution
<1>10. ASSUME NEW d \in Deployments, FleetPrepared(d) PROVE VerdictAgrees'
  BY <1>10 DEF FleetPrepared
<1>11. ASSUME NEW d \in Deployments, NEW b \in Bindings, LaunchTarget(d, b)
     PROVE VerdictAgrees'
  BY <1>11 DEF LaunchTarget
<1>12. ASSUME NEW d \in Deployments, DialFails(d) PROVE VerdictAgrees'
  BY <1>12 DEF DialFails
<1>13. ASSUME NEW d \in Deployments, StartSession(d) PROVE VerdictAgrees'
  BY <1>13 DEF StartSession
<1>14. ASSUME NEW d \in Deployments, SessionEnds(d) PROVE VerdictAgrees'
  BY <1>14 DEF SessionEnds
<1>15. ASSUME NEW d \in Deployments, SessionLost(d) PROVE VerdictAgrees'
  BY <1>15 DEF SessionLost
<1>16. ASSUME NEW d \in Deployments, RecordTarget(d) PROVE VerdictAgrees'
  BY <1>16 DEF RecordTarget, StopsFleet
<1>17. ASSUME NEW d \in Deployments, NEW b \in Bindings, SweepTarget(d, b)
     PROVE VerdictAgrees'
  BY <1>17 DEF SweepTarget
<1>18. ASSUME NEW d \in Deployments, CompletePushDeployment(d) PROVE
     VerdictAgrees'
  <2>1. d \notin lost => \A t \in request[d].fleet : tstat[d][t] \in Outcomes
    <3>1. pc[d] \in Active /\ pc[d] \notin AtTarget /\ todo[d] = {}
          /\ request[d].fleet \subseteq Bindings
      BY <1>18 DEF CompletePushDeployment, Requests
    <3> QED
      BY <3>1
  <2>2. status' = [status EXCEPT ![d] = FinalStatus(d)] /\ FinalStatus(d) # "absent"
    BY <1>18 DEF CompletePushDeployment, FinalStatus
  <2>3. FinalStatus(d) = "success" => \A t \in request[d].fleet : tstat[d][t] = "success"
    BY DEF FinalStatus
  <2>4. UNCHANGED <<request, tstat, lost, power>>
    BY <1>18 DEF CompletePushDeployment
  <2> QED
    BY <2>1, <2>2, <2>3, <2>4
<1>19. ASSUME NEW d \in Deployments, StoreErrorEndsRun(d) PROVE VerdictAgrees'
  BY <1>19 DEF StoreErrorEndsRun, Return
<1>20. ASSUME NEW d \in Deployments, NEW b \in Bindings, RemotePull(d, b)
     PROVE VerdictAgrees'
  BY <1>20 DEF RemotePull, processVars
<1>21. ASSUME NEW d \in Deployments, NEW b \in Bindings, RemoteExit(d, b)
     PROVE VerdictAgrees'
  BY <1>21 DEF RemoteExit, processVars
<1>22. ASSUME AdminStep PROVE VerdictAgrees'
  BY <1>22 DEF AdminStep, UpdateBinding, PublishVersion, DeleteVersion,
       PutServerEntry, EditServerYAML, ReloadAllServerYAML, LoginReload,
       processVars
<1>23. ASSUME BeginDeploymentDrain PROVE VerdictAgrees'
  BY <1>23 DEF BeginDeploymentDrain
<1>24. ASSUME CleanExit PROVE VerdictAgrees'
  <2>1. power = "up" /\ mutex = Absent
    BY <1>24 DEF CleanExit, ProcessDies, LockFree
  <2>2. ASSUME NEW e \in Deployments \ lost, NEW t \in Bindings PROVE tstat[e][t] # "running"
    <3>1. pc[e] \notin Executing
      BY <2>1, AbsentAssumption
    <3> QED
      BY <2>1, <3>1
  <2>3. UNCHANGED <<status, tstat, lost>>
        /\ \A e \in Deployments : status[e] # "absent" => request'[e] = request[e]
    BY <1>24 DEF CleanExit, ProcessDies
  <2> SUFFICES ASSUME NEW e \in Deployments
               PROVE  /\ status'[e] = "success" =>
                           \A t \in request'[e].fleet : tstat'[e][t] = "success"
                      /\ status'[e] \in {"success", "failed"} /\ e \notin lost' =>
                           \A t \in request'[e].fleet : tstat'[e][t] \in Outcomes
                      /\ power' = "stopped" /\ e \notin lost' =>
                           \A t \in Bindings : tstat'[e][t] # "running"
    OBVIOUS
  <2>4. CASE status[e] = "absent"
    BY <2>2, <2>3, <2>4
  <2>5. CASE status[e] # "absent"
    BY <2>2, <2>3, <2>5
  <2> QED
    BY <2>4, <2>5
<1>25. ASSUME Crash PROVE VerdictAgrees'
  BY <1>25 DEF Crash, ProcessDies
<1>26. ASSUME Restart PROVE VerdictAgrees'
  <2>1. UNCHANGED <<request, lost>> /\ power' = "up"
    BY <1>26 DEF Restart
  <2>2. ASSUME NEW e \in Deployments
        PROVE  /\ Interruptible(e) => status'[e] = "failed"
               /\ ~Interruptible(e) => status'[e] = status[e]
               /\ \A t \in Bindings : tstat'[e][t] =
                     IF Interruptible(e) THEN Interrupted(tstat[e][t]) ELSE tstat[e][t]
    BY <1>26 DEF Restart
  <2>3. ASSUME NEW e \in Deployments, Interruptible(e), NEW t \in request[e].fleet
        PROVE  tstat'[e][t] \in Outcomes
    <3>1. t \in Bindings /\ tstat[e][t] # "none"
      BY <2>3 DEF Interruptible, Requests
    <3> QED
      BY <2>2, <2>3, <3>1 DEF Interrupted
  <2> SUFFICES ASSUME NEW e \in Deployments
               PROVE  /\ status'[e] = "success" =>
                           \A t \in request'[e].fleet : tstat'[e][t] = "success"
                      /\ status'[e] \in {"success", "failed"} /\ e \notin lost' =>
                           \A t \in request'[e].fleet : tstat'[e][t] \in Outcomes
                      /\ power' = "stopped" /\ e \notin lost' =>
                           \A t \in Bindings : tstat'[e][t] # "running"
    OBVIOUS
  <2>4. CASE Interruptible(e)
    BY <2>1, <2>2, <2>3, <2>4
  <2>5. CASE ~Interruptible(e)
    <3>1. status[e] # "absent" => request[e].fleet \subseteq Bindings
      BY DEF Requests
    <3> QED
      BY <2>1, <2>2, <2>5, <3>1
  <2> QED
    BY <2>4, <2>5
<1>27. ASSUME UNCHANGED vars PROVE VerdictAgrees'
  BY <1>27 DEF vars
<1> HIDE DEF IndInv, TypeOK, RowInv, TargetInv, LedgerInv, SweepInv, FleetInv,
     ProgressInv, VerdictAgrees, Executing, Active, AtTarget, Outcomes,
     ledgerVars, catalogVars, nodeVars
<1>28. ASSUME NEW d \in Deployments, RequestStep(d) PROVE VerdictAgrees'
  BY <1>28, <1>1, <1>2, <1>3, <1>4, <1>5 DEF RequestStep
<1>29. ASSUME NEW d \in Deployments, RunStep(d) PROVE VerdictAgrees'
  BY <1>29, <1>6, <1>7, <1>8, <1>9, <1>10, <1>11, <1>12, <1>13, <1>14, <1>15,
       <1>16, <1>17, <1>18, <1>19 DEF RunStep
<1>30. ASSUME NEW d \in Deployments, NodeStep(d) PROVE VerdictAgrees'
  BY <1>30, <1>20, <1>21 DEF NodeStep
<1> QED
  BY <1>22, <1>23, <1>24, <1>25, <1>26, <1>27, <1>28, <1>29, <1>30 DEF Next,
       ProcessStep

-----------------------------------------------------------------------------
(* Every step is a step of ReleaseLedger.                                  *)

\* What the ledger shows of a deployment.
LEMMA Shown ==
  ASSUME NEW d \in Deployments
  PROVE  /\ LedgerOrder[d] = IF status[d] = "absent" THEN Absent ELSE request[d]
         /\ LedgerVerdict[d] = IF status[d] \in {"success", "failed"} THEN status[d]
                               ELSE "open"
BY DEF LedgerOrder, LedgerVerdict

\* What the ledger shows of a target.
LEMMA ShownTarget ==
  ASSUME NEW d \in Deployments, NEW b \in Bindings
  PROVE  LedgerOutcome[d][b] =
           IF tstat[d][b] \in {"queued", "running"} THEN "open" ELSE tstat[d][b]
BY DEF LedgerOutcome

\* Recording a result shows as a change of that target's outcome.
LEMMA ShownRecord ==
  ASSUME TypeOK, NEW d \in Deployments, NEW t \in Bindings, NEW r \in Outcomes,
         tstat' = [tstat EXCEPT ![d][t] = r]
  PROVE  LedgerOutcome' = [LedgerOutcome EXCEPT ![d][t] = r]
<1>1. ASSUME NEW e \in Deployments, NEW b \in Bindings
      PROVE  tstat'[e][b] = IF e = d /\ b = t THEN r ELSE tstat[e][b]
  BY DEF TypeOK
<1> DEFINE F == [e \in Deployments |-> [b \in Bindings |->
                   IF e = d /\ b = t THEN r ELSE LedgerOutcome[e][b]]]
<1>2. LedgerOutcome' = F
  <2>1. ASSUME NEW e \in Deployments, NEW b \in Bindings
        PROVE (IF tstat'[e][b] \in {"queued", "running"} THEN "open" ELSE tstat'[e][b])
                = IF e = d /\ b = t THEN r ELSE LedgerOutcome[e][b]
    BY <1>1, ShownTarget DEF Outcomes
  <2> QED
    BY <2>1 DEF LedgerOutcome
<1>3. [LedgerOutcome EXCEPT ![d][t] = r] = F
  BY DEF LedgerOutcome
<1> QED
  BY <1>2, <1>3

\* A step that the ledger does not show.
LEMMA Stutter ==
  ASSUME UNCHANGED <<LedgerOrder, LedgerVerdict, LedgerOutcome, issued, mutex>>
  PROVE  Ledger!Next
BY DEF Ledger!Next, Ledger!Elsewhere, Ledger!ledger

\* Rows that keep their shown status, request and targets.
LEMMA Unshown ==
  ASSUME \A d \in Deployments :
           /\ status'[d] = status[d]
              \/ {status[d], status'[d]} \subseteq {"queued", "running"}
           /\ status[d] # "absent" => request'[d] = request[d],
         \A d \in Deployments, b \in Bindings :
           \/ tstat'[d][b] = tstat[d][b]
           \/ {tstat[d][b], tstat'[d][b]} \subseteq {"queued", "running"}
  PROVE  UNCHANGED <<LedgerOrder, LedgerVerdict, LedgerOutcome>>
<1>1. LedgerOrder' = LedgerOrder
  BY DEF LedgerOrder
<1>2. LedgerVerdict' = LedgerVerdict
  BY DEF LedgerVerdict
<1>3. LedgerOutcome' = LedgerOutcome
  <2>1. \A d \in Deployments : \A b \in Bindings :
          (IF tstat[d][b] \in {"queued", "running"} THEN "open" ELSE tstat[d][b]) =
          (IF tstat'[d][b] \in {"queued", "running"} THEN "open" ELSE tstat'[d][b])
    OBVIOUS
  <2> QED
    BY <2>1 DEF LedgerOutcome
<1> QED
  BY <1>1, <1>2, <1>3

\* Inserting the rows enters the order.
LEMMA EnterStep ==
  ASSUME IndInv, NEW d \in Deployments, CreatePushDeployment(d)
  PROVE  Ledger!Enter(d)
<1> DEFINE r == request[d]
<1>1. r \in Requests /\ status[d] = "absent" /\ ~KeyTaken(r.key)
  BY DEF CreatePushDeployment, IndInv, RowInv
<1>2. LedgerOrder[d] = Absent
  BY <1>1, Shown
<1>3. status' = [status EXCEPT ![d] = "queued"] /\ UNCHANGED <<request, issued, mutex>>
  BY DEF CreatePushDeployment, nodeVars
<1>4. LedgerOrder' = [LedgerOrder EXCEPT ![d] = r]
  BY <1>3 DEF LedgerOrder, IndInv, TypeOK
<1>5. LedgerVerdict' = LedgerVerdict
  BY <1>1, <1>3 DEF LedgerVerdict, IndInv, TypeOK
<1>6. LedgerOutcome' = [LedgerOutcome EXCEPT ![d] =
         [b \in Bindings |-> IF b \in r.fleet THEN "open" ELSE "none"]]
  <2> DEFINE N == [b \in Bindings |-> IF b \in r.fleet THEN "queued" ELSE "none"]
             M == [b \in Bindings |-> IF b \in r.fleet THEN "open" ELSE "none"]
  <2>1. tstat' = [tstat EXCEPT ![d] = N]
    BY DEF CreatePushDeployment
  <2>2. ASSUME NEW e \in Deployments
        PROVE  [b \in Bindings |-> IF tstat'[e][b] \in {"queued", "running"} THEN "open"
                                   ELSE tstat'[e][b]]
                 = IF e = d THEN M ELSE LedgerOutcome[e]
    <3>1. CASE e = d
      <4>1. tstat'[e] = N
        BY <2>1, <3>1 DEF IndInv, TypeOK
      <4> QED
        BY <4>1, <3>1
    <3>2. CASE e # d
      <4>1. tstat'[e] = tstat[e]
        BY <2>1, <3>2 DEF IndInv, TypeOK
      <4> QED
        BY <4>1, <3>2 DEF LedgerOutcome
    <3> QED
      BY <3>1, <3>2
  <2> HIDE DEF M, N
  <2>3. LedgerOutcome' = [e \in Deployments |-> IF e = d THEN M ELSE LedgerOutcome[e]]
    BY <2>2 DEF LedgerOutcome
  <2>4. @ = [LedgerOutcome EXCEPT ![d] = M]
    BY DEF LedgerOutcome
  <2> QED
    BY <2>3, <2>4 DEF M
<1>7. r.key # Absent =>
        \A e \in Deployments : LedgerOrder[e] # Absent => LedgerOrder[e].key # r.key
  BY <1>1, Shown DEF KeyTaken
<1> HIDE DEF r
<1> QED
  BY <1>1, <1>2, <1>3, <1>4, <1>5, <1>6, <1>7 DEF Ledger!Enter

\* The claim under pushDeploymentMu takes the turn.
LEMMA TakeTurnStep ==
  ASSUME IndInv, NEW d \in Deployments, NEW c \in Callers, ClaimDeployment(d, c)
  PROVE  Ledger!TakeTurn(d)
<1>1. mutex = Absent /\ mutex' = d /\ status[d] = "queued" /\ UNCHANGED <<request, issued, tstat>>
      /\ status' = [status EXCEPT ![d] = "running"]
  BY DEF ClaimDeployment, LockFree, Claimable, nodeVars
<1>2. request[d] \in Requests
  BY <1>1 DEF IndInv, RowInv
<1>3. LedgerOrder[d] # Absent /\ LedgerVerdict[d] = "open"
  BY <1>1, <1>2, Shown, RequestAssumption
<1>4. UNCHANGED <<LedgerOrder, LedgerVerdict, LedgerOutcome>>
  BY <1>1 DEF LedgerOrder, LedgerVerdict, LedgerOutcome, IndInv, TypeOK
<1> QED
  BY <1>1, <1>3, <1>4 DEF Ledger!TakeTurn

\* session.Run sends the one command of the current target.
LEMMA SendStep ==
  ASSUME IndInv, NEW d \in Deployments, StartSession(d)
  PROVE  \E t \in Bindings : Ledger!Send(d, t)
<1> DEFINE t == target[d]
<1>1. /\ t \in Bindings /\ tstat[d][t] = "running" /\ issued[d][t] = 0
      /\ status[d] = "running" /\ mutex = d /\ ~request[d].dry
  BY DEF StartSession, IndInv, TargetInv, RowInv, AtTarget, Active, Executing
<1>2. \A a \in Bindings : issued[d][a] > 0 => tstat[d][a] = "success"
  BY DEF StartSession, IndInv, StopInv, Executing
<1>3. UNCHANGED <<status, request, tstat, mutex>>
      /\ issued' = [issued EXCEPT ![d][t] = @ + 1]
  BY DEF StartSession, ledgerVars
<1>4. issued' = [issued EXCEPT ![d][t] = 1]
  BY <1>1, <1>3 DEF IndInv, TypeOK
<1>5. LedgerOrder[d] = request[d] /\ LedgerVerdict[d] = "open"
  BY <1>1, Shown
<1> HIDE DEF t
<1>6. LedgerOutcome[d][t] = "open"
  BY <1>1, ShownTarget
<1>7. \A a \in Bindings : issued[d][a] > 0 => LedgerOutcome[d][a] = "success"
  BY <1>2, ShownTarget
<1>8. UNCHANGED <<LedgerOrder, LedgerVerdict, LedgerOutcome>>
  BY <1>3 DEF LedgerOrder, LedgerVerdict, LedgerOutcome
<1>9. Ledger!Send(d, t)
  BY <1>1, <1>3, <1>4, <1>5, <1>6, <1>7, <1>8 DEF Ledger!Send
<1> QED
  BY <1>1, <1>9

\* MarkPushTarget records the result of the command.
LEMMA RecordStep ==
  ASSUME IndInv, LedgerInv, NEW d \in Deployments, RecordTarget(d)
  PROVE  \E t \in Bindings : Ledger!Record(d, t)
<1> DEFINE t == target[d]
<1>1. /\ t \in Bindings /\ tstat[d][t] = "running" /\ status[d] = "running"
      /\ mutex = d /\ result[d] \in Outcomes \ {"skipped"}
  BY DEF RecordTarget, IndInv, TargetInv, RowInv, AtTarget, Active, Executing
<1>2. result[d] = "success" => issued[d][t] > 0
  BY DEF RecordTarget, LedgerInv, SweepInv
<1>3. tstat' = [tstat EXCEPT ![d][t] = result[d]] /\ UNCHANGED <<status, request, mutex, issued>>
  BY DEF RecordTarget, nodeVars
<1> HIDE DEF t
<1>4. LedgerOutcome' = [LedgerOutcome EXCEPT ![d][t] = result[d]]
  <2>1. TypeOK /\ result[d] \in Outcomes
    BY <1>1 DEF IndInv
  <2> DEFINE r == result[d]
  <2>2. TypeOK /\ r \in Outcomes /\ tstat' = [tstat EXCEPT ![d][t] = r]
    BY <1>3, <2>1
  <2> HIDE DEF r
  <2>3. LedgerOutcome' = [LedgerOutcome EXCEPT ![d][t] = r]
    BY <1>1, <2>2, ShownRecord, ZenonT(60)
  <2> QED
    BY <2>3 DEF r
<1>5. LedgerVerdict[d] = "open"
  BY <1>1, Shown
<1>6. LedgerOutcome[d][t] = "open"
  BY <1>1, ShownTarget
<1>7. UNCHANGED <<LedgerOrder, LedgerVerdict>>
  BY <1>3 DEF LedgerOrder, LedgerVerdict
<1>8. Ledger!Honest(d, t, result[d]) /\ result[d] \in Ledger!Results
  BY <1>1, <1>2 DEF Ledger!Honest, Ledger!Results, Outcomes
<1>9. Ledger!Record(d, t)
  BY <1>1, <1>3, <1>4, <1>5, <1>6, <1>7, <1>8 DEF Ledger!Record
<1> QED
  BY <1>1, <1>9

\* A sweep records what was not commanded, or its write fails.
LEMMA SweepIsRecord ==
  ASSUME IndInv, LedgerInv, NEW d \in Deployments, NEW b \in Bindings, SweepTarget(d, b)
  PROVE  Ledger!Record(d, b) \/ Ledger!Elsewhere
<1>1. /\ tstat[d][b] = "queued" /\ issued[d][b] = 0 /\ status[d] = "running"
      /\ result[d] \in Outcomes /\ UNCHANGED <<status, request, mutex, issued>>
  BY DEF SweepTarget, IndInv, TargetInv, RowInv, Active, nodeVars
<1>2. result[d] = "success" => request[d].dry
  BY DEF SweepTarget, LedgerInv, SweepInv
<1>3. UNCHANGED <<LedgerOrder, LedgerVerdict>>
  BY <1>1 DEF LedgerOrder, LedgerVerdict
<1>4. CASE UNCHANGED tstat
  BY <1>1, <1>3, <1>4 DEF LedgerOutcome, Ledger!Elsewhere, Ledger!ledger
<1>5. CASE tstat' = [tstat EXCEPT ![d][b] = result[d]]
  <2>1. LedgerOutcome' = [LedgerOutcome EXCEPT ![d][b] = result[d]]
    <3>1. TypeOK
      BY DEF IndInv
    <3> DEFINE r == result[d]
    <3>2. r \in Outcomes /\ tstat' = [tstat EXCEPT ![d][b] = r]
      BY <1>1, <1>5
    <3> HIDE DEF r
    <3>3. LedgerOutcome' = [LedgerOutcome EXCEPT ![d][b] = r]
      BY <3>1, <3>2, ShownRecord
    <3> QED
      BY <3>3 DEF r
  <2>2. LedgerVerdict[d] = "open" /\ LedgerOrder[d] = request[d]
    BY <1>1, Shown
  <2>3. LedgerOutcome[d][b] = "open"
    BY <1>1, ShownTarget
  <2>4. Ledger!Honest(d, b, result[d]) /\ result[d] \in Ledger!Results
    BY <1>1, <1>2, <2>2 DEF Ledger!Honest, Ledger!Results, Outcomes
  <2>5. ~(issued[d][b] > 0)
    BY <1>1
  <2> QED
    BY <1>1, <1>3, <2>1, <2>2, <2>3, <2>4, <2>5, Zenon DEF Ledger!Record
<1> QED
  BY <1>4, <1>5 DEF SweepTarget

\* CompletePushDeployment closes the order.
LEMMA CloseStep ==
  ASSUME IndInv, LedgerInv, NEW d \in Deployments, CompletePushDeployment(d)
  PROVE  Ledger!Close(d)
<1>1. status[d] = "running" /\ request[d] \in Requests
  BY DEF CompletePushDeployment, IndInv, RowInv, Active, Executing
<1>2. LedgerOrder[d] = request[d] /\ LedgerOrder[d] # Absent /\ LedgerVerdict[d] = "open"
  BY <1>1, Shown, RequestAssumption
<1>3. ASSUME NEW t \in Bindings, issued[d][t] > 0
      PROVE  LedgerOutcome[d][t] # "open"
  <2>1. tstat[d][t] # "queued"
    BY <1>3 DEF IndInv, TargetInv
  <2>2. tstat[d][t] # "running"
    BY DEF CompletePushDeployment, LedgerInv, SweepInv, Active, Executing, AtTarget
  <2>3. tstat[d][t] # "open"
    BY ZenonT(60) DEF IndInv, TypeOK, Outcomes
  <2> QED
    BY <2>1, <2>2, <2>3, ShownTarget
<1>4. ASSUME NEW t \in request[d].fleet
      PROVE  LedgerOutcome[d][t] = "success" <=> tstat[d][t] = "success"
  <2>1. t \in Bindings
    BY <1>1 DEF Requests
  <2> QED
    BY <2>1, ShownTarget
<1>5. FinalStatus(d) = IF \A t \in LedgerOrder[d].fleet : LedgerOutcome[d][t] = "success"
                       THEN "success" ELSE "failed"
  BY <1>2, <1>4 DEF FinalStatus
<1>6. status' = [status EXCEPT ![d] = FinalStatus(d)] /\ UNCHANGED <<request, tstat, issued>>
      /\ mutex' = IF mutex = d THEN Absent ELSE mutex
  BY DEF CompletePushDeployment, Return, nodeVars
<1>7. FinalStatus(d) \in {"success", "failed"}
  BY DEF FinalStatus
<1>8. LedgerVerdict' = [LedgerVerdict EXCEPT ![d] = FinalStatus(d)]
  BY <1>6, <1>7 DEF LedgerVerdict, IndInv, TypeOK
<1>9. UNCHANGED <<LedgerOrder, LedgerOutcome>>
  BY <1>1, <1>6, <1>7 DEF LedgerOrder, LedgerOutcome, IndInv, TypeOK
<1> QED
  BY <1>2, <1>3, <1>5, <1>6, <1>8, <1>9 DEF Ledger!Close

\* InterruptPushDeployments gives up whatever is open, in one step.
LEMMA GiveUpStep ==
  ASSUME IndInv, LedgerInv, Restart
  PROVE  Ledger!GiveUp \/ Ledger!Elsewhere
<1>1. mutex = Absent /\ UNCHANGED <<issued, request, mutex>>
  BY DEF Restart, LedgerInv, FleetInv, nodeVars
<1>2. ASSUME NEW e \in Deployments
      PROVE  status'[e] = IF Interruptible(e) THEN "failed" ELSE status[e]
  BY DEF Restart
<1>3. ASSUME NEW e \in Deployments, NEW t \in Bindings
      PROVE  tstat'[e][t] = IF Interruptible(e) THEN Interrupted(tstat[e][t]) ELSE tstat[e][t]
  BY DEF Restart
<1> DEFINE given == {e \in Deployments : LedgerOrder[e] # Absent /\ LedgerVerdict[e] = "open"}
<1>4. ASSUME NEW e \in Deployments
      PROVE  e \in given <=> Interruptible(e)
  <2>1. status[e] \in Statuses /\ (status[e] # "absent" => request[e] \in Requests)
    BY DEF IndInv, TypeOK, RowInv
  <2> QED
    BY <2>1, Shown, RequestAssumption DEF Interruptible, Statuses
<1> HIDE DEF given
<1>5. UNCHANGED LedgerOrder
  BY <1>1, <1>2 DEF LedgerOrder, Interruptible
<1>6. LedgerVerdict' = [e \in Deployments |-> IF e \in given THEN "failed" ELSE LedgerVerdict[e]]
  BY <1>2, <1>4 DEF LedgerVerdict, Interruptible
<1>7. ASSUME NEW e \in Deployments, NEW t \in Bindings
      PROVE  LedgerOutcome'[e][t] = IF tstat'[e][t] \in {"queued", "running"} THEN "open"
                                    ELSE tstat'[e][t]
  BY DEF LedgerOutcome
<1>8. ASSUME NEW e \in Deployments, NEW t \in Bindings, ~(e \in given /\ LedgerOutcome[e][t] = "open")
      PROVE  LedgerOutcome'[e][t] = LedgerOutcome[e][t]
  BY <1>3, <1>4, <1>7, <1>8, ShownTarget DEF Interrupted
<1>9. ASSUME NEW e \in Deployments, NEW t \in Bindings, e \in given, LedgerOutcome[e][t] = "open"
      PROVE  /\ LedgerOutcome'[e][t] \in {"unknown", "skipped"}
             /\ Ledger!Honest(e, t, LedgerOutcome'[e][t])
  <2>1. tstat[e][t] # "open" /\ (tstat[e][t] = "queued" => issued[e][t] = 0)
    <3>1. tstat[e][t] # "open"
      BY ZenonT(60) DEF IndInv, TypeOK, Outcomes
    <3>2. tstat[e][t] = "queued" => issued[e][t] = 0
      BY DEF IndInv, TargetInv
    <3> QED
      BY <3>1, <3>2
  <2>2. tstat[e][t] \in {"queued", "running"}
    BY <1>9, <2>1, ShownTarget
  <2>3. tstat'[e][t] = IF tstat[e][t] = "running" THEN "unknown" ELSE "skipped"
    BY <1>3, <1>4, <1>9, <2>2 DEF Interrupted
  <2>4. LedgerOutcome'[e][t] = IF tstat[e][t] = "running" THEN "unknown" ELSE "skipped"
    BY <1>7, <2>3
  <2> QED
    BY <2>1, <2>2, <2>4 DEF Ledger!Honest
<1>10. CASE given = {}
  <2>1. \A e \in Deployments : ~Interruptible(e)
    BY <1>4, <1>10
  <2>2. UNCHANGED <<LedgerVerdict, LedgerOutcome>>
    BY <2>1, <1>2, <1>3 DEF LedgerVerdict, LedgerOutcome
  <2> QED
    BY <1>1, <1>5, <2>2 DEF Ledger!Elsewhere, Ledger!ledger
<1>11. CASE given # {}
  BY <1>1, <1>5, <1>6, <1>8, <1>9, <1>11 DEF Ledger!GiveUp, given
<1> QED
  BY <1>10, <1>11

\* Every step of the controller is a step of the ledger.
LEMMA LedgerStep == IndInv /\ LedgerInv /\ [Next]_vars => Ledger!Next
<1> SUFFICES ASSUME IndInv, LedgerInv, [Next]_vars PROVE Ledger!Next
  OBVIOUS
<1> USE DEF IndInv, TypeOK, RowInv, TargetInv, LedgerInv, Executing, Active,
     AtTarget, Outcomes, ledgerVars, catalogVars, nodeVars
<1>1. ASSUME NEW d \in Deployments, NEW v \in Versions, NEW fleet \in (SUBSET
     Bindings) \ {{}}, NEW k \in Keys \cup {Absent}, NEW dry \in BOOLEAN,
     FreezePushPlan(d, v, fleet, k, dry) PROVE Ledger!Next
  BY <1>1, Stutter, Unshown DEF FreezePushPlan
<1>2. ASSUME NEW d \in Deployments, ReplayPushDeployment(d) PROVE Ledger!Next
  BY <1>2, Stutter, Unshown DEF ReplayPushDeployment
<1>3. ASSUME NEW d \in Deployments, CreatePushDeployment(d) PROVE Ledger!Next
  BY <1>3, EnterStep DEF Ledger!Next
<1>4. ASSUME NEW d \in Deployments, CompletePushDryRun(d) PROVE Ledger!Next
  BY <1>4, Stutter, Unshown DEF CompletePushDryRun
<1>5. ASSUME NEW d \in Deployments, RedispatchHook(d) PROVE Ledger!Next
  BY <1>5, Stutter, Unshown DEF RedispatchHook
<1>6. ASSUME NEW d \in Deployments, NEW c \in Callers, ClaimDeployment(d, c)
     PROVE Ledger!Next
  BY <1>6, TakeTurnStep DEF Ledger!Next
<1>7. ASSUME NEW d \in Deployments, NEW c \in Callers, RefuseRun(d, c) PROVE
     Ledger!Next
  BY <1>7, Stutter, Unshown DEF RefuseRun
<1>8. ASSUME NEW d \in Deployments, NEW b \in Bindings, ValidateTarget(d, b)
     PROVE Ledger!Next
  BY <1>8, Stutter, Unshown DEF ValidateTarget
<1>9. ASSUME NEW d \in Deployments, FailBeforeExecution(d) PROVE Ledger!Next
  BY <1>9, Stutter, Unshown DEF FailBeforeExecution
<1>10. ASSUME NEW d \in Deployments, FleetPrepared(d) PROVE Ledger!Next
  BY <1>10, Stutter, Unshown DEF FleetPrepared
<1>11. ASSUME NEW d \in Deployments, NEW b \in Bindings, LaunchTarget(d, b)
     PROVE Ledger!Next
  BY <1>11, Stutter, Unshown DEF LaunchTarget
<1>12. ASSUME NEW d \in Deployments, DialFails(d) PROVE Ledger!Next
  BY <1>12, Stutter, Unshown DEF DialFails
<1>13. ASSUME NEW d \in Deployments, StartSession(d) PROVE Ledger!Next
  BY <1>13, SendStep DEF Ledger!Next
<1>14. ASSUME NEW d \in Deployments, SessionEnds(d) PROVE Ledger!Next
  BY <1>14, Stutter, Unshown DEF SessionEnds
<1>15. ASSUME NEW d \in Deployments, SessionLost(d) PROVE Ledger!Next
  BY <1>15, Stutter, Unshown DEF SessionLost
<1>16. ASSUME NEW d \in Deployments, RecordTarget(d) PROVE Ledger!Next
  BY <1>16, RecordStep DEF Ledger!Next
<1>17. ASSUME NEW d \in Deployments, NEW b \in Bindings, SweepTarget(d, b)
     PROVE Ledger!Next
  BY <1>17, SweepIsRecord DEF Ledger!Next
<1>18. ASSUME NEW d \in Deployments, CompletePushDeployment(d) PROVE
     Ledger!Next
  BY <1>18, CloseStep DEF Ledger!Next
<1>19. ASSUME NEW d \in Deployments, StoreErrorEndsRun(d) PROVE Ledger!Next
  <2>1. UNCHANGED <<LedgerOrder, LedgerVerdict, LedgerOutcome, issued>>
    BY <1>19, Unshown DEF StoreErrorEndsRun
  <2>2. mutex' = IF mutex = d THEN Absent ELSE mutex
    BY <1>19 DEF StoreErrorEndsRun, Return
  <2>3. CASE mutex = d
    BY <2>1, <2>2, <2>3, AbsentAssumption DEF Ledger!Next, Ledger!EndTurn
  <2>4. CASE mutex # d
    BY <2>1, <2>2, <2>4, Stutter
  <2> QED
    BY <2>3, <2>4
<1>20. ASSUME NEW d \in Deployments, NEW b \in Bindings, RemotePull(d, b)
     PROVE Ledger!Next
  BY <1>20, Stutter, Unshown DEF RemotePull, processVars
<1>21. ASSUME NEW d \in Deployments, NEW b \in Bindings, RemoteExit(d, b)
     PROVE Ledger!Next
  BY <1>21, Stutter, Unshown DEF RemoteExit, processVars
<1>22. ASSUME AdminStep PROVE Ledger!Next
  BY <1>22, Stutter, Unshown DEF AdminStep, UpdateBinding, PublishVersion,
       DeleteVersion, PutServerEntry, EditServerYAML, ReloadAllServerYAML,
       LoginReload, processVars
<1>23. ASSUME BeginDeploymentDrain PROVE Ledger!Next
  BY <1>23, Stutter, Unshown DEF BeginDeploymentDrain
<1>24. ASSUME CleanExit PROVE Ledger!Next
  <2>1. UNCHANGED <<LedgerOrder, LedgerVerdict, LedgerOutcome, issued>> /\ mutex' = Absent
    BY <1>24, Unshown DEF CleanExit, ProcessDies
  <2>2. CASE mutex = Absent
    BY <2>1, <2>2, Stutter
  <2>3. CASE mutex # Absent
    BY <2>1, <2>3 DEF Ledger!Next, Ledger!EndTurn
  <2> QED
    BY <2>2, <2>3
<1>25. ASSUME Crash PROVE Ledger!Next
  <2>1. UNCHANGED <<LedgerOrder, LedgerVerdict, LedgerOutcome, issued>> /\ mutex' = Absent
    BY <1>25, Unshown DEF Crash, ProcessDies
  <2>2. CASE mutex = Absent
    BY <2>1, <2>2, Stutter
  <2>3. CASE mutex # Absent
    BY <2>1, <2>3 DEF Ledger!Next, Ledger!EndTurn
  <2> QED
    BY <2>2, <2>3
<1>26. ASSUME Restart PROVE Ledger!Next
  BY <1>26, GiveUpStep DEF Ledger!Next
<1>27. ASSUME UNCHANGED vars PROVE Ledger!Next
  BY <1>27, Stutter, Unshown DEF vars
<1> HIDE DEF IndInv, TypeOK, RowInv, TargetInv, LedgerInv, Executing, Active,
     AtTarget, Outcomes, ledgerVars, catalogVars, nodeVars
<1>28. ASSUME NEW d \in Deployments, RequestStep(d) PROVE Ledger!Next
  BY <1>28, <1>1, <1>2, <1>3, <1>4, <1>5 DEF RequestStep
<1>29. ASSUME NEW d \in Deployments, RunStep(d) PROVE Ledger!Next
  BY <1>29, <1>6, <1>7, <1>8, <1>9, <1>10, <1>11, <1>12, <1>13, <1>14, <1>15,
       <1>16, <1>17, <1>18, <1>19 DEF RunStep
<1>30. ASSUME NEW d \in Deployments, NodeStep(d) PROVE Ledger!Next
  BY <1>30, <1>20, <1>21 DEF NodeStep
<1> QED
  BY <1>22, <1>23, <1>24, <1>25, <1>26, <1>27, <1>28, <1>29, <1>30 DEF Next,
       ProcessStep

-----------------------------------------------------------------------------
(* The initial states, and the theorems.                                   *)

\* A fresh controller satisfies the invariant.
LEMMA InitIndInv == Init => IndInv
<1> SUFFICES ASSUME Init PROVE IndInv
  OBVIOUS
<1>1. TypeOK
  BY DEF Init, TypeOK, Requests, Plans, Statuses, Outcomes, Executing, Callers
<1>2. RowInv
  BY DEF Init, RowInv, Active, Executing
<1>3. TargetInv
  BY DEF Init, TargetInv, Active, AtTarget, Executing
<1>4. StopInv
  BY DEF Init, StopInv, FailStop
<1> QED
  BY <1>1, <1>2, <1>3, <1>4 DEF IndInv

\* A fresh controller has applied nothing that was not frozen.
LEMMA InitFrozenInv == Init => FrozenInv
  BY DEF Init, FrozenInv, SnapshotInv, PreparedInv, CommandInv, SuccessInv, Active,
     Executing

\* IndInv holds in every state of the controller.
LEMMA Inductive == Spec => []IndInv
<1>1. IndInv /\ [Next]_vars => IndInv'
  BY TypeStep, RowStep, TargetStep, StopStep DEF IndInv
<1> QED
  BY InitIndInv, <1>1, PTL DEF Spec

\* Every variable of the controller, its database and its nodes keeps its type.
THEOREM TypeCorrect == Spec => []TypeOK
<1>1. IndInv => TypeOK
  BY DEF IndInv
<1> QED
  BY Inductive, <1>1, PTL

\* pushDeploymentMu serializes runPushDeployment: whatever claims, hook
\* redispatches, drains and crashes do, at most one deployment executes.
THEOREM RunsAreSerialized == Spec => []OneRunAtATime
<1>1. IndInv => OneRunAtATime
  BY DEF IndInv, RowInv, OneRunAtATime
<1> QED
  BY Inductive, <1>1, PTL

\* No SSH command reached a target that is queued or recorded as skipped, by
\* the run or by InterruptPushDeployments.
THEOREM SkippedMeansUntouched == Spec => []UntouchedTargets
<1>1. IndInv => UntouchedTargets
  BY DEF IndInv, TargetInv, UntouchedTargets
<1> QED
  BY Inductive, <1>1, PTL

\* runPushDeployment stops at the first target that does not succeed, through
\* crashes and failed writes too.
THEOREM StopsAtFirstFailure == Spec => []FailStop
<1>1. IndInv => FailStop
  BY DEF IndInv, StopInv
<1> QED
  BY Inductive, <1>1, PTL

\* Recorded outcomes and verdicts are never rewritten.
THEOREM LedgerIsFinal == Spec => OutcomesAreFinal
<1>1. IndInv /\ [Next]_vars => [OutcomesKept]_vars
  BY FinalStep
<1>2. [OutcomesKept]_vars =>
        [\A d \in Deployments :
            /\ \A b \in Bindings : tstat[d][b] \in Outcomes => tstat'[d][b] = tstat[d][b]
            /\ status[d] \in {"success", "failed"} => status'[d] = status[d]]_vars
  BY DEF OutcomesKept
<1> QED
  BY Inductive, <1>1, <1>2, PTL DEF Spec, OutcomesAreFinal

\* Unless server.yaml is edited by hand, a target recorded as deployed was
\* deployed from exactly the plan that freezePushPlan stored, whatever
\* administrators do in the meantime.
THEOREM DeployedIsFrozen == ~HandEdits => (Spec => []AppliedIsFrozen)
<1> SUFFICES ASSUME ~HandEdits PROVE Spec => []AppliedIsFrozen
  OBVIOUS
<1>1. IndInv /\ FrozenInv /\ [Next]_vars => FrozenInv'
  BY FrozenStep
<1>2. FrozenInv => AppliedIsFrozen
  BY DEF FrozenInv, SuccessInv, AppliedIsFrozen
<1> QED
  BY InitFrozenInv, Inductive, <1>1, <1>2, PTL DEF Spec

\* A fresh controller has nothing to agree on.
LEMMA InitLedgerInv == Init => LedgerInv
  BY DEF Init, LedgerInv, FleetInv, SweepInv, ProgressInv, VerdictAgrees, Active, Executing

\* LedgerInv holds in every state of the controller.
LEMMA LedgerInductive == Spec => []LedgerInv
<1>1. IndInv /\ LedgerInv /\ [Next]_vars => LedgerInv'
  BY FleetStep, SweepStep, ProgressStep, VerdictStep DEF LedgerInv
<1> QED
  BY InitLedgerInv, Inductive, <1>1, PTL DEF Spec

\* CompletePushDeployment and InterruptPushDeployments never contradict the
\* rows of the targets, and the clean exit of WaitForDeployments leaves no
\* target running, unless a write failed.
THEOREM VerdictsAgree == Spec => []VerdictAgrees
<1>1. LedgerInv => VerdictAgrees
  BY DEF LedgerInv
<1> QED
  BY LedgerInductive, <1>1, PTL

\* The controller, with its requests, redispatches, drains, crashes, restarts
\* and failed writes, implements the release ledger: the rows an administrator
\* reads and the commands the nodes receive are those of a ledger that enters
\* an order once per key, takes turns, sends one command per target up to the
\* first failure and closes an order with what its targets say.
THEOREM LedgerIsImplemented == Spec => ImplementsLedger
<1>1. Init => Ledger!Init
  BY DEF Init, Ledger!Init, LedgerOrder, LedgerVerdict, LedgerOutcome
<1>2. IndInv /\ LedgerInv /\ [Next]_vars => [Ledger!Next]_(Ledger!ledger)
  BY LedgerStep
<1> QED
  BY <1>1, <1>2, Inductive, LedgerInductive, PTL DEF Spec, ImplementsLedger, Ledger!Spec
=============================================================================
