----------------------------- MODULE PushDeploy -----------------------------
(***************************************************************************)
(* The SSH push-deployment controller of express233-server: a deployment   *)
(* freezes a plan for a fleet of bindings, waits for the process-wide      *)
(* deployment mutex, re-validates the whole plan and then runs one SSH     *)
(* command per target, one target at a time, recording every outcome in    *)
(* SQLite.  The controller may crash, drain or lose a database write       *)
(* between any two steps; the remote command lives on when the connection  *)
(* or the controller does not.                                             *)
(*                                                                         *)
(* SQLite is opened with one connection, so a statement or a transaction   *)
(* is one step.  The model has one project and one tenant.                 *)
(***************************************************************************)
EXTENDS Naturals

CONSTANTS
    Deployments,  \* rows of push_deployments (request slots)
    Bindings,     \* rows of push_server_bindings: one target each
    Versions,     \* version names
    Artifacts,    \* artifact digests a version name may be published with
    Settings,     \* contents of a binding row joined with its host row
    Entries,      \* contents of one server.yaml entry
    Keys,         \* idempotency keys
    Absent,       \* no row, no value, no key
    HandEdits,    \* may an operator edit server.yaml on disk?
    Faulty        \* deployments whose database writes may fail

ASSUME AbsentAssumption ==
    /\ Absent \notin Deployments
    /\ Absent \notin Artifacts
    /\ Absent \notin Settings
    /\ Absent \notin Entries
    /\ Absent \notin Keys
ASSUME HandEditsAssumption == HandEdits \in BOOLEAN
ASSUME FaultyAssumption == Faulty \subseteq Deployments

VARIABLES
    \* The process.
    power,     \* "up", "stopped" (clean exit) or "crashed"
    draining,  \* pushDraining
    mutex,     \* the run that holds pushDeploymentMu and pushConfigMu.RLock
    waiting,   \* callers of runPushDeployment blocked on pushDeploymentMu
    pc,        \* where the request or the run of a deployment is
    todo,      \* targets the current loop has not reached
    target,    \* target of the current iteration
    result,    \* outcome about to be recorded by the run
    snapshot,  \* validated host and binding rows ("prepared")
    \* The database.
    status,    \* push_deployments.status
    request,   \* version, fleet, idempotency key, dry_run
    plan,      \* push_deployment_targets.plan_digest
    tstat,     \* push_deployment_targets.status
    artifact,  \* published artifact of each version name
    setting,   \* host and binding rows
    \* server.yaml.
    disk,      \* the file
    cache,     \* Server.serverByTenant
    \* The nodes.
    remote,    \* the remote command of a deployment on a target
    pulled,    \* what the remote command was started with and then pulled
    \* History.
    issued,    \* SSH commands issued per deployment and target
    lost       \* deployments with a failed database write

processVars == <<power, draining, mutex, waiting, pc, todo, target, result, snapshot>>
ledgerVars  == <<status, request, plan, tstat>>
catalogVars == <<artifact, setting, disk, cache>>
nodeVars    == <<remote, pulled, issued>>
vars == <<power, draining, mutex, waiting, pc, todo, target, result, snapshot,
          status, request, plan, tstat, artifact, setting, disk, cache,
          remote, pulled, issued, lost>>

Callers  == {"create", "hook"}
Requests == [version : Versions, fleet : (SUBSET Bindings) \ {{}},
             key : Keys \cup {Absent}, dry : BOOLEAN]
\* A row that is not there is no request.
ASSUME RequestAssumption == Absent \notin Requests

Plans    == [artifact : Artifacts \cup {Absent}, setting : Settings \cup {Absent},
             entry : Entries \cup {Absent}]
Statuses == {"absent", "queued", "running", "success", "failed"}
Outcomes == {"success", "failed", "unknown", "skipped"}

\* Program points at which a run holds pushDeploymentMu.
Executing == {"validating", "next", "dialing", "remote", "recording"}

-----------------------------------------------------------------------------
(* State functions of the code.                                            *)

\* pushPlanDigest: everything a target's deployment depends on.
PushPlanDigest(v, b) ==
    [artifact |-> artifact[v], setting |-> setting[b], entry |-> cache[b]]

\* A target whose binding, host and published version can still be resolved.
Resolvable(v, b) == artifact[v] # Absent /\ setting[b] # Absent

\* DeleteVersion's NOT EXISTS subquery, and one that forgets running rows.
PinnedByQueue(v) ==
    \E d \in Deployments : status[d] = "queued" /\ request[d].version = v
Pinned(v) ==
    \E d \in Deployments :
        status[d] \in {"queued", "running"} /\ request[d].version = v

\* pushConfigMu.TryLock succeeds: no run holds the read lock.
ConfigUnlocked == mutex = Absent

\* pushDeploymentMu can be taken, and a caller that does not wait for it.
LockIgnored == TRUE
LockFree == mutex = Absent

\* The row an idempotency key already belongs to, and a lookup that forgets
\* finished deployments.
KeyTakenByOpenRow(k) ==
    \E d \in Deployments :
        status[d] \in {"queued", "running"} /\ k # Absent /\ request[d].key = k
KeyTaken(k) ==
    \E d \in Deployments : status[d] # "absent" /\ k # Absent /\ request[d].key = k

\* WHERE clause of MarkPushDeploymentRunning, and none.
ClaimableAgain(d) == status[d] # "absent"
Claimable(d) == status[d] = "queued"

\* An outcome that ends the fleet's loop, and a loop that goes on when the
\* outcome is unknown.
StopsOnFailureOnly(r) == r = "failed"
StopsFleet(r) == r # "success"

\* CompletePushDeployment's verdict, and one that only counts failures.
FinalStatusOfFailures(d) ==
    IF \E b \in request[d].fleet : tstat[d][b] = "failed" THEN "failed" ELSE "success"
FinalStatus(d) ==
    IF \A b \in request[d].fleet : tstat[d][b] = "success" THEN "success" ELSE "failed"

\* Rows InterruptPushDeployments closes, and a recovery of claimed rows only.
InterruptedIfClaimed(d) == status[d] = "running"
Interruptible(d) == status[d] \in {"queued", "running"}

\* What it makes of a target; one that calls a running target skipped, and
\* one that invents a status.
AllSkipped(t) == IF t \in {"queued", "running"} THEN "skipped" ELSE t
Relabelled(t) == IF t \in {"queued", "running"} THEN "interrupted" ELSE t
Interrupted(t) == CASE t = "running" -> "unknown"
                    [] t = "queued"  -> "skipped"
                    [] OTHER -> t

-----------------------------------------------------------------------------
Init ==
    /\ power = "up" /\ draining = FALSE /\ mutex = Absent
    /\ waiting = [d \in Deployments |-> {}]
    /\ pc = [d \in Deployments |-> "idle"]
    /\ todo = [d \in Deployments |-> {}]
    /\ target = [d \in Deployments |-> Absent]
    /\ result = [d \in Deployments |-> "none"]
    /\ snapshot = [d \in Deployments |-> [b \in Bindings |-> Absent]]
    /\ status = [d \in Deployments |-> "absent"]
    /\ request = [d \in Deployments |-> Absent]
    /\ plan = [d \in Deployments |-> [b \in Bindings |-> Absent]]
    /\ tstat = [d \in Deployments |-> [b \in Bindings |-> "none"]]
    /\ artifact \in [Versions -> Artifacts \cup {Absent}]
    /\ setting \in [Bindings -> Settings]
    /\ disk \in [Bindings -> Entries \cup {Absent}]
    /\ cache = disk
    /\ remote = [d \in Deployments |-> [b \in Bindings |-> "none"]]
    /\ pulled = [d \in Deployments |-> [b \in Bindings |-> Absent]]
    /\ issued = [d \in Deployments |-> [b \in Bindings |-> 0]]
    /\ lost = {}

-----------------------------------------------------------------------------
(* Creating a deployment: createPushDeployment and dispatchReleaseHook.    *)

\* Checks on the request, target selection and freezePushPlan.  The selector
\* is abstracted to the non-empty set of bindings it resolves to.
FreezePushPlan(d, v, fleet, k, dry) ==
    /\ power = "up" /\ status[d] = "absent" /\ pc[d] = "idle"
    /\ \A b \in fleet : Resolvable(v, b)
    /\ request' = [request EXCEPT ![d] = [version |-> v, fleet |-> fleet,
                                          key |-> k, dry |-> dry]]
    /\ plan' = [plan EXCEPT ![d] = [b \in Bindings |->
                    IF b \in fleet THEN PushPlanDigest(v, b) ELSE Absent]]
    /\ pc' = [pc EXCEPT ![d] = "frozen"]
    /\ UNCHANGED <<power, draining, mutex, waiting, todo, target, result, snapshot,
                   status, tstat, catalogVars, nodeVars, lost>>

\* The idempotency key already belongs to a row, found by the lookup or by
\* the unique index: the row is returned as a replay and nothing is run.
ReplayPushDeployment(d) ==
    /\ power = "up" /\ pc[d] = "frozen"
    /\ KeyTaken(request[d].key)
    /\ pc' = [pc EXCEPT ![d] = "idle"]
    /\ request' = [request EXCEPT ![d] = Absent]
    /\ plan' = [plan EXCEPT ![d] = [b \in Bindings |-> Absent]]
    /\ UNCHANGED <<power, draining, mutex, waiting, todo, target, result, snapshot,
                   status, tstat, catalogVars, nodeVars, lost>>

\* One transaction inserts the deployment and its targets; the handler then
\* completes a dry run itself or starts the goroutine that will run it.
CreatePushDeployment(d) ==
    /\ power = "up" /\ pc[d] = "frozen"
    /\ ~KeyTaken(request[d].key)
    /\ status' = [status EXCEPT ![d] = "queued"]
    /\ tstat' = [tstat EXCEPT ![d] = [b \in Bindings |->
                    IF b \in request[d].fleet THEN "queued" ELSE "none"]]
    /\ IF request[d].dry
         THEN /\ pc' = [pc EXCEPT ![d] = "dry"]
              /\ UNCHANGED waiting
         ELSE /\ pc' = [pc EXCEPT ![d] = "idle"]
              /\ waiting' = [waiting EXCEPT ![d] = {"create"}]
    /\ UNCHANGED <<power, draining, mutex, todo, target, result, snapshot,
                   request, plan, catalogVars, nodeVars, lost>>

\* completePushDryRun claims the row like a run, without the mutex.
CompletePushDryRun(d) ==
    /\ power = "up" /\ pc[d] = "dry" /\ status[d] = "queued"
    /\ status' = [status EXCEPT ![d] = "running"]
    /\ todo' = [todo EXCEPT ![d] = request[d].fleet]
    /\ result' = [result EXCEPT ![d] = "success"]
    /\ pc' = [pc EXCEPT ![d] = "sweeping"]
    /\ UNCHANGED <<power, draining, mutex, waiting, target, snapshot, request, plan,
                   tstat, catalogVars, nodeVars, lost>>

\* A hook event found running two minutes later is dispatched again and runs
\* the deployment it already created.  Hook deployments carry no key.
RedispatchHook(d) ==
    /\ power = "up" /\ status[d] \in {"queued", "running"}
    /\ request[d].key = Absent /\ ~request[d].dry
    /\ "hook" \notin waiting[d]
    /\ waiting' = [waiting EXCEPT ![d] = @ \cup {"hook"}]
    /\ UNCHANGED <<power, draining, mutex, pc, todo, target, result, snapshot,
                   ledgerVars, catalogVars, nodeVars, lost>>

-----------------------------------------------------------------------------
(* runPushDeployment.                                                      *)

\* The mutex is taken, draining is checked and the row is claimed by the
\* compare-and-set of MarkPushDeploymentRunning.
ClaimDeployment(d, c) ==
    /\ power = "up" /\ c \in waiting[d] /\ LockFree
    /\ ~draining /\ Claimable(d)
    /\ waiting' = [waiting EXCEPT ![d] = @ \ {c}]
    /\ mutex' = d
    /\ status' = [status EXCEPT ![d] = "running"]
    /\ todo' = [todo EXCEPT ![d] = request[d].fleet]
    /\ pc' = [pc EXCEPT ![d] = "validating"]
    /\ UNCHANGED <<power, draining, target, result, snapshot, request, plan, tstat,
                   catalogVars, nodeVars, lost>>

\* Draining, already claimed, or the claim could not be written.
RefuseRun(d, c) ==
    /\ power = "up" /\ c \in waiting[d] /\ LockFree
    /\ waiting' = [waiting EXCEPT ![d] = @ \ {c}]
    /\ \/ (draining \/ ~Claimable(d)) /\ UNCHANGED lost
       \/ ~draining /\ Claimable(d) /\ d \in Faulty /\ lost' = lost \cup {d}
    /\ UNCHANGED <<power, draining, mutex, pc, todo, target, result, snapshot,
                   ledgerVars, catalogVars, nodeVars>>

\* One iteration of the validation loop succeeds: the rows are kept in
\* "prepared" and used for the SSH command later.
PlanHolds(d, b) ==
    /\ Resolvable(request[d].version, b)
    /\ PushPlanDigest(request[d].version, b) = plan[d][b]

ValidateTarget(d, b) ==
    /\ power = "up" /\ pc[d] = "validating"
    /\ b \in request[d].fleet /\ snapshot[d][b] = Absent
    /\ PlanHolds(d, b)
    /\ snapshot' = [snapshot EXCEPT ![d][b] = setting[b]]
    /\ UNCHANGED <<power, draining, mutex, waiting, pc, todo, target, result,
                   ledgerVars, catalogVars, nodeVars, lost>>

\* failPushBeforeExecution: no public URL (before the loop), a target whose
\* plan no longer holds, or a vanished requester (after the loop).
FailBeforeExecution(d) ==
    /\ power = "up" /\ pc[d] = "validating"
    /\ \/ \A b \in Bindings : snapshot[d][b] = Absent
       \/ \E b \in request[d].fleet : snapshot[d][b] = Absent /\ ~PlanHolds(d, b)
       \/ \A b \in request[d].fleet : snapshot[d][b] # Absent
    /\ result' = [result EXCEPT ![d] = "failed"]
    /\ pc' = [pc EXCEPT ![d] = "sweeping"]
    /\ UNCHANGED <<power, draining, mutex, waiting, todo, target, snapshot,
                   ledgerVars, catalogVars, nodeVars, lost>>

\* The whole fleet is prepared and the requester's pull token was read.
FleetPrepared(d) ==
    /\ power = "up" /\ pc[d] = "validating"
    /\ \A b \in request[d].fleet : snapshot[d][b] # Absent
    /\ pc' = [pc EXCEPT ![d] = "next"]
    /\ UNCHANGED <<power, draining, mutex, waiting, todo, target, result, snapshot,
                   ledgerVars, catalogVars, nodeVars, lost>>

\* The target is marked running before anything is sent to it.
LaunchTarget(d, b) ==
    /\ power = "up" /\ pc[d] = "next" /\ b \in todo[d]
    /\ tstat' = [tstat EXCEPT ![d][b] = "running"]
    /\ target' = [target EXCEPT ![d] = b]
    /\ todo' = [todo EXCEPT ![d] = @ \ {b}]
    /\ pc' = [pc EXCEPT ![d] = "dialing"]
    /\ UNCHANGED <<power, draining, mutex, waiting, result, snapshot, status, request,
                   plan, catalogVars, nodeVars, lost>>

\* No session was opened: the credential or host row is gone, the dial
\* failed after its retries, or it ran into a deadline ("unknown").
DialFails(d) ==
    /\ power = "up" /\ pc[d] = "dialing"
    /\ \E r \in {"failed", "unknown"} : result' = [result EXCEPT ![d] = r]
    /\ pc' = [pc EXCEPT ![d] = "recording"]
    /\ UNCHANGED <<power, draining, mutex, waiting, todo, target, snapshot,
                   ledgerVars, catalogVars, nodeVars, lost>>

\* session.Run: the deploy script is sent once, never again.  It is built from
\* the validated rows, whatever the database holds by now.
StartSession(d) ==
    /\ power = "up" /\ pc[d] = "dialing"
    /\ issued' = [issued EXCEPT ![d][target[d]] = @ + 1]
    /\ remote' = [remote EXCEPT ![d][target[d]] = "started"]
    /\ pulled' = [pulled EXCEPT ![d][target[d]] =
                    [artifact |-> Absent, setting |-> snapshot[d][target[d]],
                     entry |-> Absent]]
    /\ pc' = [pc EXCEPT ![d] = "remote"]
    /\ UNCHANGED <<power, draining, mutex, waiting, todo, target, result, snapshot,
                   ledgerVars, catalogVars, lost>>

\* session.Run returns the exit status of the script.
SessionEnds(d) ==
    /\ power = "up" /\ pc[d] = "remote"
    /\ remote[d][target[d]] \in {"ok", "error"}
    /\ result' = [result EXCEPT ![d] =
                    IF remote[d][target[d]] = "ok" THEN "success" ELSE "failed"]
    /\ pc' = [pc EXCEPT ![d] = "recording"]
    /\ UNCHANGED <<power, draining, mutex, waiting, todo, target, snapshot,
                   ledgerVars, catalogVars, nodeVars, lost>>

\* The connection is lost or the 15-minute deadline closes it; whatever the
\* script does from here on is not observed.
SessionLost(d) ==
    /\ power = "up" /\ pc[d] = "remote"
    /\ result' = [result EXCEPT ![d] = "unknown"]
    /\ pc' = [pc EXCEPT ![d] = "recording"]
    /\ UNCHANGED <<power, draining, mutex, waiting, todo, target, snapshot,
                   ledgerVars, catalogVars, nodeVars, lost>>

\* MarkPushTarget with the outcome; the first outcome that is not a success
\* ends the loop and the remaining targets are skipped.
RecordTarget(d) ==
    /\ power = "up" /\ pc[d] = "recording"
    /\ tstat' = [tstat EXCEPT ![d][target[d]] = result[d]]
    /\ IF StopsFleet(result[d])
         THEN /\ pc' = [pc EXCEPT ![d] = "sweeping"]
              /\ result' = [result EXCEPT ![d] = "skipped"]
         ELSE /\ pc' = [pc EXCEPT ![d] = "next"]
              /\ UNCHANGED result
    /\ UNCHANGED <<power, draining, mutex, waiting, todo, target, snapshot,
                   status, request, plan, catalogVars, nodeVars, lost>>

\* One iteration of a loop that writes the same outcome to every remaining
\* target.  Its write errors are ignored.
SweepTarget(d, b) ==
    /\ power = "up" /\ pc[d] = "sweeping" /\ b \in todo[d]
    /\ todo' = [todo EXCEPT ![d] = @ \ {b}]
    /\ \/ tstat' = [tstat EXCEPT ![d][b] = result[d]] /\ UNCHANGED lost
       \/ d \in Faulty /\ lost' = lost \cup {d} /\ UNCHANGED tstat
    /\ UNCHANGED <<power, draining, mutex, waiting, pc, target, result, snapshot,
                   status, request, plan, catalogVars, nodeVars>>

\* The goroutine returns, its locals go and its deferred unlocks run.
Return(d) ==
    /\ pc' = [pc EXCEPT ![d] = "idle"]
    /\ mutex' = IF mutex = d THEN Absent ELSE mutex
    /\ todo' = [todo EXCEPT ![d] = {}]
    /\ target' = [target EXCEPT ![d] = Absent]
    /\ result' = [result EXCEPT ![d] = "none"]
    /\ snapshot' = [snapshot EXCEPT ![d] = [b \in Bindings |-> Absent]]

CompletePushDeployment(d) ==
    /\ power = "up" /\ pc[d] \in {"next", "sweeping"} /\ todo[d] = {}
    /\ status' = [status EXCEPT ![d] = FinalStatus(d)]
    /\ Return(d)
    /\ UNCHANGED <<power, draining, waiting, request, plan, tstat, catalogVars, nodeVars, lost>>

\* A failed read or write ends the run where it is, or CompletePushDeployment
\* itself fails: the rows keep what they have.
StoreErrorEndsRun(d) ==
    /\ power = "up" /\ d \in Faulty
    /\ \/ pc[d] \in {"dry", "next", "recording"}
       \/ pc[d] = "validating" /\ \A b \in Bindings : snapshot[d][b] = Absent
       \/ pc[d] = "sweeping" /\ todo[d] \in {{}, IF request[d].dry THEN request[d].fleet ELSE {}}
    /\ lost' = lost \cup {d}
    /\ Return(d)
    /\ UNCHANGED <<power, draining, waiting, ledgerVars, catalogVars, nodeVars>>

-----------------------------------------------------------------------------
(* The remote command, from how the controller uses it.                    *)

\* express233-cli pull: handlePull serves the published artifact with the
\* current server.yaml entry applied.
RemotePull(d, b) ==
    /\ remote[d][b] = "started" /\ power = "up"
    /\ artifact[request[d].version] # Absent /\ cache[b] # Absent
    /\ pulled' = [pulled EXCEPT ![d][b] = [artifact |-> artifact[request[d].version],
                                           setting |-> @.setting, entry |-> cache[b]]]
    /\ remote' = [remote EXCEPT ![d][b] = "pulled"]
    /\ UNCHANGED <<processVars, ledgerVars, catalogVars, issued, lost>>

RemoteExit(d, b) ==
    /\ \/ remote[d][b] = "pulled" /\ remote' = [remote EXCEPT ![d][b] = "ok"]
       \/ remote[d][b] \in {"started", "pulled"}
          /\ remote' = [remote EXCEPT ![d][b] = "error"]
    /\ UNCHANGED <<processVars, ledgerVars, catalogVars, pulled, issued, lost>>

-----------------------------------------------------------------------------
(* Concurrent administration.                                              *)

\* A host or binding row is edited, deleted or gets its first host key.
UpdateBinding(b, s) ==
    /\ power = "up" /\ setting[b] # Absent
    /\ setting' = [setting EXCEPT ![b] = s]
    /\ UNCHANGED <<processVars, ledgerVars, artifact, disk, cache, nodeVars, lost>>

PublishVersion(v, a) ==
    /\ power = "up" /\ artifact[v] = Absent
    /\ artifact' = [artifact EXCEPT ![v] = a]
    /\ UNCHANGED <<processVars, ledgerVars, setting, disk, cache, nodeVars, lost>>

DeleteVersion(v) ==
    /\ power = "up" /\ artifact[v] # Absent
    /\ ~Pinned(v)
    /\ artifact' = [artifact EXCEPT ![v] = Absent]
    /\ UNCHANGED <<processVars, ledgerVars, setting, disk, cache, nodeVars, lost>>

\* PUT or DELETE of server.yaml or of one entry: read the file, change it,
\* write it, reload the cache, all under pushConfigMu or refused with 409.
PutServerEntry(b, e) ==
    /\ power = "up" /\ ConfigUnlocked
    /\ disk' = [disk EXCEPT ![b] = e]
    /\ cache' = disk'
    /\ UNCHANGED <<processVars, ledgerVars, artifact, setting, nodeVars, lost>>

\* ReloadAllServerYAML behind /__admin/reload-config.
ReloadAllServerYAML ==
    /\ power = "up" /\ ConfigUnlocked
    /\ cache' = disk
    /\ UNCHANGED <<processVars, ledgerVars, artifact, setting, disk, nodeVars, lost>>

\* handleLogin reloads the tenant's server.yaml without pushConfigMu.
LoginReload ==
    /\ power = "up"
    /\ cache' = disk
    /\ UNCHANGED <<processVars, ledgerVars, artifact, setting, disk, nodeVars, lost>>

\* The operator edits the file itself; reload-config exists for this.
EditServerYAML(b, e) ==
    /\ HandEdits
    /\ disk' = [disk EXCEPT ![b] = e]
    /\ UNCHANGED <<processVars, ledgerVars, artifact, setting, cache, nodeVars, lost>>

-----------------------------------------------------------------------------
(* Process life cycle.                                                     *)

BeginDeploymentDrain ==
    /\ power = "up" /\ ~draining
    /\ draining' = TRUE
    /\ UNCHANGED <<power, mutex, waiting, pc, todo, target, result, snapshot,
                   ledgerVars, catalogVars, nodeVars, lost>>

\* Every goroutine dies with the process; only the database survives.
ProcessDies(how) ==
    /\ power = "up"
    /\ power' = how
    /\ draining' = FALSE /\ mutex' = Absent
    /\ waiting' = [d \in Deployments |-> {}]
    /\ pc' = [d \in Deployments |-> "idle"]
    /\ todo' = [d \in Deployments |-> {}]
    /\ target' = [d \in Deployments |-> Absent]
    /\ result' = [d \in Deployments |-> "none"]
    /\ snapshot' = [d \in Deployments |-> [b \in Bindings |-> Absent]]
    /\ request' = [d \in Deployments |->
                     IF status[d] = "absent" THEN Absent ELSE request[d]]
    /\ plan' = [d \in Deployments |->
                  IF status[d] = "absent" THEN [b \in Bindings |-> Absent] ELSE plan[d]]
    /\ UNCHANGED <<status, tstat, catalogVars, nodeVars, lost>>

\* WaitForDeployments: the exit waits for pushDeploymentMu.
CleanExit == draining /\ LockFree /\ ProcessDies("stopped")

Crash == ProcessDies("crashed")

\* serve: under the instance lock, InterruptPushDeployments settles every
\* open row before the API starts; server.yaml is loaded afresh.
Restart ==
    /\ power # "up"
    /\ power' = "up"
    /\ tstat' = [d \in Deployments |-> [b \in Bindings |->
                   IF Interruptible(d) THEN Interrupted(tstat[d][b]) ELSE tstat[d][b]]]
    /\ status' = [d \in Deployments |-> IF Interruptible(d) THEN "failed" ELSE status[d]]
    /\ cache' = disk
    /\ UNCHANGED <<draining, mutex, waiting, pc, todo, target, result, snapshot,
                   request, plan, artifact, setting, disk, nodeVars, lost>>

-----------------------------------------------------------------------------
RunStep(d) ==
    \/ \E c \in Callers : ClaimDeployment(d, c) \/ RefuseRun(d, c)
    \/ \E b \in Bindings : ValidateTarget(d, b) \/ LaunchTarget(d, b) \/ SweepTarget(d, b)
    \/ FailBeforeExecution(d) \/ FleetPrepared(d) \/ DialFails(d) \/ StartSession(d)
    \/ SessionEnds(d) \/ SessionLost(d) \/ RecordTarget(d)
    \/ CompletePushDeployment(d) \/ StoreErrorEndsRun(d)

RequestStep(d) ==
    \/ \E v \in Versions, fleet \in (SUBSET Bindings) \ {{}}, k \in Keys \cup {Absent},
          dry \in BOOLEAN : FreezePushPlan(d, v, fleet, k, dry)
    \/ ReplayPushDeployment(d) \/ CreatePushDeployment(d)
    \/ CompletePushDryRun(d) \/ RedispatchHook(d)

NodeStep(d) == \E b \in Bindings : RemotePull(d, b) \/ RemoteExit(d, b)

AdminStep ==
    \/ \E b \in Bindings, s \in Settings \cup {Absent} : UpdateBinding(b, s)
    \/ \E v \in Versions, a \in Artifacts : PublishVersion(v, a)
    \/ \E v \in Versions : DeleteVersion(v)
    \/ \E b \in Bindings, e \in Entries \cup {Absent} :
          PutServerEntry(b, e) \/ EditServerYAML(b, e)
    \/ ReloadAllServerYAML \/ LoginReload

ProcessStep == BeginDeploymentDrain \/ CleanExit \/ Crash \/ Restart

Next ==
    \/ \E d \in Deployments : RequestStep(d) \/ RunStep(d) \/ NodeStep(d)
    \/ AdminStep
    \/ ProcessStep

Spec == Init /\ [][Next]_vars

\* Goroutines that are ready run, the exit that waits for the mutex happens,
\* and the systemd unit restarts a crashed controller (Restart=on-failure).
\* Requests, administration, drains, crashes and nodes are not fair.
FairSpec ==
    /\ Spec
    /\ \A d \in Deployments : WF_vars(RunStep(d)) /\ WF_vars(CompletePushDryRun(d))
    /\ WF_vars(CleanExit)
    /\ WF_vars(power = "crashed" /\ Restart)

-----------------------------------------------------------------------------
(* Correctness.                                                            *)

\* Every variable keeps the values the code can store in it.
TypeOK ==
    /\ power \in {"up", "stopped", "crashed"}
    /\ draining \in BOOLEAN
    /\ mutex \in Deployments \cup {Absent}
    /\ waiting \in [Deployments -> SUBSET Callers]
    /\ pc \in [Deployments -> Executing \cup {"idle", "frozen", "dry", "sweeping"}]
    /\ todo \in [Deployments -> SUBSET Bindings]
    /\ target \in [Deployments -> Bindings \cup {Absent}]
    /\ result \in [Deployments -> Outcomes \cup {"none"}]
    /\ snapshot \in [Deployments -> [Bindings -> Settings \cup {Absent}]]
    /\ status \in [Deployments -> Statuses]
    /\ request \in [Deployments -> Requests \cup {Absent}]
    /\ plan \in [Deployments -> [Bindings -> Plans \cup {Absent}]]
    /\ tstat \in [Deployments -> [Bindings -> Outcomes \cup {"none", "queued", "running"}]]
    /\ artifact \in [Versions -> Artifacts \cup {Absent}]
    /\ setting \in [Bindings -> Settings \cup {Absent}]
    /\ disk \in [Bindings -> Entries \cup {Absent}]
    /\ cache \in [Bindings -> Entries \cup {Absent}]
    /\ remote \in [Deployments -> [Bindings -> {"none", "started", "pulled", "ok", "error"}]]
    /\ pulled \in [Deployments -> [Bindings -> Plans \cup {Absent}]]
    /\ issued \in [Deployments -> [Bindings -> Nat]]
    /\ lost \subseteq Deployments

\* One central process serializes every SSH deployment: no two deployments
\* are ever between the claim and the recording of a target.
OneRunAtATime ==
    \A d, e \in Deployments : pc[d] \in Executing /\ pc[e] \in Executing => d = e

\* A target recorded as deployed was deployed from exactly the artifact, host
\* and binding rows and server.yaml entry frozen when the deployment was
\* created (freezePushPlan), although all of them can be edited, deleted and
\* re-created while the deployment waits and runs.
AppliedIsFrozen ==
    \A d \in Deployments, b \in Bindings :
        tstat[d][b] = "success" /\ ~request[d].dry => pulled[d][b] = plan[d][b]

\* "no SSH command executed": a target that is still queued, or was recorded
\* as skipped by the run or by the restart, never received the command.
UntouchedTargets ==
    \A d \in Deployments, b \in Bindings :
        tstat[d][b] \in {"none", "queued", "skipped"} => issued[d][b] = 0

\* The fleet is left at the first target that does not succeed: at most one
\* commanded target of a deployment is without a recorded success.
FailStop ==
    \A d \in Deployments : \A a, b \in Bindings :
        /\ issued[d][a] > 0 /\ tstat[d][a] # "success"
        /\ issued[d][b] > 0 /\ tstat[d][b] # "success"
        => a = b

\* The verdict on a deployment agrees with its targets: success means every
\* target succeeded, a closed deployment has no open target and, since
\* WaitForDeployments waits, a clean exit leaves none running for the restart
\* to call unknown, unless a write failed.
VerdictAgrees ==
    \A d \in Deployments :
        /\ status[d] = "success" =>
              \A b \in request[d].fleet : tstat[d][b] = "success"
        /\ status[d] \in {"success", "failed"} /\ d \notin lost =>
              \A b \in request[d].fleet : tstat[d][b] \in Outcomes
        /\ power = "stopped" /\ d \notin lost =>
              \A b \in Bindings : tstat[d][b] # "running"

\* Release logs are immutable: neither a late goroutine, nor a redispatch,
\* nor the restart rewrites a recorded outcome or verdict.
OutcomesAreFinal ==
    [][\A d \in Deployments :
        /\ \A b \in Bindings : tstat[d][b] \in Outcomes => tstat'[d][b] = tstat[d][b]
        /\ status[d] \in {"success", "failed"} => status'[d] = status[d]]_vars

\* Every queued deployment is eventually closed, through claims that race,
\* drains and crash loops, unless a write for it fails or the controller is
\* stopped for good.
EventuallyClosed ==
    \A d \in Deployments :
        status[d] = "queued" ~>
            status[d] \in {"success", "failed"} \/ d \in lost \/ power = "stopped"

-----------------------------------------------------------------------------
(* The abstract specification.                                             *)

\* The ledger that an administrator sees: a row that is not inserted yet is no
\* order, and queued and running are both open.
LedgerOrder ==
    [d \in Deployments |-> IF status[d] = "absent" THEN Absent ELSE request[d]]
LedgerVerdict ==
    [d \in Deployments |->
        IF status[d] \in {"success", "failed"} THEN status[d] ELSE "open"]
LedgerOutcome ==
    [d \in Deployments |-> [b \in Bindings |->
        IF tstat[d][b] \in {"queued", "running"} THEN "open" ELSE tstat[d][b]]]

Ledger == INSTANCE ReleaseLedger WITH
    Orders  <- Requests,      order   <- LedgerOrder,
    verdict <- LedgerVerdict, outcome <- LedgerOutcome,
    sent    <- issued,        turn    <- mutex

\* The controller, its requests, redispatches, crashes, drains and failed
\* writes included, behaves like that ledger: one order per key, one command
\* per target, in turns and up to the first failure, results and verdicts
\* that are final and agree with what was sent.
ImplementsLedger == Ledger!Spec
=============================================================================
