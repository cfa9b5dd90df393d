# A TLA+ verification of express233

express233 is a release controller for game servers.  A central process
(`express233-server`, Go, one SQLite database, one artifact directory) keeps
projects, their versions and the files of each version; nodes pull a published
version (`express233-cli pull`) or are pushed to over SSH; on the node
`scripts/safe-deploy.sh` swaps the release under the running game server.
This directory models the parts of it whose correctness depends on the order
of steps: of goroutines, of requests, of a controller and its nodes, and of a
program and its crash.

## 1. Inventory

| Part | State it keeps | Operations | Interacts with | What makes it correct |
|---|---|---|---|---|
| Push deployments (`internal/api/handlers_push.go`, `push_plan.go`, `push_executor.go`, `internal/store/push_deployments.go`, `push_recovery.go`) | `push_deployments`, `push_deployment_targets`, host and binding rows; `pushDeploymentMu`, `pushConfigMu`, `pushDraining` | freeze a plan, create (idempotent), dry run, run, redispatch, complete, interrupt on restart, drain | versions, server.yaml, release hooks, nodes over SSH | one run at a time; what is applied is what was frozen; no command is repeated; the fleet stops at the first failure; the ledger is final and agrees with the targets; nothing stays queued |
| server.yaml store (`handlers_server_yaml.go`, `tenant_ctx.go`) | the file, the per-tenant cache | PUT/DELETE of the file or an entry, reload, reload at login | push deployments (frozen while one runs), pulls | what pulls apply does not change under a run |
| safe-deploy script (`scripts/safe-deploy.sh`) | release tree, state file, attempt file, PID file, flock, backup archive | stage, lock, refuse, back up, stop, swap, start, health check, commit, roll back, traps | game server, lifecycle scripts, other invocations | the files are never silently half swapped; the state file never lies; recovery needs an acknowledgement; a rollback restores; nobody interferes with a replacement |
| Delivery nodes and agent (`internal/store/delivery_nodes.go`, `handlers_delivery_nodes.go`, `internal/cli/agent.go`, heartbeat in `handlers_pull.go`) | `delivery_nodes` row: desired version and generation, applied generation, status; the agent's state file | set desired, auto-follow, heartbeat, delete, the agent's cycle | publish, pulls, safe-deploy | an acknowledged generation was really installed; a desired version is eventually installed |
| Release hooks (`internal/store/release_hooks.go`, `release_hook_worker.go`) | `release_hooks` (pending version, due time), `release_hook_runs` | queue at publish (debounced), claim, dispatch, recover stale runs, disable | publish, push deployments | the last published version is deployed once; a crash loses no event |
| Version life cycle (`internal/store/projects.go`, `review.go`, `version_mutability.go`, `handlers_projects.go`, `handlers_files.go`) | `versions` rows, `version_files`, server content | create, next patch, upload, submit, reject, publish, delete, prune | blob store, push deployments, hooks, nodes | a published artifact never changes; a version in use is not deleted; patch numbers are unique |
| Blob store (`internal/store/blobs.go`, `storage.go`, `storage_index.go`) | blob rows with reference counts, files by digest | ingest, link, release, delete | version files | every linked blob has its file; no reference is lost |
| Host health monitor (`push_health.go`, host rows in `push_deployments.go`) | `push_hosts` with `next_check_at`, check history, `pushHealthMu` | periodic pass, check on demand, record, edit, delete | hosts | a check waits its whole interval; every due host has its turn; a deleted host stays deleted |
| Catalog, saved tasks and retention (`push_deployments.go`, `push_tasks.go`, `handlers_push_tasks.go`, `log_retention.go`) | hosts, bindings, tasks, hook references, deployments and targets, without enforced foreign keys | create, update, delete, resolve, run a task, prune | push deployments, release hooks | rows left behind are never adopted; a key creates once; counts are exact; everything is pruned |
| Login protection (`internal/store/login_protection.go`, `internal/api/login_protection.go`) | failure windows, bans | count, ban, unban, whitelist | login | limits are enforced at their boundary |
| Controller life cycle and self update (`cmd/express233-server`, `internal/instancelock`, `handlers_system_update.go`) | instance lock, state and PID files, configured address, unit file, the executable, drain flag | start, stop, restart, set-port, update, autostart, reload, serve, drain | every part above, systemd | one process serves and recovers; a command stops only what it has read of; an exit waits for a deployment; autostart brings a crashed controller back |
| Pull (`handlers_pull.go`, `internal/pull/bundle.go`, `internal/filetags`) | none | resolve, choose files by tag, render templates, stream an archive | versions, server.yaml, nodes | serves only published artifacts; delivers what was previewed |
| Access (`auth.go`, `jwtauth.go`, members, invites, tenants, users) | users, tokens, members, invites | login, invite, redeem, role checks | all handlers | an invite is used at most as often as it allows |
| Configuration rendering (`internal/template`, `internal/config`, `internal/compare`) | none | normalize and validate overrides, merge, replace, preview, compare | server.yaml, pull, console | overrides arrive whatever order a Go map has; the comparison is exact; what was accepted can be rendered |
| Console, dashboards, logs, CLI helpers, installers | presentation, metrics | render, list, export | - | out of scope: no protocol of their own |

Hard behaviours: goroutines and a background worker against HTTP handlers on
one database (a statement or transaction is atomic, a handler is not); two
mutexes with try-locks; crashes with recovery by status rewriting; SSH commands
whose outcome is lost while they go on; a shell script that can die between any
two lines; heartbeats that are lost, late or reordered; debounced events;
reference-counted files beside a database that commits at another moment.

## 2. Plan

Done: the push-deployment controller and the abstract ledger it implements, the
script it runs on the node and the abstract installation it implements, delivery
nodes and their agent, release hooks, versions and their blobs, the life cycle of
the controller process, the health monitor, the catalog with its tasks and its
retention, and the rendering of configurations; and for every one of them its
safety properties as theorems.  Left are smaller parts: patch numbering with its
retries, the adoption of old files into blobs, redemption of invites, the windows
of the login protection.

The modules are written to be proved about: no `RECURSIVE`, named assumptions on
the constants, one action per operation.

## 3. Modules and code

`PROJECT.json` maps each definition to its lines.  A database statement or
transaction is one step everywhere: the store is opened with one connection
(`internal/store/store.go:32`).  Everything between two statements is not.  The
theorems about a module `M` are in `MProofs`, those about `DeliveryNode` and
`ConfigRender`, what a pull is asked for and what it delivers, in `PullProofs`.

**PushDeploy** (`handlers_push.go`, `push_plan.go`, `push_executor.go`,
`push_deployments.go`, `push_recovery.go`, `handlers_server_yaml.go`).  State:
the process (`power`, `draining`, the mutex, who waits for it and where each run
is), the rows (`status`, `request`, `plan`, `tstat`), the catalog that plans are
made from (`artifact`, `setting`, the server.yaml file and its cache) and the
nodes (`remote`, `pulled`, `issued`).  Requests freeze a plan, insert it under
an idempotency key, take the mutex, validate the whole fleet, then per target
mark it running, connect, start the remote command, wait and record.  Crashes,
drains, lost connections, failed writes, redispatches by hooks and edits of the
catalog interleave with every step.  The remote command goes on when the
connection or the controller does not.

**ReleaseLedger** is the abstract specification of the same part, for whoever
reads the release log: orders, verdicts, results of targets, commands sent, and
whose turn it is; no processes, plans, crashes or queues.  `PushDeploy`
instantiates it as `Ledger` (a row that is not inserted yet is no order, queued
and running are both open, the turn is the mutex) and `ImplementsLedger` says
that every behaviour of the controller is one of the ledger: a lookup, a claim
or an edit is a stuttering step, a restart gives everything open up at once.

**SafeDeploy** (`scripts/safe-deploy.sh`).  State: each shell's point and its
variables, the files (`tree`, `state`, `attempt`, `pidfile`), the flock, the
game server, and what outlived its shell: an `rsync` goes on and keeps the flock,
whose descriptor it inherits, a lifecycle script goes on without it (`9>&-`).
Each shell may fail, be signalled (traps run, also between a verdict and the
exit) or be killed (they do not) at any point; a reboot ends everything and keeps
the files.  The state file is one of the files that `rsync` replaces: a swap takes
it away, and a restore puts the archived one back, at any moment of the copying
and also when the copying fails.

**Installation** is the abstract specification of the same part, for whoever
looks at an instance directory: the release files, the record of what they are,
the latest attempt and its verdict, what each run was ordered to install and what
it found; no shells, locks, signals, archives or servers.  `SafeDeploy`
instantiates it as `Install` (a phase of the attempt file that is not terminal is
"open") and `ImplementsInstall` says that every behaviour of the script is one of
an installation whose attempts follow one another: staging is the order, the
first attempt file the start, the begin and the end of an rsync break the files
and make them whole, a terminal phase is a verdict that is true when it is given,
and that a signal may turn into "lost" until the script has ended; everything
else, a kill, a reboot or a blocked rollback, is a stuttering step.

**DeliveryNode** (`delivery_nodes.go`, `handlers_delivery_nodes.go`,
`internal/cli/agent.go`, the heartbeat in `handlers_pull.go`).  State: the row,
the calls under way and the late ones, the agent's point and state file, its
own run of `safe-deploy.sh` and the runs that outlived earlier agents, what is
installed, whether the attempt file asks for an operator.  Heartbeats can be
refused, lost, or time out and be applied later; the agent can die under its run.
A run pulls first and takes the lock of the instance afterwards, so of two runs
the older one may install last.

**ReleaseHook** (`release_hooks.go`, `release_hook_worker.go`,
`handlers_release_hooks.go`).  State: the hook rows with their debounce window,
the run rows, the worker's list and point, the deployments it made.  The time
is abstract: a window elapses, a lease expires.  Updates are read, write,
record, with anything in between, also the claim of the window that was read.

**ArtifactStore** (`blobs.go`, `files.go`, `projects.go`, `review.go`,
`storage.go` and their handlers).  State: version rows, version directories and
blob files as *inodes*, reference counts, and the request each client is in the
middle of.  A hard link is two names of one inode, so writing through one is
seen through the other.  `published_at` is kept as an order: `older` gives for
each version those published no later.  Every file operation and every
transaction of a request is a step of its own, and a request may end after any
of them.

**ServerControl** (`control.go`, `main.go`, `service.go`, `lock_unix.go`,
`handlers_system_update.go`).  State: the processes that run `serve` and where
each is, the flock, the state and PID files by the process they name, the
configured address, the unit file and what systemd thinks of it, the binary on
disk, and the command lines at work.  A command reads the state file, asks the
address in it, posts to the control endpoint and waits, in steps of their own;
the script that an update leaves behind is one more actor, whose `cp` empties the
executable before it fills it.  The worker of the release hooks is started before
the port is tried, so a process that finds its port blocked may be executing a
deployment when it lets go of the lock.  Processes are killed at any point and the
machine reboots, also in the middle of that `cp`.  A process id stands for its control
token as well and is reused once nothing names it.

**FleetWatch** (`push_health.go`, `handlers_push.go`, `push_deployments.go`).
State: the host rows with the distance of `next_check_at`, the list of the pass
at hand, who is connected, the update between its two statements, the ticker's
channel, and as history the time since the last recorded check and what may bring
the next one forward.  Time is counted in ticks of the scheduler.

**ReleaseCatalog** (`push_deployments.go`, `push_tasks.go`,
`handlers_push_tasks.go`, `handlers_push.go`, `log_retention.go`, the references
of `release_hooks.go`).  State: the rows, each with the generation that tells
apart two holders of one id, and the requests between their statements.  Ids are
drawn as SQLite draws them.  Days pass, and rows older than the retention are
pruned.  A run of a task wants every server that it names to be resolved; the
dispatch of a hook takes what it finds.

**ConfigRender** (`internal/template`, `internal/config`, `internal/compare`,
`internal/filetags`, `bundle.go`).  The algorithms are operators on trees: a tree
is a function from a prefix-closed set of paths, which are sequences of `Names`,
to scalars and maps, an empty map being a node with nothing below it.  What JSON
makes of a number (`Float64`) and how a value is printed (`Sprint`) are functions
on scalars: a JSON put and a JSON file go through the first, a properties file,
the preview and the comparison through the second.  The state
is one use of the overrides after another (validate, preview, pull, the two sides of a comparison), each of which
takes the keys of the Go map in an order of its own.  `Expected` and
`ExpectedValue` are the reference definition the uses are checked against.

## 4. Runs

What a module says of one piece of state is an invariant of named parts, checked
together with its types: `FilesTellTheTruth` is `TornIsFenced`,
`StateIsInstalled`, `NoOpIsSound`, `CompletedIsInstalled` and
`PreviousIsBackIfSynced`;
`StateFileIsHonest` is `AcknowledgedIsSaved` and `SavesWhatIsInstalled`;
`EventsAreHonest` is `DisabledIsIdle`, `RunsAtMostOnce` and `SuccessIsReal`;
`BlobStoreIsSound` is `RefsCoverLinks` and `BlobsAreIntact`;
`OneCurrentController` is `OneController` and `RunsWhatIsInstalled`;
`ScheduleIsSound` is `ScheduledIffEnabled` and `OneConnection`; `TablesAgree` is
`NothingIsAdopted`, `TargetsLiveWithDeployment` and `RunCountIsExact`;
`RendersWhatIsAsked` is `OverridesArrive` and `RenderTypeOK`, which says that
`Normalize` makes trees.

| Run | Instance | Result |
|---|---|---|
| `push_fleet` | 1 deployment, 2 bindings, 2 artifacts and 2 settings to be swapped, failing writes | plan fidelity, fail-stop and verdicts hold |
| `push_race` | 2 deployments, 1 idempotency key, hand edits | serialization, finality and the ledger refinement hold |
| `push_live` | 2 deployments, fair | every deployment is closed |
| `safe_deploy` | 3 invocations, 2 projects, 2 releases | the state files tell the truth, the swap is fenced, alone and written ahead, and the refinement of the installation holds |
| `delivery_node` | 2 versions, 2 generations, 1 late heartbeat, 1 fault, fair | acknowledgements, generations and convergence (where the state file names what is installed) hold |
| `release_hook` | 1 hook, 2 triggers, 2 faults, fair | at-most-once, order, cancellation and settlement hold |
| `artifact_store` | 2 versions, 1 path, 2 contents, 2 clients, failures | counts, blobs and frozen versions hold while clients share no version |
| `artifact_store_shared` | the same, clients share versions | **violation** of `PublishedIsUntouched` |
| `server_control` | 3 processes, 2 commands of any kind, 2 addresses of which one is taken, 1 kill or reboot, fair | one controller, exclusive recovery, addressed shutdowns, the right binary, and autostart hold, with the exceptions of section 6 |
| `fleet_watch` | 2 hosts, 2 intervals, passes of one host, 1 request, 1 update or restart, fair | the schedule, the full interval, deletion and turns hold |
| `release_catalog` | 2 hosts, bindings, tasks and deployments, 2 runners with 1 key, 7 requests, retention of a day, fair | no adoption, targets, counts, keys and pruning hold |
| `config_render` | up to 3 dotted and nested keys below one name, or one of them and a key of another, with scalars, blocks and an empty block, 3 trees as YAML and JSON, 3 properties files of which one repeats a key, numbers above 2^53, null and a list, a pull for one tag, or for all and one | rendering, preview, comparison and acceptance hold |

*Why the bounds are enough to be interesting.*  Two bindings are what fail-stop
and "skipped" need; two deployments what a race for the mutex or a key needs;
two artifacts and two settings let a plan go stale in every component.  Three
invocations give safe-deploy a predecessor, a failure and a successor that meets
its debris.  Two generations and a late heartbeat give the row an overtaken
acknowledgement.  Two triggers and two faults leave a stale event beside a new
one, so that recovery and a claim meet in one pass; a second hook makes the space
of the run too large and adds only another row, events of one hook being ordered
among themselves.  Two versions, two contents and one path let a file be
overwritten, shared between versions and released to zero while the other client
counts it; `MaxRef` 2 is the number of files there are, so both may hold one
blob, or one count may leak beside a file; with 3 the same properties hold, in
twice the states.  Three processes are an old controller, its successor and one
that systemd or a second command starts beside them.  Passes of one host with two
hosts make the limit of a pass (100 in the code) bite; intervals of two and three
ticks are the shortest the code accepts and one more.  Seven requests are enough
to create, bind, run, delete and create again while another request is half way.
Three keys are what it takes for one override to be lost in the copy of another;
an empty block is the node that is neither a scalar nor leads to one.

*Symmetry* is used where names are only compared and the run has no liveness
property (`push_fleet`, `push_race`, `safe_deploy`, `artifact_store`).

*Deadlock* is checked except for `safe_deploy`, whose invocations come to an end,
`server_control`, where everything may have been stopped, and `config_render`,
which ends with the last use.

*Bounds in guards*: `MaxGeneration`, `MaxLate`, `MaxTriggers`, `MaxFaults`,
`MaxRef`, `MaxCommands`, `MaxCrashes`, `MaxChanges`, `MaxRequests`.  In
`ArtifactStore` the number of inodes is what can be linked at a time and one
more; an inode without a link is reused, and so is a process id in
`ServerControl`.

Each property of a passing run has a mutant of the modelled code in
`PROJECT.json` that violates it.

## 5. Fairness

- `PushDeploy!FairSpec`: a goroutine that can go on does, an exit that waits for
  the mutex happens once it is free, and a crashed controller is restarted
  (`Restart=on-failure` in the unit that `service.go` installs).  Requests,
  administration, drains, crashes and nodes are not fair.
- `DeliveryNode!FairSpec`: the agent's loop (a ticker) and its runner go on.
  Operators, late heartbeats and faults are not fair; faults are finitely many.
- `ReleaseHook!FairSpec`: the worker's ticker fires, time passes (windows elapse,
  leases expire), a drained process exits and is started again (`Restart=always`
  in `deploy/systemd`, or the self update that drained it).

- `ServerControl!FairSpec`: a process that can take a step takes one, the
  deployment that a stopped process waits for ends (every remote command has a
  deadline), and as long as a command can go on or systemd has a unit to start,
  one of that happens, which is less than the scheduler gives.  Operators, kills
  and reboots are not fair.
- `FleetWatch!FairSpec`: handlers are carried through, the ticker ticks, the
  scheduler starts its pass and connections end (they have a deadline).  Getting
  the mutex is strongly fair: a `sync.Mutex` hands itself over to who has waited
  for a millisecond.
- `ReleaseCatalog!FairSpec`: days pass and the daily ticker of
  `StartLogRetention` prunes.

## 6. Findings

One disagreement between the code and what the repository says of it is kept as a
run:

- *Two uploads of one file can empty a published version*
  (`artifact_store_shared`): the second upload's copy truncates the path, which
  the first has just hard-linked to the blob, and so empties the blob and
  everything that links it.  `NonDraftIsImmutable` and `BlobsAreIntact` hold as
  long as clients do not work on one version at the same time; nothing in the
  server makes them.

Others came up while modelling.  The models have the behaviour, and the
properties that exclude it say so in their comments:

- *A login reloads server.yaml during a deployment* (`handlers_auth.go:67`):
  `handleLogin` calls `reloadServerYAML` without the lock that makes every other
  reload refuse while the configuration is frozen (`tenant_ctx.go:62`).  It takes
  a hand edit of the file to matter, hence `HandEdits`.
- *A failed restore is recorded as a rollback* (`safe-deploy.sh:427,451`):
  `rollback_release` runs as an `if` condition, so errexit is off and a failing
  rsync goes unnoticed.  The archive holds the state file too (`safe-deploy.sh:360`),
  which is then back over a torn tree under the terminal phase `rolled_back`, so
  that the next deployment of the old release may be taken for an idempotent no-op.
  `Overlooked` names these attempts; `TornIsFenced`, `NoOpIsSound` and
  `PreviousIsBackIfSynced` show that nothing else lets a torn tree pass: after a
  kill in the middle of a restore the old state file may be there as well, but the
  attempt file fences it.
- *A verdict can be overwritten* (`safe-deploy.sh:469`): the traps are armed until
  the script ends, so a signal after `write_attempt completed` makes it
  `interrupted`.  `Installation` allows that: nothing is known any more, which is
  safe.
- *A node can stay on the wrong version* (`delivery_nodes.go:158`): a heartbeat
  whose state file names the desired version by accident acknowledges the
  desired generation, which `handlers_delivery_nodes.go:126` says it must not.
  The state file lags behind when the agent or its run was cut off between the swap
  and the save; and it is overtaken when a run that outlived its agent pulled
  before the agent's new run and took the lock after it (`safe-deploy.sh:199-220`).
  `ConvergesIfSaved` leaves out just the nodes whose state file stays wrong, and
  those that wait for an operator.
- *A cancelled trigger can be deployed* (`handlers_release_hooks.go:79,104`): a
  window that the worker claims after an update has read the hook and before it has
  written it is deployed, and recorded as "disabled before debounce window
  elapsed".  `CancelledIsNotDeployed` names this window and excludes every other.
- *A drain loses a claimed trigger* (`release_hook_worker.go:112`): the worker
  takes a deployment that the drain left queued for a failed one, although
  `docs/SSH_PUSH_DEPLOY.md:36` says that a restart loses nothing.
- *An update of a host can undo a recorded check* (`push_deployments.go:367`):
  it reads `next_check_at` and writes it back in another statement, so that the
  host is due again before its full interval (`docs/SSH_PUSH_DEPLOY.md:42`).
- *A check on demand can be followed at once by the scheduled one*
  (`push_health.go:46`): the pass goes through the list it has read at its start.
  `FullInterval` is about the connections of the monitor; it names this case and
  that of the update, and shows that each is good for one early check.
- *A restart can leave no controller* (`control.go:584`): `stopServer` waits for
  the port to go silent, not for the process; while the old controller drains,
  the new one finds the lock held and gives up.  With autostart systemd tries
  again (`CrashComesBack`).
- *An update without autostart restarts nothing* (`service.go:311`): the command in
  the script is a path in single quotes within double quotes, which is no file,
  although the command line says that the server will restart automatically
  (`control.go:636`).
- *An update can leave half an executable* (`control.go:791`): `cp` writes over the
  file in place; a reboot or a full disk in between leaves what systemd cannot
  start.  `CrashComesBack` names the case (`ExecutableLost`) and excludes others.
- *A blocked port ends a controller under its deployment* (`control.go:108,155`):
  the hook worker is started before the port is tried, and that return goes past
  `WaitForDeployments`, so the lock is free before the process is gone and a
  successor may take over a deployment that is still executed.
  `RecoveryIsExclusive` names the case and excludes others.
- *A dotted override can be lost* (`merge.go:58`): `SetNestedMap` goes on in what
  `AsStringMap` returns, which is a copy for a map that yaml.v3 decoded as
  `FileOverrides`.  With `a: {b: {e: 2}}`, `a.x: 1` and `a.b.d: 1` some orders of
  the Go map lose `a.b.d`, so a comparison of two identical versions may report
  it, against `diff_test.go:46`.  The properties of `ConfigRender` ask for
  overrides that are `Settled`.
- *Nested overrides of a properties file* (`overrides.go:82`) are accepted when
  they are put as JSON and refused after the file is read back as YAML.
- *An override of a repeated key has no effect* (`replace.go:48`): in a properties
  file that repeats a key the override changes the first line and the preview reads
  the first, while the comparison (`diff.go:292`), like readers of such files, takes
  the last.  `OverridesArrive` and `DiffIsExact` say so exactly.
- *Numbers change on the way* (`merge.go:229`): a JSON file or a JSON put goes
  through float64, so that an integer above 2^53 that nobody overrides is another
  one afterwards; in a properties file a large number of a JSON put is written with
  an exponent and null as `<nil>` (`merge.go:248`).  The properties speak of the
  values that these conversions make.
- *A target of `all`* (`tags.go`) is normalized to `*` alone, which drops the
  platform tags beside it.

Behaviour that is hard to test and on which no property is stated: `DeleteProject`
does not look for queued deployments (`projects.go:95`; one project is modelled,
never deleted); a publish repeated after a newer one moves the followers back
(`handlers_projects.go:233`; modelled, but the repository is of two minds about
it); `published_at` has a resolution of a second, so of two versions published in
one second the later may be pruned first (`projects.go:378`; the model publishes
at distinct times).

## 7. Proofs

Every safety property of section 4 is a theorem, for all values of the constants
that satisfy the named assumptions.  The assumptions say that null values are not
values of their kind (`AbsentAssumption`, `RequestAssumption`, `NilAssumption`,
`FileAssumption`, `NoneAssumption`, `ContentAssumption`), that scalars are no
maps, that what server.yaml says of a file is finitely many finite trees and that
structured files are maps and properties files lines (`ScalarAssumption`,
`OverridesAssumption` and `FileAssumption` of `ConfigRender`), that bounds are numbers and switches are Booleans, that
there are finitely many hosts, hooks, versions, paths, contents and clients, that
there is a longest interval and none is shorter than two ticks
(`validPushHealthCheckInterval` bounds them), and that rows are numbered from 1
(SQLite does).  TLC evaluates them in every run.

A property is seldom inductive as it stands.  Each module has one inductive
invariant `IndInv` of named parts; a lemma per part shows that no action breaks
it, given the others.  All of them were checked by TLC on the instances of
section 4 before they were proved.

**PushDeployProofs** - `IndInv == TypeOK /\ RowInv /\ TargetInv /\ StopInv`.
`RowInv` ties where a run is to its row and to the mutex (one that executes
holds the mutex and has status running, a dead process has no run).
`TargetInv` ties the loop to the target rows: what is still to do is queued, the
current target is running, and what is queued or skipped got no command.
`StopInv` says which target may have a command without a recorded success: the
current one, while a run executes.  None of them is inductive alone: a command
is issued at the current target, which is only known to be uncommanded because
it came from `todo`, which is only known to be this run's because runs are
serialized.  From `IndInv` follow `TypeCorrect`, `RunsAreSerialized`
(`OneRunAtATime`), `SkippedMeansUntouched` (`UntouchedTargets`),
`StopsAtFirstFailure` (`FailStop`) and, step by step, `LedgerIsFinal`
(`OutcomesAreFinal`).

`DeployedIsFrozen` (`AppliedIsFrozen`) needs `FrozenInv` as well: rows that were
validated stay what the catalog holds while a run executes, because the
operations that would change them are refused; the command of the current
target works with these; and a recorded success pulled the plan.  It assumes
`~HandEdits`: with a hand edit and a login during a run the theorem is false (see
the findings).

`VerdictsAgree` (`VerdictAgrees`) and `LedgerIsImplemented` (`ImplementsLedger`)
need `LedgerInv`: a dead process has released the mutex and the targets of a row
are those of its fleet (`FleetInv`); a run marks one target at a time and sweeps
or records a success only of a dry run or of a command (`SweepInv`); unless a
write failed, only a run or its crash leaves targets running (`ProgressInv`).
The refinement is proved action by action: the initial states map to an empty
ledger, and each step of the controller maps to a step of `ReleaseLedger` or to a
stutter under the mapping of `Ledger`.

**SafeDeployProofs** - `IndInv == LockInv /\ PhaseInv /\ OrphanInv /\ TreeInv /\
FilesTellTheTruth`.  Who works, shell or leftover rsync, holds the flock; the attempt file follows the
phase of the holder; a lifecycle script that outlived its shell belongs to the
attempt on file, which is fenced, so nobody touches the service beside it; and
at each point of a run it is known what the files and the archive hold.
`FilesAreTrue` (`FilesTellTheTruth`), `SwapsWhileStopped` (`SwapWhileStopped`) and
`RsyncIsAlone` (`NobodyInterferes`) follow at once, `WritesAhead`
(`WriteAhead`) and `RecoveryIsExplicit` (`RecoveryIsAcknowledged`) by a look at
each step.

`InstallIsImplemented` (`ImplementsInstall`) needs `InstallInv` as well: a run is
staged and starts once, what rsync works on is torn, and what is committed or
archived is recorded for the project of the run.  It is proved as the ledger is: one lemma per action of `Installation`
shows which steps of the script are that action, and `Unseen` and `StillOpen`
take care of the steps that the instance directory does not show.

**PullProofs**, the delivery nodes - `IndInv == StateFileIsHonest /\ CycleInv /\
RunnerInv`.  The agent waits for an answer exactly where it sent a request, it
waits for the run of its own order, and whoever installs something between the end
of that run and the save is a run that outlived an earlier agent, a cut-off one or
an operator, which takes a fault before.  `AgentIsHonest` (`StateFileIsHonest`);
`GenerationsNeverGoBack` (`GenerationsGrow`), for which the row needs no invariant
but its type.

**PullProofs**, the rendering - `RenderInv == RenderTypeOK /\ given \in Overrides /\
OutInv /\ PastInv`.  What `Normalize` makes of all the keys in every order is not
proved by an induction over the order or over a tree, but as an invariant of its
loop, whose step takes one key: `OutInv` says that the tree made so far has
exactly the nodes that the keys taken so far spell out and the maps above them,
each scalar with the value asked for (`StructuredOf`), and for a properties file
the same of the flat keys (`PropertiesOf`).  The heart is `StructuredTakes`: of
settled overrides one more key, dotted or nested, meets only maps on its way
(`Meets`) and adds its own nodes (`OneMore`, with `GraftFresh` for a free place
and `MergeBlock` for one where another key has been), so the merge neither fails
nor goes through a copy.  `EntryTaken` turns that around: a failure is due to a
key that is `Unusable` in every order.  When the last key has been taken the
tree is determined up to the kind of its maps (`AskedLeaves`, `MadeAlike`), so two
uses that went through different orders made the same scalars, and `PastInv`
keeps that each use that returned worked on such a tree.  The rest is about the
merge into the file: `StructuredArrives` and `Arrives` (the merged file has what
is `Expected`), `FailureIsClash` (the merge fails only where a map and a scalar
meet), `ReplacedLines` and `ReplacedKeys` (the first line of each key is replaced,
the missing keys are appended once, in any order).  `OverridesAreRendered`
(`RendersWhatIsAsked`), `PreviewTellsTheTruth` (`PreviewIsDelivered`),
`ComparisonIsExact` (`DiffIsExact`), `AcceptedCanBeUsed` (`AcceptedIsUsable`).  The
proof found a gap in the last one: a pull for `*` and further tags asks for `*`
alone, so it leaves out a tagged file although it names one of its tags; the
property now says so, and the run has such a pull.

**ReleaseHookProofs** - `WindowInv` (only a hook that is on has a window, and
nothing in it was cancelled), `UpdateInv` (what an update read and wrote over
waits no more), `EventInv` (a deployment that was not started has no run),
`OrderInv` (the triggers of a hook go through its window in order), `WorkerInv`
(the worker knows the state of its deployment; what it claimed itself is the
latest event of the hook), `CancelInv` (what an update records as cancelled is in no
event but one that claimed it behind the update's back) and `DownInv`.  `HooksAreHonest` (`EventsAreHonest`),
`NewestIsLast` (`NewestLast`), `CancelledStaysCancelled`
(`CancelledIsNotDeployed`).

**ArtifactStoreProofs** - `WorkInv` (one request works on a version and finds the
status it relied on), `FileInv` (the file about to be unlinked is the one that was
hashed; the path about to be linked to is free), `CountInv` (a reference count is
at least the number of links and of the requests between counting and linking or
between unlinking and counting down), `BlobsAreIntact` and
`NonDraftIsImmutable`.  The property that counts cover links is not inductive:
without the claims in flight, the count of another request could fall to zero
before the link is made.  `BlobStoreStaysSound` (`BlobStoreIsSound`) and
`ReleasedStaysTheSame` (`NonDraftIsImmutable`) assume `Exclusive`: `FileInv` is
what two uploads of one path break, as `artifact_store_shared` shows.

**ServerControlProofs** - `IndInv == OneCurrentController /\ PushInv /\ CopyInv`: a
deployment is executed by a process that starts, serves or drains, or that found its
port blocked, and nobody runs an executable that is not whole.  The ids given to new
processes are those that nothing names any more (`NextIdIsFree`).
`ControllerIsUnique` (`OneCurrentController`), `RecoveryComesAfterDrain`
(`RecoveryIsExclusive`), `StateFileIsKept` (`OnlyStopUnpublishes`),
`ShutdownReachesItsTarget` (`ShutdownIsAddressed`).

**FleetWatchProofs** - `RowInv` (of a live host whose checks are on, the time
since the last check and the time to the next make up the interval), `ConnInv`,
`UpdateInv` (what an update is about to write has a next check exactly if it
turns checks on), `PassInv`, `ListInv` (what a pass has listed had waited for its
interval, unless something happened to it since) and `OnceInv` (a pass takes a host
once).  `ScheduleStaysSound` (`ScheduleIsSound`),
`MonitorKeepsTheInterval` (`FullInterval`), `DeletedHostsStayAway`
(`DeletedStaysDeleted`).

**ReleaseCatalogProofs** - `RefInv` (an id is given once, so every reference,
stored or held by a request between two statements, names a row that was born
and has not been replaced), `TargetsLiveWithDeployment`, `FoundInv` (what is
about to be inserted has targets), `RunCountIsExact` and `KeyInv` (a row without
a life has no key, a pruned one was too old).  `TablesStayInAgreement`
(`TablesAgree`), `KeysCreateOnce` (`KeyCreatesOnce`).

Some operators of the models are characterised by lemmas on the way: the least
and the greatest of a set of numbers, free ids, removal from a sequence without
duplicates, the cardinality of the links and claims after one of them changes,
paths and their prefixes, grafts and merges of trees.

## 8. Only model-checked

Liveness (`EventuallyClosed`, `ConvergesIfSaved`, `EveryTriggerSettles`,
`CrashComesBack`, `DueIsChecked`, `EverythingIsPruned`) is outside the prover.
They are checked under the fairness of section 5, on the instances of section 4.

## 9. Not modelled

`PROJECT.json` lists every part with its reason.  Inside the modelled parts:
one tenant and one project; role checks; wording, logs, audit and metrics;
archive formats and file modes; SSH authentication and the enrolment of host
keys; the time itself (windows, leases and time-outs end at any moment) except in
`FleetWatch`, which counts ticks, and `ReleaseCatalog`, which counts days.
`ServerControl` is Linux with systemd; the Windows service, the download and the
check of the archive are left out.  `ConfigRender` has one file of one server,
leaves out names with dots inside a nested block, quoting, comments, hook
templates, the line diff of files and the table of file tags, and lets nobody
change the overrides between two uses.  `ArtifactStore` lets a deployment pin a
version at any moment instead of composing with `PushDeploy`, publishes at
distinct times, and does not have the one-time adoption of files from before the
blob store.  Login protection, accounts and invites are single transactions
behind role checks, whose thresholds unit tests reach.
