--------------------------- MODULE ReleaseCatalog ---------------------------
(***************************************************************************)
(* What a push deployment is made from and what is kept of it: the hosts   *)
(* and the server bindings on them, the saved tasks that select bindings,  *)
(* the hook that runs a task, the deployments that are created, and the    *)
(* retention of 30 days after which their rows are pruned.                 *)
(*                                                                         *)
(* One project of one tenant.  Each statement of SQLite is a step, and so  *)
(* is each transaction; requests overlap between them.  The tables have no *)
(* enforced foreign keys.  Names, roots, platforms and versions are left   *)
(* out; a deployment's life after its creation is PushDeploy's.            *)
(***************************************************************************)
EXTENDS Naturals, FiniteSetsExt

CONSTANTS
    Hosts, Tasks, Deployments,  \* ids, as numbers from 1
    Bindings,     \* ids of bindings, as numbers from 1
    Places,       \* what a binding says: [server, labels]
    Selectors,    \* what a task asks for: [servers, tags, all]
    DefaultTag,   \* the tag of a task without tags ("test")
    Keys,         \* idempotency keys
    Runners,      \* requests and hook dispatches that create deployments
    Retention,    \* LogRetention, in days of the model
    MaxRequests,  \* bound on requests
    None          \* no task, no request, no key

ASSUME IdAssumption ==
    /\ \A S \in {Hosts, Tasks, Deployments, Bindings} :
         IsFiniteSet(S) /\ S = 1 .. Cardinality(S)
    /\ None \notin Keys
ASSUME SelectorAssumption == \A s \in Selectors : DOMAIN s = {"servers", "tags", "all"}
ASSUME BoundAssumption == {Retention, MaxRequests} \subseteq Nat

VARIABLES
    host,     \* the rows of push_hosts
    binding,  \* the rows of push_server_bindings
    task,     \* the rows of push_deployment_tasks
    hook,     \* the task that the hook refers to
    deploy,   \* the rows of push_deployments
    targets,  \* the rows of push_deployment_targets: <<deployment, binding>>
    run,      \* the runners
    bind,     \* CreatePushServerBinding at work: what it will insert
    drop,     \* DeletePushDeploymentTask at work: the task without hooks
    attach,   \* CreateReleaseHook or UpdateReleaseHook at work: the task it found
    made,     \* history: deployments inserted for each task, alive or pruned
    requests  \* requests so far

rows == <<host, binding, task, hook, deploy, targets>>
vars == <<host, binding, task, hook, deploy, targets, run, bind, drop, attach,
          made, requests>>

\* A row is named by its id; gen, a history, tells apart rows that had an id
\* one after another.
Unborn == [life |-> "unborn", gen |-> 0]
Born(r) == [life |-> "live", gen |-> r.gen + 1]
Live(r) == r.life = "live"
Ref(table, id) == [id |-> id, gen |-> table[id].gen]

NoBinding == [life |-> "unborn", host |-> None, place |-> None]
NoTask == [life |-> "unborn", gen |-> 0, selector |-> None, runs |-> 0]
NoDeploy == [life |-> "unborn", key |-> None, age |-> 0]
Resting == [pc |-> "idle", task |-> None, selector |-> None, key |-> None,
            hooked |-> FALSE, found |-> {}]

Init ==
    /\ host = [h \in Hosts |-> Unborn]
    /\ binding = [b \in Bindings |-> NoBinding]
    /\ task = [t \in Tasks |-> NoTask]
    /\ hook = None
    /\ deploy = [d \in Deployments |-> NoDeploy] /\ targets = {}
    /\ run = [r \in Runners |-> Resting]
    /\ bind = None /\ drop = None /\ attach = None
    /\ made = [t \in Tasks |-> 0] /\ requests = 0

Request == requests < MaxRequests /\ requests' = requests + 1

\* AUTOINCREMENT: one more than any id ever given; and the id that SQLite
\* gives without it.
ReusedId(table) == 1 + Max({0} \cup {i \in DOMAIN table : Live(table[i])})
NextId(table) == 1 + Max({0} \cup {i \in DOMAIN table : table[i].life # "unborn"})

-----------------------------------------------------------------------------
(* Hosts and bindings.                                                     *)

CreateHost ==
    /\ Request /\ NextId(host) \in Hosts
    /\ host' = [host EXCEPT ![NextId(host)] = Born(@)]
    /\ UNCHANGED <<binding, task, hook, deploy, targets, run, bind, drop, attach, made>>

\* The host's bindings stay behind.
DeleteHost(h) ==
    /\ Request /\ Live(host[h])
    /\ host' = [host EXCEPT ![h].life = "gone"]
    /\ UNCHANGED <<binding, task, hook, deploy, targets, run, bind, drop, attach, made>>

\* CreatePushServerBinding asks whether the host exists, then inserts.
BindingCounts(h, p) ==
    /\ Request /\ bind = None /\ Live(host[h])
    /\ bind' = [host |-> Ref(host, h), place |-> p]
    /\ UNCHANGED <<rows, run, drop, attach, made>>

\* UNIQUE(host_id, project_name, server_id, labels).
Taken(ref, p, others) ==
    \E b \in others : /\ Live(binding[b]) /\ binding[b].host.id = ref.id
                      /\ binding[b].place = p

BindingInserts ==
    /\ bind # None
    /\ binding' = IF Taken(bind.host, bind.place, Bindings) \/ NextId(binding) \notin Bindings
                  THEN binding
                  ELSE [binding EXCEPT ![NextId(binding)] =
                          [life |-> "live", host |-> bind.host, place |-> bind.place]]
    /\ bind' = None
    /\ UNCHANGED <<host, task, hook, deploy, targets, run, drop, attach, made, requests>>

UpdatePushServerBinding(b, p) ==
    /\ Request /\ Live(binding[b])
    /\ ~Taken(binding[b].host, p, Bindings \ {b})
    /\ binding' = [binding EXCEPT ![b].place = p]
    /\ UNCHANGED <<host, task, hook, deploy, targets, run, bind, drop, attach, made>>

DeletePushServerBinding(b) ==
    /\ Request /\ Live(binding[b])
    /\ binding' = [binding EXCEPT ![b].life = "gone"]
    /\ UNCHANGED <<host, task, hook, deploy, targets, run, bind, drop, attach, made>>

-----------------------------------------------------------------------------
(* Saved tasks and the hook that refers to one.                            *)

\* normalizePushTask: a task without tags asks for the default one.
Normalized(s) == IF s.tags = {} THEN [s EXCEPT !.tags = {DefaultTag}] ELSE s

CreatePushDeploymentTask(s) ==
    LET t == NextId(task) IN
    /\ t \in Tasks
    /\ task' = [task EXCEPT ![t] = [life |-> "live", gen |-> @.gen + 1, runs |-> 0,
                                    selector |-> Normalized(s)]]
    /\ made' = [made EXCEPT ![t] = 0]

handleCreatePushTask(s) ==
    /\ Request /\ CreatePushDeploymentTask(s)
    /\ UNCHANGED <<host, binding, hook, deploy, targets, run, bind, drop, attach>>

\* UpdatePushDeploymentTask leaves the run count alone.
UpdatePushDeploymentTask(t, s) ==
    task' = [task EXCEPT ![t].selector = Normalized(s)]

handleUpdatePushTask(t, s) ==
    /\ Request /\ Live(task[t]) /\ UpdatePushDeploymentTask(t, s)
    /\ UNCHANGED <<host, binding, hook, deploy, targets, run, bind, drop, attach, made>>

\* DeletePushDeploymentTask counts the hooks that refer to the task, then
\* deletes it; a hook may be attached in between.
handleDeletePushTask(t) ==
    /\ Request /\ drop = None /\ Live(task[t])
    /\ hook # None => hook.id # t
    /\ drop' = t
    /\ UNCHANGED <<rows, run, bind, attach, made>>

TaskDeletes ==
    /\ drop # None /\ drop' = None
    /\ task' = [task EXCEPT ![drop].life = "gone"]
    /\ UNCHANGED <<host, binding, hook, deploy, targets, run, bind, attach, made, requests>>

\* CreateReleaseHook and UpdateReleaseHook validate the task, then write.
HookValidates(t) ==
    /\ Request /\ attach = None /\ Live(task[t])
    /\ attach' = Ref(task, t)
    /\ UNCHANGED <<rows, run, bind, drop, made>>

HookWrites ==
    /\ attach # None /\ hook' = attach /\ attach' = None
    /\ UNCHANGED <<host, binding, task, deploy, targets, run, bind, drop, made, requests>>

DeleteHook ==
    /\ Request /\ hook # None /\ hook' = None
    /\ UNCHANGED <<host, binding, task, deploy, targets, run, bind, drop, attach, made>>

-----------------------------------------------------------------------------
(* Deployments.                                                            *)

\* handleRunPushTask reads the task; dispatchReleaseHook that of the hook.
ReadTask(r, t, key, hooked) ==
    /\ run[r] = Resting /\ Live(task[t])
    /\ run' = [run EXCEPT ![r] = [pc |-> "read", task |-> Ref(task, t), key |-> key,
                                  selector |-> task[t].selector,
                                  hooked |-> hooked, found |-> {}]]
    /\ UNCHANGED <<rows, bind, drop, attach, made>>

handleRunPushTask(r, t, key) == Request /\ ReadTask(r, t, key, FALSE)
dispatchReleaseHook(r) == Request /\ hook # None /\ ReadTask(r, hook.id, None, TRUE)

labelsMatch(have, want, all) ==
    want = {} \/ (IF all THEN want \subseteq have ELSE want \cap have # {})

\* The join with push_hosts hides the bindings that a host left behind.
Visible(b) == Live(binding[b]) /\ Live(host[binding[b].host.id])

ListPushBindingsForSelector(s) ==
    {b \in Bindings : /\ Visible(b)
                      /\ s.servers = {} \/ binding[b].place.server \in s.servers
                      /\ labelsMatch(binding[b].place.labels, s.tags, s.all)}

\* The targets are resolved, and there must be some.  createPushDeployment wants
\* each server that was asked for to be among them; a hook's dispatch does not.
Resolve(r) ==
    /\ run[r].pc = "read"
    /\ LET s == run[r].selector
           found == ListPushBindingsForSelector(s)
       IN run' = [run EXCEPT ![r] =
            IF /\ found # {}
               /\ run[r].hooked \/ s.servers \subseteq {binding[b].place.server : b \in found}
            THEN [@ EXCEPT !.pc = "resolved", !.found = found] ELSE Resting]
    /\ UNCHANGED <<rows, bind, drop, attach, made, requests>>

\* The deployments that a key finds: the lookup by id leaves out what is older
\* than the retention.
Holders(key) == {d \in Deployments : Live(deploy[d]) /\ key # None /\ deploy[d].key = key}
GetPushDeployment(d) == Live(deploy[d]) /\ deploy[d].age <= Retention
Replayed(key) == \E d \in Holders(key) : GetPushDeployment(d)

\* CreatePushDeployment: a key that is found is a replay.
LookUp(r) ==
    /\ run[r].pc = "resolved"
    /\ run' = [run EXCEPT ![r] = IF Replayed(run[r].key) THEN Resting
                                 ELSE [@ EXCEPT !.pc = "insert"]]
    /\ UNCHANGED <<rows, bind, drop, attach, made, requests>>

\* The unique index on the key, which also ends the request for a key whose
\* deployment is out of the window and not yet pruned; and a table without it.
NoIndex(key)  == TRUE
KeyFree(key) == Holders(key) = {}

\* The transaction: the deployment, its targets, and the run of its task.
Insert(r) ==
    /\ run[r].pc = "insert"
    /\ run' = [run EXCEPT ![r] = Resting]
    /\ LET d == NextId(deploy)
           t == run[r].task
       IN IF KeyFree(run[r].key) /\ d \in Deployments
          THEN /\ deploy' = [deploy EXCEPT ![d] =
                    [life |-> "live", key |-> run[r].key, age |-> 0]]
               /\ targets' = targets \cup ({d} \X run[r].found)
               /\ task' = IF Live(task[t.id]) THEN [task EXCEPT ![t.id].runs = @ + 1]
                          ELSE task
               /\ made' = IF task[t.id].gen = t.gen THEN [made EXCEPT ![t.id] = @ + 1]
                          ELSE made
          ELSE UNCHANGED <<deploy, targets, task, made>>
    /\ UNCHANGED <<host, binding, hook, bind, drop, attach, requests>>

-----------------------------------------------------------------------------
(* Retention.                                                              *)

Day ==
    /\ deploy' = [d \in Deployments |->
         IF deploy[d].life = "unborn" THEN deploy[d]
         ELSE [deploy[d] EXCEPT !.age = Min({Retention + 1, @ + 1})]]
    /\ UNCHANGED <<host, binding, task, hook, targets, run, bind, drop, attach, made,
                   requests>>

\* The cutoff; and one that spares keyed deployments.
Unkeyed(d) == Live(deploy[d]) /\ deploy[d].age > Retention /\ deploy[d].key = None
Expired(d) == Live(deploy[d]) /\ deploy[d].age > Retention

\* PruneLogs deletes the targets first.
Remaining == {x \in targets : ~Expired(x[1])}

PruneLogs ==
    /\ \E d \in Deployments : Expired(d)
    /\ targets' = Remaining
    /\ deploy' = [d \in Deployments |->
         IF Expired(d) THEN [deploy[d] EXCEPT !.life = "pruned"] ELSE deploy[d]]
    /\ UNCHANGED <<host, binding, task, hook, run, bind, drop, attach, made, requests>>

-----------------------------------------------------------------------------
Catalog ==
    \/ CreateHost \/ \E h \in Hosts : DeleteHost(h)
    \/ \E h \in Hosts, p \in Places : BindingCounts(h, p)
    \/ BindingInserts
    \/ \E b \in Bindings : DeletePushServerBinding(b)
    \/ \E b \in Bindings, p \in Places : UpdatePushServerBinding(b, p)
    \/ \E s \in Selectors : \/ handleCreatePushTask(s)
                            \/ \E t \in Tasks : handleUpdatePushTask(t, s)
    \/ \E t \in Tasks : handleDeletePushTask(t) \/ HookValidates(t)
    \/ TaskDeletes \/ HookWrites \/ DeleteHook

Release(r) ==
    \/ \E t \in Tasks, key \in Keys \cup {None} : handleRunPushTask(r, t, key)
    \/ dispatchReleaseHook(r) \/ Resolve(r) \/ LookUp(r) \/ Insert(r)

Next == Catalog \/ (\E r \in Runners : Release(r)) \/ Day \/ PruneLogs

Spec == Init /\ [][Next]_vars

\* Days pass, and the daily ticker of StartLogRetention fires.
FairSpec == Spec /\ WF_vars(Day) /\ WF_vars(PruneLogs)

-----------------------------------------------------------------------------
(* Correctness.                                                            *)

Refs(S) == [id : S, gen : Nat]
Queries == {Normalized(s) : s \in Selectors}

HostRows    == [life : {"unborn", "live", "gone"}, gen : Nat]
Binds       == [host : Refs(Hosts), place : Places]
BindingRows == [life : {"live", "gone"}, host : Refs(Hosts), place : Places]
TaskRows    == [life : {"live", "gone"}, gen : Nat, selector : Queries, runs : Nat]
DeployRows  == [life : {"unborn", "live", "pruned"}, key : Keys \cup {None},
                age : 0 .. Retention + 1]
Runs        == [pc : {"read", "resolved", "insert"}, task : Refs(Tasks),
                selector : Queries, key : Keys \cup {None}, hooked : BOOLEAN,
                found : SUBSET Bindings]

\* Rows and requests keep their types; a saved task asks for some tag.
TypeOK ==
    /\ host \in [Hosts -> HostRows]
    /\ binding \in [Bindings -> BindingRows \cup {NoBinding}]
    /\ task \in [Tasks -> TaskRows \cup {NoTask}]
    /\ \A t \in Tasks : Live(task[t]) => task[t].selector.tags # {}
    /\ hook \in Refs(Tasks) \cup {None} /\ attach \in Refs(Tasks) \cup {None}
    /\ bind \in Binds \cup {None} /\ drop \in Tasks \cup {None}
    /\ deploy \in [Deployments -> DeployRows] /\ targets \subseteq Deployments \X Bindings
    /\ run \in [Runners -> Runs \cup {Resting}]
    /\ made \in [Tasks -> Nat] /\ requests \in 0 .. MaxRequests

\* Rows that outlive what they refer to are never adopted by something newer:
\* a binding that a deployment can select is on the host it was made for, and
\* a hook runs the task it was given, also when a deletion crossed the
\* statement that wrote the reference.
NothingIsAdopted ==
    /\ \A b \in Bindings : Visible(b) => Ref(host, binding[b].host.id) = binding[b].host
    /\ hook # None /\ Live(task[hook.id]) => Ref(task, hook.id) = hook

\* A deployment that could be created has targets until it is pruned, and no
\* target outlives its deployment, although no foreign key is enforced.
TargetsLiveWithDeployment ==
    \A d \in Deployments : Live(deploy[d]) <=> \E b \in Bindings : <<d, b>> \in targets

\* The run count of a task counts its deployments: through replays, requests
\* that race with one key, and updates of the task while it runs.
RunCountIsExact == \A t \in Tasks : Live(task[t]) => task[t].runs = made[t]

\* The tables agree with each other without foreign keys: no row is adopted,
\* targets and deployments go together, and counts are right; and everything
\* keeps its type.
TablesAgree ==
    TypeOK /\ NothingIsAdopted /\ TargetsLiveWithDeployment /\ RunCountIsExact

\* Within the retention a key creates one deployment, whatever requests carry
\* it at once and however they fall around the pruning of older rows.
KeyCreatesOnce ==
    [][\A d \in Deployments :
         ~Live(deploy[d]) /\ Live(deploy'[d]) /\ deploy'[d].key # None
         => \A e \in Deployments \ {d} :
              deploy[e].key = deploy'[d].key => deploy[e].age > Retention]_vars

\* The rows of a deployment do not stay for ever.
EverythingIsPruned == \A d \in Deployments : Live(deploy[d]) ~> ~Live(deploy[d])
=============================================================================
