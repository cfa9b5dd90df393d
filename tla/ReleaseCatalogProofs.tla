------------------------ MODULE ReleaseCatalogProofs ------------------------
(***************************************************************************)
(* The tables of ReleaseCatalog agree with each other, and a key creates   *)
(* one deployment within the retention, for all sets of ids, places,       *)
(* selectors, keys and runners, and for every retention.                   *)
(***************************************************************************)
EXTENDS ReleaseCatalog, FiniteSetTheorems, NaturalsInduction, WellFoundedInduction, TLAPS

\* A reference names a row that was born, and the one that has the id now.
Held(table, ref) == table[ref.id].life # "unborn" /\ ref.gen = table[ref.id].gen

\* An id is given once: its generation says whether it was.
GivenOnce(table, S) == \A i \in S : table[i].gen = IF table[i].life = "unborn" THEN 0 ELSE 1

\* Every reference, written or about to be written, is held.
RefInv ==
    /\ GivenOnce(host, Hosts) /\ GivenOnce(task, Tasks)
    /\ \A b \in Bindings : binding[b].life # "unborn" => Held(host, binding[b].host)
    /\ bind # None => Held(host, bind.host)
    /\ hook # None => Held(task, hook)
    /\ attach # None => Held(task, attach)
    /\ drop # None => task[drop].life # "unborn"
    /\ \A r \in Runners : run[r].pc # "idle" => Held(task, run[r].task)

\* What is about to be inserted has targets.
FoundInv == \A r \in Runners : run[r].pc \in {"resolved", "insert"} => run[r].found # {}

\* A row without a life has no key, and a pruned one was too old.
KeyInv ==
    \A d \in Deployments : /\ deploy[d].life = "unborn" => deploy[d].key = None
                           /\ deploy[d].life = "pruned" => deploy[d].age > Retention

IndInv == /\ TypeOK /\ RefInv /\ TargetsLiveWithDeployment /\ FoundInv
          /\ RunCountIsExact /\ KeyInv

-----------------------------------------------------------------------------
(* The operators of the model.                                             *)

\* The smaller of two numbers.
LEMMA MinOfTwo ==
  ASSUME NEW a \in Int, NEW b \in Int
  PROVE  Min({a, b}) = IF a <= b THEN a ELSE b
<1>1. \E x \in {a, b} : \A y \in {a, b} : x <= y
  OBVIOUS
<1>2. Min({a, b}) \in {a, b} /\ \A y \in {a, b} : Min({a, b}) <= y
  BY <1>1, Zenon DEF Min
<1> QED
  BY <1>2

\* A set of ids has a largest one.
LEMMA LargestId ==
  ASSUME NEW n \in Nat, NEW S \in SUBSET (0 .. n), S # {}
  PROVE  Max(S) \in S /\ \A t \in S : Max(S) >= t
<1> DEFINE D == {n - t : t \in S}
<1>1. \A t \in S : n - t \in Nat /\ t \in Nat
  OBVIOUS
<1>2. D \subseteq Nat /\ D # {}
  BY <1>1
<1> HIDE DEF D
<1>3. PICK d \in D : \A c \in D : ~(<<c, d>> \in OpToRel(<, Nat))
  BY <1>2, WFMin, NatLessThanWellFounded
<1>4. \A c \in D : c >= d
  <2>1. ASSUME NEW c \in D, c < d PROVE FALSE
    BY <1>2, <1>3, <2>1 DEF OpToRel
  <2> QED
    BY <1>2, <2>1
<1>5. PICK x \in S : d = n - x
  BY DEF D
<1>6. \A t \in S : x >= t
  <2>1. ASSUME NEW t \in S PROVE x >= t
    <3>1. n - t \in D
      BY DEF D
    <3>2. n - t >= n - x
      BY <1>4, <1>5, <3>1
    <3> QED
      BY <1>1, <3>2
  <2> QED
    BY <2>1
<1> QED
  BY <1>6, Zenon DEF Max

\* The next id was never given.
LEMMA NextIdIsFresh ==
  ASSUME NEW n \in Nat, NEW table, DOMAIN table = 1 .. n, NextId(table) \in 1 .. n
  PROVE  table[NextId(table)].life = "unborn"
<1> DEFINE S == {0} \cup {i \in DOMAIN table : table[i].life # "unborn"}
<1>1. S \in SUBSET (0 .. n) /\ S # {}
  OBVIOUS
<1>2. \A i \in DOMAIN table : table[i].life # "unborn" => i \in S
  OBVIOUS
<1>3. NextId(table) = 1 + Max(S)
  BY DEF NextId
<1> HIDE DEF S
<1>4. Max(S) \in S /\ \A t \in S : Max(S) >= t
  BY <1>1, LargestId
<1>5. \A t \in S : t \in Nat
  BY <1>1
<1>6. Max(S) \in Nat
  BY <1>4, <1>5, Zenon
<1>7. NextId(table) \notin S
  BY <1>3, <1>4, <1>5, <1>6
<1> QED
  BY <1>2, <1>7

\* The id that an insert draws was never given before.
LEMMA FreshIds ==
  ASSUME TypeOK
  PROVE  /\ NextId(host) \in Hosts => host[NextId(host)].life = "unborn"
         /\ NextId(binding) \in Bindings => binding[NextId(binding)].life = "unborn"
         /\ NextId(task) \in Tasks => task[NextId(task)].life = "unborn"
         /\ NextId(deploy) \in Deployments => deploy[NextId(deploy)].life = "unborn"
<1>1. \A S \in {Hosts, Tasks, Deployments, Bindings} : 
        Cardinality(S) \in Nat /\ S = 1 .. Cardinality(S)
  BY IdAssumption, FS_CardinalityType
<1>2. /\ DOMAIN host = 1 .. Cardinality(Hosts) /\ DOMAIN task = 1 .. Cardinality(Tasks)
      /\ DOMAIN deploy = 1 .. Cardinality(Deployments)
      /\ DOMAIN binding = 1 .. Cardinality(Bindings)
  BY <1>1 DEF TypeOK
<1> QED
  BY <1>1, <1>2, NextIdIsFresh

\* normalizePushTask leaves a query with tags.
LEMMA NormalizedHasTags ==
  ASSUME NEW s \in Selectors
  PROVE  Normalized(s) \in Queries /\ Normalized(s).tags # {}
<1>1. DOMAIN s = {"servers", "tags", "all"}
  BY SelectorAssumption
<1> QED
  BY <1>1 DEF Normalized, Queries

-----------------------------------------------------------------------------
(* Each step keeps the invariant.                                          *)

\* A new host has an id that no binding refers to.
LEMMA CreateHostStep == ASSUME IndInv, CreateHost PROVE IndInv'
<1> DEFINE i == NextId(host)
           new == Born(host[i])
<1>1. /\ i \in Hosts /\ host' = [host EXCEPT ![i] = new] /\ requests' \in 0 .. MaxRequests
      /\ UNCHANGED <<binding, task, hook, deploy, targets, run, bind, drop, attach, made>>
  BY BoundAssumption DEF IndInv, TypeOK, CreateHost, Request
<1>2. host[i].life = "unborn" /\ host[i].gen = 0
  BY <1>1, FreshIds DEF IndInv, RefInv, GivenOnce
<1>3. new \in HostRows /\ new.life = "live" /\ new.gen = 1
  BY <1>2 DEF Born, HostRows
<1> HIDE DEF i, new
<1>4. TypeOK'
  BY <1>1, <1>3 DEF IndInv, TypeOK, Live
<1>5. RefInv'
  BY <1>1, <1>2, <1>3 DEF IndInv, TypeOK, RefInv, Held, GivenOnce, Refs, Binds,
     BindingRows, NoBinding
<1>6. TargetsLiveWithDeployment' /\ FoundInv' /\ RunCountIsExact' /\ KeyInv'
  BY DEF IndInv, TargetsLiveWithDeployment, FoundInv, RunCountIsExact, KeyInv, Live,
     CreateHost
<1> QED
  BY <1>4, <1>5, <1>6 DEF IndInv

\* A deleted host keeps its id: what still refers to it refers to nobody else.
LEMMA DeleteHostStep == ASSUME IndInv, NEW h \in Hosts, DeleteHost(h) PROVE IndInv'
<1>1. TypeOK'
  BY BoundAssumption DEF IndInv, TypeOK, DeleteHost, Request, Live, HostRows, Unborn
<1>2. RefInv'
  BY DEF IndInv, TypeOK, RefInv, Held, GivenOnce, DeleteHost, Request, Live,
     HostRows, Unborn, BindingRows, NoBinding, Refs, Binds
<1>3. TargetsLiveWithDeployment' /\ FoundInv' /\ RunCountIsExact' /\ KeyInv'
  BY DEF IndInv, TargetsLiveWithDeployment, FoundInv, RunCountIsExact, KeyInv, Live,
     DeleteHost
<1> QED
  BY <1>1, <1>2, <1>3 DEF IndInv

\* CreateBinding holds a reference to the host it has found.
LEMMA BindingCountsStep ==
  ASSUME IndInv, NEW h \in Hosts, NEW p \in Places, BindingCounts(h, p)
  PROVE  IndInv'
<1>1. TypeOK'
  BY BoundAssumption DEF IndInv, TypeOK, BindingCounts, Request, Live, Ref, rows,
     HostRows, Binds, Refs
<1>2. RefInv'
  BY DEF IndInv, TypeOK, RefInv, Held, GivenOnce, BindingCounts, Request, Live, Ref,
     rows, HostRows
<1>3. TargetsLiveWithDeployment' /\ FoundInv' /\ RunCountIsExact' /\ KeyInv'
  BY DEF IndInv, TargetsLiveWithDeployment, FoundInv, RunCountIsExact, KeyInv, Live,
     BindingCounts, rows
<1> QED
  BY <1>1, <1>2, <1>3 DEF IndInv

\* The insert stores the reference, whether or not the host is still there.
LEMMA BindingInsertsStep == ASSUME IndInv, BindingInserts PROVE IndInv'
<1>1. TypeOK'
  BY FreshIds DEF IndInv, TypeOK, BindingInserts, Binds, BindingRows
<1>2. RefInv'
  BY FreshIds DEF IndInv, TypeOK, RefInv, Held, GivenOnce, BindingInserts, Binds,
     BindingRows, NoBinding, Refs
<1>3. TargetsLiveWithDeployment' /\ FoundInv' /\ RunCountIsExact' /\ KeyInv'
  BY DEF IndInv, TargetsLiveWithDeployment, FoundInv, RunCountIsExact, KeyInv, Live,
     BindingInserts
<1> QED
  BY <1>1, <1>2, <1>3 DEF IndInv

\* So does an update, for a host that is there.
LEMMA UpdateBindingStep ==
  ASSUME IndInv, NEW b \in Bindings, NEW p \in Places, UpdatePushServerBinding(b, p)
  PROVE  IndInv'
<1>1. TypeOK'
  BY BoundAssumption DEF IndInv, TypeOK, UpdatePushServerBinding, Request, Live,
     BindingRows, NoBinding, Refs
<1>2. RefInv'
  BY DEF IndInv, TypeOK, RefInv, Held, GivenOnce, UpdatePushServerBinding, Request,
     Live, BindingRows, NoBinding, Refs
<1>3. TargetsLiveWithDeployment' /\ FoundInv' /\ RunCountIsExact' /\ KeyInv'
  BY DEF IndInv, TargetsLiveWithDeployment, FoundInv, RunCountIsExact, KeyInv, Live,
     UpdatePushServerBinding
<1> QED
  BY <1>1, <1>2, <1>3 DEF IndInv

\* A binding that goes takes its reference along.
LEMMA DeleteBindingStep ==
  ASSUME IndInv, NEW b \in Bindings, DeletePushServerBinding(b)
  PROVE  IndInv'
<1> DEFINE old == [binding[b] EXCEPT !.life = "gone"]
<1>1. /\ binding' = [binding EXCEPT ![b] = old] /\ requests' \in 0 .. MaxRequests
      /\ UNCHANGED <<host, task, hook, deploy, targets, run, bind, drop, attach, made>>
  BY BoundAssumption DEF IndInv, TypeOK, DeletePushServerBinding, Request
<1>2. binding[b] \in BindingRows
  BY DEF IndInv, TypeOK, DeletePushServerBinding, Live, NoBinding
<1>3. old \in BindingRows /\ old.host = binding[b].host
  BY <1>2 DEF BindingRows
<1> HIDE DEF old
<1>4. TypeOK'
  BY <1>1, <1>3 DEF IndInv, TypeOK, Live
<1>5. RefInv'
  BY <1>1, <1>2, <1>3 DEF IndInv, TypeOK, RefInv, Held, GivenOnce, BindingRows
<1>6. TargetsLiveWithDeployment' /\ FoundInv' /\ RunCountIsExact' /\ KeyInv'
  BY DEF IndInv, TargetsLiveWithDeployment, FoundInv, RunCountIsExact, KeyInv, Live,
     DeletePushServerBinding
<1> QED
  BY <1>4, <1>5, <1>6 DEF IndInv

\* A new task has an id that no hook or request refers to, and no runs.
LEMMA CreateTaskStep ==
  ASSUME IndInv, NEW s \in Selectors, handleCreatePushTask(s)
  PROVE  IndInv'
<1>1. TypeOK'
  BY FreshIds, NormalizedHasTags, BoundAssumption DEF IndInv, TypeOK,
     handleCreatePushTask, CreatePushDeploymentTask, Request, Live, TaskRows, NoTask
<1>2. RefInv'
  BY FreshIds DEF IndInv, TypeOK, RefInv, Held, GivenOnce, handleCreatePushTask,
     CreatePushDeploymentTask, Request, Live, TaskRows, NoTask, Runs, Resting, Refs
<1>3. RunCountIsExact'
  BY FreshIds DEF IndInv, TypeOK, RunCountIsExact, Live, handleCreatePushTask,
     CreatePushDeploymentTask, Request, TaskRows, NoTask
<1>4. TargetsLiveWithDeployment' /\ FoundInv' /\ KeyInv'
  BY DEF IndInv, TargetsLiveWithDeployment, FoundInv, KeyInv, Live,
     handleCreatePushTask, CreatePushDeploymentTask
<1> QED
  BY <1>1, <1>2, <1>3, <1>4 DEF IndInv

\* An update of a task changes neither its id nor its runs.
LEMMA UpdateTaskStep ==
  ASSUME IndInv, NEW t \in Tasks, NEW s \in Selectors, handleUpdatePushTask(t, s)
  PROVE  IndInv'
<1>1. TypeOK'
  BY NormalizedHasTags, BoundAssumption DEF IndInv, TypeOK, handleUpdatePushTask,
     UpdatePushDeploymentTask, Request, Live, TaskRows, NoTask
<1>2. RefInv'
  BY DEF IndInv, TypeOK, RefInv, Held, GivenOnce, handleUpdatePushTask,
     UpdatePushDeploymentTask, Request, Live, TaskRows, NoTask, Runs, Resting, Refs
<1>3. RunCountIsExact'
  BY DEF IndInv, TypeOK, RunCountIsExact, Live, handleUpdatePushTask,
     UpdatePushDeploymentTask, Request, TaskRows, NoTask
<1>4. TargetsLiveWithDeployment' /\ FoundInv' /\ KeyInv'
  BY DEF IndInv, TargetsLiveWithDeployment, FoundInv, KeyInv, Live,
     handleUpdatePushTask
<1> QED
  BY <1>1, <1>2, <1>3, <1>4 DEF IndInv

\* DeleteTask looks for hooks and goes on with a task that was there.
LEMMA CountHooksStep ==
  ASSUME IndInv, NEW t \in Tasks, handleDeletePushTask(t)
  PROVE  IndInv'
<1>1. TypeOK'
  BY BoundAssumption DEF IndInv, TypeOK, handleDeletePushTask, Request, Live, rows
<1>2. RefInv'
  BY DEF IndInv, TypeOK, RefInv, Held, GivenOnce, handleDeletePushTask, Request,
     Live, rows
<1>3. TargetsLiveWithDeployment' /\ FoundInv' /\ RunCountIsExact' /\ KeyInv'
  BY DEF IndInv, TargetsLiveWithDeployment, FoundInv, RunCountIsExact, KeyInv, Live,
     handleDeletePushTask, rows
<1> QED
  BY <1>1, <1>2, <1>3 DEF IndInv

\* A deleted task keeps its id.
LEMMA TaskDeletesStep == ASSUME IndInv, TaskDeletes PROVE IndInv'
<1> DEFINE old == [task[drop] EXCEPT !.life = "gone"]
<1>1. /\ drop \in Tasks /\ drop' = None /\ task' = [task EXCEPT ![drop] = old]
      /\ UNCHANGED <<host, binding, hook, deploy, targets, run, bind, attach, made, requests>>
  BY DEF IndInv, TypeOK, TaskDeletes
<1>2. task[drop] \in TaskRows
  BY <1>1 DEF IndInv, TypeOK, RefInv, TaskDeletes, NoTask
<1>3. old \in TaskRows /\ old.life = "gone" /\ old.gen = task[drop].gen
  BY <1>2 DEF TaskRows
<1> HIDE DEF old
<1>4. TypeOK'
  BY <1>1, <1>3 DEF IndInv, TypeOK, Live
<1>5. RefInv'
  BY <1>1, <1>2, <1>3 DEF IndInv, TypeOK, RefInv, Held, GivenOnce, TaskRows, Runs,
     Resting, Refs
<1>6. RunCountIsExact'
  BY <1>1, <1>3 DEF IndInv, TypeOK, RunCountIsExact, Live
<1>7. TargetsLiveWithDeployment' /\ FoundInv' /\ KeyInv'
  BY DEF IndInv, TargetsLiveWithDeployment, FoundInv, KeyInv, Live, TaskDeletes
<1> QED
  BY <1>4, <1>5, <1>6, <1>7 DEF IndInv

\* A hook is about to store a reference to the task it has found.
LEMMA HookValidatesStep == ASSUME IndInv, NEW t \in Tasks, HookValidates(t) PROVE IndInv'
<1>1. task[t].gen \in Nat /\ requests' \in 0 .. MaxRequests
  BY BoundAssumption DEF IndInv, TypeOK, HookValidates, Request, TaskRows, NoTask
<1>2. TypeOK'
  BY <1>1 DEF IndInv, TypeOK, HookValidates, Live, Ref, Refs, rows
<1>3. RefInv'
  BY DEF IndInv, TypeOK, RefInv, Held, GivenOnce, HookValidates, Request, Live, Ref,
     rows
<1>4. TargetsLiveWithDeployment' /\ FoundInv' /\ RunCountIsExact' /\ KeyInv'
  BY DEF IndInv, TargetsLiveWithDeployment, FoundInv, RunCountIsExact, KeyInv, Live,
     HookValidates, rows
<1> QED
  BY <1>2, <1>3, <1>4 DEF IndInv

\* It stores the reference, whether or not the task is still there.
LEMMA HookWritesStep == ASSUME IndInv, HookWrites PROVE IndInv'
<1>1. TypeOK'
  BY DEF IndInv, TypeOK, HookWrites, Live
<1>2. RefInv'
  BY DEF IndInv, TypeOK, RefInv, Held, GivenOnce, HookWrites
<1>3. TargetsLiveWithDeployment' /\ FoundInv' /\ RunCountIsExact' /\ KeyInv'
  BY DEF IndInv, TargetsLiveWithDeployment, FoundInv, RunCountIsExact, KeyInv, Live,
     HookWrites
<1> QED
  BY <1>1, <1>2, <1>3 DEF IndInv

\* A hook that goes takes its reference along.
LEMMA DeleteHookStep == ASSUME IndInv, DeleteHook PROVE IndInv'
<1>1. TypeOK'
  BY BoundAssumption DEF IndInv, TypeOK, DeleteHook, Request, Live
<1>2. RefInv'
  BY DEF IndInv, TypeOK, RefInv, Held, GivenOnce, DeleteHook, Request
<1>3. TargetsLiveWithDeployment' /\ FoundInv' /\ RunCountIsExact' /\ KeyInv'
  BY DEF IndInv, TargetsLiveWithDeployment, FoundInv, RunCountIsExact, KeyInv, Live,
     DeleteHook
<1> QED
  BY <1>1, <1>2, <1>3 DEF IndInv

\* A runner holds a reference to the task it has read.
LEMMA ReadTaskStep ==
  ASSUME IndInv, NEW r \in Runners, NEW t \in Tasks, NEW key \in Keys \cup {None},
         NEW hooked \in BOOLEAN, requests' \in 0 .. MaxRequests,
         ReadTask(r, t, key, hooked)
  PROVE  IndInv'
<1>1. TypeOK'
  BY DEF IndInv, TypeOK, ReadTask, Live, Ref, rows, TaskRows, NoTask, Runs, Refs
<1>2. RefInv'
  BY DEF IndInv, TypeOK, RefInv, Held, GivenOnce, ReadTask, Live, Ref, rows, Runs,
     Resting, Refs
<1>3. FoundInv'
  BY DEF IndInv, TypeOK, FoundInv, ReadTask, Live, Ref, rows
<1>4. TargetsLiveWithDeployment' /\ RunCountIsExact' /\ KeyInv'
  BY DEF IndInv, TargetsLiveWithDeployment, RunCountIsExact, KeyInv, Live, ReadTask,
     rows
<1> QED
  BY <1>1, <1>2, <1>3, <1>4 DEF IndInv

\* A runner goes on only with targets that it has found.
LEMMA ResolveStep == ASSUME IndInv, NEW r \in Runners, Resolve(r) PROVE IndInv'
<1> DEFINE found == ListPushBindingsForSelector(run[r].selector)
           new == [run[r] EXCEPT !.pc = "resolved", !.found = found]
<1>1. /\ UNCHANGED <<host, binding, task, hook, deploy, targets, bind, drop, attach, made, requests>>
      /\ \/ run' = [run EXCEPT ![r] = new] /\ found # {}
         \/ run' = [run EXCEPT ![r] = Resting]
  BY DEF Resolve, rows
<1>2. run[r] \in Runs /\ run[r].pc = "read"
  BY DEF IndInv, TypeOK, Resolve, Resting
<1>3. found \in SUBSET Bindings
  BY DEF ListPushBindingsForSelector
<1> HIDE DEF found
<1>4. /\ new \in Runs /\ new.pc = "resolved" /\ new.found = found
      /\ new.task = run[r].task
  BY <1>2, <1>3 DEF Runs
<1> HIDE DEF new
<1>5. TypeOK'
  BY <1>1, <1>4 DEF IndInv, TypeOK, Live
<1>6. RefInv'
  BY <1>1, <1>2, <1>4 DEF IndInv, TypeOK, RefInv, Held, GivenOnce, Resting
<1>7. FoundInv'
  BY <1>1, <1>4 DEF IndInv, TypeOK, FoundInv, Resting
<1>8. TargetsLiveWithDeployment' /\ RunCountIsExact' /\ KeyInv'
  BY DEF IndInv, TargetsLiveWithDeployment, RunCountIsExact, KeyInv, Live, Resolve,
     rows
<1> QED
  BY <1>5, <1>6, <1>7, <1>8 DEF IndInv

\* A runner that finds its key taken is done.
LEMMA LookUpStep == ASSUME IndInv, NEW r \in Runners, LookUp(r) PROVE IndInv'
<1> DEFINE new == [run[r] EXCEPT !.pc = "insert"]
<1>1. /\ UNCHANGED <<host, binding, task, hook, deploy, targets, bind, drop, attach, made, requests>>
      /\ run' = [run EXCEPT ![r] = new] \/ run' = [run EXCEPT ![r] = Resting]
  BY DEF LookUp, rows
<1>2. run[r] \in Runs /\ run[r].pc = "resolved"
  BY DEF IndInv, TypeOK, LookUp, Resting
<1>3. new \in Runs /\ new.found = run[r].found /\ new.task = run[r].task
  BY <1>2 DEF Runs
<1> HIDE DEF new
<1>4. TypeOK'
  BY <1>1, <1>3 DEF IndInv, TypeOK, Live
<1>5. RefInv'
  BY <1>1, <1>2, <1>3 DEF IndInv, TypeOK, RefInv, Held, GivenOnce, Resting
<1>6. FoundInv'
  BY <1>1, <1>2, <1>3 DEF IndInv, TypeOK, FoundInv, Resting
<1>7. TargetsLiveWithDeployment' /\ RunCountIsExact' /\ KeyInv'
  BY DEF IndInv, TargetsLiveWithDeployment, RunCountIsExact, KeyInv, Live, LookUp,
     rows
<1> QED
  BY <1>4, <1>5, <1>6, <1>7 DEF IndInv

\* The transaction: the deployment is new, its targets are there with it, and
\* the task that the runner read is the one whose count it raises.
LEMMA InsertStep == ASSUME IndInv, NEW r \in Runners, Insert(r) PROVE IndInv'
<1> DEFINE d == NextId(deploy)
           t == run[r].task.id
           new == [life |-> "live", key |-> run[r].key, age |-> 0]
           more == [task[t] EXCEPT !.runs = @ + 1]
<1>1. /\ run[r] \in Runs /\ run[r].pc = "insert" /\ t \in Tasks
      /\ run[r].found # {} /\ run[r].found \subseteq Bindings
      /\ Held(task, run[r].task)
  BY DEF IndInv, TypeOK, RefInv, FoundInv, Insert, Runs, Resting, Refs
<1>2. /\ UNCHANGED <<host, binding, hook, bind, drop, attach, requests>>
      /\ run' = [run EXCEPT ![r] = Resting]
  BY DEF Insert
<1>3. FoundInv'
  BY <1>2 DEF IndInv, TypeOK, FoundInv, Resting
<1>4. CASE UNCHANGED <<deploy, targets, task, made>>
  <2>1. TypeOK'
    BY <1>2, <1>4 DEF IndInv, TypeOK, Live
  <2>2. RefInv'
    BY <1>2, <1>4 DEF IndInv, TypeOK, RefInv, Held, GivenOnce, Resting
  <2>3. TargetsLiveWithDeployment' /\ RunCountIsExact' /\ KeyInv'
    BY <1>4 DEF IndInv, TargetsLiveWithDeployment, RunCountIsExact, KeyInv, Live
  <2> QED
    BY <1>3, <2>1, <2>2, <2>3 DEF IndInv
<1>5. CASE KeyFree(run[r].key) /\ d \in Deployments
  <2>1. /\ deploy' = [deploy EXCEPT ![d] = new]
        /\ targets' = targets \cup ({d} \X run[r].found)
        /\ task' = IF Live(task[t]) THEN [task EXCEPT ![t] = more] ELSE task
        /\ made' = [made EXCEPT ![t] = @ + 1]
    BY <1>1, <1>5 DEF Insert, Held
  <2>2. deploy[d].life = "unborn"
    BY <1>5, FreshIds DEF IndInv
  <2>3. new \in DeployRows /\ new.life = "live"
    BY <1>1, BoundAssumption DEF DeployRows, Runs
  <2>4. task[t] \in TaskRows
    BY <1>1 DEF IndInv, TypeOK, Held, NoTask
  <2>5. /\ more \in TaskRows /\ more.life = task[t].life /\ more.gen = task[t].gen
        /\ more.selector = task[t].selector /\ more.runs = task[t].runs + 1
    BY <2>4 DEF TaskRows
  <2>6. \A u \in Tasks : /\ task'[u] \in TaskRows \cup {NoTask}
                         /\ task'[u].life = task[u].life /\ task'[u].gen = task[u].gen
                         /\ task'[u].selector = task[u].selector
    BY <1>1, <2>1, <2>5 DEF IndInv, TypeOK
  <2> HIDE DEF d, t, new, more
  <2>7. TypeOK'
    BY <1>1, <1>2, <1>5, <2>1, <2>3, <2>6 DEF IndInv, TypeOK, Live
  <2>8. RefInv'
    BY <1>2, <2>6 DEF IndInv, TypeOK, RefInv, Held, GivenOnce, Resting, Runs, Refs
  <2>9. TargetsLiveWithDeployment'
    BY <1>1, <1>5, <2>1, <2>2, <2>3 DEF IndInv, TypeOK, TargetsLiveWithDeployment, Live
  <2>10. RunCountIsExact'
    BY <1>1, <2>1, <2>5 DEF IndInv, TypeOK, RunCountIsExact, Live
  <2>11. KeyInv'
    BY <1>5, <2>1, <2>3 DEF IndInv, TypeOK, KeyInv
  <2> QED
    BY <1>3, <2>7, <2>8, <2>9, <2>10, <2>11 DEF IndInv
<1> QED
  BY <1>4, <1>5 DEF Insert

\* Rows grow older, and none becomes younger.
LEMMA DayStep == ASSUME IndInv, Day PROVE IndInv'
<1> DEFINE later(d) == Min({Retention + 1, deploy[d].age + 1})
           new(d) == [deploy[d] EXCEPT !.age = later(d)]
<1>1. UNCHANGED <<host, binding, task, hook, targets, run, bind, drop, attach, made, requests>>
  BY DEF Day
<1>2. deploy' = [d \in Deployments |-> IF deploy[d].life = "unborn" THEN deploy[d] ELSE new(d)]
  BY DEF Day
<1>3. ASSUME NEW d \in Deployments
      PROVE  /\ new(d) \in DeployRows /\ new(d).life = deploy[d].life
             /\ new(d).key = deploy[d].key
             /\ deploy[d].age > Retention => new(d).age > Retention
  <2> DEFINE a == deploy[d].age
             l == later(d)
  <2>1. deploy[d] \in DeployRows /\ a \in 0 .. Retention + 1 /\ Retention \in Nat
    BY BoundAssumption DEF IndInv, TypeOK, DeployRows
  <2>2. l = Min({Retention + 1, a + 1}) /\ Retention + 1 \in Int /\ a + 1 \in Int
    BY <2>1
  <2> HIDE DEF a, l, later
  <2>3. l = IF Retention + 1 <= a + 1 THEN Retention + 1 ELSE a + 1
    BY <2>2, MinOfTwo
  <2>4. l \in 0 .. Retention + 1 /\ (a > Retention => l > Retention)
    BY <2>1, <2>3
  <2> QED
    BY <2>1, <2>4 DEF a, l, DeployRows
<1> HIDE DEF new, later
<1>4. \A d \in Deployments : /\ deploy'[d] \in DeployRows
                             /\ deploy'[d].life = deploy[d].life
                             /\ deploy'[d].key = deploy[d].key
                             /\ deploy[d].age > Retention => deploy'[d].age > Retention
  BY <1>2, <1>3 DEF IndInv, TypeOK
<1>5. TypeOK'
  BY <1>1, <1>2, <1>4 DEF IndInv, TypeOK, Live
<1>6. TargetsLiveWithDeployment'
  BY <1>1, <1>4 DEF IndInv, TargetsLiveWithDeployment, Live
<1>7. KeyInv'
  BY <1>4 DEF IndInv, KeyInv
<1>8. RefInv' /\ FoundInv' /\ RunCountIsExact'
  BY DEF IndInv, RefInv, FoundInv, RunCountIsExact, Live, Held, GivenOnce, Day
<1> QED
  BY <1>5, <1>6, <1>7, <1>8 DEF IndInv

\* A pruned deployment takes its targets along, and was too old.
LEMMA PruneStep == ASSUME IndInv, PruneLogs PROVE IndInv'
<1> DEFINE new(d) == [deploy[d] EXCEPT !.life = "pruned"]
<1>1. /\ UNCHANGED <<host, binding, task, hook, run, bind, drop, attach, made, requests>>
      /\ targets' = Remaining
      /\ deploy' = [d \in Deployments |-> IF Expired(d) THEN new(d) ELSE deploy[d]]
  BY DEF PruneLogs
<1>2. \A d \in Deployments : /\ new(d) \in DeployRows /\ new(d).life = "pruned"
                             /\ new(d).age = deploy[d].age
  BY DEF IndInv, TypeOK, DeployRows
<1> HIDE DEF new
<1>3. TypeOK'
  BY <1>1, <1>2 DEF IndInv, TypeOK, Live, Remaining
<1>4. TargetsLiveWithDeployment'
  BY <1>1, <1>2 DEF IndInv, TargetsLiveWithDeployment, Live, Remaining, Expired
<1>5. KeyInv'
  BY <1>1, <1>2 DEF IndInv, KeyInv, Expired
<1>6. RefInv' /\ FoundInv' /\ RunCountIsExact'
  BY DEF IndInv, RefInv, FoundInv, RunCountIsExact, Live, Held, GivenOnce, PruneLogs
<1> QED
  BY <1>3, <1>4, <1>5, <1>6 DEF IndInv


\* The invariant holds at the start and is kept by every step.
LEMMA Invariance == Spec => []IndInv
<1>1. Init => IndInv
  BY BoundAssumption
     DEF Init, IndInv, TypeOK, RefInv, GivenOnce, TargetsLiveWithDeployment, FoundInv,
         RunCountIsExact, KeyInv, Live, HostRows, DeployRows, Unborn, NoBinding, NoTask,
         NoDeploy, Resting
<1>2. IndInv /\ [Next]_vars => IndInv'
  <2> SUFFICES ASSUME IndInv, [Next]_vars PROVE IndInv'
    OBVIOUS
  <2>1. ASSUME Catalog PROVE IndInv'
    BY <2>1, CreateHostStep, DeleteHostStep, BindingCountsStep, BindingInsertsStep,
       UpdateBindingStep, DeleteBindingStep, CreateTaskStep, UpdateTaskStep,
       CountHooksStep, TaskDeletesStep, HookValidatesStep, HookWritesStep, DeleteHookStep
       DEF Catalog
  <2>2. ASSUME NEW r \in Runners, Release(r) PROVE IndInv'
    <3>1. ASSUME NEW t \in Tasks, NEW key \in Keys \cup {None}, NEW hooked \in BOOLEAN,
                 Request, ReadTask(r, t, key, hooked)
          PROVE  IndInv'
      <4>1. requests' \in 0 .. MaxRequests
        BY <3>1, BoundAssumption DEF IndInv, TypeOK, Request
      <4> QED
        BY <3>1, <4>1, ReadTaskStep
    <3>2. ASSUME dispatchReleaseHook(r) PROVE IndInv'
      <4>1. hook.id \in Tasks
        BY <3>2 DEF IndInv, TypeOK, dispatchReleaseHook, Refs
      <4> QED
        BY <3>1, <3>2, <4>1 DEF dispatchReleaseHook
    <3> QED
      BY <2>2, <3>1, <3>2, ResolveStep, LookUpStep, InsertStep DEF Release,
         handleRunPushTask
  <2>3. ASSUME UNCHANGED vars PROVE IndInv'
    BY <2>3 DEF vars, IndInv, TypeOK, RefInv, Held, GivenOnce, TargetsLiveWithDeployment,
                FoundInv, RunCountIsExact, KeyInv, Live
  <2> QED
    BY <2>1, <2>2, <2>3, DayStep, PruneStep DEF Next
<1> QED
  BY <1>1, <1>2, PTL DEF Spec

-----------------------------------------------------------------------------
(* What follows.                                                           *)

\* The tables agree without enforced foreign keys, whatever requests cross:
\* nothing is adopted, targets live and die with their deployment, and the
\* count of a task's runs is the number of its deployments.
THEOREM TablesStayInAgreement == Spec => []TablesAgree
<1>1. IndInv => TablesAgree
  <2> SUFFICES ASSUME IndInv PROVE NothingIsAdopted
    BY DEF IndInv, TablesAgree
  <2>1. ASSUME NEW b \in Bindings, Visible(b)
        PROVE  Ref(host, binding[b].host.id) = binding[b].host
    <3>1. binding[b].life = "live" /\ binding[b] \in BindingRows
      BY <2>1 DEF IndInv, TypeOK, Visible, Live, NoBinding
    <3>2. binding[b].host \in Refs(Hosts) /\ Held(host, binding[b].host)
      BY <3>1 DEF IndInv, RefInv, BindingRows
    <3> QED
      BY <3>2 DEF Refs, Ref, Held
  <2>2. ASSUME hook # None PROVE Ref(task, hook.id) = hook
    <3>1. hook \in Refs(Tasks) /\ Held(task, hook)
      BY <2>2 DEF IndInv, TypeOK, RefInv
    <3> QED
      BY <3>1 DEF Refs, Ref, Held
  <2> QED
    BY <2>1, <2>2 DEF NothingIsAdopted
<1> QED
  BY <1>1, Invariance, PTL

\* Within the retention a key creates one deployment: the unique index ends
\* every request that lost the race, and a row leaves it only when it is older.
THEOREM KeysCreateOnce == Spec => KeyCreatesOnce
<1> DEFINE Step ==
      \A d \in Deployments :
         ~Live(deploy[d]) /\ Live(deploy'[d]) /\ deploy'[d].key # None
         => \A e \in Deployments \ {d} :
              deploy[e].key = deploy'[d].key => deploy[e].age > Retention
<1>1. ASSUME IndInv, NEW r \in Runners, Insert(r) PROVE Step
  <2>1. CASE deploy' = deploy
    BY <2>1
  <2>2. CASE KeyFree(run[r].key)
             /\ deploy' = [deploy EXCEPT ![NextId(deploy)] =
                             [life |-> "live", key |-> run[r].key, age |-> 0]]
    <3>1. ASSUME NEW d \in Deployments, ~Live(deploy[d]), Live(deploy'[d])
          PROVE  deploy'[d].key = run[r].key
      BY <1>1, <2>2, <3>1 DEF IndInv, TypeOK, Live
    <3>2. ASSUME NEW e \in Deployments, deploy[e].key = run[r].key, run[r].key # None
          PROVE  deploy[e].age > Retention
      BY <1>1, <2>2, <3>2 DEF IndInv, TypeOK, DeployRows, KeyInv, KeyFree, Holders, Live
    <3> QED
      BY <3>1, <3>2
  <2> QED
    BY <1>1, <2>1, <2>2 DEF Insert
<1>2. ASSUME IndInv, Next, ~ \E r \in Runners : Insert(r)
      PROVE  \A d \in Deployments : Live(deploy'[d]) => Live(deploy[d])
  <2>1. CASE Day
    <3>1. \A d \in Deployments : deploy'[d].life = deploy[d].life
      BY <1>2, <2>1 DEF Day, IndInv, TypeOK, DeployRows
    <3> QED
      BY <3>1 DEF Live
  <2>2. CASE PruneLogs
    <3>1. \A d \in Deployments : deploy'[d].life \in {"pruned", deploy[d].life}
      BY <1>2, <2>2 DEF PruneLogs, IndInv, TypeOK, DeployRows
    <3> QED
      BY <3>1 DEF Live
  <2>3. CASE UNCHANGED deploy
    BY <2>3
  <2>4. Catalog => UNCHANGED deploy
    BY DEF Catalog, CreateHost, DeleteHost, BindingCounts, BindingInserts,
           DeletePushServerBinding, UpdatePushServerBinding, handleCreatePushTask,
           handleUpdatePushTask, handleDeletePushTask, HookValidates, TaskDeletes,
           HookWrites, DeleteHook, rows
  <2>5. ASSUME NEW r \in Runners, Release(r) PROVE UNCHANGED deploy
    BY <1>2, <2>5 DEF Release, handleRunPushTask, dispatchReleaseHook, ReadTask, Resolve,
                      LookUp, rows
  <2> QED
    BY <1>2, <2>1, <2>2, <2>3, <2>4, <2>5 DEF Next
<1>3. IndInv /\ [Next]_vars => [Step]_vars
  BY <1>1, <1>2
<1> QED
  BY <1>3, Invariance, PTL DEF Spec, KeyCreatesOnce
=============================================================================
