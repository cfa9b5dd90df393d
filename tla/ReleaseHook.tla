---------------------------- MODULE ReleaseHook ----------------------------
(***************************************************************************)
(* Release hooks: triggers that fall into one debounce window are merged,  *)
(* and the worker of the controller claims a due window, records it as an  *)
(* event and carries it out by one push deployment per event.  The window  *)
(* and the events are rows of the database; the worker's list is memory.   *)
(*                                                                         *)
(* A trigger stands for the version it names.  The push deployment is      *)
(* external here: PushDeploy models it.  Texts, counters and the name,     *)
(* task and length of the window decide nothing and are left out.          *)
(***************************************************************************)
EXTENDS Naturals, SequencesExt

CONSTANTS
    Hooks,        \* ids of hooks
    None,         \* no update
    MaxTriggers,  \* bound on triggers
    MaxFaults     \* bound on drains, crashes and failed writes

ASSUME BoundAssumption == {MaxTriggers, MaxFaults} \subseteq Nat
ASSUME HookAssumption == IsFiniteSet(Hooks)

VARIABLES
    \* The database.
    hook,      \* the rows of release_hooks
    events,    \* the dispatch rows of release_hook_events, oldest first, each
               \* with the push deployment that carries its id
    cancelled, \* the triggers named by cancellation rows
    \* The controller.
    power,     \* "up", "draining" or "down"
    pc,        \* where dispatchReleaseHook is
    todo,      \* staleRuns and runs of the tick, the one at hand first
    update,    \* handleUpdateReleaseHook at work
    \* Bounds.
    accepted,  \* triggers so far
    faults     \* faults so far

workerVars == <<pc, todo>>
boundVars  == <<accepted, faults>>
vars == <<hook, events, cancelled, power, pc, todo, update, accepted, faults>>

Triggers == 1 .. MaxTriggers
HookRows == [life : {"unborn", "live", "gone"}, enabled : BOOLEAN,
             pending : SUBSET Triggers, due : BOOLEAN]
\* runs and read are history: the starts of the deployment, and what an update
\* had read but not written when the window was claimed.
Events   == [hook : Hooks, batch : (SUBSET Triggers) \ {{}},
             status : {"running", "success", "failed"}, stale : BOOLEAN,
             deployment : {"none", "queued", "running", "success", "failed"},
             runs : Nat, read : SUBSET Triggers]
\* What handleUpdateReleaseHook keeps of the row that it read.
Updates  == [hook : Hooks, enabled : BOOLEAN, pending : SUBSET Triggers,
             written : BOOLEAN]
Points   == {"idle", "dispatch", "created", "running", "report", "ended"}

Live(h)    == hook[h].life = "live"
Enabled(h) == Live(h) /\ hook[h].enabled

\* The version that an event deploys is that of its last trigger.
Version(e) == Max(e.batch)

\* The event that dispatchReleaseHook works on.
Cur == Head(todo).event

Init ==
    /\ hook = [h \in Hooks |-> [life |-> "unborn", enabled |-> FALSE,
                                pending |-> {}, due |-> FALSE]]
    /\ events = <<>> /\ cancelled = [h \in Hooks |-> {}]
    /\ power = "up" /\ pc = "idle" /\ todo = <<>> /\ update = None
    /\ accepted = 0 /\ faults = 0

-----------------------------------------------------------------------------
(* Hooks and their triggers.                                               *)

CreateReleaseHook(h, on) ==
    /\ power # "down" /\ hook[h].life = "unborn"
    /\ hook' = [hook EXCEPT ![h].life = "live", ![h].enabled = on]
    /\ UNCHANGED <<events, cancelled, power, workerVars, update, boundVars>>

\* Its events stay; its window is gone.
DeleteReleaseHook(h) ==
    /\ power # "down" /\ Live(h)
    /\ hook' = [hook EXCEPT ![h] = [life |-> "gone", enabled |-> FALSE,
                                    pending |-> {}, due |-> FALSE]]
    /\ UNCHANGED <<events, cancelled, power, workerVars, update, boundVars>>

\* The transaction that merges a trigger into the windows of some hooks and
\* restarts them.
Queue(S) ==
    hook' = [h \in Hooks |->
        IF h \in S /\ Enabled(h)
        THEN [hook[h] EXCEPT !.pending = @ \cup {accepted + 1}, !.due = FALSE]
        ELSE hook[h]]

\* QueueReleaseHook for one hook, QueueProjectReleaseHooks for all of them.
Trigger(S) ==
    /\ power # "down" /\ accepted < MaxTriggers
    /\ S = Hooks \/ \E h \in S : S = {h} /\ Enabled(h)
    /\ Queue(S)
    /\ accepted' = accepted + 1
    /\ UNCHANGED <<events, cancelled, power, workerVars, update, faults>>

\* due_at passes.
WindowElapses(h) ==
    /\ hook[h].pending # {} /\ ~hook[h].due
    /\ hook' = [hook EXCEPT ![h].due = TRUE]
    /\ UNCHANGED <<events, cancelled, power, workerVars, update, boundVars>>

-----------------------------------------------------------------------------
(* handleUpdateReleaseHook: read the hook, write it, record what was       *)
(* cancelled.                                                              *)

UpdateReads(h, enabled) ==
    /\ power # "down" /\ update = None /\ Live(h)
    /\ update' = [hook |-> h, written |-> FALSE,
                  pending |-> IF hook[h].enabled THEN hook[h].pending ELSE {},
                  enabled |-> IF enabled = None THEN hook[h].enabled ELSE enabled]
    /\ UNCHANGED <<hook, events, cancelled, power, workerVars, boundVars>>

\* UpdateReleaseHook: a hook that is switched off loses its window; and one
\* that keeps it.
WrittenKeepingWindow(row, on) == [row EXCEPT !.enabled = on]
Written(row, on) ==
    IF on THEN [row EXCEPT !.enabled = TRUE]
    ELSE [row EXCEPT !.enabled = FALSE, !.pending = {}, !.due = FALSE]

UpdateWrites ==
    /\ power # "down" /\ update # None /\ ~update.written
    /\ LET h == update.hook IN
       /\ hook' = IF Live(h) THEN [hook EXCEPT ![h] = Written(@, update.enabled)]
                  ELSE hook
       /\ update' = IF Live(h) /\ ~update.enabled /\ update.pending # {}
                    THEN [update EXCEPT !.written = TRUE] ELSE None
    /\ UNCHANGED <<events, cancelled, power, workerVars, boundVars>>

\* RecordReleaseHookCancellation, of what was read.
UpdateRecords ==
    /\ power # "down" /\ update # None /\ update.written
    /\ cancelled' = [cancelled EXCEPT ![update.hook] = @ \cup update.pending]
    /\ update' = None
    /\ UNCHANGED <<hook, events, power, workerVars, boundVars>>

-----------------------------------------------------------------------------
(* The worker.                                                             *)

\* A running event becomes older than the lease of two minutes.
LeaseExpires(i) ==
    /\ i \in DOMAIN events /\ events[i].status = "running" /\ ~events[i].stale
    /\ events' = [events EXCEPT ![i].stale = TRUE]
    /\ UNCHANGED <<hook, cancelled, power, workerVars, update, boundVars>>

\* ListStaleReleaseHookRuns; the hook must still exist.  And a worker without
\* recovery.
NoStaleRuns == {}
StaleRuns == {i \in DOMAIN events : /\ events[i].status = "running"
                                    /\ events[i].stale /\ Live(events[i].hook)}

\* The triggers that an update at work will record as cancelled if it switches
\* its hook off.
ReadByUpdate(h) ==
    IF update # None /\ update.hook = h /\ ~update.written THEN update.pending ELSE {}

NewEvent(h) ==
    [hook |-> h, batch |-> hook[h].pending, status |-> "running", stale |-> FALSE,
     deployment |-> "none", runs |-> 0, read |-> ReadByUpdate(h)]

\* A claimed window is emptied; and one that is not.
ClaimedKeepingWindow(row) == row
Claimed(row) == [row EXCEPT !.pending = {}, !.due = FALSE]

\* processDueReleaseHooks up to its loops: the stale runs, oldest first, and
\* the claimed windows.  Nothing that happens between the list of stale runs
\* and the claim makes a difference to either.
Tick ==
    /\ pc = "idle" /\ power # "down"
    /\ LET due == {h \in Hooks : Enabled(h) /\ hook[h].due} IN
       \E stale \in SetToSeqs(StaleRuns), claims \in SetToSeqs(due) :
          /\ \A k, l \in DOMAIN stale : k < l => stale[k] < stale[l]
          /\ hook' = [h \in Hooks |-> IF h \in due THEN Claimed(hook[h]) ELSE hook[h]]
          /\ events' = events \o [k \in DOMAIN claims |-> NewEvent(claims[k])]
          /\ todo' = [k \in DOMAIN stale |-> [event |-> stale[k], recovery |-> TRUE]]
                     \o [k \in DOMAIN claims |->
                           [event |-> Len(events) + k, recovery |-> FALSE]]
    /\ pc' = IF todo' = <<>> THEN "idle" ELSE "dispatch"
    /\ UNCHANGED <<cancelled, power, update, boundVars>>

\* On to the next run of the tick.
NextRun == /\ todo' = Tail(todo)
           /\ pc' = IF Len(todo) = 1 THEN "idle" ELSE "dispatch"

\* One of the faults that MaxFaults bounds.
Fault == faults < MaxFaults /\ faults' = faults + 1

\* CompleteReleaseHookRun, which may fail and leave the event as it is.
Complete(status) ==
    \/ /\ events' = [events EXCEPT ![Cur].status = status, ![Cur].stale = FALSE]
       /\ UNCHANGED faults
    \/ Fault /\ UNCHANGED events

\* The task, the version or the targets are gone, or the plan cannot be
\* frozen: also for an event whose deployment exists.
Refuse ==
    /\ pc = "dispatch" /\ Complete("failed") /\ NextRun
    /\ UNCHANGED <<hook, cancelled, power, update, accepted>>

\* GetPushDeploymentByHookEvent finds a deployment; and a worker that does
\* not look.
NotFound(e) == FALSE
Existing(e) == e.deployment # "none"

Reuse ==
    /\ pc = "dispatch" /\ Existing(events[Cur])
    /\ pc' = IF events[Cur].deployment = "queued" THEN "created" ELSE "report"
    /\ UNCHANGED <<hook, events, cancelled, power, todo, update, boundVars>>

\* CreatePushDeployment for a frozen plan.
Create ==
    /\ pc = "dispatch" /\ ~Existing(events[Cur])
    /\ events' = [events EXCEPT ![Cur].deployment = "queued"]
    /\ pc' = "created"
    /\ UNCHANGED <<hook, cancelled, power, todo, update, boundVars>>

\* runPushDeployment takes the deployment mutex and claims the deployment, or
\* returns because the controller is draining.
StartRun ==
    /\ pc = "created"
    /\ IF power = "draining"
       THEN pc' = "report" /\ UNCHANGED events
       ELSE /\ pc' = "running"
            /\ events' = [events EXCEPT ![Cur].deployment = "running", ![Cur].runs = @ + 1]
    /\ UNCHANGED <<hook, cancelled, power, todo, update, boundVars>>

\* runPushDeployment ends, or stops at a row it cannot write.
EndRun ==
    /\ pc = "running" /\ pc' = "report"
    /\ \/ /\ \E s \in {"success", "failed"} :
                events' = [events EXCEPT ![Cur].deployment = s]
          /\ UNCHANGED faults
       \/ Fault /\ UNCHANGED events
    /\ UNCHANGED <<hook, cancelled, power, todo, update, accepted>>

\* The status an event takes from its deployment.
EventStatus(s) == IF s = "success" THEN "success" ELSE "failed"

Report ==
    /\ pc = "report"
    /\ Complete(EventStatus(events[Cur].deployment)) /\ NextRun
    /\ UNCHANGED <<hook, cancelled, power, update, accepted>>

-----------------------------------------------------------------------------
(* The life of the controller.                                             *)

\* BeginDeploymentDrain and stopMonitor: a worker that waits for its ticker
\* ends; one at work notices later, and may take another tick before.
Drain ==
    /\ power = "up" /\ power' = "draining" /\ Fault
    /\ pc' = IF pc = "idle" THEN "ended" ELSE pc
    /\ UNCHANGED <<hook, events, cancelled, todo, update, accepted>>

WorkerEnds ==
    /\ power = "draining" /\ pc = "idle" /\ pc' = "ended"
    /\ UNCHANGED <<hook, events, cancelled, power, todo, update, boundVars>>

Down == /\ power' = "down" /\ pc' = "ended" /\ todo' = <<>> /\ update' = None
        /\ UNCHANGED <<hook, cancelled, accepted>>

\* The process ends after WaitForDeployments; it does not wait for the worker.
Exit == power = "draining" /\ pc # "running" /\ Down /\ UNCHANGED <<events, faults>>

Crash == power # "down" /\ Fault /\ Down /\ UNCHANGED events

\* InterruptPushDeployments; and a start without it.
Kept(e) == e
Interrupted(e) ==
    IF e.deployment \in {"queued", "running"} THEN [e EXCEPT !.deployment = "failed"] ELSE e

Restart ==
    /\ power = "down" /\ power' = "up" /\ pc' = "idle"
    /\ events' = [i \in DOMAIN events |-> Interrupted(events[i])]
    /\ UNCHANGED <<hook, cancelled, todo, update, boundVars>>

-----------------------------------------------------------------------------
Operator ==
    \/ \E h \in Hooks : \/ \E on \in BOOLEAN : CreateReleaseHook(h, on)
                        \/ DeleteReleaseHook(h)
                        \/ \E on \in BOOLEAN \cup {None} : UpdateReads(h, on)
    \/ \E S \in SUBSET Hooks : Trigger(S)

Handler == UpdateWrites \/ UpdateRecords

Time == \/ \E h \in Hooks : WindowElapses(h)
        \/ \E i \in DOMAIN events : LeaseExpires(i)

Worker == Tick \/ Refuse \/ Reuse \/ Create \/ StartRun \/ EndRun \/ Report
          \/ WorkerEnds

Life == Drain \/ Exit \/ Crash \/ Restart

Next == Operator \/ Handler \/ Time \/ Worker \/ Life

Spec == Init /\ [][Next]_vars

\* The worker's goroutine is scheduled, time passes, a drained process ends
\* and the service manager starts it again.  Operators and faults are not
\* fair; the faults are finitely many.
FairSpec == Spec /\ WF_vars(Worker) /\ WF_vars(Exit) /\ WF_vars(Restart)
                 /\ \A h \in Hooks : WF_vars(WindowElapses(h))
                 /\ WF_vars(\E i \in DOMAIN events : LeaseExpires(i))

-----------------------------------------------------------------------------
(* Correctness.                                                            *)

\* Every row, and the worker's list, keep their types.
TypeOK ==
    /\ hook \in [Hooks -> HookRows]
    /\ events \in Seq(Events)
    /\ cancelled \in [Hooks -> SUBSET Triggers]
    /\ power \in {"up", "draining", "down"} /\ pc \in Points
    /\ todo \in Seq([event : DOMAIN events, recovery : BOOLEAN])
    /\ update \in Updates \cup {None}
    /\ accepted \in 0 .. MaxTriggers /\ faults \in 0 .. MaxFaults

\* A hook that is off or deleted has no window, whatever triggers and updates
\* crossed: nothing is left that a later switch-on would deploy.
DisabledIsIdle ==
    \A h \in Hooks : ~Enabled(h) => hook[h].pending = {} /\ ~hook[h].due

\* "hook_event_id is the unique idempotency key": an event's deployment is
\* started at most once, through crashes, recovery of stale events and rows
\* that could not be written.
RunsAtMostOnce == \A i \in DOMAIN events : events[i].runs <= 1

\* An event that says success was carried out: neither a drain nor a crash
\* nor a lost write makes a success out of a deployment that did not succeed.
SuccessIsReal ==
    \A i \in DOMAIN events :
        events[i].status = "success" => events[i].deployment = "success"

\* Hooks and events are consistent: nothing waits behind a hook that is off, no
\* event is run twice, a success is one, and everything keeps its type.
EventsAreHonest == TypeOK /\ DisabledIsIdle /\ RunsAtMostOnce /\ SuccessIsReal

\* "deploys the last triggered version": apart from the recovery of events
\* whose lease expired, each deployment that a hook starts is for a newer
\* trigger than all it has started before; no trigger is deployed twice.
NewestLast ==
    [][\A i \in DOMAIN events : events'[i].runs > events[i].runs =>
         \/ Head(todo).recovery
         \/ \A j \in DOMAIN events \ {i} :
              events[j].hook = events[i].hook /\ events[j].runs > 0
              => Version(events[j]) < Version(events[i])]_vars

\* "disabled before debounce window elapsed" is true of every trigger that is
\* recorded so, before and after the record and also when the hook is switched
\* on again: no event carries it.  The one exception is a window that the
\* worker claimed after handleUpdateReleaseHook had read it and before the hook
\* was written: that one is recorded as cancelled and deployed all the same.
CancelledIsNotDeployed ==
    \A i \in DOMAIN events :
        events[i].batch \cap cancelled[events[i].hook] \subseteq events[i].read

\* A trigger is settled when its hook is off or deleted, or when the event
\* that carries it is closed.
Settled(h, t) ==
    \/ ~Enabled(h)
    \/ \E i \in DOMAIN events : /\ events[i].hook = h /\ t \in events[i].batch
                                /\ events[i].status # "running"

\* Every accepted trigger is settled, through restarts, stale recovery and
\* lost writes: the queue is persistent.
EveryTriggerSettles ==
    \A h \in Hooks, t \in Triggers : t \in hook[h].pending ~> Settled(h, t)
=============================================================================
