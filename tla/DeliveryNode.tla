---------------------------- MODULE DeliveryNode ----------------------------
(***************************************************************************)
(* Pull delivery of one server: the delivery_nodes row in the controller,  *)
(* whose desired version is set by operators and advanced by publishes,    *)
(* and the agent on the node, which heartbeats, deploys what is desired,   *)
(* saves its state file and acknowledges.  Heartbeats are HTTP requests    *)
(* that may be refused, lost or applied after the agent gave up on them;   *)
(* the agent may die at any point and leaves its deployment running.       *)
(*                                                                         *)
(* Of safe-deploy (see SafeDeploy) the order of its steps is kept: a run   *)
(* pulls, then takes the lock of the instance, then installs or fails, and *)
(* what it could not clear up keeps later runs out.  The row's status      *)
(* text, labels and times decide nothing and are left out.                 *)
(***************************************************************************)
EXTENDS Naturals, SequencesExt

CONSTANTS
    Versions,       \* version names
    None,           \* no version, no row, no request
    MaxGeneration,  \* bound on desired generations handed out
    MaxLate,        \* bound on requests that nobody waits for
    MaxFaults       \* bound on failed calls, deployments, saves and agents

ASSUME BoundAssumption == {MaxGeneration, MaxLate, MaxFaults} \subseteq Nat

VARIABLES
    \* The controller.
    published,   \* published versions, oldest first
    row,         \* the delivery_nodes row
    late,        \* requests still to be applied that nobody waits for
    \* The node.
    pc,          \* where the agent's cycle is
    call,        \* the heartbeat the agent waits for
    order,       \* response.Desired, kept while it is carried out
    state,       \* the agent's state file
    runners,     \* runs of safe-deploy: the agent's own is 0, the others
                 \* are numbered by the fault that killed their agent
    installed,   \* the release that is really there
    fenced,      \* the attempt file asks for an operator
    faults,      \* failures so far
    \* History.
    stray        \* another run got in between the agent's own and its save

serverVars == <<published, row>>
siteVars   == <<runners, installed, fenced, stray>>
nodeVars   == <<pc, call, order, state, siteVars, faults>>
vars == <<published, row, late, pc, call, order, state,
          runners, installed, fenced, stray, faults>>

NoVersion   == Versions \cup {None}
Generations == 0 .. MaxGeneration
Rows   == [current : NoVersion, desired : NoVersion, generation : Generations,
           applied : Generations, follow : BOOLEAN]
States == [current : NoVersion, applied : Generations]
Calls  == [beat : States, applied : BOOLEAN]
Orders == [version : Versions, generation : Generations]
Runners == [version : Versions, stage : {"pull", "pulled"}]
Slots   == 0 .. MaxFaults
Points == {"idle", "asking", "announcing", "starting", "running", "saving",
           "acking", "erring"}

\* NULL is no version, and nothing is no row, request or run.
ASSUME NoneAssumption ==
    None \notin Versions \cup Rows \cup Calls \cup Orders \cup Runners

Published(v) == \E i \in DOMAIN published : published[i] = v

\* LatestPublishedVersion.
LatestPublishedVersion == IF published = <<>> THEN None ELSE Last(published)

NewRow == [current |-> None, desired |-> None, generation |-> 0,
           applied |-> 0, follow |-> FALSE]

\* The upsert of HeartbeatDeliveryNode: the applied generation never goes
\* back, and reporting the desired version acknowledges its generation.  And
\* an upsert that believes the node.
HeartbeatOverwrites(r, h) ==
    IF r = None THEN [NewRow EXCEPT !.current = h.current, !.applied = h.applied]
    ELSE [r EXCEPT !.current = h.current, !.applied = h.applied]
HeartbeatDeliveryNode(r, h) ==
    IF r = None THEN [NewRow EXCEPT !.current = h.current, !.applied = h.applied]
    ELSE [r EXCEPT
            !.current = h.current,
            !.applied = IF h.applied > r.applied THEN h.applied
                        ELSE IF h.current = r.desired /\ r.generation > r.applied
                        THEN r.generation ELSE r.applied]

\* desired_version := v; another version is another generation.
Desire(r, v) ==
    IF r.desired = v THEN r ELSE [r EXCEPT !.desired = v, !.generation = @ + 1]

\* needsDeploy, and one that only looks at the generations.
NeedsByGeneration(r) == r.desired # None /\ r.applied < r.generation
NeedsDeploy(r) ==
    r.desired # None /\ (r.current # r.desired \/ r.applied < r.generation)

Init ==
    /\ published = <<>> /\ row = None /\ late = {}
    /\ pc = "idle" /\ call = None /\ order = None
    /\ state = [current |-> None, applied |-> 0]
    /\ runners = [i \in Slots |-> None]
    /\ installed = None /\ fenced = FALSE /\ stray = FALSE
    /\ faults = 0

-----------------------------------------------------------------------------
(* The controller.                                                         *)

\* AdvanceAutoFollowDeliveryNodes.
Advance(v) == /\ row' = IF row # None /\ row.follow THEN Desire(row, v) ELSE row
              /\ row' # row => row.generation < MaxGeneration

\* handlePublishVersion: the version becomes published, or already is and the
\* request is a replay; then the followers are advanced, unless the request
\* fails in between.  A request that is overtaken after its first half is one
\* that fails and is replayed.
PublishVersion(v) ==
    /\ published' = IF Published(v) THEN published ELSE Append(published, v)
    /\ Advance(v) \/ UNCHANGED row
    /\ UNCHANGED <<late, nodeVars>>

DeleteVersion(v) ==
    /\ \E i \in DOMAIN published :
          published[i] = v /\ published' = RemoveAt(published, i)
    /\ UNCHANGED <<row, late, nodeVars>>

\* handleSetDeliveryNodeDesired: the version is checked or chosen, then
\* written.  A check that is stale when the row is written is one with another
\* version, or one before a deletion.
SetDeliveryNodeDesired(v, f) ==
    /\ v # None => Published(v)
    /\ LET chosen == IF v = None /\ f = TRUE THEN LatestPublishedVersion ELSE v
           old == IF row = None THEN NewRow ELSE row
           new == IF chosen = None THEN old ELSE Desire(old, chosen)
       IN /\ new # old => old.generation < MaxGeneration
          /\ row' = [new EXCEPT !.follow = IF f = None THEN @ ELSE f]
    /\ UNCHANGED <<published, late, nodeVars>>

DeleteDeliveryNode ==
    /\ row # None /\ row' = None
    /\ UNCHANGED <<published, late, nodeVars>>

\* A request that nobody waits for is applied after all, or is lost.
ApplyLate(h) ==
    /\ h \in late /\ late' = late \ {h}
    /\ row' = HeartbeatDeliveryNode(row, h)
    /\ UNCHANGED <<published, nodeVars>>

LoseLate(h) ==
    /\ h \in late /\ late' = late \ {h}
    /\ UNCHANGED <<serverVars, nodeVars>>

-----------------------------------------------------------------------------
(* Heartbeats of the agent.                                                *)

Send(h) == call' = [beat |-> h, applied |-> FALSE]

\* The handler's first statement: the upsert.
ApplyCall ==
    /\ call # None /\ ~call.applied
    /\ row' = HeartbeatDeliveryNode(row, call.beat)
    /\ call' = [call EXCEPT !.applied = TRUE]
    /\ UNCHANGED <<published, late,
                   pc, order, state, siteVars, faults>>

\* Its second statement reads the row back and the response arrives.
Reply ==
    /\ call # None /\ call.applied /\ row # None
    /\ \/ /\ pc = "asking" /\ NeedsDeploy(row)
          /\ pc' = "announcing" /\ Send(state)
          /\ order' = [version |-> row.desired, generation |-> row.generation]
       \/ /\ pc = "asking" /\ ~NeedsDeploy(row)
          /\ pc' = "idle" /\ call' = None /\ UNCHANGED order
       \/ /\ pc = "announcing"
          /\ pc' = "starting" /\ call' = None /\ UNCHANGED order
       \/ /\ pc \in {"acking", "erring"}
          /\ pc' = "idle" /\ call' = None /\ UNCHANGED order
    /\ UNCHANGED <<serverVars, late, state, siteVars, faults>>

\* One of the failures that MaxFaults bounds.
Fault == faults < MaxFaults /\ faults' = faults + 1

\* What becomes of a request whose sender is gone.
Abandon ==
    \/ UNCHANGED late
    \/ /\ call # None /\ ~call.applied
       /\ late' = late \cup {call.beat} /\ Cardinality(late') <= MaxLate

\* The request is refused, times out after 20 s, or its answer is lost.
CallFails ==
    /\ call # None /\ Fault
    /\ Abandon
    /\ call' = None
    /\ pc' = IF pc = "announcing" THEN "starting" ELSE "idle"
    /\ UNCHANGED <<serverVars, order, state, siteVars>>

-----------------------------------------------------------------------------
(* The cycle of the agent.                                                 *)

Wake ==
    /\ pc = "idle" /\ pc' = "asking" /\ Send(state)
    /\ UNCHANGED <<serverVars, late, order, state, siteVars, faults>>

StartRunner ==
    /\ pc = "starting" /\ pc' = "running"
    /\ runners' = [runners EXCEPT ![0] = [version |-> order.version, stage |-> "pull"]]
    /\ UNCHANGED <<serverVars, late, call, order, state, installed, fenced, stray, faults>>

Stage(i, s) == runners[i] # None /\ runners[i].stage = s

\* Another run may hold the flock for longer than a run waits for it.
Contended(i) == \E j \in Slots \ {i} : Stage(j, "pulled")

\* handlePull streams the bundle and then registers the node by a heartbeat
\* of its own, without a generation and whose failure is ignored.
RunnerPulls(i) ==
    /\ Stage(i, "pull") /\ Published(runners[i].version)
    /\ runners' = [runners EXCEPT ![i].stage = "pulled"]
    /\ \/ UNCHANGED late
       \/ /\ late' = late \cup {[current |-> runners[i].version, applied |-> 0]}
          /\ Cardinality(late') <= MaxLate
    /\ UNCHANGED <<serverVars, pc, call, order, state, installed, fenced, stray, faults>>

\* Only then does a run compete for the lock, under which it finds no fence,
\* installs and ends: the later one to get the lock installs last, whichever
\* was started first.
RunnerInstalls(i) ==
    /\ Stage(i, "pulled") /\ ~fenced
    /\ installed' = runners[i].version /\ stray' = (pc = "saving")
    /\ runners' = [runners EXCEPT ![i] = None]
    /\ pc' = IF i = 0 THEN "saving" ELSE pc
    /\ UNCHANGED <<serverVars, late, call, order, state, fenced, faults>>

\* A run ends with an error; its agent, if alive, reports that with its old
\* state.
RunnerError(i) ==
    /\ runners' = [runners EXCEPT ![i] = None]
    /\ IF i = 0 THEN pc' = "erring" /\ Send(state) /\ order' = None
               ELSE UNCHANGED <<pc, call, order>>
    /\ UNCHANGED <<serverVars, late, state>>

\* handlePull answers 404 or 400; or the lock is not free in time; or it is,
\* and an earlier attempt is not cleared up.
RunnerRefused(i) ==
    /\ \/ Stage(i, "pull") /\ ~Published(runners[i].version)
       \/ Stage(i, "pulled") /\ (Contended(i) \/ fenced)
    /\ RunnerError(i)
    /\ UNCHANGED <<installed, fenced, stray, faults>>

\* The run fails and the old release is back; or it is interrupted, blocked or
\* killed with either release in place, and may fence the instance.
RunnerFails(i) ==
    /\ runners[i] # None /\ Fault /\ RunnerError(i)
    /\ \/ UNCHANGED <<installed, fenced, stray>>
       \/ /\ Stage(i, "pulled") /\ ~fenced
          /\ fenced' \in BOOLEAN /\ stray' = (pc = "saving")
          /\ installed' \in {installed, runners[i].version}

\* An operator verifies the runtime and acknowledges the attempt with a run by
\* hand.
OperatorRecovers ==
    /\ fenced /\ fenced' = FALSE
    /\ \E v \in Versions : Published(v) /\ installed' = v
    /\ stray' = (pc = "saving")
    /\ UNCHANGED <<serverVars, late, pc, call, order, state, runners, faults>>

\* saveAgentState replaces the file atomically, then the deployment is
\* acknowledged.
SaveAgentState ==
    /\ pc = "saving"
    /\ state' = [current |-> order.version, applied |-> order.generation]
    /\ pc' = "acking" /\ Send(state') /\ order' = None /\ stray' = FALSE
    /\ UNCHANGED <<serverVars, late, runners, installed, fenced, faults>>

\* The file cannot be written: the old state is reported.  And an agent that
\* acknowledges what it could not save.
SaveFailsButAcks ==
    /\ pc = "saving" /\ Fault
    /\ pc' = "acking" /\ order' = None /\ stray' = FALSE
    /\ Send([current |-> order.version, applied |-> order.generation])
    /\ UNCHANGED <<serverVars, late, state, runners, installed, fenced>>
SaveFails ==
    /\ pc = "saving" /\ Fault
    /\ pc' = "erring" /\ order' = None /\ stray' = FALSE
    /\ Send(state)
    /\ UNCHANGED <<serverVars, late, state, runners, installed, fenced>>

\* The agent dies.  Its run goes on.
Crash ==
    /\ pc # "idle" /\ Fault
    /\ pc' = "idle" /\ call' = None /\ order' = None
    /\ runners' = [runners EXCEPT ![0] = None, ![faults'] = runners[0]]
    /\ Abandon /\ stray' = FALSE
    /\ UNCHANGED <<serverVars, state, installed, fenced>>

-----------------------------------------------------------------------------
OperatorStep ==
    \/ \E v \in Versions : PublishVersion(v) \/ DeleteVersion(v)
    \/ \E v \in NoVersion, f \in BOOLEAN \cup {None} : SetDeliveryNodeDesired(v, f)
    \/ DeleteDeliveryNode \/ OperatorRecovers

LateStep == \E h \in late : ApplyLate(h) \/ LoseLate(h)

AgentStep ==
    \/ Wake \/ ApplyCall \/ Reply \/ CallFails
    \/ StartRunner \/ SaveAgentState \/ SaveFails \/ Crash

RunnerStep(i) ==
    RunnerPulls(i) \/ RunnerInstalls(i) \/ RunnerRefused(i)

Next ==
    \/ OperatorStep \/ LateStep \/ AgentStep
    \/ \E i \in Slots : RunnerStep(i) \/ RunnerFails(i)

Spec == Init /\ [][Next]_vars

\* The agent's loop, every run and the controller's handlers are scheduled.
\* Operators, late requests and faults are not fair; the faults are finitely
\* many, a network or a node that always fails being beyond any protocol.
FairSpec ==
    /\ Spec
    /\ WF_vars(Wake \/ ApplyCall \/ Reply \/ StartRunner \/ SaveAgentState)
    /\ \A i \in Slots : WF_vars(RunnerStep(i))

-----------------------------------------------------------------------------
(* Correctness.                                                            *)

\* Every variable keeps its type.
TypeOK ==
    /\ published \in Seq(Versions) /\ IsInjective(published)
    /\ row \in Rows \cup {None}
    /\ late \subseteq States
    /\ pc \in Points /\ call \in Calls \cup {None} /\ order \in Orders \cup {None}
    /\ state \in States /\ runners \in [Slots -> Runners \cup {None}]
    /\ installed \in NoVersion /\ fenced \in BOOLEAN /\ stray \in BOOLEAN
    /\ faults \in 0 .. MaxFaults

\* "unpersisted generation was acknowledged" never happens: what the agent
\* reports is what its state file holds, whatever failed before, so that a
\* restart cannot take an acknowledgement back.
AcknowledgedIsSaved == call # None => call.beat = state

\* A saved deployment was the one that was ordered: when the agent saves, what
\* is installed is what it is about to record, unless a run that outlived an
\* earlier agent, a cut-off run or an operator got to the instance in between,
\* for which something must have failed before.
SavesWhatIsInstalled ==
    /\ pc = "saving" => installed = order.version \/ stray
    /\ stray => faults > 0

\* The agent's state file is honest: it is what the agent reports, and what it
\* is about to say is installed; and everything keeps its type.
StateFileIsHonest == TypeOK /\ AcknowledgedIsSaved /\ SavesWhatIsInstalled

\* "The generation never moves backwards": neither stale, late nor
\* acknowledging heartbeats take back an applied or desired generation of a
\* row that stays.
GenerationsGrow ==
    [][row # None /\ row' # None =>
         row'.applied >= row.applied /\ row'.generation >= row.generation]_vars

\* A desired version that stays desired and published gets installed, through
\* refused, lost and late heartbeats, failed deployments and dead agents, or the
\* instance waits for an operator.  (The exception is a node whose state file
\* does not name what is installed, because the agent or its run was cut off
\* between the swap and the save, or because a run that outlived its agent
\* pulled before the next one and took the lock after it:
\* HeartbeatDeliveryNode takes the version in the state file for the one that
\* runs.)
ConvergesIfSaved ==
    \A v \in Versions :
        <>[](row # None /\ row.desired = v /\ Published(v))
        => <>[](installed = v \/ installed # state.current \/ fenced)
=============================================================================
