----------------------------- MODULE PullProofs -----------------------------
(***************************************************************************)
(* Proofs about what reaches a node that pulls.  First the agent and its   *)
(* row, for every set of versions and every bound on generations, late     *)
(* requests and faults; then the configuration files that it is sent, for  *)
(* every set of overrides, files and tags.  The two components share no    *)
(* state.                                                                  *)
(***************************************************************************)
EXTENDS DeliveryNode, ConfigRender, SequenceTheorems, FiniteSetTheorems,
        WellFoundedInduction, TLAPS

\* The agent waits for an answer exactly in the states that sent a request,
\* and remembers the order while it carries it out.
CycleInv ==
    /\ call # None <=> pc \in {"asking", "announcing", "acking", "erring"}
    /\ pc \in {"announcing", "starting", "running", "saving"} => order # None

\* The agent waits for the run of its own order.  Every other run outlived an
\* agent, and a fence was left by a failed one.
RunnerInv ==
    /\ pc = "running" <=> runners[0] # None
    /\ pc = "running" => runners[0].version = order.version
    /\ \A i \in Slots : i > faults => runners[i] = None
    /\ fenced => faults > 0

IndInv == StateFileIsHonest /\ CycleInv /\ RunnerInv

-----------------------------------------------------------------------------
(* The list of published versions.                                         *)

\* Publishing a version that is not in the list keeps it free of duplicates.
LEMMA AppendKeepsInjective ==
  ASSUME NEW s \in Seq(Versions), IsInjective(s),
         NEW v \in Versions, ~\E i \in DOMAIN s : s[i] = v
  PROVE  Append(s, v) \in Seq(Versions) /\ IsInjective(Append(s, v))
BY DEF IsInjective

\* So does deleting one.
LEMMA RemoveKeepsInjective ==
  ASSUME NEW s \in Seq(Versions), IsInjective(s), NEW i \in DOMAIN s
  PROVE  RemoveAt(s, i) \in Seq(Versions) /\ IsInjective(RemoveAt(s, i))
<1> DEFINE r == RemoveAt(s, i)
<1>1. /\ r \in Seq(Versions) /\ Len(r) = Len(s) - 1
      /\ \A j \in 1 .. Len(r) : r[j] = IF j < i THEN s[j] ELSE s[j + 1]
  <2>1. i \in 1 .. Len(s)
    OBVIOUS
  <2>2. /\ SubSeq(s, 1, i - 1) \in Seq(Versions)
        /\ Len(SubSeq(s, 1, i - 1)) = i - 1
        /\ \A j \in 1 .. i - 1 : SubSeq(s, 1, i - 1)[j] = s[j]
    BY <2>1, SubSeqProperties
  <2>3. /\ SubSeq(s, i + 1, Len(s)) \in Seq(Versions)
        /\ Len(SubSeq(s, i + 1, Len(s))) = Len(s) - i
        /\ \A j \in 1 .. Len(s) - i : SubSeq(s, i + 1, Len(s))[j] = s[i + j]
    BY <2>1, SubSeqProperties
  <2>4. ASSUME NEW front \in Seq(Versions), NEW back \in Seq(Versions),
               Len(front) = i - 1, Len(back) = Len(s) - i,
               \A j \in 1 .. i - 1 : front[j] = s[j],
               \A j \in 1 .. Len(s) - i : back[j] = s[i + j]
        PROVE  /\ front \o back \in Seq(Versions)
               /\ Len(front \o back) = Len(s) - 1
               /\ \A j \in 1 .. Len(s) - 1 :
                     (front \o back)[j] = IF j < i THEN s[j] ELSE s[j + 1]
    <3> DEFINE t == front \o back
    <3>1. /\ t \in Seq(Versions) /\ Len(t) = Len(front) + Len(back)
          /\ \A j \in 1 .. Len(front) + Len(back) :
                t[j] = IF j <= Len(front) THEN front[j] ELSE back[j - Len(front)]
      BY ConcatProperties
    <3> HIDE DEF t
    <3>2. ASSUME NEW j \in 1 .. Len(s) - 1
          PROVE  t[j] = IF j < i THEN s[j] ELSE s[j + 1]
      <4>1. CASE j < i
        BY <2>1, <2>4, <3>1, <4>1, SMTT(30)
      <4>2. CASE j >= i
        <5> DEFINE k == j - (i - 1)
        <5>1. k \in 1 .. Len(s) - i /\ i + k = j + 1
          BY <2>1, <4>2
        <5>2. t[j] = back[k]
          <6>1. j \in 1 .. Len(front) + Len(back) /\ ~(j <= Len(front))
            BY <2>1, <2>4, <4>2
          <6>2. j - Len(front) = k
            BY <2>1, <2>4
          <6> HIDE DEF k
          <6>3. t[j] = back[j - Len(front)]
            BY <3>1, <6>1
          <6> QED
            BY <6>2, <6>3
        <5> HIDE DEF k
        <5>3. back[k] = s[i + k]
          BY <2>4, <5>1
        <5> QED
          BY <4>2, <2>1, <5>1, <5>2, <5>3
      <4> QED
        BY <2>1, <4>1, <4>2
    <3>3. t \in Seq(Versions) /\ Len(t) = Len(s) - 1
      BY <2>1, <2>4, <3>1
    <3> QED
      BY <3>2, <3>3 DEF t
  <2> DEFINE a == SubSeq(s, 1, i - 1)
             b == SubSeq(s, i + 1, Len(s))
  <2>5. r = a \o b
    BY DEF RemoveAt
  <2> HIDE DEF a, b, r
  <2> QED
    <3>1. /\ a \in Seq(Versions) /\ b \in Seq(Versions)
          /\ Len(a) = i - 1 /\ Len(b) = Len(s) - i
          /\ \A j \in 1 .. i - 1 : a[j] = s[j]
          /\ \A j \in 1 .. Len(s) - i : b[j] = s[i + j]
      BY <2>2, <2>3 DEF a, b
    <3>2. /\ a \o b \in Seq(Versions) /\ Len(a \o b) = Len(s) - 1
          /\ \A j \in 1 .. Len(s) - 1 :
                (a \o b)[j] = IF j < i THEN s[j] ELSE s[j + 1]
      BY <2>4, <3>1
    <3> QED
      BY <2>5, <3>2
<1> HIDE DEF r
<1>2. ASSUME NEW a \in DOMAIN r, NEW b \in DOMAIN r, r[a] = r[b] PROVE a = b
  BY <1>1, <1>2, SMTT(30) DEF IsInjective
<1> QED
  BY <1>1, <1>2 DEF IsInjective, r

-----------------------------------------------------------------------------
(* The row.                                                                *)

\* A heartbeat keeps the row's type and takes back neither generation.
LEMMA HeartbeatGrows ==
  ASSUME NEW r \in Rows \cup {None}, NEW h \in States
  PROVE  /\ HeartbeatDeliveryNode(r, h) \in Rows
         /\ r # None =>
              /\ HeartbeatDeliveryNode(r, h).applied >= r.applied
              /\ HeartbeatDeliveryNode(r, h).generation = r.generation
<1> USE BoundAssumption DEF Rows, States, NoVersion, Generations
<1>1. CASE r = None
  <2>1. NewRow \in Rows
    BY DEF NewRow
  <2> QED
    BY <1>1, <2>1 DEF HeartbeatDeliveryNode
<1>2. CASE r # None
  <2> DEFINE k == IF h.applied > r.applied THEN h.applied
                  ELSE IF h.current = r.desired /\ r.generation > r.applied
                  THEN r.generation ELSE r.applied
  <2>1. k \in Generations /\ k >= r.applied
    BY <1>2
  <2>2. HeartbeatDeliveryNode(r, h) = [r EXCEPT !.current = h.current, !.applied = k]
    BY <1>2 DEF HeartbeatDeliveryNode
  <2> HIDE DEF k
  <2> QED
    BY <1>2, <2>1, <2>2
<1> QED
  BY <1>1, <1>2

\* Another desired version is another generation.
LEMMA DesireGrows ==
  ASSUME NEW r \in Rows, NEW v \in Versions,
         Desire(r, v) # r => r.generation < MaxGeneration
  PROVE  /\ Desire(r, v) \in Rows
         /\ Desire(r, v).applied = r.applied
         /\ Desire(r, v).generation >= r.generation
<1> USE BoundAssumption DEF Rows, NoVersion, Generations
<1>1. CASE r.desired = v
  BY <1>1 DEF Desire
<1>2. CASE r.desired # v
  <2> DEFINE g == r.generation + 1
  <2>1. Desire(r, v) = [r EXCEPT !.desired = v, !.generation = g]
    BY <1>2 DEF Desire
  <2>2. Desire(r, v).desired = v
    BY <2>1
  <2>3. g \in Generations /\ g >= r.generation
    BY <1>2, <2>2
  <2> HIDE DEF g
  <2> QED
    BY <2>1, <2>3
<1> QED
  BY <1>1, <1>2

-----------------------------------------------------------------------------
(* The steps preserve the invariant.                                       *)

\* The row keeps its type, and its generations grow while it stays.
RowGrows ==
    /\ row' \in Rows \cup {None}
    /\ row # None /\ row' # None =>
         row'.applied >= row.applied /\ row'.generation >= row.generation

\* Every statement that writes the row keeps its type and its generations.
LEMMA RowStep == TypeOK /\ AcknowledgedIsSaved /\ [Next]_vars => RowGrows
<1> SUFFICES ASSUME TypeOK, AcknowledgedIsSaved, [Next]_vars PROVE RowGrows
  OBVIOUS
<1>1. row # None => row.applied \in Nat /\ row.generation \in Nat
  BY BoundAssumption DEF TypeOK, Rows, Generations
<1>2. CASE UNCHANGED row
  BY <1>1, <1>2 DEF RowGrows, TypeOK
<1>3. ASSUME NEW v \in Versions, Advance(v) PROVE RowGrows
  BY <1>1, <1>3, DesireGrows DEF RowGrows, Advance, TypeOK
<1>4. ASSUME NEW v \in NoVersion, NEW f \in BOOLEAN \cup {None},
             SetDeliveryNodeDesired(v, f)
      PROVE  RowGrows
  <2> DEFINE chosen == IF v = None /\ f = TRUE THEN LatestPublishedVersion ELSE v
             old == IF row = None THEN NewRow ELSE row
             new == IF chosen = None THEN old ELSE Desire(old, chosen)
  <2>1. old \in Rows /\ (row # None => old = row)
    BY BoundAssumption DEF NewRow, TypeOK, Rows, NoVersion, Generations
  <2>2. chosen \in NoVersion
    BY DEF LatestPublishedVersion, Last, TypeOK, NoVersion
  <2>3. new # old => old.generation < MaxGeneration
    BY <1>4 DEF SetDeliveryNodeDesired
  <2>4. row' = [new EXCEPT !.follow = IF f = None THEN @ ELSE f]
    BY <1>4 DEF SetDeliveryNodeDesired
  <2> HIDE DEF old, chosen
  <2>5. new \in Rows /\ new.applied = old.applied /\ new.generation >= old.generation
    <3>1. old.generation \in Nat
      BY <2>1, BoundAssumption DEF Rows, Generations
    <3> QED
      BY <2>1, <2>2, <2>3, <3>1, DesireGrows DEF NoVersion
  <2> HIDE DEF new
  <2>6. /\ row' \in Rows
        /\ row'.applied = new.applied /\ row'.generation = new.generation
    <3>1. CASE f = None
      BY <2>4, <2>5, <3>1 DEF Rows
    <3>2. CASE f \in BOOLEAN
      BY <2>4, <2>5, <3>2 DEF Rows
    <3> QED
      BY <3>1, <3>2
  <2> QED
    BY <1>1, <2>1, <2>5, <2>6 DEF RowGrows
<1>5. CASE DeleteDeliveryNode
  BY <1>5 DEF DeleteDeliveryNode, RowGrows
<1>0. ASSUME NEW h \in States, row' = HeartbeatDeliveryNode(row, h) PROVE RowGrows
  <2>1. row \in Rows \cup {None}
    BY DEF TypeOK
  <2>2. /\ row' \in Rows
        /\ row # None => row'.applied >= row.applied /\ row'.generation = row.generation
    BY <1>0, <2>1, HeartbeatGrows
  <2> QED
    BY <1>1, <2>2 DEF RowGrows
<1>6. ASSUME NEW h \in late, ApplyLate(h) PROVE RowGrows
  BY <1>6, <1>0 DEF ApplyLate, TypeOK
<1>7. CASE ApplyCall
  BY <1>7, <1>0 DEF ApplyCall, AcknowledgedIsSaved, TypeOK
<1> QED
  BY <1>2, <1>3, <1>4, <1>5, <1>6, <1>7 DEF Next, OperatorStep, LateStep,
     AgentStep, RunnerStep, PublishVersion, DeleteVersion, OperatorRecovers,
     LoseLate, Wake, Reply, CallFails, StartRunner, SaveAgentState, SaveFails,
     Crash, RunnerPulls, RunnerInstalls, RunnerRefused, RunnerFails, RunnerError,
     serverVars, vars

\* A request is none of the values that stand for nothing.
LEMMA SendIsACall ==
  ASSUME NEW h \in States, Send(h)
  PROVE  call' \in Calls /\ call' # None /\ call'.beat = h
<1>1. call' \in Calls /\ call'.beat = h
  BY DEF Send, Calls
<1> QED
  BY <1>1, NoneAssumption

\* What the operators do leaves the node alone.
LEMMA OperatorKeepsInv ==
  ASSUME IndInv, RowGrows, OperatorStep PROVE IndInv'
<1> USE DEF IndInv, StateFileIsHonest, TypeOK, AcknowledgedIsSaved,
     SavesWhatIsInstalled, CycleInv, RunnerInv, RowGrows, nodeVars, siteVars
<1>1. ASSUME NEW v \in Versions, PublishVersion(v) PROVE IndInv'
  BY <1>1, AppendKeepsInjective DEF PublishVersion, Published
<1>2. ASSUME NEW v \in Versions, DeleteVersion(v) PROVE IndInv'
  BY <1>2, RemoveKeepsInjective DEF DeleteVersion
<1>3. ASSUME NEW v \in NoVersion, NEW f \in BOOLEAN \cup {None},
             SetDeliveryNodeDesired(v, f)
      PROVE  IndInv'
  BY <1>3 DEF SetDeliveryNodeDesired
<1>4. CASE DeleteDeliveryNode
  BY <1>4 DEF DeleteDeliveryNode
<1>5. CASE OperatorRecovers
  BY <1>5 DEF OperatorRecovers, serverVars, NoVersion
<1> QED
  BY <1>1, <1>2, <1>3, <1>4, <1>5 DEF OperatorStep

\* Nor do requests that nobody waits for disturb it.
LEMMA LateKeepsInv ==
  ASSUME IndInv, RowGrows, LateStep PROVE IndInv'
BY DEF LateStep, ApplyLate, LoseLate, IndInv, StateFileIsHonest, TypeOK,
   AcknowledgedIsSaved, SavesWhatIsInstalled, CycleInv, RunnerInv, RowGrows,
   serverVars, nodeVars, siteVars

\* The cycle of the agent.
LEMMA AgentKeepsInv ==
  ASSUME IndInv, RowGrows, AgentStep PROVE IndInv'
<1> USE NoneAssumption, SendIsACall, BoundAssumption DEF IndInv, StateFileIsHonest, TypeOK,
     AcknowledgedIsSaved, SavesWhatIsInstalled, CycleInv, RunnerInv, RowGrows,
     serverVars, siteVars, Fault, Abandon, Points, Slots
<1>1. CASE Wake
  BY <1>1 DEF Wake
<1>2. CASE ApplyCall
  <2>1. call' \in Calls /\ call'.beat = call.beat
    BY <1>2 DEF ApplyCall, Calls
  <2>2. call' # None
    BY <2>1
  <2> QED
    BY <1>2, <2>1, <2>2 DEF ApplyCall
<1>3. CASE Reply
  BY <1>3 DEF Reply, NeedsDeploy, Orders, Rows, NoVersion
<1>4. CASE CallFails
  BY <1>4 DEF CallFails
<1>5. CASE StartRunner
  BY <1>5 DEF StartRunner, Runners, Orders
<1>7. CASE SaveAgentState
  BY <1>7 DEF SaveAgentState, Orders, States, NoVersion
<1>8. CASE SaveFails
  <2>1. Send(state) /\ pc' = "erring" /\ stray' = FALSE /\ faults' = faults + 1
    BY <1>8 DEF SaveFails
  <2>2. faults' \in 0 .. MaxFaults /\ faults' > 0
    BY <1>8, <2>1 DEF SaveFails
  <2>3. call' \in Calls /\ call' # None /\ call'.beat = state
    BY <2>1
  <2>4. UNCHANGED <<published, row, late, state, runners, installed, fenced>>
        /\ order' = None /\ pc = "saving"
    BY <1>8 DEF SaveFails
  <2>5. TypeOK' /\ AcknowledgedIsSaved' /\ SavesWhatIsInstalled' /\ CycleInv'
    BY <2>1, <2>2, <2>3, <2>4
  <2>6. RunnerInv'
    BY <2>1, <2>2, <2>4
  <2> QED
    BY <2>5, <2>6
<1>9. CASE Crash
  <2>1. /\ faults' = faults + 1 /\ faults' \in Slots /\ pc' = "idle" /\ call' = None
        /\ runners' = [runners EXCEPT ![0] = None, ![faults'] = runners[0]]
        /\ order' = None /\ stray' = FALSE /\ faults' > 0
        /\ UNCHANGED <<state, installed, fenced, published>>
    BY <1>9 DEF Crash
  <2>2. runners' \in [Slots -> Runners \cup {None}] /\ runners'[0] = None
    BY <2>1
  <2>3. \A i \in Slots : i > faults' => runners'[i] = None
    BY <2>1
  <2>4. late' \subseteq States
    BY <1>9 DEF Crash, Calls
  <2> QED
    BY <2>1, <2>2, <2>3, <2>4
<1> QED
  BY <1>1, <1>2, <1>3, <1>4, <1>5, <1>7, <1>8, <1>9 DEF AgentStep

\* safe-deploy, also one that outlived its agent.
LEMMA RunnerKeepsInv ==
  ASSUME IndInv, RowGrows, NEW i \in Slots, RunnerStep(i) \/ RunnerFails(i) PROVE IndInv'
<1> USE NoneAssumption, SendIsACall, BoundAssumption DEF IndInv, StateFileIsHonest, TypeOK,
     AcknowledgedIsSaved, SavesWhatIsInstalled, CycleInv, RunnerInv, RowGrows,
     serverVars, Fault, Points, Slots, Stage
<1>1. CASE RunnerPulls(i)
  <2>1. runners[i] \in Runners /\ runners'[i] = [runners[i] EXCEPT !.stage = "pulled"]
    BY <1>1 DEF RunnerPulls
  <2>2. runners'[i] \in Runners /\ runners'[i].version = runners[i].version
    BY <2>1 DEF Runners
  <2>3. runners'[i] # None
    BY <2>2
  <2>4. late' \subseteq States
    BY <1>1, <2>1 DEF RunnerPulls, Runners, States, Generations, NoVersion
  <2> QED
    BY <1>1, <2>2, <2>3, <2>4 DEF RunnerPulls
<1>2. CASE RunnerRefused(i)
  BY <1>2 DEF RunnerRefused, RunnerError
<1>3. CASE RunnerInstalls(i)
  <2>2. runners[i] \in Runners /\ runners[i].version \in Versions
    BY <1>3 DEF RunnerInstalls, Runners
  <2>3. /\ installed' = runners[i].version /\ stray' = (pc = "saving")
        /\ runners' = [runners EXCEPT ![i] = None]
        /\ pc' = IF i = 0 THEN "saving" ELSE pc
        /\ UNCHANGED <<published, row, late, call, order, state, fenced, faults>>
    BY <1>3 DEF RunnerInstalls
  <2>4. CASE i = 0
    BY <2>2, <2>3, <2>4 DEF NoVersion
  <2>5. CASE i # 0
    <3>1. faults > 0
      BY <1>3, <2>5 DEF RunnerInstalls
    <3>2. /\ runners' \in [Slots -> Runners \cup {None}]
          /\ runners'[0] = runners[0] /\ runners'[i] = None
          /\ \A j \in Slots : runners'[j] \in {runners[j], None}
      BY <2>3, <2>5
    <3>3. RunnerInv'
      BY <2>3, <2>5, <3>1, <3>2
    <3>4. TypeOK'
      BY <2>2, <2>3, <2>5, <3>2 DEF NoVersion
    <3>5. AcknowledgedIsSaved' /\ SavesWhatIsInstalled' /\ CycleInv'
      BY <2>3, <2>5, <3>1
    <3> QED
      BY <3>3, <3>4, <3>5
  <2> QED
    BY <2>4, <2>5
<1>4. CASE RunnerFails(i)
  <2>1. /\ runners[i] \in Runners /\ runners[i].version \in Versions
        /\ faults' = faults + 1 /\ faults' \in 0 .. MaxFaults /\ faults' > 0
    BY <1>4 DEF RunnerFails, Runners
  <2>2. /\ installed' \in {installed, runners[i].version} /\ fenced' \in BOOLEAN
        /\ stray' \in BOOLEAN
        /\ pc = "saving" => UNCHANGED <<installed, stray>> \/ stray'
    BY <1>4 DEF RunnerFails
  <2>3. /\ runners' = [runners EXCEPT ![i] = None]
        /\ UNCHANGED <<published, row, late, state>>
    BY <1>4 DEF RunnerFails, RunnerError
  <2>6. /\ installed' \in NoVersion
        /\ runners' \in [Slots -> Runners \cup {None}]
        /\ \A j \in Slots : j > faults' => runners'[j] = None
    BY <2>1, <2>2, <2>3 DEF NoVersion
  <2>4. CASE i = 0
    <3>1. pc' = "erring" /\ Send(state) /\ order' = None /\ pc = "running"
      BY <1>4, <2>4 DEF RunnerFails, RunnerError
    <3>2. call' \in Calls /\ call' # None /\ call'.beat = state
      BY <3>1
    <3>3. runners'[0] = None
      BY <2>3, <2>4
    <3>4. TypeOK'
      BY <2>1, <2>2, <2>3, <2>6, <3>1, <3>2
    <3>5. RunnerInv' /\ AcknowledgedIsSaved' /\ SavesWhatIsInstalled' /\ CycleInv'
      BY <2>1, <2>3, <2>6, <3>1, <3>2, <3>3
    <3> QED
      BY <3>4, <3>5
  <2>5. CASE i # 0
    <3>1. UNCHANGED <<pc, call, order>>
      BY <1>4, <2>5 DEF RunnerFails, RunnerError
    <3>2. runners'[0] = runners[0]
      BY <2>3, <2>5
    <3>4. TypeOK'
      BY <2>1, <2>2, <2>3, <2>6, <3>1
    <3>5. SavesWhatIsInstalled'
      BY <2>1, <2>2, <3>1
    <3>6. RunnerInv' /\ AcknowledgedIsSaved' /\ CycleInv'
      BY <2>1, <2>3, <2>6, <3>1, <3>2
    <3> QED
      BY <3>4, <3>5, <3>6
  <2> QED
    BY <2>4, <2>5
<1> QED
  BY <1>1, <1>2, <1>3, <1>4 DEF RunnerStep

\* A new node has no row, no state and no order.
LEMMA InitIndInv == Init => IndInv
BY NoneAssumption, BoundAssumption, EmptySeq DEF Init, IndInv, StateFileIsHonest,
   TypeOK, AcknowledgedIsSaved, SavesWhatIsInstalled, CycleInv, RunnerInv,
   IsInjective, States, NoVersion, Generations, Points, Slots

\* No step of the controller, the agent or safe-deploy breaks the invariant.
LEMMA Invariance == Spec => []IndInv
<1>1. IndInv /\ [Next]_vars => IndInv'
  <2> SUFFICES ASSUME IndInv, [Next]_vars PROVE IndInv'
    OBVIOUS
  <2>1. RowGrows
    BY RowStep DEF IndInv, StateFileIsHonest
  <2>2. CASE UNCHANGED vars
    BY <2>2 DEF vars, IndInv, StateFileIsHonest, TypeOK, AcknowledgedIsSaved,
       SavesWhatIsInstalled, CycleInv, RunnerInv
  <2> QED
    BY <2>1, <2>2, OperatorKeepsInv, LateKeepsInv, AgentKeepsInv, RunnerKeepsInv
       DEF Next
<1> QED
  BY InitIndInv, <1>1, PTL DEF Spec

\* Whatever fails and whoever dies, the agent reports what its state file holds,
\* and what it is about to save is what is installed, unless a run that outlived
\* its agent, or an operator, got in between.
THEOREM AgentIsHonest == Spec => []StateFileIsHonest
BY Invariance, PTL DEF IndInv

\* Neither generation of a row that stays is ever taken back.
THEOREM GenerationsNeverGoBack == Spec => GenerationsGrow
<1> DEFINE Step == row # None /\ row' # None =>
       row'.applied >= row.applied /\ row'.generation >= row.generation
<1>1. IndInv /\ [Next]_vars => [Step]_vars
  BY RowStep DEF IndInv, StateFileIsHonest, RowGrows
<1> QED
  BY <1>1, Invariance, PTL DEF Spec, GenerationsGrow


-----------------------------------------------------------------------------
(* Configuration files.                                                    *)

\* A set of numbers that is not empty has a least one.
LEMMA LeastNumber ==
  ASSUME NEW S \in SUBSET Nat, S # {}
  PROVE  \E x \in S : \A y \in S : x <= y
<1>1. PICK x \in S : \A y \in S : ~(<<y, x>> \in OpToRel(<, Nat))
  BY NatLessThanWellFounded, WFMin
<1>2. \A y \in S : ~(y < x)
  BY <1>1 DEF OpToRel
<1> QED
  BY <1>2

-----------------------------------------------------------------------------
(* Paths.                                                                  *)

\* What comes after a prefix, put under it, is the whole path.
LEMMA UnderAfter ==
  ASSUME NEW p \in Paths, NEW q \in Paths, IsPrefix(p, q)
  PROVE  After(p, q) \in Paths /\ Under(p, After(p, q)) = q
BY DEF Paths, After, Under, IsPrefix

\* What is put under a prefix comes after it.
LEMMA AfterUnder ==
  ASSUME NEW p \in Paths, NEW r \in Paths
  PROVE  /\ Under(p, r) \in Paths /\ IsPrefix(p, Under(p, r))
         /\ After(p, Under(p, r)) = r
BY DEF Paths, After, Under, IsPrefix

\* The root under a path is the path.
LEMMA UnderEmpty ==
  ASSUME NEW p \in Paths
  PROVE  Under(p, <<>>) = p /\ <<>> \in Paths
BY DEF Paths, Under

\* A prefix agrees with the path as far as it goes.
LEMMA PrefixIsElements ==
  ASSUME NEW p \in Paths, NEW q \in Paths
  PROVE  IsPrefix(p, q) <=> Len(p) <= Len(q) /\ \A i \in 1 .. Len(p) : p[i] = q[i]
BY DEF Paths, IsPrefix

\* Prefixes are ordered, and those of one path are ordered among themselves.
LEMMA PrefixOrder ==
  ASSUME NEW p \in Paths, NEW q \in Paths, NEW r \in Paths
  PROVE  /\ IsPrefix(p, p) /\ IsPrefix(<<>>, p)
         /\ IsPrefix(p, q) /\ IsPrefix(q, r) => IsPrefix(p, r)
         /\ IsPrefix(p, q) /\ IsPrefix(q, p) => p = q
         /\ IsPrefix(p, r) /\ IsPrefix(q, r) => IsPrefix(p, q) \/ IsPrefix(q, p)
<1>0. <<>> \in Paths
  BY DEF Paths
<1>1. IsPrefix(p, p) /\ IsPrefix(<<>>, p)
  <2>1. Len(<<>>) = 0 /\ Len(p) \in Nat /\ 1 .. 0 = {}
    BY DEF Paths
  <2> QED
    BY <1>0, <2>1, PrefixIsElements
<1>2. IsPrefix(p, q) /\ IsPrefix(q, r) => IsPrefix(p, r)
  BY PrefixIsElements DEF Paths
<1>3. IsPrefix(p, q) /\ IsPrefix(q, p) => p = q
  BY PrefixIsElements, SeqEqual DEF Paths
<1>4. IsPrefix(p, r) /\ IsPrefix(q, r) => IsPrefix(p, q) \/ IsPrefix(q, p)
  BY PrefixIsElements DEF Paths
<1> QED
  BY <1>1, <1>2, <1>3, <1>4

\* A common beginning can be taken away.
LEMMA PrefixUnder ==
  ASSUME NEW p \in Paths, NEW q \in Paths, NEW r \in Paths
  PROVE  IsPrefix(Under(p, q), Under(p, r)) <=> IsPrefix(q, r)
<1>1. \A s \in Paths : /\ Under(p, s) \in Paths /\ Len(Under(p, s)) = Len(p) + Len(s)
                       /\ \A i \in 1 .. Len(p) : Under(p, s)[i] = p[i]
                       /\ \A i \in 1 .. Len(s) : Under(p, s)[Len(p) + i] = s[i]
  BY DEF Paths, Under
<1>2. Len(p) \in Nat /\ Len(q) \in Nat /\ Len(r) \in Nat
  BY DEF Paths
<1>3. ASSUME IsPrefix(q, r) PROVE IsPrefix(Under(p, q), Under(p, r))
  <2>1. ASSUME NEW i \in 1 .. Len(Under(p, q)) PROVE Under(p, q)[i] = Under(p, r)[i]
    <3>1. CASE i <= Len(p)
      BY <1>1, <1>2, <3>1
    <3>2. CASE i > Len(p)
      <4>1. PICK j \in 1 .. Len(q) : i = Len(p) + j
        <5>1. i - Len(p) \in 1 .. Len(q) /\ i = Len(p) + (i - Len(p))
          BY <1>1, <1>2, <3>2, SMTT(30)
        <5> QED
          BY <5>1
      <4>2. q[j] = r[j] /\ j \in 1 .. Len(r)
        BY <4>1, <1>2, <1>3, PrefixIsElements
      <4> QED
        BY <4>1, <4>2, <1>1
    <3> QED
      BY <3>1, <3>2, <1>1, <1>2
  <2>2. Len(q) <= Len(r)
    BY <1>3, PrefixIsElements
  <2>3. Len(Under(p, q)) <= Len(Under(p, r)) /\ Under(p, q) \in Paths /\ Under(p, r) \in Paths
    BY <2>2, <1>1, <1>2
  <2> QED
    BY <2>1, <2>3, PrefixIsElements
<1>4. ASSUME IsPrefix(Under(p, q), Under(p, r)) PROVE IsPrefix(q, r)
  <2>1. Len(q) <= Len(r) /\ \A i \in 1 .. Len(p) + Len(q) : Under(p, q)[i] = Under(p, r)[i]
    BY <1>1, <1>2, <1>4, PrefixIsElements, SMTT(30)
  <2>2. ASSUME NEW i \in 1 .. Len(q) PROVE q[i] = r[i]
    <3>1. Len(p) + i \in 1 .. Len(p) + Len(q) /\ i \in 1 .. Len(r)
      BY <1>2, <2>1
    <3> QED
      BY <3>1, <2>1, <1>1
  <2> QED
    BY <2>1, <2>2, PrefixIsElements
<1> QED
  BY <1>3, <1>4

\* The ways to a path are its strict prefixes.
LEMMA AboveIsPrefix ==
  ASSUME NEW q \in Paths
  PROVE  Above(q) = {p \in Paths : IsStrictPrefix(p, q)}
BY DEF Paths, Above, IsStrictPrefix, IsPrefix

-----------------------------------------------------------------------------
(* Trees.                                                                  *)

Node == Scalars \cup {"map", "named"}

\* A tree has every way to its nodes, and maps on it.
LEMMA TreeWays ==
  ASSUME NEW t, IsTree(t), NEW q \in DOMAIN t, NEW p \in Paths, IsPrefix(p, q)
  PROVE  q \in Paths /\ p \in DOMAIN t /\ (p # q => IsMap(t[p]))
BY AboveIsPrefix DEF IsTree, IsStrictPrefix

\* And that is what makes it one.
LEMMA WaysMakeTree ==
  ASSUME NEW t, DOMAIN t \subseteq Paths, <<>> \in DOMAIN t,
         \A q \in DOMAIN t : t[q] \in Node,
         \A q \in DOMAIN t : \A p \in Paths :
             IsStrictPrefix(p, q) => p \in DOMAIN t /\ IsMap(t[p])
  PROVE  IsTree(t)
BY AboveIsPrefix DEF IsTree, Node

\* Nothing is as empty as an error.
LEMMA NotFailed ==
  ASSUME NEW t, NEW p \in DOMAIN t
  PROVE  t # Failed
BY DEF Failed

\* A copy differs from a tree in the kinds of its maps only.
LEMMA CopyIsTree ==
  ASSUME NEW t, IsTree(t)
  PROVE  /\ IsTree(DeepCopyMap(t)) /\ DOMAIN DeepCopyMap(t) = DOMAIN t
         /\ \A p \in DOMAIN t : /\ IsMap(DeepCopyMap(t)[p]) <=> IsMap(t[p])
                                /\ ~IsMap(t[p]) => DeepCopyMap(t)[p] = t[p]
                                /\ DeepCopyMap(t)[p] # "named"
BY DEF IsTree, DeepCopyMap, IsMap

\* json.Unmarshal changes its scalars only.
LEMMA JSONIsTree ==
  ASSUME NEW t, IsTree(t)
  PROVE  /\ IsTree(AsJSON(t)) /\ DOMAIN AsJSON(t) = DOMAIN t
         /\ \A p \in DOMAIN t : AsJSON(t)[p] = IF IsMap(t[p]) THEN t[p] ELSE Float64[t[p]]
         /\ \A p \in DOMAIN t : IsMap(AsJSON(t)[p]) <=> IsMap(t[p])
<1>1. DOMAIN t \subseteq Paths /\ <<>> \in DOMAIN t /\ \A p \in DOMAIN t : t[p] \in Node
  BY DEF IsTree, Node
<1>2. /\ DOMAIN AsJSON(t) = DOMAIN t
      /\ \A p \in DOMAIN t : AsJSON(t)[p] = IF IsMap(t[p]) THEN t[p] ELSE Float64[t[p]]
  BY DEF AsJSON
<1>3. ASSUME NEW p \in DOMAIN t
      PROVE  AsJSON(t)[p] \in Node /\ (IsMap(AsJSON(t)[p]) <=> IsMap(t[p]))
  <2>1. CASE IsMap(t[p])
    BY <2>1, <1>1, <1>2
  <2>2. CASE ~IsMap(t[p])
    <3>1. t[p] \in Scalars
      BY <2>2, <1>1 DEF Node, IsMap
    <3>2. Float64[t[p]] \in Scalars
      BY <3>1, ScalarAssumption
    <3> QED
      BY <2>2, <3>2, <1>2, ScalarAssumption DEF Node
  <2> QED
    BY <2>1, <2>2
<1>4. IsTree(AsJSON(t))
  <2>1. \A q \in DOMAIN t : \A p \in Paths :
           IsStrictPrefix(p, q) => p \in DOMAIN t /\ IsMap(t[p])
    BY TreeWays DEF IsStrictPrefix
  <2> QED
    BY <2>1, <1>1, <1>2, <1>3, WaysMakeTree
<1> QED
  BY <1>2, <1>3, <1>4

\* What is read of a structured file is a tree.
LEMMA LoadedIsTree ==
  ASSUME NEW c, IsTree(c)
  PROVE  /\ IsTree(Loaded(c)) /\ DOMAIN Loaded(c) = DOMAIN c
         /\ \A p \in DOMAIN c : IsMap(Loaded(c)[p]) <=> IsMap(c[p])
         /\ Leaves(Loaded(c)) = Leaves(c)
BY JSONIsTree DEF Loaded, Leaves

\* What a graft has: the value under the path, and otherwise what was there.
LEMMA GraftNodes ==
  ASSUME NEW t, IsTree(t), NEW p \in Paths, NEW v, IsTree(v)
  PROVE  /\ DOMAIN Graft(t, p, v) \subseteq Paths
         /\ \A q \in Paths : q \in DOMAIN Graft(t, p, v) <=>
               IF IsPrefix(p, q) THEN After(p, q) \in DOMAIN v ELSE q \in DOMAIN t
         /\ \A q \in DOMAIN Graft(t, p, v) : Graft(t, p, v)[q] =
               IF IsPrefix(p, q) THEN v[After(p, q)] ELSE t[q]
         /\ \A r \in DOMAIN v : Under(p, r) \in DOMAIN Graft(t, p, v)
                               /\ Graft(t, p, v)[Under(p, r)] = v[r]
         /\ Graft(t, p, v) # Failed
<1> DEFINE g == Graft(t, p, v)
           D == (DOMAIN t \ Below(t, p)) \cup {Under(p, r) : r \in DOMAIN v}
<1>0. DOMAIN t \subseteq Paths /\ DOMAIN v \subseteq Paths /\ <<>> \in DOMAIN v
  BY DEF IsTree
<1>1. DOMAIN g = D /\ \A q \in D : g[q] = IF IsPrefix(p, q) THEN v[After(p, q)] ELSE t[q]
  BY DEF Graft
<1>2. \A r \in DOMAIN v : /\ Under(p, r) \in Paths /\ IsPrefix(p, Under(p, r))
                          /\ After(p, Under(p, r)) = r
  BY <1>0, AfterUnder
<1>3. D \subseteq Paths
  BY <1>0, <1>2
<1>4. ASSUME NEW q \in Paths, IsPrefix(p, q) PROVE q \in D <=> After(p, q) \in DOMAIN v
  <2>1. After(p, q) \in Paths /\ Under(p, After(p, q)) = q
    BY <1>4, UnderAfter
  <2>2. ASSUME q \in D PROVE After(p, q) \in DOMAIN v
    <3>1. CASE q \in DOMAIN t \ Below(t, p)
      <4>1. q = p
        BY <3>1, <1>4 DEF Below, IsStrictPrefix
      <4>2. After(p, p) = <<>>
        BY <1>0, UnderEmpty, AfterUnder
      <4> QED
        BY <4>1, <4>2, <1>0
    <3> QED
      BY <2>2, <3>1, <1>2
  <2> QED
    BY <2>1, <2>2
<1>5. ASSUME NEW q \in Paths, ~IsPrefix(p, q) PROVE q \in D <=> q \in DOMAIN t
  BY <1>2, <1>5 DEF Below, IsStrictPrefix
<1>6. \A r \in DOMAIN v : Under(p, r) \in DOMAIN g /\ g[Under(p, r)] = v[r]
  BY <1>1, <1>2
<1>7. g # Failed
  BY <1>0, <1>6, NotFailed
<1> QED
  BY <1>1, <1>3, <1>4, <1>5, <1>6, <1>7

\* A graft under maps is a tree.
LEMMA GraftIsTree ==
  ASSUME NEW t, IsTree(t), NEW p \in Paths, p # <<>>, NEW v, IsTree(v),
         \A w \in Paths : IsStrictPrefix(w, p) => w \in DOMAIN t /\ IsMap(t[w])
  PROVE  IsTree(Graft(t, p, v))
<1> DEFINE g == Graft(t, p, v)
<1>0. /\ DOMAIN t \subseteq Paths /\ DOMAIN v \subseteq Paths
      /\ <<>> \in DOMAIN v /\ <<>> \in DOMAIN t
      /\ \A q \in DOMAIN t : t[q] \in Node
      /\ \A q \in DOMAIN v : v[q] \in Node
  BY DEF IsTree, Node
<1>1. /\ DOMAIN g \subseteq Paths
      /\ \A q \in Paths : q \in DOMAIN g <=>
               IF IsPrefix(p, q) THEN After(p, q) \in DOMAIN v ELSE q \in DOMAIN t
      /\ \A q \in DOMAIN g : g[q] = IF IsPrefix(p, q) THEN v[After(p, q)] ELSE t[q]
  BY GraftNodes
<1> HIDE DEF g
<1>2. <<>> \in DOMAIN g
  BY <1>0, <1>1, PrefixOrder
<1>3. \A q \in DOMAIN g : g[q] \in Node
  BY <1>0, <1>1
<1>4. ASSUME NEW q \in DOMAIN g, NEW w \in Paths, IsStrictPrefix(w, q)
      PROVE  w \in DOMAIN g /\ IsMap(g[w])
  <2>0. IsPrefix(w, q) /\ w # q /\ q \in Paths
    BY <1>1, <1>4 DEF IsStrictPrefix
  <2>1. CASE ~IsPrefix(p, q)
    <3>1. q \in DOMAIN t /\ ~IsPrefix(p, w)
      BY <1>1, <2>0, <2>1, PrefixOrder
    <3>2. w \in DOMAIN t /\ IsMap(t[w])
      BY <3>1, <2>0, TreeWays
    <3> QED
      BY <3>1, <3>2, <1>1
  <2>2. CASE IsPrefix(p, q) /\ IsPrefix(p, w)
    <3>1. /\ After(p, q) \in DOMAIN v /\ After(p, w) \in Paths
          /\ Under(p, After(p, w)) = w /\ Under(p, After(p, q)) = q
      BY <1>1, <2>0, <2>2, UnderAfter
    <3>2. IsPrefix(After(p, w), After(p, q)) /\ After(p, w) # After(p, q)
      BY <3>1, <2>0, <1>0, PrefixUnder
    <3>3. After(p, w) \in DOMAIN v /\ IsMap(v[After(p, w)])
      BY <3>1, <3>2, TreeWays
    <3> QED
      BY <3>3, <2>2, <1>1
  <2>3. CASE IsPrefix(p, q) /\ ~IsPrefix(p, w)
    <3>1. IsPrefix(w, p) /\ w # p
      BY <2>0, <2>3, PrefixOrder
    <3>2. w \in DOMAIN t /\ IsMap(t[w])
      BY <3>1 DEF IsStrictPrefix
    <3> QED
      BY <3>2, <2>3, <1>1
  <2> QED
    BY <2>1, <2>2, <2>3
<1>5. IsTree(g)
  BY <1>1, <1>2, <1>3, <1>4, WaysMakeTree
<1> QED
  BY <1>5 DEF g

\* What a tree has under one of its nodes.
LEMMA SubtreeIsTree ==
  ASSUME NEW t, IsTree(t), NEW p \in DOMAIN t
  PROVE  /\ IsTree(Subtree(t, p))
         /\ \A r \in Paths : r \in DOMAIN Subtree(t, p) <=> Under(p, r) \in DOMAIN t
         /\ \A r \in DOMAIN Subtree(t, p) : Subtree(t, p)[r] = t[Under(p, r)]
<1> DEFINE u == Subtree(t, p)
           D == {After(p, r) : r \in Below(t, p) \cup {p}}
<1>0. /\ DOMAIN t \subseteq Paths /\ p \in Paths
      /\ \A q \in DOMAIN t : t[q] \in Node
  BY DEF IsTree, Node
<1>1. DOMAIN u = D /\ \A r \in D : u[r] = t[Under(p, r)]
  BY DEF Subtree
<1>2. \A r \in Below(t, p) \cup {p} : /\ r \in DOMAIN t /\ IsPrefix(p, r)
                                      /\ After(p, r) \in Paths /\ Under(p, After(p, r)) = r
  BY <1>0, UnderAfter, PrefixOrder DEF Below, IsStrictPrefix
<1>3. D \subseteq Paths /\ \A r \in D : Under(p, r) \in DOMAIN t
  BY <1>2
<1>4. ASSUME NEW r \in Paths, Under(p, r) \in DOMAIN t PROVE r \in D
  <2>1. IsPrefix(p, Under(p, r)) /\ After(p, Under(p, r)) = r
    BY <1>0, AfterUnder
  <2>2. Under(p, r) \in Below(t, p) \cup {p}
    BY <2>1, <1>4 DEF Below, IsStrictPrefix
  <2> QED
    BY <2>1, <2>2
<1> HIDE DEF u, D
<1>5. <<>> \in D
  BY <1>0, <1>4, UnderEmpty
<1>6. ASSUME NEW q \in D, NEW w \in Paths, IsStrictPrefix(w, q)
      PROVE  w \in D /\ IsMap(t[Under(p, w)])
  <2>1. IsPrefix(Under(p, w), Under(p, q)) /\ Under(p, w) \in Paths
    BY <1>0, <1>3, <1>6, PrefixUnder, AfterUnder DEF IsStrictPrefix
  <2>2. Under(p, w) # Under(p, q)
    BY <1>0, <1>3, <1>6, AfterUnder DEF IsStrictPrefix
  <2>3. Under(p, w) \in DOMAIN t /\ IsMap(t[Under(p, w)])
    BY <1>3, <2>1, <2>2, TreeWays
  <2> QED
    BY <2>3, <1>4
<1>7. IsTree(u)
  BY <1>0, <1>1, <1>3, <1>5, <1>6, WaysMakeTree
<1> QED
  BY <1>1, <1>3, <1>4, <1>7 DEF u

\* A merge keeps what the source does not replace.
LEMMA MergeIsTree ==
  ASSUME NEW dst, IsTree(dst), NEW src, IsTree(src),
         DeepMergeInPlace(dst, src) # Failed
  PROVE  /\ \A p \in DOMAIN dst \cap DOMAIN src : ~Mismatch(dst, src, p)
         /\ \A p \in Paths : p \in DOMAIN DeepMergeInPlace(dst, src) <=>
              \/ p \in DOMAIN src
              \/ /\ p \in DOMAIN dst
                 /\ ~\E q \in DOMAIN dst \cap DOMAIN src : ~IsMap(src[q]) /\ IsStrictPrefix(q, p)
         /\ \A p \in DOMAIN DeepMergeInPlace(dst, src) : DeepMergeInPlace(dst, src)[p] =
              IF p \notin DOMAIN src THEN dst[p]
              ELSE IF p \in DOMAIN dst /\ IsMap(src[p]) THEN "map" ELSE src[p]
         /\ IsTree(DeepMergeInPlace(dst, src))
<1> DEFINE m == DeepMergeInPlace(dst, src)
           both == DOMAIN dst \cap DOMAIN src
           gone == UNION {Below(dst, p) : p \in {q \in both : ~IsMap(src[q])}}
           D == (DOMAIN dst \ gone) \cup DOMAIN src
<1>0. /\ DOMAIN dst \subseteq Paths /\ DOMAIN src \subseteq Paths /\ <<>> \in DOMAIN src
      /\ \A q \in DOMAIN dst : dst[q] \in Node
      /\ \A q \in DOMAIN src : src[q] \in Node
  BY DEF IsTree, Node
<1>1. /\ ~\E p \in both : Mismatch(dst, src, p)
      /\ m = [p \in D |-> IF p \notin DOMAIN src THEN dst[p]
                          ELSE IF p \in both /\ IsMap(src[p]) THEN "map" ELSE src[p]]
  BY DEF DeepMergeInPlace
<1>2. /\ DOMAIN m = D
      /\ \A p \in D : m[p] = IF p \notin DOMAIN src THEN dst[p]
                             ELSE IF p \in DOMAIN dst /\ IsMap(src[p]) THEN "map" ELSE src[p]
  BY <1>1
<1>3. \A p \in DOMAIN dst : p \in gone <=>
         \E q \in both : ~IsMap(src[q]) /\ IsStrictPrefix(q, p)
  BY DEF Below
<1> HIDE DEF m
<1>4. D \subseteq Paths /\ <<>> \in D /\ \A p \in D : m[p] \in Node
  BY <1>0, <1>2 DEF Node
<1>5. ASSUME NEW q \in D, NEW w \in Paths, IsStrictPrefix(w, q)
      PROVE  w \in D /\ IsMap(m[w])
  <2>0. q \in Paths /\ IsPrefix(w, q) /\ w # q
    BY <1>4, <1>5 DEF IsStrictPrefix
  <2>1. CASE q \in DOMAIN src
    <3>1. w \in DOMAIN src /\ IsMap(src[w])
      BY <2>0, <2>1, TreeWays
    <3> QED
      BY <3>1, <1>2 DEF IsMap
  <2>2. CASE q \in DOMAIN dst /\ q \notin gone
    <3>1. w \in DOMAIN dst /\ IsMap(dst[w])
      BY <2>0, <2>2, TreeWays
    <3>2. w \notin gone
      <4> SUFFICES ASSUME NEW x \in both, ~IsMap(src[x]), IsStrictPrefix(x, w) PROVE FALSE
        BY <3>1, <1>3
      <4>1. IsPrefix(x, q) /\ x # q
        BY <1>0, <2>0, PrefixOrder DEF IsStrictPrefix
      <4> QED
        BY <4>1, <2>2, <1>3 DEF IsStrictPrefix
    <3>3. w \in DOMAIN src => IsMap(src[w])
      BY <3>1, <2>2, <1>3, <1>5
    <3> QED
      BY <3>1, <3>2, <3>3, <1>2 DEF IsMap
  <2> QED
    BY <2>1, <2>2
<1>6. IsTree(m)
  BY <1>2, <1>4, <1>5, WaysMakeTree
<1>7. \A p \in Paths : p \in DOMAIN m <=>
         \/ p \in DOMAIN src
         \/ p \in DOMAIN dst /\ ~\E q \in both : ~IsMap(src[q]) /\ IsStrictPrefix(q, p)
  BY <1>2, <1>3
<1> QED
  BY <1>1, <1>2, <1>6, <1>7 DEF m

\* Maps merge.
LEMMA MapsDoNotClash ==
  ASSUME NEW dst, NEW src, NEW p, IsMap(dst[p]), IsMap(src[p])
  PROVE  ~Mismatch(dst, src, p)
BY DEF Mismatch, IsMap

\* Without a mismatch a merge succeeds.
LEMMA MergeSucceeds ==
  ASSUME NEW dst, NEW src, IsTree(src),
         \A p \in DOMAIN dst \cap DOMAIN src : ~Mismatch(dst, src, p)
  PROVE  DeepMergeInPlace(dst, src) # Failed
<1>1. <<>> \in DOMAIN src
  BY DEF IsTree
<1>2. <<>> \in DOMAIN DeepMergeInPlace(dst, src)
  BY <1>1 DEF DeepMergeInPlace
<1> QED
  BY <1>2, NotFailed

\* A strict prefix is shorter, and nothing but the root is above a key
\* without dots.
LEMMA OneStep ==
  ASSUME NEW p \in Paths, NEW q \in Paths, IsStrictPrefix(p, q)
  PROVE  /\ Len(p) < Len(q) /\ Len(p) \in Nat /\ Len(q) \in Nat
         /\ Len(q) = 1 => p = <<>>
BY DEF Paths, IsStrictPrefix, IsPrefix

\* A key is dotted or it is not.
LEMMA KeyLength ==
  ASSUME NEW p \in Paths, p # <<>>
  PROVE  Len(p) > 1 \/ Len(p) = 1
<1>1. Len(p) \in Nat /\ Len(p) # 0
  BY EmptySeq, LenProperties DEF Paths
<1>2. \A n \in Nat : n # 0 => n > 1 \/ n = 1
  OBVIOUS
<1> QED
  BY <1>1, <1>2

\* The maps that SetNestedMap makes on its way.
MadeWay(t, key) ==
    [p \in DOMAIN t \cup (Above(key) \ {<<>>}) |-> IF p \in DOMAIN t THEN t[p] ELSE "map"]

\* SetNestedMap can always walk to a key that no scalar is in the way of.
LEMMA WayIsTree ==
  ASSUME NEW t, IsTree(t), IsMap(t[<<>>]), NEW key \in Paths,
         \A p \in Above(key) \cap DOMAIN t : IsMap(t[p])
  PROVE  /\ IsTree(MadeWay(t, key))
         /\ \A w \in Paths : IsStrictPrefix(w, key) =>
               w \in DOMAIN MadeWay(t, key) /\ IsMap(MadeWay(t, key)[w])
<1> DEFINE m == MadeWay(t, key)
<1>0. /\ DOMAIN t \subseteq Paths /\ <<>> \in DOMAIN t
      /\ \A q \in DOMAIN t : t[q] \in Node
  BY DEF IsTree, Node
<1>1. /\ DOMAIN m = DOMAIN t \cup (Above(key) \ {<<>>})
      /\ \A p \in DOMAIN m : m[p] = IF p \in DOMAIN t THEN t[p] ELSE "map"
  BY DEF MadeWay
<1>2. Above(key) = {p \in Paths : IsStrictPrefix(p, key)}
  BY AboveIsPrefix
<1> HIDE DEF m
<1>3. ASSUME NEW w \in Paths, IsStrictPrefix(w, key) PROVE w \in DOMAIN m /\ IsMap(m[w])
  BY <1>0, <1>1, <1>2, <1>3 DEF IsMap
<1>4. ASSUME NEW q \in DOMAIN m, NEW w \in Paths, IsStrictPrefix(w, q)
      PROVE  w \in DOMAIN m /\ IsMap(m[w])
  <2>1. CASE q \in DOMAIN t
    BY <2>1, <1>4, <1>1, TreeWays DEF IsStrictPrefix
  <2>2. CASE q \in Above(key)
    <3>1. IsStrictPrefix(w, key)
      BY <2>2, <1>2, <1>4, PrefixOrder DEF IsStrictPrefix
    <3> QED
      BY <3>1, <1>3
  <2> QED
    BY <2>1, <2>2, <1>1
<1>5. DOMAIN m \subseteq Paths /\ <<>> \in DOMAIN m /\ \A q \in DOMAIN m : m[q] \in Node
  BY <1>0, <1>1, <1>2 DEF Node
<1>6. IsTree(m)
  BY <1>4, <1>5, WaysMakeTree
<1> QED
  BY <1>3, <1>6 DEF m

\* A graft under a key keeps the root.
LEMMA GraftKeepsRoot ==
  ASSUME NEW t, IsTree(t), IsMap(t[<<>>]), NEW p \in Paths, p # <<>>, NEW v, IsTree(v),
         \A w \in Paths : IsStrictPrefix(w, p) => w \in DOMAIN t /\ IsMap(t[w])
  PROVE  LET g == Graft(t, p, v) IN IsTree(g) /\ IsMap(g[<<>>])
<1>0. <<>> \in Paths /\ <<>> \in DOMAIN t
  BY UnderEmpty DEF IsTree
<1>1. ~IsPrefix(p, <<>>)
  BY <1>0, PrefixOrder
<1> QED
  BY <1>0, <1>1, GraftNodes, GraftIsTree

\* Whatever the entries are, Normalize makes trees of them.
LEMMA StructuredKeepsTree ==
  ASSUME NEW t, IsTree(t), IsMap(t[<<>>]), NEW key \in Paths, key # <<>>, NEW v, IsTree(v),
         normalizeStructured(t, key, v) # Failed
  PROVE  LET n == normalizeStructured(t, key, v) IN IsTree(n) /\ IsMap(n[<<>>])
<1> DEFINE n == normalizeStructured(t, key, v)
<1>0. <<>> \in DOMAIN t /\ <<>> \in DOMAIN v /\ Len(key) \in Nat /\ Len(key) > 0
  BY DEF IsTree, Paths
<1>1. CASE Len(key) > 1
  <2>1. n = SetNestedMap(t, key, v)
    BY <1>1 DEF normalizeStructured
  <2>2. \A p \in (Above(key) \ {<<>>}) \cap DOMAIN t : IsMap(t[p])
    BY <2>1 DEF SetNestedMap
  <2>3. n = t \/ n = Graft(MadeWay(t, key), key, v)
    BY <2>1 DEF SetNestedMap, MadeWay
  <2>4. /\ IsTree(MadeWay(t, key)) /\ IsMap(MadeWay(t, key)[<<>>])
        /\ \A w \in Paths : IsStrictPrefix(w, key) =>
               w \in DOMAIN MadeWay(t, key) /\ IsMap(MadeWay(t, key)[w])
    BY <2>2, <1>0, WayIsTree DEF MadeWay
  <2> QED
    BY <2>3, <2>4, GraftKeepsRoot
<1>2. CASE Len(key) = 1
  <2>0. \A w \in Paths : IsStrictPrefix(w, key) => w \in DOMAIN t /\ IsMap(t[w])
    BY <1>0, <1>2, OneStep
  <2>1. CASE ~IsMap(v[<<>>])
    BY <1>2, <2>0, <2>1, GraftKeepsRoot DEF normalizeStructured
  <2>2. CASE IsMap(v[<<>>])
    <3>1. n = mergeSubtree(t, key, v)
      BY <1>2, <2>2 DEF normalizeStructured
    <3>2. CASE key \notin DOMAIN t
      BY <2>0, <3>1, <3>2, GraftKeepsRoot, CopyIsTree DEF mergeSubtree
    <3>3. CASE key \in DOMAIN t
      <4> DEFINE m == DeepMergeInPlace(Subtree(t, key), v)
      <4>1. m # Failed /\ n = Graft(t, key, m)
        BY <3>1, <3>3 DEF mergeSubtree
      <4>2. IsTree(m)
        BY <4>1, <3>3, SubtreeIsTree, MergeIsTree
      <4> QED
        BY <4>1, <4>2, <2>0, GraftKeepsRoot
    <3> QED
      BY <3>2, <3>3
  <2> QED
    BY <2>1, <2>2
<1>3. Len(key) > 1 \/ Len(key) = 1
  BY KeyLength
<1> QED
  BY <1>1, <1>2, <1>3

-----------------------------------------------------------------------------
(* The invariant.                                                          *)

Taken == DOMAIN given \ todo

\* Normalize refuses an entry for what it is, whatever the others are.
Unusable(key) ==
    \/ kind \notin {"structured", "properties"}
    \/ kind = "structured" /\ Len(key) > 1 /\ Value(key)[<<>>] = "map"
    \/ kind = "properties" /\ Value(key)[<<>>] = "named"
    \/ Value(key)[<<>>] \in Lists /\ (kind = "structured" => Len(key) = 1)

\* What Normalize makes of the entries K of a structured file, in any order:
\* a tree with their nodes and the ways to them, and nothing else.
StructuredOf(t, K) ==
    /\ IsTree(t) /\ IsMap(t[<<>>])
    /\ \A k \in K : \A r \in DOMAIN given[k] :
         /\ Under(k, r) \in DOMAIN t
         /\ IsMap(t[Under(k, r)]) <=> IsMap(given[k][r])
         /\ ~IsMap(given[k][r]) => t[Under(k, r)] = given[k][r]
    /\ \A p \in DOMAIN t \ {<<>>} : \E k \in K : \E r \in DOMAIN given[k] : IsPrefix(p, Under(k, r))
    /\ \A p \in DOMAIN t : ~IsMap(t[p]) => \E k \in K : p \in Spelled(k)
    /\ \A p \in DOMAIN t : t[p] = "named" => \E k \in K : \E r \in DOMAIN given[k] :
         p = Under(k, r) /\ IsMap(given[k][r]) /\ Len(p) > 1

\* And of a properties file: their leaves.
PropertiesOf(t, K) ==
    /\ DOMAIN t = {<<>>} \cup UNION {Spelled(k) : k \in K} /\ t[<<>>] = "map"
    /\ \A k \in K : \A r \in Leaves(given[k]) : t[Under(k, r)] = given[k][r]

Made(t, K) == IF kind = "structured" THEN StructuredOf(t, K) ELSE PropertiesOf(t, K)

OutInv == /\ Settled => Made(out, Taken)
          /\ \A k \in Taken : ~Unusable(k)

\* A use has its result when it is over, and what it returned comes of a tree
\* that has every entry, the same for all of them but for the kinds of maps.
PastInv ==
    /\ \A i \in 1 .. Len(Uses) : i >= stage => result[Uses[i]] = Refused
    /\ stage > 1 => \/ result["validate"].ok
                    \/ stage = 6 /\ \A u \in Range(Uses) : result[u] = Refused
    /\ result["validate"].ok =>
         /\ kind \in {"structured", "properties"}
         /\ kind = "structured" => \A k \in DOMAIN given : ~(Len(k) > 1 /\ given[k][<<>>] = "map")
         /\ \A k \in DOMAIN given :
              ~(given[k][<<>>] \in Lists /\ (kind = "structured" => Len(k) = 1))
    /\ Settled => \A u \in Range(Uses) : Ended(u) =>
         \/ result[u] = Refused /\ (~result["validate"].ok \/ \E k \in DOMAIN given : Unusable(k))
         \/ /\ u # "validate" => \A k \in DOMAIN given : ~Unusable(k)
            /\ \E t : Made(t, DOMAIN given) /\ result[u] \in Outcomes(u, t)

RenderInv == RenderTypeOK /\ written \in Overrides /\ OutInv /\ PastInv

-----------------------------------------------------------------------------
(* Entries.                                                                *)

\* An entry is a tree, also as json.Unmarshal makes it.
LEMMA EntryIsTree ==
  ASSUME written \in Overrides, NEW k \in DOMAIN given
  PROVE  /\ k \in Paths /\ k # <<>> /\ IsTree(given[k]) /\ IsTree(Value(k))
         /\ DOMAIN Value(k) = DOMAIN given[k] /\ <<>> \in DOMAIN given[k]
         /\ \A r \in DOMAIN given[k] : /\ IsMap(Value(k)[r]) <=> IsMap(given[k][r])
                                       /\ ~IsMap(given[k][r]) => Value(k)[r] = given[k][r]
         /\ Leaves(Value(k)) = Leaves(given[k])
<1>1. k \in Paths /\ k # <<>> /\ IsTree(given[k])
  <2>1. k \in DOMAIN written /\ given[k] \in {written[k], AsJSON(written[k])}
    BY DEF given
  <2>2. k \in Paths /\ k # <<>> /\ IsTree(written[k])
    BY <2>1, OverridesAssumption
  <2> QED
    BY <2>1, <2>2, JSONIsTree
<1>2. /\ IsTree(Value(k)) /\ DOMAIN Value(k) = DOMAIN given[k]
      /\ \A r \in DOMAIN given[k] : /\ IsMap(Value(k)[r]) <=> IsMap(given[k][r])
                                    /\ ~IsMap(given[k][r]) => Value(k)[r] = given[k][r]
  BY <1>1, CopyIsTree DEF Value
<1>3. <<>> \in DOMAIN given[k]
  BY <1>1 DEF IsTree
<1> QED
  BY <1>1, <1>2, <1>3 DEF Leaves

\* Where a node of an entry is in the whole tree.
LEMMA NodePath ==
  ASSUME written \in Overrides, NEW k \in DOMAIN given, NEW r \in DOMAIN given[k]
  PROVE  /\ r \in Paths /\ Under(k, r) \in Paths /\ IsPrefix(k, Under(k, r))
         /\ After(k, Under(k, r)) = r /\ Under(k, r) # <<>>
         /\ Under(k, <<>>) = k
         /\ ~IsMap(given[k][r]) => Under(k, r) \in Spelled(k)
<1>1. k \in Paths /\ k # <<>> /\ r \in Paths
  BY EntryIsTree DEF IsTree
<1>2. /\ Under(k, r) \in Paths /\ IsPrefix(k, Under(k, r)) /\ After(k, Under(k, r)) = r
      /\ Under(k, <<>>) = k /\ <<>> \in Paths
  BY <1>1, AfterUnder, UnderEmpty
<1>3. Under(k, r) # <<>>
  BY <1>1, <1>2, PrefixOrder
<1> QED
  BY <1>1, <1>2, <1>3 DEF Spelled, Leaves

\* A new entry meets those that were taken only on maps, and not at all when
\* it is dotted or a scalar.
LEMMA Meets ==
  ASSUME written \in Overrides, Settled, NEW K \in SUBSET DOMAIN given,
         NEW key \in DOMAIN given, key \notin K, NEW t, StructuredOf(t, K)
  PROVE  /\ \A r \in DOMAIN given[key] : ~IsMap(given[key][r]) => Under(key, r) \notin DOMAIN t
         /\ \A p \in DOMAIN t : ~IsMap(t[p]) =>
              \A r \in DOMAIN given[key] : ~IsPrefix(p, Under(key, r))
         /\ Len(key) > 1 => /\ key \notin DOMAIN t
                            /\ \A p \in DOMAIN t : IsStrictPrefix(p, key) => t[p] # "named"
<1>0. /\ key \in Paths /\ key # <<>> /\ <<>> \in DOMAIN given[key] /\ Under(key, <<>>) = key
      /\ DOMAIN t \subseteq Paths
  BY EntryIsTree, NodePath DEF StructuredOf, IsTree
<1>1. ASSUME NEW r \in DOMAIN given[key], ~IsMap(given[key][r]), Under(key, r) \in DOMAIN t
      PROVE  FALSE
  <2>1. PICK l \in K : \E s \in DOMAIN given[l] : IsPrefix(Under(key, r), Under(l, s))
    BY <1>1, NodePath DEF StructuredOf
  <2>2. Under(key, r) \in Spelled(key) /\ l # key
    BY <1>1, NodePath
  <2> QED
    BY <2>1, <2>2 DEF Settled, Clear
<1>2. ASSUME NEW p \in DOMAIN t, ~IsMap(t[p]),
            NEW r \in DOMAIN given[key], IsPrefix(p, Under(key, r))
      PROVE  FALSE
  <2>1. PICK l \in K : p \in Spelled(l)
    BY <1>2 DEF StructuredOf
  <2> QED
    BY <2>1, <1>2 DEF Settled, Clear
<1>3. ASSUME Len(key) > 1, key \in DOMAIN t PROVE FALSE
  <2>1. IsMap(given[key][<<>>])
    BY <1>0, <1>1, <1>3
  <2>a. PICK l \in K : \E s \in DOMAIN given[l] : IsPrefix(key, Under(l, s))
    BY <1>0, <1>3 DEF StructuredOf
  <2>2. PICK s \in DOMAIN given[l] : IsPrefix(key, Under(l, s))
    BY <2>a
  <2>3. /\ l \in DOMAIN given /\ l # key /\ l \in Paths /\ s \in Paths /\ IsTree(given[l])
        /\ Under(l, s) \in Paths /\ IsPrefix(l, Under(l, s))
    BY EntryIsTree, NodePath
  <2>4. CASE IsPrefix(key, l)
    <3>1. Len(l) > 1
      BY <1>0, <1>3, <2>3, <2>4, OneStep DEF IsStrictPrefix
    <3>2. Len(Under(key, <<>>)) > 1 /\ IsPrefix(Under(key, <<>>), l)
      BY <1>0, <1>3, <2>4
    <3> QED
      BY <1>0, <2>1, <2>3, <3>1, <3>2 DEF Settled, Entangled
  <2>5. CASE IsPrefix(l, key)
    <3> DEFINE q == After(l, key)
    <3>1. q \in Paths /\ Under(l, q) = key
      BY <1>0, <2>3, <2>5, UnderAfter
    <3>2. IsPrefix(q, s)
      BY <2>2, <2>3, <3>1, PrefixUnder
    <3>3. q \in DOMAIN given[l]
      BY <2>3, <3>1, <3>2, TreeWays
    <3> HIDE DEF q
    <3>4. CASE IsMap(given[l][q])
      <4>1. Len(Under(l, q)) > 1 /\ IsPrefix(Under(l, q), key)
        BY <1>0, <1>3, <3>1, PrefixOrder
      <4> QED
        BY <4>1, <1>3, <2>3, <3>3, <3>4 DEF Settled, Entangled
    <3>5. CASE ~IsMap(given[l][q])
      <4>1. Under(l, q) \in Spelled(l)
        BY <2>3, <3>3, <3>5, NodePath
      <4>2. IsPrefix(Under(l, q), Under(key, <<>>))
        BY <1>0, <3>1, PrefixOrder
      <4> QED
        BY <4>1, <4>2, <1>0, <2>3 DEF Settled, Clear
    <3> QED
      BY <3>4, <3>5
  <2> QED
    BY <2>2, <2>3, <2>4, <2>5, <1>0, PrefixOrder
<1>4. ASSUME Len(key) > 1, NEW p \in DOMAIN t, IsStrictPrefix(p, key), t[p] = "named" PROVE FALSE
  <2>1. PICK l \in K : \E r \in DOMAIN given[l] :
               p = Under(l, r) /\ IsMap(given[l][r]) /\ Len(p) > 1
    BY <1>4 DEF StructuredOf
  <2> QED
    BY <2>1, <1>4 DEF Settled, Entangled, IsStrictPrefix
<1> QED
  BY <1>1, <1>2, <1>3, <1>4

\* What it takes to have one more entry.
LEMMA OneMore ==
  ASSUME written \in Overrides, NEW K \in SUBSET DOMAIN given, NEW key \in DOMAIN given,
         NEW t, StructuredOf(t, K), NEW g, IsTree(g),
         \A p \in DOMAIN t : /\ p \in DOMAIN g /\ (IsMap(g[p]) <=> IsMap(t[p]))
                             /\ ~IsMap(t[p]) => g[p] = t[p]
                             /\ g[p] = "named" => \/ t[p] = "named"
                                  \/ \E r \in DOMAIN given[key] :
                                       p = Under(key, r) /\ IsMap(given[key][r]) /\ Len(p) > 1,
         \A r \in DOMAIN given[key] :
             /\ Under(key, r) \in DOMAIN g
             /\ IsMap(g[Under(key, r)]) <=> IsMap(given[key][r])
             /\ ~IsMap(given[key][r]) => g[Under(key, r)] = given[key][r]
             /\ g[Under(key, r)] = "named" => Len(Under(key, r)) > 1 \/ Under(key, r) \in DOMAIN t,
         \A p \in DOMAIN g : \/ p \in DOMAIN t
                             \/ \E r \in DOMAIN given[key] : p = Under(key, r)
                             \/ IsStrictPrefix(p, key) /\ g[p] = "map"
  PROVE  StructuredOf(g, K \cup {key})
<1>0. /\ key \in Paths /\ key # <<>> /\ <<>> \in DOMAIN given[key] /\ Under(key, <<>>) = key
      /\ DOMAIN t \subseteq Paths /\ <<>> \in DOMAIN t /\ IsMap(t[<<>>]) /\ DOMAIN g \subseteq Paths
  BY EntryIsTree, NodePath DEF StructuredOf, IsTree
<1>1. IsMap(g[<<>>])
  BY <1>0
<1>2. ASSUME NEW k \in K \cup {key}, NEW r \in DOMAIN given[k]
      PROVE  /\ Under(k, r) \in DOMAIN g
             /\ IsMap(g[Under(k, r)]) <=> IsMap(given[k][r])
             /\ ~IsMap(given[k][r]) => g[Under(k, r)] = given[k][r]
  <2>1. CASE k = key
    BY <2>1
  <2>2. CASE k \in K
    BY <2>2 DEF StructuredOf
  <2> QED
    BY <2>1, <2>2
<1>3. ASSUME NEW p \in DOMAIN g \ {<<>>}
      PROVE  \E k \in K \cup {key} : \E r \in DOMAIN given[k] : IsPrefix(p, Under(k, r))
  <2>1. CASE p \in DOMAIN t
    BY <2>1 DEF StructuredOf
  <2>2. CASE \E r \in DOMAIN given[key] : p = Under(key, r)
    BY <2>2, <1>0, PrefixOrder
  <2>3. CASE IsStrictPrefix(p, key)
    BY <2>3, <1>0 DEF IsStrictPrefix
  <2> QED
    BY <2>1, <2>2, <2>3
<1>4. ASSUME NEW p \in DOMAIN g, ~IsMap(g[p])
      PROVE  \E k \in K \cup {key} : p \in Spelled(k)
  <2>1. CASE p \in DOMAIN t
    BY <2>1, <1>4 DEF StructuredOf
  <2>2. CASE \E r \in DOMAIN given[key] : p = Under(key, r)
    BY <2>2, <1>4, NodePath
  <2>3. CASE g[p] = "map"
    BY <2>3, <1>4 DEF IsMap
  <2> QED
    BY <2>1, <2>2, <2>3
<1>5. ASSUME NEW p \in DOMAIN g, g[p] = "named"
      PROVE  \E k \in K \cup {key} : \E r \in DOMAIN given[k] :
                 p = Under(k, r) /\ IsMap(given[k][r]) /\ Len(p) > 1
  <2>1. CASE p \in DOMAIN t /\ t[p] = "named"
    BY <2>1 DEF StructuredOf
  <2>2. CASE p \notin DOMAIN t /\ \E r \in DOMAIN given[key] : p = Under(key, r)
    BY <2>2, <1>5 DEF IsMap
  <2> QED
    BY <2>1, <2>2, <1>5
<1> QED
  BY <1>1, <1>2, <1>3, <1>4, <1>5 DEF StructuredOf

\* A node under a key is longer than the key.
LEMMA LongerUnder ==
  ASSUME NEW p \in Paths, NEW r \in Paths
  PROVE  /\ Len(p) \in Nat /\ Len(Under(p, r)) \in Nat /\ Len(Under(p, r)) >= Len(p)
         /\ r # <<>> => Len(Under(p, r)) > Len(p)
BY DEF Paths, Under

\* An entry that is grafted where nothing is.
LEMMA GraftFresh ==
  ASSUME written \in Overrides, NEW K \in SUBSET DOMAIN given, NEW key \in DOMAIN given,
         NEW t, StructuredOf(t, K), key \notin DOMAIN t,
         NEW way, IsTree(way),
         \A p \in DOMAIN t : p \in DOMAIN way /\ way[p] = t[p],
         \A p \in DOMAIN way : p \in DOMAIN t \/ (IsStrictPrefix(p, key) /\ way[p] = "map"),
         \A w \in Paths : IsStrictPrefix(w, key) => w \in DOMAIN way /\ IsMap(way[w]),
         NEW v, IsTree(v), DOMAIN v = DOMAIN given[key],
         \A r \in DOMAIN v : /\ IsMap(v[r]) <=> IsMap(given[key][r])
                             /\ ~IsMap(given[key][r]) => v[r] = given[key][r]
                             /\ v[r] = "named" => Len(Under(key, r)) > 1
  PROVE  StructuredOf(Graft(way, key, v), K \cup {key})
<1> DEFINE g == Graft(way, key, v)
<1>0. /\ key \in Paths /\ key # <<>> /\ DOMAIN way \subseteq Paths /\ DOMAIN v \subseteq Paths
      /\ IsTree(t) /\ DOMAIN t \subseteq Paths
  BY EntryIsTree DEF IsTree, StructuredOf
<1>1. key \notin DOMAIN way
  BY DEF IsStrictPrefix
<1>2. \A p \in DOMAIN way : ~IsPrefix(key, p)
  BY <1>0, <1>1, TreeWays
<1>3. /\ DOMAIN g \subseteq Paths
      /\ \A q \in Paths : q \in DOMAIN g <=>
               IF IsPrefix(key, q) THEN After(key, q) \in DOMAIN v ELSE q \in DOMAIN way
      /\ \A q \in DOMAIN g : g[q] = IF IsPrefix(key, q) THEN v[After(key, q)] ELSE way[q]
      /\ \A r \in DOMAIN v : Under(key, r) \in DOMAIN g /\ g[Under(key, r)] = v[r]
  BY <1>0, GraftNodes
<1>4. IsTree(g)
  BY <1>0, GraftIsTree
<1> HIDE DEF g
<1>5. \A p \in DOMAIN way : p \in DOMAIN g /\ g[p] = way[p]
  BY <1>0, <1>2, <1>3
<1>6. \A p \in DOMAIN g : p \in DOMAIN way \/ \E r \in DOMAIN given[key] : p = Under(key, r)
  BY <1>0, <1>3, UnderAfter
<1>7. StructuredOf(g, K \cup {key})
  <2>1. \A p \in DOMAIN t : p \in DOMAIN g /\ g[p] = t[p]
    BY <1>5
  <2>2. \A p \in DOMAIN g : \/ p \in DOMAIN t
                            \/ \E r \in DOMAIN given[key] : p = Under(key, r)
                            \/ IsStrictPrefix(p, key) /\ g[p] = "map"
    BY <1>5, <1>6
  <2> QED
    BY <1>3, <1>4, <2>1, <2>2, OneMore, SMTT(30)
<1> QED
  BY <1>7 DEF g

\* A block that is merged into what dotted keys made.
LEMMA MergeBlock ==
  ASSUME written \in Overrides, Settled, NEW K \in SUBSET DOMAIN given,
         NEW key \in DOMAIN given, key \notin K, NEW t, StructuredOf(t, K), key \in DOMAIN t,
         Len(key) = 1
  PROVE  LET m == DeepMergeInPlace(Subtree(t, key), Value(key))
         IN m # Failed /\ StructuredOf(Graft(t, key, m), K \cup {key})
<1> DEFINE u == Subtree(t, key)
           v == Value(key)
           m == DeepMergeInPlace(u, v)
           g == Graft(t, key, m)
<1>0. /\ key \in Paths /\ key # <<>> /\ IsTree(t) /\ DOMAIN t \subseteq Paths
      /\ <<>> \in DOMAIN t /\ IsMap(t[<<>>])
      /\ IsTree(v) /\ DOMAIN v = DOMAIN given[key] /\ DOMAIN v \subseteq Paths
      /\ \A r \in DOMAIN v : /\ IsMap(v[r]) <=> IsMap(given[key][r])
                             /\ ~IsMap(given[key][r]) => v[r] = given[key][r]
  BY EntryIsTree DEF StructuredOf, IsTree
<1>1. /\ IsTree(u)
      /\ \A r \in Paths : r \in DOMAIN u <=> Under(key, r) \in DOMAIN t
      /\ \A r \in DOMAIN u : u[r] = t[Under(key, r)]
  BY <1>0, SubtreeIsTree
<1>2. \A r \in DOMAIN u : r \in Paths
  BY <1>1 DEF IsTree
<1> HIDE DEF u, v
<1>3. ASSUME NEW r \in DOMAIN u, r \in DOMAIN v
      PROVE  IsMap(u[r]) /\ IsMap(v[r])
  <2>1. Under(key, r) \in DOMAIN t /\ u[r] = t[Under(key, r)] /\ Under(key, r) \in Paths
    BY <1>0, <1>1, <1>2
  <2>2. IsMap(given[key][r])
    BY <2>1, <1>0, <1>3, Meets
  <2>3. IsMap(t[Under(key, r)])
    BY <2>1, <1>0, <1>3, Meets, PrefixOrder
  <2> QED
    BY <2>1, <2>2, <2>3, <1>0, <1>3
<1>4. m # Failed
  <2>1. \A p \in DOMAIN u \cap DOMAIN v : ~Mismatch(u, v, p)
    BY <1>3, MapsDoNotClash
  <2> QED
    BY <2>1, <1>0, MergeSucceeds
<1>5. /\ IsTree(m)
      /\ \A p \in Paths : p \in DOMAIN m <=> p \in DOMAIN v \/ p \in DOMAIN u
      /\ \A p \in DOMAIN m : m[p] = IF p \notin DOMAIN v THEN u[p]
                                    ELSE IF p \in DOMAIN u THEN "map" ELSE v[p]
  <2>1. /\ IsTree(m)
        /\ \A p \in Paths : p \in DOMAIN m <=>
              \/ p \in DOMAIN v
              \/ /\ p \in DOMAIN u
                 /\ ~\E q \in DOMAIN u \cap DOMAIN v : ~IsMap(v[q]) /\ IsStrictPrefix(q, p)
        /\ \A p \in DOMAIN m : m[p] =
              IF p \notin DOMAIN v THEN u[p]
              ELSE IF p \in DOMAIN u /\ IsMap(v[p]) THEN "map" ELSE v[p]
    BY <1>0, <1>1, <1>4, MergeIsTree
  <2>2. \A p \in DOMAIN u \cap DOMAIN v : IsMap(v[p])
    BY <1>3
  <2> HIDE DEF m
  <2>3. \A p \in Paths : p \in DOMAIN m <=> p \in DOMAIN v \/ p \in DOMAIN u
    BY <2>1, <2>2
  <2>4. ASSUME NEW p \in DOMAIN m
        PROVE  m[p] = IF p \notin DOMAIN v THEN u[p]
                      ELSE IF p \in DOMAIN u THEN "map" ELSE v[p]
    BY <2>1, <2>2
  <2> QED
    BY <2>1, <2>3, <2>4
<1> HIDE DEF m
<1>6. \A w \in Paths : IsStrictPrefix(w, key) => w \in DOMAIN t /\ IsMap(t[w])
  BY <1>0, OneStep
<1>7. /\ DOMAIN g \subseteq Paths
      /\ \A q \in Paths : q \in DOMAIN g <=>
               IF IsPrefix(key, q) THEN After(key, q) \in DOMAIN m ELSE q \in DOMAIN t
      /\ \A q \in DOMAIN g : g[q] = IF IsPrefix(key, q) THEN m[After(key, q)] ELSE t[q]
      /\ \A r \in DOMAIN m : Under(key, r) \in DOMAIN g /\ g[Under(key, r)] = m[r]
  BY <1>0, <1>5, GraftNodes
<1>8. IsTree(g)
  BY <1>0, <1>5, <1>6, GraftIsTree
<1> HIDE DEF g
<1>9. ASSUME NEW p \in DOMAIN t
      PROVE  /\ p \in DOMAIN g /\ (IsMap(g[p]) <=> IsMap(t[p]))
             /\ ~IsMap(t[p]) => g[p] = t[p]
             /\ g[p] = "named" => t[p] = "named"
  <2>1. CASE ~IsPrefix(key, p)
    BY <2>1, <1>0, <1>7
  <2>2. CASE IsPrefix(key, p)
    <3>1. After(key, p) \in DOMAIN u /\ u[After(key, p)] = t[p] /\ Under(key, After(key, p)) = p
      BY <2>2, <1>0, <1>1, UnderAfter
    <3>2. After(key, p) \in DOMAIN m
      BY <3>1, <1>2, <1>5
    <3>3. /\ p \in DOMAIN g
          /\ g[p] = IF After(key, p) \notin DOMAIN v THEN t[p] ELSE "map"
      BY <3>1, <3>2, <1>5, <1>7
    <3>4. After(key, p) \in DOMAIN v => IsMap(t[p])
      BY <3>1, <1>3
    <3> QED
      BY <3>3, <3>4 DEF IsMap
  <2> QED
    BY <2>1, <2>2
<1>10. ASSUME NEW r \in DOMAIN given[key]
       PROVE  /\ Under(key, r) \in DOMAIN g
              /\ IsMap(g[Under(key, r)]) <=> IsMap(given[key][r])
              /\ ~IsMap(given[key][r]) => g[Under(key, r)] = given[key][r]
              /\ g[Under(key, r)] = "named" => Len(Under(key, r)) > 1 \/ Under(key, r) \in DOMAIN t
  <2>1. r \in DOMAIN v /\ r \in Paths /\ r \in DOMAIN m
    BY <1>0, <1>5
  <2>2. Under(key, r) \in DOMAIN g /\ g[Under(key, r)] = IF r \in DOMAIN u THEN "map" ELSE v[r]
    BY <2>1, <1>5, <1>7
  <2>3. r \in DOMAIN u => IsMap(given[key][r])
    BY <2>1, <1>0, <1>3
  <2>4. Len(Under(key, r)) > 1 \/ Under(key, r) \in DOMAIN t
    <3>1. CASE r = <<>>
      BY <3>1, <1>0, UnderEmpty
    <3>2. CASE r # <<>>
      BY <3>2, <2>1, <1>0, LongerUnder
    <3> QED
      BY <3>1, <3>2
  <2> QED
    BY <2>1, <2>2, <2>3, <2>4, <1>0 DEF IsMap
<1>11. ASSUME NEW p \in DOMAIN g
       PROVE  p \in DOMAIN t \/ \E r \in DOMAIN given[key] : p = Under(key, r)
  <2>1. CASE ~IsPrefix(key, p)
    BY <2>1, <1>7
  <2>2. CASE IsPrefix(key, p)
    <3>1. /\ After(key, p) \in DOMAIN m /\ After(key, p) \in Paths
          /\ Under(key, After(key, p)) = p
      BY <2>2, <1>0, <1>7, UnderAfter
    <3> QED
      BY <3>1, <1>0, <1>1, <1>5
  <2> QED
    BY <2>1, <2>2
<1>12. StructuredOf(g, K \cup {key})
  BY <1>8, <1>9, <1>10, <1>11, OneMore
<1> QED
  BY <1>4, <1>12 DEF g, m, u, v

\* Normalize takes any entry but a dotted key with a plain map.
LEMMA StructuredTakes ==
  ASSUME written \in Overrides, Settled, NEW K \in SUBSET DOMAIN given,
         NEW key \in DOMAIN given, key \notin K, NEW t, StructuredOf(t, K)
  PROVE  LET n == normalizeStructured(t, key, Value(key))
         IN /\ n = Failed => (Len(key) > 1 /\ Value(key)[<<>>] = "map")
                             \/ (Len(key) = 1 /\ Value(key)[<<>>] \in Lists)
            /\ n # Failed => StructuredOf(n, K \cup {key})
<1> DEFINE v == Value(key)
           n == normalizeStructured(t, key, v)
<1>0. /\ key \in Paths /\ key # <<>> /\ IsTree(t) /\ DOMAIN t \subseteq Paths
      /\ <<>> \in DOMAIN t /\ IsMap(t[<<>>]) /\ <<>> \in DOMAIN given[key]
      /\ IsTree(v) /\ DOMAIN v = DOMAIN given[key] /\ DOMAIN v \subseteq Paths
      /\ \A r \in DOMAIN v : /\ IsMap(v[r]) <=> IsMap(given[key][r])
                             /\ ~IsMap(given[key][r]) => v[r] = given[key][r]
      /\ Under(key, <<>>) = key
  BY EntryIsTree, NodePath DEF StructuredOf, IsTree
<1> HIDE DEF v
<1>1. CASE Len(key) > 1 /\ v[<<>>] = "map"
  BY <1>1 DEF normalizeStructured, v
<1>2. CASE Len(key) > 1 /\ v[<<>>] # "map"
  <2>1. n = SetNestedMap(t, key, v)
    BY <1>2 DEF normalizeStructured
  <2>2. \A p \in Above(key) \cap DOMAIN t : IsMap(t[p]) /\ t[p] # "named"
    <3>1. ASSUME NEW p \in Above(key) \cap DOMAIN t PROVE IsMap(t[p]) /\ t[p] # "named"
      <4>1. IsStrictPrefix(p, key) /\ IsPrefix(p, Under(key, <<>>))
        BY <1>0, AboveIsPrefix DEF IsStrictPrefix
      <4> QED
        BY <4>1, <1>0, <1>2, Meets
    <3> QED
      BY <3>1
  <2>3. key \notin DOMAIN t
    BY <1>2, Meets
  <2>4. n = Graft(MadeWay(t, key), key, v)
    BY <2>1, <2>2, <2>3 DEF SetNestedMap, MadeWay
  <2>5. /\ IsTree(MadeWay(t, key))
        /\ \A w \in Paths : IsStrictPrefix(w, key) =>
               w \in DOMAIN MadeWay(t, key) /\ IsMap(MadeWay(t, key)[w])
    BY <1>0, <2>2, WayIsTree
  <2>6. /\ \A p \in DOMAIN t : p \in DOMAIN MadeWay(t, key) /\ MadeWay(t, key)[p] = t[p]
        /\ \A p \in DOMAIN MadeWay(t, key) : p \in DOMAIN t \/
             (IsStrictPrefix(p, key) /\ MadeWay(t, key)[p] = "map")
    BY <1>0, AboveIsPrefix DEF MadeWay
  <2>7. \A r \in DOMAIN v : Len(Under(key, r)) > 1
    BY <1>0, <1>2, LongerUnder
  <2>8. StructuredOf(n, K \cup {key})
    BY <1>0, <2>3, <2>4, <2>5, <2>6, <2>7, GraftFresh
  <2>9. n # Failed
    BY <1>0, <2>4, <2>5, GraftNodes
  <2> QED
    BY <2>8, <2>9 DEF v
<1>3. CASE Len(key) = 1
  <2>0. \A w \in Paths : IsStrictPrefix(w, key) => w \in DOMAIN t /\ IsMap(t[w])
    BY <1>0, <1>3, OneStep
  <2>4. CASE v[<<>>] \in Lists
    <3>1. ~IsMap(v[<<>>]) /\ ~(Len(key) > 1)
      BY <1>3, <2>4, ScalarAssumption
    <3>2. n = Failed
      BY <2>4, <3>1 DEF normalizeStructured
    <3> QED
      BY <1>3, <2>4, <3>2 DEF v
  <2>1. CASE ~IsMap(v[<<>>]) /\ v[<<>>] \notin Lists
    <3>a. n = Graft(t, key, v)
      BY <1>3, <2>1 DEF normalizeStructured
    <3>b. ~IsMap(given[key][<<>>])
      BY <1>0, <2>1
    <3>c. Under(key, <<>>) \notin DOMAIN t
      BY <1>0, <3>b, Meets
    <3>1. n = Graft(t, key, v) /\ key \notin DOMAIN t
      BY <1>0, <3>a, <3>c
    <3>2. \A r \in DOMAIN v : v[r] = "named" => Len(Under(key, r)) > 1
      BY <1>0, <1>3, <2>1, LongerUnder DEF IsMap
    <3>3. StructuredOf(n, K \cup {key}) /\ n # Failed
      BY <1>0, <2>0, <3>1, <3>2, GraftFresh, GraftNodes
    <3> QED
      BY <3>3 DEF v
  <2>2. CASE IsMap(v[<<>>]) /\ key \notin DOMAIN t
    <3>1. n = Graft(t, key, DeepCopyMap(v))
      BY <1>3, <2>2 DEF normalizeStructured, mergeSubtree
    <3>2. /\ IsTree(DeepCopyMap(v)) /\ DOMAIN DeepCopyMap(v) = DOMAIN given[key]
          /\ \A r \in DOMAIN DeepCopyMap(v) :
               /\ IsMap(DeepCopyMap(v)[r]) <=> IsMap(given[key][r])
               /\ ~IsMap(given[key][r]) => DeepCopyMap(v)[r] = given[key][r]
               /\ DeepCopyMap(v)[r] # "named"
      BY <1>0, CopyIsTree
    <3> DEFINE c == DeepCopyMap(v)
    <3> HIDE DEF c
    <3>a. n # Failed
      BY <1>0, <3>1, <3>2, GraftNodes
    <3>b. StructuredOf(Graft(t, key, c), K \cup {key})
      <4>1. /\ IsTree(c) /\ DOMAIN c = DOMAIN given[key]
            /\ \A r \in DOMAIN c :
               /\ IsMap(c[r]) <=> IsMap(given[key][r])
               /\ ~IsMap(given[key][r]) => c[r] = given[key][r]
               /\ c[r] # "named"
        BY <3>2 DEF c
      <4> QED
        BY <4>1, <1>0, <2>0, <2>2, GraftFresh
    <3>3. StructuredOf(n, K \cup {key}) /\ n # Failed
      BY <3>a, <3>b, <3>1 DEF c
    <3> QED
      BY <3>3 DEF v
  <2>3. CASE IsMap(v[<<>>]) /\ key \in DOMAIN t
    <3> DEFINE m == DeepMergeInPlace(Subtree(t, key), v)
    <3>1. m # Failed /\ StructuredOf(Graft(t, key, m), K \cup {key})
      BY <1>3, <2>3, MergeBlock DEF v
    <3>2. IsMap(t[key])
      <4>1. IsPrefix(key, Under(key, <<>>))
        BY <1>0, PrefixOrder
      <4> QED
        BY <4>1, <1>0, <2>3, Meets
    <3>3. n = Graft(t, key, m)
      BY <1>3, <2>3, <3>1, <3>2 DEF normalizeStructured, mergeSubtree
    <3>4. n # Failed
      BY <3>1, <3>3, NotFailed DEF StructuredOf, IsTree
    <3> QED
      BY <3>1, <3>3, <3>4 DEF v
  <2> QED
    BY <2>1, <2>2, <2>3, <2>4
<1> QED
  BY <1>0, <1>1, <1>2, <1>3, KeyLength

\* Normalize takes any entry of a properties file but a named map.
LEMMA PropertiesTakes ==
  ASSUME written \in Overrides, Settled, NEW K \in SUBSET DOMAIN given,
         NEW key \in DOMAIN given, key \notin K, NEW t, PropertiesOf(t, K)
  PROVE  LET n == normalizeProperties(t, key, Value(key))
         IN /\ n = Failed => Value(key)[<<>>] = "named" \/ Value(key)[<<>>] \in Lists
            /\ n # Failed => PropertiesOf(n, K \cup {key})
<1> DEFINE v == Value(key)
           n == normalizeProperties(t, key, v)
           new == {Under(key, p) : p \in Leaves(v)}
<1>0. /\ key \in Paths /\ key # <<>> /\ DOMAIN v = DOMAIN given[key]
      /\ Leaves(v) = Leaves(given[key])
      /\ \A r \in Leaves(given[key]) : r \in DOMAIN given[key] /\ v[r] = given[key][r]
      /\ \A r \in Leaves(given[key]) : Under(key, r) # <<>> /\ After(key, Under(key, r)) = r
      /\ <<>> \in DOMAIN t
  BY EntryIsTree, NodePath DEF Leaves, PropertiesOf
<1> SUFFICES ASSUME v[<<>>] # "named", v[<<>>] \notin Lists PROVE n # Failed /\ PropertiesOf(n, K \cup {key})
  BY DEF normalizeProperties
<1>1. /\ DOMAIN n = DOMAIN t \cup new
      /\ \A q \in DOMAIN n : n[q] = IF q \in new THEN v[After(key, q)] ELSE t[q]
  BY DEF normalizeProperties
<1>2. new = Spelled(key)
  BY <1>0 DEF Spelled
<1> HIDE DEF v, n, new
<1>3. n # Failed
  BY <1>0, <1>1, NotFailed
<1>4. DOMAIN n = {<<>>} \cup UNION {Spelled(k) : k \in K \cup {key}}
  BY <1>1, <1>2 DEF PropertiesOf
<1>5. <<>> \notin new /\ n[<<>>] = "map"
  BY <1>0, <1>1, <1>2 DEF Spelled, PropertiesOf
<1>6. ASSUME NEW k \in K \cup {key}, NEW r \in Leaves(given[k])
      PROVE  n[Under(k, r)] = given[k][r]
  <2>1. CASE k = key
    BY <2>1, <1>0, <1>1, <1>2, <1>6 DEF Spelled
  <2>2. CASE k \in K
    <3>1. /\ k \in DOMAIN given /\ k # key /\ Under(k, r) \in Spelled(k)
          /\ Under(k, r) \in Paths
      BY <2>2, <1>6, NodePath DEF Spelled, Leaves
    <3>2. Under(k, r) \notin new
      <4> SUFFICES ASSUME NEW p \in Leaves(given[key]), Under(k, r) = Under(key, p) PROVE FALSE
        BY <1>2 DEF Spelled
      <4>1. IsPrefix(Under(k, r), Under(key, p)) /\ p \in DOMAIN given[key]
        BY <3>1, PrefixOrder DEF Leaves
      <4> QED
        BY <4>1, <3>1 DEF Settled, Clear
    <3>3. Under(k, r) \in DOMAIN t /\ t[Under(k, r)] = given[k][r]
      BY <2>2, <1>6, <3>1 DEF PropertiesOf
    <3> QED
      BY <3>2, <3>3, <1>1
  <2> QED
    BY <2>1, <2>2
<1> QED
  BY <1>3, <1>4, <1>5, <1>6 DEF PropertiesOf

\* An entry is refused for itself, or what was made has it.
LEMMA EntryTaken ==
  ASSUME written \in Overrides, Settled, NEW key \in DOMAIN given, key \notin Taken, Made(out, Taken)
  PROVE  /\ NormalizeKey(key) = Failed => Unusable(key)
         /\ NormalizeKey(key) # Failed => Made(NormalizeKey(key), Taken \cup {key})
<1>0. Taken \in SUBSET DOMAIN given
  BY DEF Taken
<1>1. CASE kind = "structured"
  BY <1>0, <1>1, StructuredTakes DEF NormalizeKey, Unusable, Made
<1>2. CASE kind = "properties"
  BY <1>0, <1>2, PropertiesTakes DEF NormalizeKey, Unusable, Made
<1>3. CASE kind \notin {"structured", "properties"}
  BY <1>3 DEF NormalizeKey, Unusable
<1> QED
  BY <1>1, <1>2, <1>3

\* Normalize took no entry that it refuses.
LEMMA TakenIsUsable ==
  ASSUME NEW key, NormalizeKey(key) # Failed
  PROVE  ~Unusable(key)
<1>1. CASE kind = "structured"
  <2> DEFINE v == Value(key)
  <2>1. normalizeStructured(out, key, v) # Failed
    BY <1>1 DEF NormalizeKey
  <2> HIDE DEF v
  <2>2. ~(Len(key) > 1 /\ v[<<>>] = "map")
    BY <2>1 DEF normalizeStructured
  <2>3. ~(v[<<>>] \in Lists /\ Len(key) = 1)
    <3> SUFFICES ASSUME v[<<>>] \in Lists, Len(key) = 1 PROVE FALSE
      OBVIOUS
    <3>1. ~IsMap(v[<<>>]) /\ ~(Len(key) > 1)
      BY ScalarAssumption
    <3> QED
      BY <2>1, <3>1 DEF normalizeStructured
  <2> QED
    BY <1>1, <2>2, <2>3 DEF Unusable, v
<1>2. CASE kind = "properties"
  BY <1>2 DEF NormalizeKey, Unusable, normalizeProperties
<1>3. CASE kind \notin {"structured", "properties"}
  BY <1>3 DEF NormalizeKey
<1> QED
  BY <1>1, <1>2, <1>3

\* Before the first entry.
LEMMA NothingMade == IsTree(Empty) /\ IsMap(Empty[<<>>]) /\ Made(Empty, {})
<1>1. DOMAIN Empty = {<<>>} /\ Empty[<<>>] = "map"
  BY DEF Empty
<1>2. <<>> \in Paths
  BY DEF Paths
<1>3. IsTree(Empty)
  <2>1. \A p \in Paths : ~IsStrictPrefix(p, <<>>)
    BY <1>2, PrefixOrder DEF IsStrictPrefix
  <2> QED
    BY <1>1, <1>2, <2>1, WaysMakeTree DEF Node
<1>4. StructuredOf(Empty, {})
  BY <1>1, <1>3 DEF StructuredOf, IsMap
<1>5. PropertiesOf(Empty, {})
  BY <1>1 DEF PropertiesOf
<1> QED
  BY <1>1, <1>3, <1>4, <1>5 DEF Made, IsMap

\* The uses, by their numbers.
LEMMA TheUses ==
  /\ Len(Uses) = 5 /\ Uses[1] = "validate" /\ Uses[2] = "preview" /\ Uses[3] = "bundle"
  /\ Uses[4] = "from" /\ Uses[5] = "to"
  /\ Range(Uses) = {"validate", "preview", "bundle", "from", "to"}
BY DEF Uses, Range

\* The uses that are over.
LEMMA OverUses ==
  ASSUME stage \in 1 .. 6
  PROVE  /\ Ended("validate") <=> stage > 1
         /\ Ended("preview") <=> stage > 2
         /\ Ended("bundle") <=> stage > 3
         /\ Ended("from") <=> stage > 4
         /\ Ended("to") <=> stage > 5
<1>1. Ended("validate") <=> stage > 1
  BY TheUses DEF Ended
<1>2. Ended("preview") <=> stage > 2
  BY TheUses DEF Ended
<1>3. Ended("bundle") <=> stage > 3
  BY TheUses DEF Ended
<1>4. Ended("from") <=> stage > 4
  BY TheUses DEF Ended
<1>5. Ended("to") <=> stage > 5
  BY TheUses DEF Ended
<1> QED
  BY <1>1, <1>2, <1>3, <1>4, <1>5

-----------------------------------------------------------------------------
(* The invariant holds.                                                    *)

\* What is given depends on what was written, and has its keys.
LEMMA SameGiven ==
  /\ DOMAIN given = DOMAIN written
  /\ written' = written /\ form' = form => given' = given
BY DEF given

\* The invariant holds when overrides are put.
LEMMA InitRenderInv == RenderInit => RenderInv
<1> SUFFICES ASSUME RenderInit PROVE RenderInv
  OBVIOUS
<1>1. /\ kind \in Kinds /\ json \in BOOLEAN /\ form \in {"yaml", "json"} /\ written \in Overrides
      /\ DOMAIN file = {} /\ stage = 1 /\ todo = DOMAIN written /\ out = Empty
      /\ DOMAIN result = Range(Uses) /\ \A u \in Range(Uses) : result[u] = Refused
  <2>1. json \in (IF kind = "structured" THEN BOOLEAN ELSE {FALSE})
    BY DEF RenderInit
  <2>2. json \in BOOLEAN
    BY <2>1, Zenon
  <2>3. /\ kind \in Kinds /\ form \in {"yaml", "json"} /\ written \in Overrides
        /\ DOMAIN file = {} /\ stage = 1 /\ todo = DOMAIN written /\ out = Empty
    BY DEF RenderInit
  <2>4. DOMAIN result = Range(Uses) /\ \A u \in Range(Uses) : result[u] = Refused
    BY DEF RenderInit
  <2> QED
    BY <2>2, <2>3, <2>4
<1>2. Refused.ok = FALSE
  BY DEF Refused
<1>3. DOMAIN Empty = {<<>>} /\ Empty[<<>>] = "map" /\ <<>> \in Paths
  BY DEF Empty, Paths
<1>4. RenderTypeOK
  <2>1. /\ stage \in 1 .. Len(Uses) + 1 /\ DOMAIN file \subseteq {"from", "to"}
        /\ \A v \in DOMAIN file : file[v] \in IF kind = "properties" THEN Texts ELSE Trees
        /\ \A u \in Range(Uses) : result[u].ok \in BOOLEAN
    <3>1. stage \in 1 .. Len(Uses) + 1
      BY <1>1, TheUses
    <3>2. \A u \in Range(Uses) : result[u].ok \in BOOLEAN
      BY <1>1, <1>2
    <3> QED
      BY <1>1, <3>1, <3>2
  <2>2. IF kind = "structured" THEN IsTree(out) /\ IsMap(out[<<>>])
        ELSE \A p \in DOMAIN out : p \in Paths /\ out[p] \in Scalars \cup {"map"}
    BY <1>1, <1>3, NothingMade
  <2> QED
    BY <1>1, <2>1, <2>2 DEF RenderTypeOK
<1>5. Taken = {}
  BY <1>1, SameGiven DEF Taken
<1>6. OutInv
  BY <1>1, <1>5, NothingMade DEF OutInv
<1>7. PastInv
  <2>1. \A u \in Range(Uses) : ~Ended(u) /\ ~result[u].ok
    BY <1>1, <1>2 DEF Ended
  <2> QED
    BY <1>1, <2>1, TheUses DEF PastInv
<1> QED
  BY <1>1, <1>4, <1>6, <1>7 DEF RenderInv

\* The properties of the entries depend on nothing else.
LEMMA SameEntries ==
  ASSUME kind' = kind, given' = given
  PROVE  /\ Settled' = Settled
         /\ \A t, K : Made(t, K)' <=> Made(t, K)
         /\ (stage' = 1 <=> stage = 1) /\ form' = form => \A k : Unusable(k)' <=> Unusable(k)
<1>1. Settled' = Settled
  BY DEF Settled, Clear, Entangled, Spelled
<1>2. ASSUME NEW t, NEW K PROVE Made(t, K)' <=> Made(t, K)
  BY DEF Made, StructuredOf, PropertiesOf, Spelled
<1>3. ASSUME stage' = 1 <=> stage = 1, form' = form, NEW k PROVE Unusable(k)' <=> Unusable(k)
  BY <1>3 DEF Unusable, Value
<1> QED
  BY <1>1, <1>2, <1>3

\* A preview does not look at tags.
LEMMA SameOutcomes ==
  ASSUME kind' = kind, json' = json, file' = file, NEW u, NEW t,
         u \in {"validate", "preview"} \/ (tags' = tags /\ target' = target)
  PROVE  Outcomes(u, t)' = Outcomes(u, t)
<1>1. BuildPreview(t)' = BuildPreview(t)
  BY DEF BuildPreview, MergeBytes, previewKeyChanges, ReadKey, Has, Loaded
<1>2. tags' = tags /\ target' = target => BuildBundle(t)' = BuildBundle(t)
  BY DEF BuildBundle, MergeBytes, Loaded
<1>3. renderEffectiveConfig(u, t)' = renderEffectiveConfig(u, t)
  BY DEF renderEffectiveConfig, MergeBytes, flattenConfig, Loaded
<1> QED
  BY <1>1, <1>2, <1>3 DEF Outcomes

\* A use returns something or is refused, and validation returns.
LEMMA OutcomeForm ==
  ASSUME NEW u, NEW t, NEW r \in Outcomes(u, t)
  PROVE  r.ok \in BOOLEAN /\ (u = "validate" => r.ok) /\ (~r.ok => r = Refused)
<1>1. Refused.ok = FALSE /\ \A x : Returned(x).ok = TRUE
  BY DEF Refused, Returned
<1>2. r = Refused \/ \E x : r = Returned(x)
  BY DEF Outcomes, BuildPreview, BuildBundle, renderEffectiveConfig
<1>3. u = "validate" => r = Returned({})
  BY DEF Outcomes
<1> QED
  BY <1>1, <1>2, <1>3

\* What an iteration leaves alone.
LEMMA TakeKeepsInv ==
  ASSUME RenderInv, NEW key \in todo, TakeKey(key)
  PROVE  RenderInv'
<1>0. /\ key \in DOMAIN given /\ key \notin Taken /\ written \in Overrides
      /\ NormalizeKey(key) # Failed /\ out' = NormalizeKey(key) /\ todo' = todo \ {key}
      /\ kind' = kind /\ json' = json /\ form' = form /\ written' = written /\ given' = given /\ file' = file /\ tags' = tags
      /\ target' = target /\ stage' = stage /\ result' = result
      /\ RenderTypeOK /\ OutInv /\ PastInv
  BY SameGiven DEF TakeKey, RenderInv, RenderTypeOK, Taken
<1>1. key \in Paths /\ key # <<>> /\ IsTree(Value(key)) /\ DOMAIN Value(key) \subseteq Paths
  BY <1>0, EntryIsTree DEF IsTree
<1>2. RenderTypeOK'
  <2>1. CASE kind = "structured"
    <3>1. NormalizeKey(key) = normalizeStructured(out, key, Value(key))
      BY <2>1 DEF NormalizeKey
    <3>2. IsTree(out') /\ IsMap(out'[<<>>])
      BY <1>0, <1>1, <2>1, <3>1, StructuredKeepsTree DEF RenderTypeOK
    <3> QED
      BY <1>0, <2>1, <3>2 DEF RenderTypeOK
  <2>2. CASE kind # "structured"
    <3>1. kind = "properties" /\ NormalizeKey(key) = normalizeProperties(out, key, Value(key))
      BY <1>0, <2>2 DEF NormalizeKey
    <3>2. \A r \in Leaves(Value(key)) : /\ Under(key, r) \in Paths /\ Value(key)[r] \in Scalars
                                        /\ After(key, Under(key, r)) = r
      BY <1>1, AfterUnder DEF Leaves, IsTree, IsMap
    <3> DEFINE v == Value(key)
               new == {Under(key, p) : p \in Leaves(v)}
    <3>3. \A q \in new : q \in Paths /\ v[After(key, q)] \in Scalars
      BY <3>2
    <3>4. out' = [q \in DOMAIN out \cup new |-> IF q \in new THEN v[After(key, q)] ELSE out[q]]
      BY <1>0, <3>1 DEF normalizeProperties
    <3> HIDE DEF v, new
    <3>5. \A p \in DOMAIN out' : p \in Paths /\ out'[p] \in Scalars \cup {"map"}
      BY <1>0, <2>2, <3>3, <3>4 DEF RenderTypeOK
    <3> QED
      BY <1>0, <2>2, <3>5 DEF RenderTypeOK
  <2> QED
    BY <2>1, <2>2
<1>3. Taken' = Taken \cup {key}
  BY <1>0 DEF Taken
<1>4. /\ Settled' = Settled /\ \A k : Unusable(k)' <=> Unusable(k)
      /\ \A t, K : Made(t, K)' <=> Made(t, K)
  BY <1>0, SameEntries
<1>5. OutInv'
  <2>1. ASSUME Settled PROVE Made(out', Taken \cup {key})
    BY <1>0, <2>1, EntryTaken DEF OutInv
  <2>2. ~Unusable(key)
    BY <1>0, TakenIsUsable
  <2>3. (Settled => Made(out, Taken))'
    BY <1>3, <1>4, <2>1
  <2> QED
    BY <1>0, <1>3, <1>4, <2>2, <2>3 DEF OutInv
<1>6. PastInv'
  <2>1. \A u : Ended(u)' <=> Ended(u)
    BY <1>0 DEF Ended
  <2>2. \A u, t : Outcomes(u, t)' = Outcomes(u, t)
    BY <1>0, SameOutcomes
  <2> QED
    BY <1>0, <1>4, <2>1, <2>2 DEF PastInv
<1> QED
  BY <1>0, <1>2, <1>5, <1>6 DEF RenderInv

\* A use begins with all entries to take.
LEMMA BeginTypes ==
  ASSUME RenderInv, NEW i \in 2 .. 6, Begin(i),
         kind' = kind, json' = json, form' = form, written' = written,
         DOMAIN result' = Range(Uses), \A u \in Range(Uses) : result'[u].ok \in BOOLEAN
  PROVE  RenderTypeOK' /\ written' \in Overrides /\ OutInv'
<1>0. given' = given /\ DOMAIN given = DOMAIN written
  BY SameGiven
<1>1. /\ stage' = i /\ todo' = DOMAIN written /\ out' = Empty
      /\ json' \in BOOLEAN /\ form' \in {"yaml", "json"}
  BY DEF Begin, RenderInv, RenderTypeOK
<1>2. /\ DOMAIN file' \subseteq {"from", "to"}
      /\ \A v \in DOMAIN file' : file'[v] \in IF kind = "properties" THEN Texts ELSE Trees
  BY DEF Begin, RenderInv, RenderTypeOK
<1>3. DOMAIN Empty = {<<>>} /\ Empty[<<>>] = "map" /\ <<>> \in Paths
  BY DEF Empty, Paths
<1>4. RenderTypeOK'
  <2>1. stage' \in 1 .. Len(Uses) + 1
    BY <1>1, TheUses
  <2>2. IF kind' = "structured" THEN IsTree(out') /\ IsMap(out'[<<>>])
        ELSE \A p \in DOMAIN out' : p \in Paths /\ out'[p] \in Scalars \cup {"map"}
    BY <1>1, <1>3, NothingMade
  <2> QED
    BY <1>1, <1>2, <2>1, <2>2 DEF RenderTypeOK, RenderInv
<1>5. Taken' = {}
  BY <1>0, <1>1 DEF Taken
<1>6. (Settled => Made(out, Taken))'
  BY <1>0, <1>1, <1>5, NothingMade, SameEntries
<1>7. OutInv'
  BY <1>5, <1>6 DEF OutInv
<1> QED
  BY <1>4, <1>7 DEF RenderInv

\* A use whose normalization fails ends refused, and because of an entry that
\* fails in every use.
LEMMA FailKeepsInv ==
  ASSUME RenderInv, stage <= Len(Uses), NEW key \in todo, Fail(key)
  PROVE  RenderInv'
<1> DEFINE i == IF Use = "validate" THEN Len(Uses) + 1 ELSE stage + 1
<1>0. /\ key \in DOMAIN given /\ key \notin Taken /\ written \in Overrides
      /\ NormalizeKey(key) = Failed /\ Begin(i) /\ stage \in 1 .. 5 /\ stage' = i
      /\ kind' = kind /\ json' = json /\ form' = form /\ written' = written
      /\ given' = given /\ result' = result
      /\ RenderTypeOK /\ OutInv /\ PastInv
  BY SameGiven, TheUses DEF Fail, RenderInv, RenderTypeOK, Taken, Begin
<1>1. i \in 2 .. 6 /\ (stage = 1 => i = 6) /\ (stage # 1 => i = stage + 1)
  BY <1>0, TheUses DEF Use
<1>2. RenderTypeOK' /\ written' \in Overrides /\ OutInv'
  BY <1>0, <1>1, BeginTypes DEF RenderTypeOK
<1>3. /\ Settled' = Settled
      /\ \A t, K : Made(t, K)' <=> Made(t, K)
      /\ (stage' = 1 <=> stage = 1) /\ form' = form => \A k : Unusable(k)' <=> Unusable(k)
  BY <1>0, SameEntries
<1>4. file' = file /\ (stage # 2 => tags' = tags /\ target' = target)
  BY <1>0, <1>1 DEF Begin
<1>5. CASE stage = 1
  <2>1. stage' = 6 /\ \A u \in Range(Uses) : result[u] = Refused
    BY <1>0, <1>1, <1>5, TheUses DEF PastInv
  <2>2. ~result["validate"].ok
    BY <2>1, TheUses DEF Refused
  <2>3. PastInv'
    BY <1>0, <2>1, <2>2, TheUses DEF PastInv
  <2> QED
    BY <1>2, <2>3 DEF RenderInv
<1>6. CASE stage \in 2 .. 5
  <2>0. stage' = stage + 1
    BY <1>0, <1>1, <1>6
  <2>1. \A j \in 1 .. Len(Uses) : j >= stage' => result'[Uses[j]] = Refused
    BY <1>0, <2>0, TheUses DEF PastInv
  <2>2. result'["validate"].ok /\ (stage' = 1 <=> stage = 1)
    BY <1>0, <1>6, <2>0 DEF PastInv
  <2>3. ASSUME Settled, NEW u \in Range(Uses), Ended(u)'
        PROVE  \/ result[u] = Refused /\ \E k \in DOMAIN given : Unusable(k)
               \/ /\ u # "validate" => \A k \in DOMAIN given : ~Unusable(k)
                  /\ \E t : Made(t, DOMAIN given) /\ result[u] \in Outcomes(u, t)'
    <3>1. CASE u = Uses[stage]
      <4>1. result[u] = Refused
        BY <1>0, <1>6, <3>1, TheUses DEF PastInv
      <4>2. Unusable(key)
        BY <1>0, <2>3, EntryTaken DEF OutInv
      <4> QED
        BY <4>1, <4>2, <1>0
    <3>2. CASE u # Uses[stage]
      <4>1. Ended(u)
        BY <2>0, <2>3, <3>2, <1>6 DEF Ended
      <4>2. u = "validate" \/ stage # 2
        BY <4>1, <1>0, <1>6, OverUses, TheUses
      <4>3. \A t : Outcomes(u, t)' = Outcomes(u, t)
        BY <4>2, <1>0, <1>4, SameOutcomes
      <4> QED
        BY <4>1, <4>3, <2>2, <2>3, <1>0 DEF PastInv
    <3> QED
      BY <3>1, <3>2
  <2>4. /\ result'["validate"].ok =>
           /\ kind' \in {"structured", "properties"}
           /\ kind' = "structured" =>
               \A k \in DOMAIN given' : ~(Len(k) > 1 /\ given'[k][<<>>] = "map")
           /\ \A k \in DOMAIN given' :
                ~(given'[k][<<>>] \in Lists /\ (kind' = "structured" => Len(k) = 1))
    BY <1>0 DEF PastInv
  <2>5. PastInv'
    BY <1>0, <1>3, <1>4, <2>1, <2>2, <2>3, <2>4 DEF PastInv
  <2> QED
    BY <1>2, <2>5 DEF RenderInv
<1> QED
  BY <1>0, <1>5, <1>6

\* A use that took all entries returns what comes of their tree.
LEMMA ReturnKeepsInv ==
  ASSUME RenderInv, stage <= Len(Uses), Return
  PROVE  RenderInv'
<1>0. /\ written \in Overrides /\ todo = {} /\ DOMAIN given # {}
      /\ Begin(stage + 1) /\ stage \in 1 .. 5 /\ stage' = stage + 1
      /\ kind' = kind /\ json' = json /\ form' = form /\ written' = written /\ given' = given
      /\ RenderTypeOK /\ OutInv /\ PastInv /\ DOMAIN result = Range(Uses)
  BY SameGiven, TheUses DEF Return, RenderInv, RenderTypeOK, Begin
<1>1. PICK r \in Outcomes(Use, out) : result' = [result EXCEPT ![Use] = r]
  BY DEF Return
<1>2. Use \in Range(Uses) /\ Use = Uses[stage] /\ r.ok \in BOOLEAN
  BY <1>0, OutcomeForm, TheUses DEF Use
<1>3. /\ DOMAIN result' = Range(Uses) /\ result'[Use] = r
      /\ \A u \in Range(Uses) : u # Use => result'[u] = result[u]
  BY <1>0, <1>1, <1>2
<1>4. \A u \in Range(Uses) : result'[u].ok \in BOOLEAN
  BY <1>0, <1>2, <1>3 DEF RenderTypeOK
<1>5. RenderTypeOK' /\ written' \in Overrides /\ OutInv'
  <2>1. stage + 1 \in 2 .. 6
    BY <1>0
  <2> QED
    BY <1>0, <1>3, <1>4, <2>1, BeginTypes
<1>6. /\ Settled' = Settled
      /\ \A t, K : Made(t, K)' <=> Made(t, K)
      /\ (stage' = 1 <=> stage = 1) /\ form' = form => \A k : Unusable(k)' <=> Unusable(k)
  BY <1>0, SameEntries
<1>7. Taken = DOMAIN given /\ \A k \in DOMAIN given : ~Unusable(k)
  BY <1>0 DEF Taken, OutInv
<1>8. kind \in {"structured", "properties"}
  BY <1>0, <1>7 DEF Unusable
<1>9. Settled => Made(out, DOMAIN given)
  BY <1>0, <1>7 DEF OutInv
<1>10. \A j \in 1 .. Len(Uses) : j >= stage' => result'[Uses[j]] = Refused
  <2>1. ASSUME NEW j \in 1 .. 5, j >= stage + 1 PROVE result'[Uses[j]] = Refused
    <3>1. result[Uses[j]] = Refused
      BY <1>0, <2>1, TheUses DEF PastInv
    <3>2. Uses[j] # Use /\ Uses[j] \in Range(Uses)
      BY <1>0, <1>2, <2>1, TheUses
    <3> QED
      BY <3>1, <3>2, <1>3
  <2> QED
    BY <1>0, <2>1, TheUses
<1>11. \A u : Ended(u)' <=> Ended(u) \/ u = Use
  BY <1>0, <1>2 DEF Ended
<1>12. CASE stage = 1
  <2>1. Use = "validate" /\ r.ok /\ r = Returned({})
    BY <1>0, <1>2, <1>12, OutcomeForm, TheUses DEF Begin, Outcomes
  <2>2. \A u : ~Ended(u)
    BY <1>12 DEF Ended
  <2>3. kind = "structured" => \A k \in DOMAIN given : ~(Len(k) > 1 /\ given[k][<<>>] = "map")
    <3> SUFFICES ASSUME NEW k \in DOMAIN given, given[k][<<>>] = "map" PROVE Value(k)[<<>>] = "map"
      BY <1>7 DEF Unusable
    <3> QED
      BY <1>0, EntryIsTree DEF Value, DeepCopyMap, IsMap
  <2>7. ASSUME NEW k \in DOMAIN given
        PROVE  ~(given[k][<<>>] \in Lists /\ (kind = "structured" => Len(k) = 1))
    <3> SUFFICES ASSUME given[k][<<>>] \in Lists PROVE Value(k)[<<>>] = given[k][<<>>]
      BY <1>7 DEF Unusable
    <3> QED
      BY <1>0, EntryIsTree, ScalarAssumption
  <2>4. \A t : r \in Outcomes("validate", t)'
    BY <2>1 DEF Outcomes, Returned
  <2>5. Settled' => \A u \in Range(Uses) : Ended(u)' =>
           u = "validate" /\ \E t : Made(t, DOMAIN given) /\ result'[u] \in Outcomes(u, t)'
    BY <1>3, <1>6, <1>9, <1>11, <2>1, <2>2, <2>4
  <2>6. PastInv'
    BY <1>0, <1>2, <1>3, <1>6, <1>8, <1>10, <2>1, <2>3, <2>5, <2>7 DEF PastInv
  <2> QED
    BY <1>5, <2>6 DEF RenderInv
<1>13. CASE stage \in 2 .. 5
  <2>0. Use # "validate"
    BY <1>2, <1>13, TheUses
  <2>1. /\ (stage' = 1 <=> stage = 1)
        /\ file' = file /\ (stage # 2 => tags' = tags /\ target' = target)
    BY <1>0, <1>13 DEF Begin
  <2>2. result'["validate"].ok /\ result'["validate"] = result["validate"]
    BY <1>0, <1>3, <1>13, <2>0, <2>1, TheUses DEF PastInv
  <2>3. ASSUME NEW u, Ended(u)' PROVE \A t : Outcomes(u, t)' = Outcomes(u, t)
    <3>1. u \in {"validate", "preview"} \/ stage # 2
      BY <1>0, <1>2, <1>11, <1>13, <2>3, OverUses, TheUses DEF Ended
    <3> QED
      BY <3>1, <2>1, <1>0, SameOutcomes
  <2>4. ASSUME Settled, NEW u \in Range(Uses), Ended(u)'
        PROVE  \/ result'[u] = Refused /\ \E k \in DOMAIN given : Unusable(k)
               \/ /\ u # "validate" => \A k \in DOMAIN given : ~Unusable(k)
                  /\ \E t : Made(t, DOMAIN given) /\ result'[u] \in Outcomes(u, t)'
    <3>1. CASE u = Use
      BY <1>1, <1>3, <1>7, <1>9, <2>3, <2>4, <3>1
    <3>2. CASE u # Use
      <4>1. Ended(u) /\ result'[u] = result[u]
        BY <1>3, <1>11, <2>4, <3>2
      <4>2. \A t : Outcomes(u, t)' = Outcomes(u, t)
        BY <2>3, <2>4
      <4> QED
        BY <4>1, <4>2, <2>2, <2>4, <1>0 DEF PastInv
    <3> QED
      BY <3>1, <3>2
  <2>5. /\ kind' \in {"structured", "properties"}
        /\ kind' = "structured" => \A k \in DOMAIN given' : ~(Len(k) > 1 /\ given'[k][<<>>] = "map")
        /\ \A k \in DOMAIN given' :
             ~(given'[k][<<>>] \in Lists /\ (kind' = "structured" => Len(k) = 1))
    BY <1>0, <2>2 DEF PastInv
  <2>6. PastInv'
    BY <1>0, <1>6, <1>10, <2>1, <2>2, <2>4, <2>5 DEF PastInv
  <2> QED
    BY <1>5, <2>6 DEF RenderInv
<1> QED
  BY <1>0, <1>12, <1>13

\* The invariant holds in every behaviour.
LEMMA RenderInvariance == RenderSpec => []RenderInv
<1>1. RenderInv /\ [RenderNext]_renderVars => RenderInv'
  <2> SUFFICES ASSUME RenderInv, [RenderNext]_renderVars PROVE RenderInv'
    OBVIOUS
  <2>1. CASE UNCHANGED renderVars
    <3>1. /\ kind' = kind /\ json' = json /\ form' = form /\ written' = written /\ given' = given /\ file' = file /\ tags' = tags
          /\ target' = target /\ stage' = stage /\ todo' = todo /\ out' = out /\ result' = result
      BY <2>1, SameGiven DEF renderVars
    <3>2. RenderTypeOK' /\ written' \in Overrides
      BY <3>1 DEF RenderInv, RenderTypeOK
    <3>3. /\ Settled' = Settled /\ Taken' = Taken
          /\ \A t, K : Made(t, K)' <=> Made(t, K)
          /\ \A k : Unusable(k)' <=> Unusable(k)
          /\ \A u, t : Outcomes(u, t)' = Outcomes(u, t)
          /\ \A u : Ended(u)' <=> Ended(u)
      BY <3>1, SameEntries, SameOutcomes DEF Taken, Ended
    <3>4. OutInv'
      BY <3>1, <3>3 DEF RenderInv, OutInv
    <3>5. PastInv'
      BY <3>1, <3>3 DEF RenderInv, PastInv
    <3> QED
      BY <3>2, <3>4, <3>5 DEF RenderInv
  <2>2. CASE RenderNext
    BY <2>2, TakeKeepsInv, FailKeepsInv, ReturnKeepsInv DEF RenderNext
  <2> QED
    BY <2>1, <2>2
<1> QED
  BY <1>1, InitRenderInv, PTL DEF RenderSpec

-----------------------------------------------------------------------------
(* What the overrides ask for.                                             *)

\* A tree that has every entry asks for their leaves.
LEMMA AskedLeaves ==
  ASSUME written \in Overrides, NEW t, Made(t, DOMAIN given)
  PROVE  /\ Leaves(t) = Asked /\ Asked \subseteq Paths
         /\ \A p \in Asked : /\ p \in DOMAIN t /\ t[p] = AskedFor(p) /\ AskedFor(p) \in Scalars
                             /\ \E k \in DOMAIN given : \E r \in DOMAIN given[k] :
                                  p = Under(k, r) /\ ~IsMap(given[k][r])
<1>1. ASSUME NEW k \in DOMAIN given, NEW p \in Spelled(k)
      PROVE  /\ p \in Paths /\ p # <<>> /\ After(k, p) \in Leaves(given[k])
             /\ p = Under(k, After(k, p)) /\ ~IsMap(given[k][After(k, p)])
             /\ After(k, p) \in DOMAIN given[k]
             /\ given[k][After(k, p)] \in Scalars
  <2>1. PICK r \in Leaves(given[k]) : p = Under(k, r)
    BY DEF Spelled
  <2>2. r \in DOMAIN given[k] /\ ~IsMap(given[k][r])
    BY DEF Leaves
  <2>3. After(k, p) = r /\ p \in Paths /\ p # <<>>
    BY <2>1, <2>2, NodePath
  <2>4. given[k][r] \in Scalars
    BY <2>2, EntryIsTree DEF IsTree, IsMap
  <2> QED
    BY <2>1, <2>2, <2>3, <2>4
<1>2. ASSUME NEW k \in DOMAIN given, NEW p \in Spelled(k)
      PROVE  p \in DOMAIN t /\ t[p] = given[k][After(k, p)]
  <2>1. /\ After(k, p) \in Leaves(given[k]) /\ p = Under(k, After(k, p))
        /\ After(k, p) \in DOMAIN given[k] /\ ~IsMap(given[k][After(k, p)])
    BY <1>1
  <2>2. CASE kind = "structured"
    BY <2>1, <2>2 DEF Made, StructuredOf
  <2>3. CASE kind # "structured"
    BY <2>1, <2>3 DEF Made, PropertiesOf
  <2> QED
    BY <2>2, <2>3
<1>3. ASSUME NEW p \in Leaves(t) PROVE p \in Asked
  <2>1. CASE kind = "structured"
    BY <2>1 DEF Made, StructuredOf, Leaves, Asked
  <2>2. CASE kind # "structured"
    BY <2>2 DEF Made, PropertiesOf, Leaves, Asked, IsMap
  <2> QED
    BY <2>1, <2>2
<1>4. ASSUME NEW p \in Asked
      PROVE  /\ p \in Leaves(t) /\ p \in Paths /\ p \in DOMAIN t /\ t[p] = AskedFor(p)
             /\ AskedFor(p) \in Scalars
             /\ \E k \in DOMAIN given : \E r \in DOMAIN given[k] :
                 p = Under(k, r) /\ ~IsMap(given[k][r])
  <2> DEFINE k == CHOOSE l \in DOMAIN given : p \in Spelled(l)
  <2>1. k \in DOMAIN given /\ p \in Spelled(k)
    BY DEF Asked
  <2>2. AskedFor(p) = given[k][After(k, p)]
    BY DEF AskedFor
  <2> HIDE DEF k
  <2>3. /\ p \in Paths /\ p \in DOMAIN t /\ t[p] = AskedFor(p) /\ AskedFor(p) \in Scalars
        /\ ~IsMap(AskedFor(p))
    BY <1>1, <1>2, <2>1, <2>2
  <2> QED
    BY <1>1, <2>1, <2>3 DEF Leaves
<1> QED
  BY <1>3, <1>4

\* Two of them differ only in the kinds of maps.
LEMMA MadeAlike ==
  ASSUME written \in Overrides, NEW s, NEW t,
         StructuredOf(s, DOMAIN given), StructuredOf(t, DOMAIN given)
  PROVE  DOMAIN s = DOMAIN t /\ \A p \in DOMAIN s : IsMap(s[p]) <=> IsMap(t[p])
<1>1. ASSUME NEW x, NEW y, StructuredOf(x, DOMAIN given), StructuredOf(y, DOMAIN given),
            NEW p \in DOMAIN x
      PROVE  p \in DOMAIN y /\ (~IsMap(x[p]) => ~IsMap(y[p]))
  <2>0. IsTree(x) /\ IsTree(y) /\ p \in Paths /\ <<>> \in DOMAIN y
    BY <1>1 DEF StructuredOf, IsTree
  <2>1. p \in DOMAIN y
    <3>1. CASE p = <<>>
      BY <3>1, <2>0
    <3>2. CASE p # <<>>
      <4>1. PICK k \in DOMAIN given : \E r \in DOMAIN given[k] : IsPrefix(p, Under(k, r))
        BY <1>1, <3>2 DEF StructuredOf
      <4>2. PICK r \in DOMAIN given[k] : IsPrefix(p, Under(k, r))
        BY <4>1
      <4>3. Under(k, r) \in DOMAIN y
        BY <1>1 DEF StructuredOf
      <4> QED
        BY <4>2, <4>3, <2>0, TreeWays
    <3> QED
      BY <3>1, <3>2
  <2>2. ASSUME ~IsMap(x[p]) PROVE ~IsMap(y[p])
    <3>1. PICK k \in DOMAIN given : p \in Spelled(k)
      BY <1>1, <2>2 DEF StructuredOf
    <3> QED
      BY <1>1, <3>1 DEF StructuredOf, Spelled, Leaves
  <2> QED
    BY <2>1, <2>2
<1> QED
  BY <1>1

\* A merge into a structured file.
LEMMA StructuredArrives ==
  ASSUME written \in Overrides, kind = "structured", NEW c, IsTree(c),
         NEW t, Made(t, DOMAIN given), DeepMergeInPlace(c, t) # Failed
  PROVE  LET m == DeepMergeInPlace(c, t)
         IN /\ Leaves(m) = Expected(c)
            /\ \A k \in Expected(c) : /\ k \in DOMAIN m /\ m[k] = ExpectedValue(c, k)
                                      /\ ExpectedValue(c, k) \in Scalars
<1> DEFINE m == DeepMergeInPlace(c, t)
<1>0. /\ IsTree(t) /\ DOMAIN t \subseteq Paths /\ DOMAIN c \subseteq Paths
  BY DEF Made, StructuredOf, IsTree
<1>1. /\ Leaves(t) = Asked /\ Asked \subseteq Paths
      /\ \A p \in Asked : p \in DOMAIN t /\ t[p] = AskedFor(p) /\ AskedFor(p) \in Scalars
  BY AskedLeaves
<1>2. /\ \A p \in DOMAIN c \cap DOMAIN t : ~Mismatch(c, t, p)
      /\ \A p \in Paths : p \in DOMAIN m <=>
           \/ p \in DOMAIN t
           \/ /\ p \in DOMAIN c
              /\ ~\E q \in DOMAIN c \cap DOMAIN t : ~IsMap(t[q]) /\ IsStrictPrefix(q, p)
      /\ \A p \in DOMAIN m : m[p] =
           IF p \notin DOMAIN t THEN c[p]
           ELSE IF p \in DOMAIN c /\ IsMap(t[p]) THEN "map" ELSE t[p]
      /\ IsTree(m)
  BY <1>0, MergeIsTree
<1>3. DOMAIN m \subseteq Paths
  BY <1>2 DEF IsTree
<1> HIDE DEF m
<1>4. Expected(c) = Asked \cup {p \in Leaves(c) : \A q \in Asked : ~IsPrefix(q, p)}
  BY DEF Expected
<1>5. ASSUME NEW p \in Asked
      PROVE  /\ p \in DOMAIN m /\ p \in Leaves(m) /\ m[p] = ExpectedValue(c, p)
             /\ ExpectedValue(c, p) \in Scalars
  <2>1. p \in DOMAIN t /\ ~IsMap(t[p]) /\ ExpectedValue(c, p) = t[p] /\ t[p] \in Scalars
    BY <1>1 DEF Leaves, ExpectedValue
  <2>2. p \in DOMAIN m /\ m[p] = t[p]
    BY <1>1, <1>2, <2>1
  <2> QED
    BY <2>1, <2>2 DEF Leaves
<1>6. ASSUME NEW p \in Leaves(c), \A q \in Asked : ~IsPrefix(q, p)
      PROVE  /\ p \in DOMAIN m /\ p \in Leaves(m) /\ m[p] = ExpectedValue(c, p)
             /\ ExpectedValue(c, p) \in Scalars
  <2>0. p \in DOMAIN c /\ ~IsMap(c[p]) /\ p \in Paths /\ c[p] \in Scalars
    BY <1>0 DEF Leaves, IsTree, IsMap
  <2>1. p \notin Asked
    BY <1>6, <2>0, PrefixOrder
  <2>2. p \notin DOMAIN t
    <3> SUFFICES ASSUME p \in DOMAIN t PROVE FALSE
      OBVIOUS
    <3>1. IsMap(t[p])
      BY <1>1, <2>1 DEF Leaves
    <3>2. Mismatch(c, t, p)
      BY <2>0, <3>1 DEF Mismatch
    <3> QED
      BY <1>2, <2>0, <3>2
  <2>3. ~\E q \in DOMAIN c \cap DOMAIN t : ~IsMap(t[q]) /\ IsStrictPrefix(q, p)
    BY <1>1, <1>6 DEF IsStrictPrefix, Leaves
  <2>4. p \in DOMAIN m /\ m[p] = c[p]
    BY <1>2, <2>0, <2>2, <2>3
  <2> QED
    BY <2>0, <2>1, <2>4 DEF Leaves, ExpectedValue
<1>7. ASSUME NEW p \in Leaves(m) PROVE p \in Expected(c)
  <2>0. p \in DOMAIN m /\ ~IsMap(m[p]) /\ p \in Paths
    BY <1>3 DEF Leaves
  <2>1. CASE p \in DOMAIN t
    <3>1. ~IsMap(t[p])
      BY <2>0, <2>1, <1>2 DEF IsMap
    <3> QED
      BY <2>1, <3>1, <1>1, <1>4 DEF Leaves
  <2>2. CASE p \notin DOMAIN t
    <3>1. /\ p \in DOMAIN c /\ m[p] = c[p]
          /\ ~\E q \in DOMAIN c \cap DOMAIN t : ~IsMap(t[q]) /\ IsStrictPrefix(q, p)
      BY <2>0, <2>2, <1>2
    <3>2. ASSUME NEW q \in Asked, IsPrefix(q, p) PROVE FALSE
      <4>1. q \in DOMAIN t /\ ~IsMap(t[q]) /\ q # p /\ q \in Paths
        BY <1>1, <2>2 DEF Leaves
      <4>2. q \in DOMAIN c
        BY <3>1, <3>2, <4>1, TreeWays
      <4> QED
        BY <3>1, <3>2, <4>1, <4>2 DEF IsStrictPrefix
    <3> QED
      BY <3>1, <3>2, <2>0, <1>4 DEF Leaves
  <2> QED
    BY <2>1, <2>2
<1>8. /\ Leaves(m) = Expected(c)
      /\ \A k \in Expected(c) : /\ k \in DOMAIN m /\ m[k] = ExpectedValue(c, k)
                                /\ ExpectedValue(c, k) \in Scalars
  BY <1>4, <1>5, <1>6, <1>7
<1> QED
  BY <1>8 DEF m

\* A merge that fails: the file does not take the overrides.
LEMMA FailureIsClash ==
  ASSUME written \in Overrides, kind = "structured", NEW c, IsTree(c),
         NEW t, Made(t, DOMAIN given), DeepMergeInPlace(c, t) = Failed, IsMap(c[<<>>])
  PROVE  Clashes(c)
<1>0. IsTree(t) /\ StructuredOf(t, DOMAIN given) /\ DOMAIN t \subseteq Paths
  BY DEF Made, StructuredOf, IsTree
<1>1. PICK p \in DOMAIN c \cap DOMAIN t : Mismatch(c, t, p)
  BY <1>0, MergeSucceeds
<1>2. p \in Paths /\ (p = <<>> => IsMap(c[p]) /\ IsMap(t[p]))
  BY <1>0 DEF StructuredOf
<1>3. CASE ~IsMap(t[p])
  <2>1. p \in Leaves(t)
    BY <1>3 DEF Leaves
  <2>2. PICK k \in DOMAIN given : \E r \in DOMAIN given[k] : p = Under(k, r) /\ ~IsMap(given[k][r])
    BY <2>1, AskedLeaves
  <2>3. IsMap(c[p]) /\ ~isYAMLScalarPlaceholder(c, p)
    BY <1>1, <1>3 DEF Mismatch, IsMap
  <2> QED
    BY <2>2, <2>3 DEF Clashes
<1>4. CASE IsMap(t[p])
  <2>1. ~IsMap(c[p]) /\ p # <<>> /\ p \in Leaves(c)
    BY <1>1, <1>2, <1>4 DEF Mismatch, Leaves
  <2>2. PICK k \in DOMAIN given : \E r \in DOMAIN given[k] : IsPrefix(p, Under(k, r))
    BY <1>0, <2>1 DEF StructuredOf
  <2>3. PICK r \in DOMAIN given[k] : IsPrefix(p, Under(k, r))
    BY <2>2
  <2>4. p = Under(k, r) => IsMap(given[k][r])
    BY <1>0, <1>4 DEF StructuredOf
  <2> QED
    BY <2>1, <2>3, <2>4 DEF Clashes
<1> QED
  BY <1>3, <1>4

-----------------------------------------------------------------------------
(* Properties files.                                                       *)

Lines == [key : Paths, val : Scalars]

\* The overrides ask for finitely many keys.
LEMMA FinitelyAsked ==
  ASSUME written \in Overrides
  PROVE  IsFiniteSet(Asked)
<1>1. ASSUME NEW k \in DOMAIN given PROVE IsFiniteSet(Spelled(k))
  <2> DEFINE L == Leaves(given[k])
             f == [p \in L |-> Under(k, p)]
  <2>1. IsFiniteSet(L)
    <3>1. k \in DOMAIN written /\ IsTree(written[k]) /\ given[k] \in {written[k], AsJSON(written[k])}
      BY OverridesAssumption DEF given
    <3>2. DOMAIN given[k] = DOMAIN written[k] /\ IsFiniteSet(DOMAIN written[k])
      BY <3>1, JSONIsTree, OverridesAssumption
    <3> QED
      BY <3>2, FS_Subset DEF Leaves
  <2>2. f \in Surjection(L, Spelled(k))
    BY DEF Surjection, Spelled
  <2> QED
    BY <2>1, <2>2, FS_Surjection
<1>2. IsFiniteSet({Spelled(k) : k \in DOMAIN given})
  <2> DEFINE f == [k \in DOMAIN given |-> Spelled(k)]
  <2>1. IsFiniteSet(DOMAIN given)
    BY OverridesAssumption, SameGiven
  <2>2. f \in Surjection(DOMAIN given, {Spelled(k) : k \in DOMAIN given})
    BY DEF Surjection
  <2> QED
    BY <2>1, <2>2, FS_Surjection
<1> QED
  BY <1>1, <1>2, FS_UNION DEF Asked

\* The first line of a key.
LEMMA FirstLine ==
  ASSUME NEW text \in Seq(Lines), NEW k \in KeysOf(text)
  PROVE  /\ First(text, k) \in 1 .. Len(text) /\ text[First(text, k)].key = k
         /\ \A j \in 1 .. First(text, k) - 1 : text[j].key # k
         /\ \A i \in 1 .. Len(text) :
              text[i].key = k /\ (\A j \in 1 .. i - 1 : text[j].key # k) => First(text, k) = i
<1> DEFINE S == {i \in 1 .. Len(text) : text[i].key = k}
           IsFirst(i) == text[i].key = k /\ \A j \in 1 .. i - 1 : text[j].key # k
<1>0. DOMAIN text = 1 .. Len(text) /\ Len(text) \in Nat
  OBVIOUS
<1>1. PICK x \in S : \A y \in S : x <= y
  <2>1. S \in SUBSET Nat /\ S # {}
    BY <1>0 DEF KeysOf
  <2> HIDE DEF S
  <2> QED
    BY <2>1, LeastNumber
<1>2. IsFirst(x)
  BY <1>0, <1>1
<1>3. First(text, k) \in 1 .. Len(text) /\ IsFirst(First(text, k))
  BY <1>0, <1>1, <1>2 DEF First
<1>4. ASSUME NEW i \in 1 .. Len(text), IsFirst(i) PROVE First(text, k) = i
  <2>1. ~(First(text, k) < i) /\ ~(i < First(text, k))
    BY <1>0, <1>3, <1>4
  <2> QED
    BY <1>0, <1>3, <2>1
<1> QED
  BY <1>3, <1>4

\* And its last one.
LEMMA FinalLine ==
  ASSUME NEW text \in Seq(Lines), NEW k \in KeysOf(text)
  PROVE  /\ Final(text, k) \in 1 .. Len(text) /\ text[Final(text, k)].key = k
         /\ \A j \in 1 .. Len(text) : text[j].key = k => j <= Final(text, k)
         /\ \A i \in 1 .. Len(text) :
              text[i].key = k /\ (\A j \in 1 .. Len(text) : text[j].key = k => j <= i)
              => Final(text, k) = i
<1> DEFINE S == {i \in 1 .. Len(text) : text[i].key = k}
           T == {Len(text) - i : i \in S}
           IsFinal(i) == text[i].key = k /\ \A j \in 1 .. Len(text) : text[j].key = k => j <= i
<1>0. DOMAIN text = 1 .. Len(text) /\ Len(text) \in Nat
  OBVIOUS
<1>1. PICK x \in T : \A y \in T : x <= y
  <2>1. T \in SUBSET Nat /\ T # {}
    BY <1>0 DEF KeysOf
  <2> HIDE DEF T
  <2> QED
    BY <2>1, LeastNumber
<1>2. PICK z \in S : x = Len(text) - z
  OBVIOUS
<1>3. ASSUME NEW j \in S PROVE j <= z
  <2>1. Len(text) - z <= Len(text) - j
    BY <1>1, <1>2
  <2> QED
    BY <2>1, <1>0
<1>4. z \in DOMAIN text /\ IsFinal(z)
  BY <1>0, <1>3
<1>5. Final(text, k) \in 1 .. Len(text) /\ IsFinal(Final(text, k))
  BY <1>0, <1>4 DEF Final
<1>6. ASSUME NEW i \in 1 .. Len(text), IsFinal(i) PROVE Final(text, k) = i
  <2>1. Final(text, k) <= i /\ i <= Final(text, k)
    BY <1>0, <1>5, <1>6
  <2> QED
    BY <1>0, <1>5, <2>1
<1> QED
  BY <1>5, <1>6

\* The lines of a merged file.
LEMMA ReplacedLines ==
  ASSUME NEW c \in Seq(Lines), NEW flat, DOMAIN flat \subseteq Paths, IsFiniteSet(DOMAIN flat),
         \A k \in DOMAIN flat : flat[k] \in Scalars, NEW m \in replaceProperties(c, flat)
  PROVE  /\ m \in Seq(Lines) /\ Len(m) >= Len(c) /\ Len(m) \in Nat /\ Len(c) \in Nat
         /\ \A i \in 1 .. Len(c) : /\ m[i].key = c[i].key
                                   /\ m[i].val = IF c[i].key \in DOMAIN flat
                                                /\ First(c, c[i].key) = i
                                                 THEN flat[c[i].key] ELSE c[i].val
         /\ \A i \in Len(c) + 1 .. Len(m) :
              m[i].key \in DOMAIN flat \ KeysOf(c) /\ m[i].val = flat[m[i].key]
         /\ \A k \in DOMAIN flat \ KeysOf(c) : \E i \in Len(c) + 1 .. Len(m) : m[i].key = k
         /\ \A i, j \in Len(c) + 1 .. Len(m) : m[i].key = m[j].key => i = j
<1> DEFINE S == DOMAIN flat \ KeysOf(c)
           n == Cardinality(S)
           lines == [i \in DOMAIN c |->
              IF c[i].key \in DOMAIN flat /\ First(c, c[i].key) = i
              THEN [c[i] EXCEPT !.val = flat[c[i].key]] ELSE c[i]]
           tail(s) == [i \in DOMAIN s |-> [key |-> s[i], val |-> flat[s[i]]]]
<1>0. IsFiniteSet(S) /\ n \in Nat /\ Len(c) \in Nat /\ DOMAIN c = 1 .. Len(c)
  BY FS_Subset, FS_CardinalityType
<1>1. PICK s \in SetToSeqs(S) : m = lines \o tail(s)
  BY DEF replaceProperties
<1>2. s \in [1 .. n -> S] /\ \A i, j \in 1 .. n : i # j => s[i] # s[j]
  BY DEF SetToSeqs
<1>3. \A k \in S : \E i \in 1 .. n : s[i] = k
  <2>1. s \in Injection(1 .. n, S)
    BY <1>2 DEF Injection, IsInjective
  <2>2. Cardinality(1 .. n) = n
    BY <1>0, FS_Interval
  <2>3. s \in Surjection(1 .. n, S)
    BY <1>0, <2>1, <2>2, FS_Injection
  <2> QED
    BY <2>3 DEF Surjection
<1>4. \A i \in 1 .. Len(c) : c[i] \in Lines
  OBVIOUS
<1> HIDE DEF S, n
<1>5. /\ lines \in Seq(Lines) /\ Len(lines) = Len(c)
      /\ \A i \in 1 .. Len(c) : /\ lines[i].key = c[i].key
                                /\ lines[i].val = IF c[i].key \in DOMAIN flat
                                             /\ First(c, c[i].key) = i
                                                  THEN flat[c[i].key] ELSE c[i].val
  <2>1. \A i \in 1 .. Len(c) :
           /\ lines[i] \in Lines /\ lines[i].key = c[i].key
           /\ lines[i].val = IF c[i].key \in DOMAIN flat /\ First(c, c[i].key) = i
                             THEN flat[c[i].key] ELSE c[i].val
    BY <1>0, <1>4 DEF Lines
  <2>2. lines \in [1 .. Len(c) -> Lines]
    BY <1>0, <2>1
  <2>3. lines \in Seq(Lines) /\ Len(lines) = Len(c)
    BY <1>0, <2>2
  <2> QED
    BY <2>1, <2>3
<1>6. /\ tail(s) \in Seq(Lines) /\ Len(tail(s)) = n
      /\ \A i \in 1 .. n : tail(s)[i].key = s[i] /\ tail(s)[i].val = flat[s[i]]
  <2>1. DOMAIN s = 1 .. n /\ \A i \in 1 .. n : s[i] \in Paths /\ flat[s[i]] \in Scalars
    BY <1>2 DEF S
  <2>2. tail(s) \in [1 .. n -> Lines]
    BY <2>1 DEF Lines
  <2>3. tail(s) \in Seq(Lines) /\ Len(tail(s)) = n
    BY <1>0, <2>2
  <2> QED
    BY <2>1, <2>3
<1> DEFINE a == lines
           b == tail(s)
<1> HIDE DEF a, b
<1>7. /\ m \in Seq(Lines) /\ Len(m) = Len(c) + n
      /\ \A i \in 1 .. Len(c) : m[i] = a[i]
      /\ \A i \in 1 .. n : m[Len(c) + i] = b[i]
  <2>1. m = a \o b /\ a \in Seq(Lines) /\ b \in Seq(Lines) /\ Len(a) = Len(c) /\ Len(b) = n
    BY <1>1, <1>5, <1>6 DEF a, b
  <2>2. /\ m \in Seq(Lines) /\ Len(m) = Len(a) + Len(b)
        /\ \A i \in 1 .. Len(a) + Len(b) : m[i] = IF i <= Len(a) THEN a[i] ELSE b[i - Len(a)]
    BY <2>1, ConcatProperties
  <2>3. ASSUME NEW i \in 1 .. Len(c) PROVE m[i] = a[i]
    BY <1>0, <2>1, <2>2
  <2>4. ASSUME NEW i \in 1 .. n PROVE m[Len(c) + i] = b[i]
    <3>1. /\ Len(c) + i \in 1 .. Len(c) + n /\ ~(Len(c) + i <= Len(c))
          /\ Len(c) + i - Len(c) = i
      BY <1>0
    <3> QED
      BY <2>1, <2>2, <3>1
  <2> QED
    BY <2>1, <2>2, <2>3, <2>4
<1>8. \A i \in Len(c) + 1 .. Len(m) : \E j \in 1 .. n : i = Len(c) + j
  <2> SUFFICES ASSUME NEW i \in Len(c) + 1 .. Len(m) PROVE \E j \in 1 .. n : i = Len(c) + j
    OBVIOUS
  <2>1. i - Len(c) \in 1 .. n /\ i = Len(c) + (i - Len(c))
    BY <1>0, <1>7
  <2> QED
    BY <2>1
<1>9. \A i \in 1 .. n : /\ Len(c) + i \in Len(c) + 1 .. Len(m)
                        /\ m[Len(c) + i].key = s[i] /\ m[Len(c) + i].val = flat[s[i]]
  <2>1. \A i \in 1 .. n : b[i].key = s[i] /\ b[i].val = flat[s[i]]
    BY <1>6 DEF b
  <2>2. \A i \in 1 .. n : Len(c) + i \in Len(c) + 1 .. Len(m)
    BY <1>0, <1>7
  <2> QED
    BY <2>1, <2>2, <1>7
<1>10. ASSUME NEW i \in Len(c) + 1 .. Len(m)
       PROVE  m[i].key \in DOMAIN flat \ KeysOf(c) /\ m[i].val = flat[m[i].key]
  <2>1. PICK j \in 1 .. n : i = Len(c) + j
    BY <1>8
  <2>2. s[j] \in S /\ m[i].key = s[j] /\ m[i].val = flat[s[j]]
    BY <2>1, <1>2, <1>9
  <2> QED
    BY <2>2 DEF S
<1>11. ASSUME NEW k \in DOMAIN flat \ KeysOf(c) PROVE \E i \in Len(c) + 1 .. Len(m) : m[i].key = k
  BY <1>3, <1>9 DEF S
<1>12. ASSUME NEW i \in Len(c) + 1 .. Len(m), NEW j \in Len(c) + 1 .. Len(m), m[i].key = m[j].key
       PROVE  i = j
  <2>1. PICK x \in 1 .. n : i = Len(c) + x
    BY <1>8
  <2>2. PICK y \in 1 .. n : j = Len(c) + y
    BY <1>8
  <2>3. s[x] = s[y]
    BY <2>1, <2>2, <1>9, <1>12
  <2>4. x = y
    BY <2>3, <1>2
  <2> QED
    BY <2>1, <2>2, <2>4
<1>13. Len(m) >= Len(c) /\ Len(m) \in Nat
  BY <1>0, <1>7
<1>14. ASSUME NEW i \in 1 .. Len(c)
       PROVE  /\ m[i].key = c[i].key
              /\ m[i].val = IF c[i].key \in DOMAIN flat /\ First(c, c[i].key) = i
                            THEN flat[c[i].key] ELSE c[i].val
  BY <1>5, <1>7 DEF a
<1>15. m \in Seq(Lines) /\ Len(c) \in Nat
  BY <1>0, <1>7
<1> QED
  BY <1>10, <1>11, <1>12, <1>13, <1>14, <1>15

\* Its keys, and the values that their first lines and their last lines have.
LEMMA ReplacedKeys ==
  ASSUME NEW c \in Seq(Lines), NEW flat, DOMAIN flat \subseteq Paths, IsFiniteSet(DOMAIN flat),
         \A k \in DOMAIN flat : flat[k] \in Scalars, NEW m \in replaceProperties(c, flat)
  PROVE  /\ m \in Seq(Lines)
         /\ KeysOf(m) = KeysOf(c) \cup DOMAIN flat
         /\ \A k \in KeysOf(m) : m[First(m, k)].val =
              IF k \in DOMAIN flat THEN flat[k] ELSE c[First(c, k)].val
         /\ \A k \in KeysOf(m) : m[Final(m, k)].val =
              IF k \in DOMAIN flat /\ (k \in KeysOf(c) => First(c, k) = Final(c, k))
              THEN flat[k] ELSE c[Final(c, k)].val
<1>1. /\ m \in Seq(Lines) /\ Len(m) >= Len(c) /\ Len(m) \in Nat /\ Len(c) \in Nat
      /\ \A i \in 1 .. Len(c) : /\ m[i].key = c[i].key
                                /\ m[i].val = IF c[i].key \in DOMAIN flat /\ First(c, c[i].key) = i
                                              THEN flat[c[i].key] ELSE c[i].val
      /\ \A i \in Len(c) + 1 .. Len(m) :
           m[i].key \in DOMAIN flat \ KeysOf(c) /\ m[i].val = flat[m[i].key]
      /\ \A k \in DOMAIN flat \ KeysOf(c) : \E i \in Len(c) + 1 .. Len(m) : m[i].key = k
      /\ \A i, j \in Len(c) + 1 .. Len(m) : m[i].key = m[j].key => i = j
  BY ReplacedLines
<1>2. /\ DOMAIN m = 1 .. Len(m) /\ DOMAIN c = 1 .. Len(c)
      /\ \A i \in 1 .. Len(m) : i \in 1 .. Len(c) \/ i \in Len(c) + 1 .. Len(m)
      /\ \A i \in 1 .. Len(c) : i \in 1 .. Len(m)
      /\ \A i \in Len(c) + 1 .. Len(m) : i \in 1 .. Len(m)
  BY <1>1
<1>3. \A i \in 1 .. Len(c) : c[i].key \in KeysOf(c)
  BY <1>2 DEF KeysOf
<1>4. KeysOf(m) = KeysOf(c) \cup DOMAIN flat
  <2>1. ASSUME NEW k \in KeysOf(m) PROVE k \in KeysOf(c) \cup DOMAIN flat
    BY <1>1, <1>2, <1>3 DEF KeysOf
  <2>2. ASSUME NEW k \in KeysOf(c) PROVE k \in KeysOf(m)
    BY <1>1, <1>2 DEF KeysOf
  <2>3. ASSUME NEW k \in DOMAIN flat \ KeysOf(c) PROVE k \in KeysOf(m)
    BY <1>1, <1>2 DEF KeysOf
  <2> QED
    BY <2>1, <2>2, <2>3
<1>5. ASSUME NEW k \in KeysOf(c)
      PROVE  m[First(m, k)].val = IF k \in DOMAIN flat THEN flat[k] ELSE c[First(c, k)].val
  <2> DEFINE i == First(c, k)
  <2>1. i \in 1 .. Len(c) /\ c[i].key = k /\ \A j \in 1 .. i - 1 : c[j].key # k
    BY FirstLine
  <2>2. \A j \in 1 .. i - 1 : j \in 1 .. Len(c)
    BY <1>1, <2>1
  <2>3. First(m, k) = i
    BY <1>1, <1>2, <1>4, <2>1, <2>2, FirstLine
  <2> QED
    BY <2>1, <2>3, <1>1
<1>6. ASSUME NEW k \in DOMAIN flat \ KeysOf(c) PROVE m[First(m, k)].val = flat[k]
  <2>1. First(m, k) \in 1 .. Len(m) /\ m[First(m, k)].key = k
    BY <1>1, <1>4, FirstLine
  <2>2. First(m, k) \in Len(c) + 1 .. Len(m)
    BY <2>1, <1>1, <1>2, <1>3
  <2> QED
    BY <2>1, <2>2, <1>1
<1>7. ASSUME NEW k \in KeysOf(c)
      PROVE  m[Final(m, k)].val =
               IF k \in DOMAIN flat /\ First(c, k) = Final(c, k) THEN flat[k] ELSE c[Final(c, k)].val
  <2> DEFINE i == Final(c, k)
  <2>1. /\ i \in 1 .. Len(c) /\ c[i].key = k
        /\ \A j \in 1 .. Len(c) : c[j].key = k => j <= i
    BY FinalLine
  <2> HIDE DEF i
  <2>2. \A j \in 1 .. Len(m) : m[j].key = k => j <= i
    BY <1>1, <1>2, <2>1
  <2>3. i \in 1 .. Len(m) /\ m[i].key = k
    BY <1>1, <1>2, <2>1
  <2>4. Final(m, k) = i
    BY <1>1, <1>4, <2>2, <2>3, FinalLine
  <2> QED
    BY <2>1, <2>4, <1>1 DEF i
<1>8. ASSUME NEW k \in DOMAIN flat \ KeysOf(c) PROVE m[Final(m, k)].val = flat[k]
  <2>1. Final(m, k) \in 1 .. Len(m) /\ m[Final(m, k)].key = k
    BY <1>1, <1>4, FinalLine
  <2>2. Final(m, k) \in Len(c) + 1 .. Len(m)
    BY <2>1, <1>1, <1>2, <1>3
  <2> QED
    BY <2>1, <2>2, <1>1
<1> QED
  BY <1>1, <1>4, <1>5, <1>6, <1>7, <1>8

-----------------------------------------------------------------------------
(* The properties.                                                         *)

\* The file of a version is of its kind.
LEMMA FileContent ==
  ASSUME RenderTypeOK, kind \in {"structured", "properties"}, NEW v \in DOMAIN file
  PROVE  /\ kind = "structured" => IsTree(file[v]) /\ IsMap(file[v][<<>>])
         /\ kind = "properties" => file[v] \in Seq(Lines)
BY FileAssumption DEF RenderTypeOK, Lines

\* How the preview shows what an override asks for.
Printed(value) == IF kind = "structured" THEN Text(value) ELSE Sprint[value]

\* Everything that is asked for is in the merged file, and otherwise it is as
\* it was.
LEMMA Arrives ==
  ASSUME written \in Overrides, kind \in {"structured", "properties"}, NEW c,
         kind = "structured" => IsTree(c), kind = "properties" => c \in Seq(Lines),
         NEW t, Made(t, DOMAIN given), NEW m \in MergeBytes(c, t),
         kind = "structured" => m # Failed
  PROVE  /\ Expected(Loaded(c)) = IF kind = "structured" THEN Leaves(m) ELSE KeysOf(m)
         /\ \A k \in Expected(Loaded(c)) : /\ Effective(m, k) = ExpectedValue(Loaded(c), k)
                                           /\ Text(ExpectedValue(Loaded(c), k)) \in Scalars
         /\ \A k \in Asked : ReadKey(m, k) = Printed(AskedFor(k))
         /\ flattenConfig(m) = [k \in Expected(Loaded(c)) |-> Text(ExpectedValue(Loaded(c), k))]
<1>1. /\ Leaves(t) = Asked /\ Asked \subseteq Paths
      /\ \A p \in Asked : t[p] = AskedFor(p) /\ AskedFor(p) \in Scalars
  BY AskedLeaves
<1> DEFINE d == Loaded(c)
<1>2. Asked \subseteq Expected(d)
  BY DEF Expected
<1>3. CASE kind = "structured"
  <2>0. m = DeepMergeInPlace(d, t) /\ IsTree(d) /\ IsTree(t)
    BY <1>3, LoadedIsTree DEF MergeBytes, Made, StructuredOf
  <2> HIDE DEF d
  <2>1. /\ Leaves(m) = Expected(d)
        /\ \A k \in Expected(d) : /\ k \in DOMAIN m /\ m[k] = ExpectedValue(d, k)
                                  /\ ExpectedValue(d, k) \in Scalars
    BY <1>3, <2>0, StructuredArrives
  <2>2. IsTree(m)
    BY <1>3, <2>0, MergeIsTree
  <2>3. ASSUME NEW k \in Expected(d)
        PROVE  /\ k \in Leaves(Loaded(m)) /\ Text(m[k]) = Sprint[Loaded(m)[k]]
               /\ ReadKey(m, k) = Text(m[k]) /\ Text(m[k]) \in Scalars
    <3>1. k \in Leaves(m) /\ k \in DOMAIN m /\ ~IsMap(m[k]) /\ m[k] \in Scalars
      BY <2>1, <2>3 DEF Leaves
    <3>2. Leaves(Loaded(m)) = Leaves(m) /\ ~IsMap(Loaded(m)[k])
      BY <2>2, <3>1, LoadedIsTree
    <3>3. Loaded(m)[k] = IF json THEN Float64[m[k]] ELSE m[k]
      BY <1>3, <3>1 DEF Loaded, AsJSON
    <3>4. ReadKey(m, k) = Sprint[Loaded(m)[k]]
      BY <1>3, <3>2 DEF ReadKey, Shown
    <3>5. Text(m[k]) = Sprint[Loaded(m)[k]]
      BY <1>3, <3>3 DEF Text
    <3>6. Loaded(m)[k] \in Scalars
      BY <3>1, <3>3, ScalarAssumption
    <3> QED
      BY <3>1, <3>2, <3>4, <3>5, <3>6, ScalarAssumption
  <2>4. flattenConfig(m) = [k \in Expected(d) |-> Text(ExpectedValue(d, k))]
    <3>1. Leaves(Loaded(m)) = Expected(d)
      BY <2>1, <2>2, LoadedIsTree
    <3>2. flattenConfig(m) = [p \in Leaves(Loaded(m)) |-> Sprint[Loaded(m)[p]]]
      BY <1>3 DEF flattenConfig, FlattenScalars
    <3>3. \A k \in Expected(d) : Sprint[Loaded(m)[k]] = Text(ExpectedValue(d, k))
      BY <2>1, <2>3
    <3> QED
      BY <3>1, <3>2, <3>3
  <2>5. ASSUME NEW k \in Asked PROVE ReadKey(m, k) = Printed(AskedFor(k))
    <3>1. ExpectedValue(d, k) = AskedFor(k)
      BY <1>3 DEF ExpectedValue
    <3> QED
      BY <1>2, <1>3, <2>1, <2>3, <3>1 DEF Printed
  <2>6. \A k \in Expected(d) : Effective(m, k) = ExpectedValue(d, k)
    BY <1>3, <2>1 DEF Effective
  <2> QED
    BY <1>3, <2>1, <2>3, <2>4, <2>5, <2>6 DEF d
<1>4. CASE kind = "properties"
  <2> DEFINE flat == [p \in Leaves(t) |-> Sprint[t[p]]]
  <2>0. /\ DOMAIN flat = Asked
        /\ \A k \in Asked : flat[k] = Sprint[AskedFor(k)] /\ flat[k] \in Scalars
    BY <1>1, ScalarAssumption
  <2>1. m \in replaceProperties(c, flat) /\ d = c
    BY <1>4 DEF MergeBytes, Loaded
  <2> HIDE DEF flat, d
  <2>2. /\ m \in Seq(Lines) /\ c \in Seq(Lines)
        /\ KeysOf(m) = KeysOf(c) \cup Asked
        /\ \A k \in KeysOf(m) : m[First(m, k)].val =
              IF k \in Asked THEN flat[k] ELSE c[First(c, k)].val
        /\ \A k \in KeysOf(m) : m[Final(m, k)].val =
              IF k \in Asked /\ (k \in KeysOf(c) => First(c, k) = Final(c, k))
              THEN flat[k] ELSE c[Final(c, k)].val
    <3>1. /\ c \in Seq(Lines) /\ DOMAIN flat \subseteq Paths /\ IsFiniteSet(DOMAIN flat)
          /\ \A k \in DOMAIN flat : flat[k] \in Scalars
      BY <1>1, <1>4, <2>0, FinitelyAsked
    <3>2. /\ m \in Seq(Lines)
          /\ KeysOf(m) = KeysOf(c) \cup DOMAIN flat
          /\ \A k \in KeysOf(m) : m[First(m, k)].val =
                IF k \in DOMAIN flat THEN flat[k] ELSE c[First(c, k)].val
          /\ \A k \in KeysOf(m) : m[Final(m, k)].val =
              IF k \in DOMAIN flat /\ (k \in KeysOf(c) => First(c, k) = Final(c, k))
              THEN flat[k] ELSE c[Final(c, k)].val
      BY <2>1, <3>1, ReplacedKeys
    <3> QED
      BY <2>0, <3>1, <3>2
  <2>3. KeysOf(m) = Expected(d)
    BY <1>4, <2>1, <2>2 DEF Expected
  <2>4. ASSUME NEW k \in Expected(d)
        PROVE  /\ m[Final(m, k)].val = ExpectedValue(d, k)
               /\ Effective(m, k) = ExpectedValue(d, k)
               /\ Text(ExpectedValue(d, k)) = ExpectedValue(d, k)
               /\ ExpectedValue(d, k) \in Scalars
    <3>1. m[Final(m, k)].val = ExpectedValue(d, k)
      BY <1>4, <2>0, <2>1, <2>2, <2>3 DEF ExpectedValue
    <3>2. m[Final(m, k)] \in Lines
      BY <2>2, <2>3, FinalLine
    <3> QED
      BY <1>4, <3>1, <3>2 DEF Lines, Effective, Text
  <2>5. flattenConfig(m) = [k \in Expected(d) |-> Text(ExpectedValue(d, k))]
    <3>1. flattenConfig(m) = [k \in KeysOf(m) |-> m[Final(m, k)].val]
      BY <1>4 DEF flattenConfig
    <3> QED
      BY <3>1, <2>3, <2>4
  <2>6. ASSUME NEW k \in Asked PROVE ReadKey(m, k) = Printed(AskedFor(k))
    <3>1. ReadKey(m, k) = m[First(m, k)].val /\ k \in KeysOf(m)
      BY <1>4, <2>2 DEF ReadKey
    <3> QED
      BY <1>4, <2>0, <2>2, <3>1 DEF Printed
  <2> QED
    BY <1>4, <2>3, <2>4, <2>5, <2>6 DEF d
<1> QED
  BY <1>3, <1>4

\* The part of it that the preview needs.
LEMMA AskedArrive ==
  ASSUME written \in Overrides, kind \in {"structured", "properties"}, NEW c,
         kind = "structured" => IsTree(c), kind = "properties" => c \in Seq(Lines),
         NEW t, Made(t, DOMAIN given), NEW m \in MergeBytes(c, t),
         kind = "structured" => m # Failed
  PROVE  \A k \in Asked : ReadKey(m, k) = Printed(AskedFor(k))
BY Arrives

\* What was delivered was rendered from a tree that has every entry.
LEMMA Delivered ==
  ASSUME RenderInv, Settled, Ended("bundle"), result["bundle"].ok
  PROVE  /\ kind \in {"structured", "properties"} /\ "to" \in DOMAIN file
         /\ \A k \in DOMAIN given : ~Unusable(k)
         /\ result["validate"].ok
         /\ \E t : /\ Made(t, DOMAIN given)
                   /\ \E m \in MergeBytes(file["to"], t) :
                        result["bundle"].value = m /\ (kind = "structured" => m # Failed)
<1>0. RenderTypeOK /\ PastInv /\ "bundle" \in Range(Uses) /\ stage > 1
  BY TheUses, OverUses DEF RenderInv, RenderTypeOK
<1>1. Refused.ok = FALSE /\ \A x : Returned(x).value = x
  BY DEF Refused, Returned
<1>2. result["bundle"] # Refused
  BY <1>1
<1>3. result["validate"].ok /\ kind \in {"structured", "properties"}
  BY <1>0, <1>2 DEF PastInv
<1>4. /\ \A k \in DOMAIN given : ~Unusable(k)
      /\ \E t : Made(t, DOMAIN given) /\ result["bundle"] \in Outcomes("bundle", t)
  BY <1>0, <1>2 DEF PastInv
<1>5. PICK t : Made(t, DOMAIN given) /\ result["bundle"] \in BuildBundle(t)
  BY <1>4 DEF Outcomes
<1>6. /\ "to" \in DOMAIN file
      /\ \E m \in MergeBytes(file["to"], t) :
            result["bundle"] = IF m = Failed /\ kind = "structured" THEN Refused ELSE Returned(m)
  BY <1>2, <1>5 DEF BuildBundle
<1>7. PICK m \in MergeBytes(file["to"], t) :
            result["bundle"] = IF m = Failed /\ kind = "structured" THEN Refused ELSE Returned(m)
  BY <1>6
<1>8. (kind = "structured" => m # Failed) /\ result["bundle"].value = m
  BY <1>1, <1>2, <1>7
<1> QED
  BY <1>3, <1>4, <1>5, <1>6, <1>8

\* Whatever the overrides are, and in whatever order Normalize takes them.
THEOREM OverridesAreRendered == RenderSpec => []RendersWhatIsAsked
<1>1. RenderInv => RendersWhatIsAsked
  <2> SUFFICES ASSUME RenderInv PROVE RendersWhatIsAsked
    OBVIOUS
  <2>0. RenderTypeOK /\ written \in Overrides
    BY DEF RenderInv
  <2>1. OverridesArrive
    <3> SUFFICES ASSUME Ended("bundle"), result["bundle"].ok, Settled PROVE OverridesArrive
      BY DEF OverridesArrive
    <3> DEFINE c == file["to"]
    <3>1. PICK t : /\ Made(t, DOMAIN given)
                   /\ \E m \in MergeBytes(c, t) :
                        result["bundle"].value = m /\ (kind = "structured" => m # Failed)
      BY Delivered
    <3>2. PICK m \in MergeBytes(c, t) :
             result["bundle"].value = m /\ (kind = "structured" => m # Failed)
      BY <3>1
    <3>3. /\ kind \in {"structured", "properties"} /\ (kind = "structured" => IsTree(c))
          /\ kind = "properties" => c \in Seq(Lines)
      BY <2>0, Delivered, FileContent
    <3> HIDE DEF c
    <3>4. /\ \A k \in Expected(Loaded(c)) : Effective(m, k) = ExpectedValue(Loaded(c), k)
          /\ Expected(Loaded(c)) = IF kind = "structured" THEN Leaves(m) ELSE KeysOf(m)
      BY <2>0, <3>1, <3>2, <3>3, Arrives
    <3> QED
      BY <3>2, <3>4 DEF OverridesArrive, c
  <2> QED
    BY <2>0, <2>1 DEF RendersWhatIsAsked
<1> QED
  BY <1>1, RenderInvariance, PTL

\* Each use has a tree of its own, and they say the same.
THEOREM PreviewTellsTheTruth == RenderSpec => []PreviewIsDelivered
<1>1. RenderInv => PreviewIsDelivered
  <2> SUFFICES ASSUME RenderInv, Ended("bundle"), result["bundle"].ok, Settled
               PROVE  /\ result["preview"].ok
                      /\ \A change \in result["preview"].value :
                           ReadKey(result["bundle"].value, change.key) = change.after
    BY DEF PreviewIsDelivered
  <2> DEFINE c == file["to"]
  <2>0. /\ RenderTypeOK /\ written \in Overrides /\ PastInv /\ Ended("preview")
        /\ "preview" \in Range(Uses)
    BY OverUses, TheUses DEF RenderInv, RenderTypeOK
  <2>1. PICK t : /\ Made(t, DOMAIN given)
                 /\ \E m \in MergeBytes(c, t) :
                      result["bundle"].value = m /\ (kind = "structured" => m # Failed)
    BY Delivered
  <2>2. PICK m \in MergeBytes(c, t) :
           result["bundle"].value = m /\ (kind = "structured" => m # Failed)
    BY <2>1
  <2>3. /\ kind \in {"structured", "properties"} /\ (kind = "structured" => IsTree(c))
        /\ kind = "properties" => c \in Seq(Lines)
        /\ "to" \in DOMAIN file
        /\ ~\E k \in DOMAIN given : Unusable(k)
        /\ result["validate"].ok
    BY <2>0, Delivered, FileContent
  <2>4. PICK s : Made(s, DOMAIN given) /\ result["preview"] \in Outcomes("preview", s)
    BY <2>0, <2>3 DEF PastInv
  <2>5. result["preview"] \in BuildPreview(s)
    BY <2>4 DEF Outcomes
  <2>6. PICK n \in MergeBytes(c, s) :
           result["preview"] = IF n = Failed /\ kind = "structured" THEN Refused
                               ELSE Returned(previewKeyChanges(c, n, s))
    BY <2>3, <2>5 DEF BuildPreview
  <2> HIDE DEF c
  <2>7. kind = "structured" => n # Failed
    <3> SUFFICES ASSUME kind = "structured" PROVE n # Failed
      OBVIOUS
    <3> DEFINE d == Loaded(c)
    <3>1. m = DeepMergeInPlace(d, t) /\ n = DeepMergeInPlace(d, s) /\ m # Failed /\ IsTree(d)
      BY <2>2, <2>3, <2>6, LoadedIsTree DEF MergeBytes
    <3> HIDE DEF d
    <3>2. StructuredOf(s, DOMAIN given) /\ StructuredOf(t, DOMAIN given) /\ IsTree(s) /\ IsTree(t)
      BY <2>1, <2>4 DEF Made, StructuredOf
    <3>3. DOMAIN s = DOMAIN t /\ \A p \in DOMAIN s : IsMap(s[p]) <=> IsMap(t[p])
      BY <2>0, <3>2, MadeAlike
    <3>4. \A p \in DOMAIN d \cap DOMAIN t : ~Mismatch(d, t, p)
      BY <3>1, <3>2, MergeIsTree
    <3>5. \A p \in DOMAIN d \cap DOMAIN s : ~Mismatch(d, s, p)
      BY <3>3, <3>4 DEF Mismatch, IsMap
    <3> QED
      BY <3>1, <3>2, <3>5, MergeSucceeds
  <2>8. result["preview"].ok /\ result["preview"].value = previewKeyChanges(c, n, s)
    BY <2>6, <2>7 DEF Returned
  <2>9. /\ \A k \in Asked : ReadKey(m, k) = Printed(AskedFor(k))
        /\ \A k \in Asked : ReadKey(n, k) = Printed(AskedFor(k))
    <3>1. ASSUME NEW x, Made(x, DOMAIN given), NEW y \in MergeBytes(c, x),
            kind = "structured" => y # Failed
          PROVE  \A k \in Asked : ReadKey(y, k) = Printed(AskedFor(k))
      BY <2>0, <2>3, <3>1, AskedArrive, ZenonT(60)
    <3> QED
      BY <2>1, <2>2, <2>4, <2>6, <2>7, <3>1
  <2>10. Leaves(s) = Asked
    BY <2>0, <2>4, AskedLeaves
  <2>11. ASSUME NEW change \in previewKeyChanges(c, n, s)
         PROVE  change.key \in Asked /\ change.after = ReadKey(n, change.key)
    BY <2>10 DEF previewKeyChanges
  <2> QED
    BY <2>2, <2>8, <2>9, <2>11
<1> QED
  BY <1>1, RenderInvariance, PTL

\* What a comparison rendered of a version.
LEMMA Compared ==
  ASSUME RenderInv, Settled, NEW v \in {"from", "to"}, Ended(v), result[v].ok
  PROVE  /\ v \notin DOMAIN file => result[v].value = <<>>
         /\ v \in DOMAIN file =>
              /\ result[v].value =
                   [k \in Expected(Loaded(file[v])) |-> Text(ExpectedValue(Loaded(file[v]), k))]
              /\ \A k \in Expected(Loaded(file[v])) :
                   Text(ExpectedValue(Loaded(file[v]), k)) \in Scalars
<1>0. RenderTypeOK /\ written \in Overrides /\ PastInv /\ v \in Range(Uses) /\ stage > 1
  BY TheUses, OverUses DEF RenderInv, RenderTypeOK
<1>1. Refused.ok = FALSE /\ \A x : Returned(x).value = x
  BY DEF Refused, Returned
<1>2. result[v] # Refused
  BY <1>1
<1>3. kind \in {"structured", "properties"}
  BY <1>0, <1>2 DEF PastInv
<1>4. PICK t : Made(t, DOMAIN given) /\ result[v] \in Outcomes(v, t)
  BY <1>0, <1>2 DEF PastInv
<1>5. result[v] \in renderEffectiveConfig(v, t)
  BY <1>4 DEF Outcomes
<1>6. CASE v \notin DOMAIN file
  BY <1>1, <1>5, <1>6 DEF renderEffectiveConfig, Failed
<1>7. CASE v \in DOMAIN file
  <2> DEFINE c == file[v]
  <2>1. PICK m \in MergeBytes(c, t) :
           result[v] = IF m = Failed /\ kind = "structured"
               THEN Refused ELSE Returned(flattenConfig(m))
    BY <1>5, <1>7 DEF renderEffectiveConfig
  <2>2. /\ kind = "structured" => IsTree(c) /\ m # Failed
        /\ kind = "properties" => c \in Seq(Lines)
    BY <1>0, <1>2, <1>3, <1>7, <2>1, FileContent
  <2>3. result[v].value = flattenConfig(m)
    BY <1>1, <1>2, <2>1
  <2> HIDE DEF c
  <2>4. /\ flattenConfig(m) = [k \in Expected(Loaded(c)) |-> Text(ExpectedValue(Loaded(c), k))]
        /\ \A k \in Expected(Loaded(c)) : Text(ExpectedValue(Loaded(c), k)) \in Scalars
    BY <1>0, <1>3, <1>4, <2>2, Arrives
  <2> QED
    BY <1>7, <2>3, <2>4 DEF c
<1> QED
  BY <1>6, <1>7

\* The comparison is exact.
THEOREM ComparisonIsExact == RenderSpec => []DiffIsExact
<1>1. RenderInv => DiffIsExact
  <2> SUFFICES ASSUME RenderInv, Ended("to"), Settled, result["from"].ok, result["to"].ok
               PROVE  DiffIsExact
    BY DEF DiffIsExact
  <2> DEFINE effective == [v \in {"from", "to"} |->
               IF v \notin DOMAIN file THEN <<>>
               ELSE [k \in Expected(Loaded(file[v])) |-> Text(ExpectedValue(Loaded(file[v]), k))]]
             f == result["from"].value
             g == result["to"].value
  <2>1. Ended("from")
    BY OverUses, TheUses DEF RenderInv, RenderTypeOK
  <2>2. f = effective["from"] /\ g = effective["to"]
    BY <2>1, Compared
  <2>3. \A v \in {"from", "to"} : \A k \in DOMAIN effective[v] : effective[v][k] \in Scalars
    <3> SUFFICES ASSUME NEW v \in {"from", "to"}, NEW k \in DOMAIN effective[v]
                 PROVE  effective[v][k] \in Scalars
      OBVIOUS
    <3>1. CASE v \in DOMAIN file
      BY <2>1, <3>1, Compared
    <3>2. CASE v \notin DOMAIN file
      <4>1. effective[v] = <<>>
        BY <3>2
      <4> HIDE DEF effective
      <4> QED
        BY <4>1
    <3> QED
      BY <3>1, <3>2
  <2> HIDE DEF effective, f, g
  <2>4. \A k : (k \in DOMAIN effective["from"] /\ k \in DOMAIN effective["to"]
                => effective["from"][k] # effective["to"][k])
               <=> ~\E x \in Scalars : \A v \in {"from", "to"} :
                      k \in DOMAIN effective[v] /\ effective[v][k] = x
    BY <2>3
  <2>5. DiffVersions(f, g) =
          {k \in DOMAIN effective["from"] \cup DOMAIN effective["to"] :
              ~\E x \in Scalars : \A v \in {"from", "to"} :
                    k \in DOMAIN effective[v] /\ effective[v][k] = x}
    BY <2>2, <2>4 DEF DiffVersions
  <2> QED
    BY <2>5 DEF DiffIsExact, effective, f, g
<1> QED
  BY <1>1, RenderInvariance, PTL

\* What was accepted fails only for what the version is.
THEOREM AcceptedCanBeUsed == RenderSpec => []AcceptedIsUsable
<1>1. RenderInv => AcceptedIsUsable
  <2> SUFFICES ASSUME RenderInv, Accepted, Settled,
                      kind = "properties" => \A k \in DOMAIN given : ~IsMap(given[k][<<>>]),
                      NEW u \in Range(Uses), Ended(u), ~result[u].ok
               PROVE  \/ u = "bundle" /\ ("to" \notin DOMAIN file
                             \/ (tags # {} /\ "*" \notin tags
                                 /\ (tags \cap target = {} \/ "*" \in target)))
                      \/ Clashes(Loaded(file[IF u = "from" THEN "from" ELSE "to"]))
    BY DEF AcceptedIsUsable
  <2>0. /\ RenderTypeOK /\ written \in Overrides /\ PastInv /\ result["validate"].ok
        /\ u # "validate" /\ stage > 1
    BY OverUses, TheUses DEF RenderInv, RenderTypeOK, Accepted
  <2>1. stage # 1 /\ kind \in {"structured", "properties"}
    BY <2>0, TheUses DEF PastInv, Refused
  <2>2. \A k \in DOMAIN given : ~Unusable(k)
    <3> SUFFICES ASSUME NEW k \in DOMAIN given PROVE ~Unusable(k)
      OBVIOUS
    <3>1. Value(k) = given[k]
      BY <2>1 DEF Value
    <3>2. CASE kind = "structured"
      BY <2>0, <3>1, <3>2 DEF PastInv, Unusable
    <3>3. CASE kind = "properties"
      BY <2>0, <3>1, <3>3 DEF PastInv, Unusable, IsMap
    <3> QED
      BY <2>1, <3>2, <3>3
  <2>3. PICK t : Made(t, DOMAIN given) /\ result[u] \in Outcomes(u, t)
    BY <2>0, <2>2 DEF PastInv
  <2>4. result[u] = Refused /\ \A x : result[u] # Returned(x)
    <3>1. \A x : Returned(x).ok = TRUE
      BY DEF Returned
    <3> QED
      BY <2>3, <3>1, OutcomeForm
  <2>5. ASSUME NEW v \in DOMAIN file, NEW m \in MergeBytes(file[v], t),
               m = Failed, kind = "structured"
        PROVE  Clashes(Loaded(file[v]))
    <3>1. IsTree(Loaded(file[v])) /\ IsMap(Loaded(file[v])[<<>>])
      BY <2>0, <2>1, <2>5, FileContent, LoadedIsTree DEF IsTree
    <3>2. DeepMergeInPlace(Loaded(file[v]), t) = Failed
      BY <2>5 DEF MergeBytes
    <3> QED
      BY <2>0, <2>3, <2>5, <3>1, <3>2, FailureIsClash
  <2>6. CASE u = "preview"
    <3>1. result[u] \in BuildPreview(t)
      BY <2>3, <2>6 DEF Outcomes
    <3>2. "to" \in DOMAIN file /\ \E m \in MergeBytes(file["to"], t) :
            m = Failed /\ kind = "structured"
      BY <2>4, <3>1 DEF BuildPreview
    <3> QED
      BY <2>5, <2>6, <3>2
  <2>7. CASE u = "bundle"
    <3>1. result[u] \in BuildBundle(t)
      BY <2>3, <2>7 DEF Outcomes
    <3>2. CASE "to" \in DOMAIN file /\ Matches(tags, target)
      <4>1. \E m \in MergeBytes(file["to"], t) : m = Failed /\ kind = "structured"
        BY <2>4, <3>1, <3>2 DEF BuildBundle
      <4> QED
        BY <2>5, <2>7, <3>2, <4>1
    <3>3. CASE ~Matches(tags, target)
      BY <2>7, <3>3 DEF Matches, Normalize
    <3> QED
      BY <2>7, <3>2, <3>3
  <2>8. CASE u \in {"from", "to"}
    <3>1. result[u] \in renderEffectiveConfig(u, t)
      BY <2>3, <2>8 DEF Outcomes
    <3>2. u \in DOMAIN file /\ \E m \in MergeBytes(file[u], t) : m = Failed /\ kind = "structured"
      BY <2>4, <3>1 DEF renderEffectiveConfig
    <3>3. (IF u = "from" THEN "from" ELSE "to") = u
      BY <2>8
    <3> QED
      BY <2>5, <3>2, <3>3
  <2> QED
    BY <2>0, <2>6, <2>7, <2>8, TheUses
<1> QED
  BY <1>1, RenderInvariance, PTL
=============================================================================
