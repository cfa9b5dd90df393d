------------------------- MODULE ReleaseHookProofs -------------------------
(***************************************************************************)
(* Proofs about release hooks, for every finite set of hooks and every     *)
(* number of triggers and faults.                                          *)
(***************************************************************************)
EXTENDS ReleaseHook, FiniteSetTheorems, SequenceTheorems, NaturalsInduction,
        WellFoundedInduction, TLAPS

\* A window is that of a hook that is on; it holds triggers that were accepted,
\* none of which was recorded as cancelled.
WindowInv ==
    \A h \in Hooks :
        /\ ~Enabled(h) => hook[h].pending = {} /\ ~hook[h].due
        /\ hook[h].due => hook[h].pending # {}
        /\ hook[h].pending \subseteq 1 .. accepted
        /\ cancelled[h] \subseteq 1 .. accepted
        /\ hook[h].pending \cap cancelled[h] = {}

\* What an update read was accepted before; once the hook is written, none of
\* it waits any more.
UpdateInv ==
    update # None =>
        /\ update.pending \subseteq 1 .. accepted
        /\ update.written => hook[update.hook].pending \cap update.pending = {}

\* A deployment that was not started has no run; the triggers of an event were
\* accepted.
EventInv ==
    \A i \in DOMAIN events :
        /\ events[i].runs <= 1
        /\ events[i].deployment \in {"none", "queued"} => events[i].runs = 0
        /\ events[i].status = "success" => events[i].deployment = "success"
        /\ events[i].batch \subseteq 1 .. accepted

\* The triggers of a hook go through its window in order: later events carry
\* later triggers, and the window the latest.
OrderInv ==
    \A i \in DOMAIN events :
        /\ \A s \in events[i].batch, t \in hook[events[i].hook].pending : s < t
        /\ \A j \in DOMAIN events : i < j /\ events[i].hook = events[j].hook =>
              \A s \in events[i].batch, t \in events[j].batch : s < t

\* The worker has a run exactly while it is at work, and knows the state of its
\* deployment; a run that it claimed itself is for the latest event of the hook.
WorkerInv ==
    /\ pc \in {"idle", "ended"} <=> todo = <<>>
    /\ pc = "created" => events[Cur].deployment = "queued"
    /\ pc = "running" => events[Cur].deployment = "running"
    /\ \A k \in DOMAIN todo : ~todo[k].recovery =>
          \A j \in DOMAIN events : todo[k].event < j =>
             events[j].hook # events[todo[k].event].hook

\* An event shares triggers with what is recorded, or will be recorded, as
\* cancelled only if the update that did so had read its window already.
CancelInv ==
    \A i \in DOMAIN events :
        /\ events[i].batch \cap cancelled[events[i].hook] \subseteq events[i].read
        /\ update # None /\ update.hook = events[i].hook =>
             events[i].batch \cap update.pending \subseteq events[i].read

\* The worker ends with the process.
DownInv == power = "down" => pc = "ended"

IndInv == /\ TypeOK /\ WindowInv /\ UpdateInv /\ EventInv /\ OrderInv /\ WorkerInv
          /\ CancelInv /\ DownInv

-----------------------------------------------------------------------------
(* What the steps write.                                                   *)

\* The rows of events and runs.
LEMMA RowTypes ==
  ASSUME TypeOK
  PROVE  /\ \A i \in DOMAIN events : /\ events[i] \in Events /\ events[i].hook \in Hooks
                                     /\ events[i].batch \subseteq Triggers
                                     /\ events[i].batch # {} /\ events[i].runs \in Nat
         /\ \A k \in DOMAIN todo : todo[k].event \in DOMAIN events
<1>1. ASSUME NEW i \in DOMAIN events PROVE events[i] \in Events
  BY DEF TypeOK
<1>2. ASSUME NEW k \in DOMAIN todo PROVE todo[k].event \in DOMAIN events
  <2> DEFINE R == [event : DOMAIN events, recovery : BOOLEAN]
  <2>1. todo \in Seq(R)
    BY DEF TypeOK
  <2> HIDE DEF R
  <2>2. todo[k] \in R
    BY <2>1
  <2> QED
    BY <2>2 DEF R
<1> QED
  BY <1>1, <1>2 DEF Events

\* The worker at work has an event at hand.
LEMMA AtWork ==
  ASSUME TypeOK, todo # <<>>
  PROVE  /\ Cur \in DOMAIN events /\ Head(todo) = todo[1] /\ 1 \in DOMAIN todo
         /\ Tail(todo) \in Seq([event : DOMAIN events, recovery : BOOLEAN])
         /\ Len(Tail(todo)) = Len(todo) - 1
         /\ \A k \in DOMAIN Tail(todo) : k + 1 \in DOMAIN todo /\ Tail(todo)[k] = todo[k + 1]
<1>1. todo \in Seq([event : DOMAIN events, recovery : BOOLEAN])
  BY DEF TypeOK
<1>2. Len(todo) \in Nat \ {0}
  BY <1>1, EmptySeq, SMT
<1>3. Head(todo) = todo[1] /\ 1 \in DOMAIN todo
  BY <1>1, <1>2
<1>4. Cur \in DOMAIN events
  <2>1. todo[1] \in [event : DOMAIN events, recovery : BOOLEAN]
    <3> DEFINE R == [event : DOMAIN events, recovery : BOOLEAN]
    <3>1. todo \in Seq(R) /\ 1 \in 1 .. Len(todo)
      BY <1>1, <1>2
    <3> HIDE DEF R
    <3>2. todo[1] \in R
      BY <3>1
    <3> QED
      BY <3>2 DEF R
  <2> QED
    BY <1>3, <2>1 DEF Cur
<1>5. /\ Tail(todo) \in Seq([event : DOMAIN events, recovery : BOOLEAN])
      /\ Len(Tail(todo)) = Len(todo) - 1
      /\ \A k \in 1 .. Len(Tail(todo)) : Tail(todo)[k] = todo[k + 1]
  BY <1>1, HeadTailProperties
<1> HIDE DEF TypeOK
<1>6. ASSUME NEW k \in DOMAIN Tail(todo)
      PROVE  k + 1 \in DOMAIN todo /\ Tail(todo)[k] = todo[k + 1]
  <2>1. k \in 1 .. Len(Tail(todo))
    BY <1>5, LenProperties
  <2>2. DOMAIN todo = 1 .. Len(todo)
    BY <1>1, LenProperties
  <2> QED
    BY <1>2, <1>5, <2>1, <2>2
<1> QED
  BY <1>3, <1>4, <1>5, <1>6

\* One event is overwritten.
LEMMA Overwrite ==
  ASSUME TypeOK, NEW i \in DOMAIN events, NEW e \in Events,
         events' = [events EXCEPT ![i] = e]
  PROVE  /\ events' \in Seq(Events) /\ DOMAIN events' = DOMAIN events
         /\ \A j \in DOMAIN events : events'[j] = IF j = i THEN e ELSE events[j]
BY DEF TypeOK

\* What is shown of an event by every rewriting of it.
SameTriggers ==
    /\ events' \in Seq(Events) /\ DOMAIN events' = DOMAIN events
    /\ \A j \in DOMAIN events : /\ events'[j].hook = events[j].hook
                                /\ events'[j].batch = events[j].batch
                                /\ events'[j].read = events[j].read

\* CompleteReleaseHookRun closes the event at hand, or writes nothing.
LEMMA CompleteWrites ==
  ASSUME TypeOK, todo # <<>>, NEW s \in {"success", "failed"}, Complete(s)
  PROVE  /\ SameTriggers
         /\ \A j \in DOMAIN events :
              \/ events'[j] = events[j]
              \/ /\ j = Cur /\ events'[j].status = s
                 /\ events'[j].deployment = events[j].deployment
                 /\ events'[j].runs = events[j].runs
<1> DEFINE e == [events[Cur] EXCEPT !.status = s, !.stale = FALSE]
<1>1. Cur \in DOMAIN events /\ events[Cur] \in Events
  BY AtWork DEF TypeOK
<1>2. /\ e \in Events /\ e.hook = events[Cur].hook /\ e.batch = events[Cur].batch
      /\ e.read = events[Cur].read
      /\ e.status = s /\ e.deployment = events[Cur].deployment /\ e.runs = events[Cur].runs
  BY <1>1 DEF Events
<1>3. CASE UNCHANGED events
  BY <1>3 DEF SameTriggers, TypeOK
<1>4. CASE events' = [events EXCEPT ![Cur].status = s, ![Cur].stale = FALSE]
  <2>1. events' = [events EXCEPT ![Cur] = e]
    BY <1>1, <1>4 DEF TypeOK
  <2> HIDE DEF e
  <2> DEFINE c == Cur
  <2>2. c \in DOMAIN events /\ events' = [events EXCEPT ![c] = e]
    BY <1>1, <2>1
  <2> HIDE DEF c
  <2>3. /\ events' \in Seq(Events) /\ DOMAIN events' = DOMAIN events
        /\ \A j \in DOMAIN events : events'[j] = IF j = c THEN e ELSE events[j]
    BY <1>2, <2>2, Overwrite
  <2> QED
    BY <1>2, <2>3 DEF SameTriggers, c
<1> QED
  BY <1>3, <1>4 DEF Complete

\* CreatePushDeployment adds the deployment of the event at hand.
LEMMA CreateWrites ==
  ASSUME IndInv, Create
  PROVE  /\ SameTriggers /\ todo # <<>>
         /\ \A j \in DOMAIN events :
              IF j = Cur
              THEN /\ events[j].deployment = "none" /\ events'[j].deployment = "queued"
                   /\ events'[j].status = events[j].status /\ events'[j].runs = events[j].runs
              ELSE events'[j] = events[j]
<1> DEFINE c == Cur
           e == [events[c] EXCEPT !.deployment = "queued"]
<1>1. c \in DOMAIN events /\ events[c] \in Events /\ todo # <<>>
  BY AtWork DEF TypeOK, IndInv, WorkerInv, Create
<1>2. /\ e \in Events /\ e.hook = events[c].hook /\ e.batch = events[c].batch
      /\ e.read = events[c].read /\ e.status = events[c].status /\ e.deployment = "queued" /\ e.runs = events[c].runs
  BY <1>1 DEF Events
<1>3. events' = [events EXCEPT ![c] = e] /\ events[c].deployment = "none"
  BY <1>1 DEF Create, Existing, IndInv, TypeOK
<1> HIDE DEF c, e
<1>4. /\ events' \in Seq(Events) /\ DOMAIN events' = DOMAIN events
      /\ \A j \in DOMAIN events : events'[j] = IF j = c THEN e ELSE events[j]
  BY <1>1, <1>2, <1>3, Overwrite DEF IndInv
<1> QED
  BY <1>1, <1>2, <1>3, <1>4 DEF SameTriggers, c

\* The claim of the deployment starts it, once.
LEMMA StartRunWrites ==
  ASSUME IndInv, StartRun, power # "draining"
  PROVE  /\ SameTriggers /\ todo # <<>>
         /\ \A j \in DOMAIN events :
              IF j = Cur
              THEN /\ events[j].deployment = "queued" /\ events'[j].deployment = "running"
                   /\ events'[j].status = events[j].status
                   /\ events'[j].runs = events[j].runs + 1
              ELSE events'[j] = events[j]
<1> DEFINE c == Cur
           r == events[c].runs + 1
           e == [events[c] EXCEPT !.deployment = "running", !.runs = r]
<1>1. c \in DOMAIN events /\ events[c] \in Events /\ todo # <<>>
  BY AtWork DEF TypeOK, IndInv, WorkerInv, StartRun
<1>2. /\ e \in Events /\ e.hook = events[c].hook /\ e.batch = events[c].batch
      /\ e.read = events[c].read /\ e.status = events[c].status /\ e.deployment = "running" /\ e.runs = r
  <2>1. r \in Nat
    BY <1>1 DEF Events
  <2> HIDE DEF r
  <2> QED
    BY <1>1, <2>1 DEF Events
<1>3. events' = [events EXCEPT ![c] = e] /\ events[c].deployment = "queued"
  <2>1. events' = [events EXCEPT ![c].deployment = "running", ![c].runs = @ + 1]
    BY DEF StartRun
  <2>2. events' = [events EXCEPT ![c] = e]
    BY <1>1, <2>1 DEF IndInv, TypeOK
  <2> QED
    BY <2>2 DEF StartRun, WorkerInv, IndInv
<1> HIDE DEF c, e
<1>4. /\ events' \in Seq(Events) /\ DOMAIN events' = DOMAIN events
      /\ \A j \in DOMAIN events : events'[j] = IF j = c THEN e ELSE events[j]
  BY <1>1, <1>2, <1>3, Overwrite DEF IndInv
<1> QED
  BY <1>1, <1>2, <1>3, <1>4 DEF SameTriggers, c

\* The end of the deployment is written, or is not.
LEMMA EndRunWrites ==
  ASSUME IndInv, EndRun
  PROVE  /\ SameTriggers /\ todo # <<>>
         /\ \A j \in DOMAIN events :
              \/ events'[j] = events[j]
              \/ /\ j = Cur /\ events[j].deployment = "running"
                 /\ events'[j].deployment \in {"success", "failed"}
                 /\ events'[j].status = events[j].status /\ events'[j].runs = events[j].runs
<1> DEFINE c == Cur
<1>1. c \in DOMAIN events /\ events[c] \in Events /\ todo # <<>> /\ events[c].deployment = "running"
  BY AtWork DEF TypeOK, IndInv, WorkerInv, EndRun
<1>2. CASE UNCHANGED events
  BY <1>1, <1>2 DEF SameTriggers, IndInv, TypeOK
<1>3. ASSUME NEW s \in {"success", "failed"}, events' = [events EXCEPT ![c].deployment = s]
      PROVE  /\ SameTriggers
             /\ \A j \in DOMAIN events :
                  \/ events'[j] = events[j]
                  \/ /\ j = c /\ events'[j].deployment \in {"success", "failed"}
                     /\ events'[j].status = events[j].status
                     /\ events'[j].runs = events[j].runs
  <2> DEFINE e == [events[c] EXCEPT !.deployment = s]
  <2>1. /\ e \in Events /\ e.hook = events[c].hook /\ e.batch = events[c].batch
        /\ e.read = events[c].read /\ e.status = events[c].status /\ e.deployment = s /\ e.runs = events[c].runs
    BY <1>1 DEF Events
  <2>2. events' = [events EXCEPT ![c] = e]
    BY <1>1, <1>3 DEF IndInv, TypeOK
  <2> HIDE DEF c, e
  <2>3. /\ events' \in Seq(Events) /\ DOMAIN events' = DOMAIN events
        /\ \A j \in DOMAIN events : events'[j] = IF j = c THEN e ELSE events[j]
    BY <1>1, <2>1, <2>2, Overwrite DEF IndInv
  <2> QED
    BY <1>1, <2>1, <2>3 DEF SameTriggers
<1> QED
  BY <1>1, <1>2, <1>3 DEF EndRun

\* An expired lease changes nothing else.
LEMMA LeaseWrites ==
  ASSUME IndInv, NEW i \in DOMAIN events, LeaseExpires(i)
  PROVE  /\ SameTriggers
         /\ \A j \in DOMAIN events :
              /\ events'[j].deployment = events[j].deployment
              /\ events'[j].status = events[j].status /\ events'[j].runs = events[j].runs
<1> DEFINE e == [events[i] EXCEPT !.stale = TRUE]
<1>1. /\ e \in Events /\ e.hook = events[i].hook /\ e.batch = events[i].batch
      /\ e.read = events[i].read /\ e.status = events[i].status /\ e.deployment = events[i].deployment
      /\ e.runs = events[i].runs
  <2>1. events[i] \in Events
    BY DEF IndInv, TypeOK
  <2> QED
    BY <2>1 DEF Events
<1>2. events' = [events EXCEPT ![i] = e]
  BY DEF LeaseExpires, IndInv, TypeOK
<1> HIDE DEF e
<1>3. /\ events' \in Seq(Events) /\ DOMAIN events' = DOMAIN events
      /\ \A j \in DOMAIN events : events'[j] = IF j = i THEN e ELSE events[j]
  BY <1>1, <1>2, Overwrite DEF IndInv
<1> QED
  BY <1>1, <1>3 DEF SameTriggers

\* InterruptPushDeployments fails what was open.
LEMMA RestartWrites ==
  ASSUME IndInv, Restart
  PROVE  /\ SameTriggers
         /\ \A j \in DOMAIN events :
              \/ events'[j] = events[j]
              \/ /\ events[j].deployment \in {"queued", "running"}
                 /\ events'[j].deployment = "failed"
                 /\ events'[j].status = events[j].status /\ events'[j].runs = events[j].runs
<1>1. events' = [j \in DOMAIN events |-> Interrupted(events[j])] /\ events \in Seq(Events)
  BY DEF Restart, IndInv, TypeOK
<1>2. ASSUME NEW j \in DOMAIN events
      PROVE  /\ events'[j] \in Events /\ events'[j].hook = events[j].hook
             /\ events'[j].batch = events[j].batch /\ events'[j].read = events[j].read
             /\ \/ events'[j] = events[j]
                \/ /\ events[j].deployment \in {"queued", "running"}
                   /\ events'[j].deployment = "failed"
                   /\ events'[j].status = events[j].status /\ events'[j].runs = events[j].runs
  <2>1. events[j] \in Events /\ events'[j] = Interrupted(events[j])
    BY <1>1
  <2> QED
    BY <2>1 DEF Interrupted, Events
<1>3. events' \in Seq(Events) /\ DOMAIN events' = DOMAIN events
  <2>1. DOMAIN events = 1 .. Len(events) /\ Len(events) \in Nat
    BY <1>1
  <2>2. events' \in [1 .. Len(events) -> Events]
    BY <1>1, <1>2, <2>1
  <2> QED
    BY <1>1, <2>1, <2>2, SeqDef
<1> QED
  BY <1>2, <1>3 DEF SameTriggers

\* A tick lists the stale events, empties the windows that are due and appends
\* one event for each, which the worker has to do.
LEMMA TickWrites ==
  ASSUME IndInv, Tick
  PROVE  \E claims \in Seq(Hooks) :
           /\ \A k, l \in DOMAIN claims : k # l => claims[k] # claims[l]
           /\ \A k \in DOMAIN claims : Enabled(claims[k]) /\ hook[claims[k]].due
           /\ hook' = [h \in Hooks |-> IF Enabled(h) /\ hook[h].due
                                       THEN Claimed(hook[h]) ELSE hook[h]]
           /\ events' \in Seq(Events) /\ Len(events') = Len(events) + Len(claims)
           /\ \A i \in DOMAIN events : events'[i] = events[i]
           /\ \A k \in DOMAIN claims : events'[Len(events) + k] = NewEvent(claims[k])
           /\ todo' \in Seq([event : DOMAIN events', recovery : BOOLEAN])
           /\ \A k \in DOMAIN todo' : ~todo'[k].recovery =>
                \E c \in DOMAIN claims : todo'[k].event = Len(events) + c
<1> DEFINE due == {h \in Hooks : Enabled(h) /\ hook[h].due}
<1>1. PICK stale \in SetToSeqs(StaleRuns), claims \in SetToSeqs(due) :
        /\ hook' = [h \in Hooks |-> IF h \in due THEN Claimed(hook[h]) ELSE hook[h]]
        /\ events' = events \o [k \in DOMAIN claims |-> NewEvent(claims[k])]
        /\ todo' = [k \in DOMAIN stale |-> [event |-> stale[k], recovery |-> TRUE]]
                   \o [k \in DOMAIN claims |-> [event |-> Len(events) + k, recovery |-> FALSE]]
  BY DEF Tick
<1> DEFINE m == Cardinality(due)
           n == Cardinality(StaleRuns)
           N == Len(events)
<1>2. events \in Seq(Events) /\ N \in Nat /\ DOMAIN events = 1 .. N
  BY DEF IndInv, TypeOK
<1>3. m \in Nat
  <2>1. IsFiniteSet(due)
    BY HookAssumption, FS_Subset
  <2> QED
    BY <2>1, FS_CardinalityType
<1>4. n \in Nat
  <2>1. IsFiniteSet(1 .. N)
    BY <1>2, FS_Interval
  <2>2. StaleRuns \subseteq 1 .. N
    BY <1>2 DEF StaleRuns
  <2>3. IsFiniteSet(StaleRuns)
    BY <2>1, <2>2, FS_Subset
  <2> QED
    BY <2>3, FS_CardinalityType
<1>5. claims \in [1 .. m -> due] /\ \A k, l \in 1 .. m : k # l => claims[k] # claims[l]
  BY DEF SetToSeqs
<1>6. stale \in [1 .. n -> 1 .. N]
  <2>1. stale \in [1 .. n -> StaleRuns]
    BY DEF SetToSeqs
  <2> QED
    BY <2>1, <1>2 DEF StaleRuns
<1> HIDE DEF m, n
<1>7. claims \in [1 .. m -> Hooks] /\ \A k \in 1 .. m : Enabled(claims[k]) /\ hook[claims[k]].due
  BY <1>5
<1> HIDE DEF due
<1> DEFINE new == [k \in 1 .. m |-> NewEvent(claims[k])]
           old == [k \in 1 .. n |-> [event |-> stale[k], recovery |-> TRUE]]
           run == [k \in 1 .. m |-> [event |-> N + k, recovery |-> FALSE]]
           Run == [event : 1 .. (N + m), recovery : BOOLEAN]
<1>8. new \in Seq(Events) /\ Len(new) = m /\ \A k \in 1 .. m : new[k] = NewEvent(claims[k])
  <2>1. ASSUME NEW k \in 1 .. m PROVE NewEvent(claims[k]) \in Events
    <3>1. claims[k] \in Hooks /\ hook[claims[k]].pending # {}
          /\ hook[claims[k]].pending \subseteq Triggers
      BY <1>7 DEF IndInv, TypeOK, WindowInv, HookRows
    <3>2. ReadByUpdate(claims[k]) \subseteq Triggers
      BY DEF ReadByUpdate, IndInv, TypeOK, Updates
    <3> QED
      BY <3>1, <3>2 DEF NewEvent, Events
  <2>2. new \in [1 .. m -> Events]
    BY <2>1
  <2> QED
    BY <1>3, <2>2, SeqDef
<1>9. events' = events \o new
  BY <1>1, <1>5
<1>10. /\ events' \in Seq(Events) /\ Len(events') = N + m
       /\ \A i \in DOMAIN events : events'[i] = events[i]
       /\ \A k \in 1 .. m : events'[N + k] = NewEvent(claims[k])
  <2> HIDE DEF new, N
  <2>1. events' \in Seq(Events) /\ Len(events') = N + m
    BY <1>2, <1>8, <1>9, ConcatProperties DEF N
  <2>2. ASSUME NEW i \in DOMAIN events PROVE events'[i] = events[i]
    BY <1>2, <1>8, <1>9, ConcatProperties DEF N
  <2>3. ASSUME NEW k \in 1 .. m PROVE events'[N + k] = NewEvent(claims[k])
    <3>1. events'[N + k] = new[k]
      BY <1>2, <1>3, <1>8, <1>9 DEF N
    <3> QED
      BY <1>8, <3>1
  <2> QED
    BY <2>1, <2>2, <2>3
<1> HIDE DEF new
<1>11. old \in Seq(Run) /\ Len(old) = n /\ \A k \in 1 .. n : old[k].recovery = TRUE
  <2>1. \A k \in 1 .. n : [event |-> stale[k], recovery |-> TRUE] \in Run
    BY <1>2, <1>3, <1>6
  <2>2. old \in [1 .. n -> Run]
    BY <2>1
  <2> QED
    BY <1>4, <2>2, SeqDef
<1>12. run \in Seq(Run) /\ Len(run) = m /\ \A k \in 1 .. m : run[k].event = N + k
  <2>1. \A k \in 1 .. m : [event |-> N + k, recovery |-> FALSE] \in Run
    BY <1>2, <1>3
  <2>2. run \in [1 .. m -> Run]
    BY <2>1
  <2> QED
    BY <1>3, <2>2, SeqDef
<1>13. todo' = old \o run
  BY <1>1, <1>5, <1>6
<1> HIDE DEF old, run, Run
<1>14. todo' \in Seq(Run) /\ Len(todo') = n + m
       /\ \A k \in 1 .. (n + m) : todo'[k] = IF k <= n THEN old[k] ELSE run[k - n]
  BY <1>3, <1>4, <1>11, <1>12, <1>13, ConcatProperties
<1>15. ASSUME NEW k \in DOMAIN todo', ~todo'[k].recovery
       PROVE  \E c \in 1 .. m : todo'[k].event = N + c
  <2>1. k \in 1 .. (n + m)
    BY <1>3, <1>4, <1>14
  <2>2. k > n
    BY <1>4, <1>11, <1>14, <1>15, <2>1
  <2>3. k - n \in 1 .. m /\ todo'[k] = run[k - n]
    BY <1>3, <1>4, <1>14, <2>1, <2>2
  <2> QED
    BY <1>12, <2>3
<1>16. DOMAIN events' = 1 .. (N + m)
  BY <1>10
<1>17. todo' \in Seq([event : DOMAIN events', recovery : BOOLEAN])
  BY <1>14, <1>16 DEF Run
<1>18. hook' = [h \in Hooks |-> IF Enabled(h) /\ hook[h].due THEN Claimed(hook[h]) ELSE hook[h]]
  BY <1>1 DEF due
<1>19. claims \in Seq(Hooks) /\ Len(claims) = m /\ DOMAIN claims = 1 .. m
  BY <1>3, <1>7, SeqDef
<1> QED
  BY <1>5, <1>7, <1>10, <1>15, <1>17, <1>18, <1>19, ZenonT(60)

\* A trigger is newer than all before, and restarts the windows it joins.
LEMMA TriggerWrites ==
  ASSUME IndInv, NEW S \in SUBSET Hooks, Trigger(S)
  PROVE  /\ accepted' = accepted + 1 /\ accepted' \in 0 .. MaxTriggers
         /\ hook' \in [Hooks -> HookRows]
         /\ \A h \in Hooks :
              \/ hook'[h] = hook[h]
              \/ /\ Enabled(h) /\ hook'[h].life = hook[h].life
                 /\ hook'[h].enabled = hook[h].enabled /\ hook'[h].due = FALSE
                 /\ hook'[h].pending = hook[h].pending \cup {accepted + 1}
<1>1. accepted' = accepted + 1 /\ accepted' \in 0 .. MaxTriggers /\ accepted + 1 \in Triggers
  BY BoundAssumption DEF Trigger, IndInv, TypeOK, Triggers
<1>2. ASSUME NEW h \in Hooks
      PROVE  hook'[h] = IF h \in S /\ Enabled(h)
                        THEN [hook[h] EXCEPT !.pending = @ \cup {accepted + 1}, !.due = FALSE]
                        ELSE hook[h]
  BY DEF Trigger, Queue
<1>3. ASSUME NEW h \in Hooks
      PROVE  /\ hook'[h] \in HookRows
             /\ \/ hook'[h] = hook[h]
                \/ /\ Enabled(h) /\ hook'[h].life = hook[h].life
                   /\ hook'[h].enabled = hook[h].enabled /\ hook'[h].due = FALSE
                   /\ hook'[h].pending = hook[h].pending \cup {accepted + 1}
  <2>1. hook[h] \in HookRows
    BY DEF IndInv, TypeOK
  <2>2. CASE h \in S /\ Enabled(h)
    <3> DEFINE p == hook[h].pending \cup {accepted + 1}
    <3>1. hook'[h] = [hook[h] EXCEPT !.pending = p, !.due = FALSE]
      BY <1>2, <2>1, <2>2
    <3>2. p \in SUBSET Triggers
      BY <1>1, <2>1 DEF HookRows
    <3> HIDE DEF p
    <3>3. hook'[h] \in HookRows /\ hook'[h].life = hook[h].life
          /\ hook'[h].enabled = hook[h].enabled /\ hook'[h].due = FALSE
          /\ hook'[h].pending = p
      BY <2>1, <3>1, <3>2 DEF HookRows
    <3> QED
      BY <2>2, <3>3 DEF p
  <2>3. CASE ~(h \in S /\ Enabled(h))
    BY <1>2, <2>1, <2>3
  <2> QED
    BY <2>2, <2>3
<1>4. hook' \in [Hooks -> HookRows]
  BY <1>3 DEF Trigger, Queue
<1> QED
  BY <1>1, <1>3, <1>4

-----------------------------------------------------------------------------
(* The steps preserve the invariant.                                       *)

\* Every step keeps the types.
LEMMA TypeStep == IndInv /\ [Next]_vars => TypeOK'
<1> SUFFICES ASSUME IndInv, [Next]_vars PROVE TypeOK'
  OBVIOUS
<1> USE DEF IndInv, TypeOK, HookRows, Events, Updates, Points, Triggers,
     WindowInv, Live, Enabled, workerVars, boundVars
<1>1. ASSUME NEW h \in Hooks, NEW on \in BOOLEAN, CreateReleaseHook(h, on)
     PROVE TypeOK'
  <2>1. hook[h] \in HookRows
    OBVIOUS
  <2>2. [hook[h] EXCEPT !.life = "live", !.enabled = on] \in HookRows
    BY <2>1
  <2>3. hook' = [hook EXCEPT ![h] = [hook[h] EXCEPT !.life = "live", !.enabled = on]]
    BY <1>1 DEF CreateReleaseHook
  <2> QED
    BY <1>1, <2>2, <2>3 DEF CreateReleaseHook
<1>2. ASSUME NEW h \in Hooks, DeleteReleaseHook(h) PROVE TypeOK'
  BY <1>2 DEF DeleteReleaseHook
<1>3. ASSUME NEW h \in Hooks, NEW on \in BOOLEAN \cup {None}, UpdateReads(h,
     on) PROVE TypeOK'
  BY <1>3 DEF UpdateReads
<1>4. ASSUME NEW S \in SUBSET Hooks, Trigger(S) PROVE TypeOK'
  BY <1>4, TriggerWrites DEF Trigger
<1>5. ASSUME UpdateWrites PROVE TypeOK'
  <2> DEFINE h == update.hook
  <2>1. update \in Updates /\ h \in Hooks /\ hook[h] \in HookRows
    BY <1>5 DEF UpdateWrites
  <2>2. Written(hook[h], update.enabled) \in HookRows
    BY <2>1 DEF Written
  <2>3. hook' \in [Hooks -> HookRows]
    BY <1>5, <2>1, <2>2 DEF UpdateWrites
  <2>4. [update EXCEPT !.written = TRUE] \in Updates
    BY <2>1
  <2>5. update' \in Updates \cup {None}
    BY <1>5, <2>4 DEF UpdateWrites
  <2> QED
    BY <1>5, <2>3, <2>5 DEF UpdateWrites
<1>6. ASSUME UpdateRecords PROVE TypeOK'
  BY <1>6 DEF UpdateRecords
<1>7. ASSUME NEW h \in Hooks, WindowElapses(h) PROVE TypeOK'
  BY <1>7, ZenonT(60) DEF WindowElapses
<1>8. ASSUME NEW i \in DOMAIN events, LeaseExpires(i) PROVE TypeOK'
  BY <1>8, LeaseWrites DEF LeaseExpires, SameTriggers
<1>9. ASSUME Tick PROVE TypeOK'
  <2>1. hook' \in [Hooks -> HookRows]
    <3>1. hook' = [h \in Hooks |-> IF Enabled(h) /\ hook[h].due THEN Claimed(hook[h]) ELSE hook[h]]
      BY <1>9, TickWrites
    <3>2. \A h \in Hooks : Claimed(hook[h]) \in HookRows
      BY DEF Claimed
    <3> HIDE DEF HookRows
    <3> QED
      BY <3>1, <3>2
  <2>2. events' \in Seq(Events) /\ todo' \in Seq([event : DOMAIN events', recovery : BOOLEAN])
    BY <1>9, TickWrites
  <2> HIDE DEF HookRows, Events
  <2> QED
    BY <1>9, <2>1, <2>2 DEF Tick
<1>10. ASSUME Refuse PROVE TypeOK'
  <2>1. todo # <<>>
    BY <1>10 DEF WorkerInv, Refuse, Complete, NextRun, Fault
  <2>2. SameTriggers
    BY <1>10, <2>1, CompleteWrites DEF Refuse
  <2>3. todo' \in Seq([event : DOMAIN events', recovery : BOOLEAN])
    BY <1>10, <2>1, <2>2, AtWork DEF SameTriggers, Refuse, Complete, NextRun, Fault
  <2> HIDE DEF HookRows, Events, Updates
  <2> QED
    BY <1>10, <2>2, <2>3, BoundAssumption DEF SameTriggers, Refuse, Complete, NextRun, Fault
<1>11. ASSUME Reuse PROVE TypeOK'
  BY <1>11 DEF Reuse, Existing
<1>12. ASSUME Create PROVE TypeOK'
  <2>1. todo # <<>>
    BY <1>12 DEF WorkerInv, Create
  <2>2. SameTriggers
    BY <1>12, <2>1, CreateWrites DEF Create
  <2>3. todo' \in Seq([event : DOMAIN events', recovery : BOOLEAN])
    BY <1>12, <2>1, <2>2, AtWork DEF SameTriggers, Create
  <2> HIDE DEF HookRows, Events, Updates
  <2> QED
    BY <1>12, <2>2, <2>3, BoundAssumption DEF SameTriggers, Create
<1>13. ASSUME StartRun PROVE TypeOK'
  <2>1. CASE power # "draining"
    <3>1. SameTriggers
      BY <1>13, <2>1, StartRunWrites
    <3> HIDE DEF HookRows, Events, Updates
    <3> QED
      BY <1>13, <3>1 DEF SameTriggers, StartRun
  <2>2. CASE power = "draining"
    BY <1>13, <2>2 DEF StartRun
  <2> QED
    BY <2>1, <2>2
<1>14. ASSUME EndRun PROVE TypeOK'
  <2>1. todo # <<>>
    BY <1>14 DEF WorkerInv, EndRun, Fault
  <2>2. SameTriggers
    BY <1>14, <2>1, EndRunWrites DEF EndRun
  <2>3. todo' \in Seq([event : DOMAIN events', recovery : BOOLEAN])
    BY <1>14, <2>1, <2>2, AtWork DEF SameTriggers, EndRun, Fault
  <2> HIDE DEF HookRows, Events, Updates
  <2> QED
    BY <1>14, <2>2, <2>3, BoundAssumption DEF SameTriggers, EndRun, Fault
<1>15. ASSUME Report PROVE TypeOK'
  <2>1. todo # <<>>
    BY <1>15 DEF WorkerInv, Report, Complete, NextRun, Fault
  <2>2. SameTriggers
    BY <1>15, <2>1, CompleteWrites DEF Report, EventStatus
  <2>3. todo' \in Seq([event : DOMAIN events', recovery : BOOLEAN])
    BY <1>15, <2>1, <2>2, AtWork DEF SameTriggers, Report, Complete, NextRun, Fault
  <2> HIDE DEF HookRows, Events, Updates
  <2> QED
    BY <1>15, <2>2, <2>3, BoundAssumption DEF SameTriggers, Report, Complete, NextRun, Fault
<1>16. ASSUME WorkerEnds PROVE TypeOK'
  BY <1>16 DEF WorkerEnds
<1>17. ASSUME Drain PROVE TypeOK'
  <2>1. faults' \in 0 .. MaxFaults /\ pc' \in Points /\ power' = "draining"
    BY <1>17, BoundAssumption DEF Drain, Fault
  <2>2. UNCHANGED <<hook, events, cancelled, todo, update, accepted>>
    BY <1>17 DEF Drain
  <2> HIDE DEF Events, HookRows, Updates, Points
  <2> QED
    BY <2>1, <2>2
<1>18. ASSUME Exit PROVE TypeOK'
  BY <1>18 DEF Exit, Down
<1>19. ASSUME Crash PROVE TypeOK'
  BY <1>19, BoundAssumption DEF Crash, Down, Fault
<1>20. ASSUME Restart PROVE TypeOK'
  BY <1>20, RestartWrites DEF Restart, SameTriggers
<1>21. ASSUME UNCHANGED vars PROVE TypeOK'
  BY <1>21 DEF vars
<1> HIDE DEF IndInv, TypeOK, HookRows, Events, Updates, Points, Triggers,
     WindowInv, Live, Enabled, workerVars, boundVars
<1> QED
  BY <1>1, <1>2, <1>3, <1>4, <1>5, <1>6, <1>7, <1>8, <1>9, <1>10, <1>11,
       <1>12, <1>13, <1>14, <1>15, <1>16, <1>17, <1>18, <1>19, <1>20, <1>21
       DEF Next, Operator, Handler, Time, Worker, Life

\* Every step keeps the windows.
LEMMA WindowStep == IndInv /\ [Next]_vars => WindowInv'
<1> SUFFICES ASSUME IndInv, [Next]_vars PROVE WindowInv'
  OBVIOUS
<1> USE DEF IndInv, TypeOK, HookRows, Updates, WindowInv, UpdateInv, Live,
     Enabled, workerVars, boundVars
<1>1. ASSUME NEW h \in Hooks, NEW on \in BOOLEAN, CreateReleaseHook(h, on)
     PROVE WindowInv'
  BY <1>1 DEF CreateReleaseHook
<1>2. ASSUME NEW h \in Hooks, DeleteReleaseHook(h) PROVE WindowInv'
  BY <1>2 DEF DeleteReleaseHook
<1>3. ASSUME NEW h \in Hooks, NEW on \in BOOLEAN \cup {None}, UpdateReads(h,
     on) PROVE WindowInv'
  BY <1>3 DEF UpdateReads
<1>4. ASSUME NEW S \in SUBSET Hooks, Trigger(S) PROVE WindowInv'
  <2>1. ASSUME NEW h \in Hooks PROVE cancelled'[h] = cancelled[h]
    BY <1>4 DEF Trigger
  <2>2. accepted \in Nat /\ accepted' = accepted + 1
    BY <1>4 DEF Trigger
  <2>3. ASSUME NEW h \in Hooks
        PROVE  \/ hook'[h] = hook[h]
               \/ /\ Enabled(h) /\ hook'[h].life = hook[h].life
                  /\ hook'[h].enabled = hook[h].enabled /\ hook'[h].due = FALSE
                  /\ hook'[h].pending = hook[h].pending \cup {accepted + 1}
    BY <1>4, TriggerWrites
  <2> SUFFICES ASSUME NEW h \in Hooks
               PROVE  /\ ~(hook'[h].life = "live" /\ hook'[h].enabled) =>
                           hook'[h].pending = {} /\ ~hook'[h].due
                      /\ hook'[h].due => hook'[h].pending # {}
                      /\ hook'[h].pending \subseteq 1 .. accepted'
                      /\ cancelled'[h] \subseteq 1 .. accepted'
                      /\ hook'[h].pending \cap cancelled'[h] = {}
    OBVIOUS
  <2>4. CASE hook'[h] = hook[h]
    BY <2>1, <2>2, <2>4
  <2>5. CASE hook'[h] # hook[h]
    <3>1. /\ hook'[h].life = "live" /\ hook'[h].enabled /\ hook'[h].due = FALSE
          /\ hook'[h].pending = hook[h].pending \cup {accepted + 1}
      BY <2>3, <2>5
    <3>2. /\ hook[h].pending \subseteq 1 .. accepted /\ cancelled[h] \subseteq 1 .. accepted
          /\ hook[h].pending \cap cancelled[h] = {}
      OBVIOUS
    <3>3. hook'[h].pending \subseteq 1 .. accepted' /\ cancelled'[h] \subseteq 1 .. accepted'
      BY <2>1, <2>2, <3>1, <3>2
    <3>4. hook'[h].pending \cap cancelled'[h] = {}
      BY <2>1, <2>2, <3>1, <3>2
    <3> QED
      BY <3>1, <3>3, <3>4
  <2> QED
    BY <2>4, <2>5
<1>5. ASSUME UpdateWrites PROVE WindowInv'
  BY <1>5 DEF UpdateWrites, Written
<1>6. ASSUME UpdateRecords PROVE WindowInv'
  BY <1>6 DEF UpdateRecords
<1>7. ASSUME NEW h \in Hooks, WindowElapses(h) PROVE WindowInv'
  BY <1>7 DEF WindowElapses
<1>8. ASSUME NEW i \in DOMAIN events, LeaseExpires(i) PROVE WindowInv'
  BY <1>8 DEF LeaseExpires
<1>9. ASSUME Tick PROVE WindowInv'
  <2>1. ASSUME NEW h \in Hooks
        PROVE  \/ hook'[h] = hook[h]
               \/ /\ hook'[h].pending = {} /\ hook'[h].due = FALSE
                  /\ hook'[h].life = hook[h].life /\ hook'[h].enabled = hook[h].enabled
    <3>1. hook[h] \in HookRows /\ (hook'[h] = hook[h] \/ hook'[h] = Claimed(hook[h]))
      BY <1>9, TickWrites
    <3> QED
      BY <3>1 DEF Claimed
  <2> QED
    BY <1>9, <2>1 DEF Tick
<1>10. ASSUME Refuse PROVE WindowInv'
  BY <1>10 DEF Refuse, Complete, NextRun, Fault
<1>11. ASSUME Reuse PROVE WindowInv'
  BY <1>11 DEF Reuse, Existing
<1>12. ASSUME Create PROVE WindowInv'
  BY <1>12 DEF Create, Existing
<1>13. ASSUME StartRun PROVE WindowInv'
  BY <1>13 DEF StartRun
<1>14. ASSUME EndRun PROVE WindowInv'
  BY <1>14 DEF EndRun, Fault
<1>15. ASSUME Report PROVE WindowInv'
  BY <1>15 DEF Report, Complete, NextRun, Fault, EventStatus
<1>16. ASSUME WorkerEnds PROVE WindowInv'
  BY <1>16 DEF WorkerEnds
<1>17. ASSUME Drain PROVE WindowInv'
  BY <1>17 DEF Drain, Fault
<1>18. ASSUME Exit PROVE WindowInv'
  BY <1>18 DEF Exit, Down
<1>19. ASSUME Crash PROVE WindowInv'
  BY <1>19 DEF Crash, Down, Fault
<1>20. ASSUME Restart PROVE WindowInv'
  BY <1>20 DEF Restart, Interrupted
<1>21. ASSUME UNCHANGED vars PROVE WindowInv'
  BY <1>21 DEF vars
<1> HIDE DEF IndInv, TypeOK, HookRows, Updates, WindowInv, UpdateInv, Live,
     Enabled, workerVars, boundVars
<1> QED
  BY <1>1, <1>2, <1>3, <1>4, <1>5, <1>6, <1>7, <1>8, <1>9, <1>10, <1>11,
       <1>12, <1>13, <1>14, <1>15, <1>16, <1>17, <1>18, <1>19, <1>20, <1>21
       DEF Next, Operator, Handler, Time, Worker, Life

\* Every step keeps what an update knows.
LEMMA UpdateStep == IndInv /\ [Next]_vars => UpdateInv'
<1> SUFFICES ASSUME IndInv, [Next]_vars PROVE UpdateInv'
  OBVIOUS
<1> USE DEF IndInv, TypeOK, HookRows, Updates, WindowInv, UpdateInv, Live,
     Enabled, workerVars, boundVars
<1>1. ASSUME NEW h \in Hooks, NEW on \in BOOLEAN, CreateReleaseHook(h, on)
     PROVE UpdateInv'
  BY <1>1 DEF CreateReleaseHook
<1>2. ASSUME NEW h \in Hooks, DeleteReleaseHook(h) PROVE UpdateInv'
  BY <1>2 DEF DeleteReleaseHook
<1>3. ASSUME NEW h \in Hooks, NEW on \in BOOLEAN \cup {None}, UpdateReads(h,
     on) PROVE UpdateInv'
  BY <1>3 DEF UpdateReads
<1>4. ASSUME NEW S \in SUBSET Hooks, Trigger(S) PROVE UpdateInv'
  <2>1. UNCHANGED update
    BY <1>4 DEF Trigger
  <2>2. CASE update = None
    BY <2>1, <2>2
  <2>3. CASE update # None
    <3>1. update \in Updates /\ update.hook \in Hooks /\ accepted \in Nat
      BY <2>3
    <3>2. \/ hook'[update.hook].pending = hook[update.hook].pending
          \/ hook'[update.hook].pending = hook[update.hook].pending \cup {accepted + 1}
      BY <1>4, <3>1, TriggerWrites
    <3>3. accepted' = accepted + 1
      BY <1>4 DEF Trigger
    <3> QED
      BY <2>1, <2>3, <3>1, <3>2, <3>3
  <2> QED
    BY <2>2, <2>3
<1>5. ASSUME UpdateWrites PROVE UpdateInv'
  BY <1>5 DEF UpdateWrites, Written
<1>6. ASSUME UpdateRecords PROVE UpdateInv'
  BY <1>6 DEF UpdateRecords
<1>7. ASSUME NEW h \in Hooks, WindowElapses(h) PROVE UpdateInv'
  BY <1>7 DEF WindowElapses
<1>8. ASSUME NEW i \in DOMAIN events, LeaseExpires(i) PROVE UpdateInv'
  BY <1>8 DEF LeaseExpires
<1>9. ASSUME Tick PROVE UpdateInv'
  <2>1. ASSUME NEW h \in Hooks
        PROVE  \/ hook'[h] = hook[h]
               \/ /\ hook'[h].pending = {} /\ hook'[h].due = FALSE
                  /\ hook'[h].life = hook[h].life /\ hook'[h].enabled = hook[h].enabled
    <3>1. hook[h] \in HookRows /\ (hook'[h] = hook[h] \/ hook'[h] = Claimed(hook[h]))
      BY <1>9, TickWrites
    <3> QED
      BY <3>1 DEF Claimed
  <2> QED
    BY <1>9, <2>1 DEF Tick
<1>10. ASSUME Refuse PROVE UpdateInv'
  BY <1>10 DEF Refuse, Complete, NextRun, Fault
<1>11. ASSUME Reuse PROVE UpdateInv'
  BY <1>11 DEF Reuse, Existing
<1>12. ASSUME Create PROVE UpdateInv'
  BY <1>12 DEF Create, Existing
<1>13. ASSUME StartRun PROVE UpdateInv'
  BY <1>13 DEF StartRun
<1>14. ASSUME EndRun PROVE UpdateInv'
  BY <1>14 DEF EndRun, Fault
<1>15. ASSUME Report PROVE UpdateInv'
  BY <1>15 DEF Report, Complete, NextRun, Fault, EventStatus
<1>16. ASSUME WorkerEnds PROVE UpdateInv'
  BY <1>16 DEF WorkerEnds
<1>17. ASSUME Drain PROVE UpdateInv'
  BY <1>17 DEF Drain, Fault
<1>18. ASSUME Exit PROVE UpdateInv'
  BY <1>18 DEF Exit, Down
<1>19. ASSUME Crash PROVE UpdateInv'
  BY <1>19 DEF Crash, Down, Fault
<1>20. ASSUME Restart PROVE UpdateInv'
  BY <1>20 DEF Restart, Interrupted
<1>21. ASSUME UNCHANGED vars PROVE UpdateInv'
  BY <1>21 DEF vars
<1> HIDE DEF IndInv, TypeOK, HookRows, Updates, WindowInv, UpdateInv, Live,
     Enabled, workerVars, boundVars
<1> QED
  BY <1>1, <1>2, <1>3, <1>4, <1>5, <1>6, <1>7, <1>8, <1>9, <1>10, <1>11,
       <1>12, <1>13, <1>14, <1>15, <1>16, <1>17, <1>18, <1>19, <1>20, <1>21
       DEF Next, Operator, Handler, Time, Worker, Life

\* Every step keeps the events.
LEMMA EventStep == IndInv /\ [Next]_vars => EventInv'
<1> SUFFICES ASSUME IndInv, [Next]_vars PROVE EventInv'
  OBVIOUS
<1> USE DEF IndInv, TypeOK, Events, EventInv, WorkerInv, workerVars, boundVars
<1>1. ASSUME NEW h \in Hooks, NEW on \in BOOLEAN, CreateReleaseHook(h, on)
     PROVE EventInv'
  BY <1>1 DEF CreateReleaseHook
<1>2. ASSUME NEW h \in Hooks, DeleteReleaseHook(h) PROVE EventInv'
  BY <1>2 DEF DeleteReleaseHook
<1>3. ASSUME NEW h \in Hooks, NEW on \in BOOLEAN \cup {None}, UpdateReads(h,
     on) PROVE EventInv'
  BY <1>3 DEF UpdateReads
<1>4. ASSUME NEW S \in SUBSET Hooks, Trigger(S) PROVE EventInv'
  <2>1. accepted \in Nat /\ accepted' = accepted + 1 /\ UNCHANGED events
    BY <1>4 DEF Trigger
  <2> QED
    BY SMTT(30), <2>1
<1>5. ASSUME UpdateWrites PROVE EventInv'
  BY <1>5 DEF UpdateWrites, Written
<1>6. ASSUME UpdateRecords PROVE EventInv'
  BY <1>6 DEF UpdateRecords
<1>7. ASSUME NEW h \in Hooks, WindowElapses(h) PROVE EventInv'
  BY <1>7 DEF WindowElapses
<1>8. ASSUME NEW i \in DOMAIN events, LeaseExpires(i) PROVE EventInv'
  BY <1>8, LeaseWrites, SMTT(30) DEF LeaseExpires, SameTriggers
<1>9. ASSUME Tick PROVE EventInv'
  <2>1. PICK claims \in Seq(Hooks) :
          /\ \A k \in DOMAIN claims : Enabled(claims[k]) /\ hook[claims[k]].due
          /\ events' \in Seq(Events) /\ Len(events') = Len(events) + Len(claims)
          /\ \A i \in DOMAIN events : events'[i] = events[i]
          /\ \A k \in DOMAIN claims : events'[Len(events) + k] = NewEvent(claims[k])
    BY <1>9, TickWrites
  <2> DEFINE m == Len(claims)
  <2>0. m \in Nat /\ DOMAIN claims = 1 .. m
    OBVIOUS
  <2>2. UNCHANGED accepted
    BY <1>9 DEF Tick
  <2> SUFFICES ASSUME NEW i \in DOMAIN events'
               PROVE  /\ events'[i].runs <= 1
                      /\ events'[i].deployment \in {"none", "queued"} => events'[i].runs = 0
                      /\ events'[i].status = "success" => events'[i].deployment = "success"
                      /\ events'[i].batch \subseteq 1 .. accepted'
    OBVIOUS
  <2>3. CASE i \in DOMAIN events
    BY <2>1, <2>2, <2>3
  <2>4. CASE i \notin DOMAIN events
    <3>1. Len(events) \in Nat /\ i \in 1 .. (Len(events) + m) /\ ~(i \in 1 .. Len(events))
      <4>1. DOMAIN events = 1 .. Len(events) /\ Len(events) \in Nat
        OBVIOUS
      <4>2. DOMAIN events' = 1 .. (Len(events) + m)
        BY <2>0, <2>1, <4>1
      <4> HIDE DEF m
      <4> QED
        BY <2>0, <2>4, <4>1, <4>2
    <3>2. i - Len(events) \in 1 .. m /\ i = Len(events) + (i - Len(events))
      BY <3>1, SMTT(30)
    <3>3. events'[i] = NewEvent(claims[i - Len(events)])
      BY <2>0, <2>1, <3>2
    <3>4. hook[claims[i - Len(events)]].pending \subseteq 1 .. accepted
      BY <2>0, <3>2 DEF WindowInv
    <3> QED
      BY <2>2, <3>3, <3>4 DEF NewEvent
  <2> QED
    BY <2>3, <2>4
<1>10. ASSUME Refuse PROVE EventInv'
  <2>1. todo # <<>> /\ UNCHANGED accepted
    BY <1>10 DEF Refuse
  <2>2. /\ SameTriggers
        /\ \A j \in DOMAIN events :
             \/ events'[j] = events[j]
             \/ /\ events'[j].status = "failed" /\ events'[j].deployment = events[j].deployment
                /\ events'[j].runs = events[j].runs
    BY <1>10, <2>1, CompleteWrites DEF Refuse
  <2> QED
    BY <2>1, <2>2, ZenonT(60) DEF SameTriggers
<1>11. ASSUME Reuse PROVE EventInv'
  BY <1>11 DEF Reuse, Existing
<1>12. ASSUME Create PROVE EventInv'
  <2>1. /\ SameTriggers /\ UNCHANGED accepted
        /\ \A j \in DOMAIN events :
              \/ events'[j] = events[j]
              \/ /\ events[j].deployment = "none" /\ events'[j].deployment = "queued"
                 /\ events'[j].status = events[j].status /\ events'[j].runs = events[j].runs
    BY <1>12, CreateWrites DEF Create
  <2> QED
    BY SMTT(30), <2>1 DEF SameTriggers
<1>13. ASSUME StartRun PROVE EventInv'
  <2>1. CASE power # "draining"
    <3>1. /\ SameTriggers /\ UNCHANGED accepted
          /\ \A j \in DOMAIN events :
               IF j = Cur
               THEN /\ events[j].deployment = "queued" /\ events'[j].deployment = "running"
                    /\ events'[j].status = events[j].status
                    /\ events'[j].runs = events[j].runs + 1
               ELSE events'[j] = events[j]
      BY <1>13, <2>1, StartRunWrites DEF StartRun
    <3>2. ASSUME NEW j \in DOMAIN events
          PROVE  /\ events'[j].runs <= 1
                 /\ events'[j].deployment \in {"none", "queued"} => events'[j].runs = 0
                 /\ events'[j].status = "success" => events'[j].deployment = "success"
      <4>1. events[j].runs \in Nat
        BY RowTypes
      <4>2. CASE j = Cur
        <5>1. /\ events[j].deployment = "queued" /\ events'[j].deployment = "running"
              /\ events'[j].status = events[j].status /\ events'[j].runs = events[j].runs + 1
          BY <3>1, <4>2
        <5>2. events[j].runs = 0 /\ events[j].status # "success"
          BY <5>1
        <5> QED
          BY <5>1, <5>2
      <4>3. CASE j # Cur
        BY <3>1, <4>3
      <4> QED
        BY <4>2, <4>3
    <3> QED
      BY <3>1, <3>2 DEF SameTriggers
  <2>2. CASE power = "draining"
    BY <1>13, <2>2 DEF StartRun
  <2> QED
    BY <2>1, <2>2
<1>14. ASSUME EndRun PROVE EventInv'
  BY ZenonT(30), <1>14, EndRunWrites DEF EndRun, SameTriggers
<1>15. ASSUME Report PROVE EventInv'
  <2>1. todo # <<>> /\ UNCHANGED accepted
    BY <1>15 DEF Report
  <2> DEFINE s == EventStatus(events[Cur].deployment)
  <2>2. s \in {"success", "failed"} /\ (s = "success" => events[Cur].deployment = "success")
    BY DEF EventStatus
  <2>3. Complete(s)
    BY <1>15 DEF Report
  <2> HIDE DEF s
  <2>4. /\ SameTriggers
        /\ \A j \in DOMAIN events :
             \/ events'[j] = events[j]
             \/ /\ j = Cur /\ events'[j].status = s
                /\ events'[j].deployment = events[j].deployment
                /\ events'[j].runs = events[j].runs
    BY <2>1, <2>2, <2>3, CompleteWrites
  <2> QED
    BY <2>1, <2>2, <2>4, ZenonT(60) DEF SameTriggers
<1>16. ASSUME WorkerEnds PROVE EventInv'
  BY <1>16 DEF WorkerEnds
<1>17. ASSUME Drain PROVE EventInv'
  BY <1>17 DEF Drain, Fault
<1>18. ASSUME Exit PROVE EventInv'
  BY <1>18 DEF Exit, Down
<1>19. ASSUME Crash PROVE EventInv'
  BY <1>19 DEF Crash, Down, Fault
<1>20. ASSUME Restart PROVE EventInv'
  <2>1. /\ SameTriggers /\ UNCHANGED accepted
        /\ \A j \in DOMAIN events :
              \/ events'[j] = events[j]
              \/ /\ events[j].deployment \in {"queued", "running"}
                 /\ events'[j].deployment = "failed"
                 /\ events'[j].status = events[j].status /\ events'[j].runs = events[j].runs
    BY <1>20, RestartWrites DEF Restart
  <2> QED
    BY ZenonT(30), <2>1 DEF SameTriggers
<1>21. ASSUME UNCHANGED vars PROVE EventInv'
  BY <1>21 DEF vars
<1> HIDE DEF IndInv, TypeOK, Events, EventInv, WorkerInv, workerVars,
     boundVars
<1> QED
  BY <1>1, <1>2, <1>3, <1>4, <1>5, <1>6, <1>7, <1>8, <1>9, <1>10, <1>11,
       <1>12, <1>13, <1>14, <1>15, <1>16, <1>17, <1>18, <1>19, <1>20, <1>21
       DEF Next, Operator, Handler, Time, Worker, Life

\* The order of triggers survives every step that adds none.
LEMMA OrderKept ==
  ASSUME IndInv, SameTriggers,
         \A h \in Hooks : hook'[h].pending \subseteq hook[h].pending
  PROVE  OrderInv'
<1>1. \A i \in DOMAIN events : events[i].hook \in Hooks
  BY RowTypes DEF IndInv
<1>2. /\ DOMAIN events' = DOMAIN events
      /\ \A i \in DOMAIN events : /\ events'[i].hook = events[i].hook
                                  /\ events'[i].batch = events[i].batch
  BY DEF SameTriggers
<1>3. ASSUME NEW i \in DOMAIN events, NEW s \in events[i].batch,
             NEW t \in hook'[events[i].hook].pending
      PROVE  s < t
  BY <1>1, <1>3 DEF IndInv, OrderInv
<1>4. OrderInv
  BY DEF IndInv
<1> QED
  BY <1>2, <1>3, <1>4 DEF OrderInv

\* Every step keeps the order of the triggers.
LEMMA OrderStep == IndInv /\ [Next]_vars => OrderInv'
<1> SUFFICES ASSUME IndInv, [Next]_vars PROVE OrderInv'
  OBVIOUS
<1> USE DEF IndInv, TypeOK, HookRows, Live, Enabled, SameTriggers, workerVars,
     boundVars
<1>1. ASSUME NEW h \in Hooks, NEW on \in BOOLEAN, CreateReleaseHook(h, on)
     PROVE OrderInv'
  BY <1>1, OrderKept DEF CreateReleaseHook
<1>2. ASSUME NEW h \in Hooks, DeleteReleaseHook(h) PROVE OrderInv'
  BY <1>2, OrderKept DEF DeleteReleaseHook
<1>3. ASSUME NEW h \in Hooks, NEW on \in BOOLEAN \cup {None}, UpdateReads(h,
     on) PROVE OrderInv'
  BY <1>3, OrderKept DEF UpdateReads
<1>4. ASSUME NEW S \in SUBSET Hooks, Trigger(S) PROVE OrderInv'
  <2>1. UNCHANGED events /\ accepted \in Nat
    BY <1>4 DEF Trigger
  <2>2. ASSUME NEW i \in DOMAIN events, NEW s \in events[i].batch,
               NEW t \in hook'[events[i].hook].pending
        PROVE  s < t
    <3>1. events[i].hook \in Hooks /\ s \in 1 .. accepted
      BY RowTypes DEF EventInv
    <3>2. t \in hook[events[i].hook].pending \/ t = accepted + 1
      <4> DEFINE h == events[i].hook
      <4>1. h \in Hooks /\ t \in hook'[h].pending
        BY <2>2, <3>1
      <4> HIDE DEF h
      <4>2. hook'[h] = hook[h] \/ hook'[h].pending = hook[h].pending \cup {accepted + 1}
        BY <1>4, <4>1, TriggerWrites
      <4> QED
        BY <4>1, <4>2 DEF h
    <3> QED
      BY <2>1, <3>1, <3>2 DEF OrderInv
  <2>3. OrderInv
    OBVIOUS
  <2> QED
    BY <2>1, <2>2, <2>3 DEF OrderInv
<1>5. ASSUME UpdateWrites PROVE OrderInv'
  BY <1>5, OrderKept DEF UpdateWrites, Written
<1>6. ASSUME UpdateRecords PROVE OrderInv'
  BY <1>6, OrderKept DEF UpdateRecords
<1>7. ASSUME NEW h \in Hooks, WindowElapses(h) PROVE OrderInv'
  BY <1>7, OrderKept DEF WindowElapses
<1>8. ASSUME NEW i \in DOMAIN events, LeaseExpires(i) PROVE OrderInv'
  <2>1. SameTriggers
    BY <1>8, LeaseWrites DEF LeaseExpires
  <2>2. \A h \in Hooks : hook'[h].pending \subseteq hook[h].pending
    BY <1>8 DEF LeaseExpires
  <2> QED
    BY <2>1, <2>2, OrderKept
<1>9. ASSUME Tick PROVE OrderInv'
  <2>1. PICK claims \in Seq(Hooks) :
          /\ \A k, l \in DOMAIN claims : k # l => claims[k] # claims[l]
          /\ \A k \in DOMAIN claims : Enabled(claims[k]) /\ hook[claims[k]].due
          /\ hook' = [h \in Hooks |-> IF Enabled(h) /\ hook[h].due
                                      THEN Claimed(hook[h]) ELSE hook[h]]
          /\ events' \in Seq(Events) /\ Len(events') = Len(events) + Len(claims)
          /\ \A i \in DOMAIN events : events'[i] = events[i]
          /\ \A k \in DOMAIN claims : events'[Len(events) + k] = NewEvent(claims[k])
    BY <1>9, TickWrites
  <2> DEFINE N == Len(events)
             m == Len(claims)
  <2>0. m \in Nat /\ DOMAIN claims = 1 .. m
    OBVIOUS
  <2>2. N \in Nat /\ DOMAIN events = 1 .. N /\ DOMAIN events' = 1 .. (N + m)
    BY <2>1
  <2>3. ASSUME NEW h \in Hooks
        PROVE  IF Enabled(h) /\ hook[h].due THEN hook'[h].pending = {}
               ELSE hook'[h] = hook[h]
    <3>1. hook[h] \in HookRows
      OBVIOUS
    <3> QED
      BY <2>1, <3>1 DEF Claimed
  <2>4. ASSUME NEW k \in 1 .. m
        PROVE  /\ events'[N + k].hook = claims[k] /\ claims[k] \in Hooks
               /\ events'[N + k].batch = hook[claims[k]].pending
               /\ hook'[claims[k]].pending = {}
    <3>1. claims[k] \in Hooks /\ events'[N + k] = NewEvent(claims[k])
          /\ Enabled(claims[k]) /\ hook[claims[k]].due
      BY <2>0, <2>1
    <3> QED
      BY <2>3, <3>1 DEF NewEvent
  <2> HIDE DEF N, m
  <2>5. ASSUME NEW i \in 1 .. (N + m), i \notin 1 .. N
        PROVE  \E k \in 1 .. m : i = N + k
    <3>1. i - N \in 1 .. m /\ i = N + (i - N)
      BY <2>0, <2>2, <2>5
    <3> QED
      BY <3>1
  <2>6. ASSUME NEW i \in DOMAIN events'
        PROVE  \A s \in events'[i].batch, t \in hook'[events'[i].hook].pending : s < t
    <3>1. CASE i \in 1 .. N
      <4>1. events'[i] = events[i] /\ events[i].hook \in Hooks
        BY <2>1, <2>2, <3>1, RowTypes
      <4> QED
        BY <2>2, <2>3, <3>1, <4>1 DEF OrderInv
    <3>2. CASE i \notin 1 .. N
      <4>1. PICK k \in 1 .. m : i = N + k
        BY <2>2, <2>5, <3>2
      <4> QED
        BY <2>4, <4>1
    <3> QED
      BY <3>1, <3>2
  <2>7. ASSUME NEW i \in DOMAIN events', NEW j \in DOMAIN events', i < j,
               events'[i].hook = events'[j].hook
        PROVE  \A s \in events'[i].batch, t \in events'[j].batch : s < t
    <3>1. CASE j \in 1 .. N
      <4>1. i \in 1 .. N
        BY <2>2, <2>7, <3>1
      <4> QED
        BY <2>1, <2>2, <2>7, <3>1, <4>1 DEF OrderInv
    <3>2. CASE j \notin 1 .. N /\ i \in 1 .. N
      <4>1. PICK k \in 1 .. m : j = N + k
        BY <2>2, <2>5, <3>2
      <4>2. events'[i] = events[i] /\ events[i].hook = claims[k]
        BY <2>1, <2>2, <2>4, <2>7, <3>2, <4>1
      <4> QED
        BY <2>2, <2>4, <3>2, <4>1, <4>2 DEF OrderInv
    <3>3. CASE j \notin 1 .. N /\ i \notin 1 .. N
      <4>1. PICK k \in 1 .. m : j = N + k
        BY <2>2, <2>5, <3>3
      <4>2. PICK l \in 1 .. m : i = N + l
        BY <2>2, <2>5, <3>3
      <4>3. k # l /\ claims[k] = claims[l]
        BY <2>2, <2>4, <2>7, <4>1, <4>2
      <4> QED
        BY <2>0, <2>1, <4>3 DEF m
    <3> QED
      BY <3>1, <3>2, <3>3
  <2> QED
    BY <2>6, <2>7 DEF OrderInv
<1>10. ASSUME Refuse PROVE OrderInv'
  <2>1. todo # <<>> /\ Complete("failed")
    BY <1>10 DEF Refuse, IndInv, WorkerInv
  <2>2. SameTriggers
    BY <2>1, CompleteWrites DEF IndInv
  <2>3. \A h \in Hooks : hook'[h].pending \subseteq hook[h].pending
    BY <1>10 DEF Refuse
  <2> QED
    BY <2>2, <2>3, OrderKept
<1>11. ASSUME Reuse PROVE OrderInv'
  BY <1>11, OrderKept DEF Reuse, Existing
<1>12. ASSUME Create PROVE OrderInv'
  <2>1. SameTriggers
    BY <1>12, CreateWrites DEF Create
  <2>2. \A h \in Hooks : hook'[h].pending \subseteq hook[h].pending
    BY <1>12 DEF Create
  <2> QED
    BY <2>1, <2>2, OrderKept
<1>13. ASSUME StartRun PROVE OrderInv'
  <2>1. CASE power # "draining"
    <3>1. SameTriggers
      BY <1>13, <2>1, StartRunWrites
    <3>2. \A h \in Hooks : hook'[h].pending \subseteq hook[h].pending
      BY <1>13 DEF StartRun
    <3> QED
      BY <3>1, <3>2, OrderKept
  <2>2. CASE power = "draining"
    <3>1. SameTriggers
      BY <1>13, <2>2 DEF StartRun, SameTriggers, IndInv, TypeOK
    <3>2. \A h \in Hooks : hook'[h].pending \subseteq hook[h].pending
      BY <1>13 DEF StartRun
    <3> QED
      BY <3>1, <3>2, OrderKept
  <2> QED
    BY <2>1, <2>2
<1>14. ASSUME EndRun PROVE OrderInv'
  <2>1. SameTriggers
    BY <1>14, EndRunWrites DEF EndRun
  <2>2. \A h \in Hooks : hook'[h].pending \subseteq hook[h].pending
    BY <1>14 DEF EndRun
  <2> QED
    BY <2>1, <2>2, OrderKept
<1>15. ASSUME Report PROVE OrderInv'
  <2> DEFINE s == EventStatus(events[Cur].deployment)
  <2>1. todo # <<>> /\ Complete(s) /\ s \in {"success", "failed"}
    BY <1>15 DEF Report, IndInv, WorkerInv, EventStatus
  <2> HIDE DEF s
  <2>2. SameTriggers
    BY <2>1, CompleteWrites DEF IndInv
  <2>3. \A h \in Hooks : hook'[h].pending \subseteq hook[h].pending
    BY <1>15 DEF Report
  <2> QED
    BY <2>2, <2>3, OrderKept
<1>16. ASSUME WorkerEnds PROVE OrderInv'
  BY <1>16, OrderKept DEF WorkerEnds
<1>17. ASSUME Drain PROVE OrderInv'
  BY <1>17, OrderKept DEF Drain, Fault
<1>18. ASSUME Exit PROVE OrderInv'
  BY <1>18, OrderKept DEF Exit, Down
<1>19. ASSUME Crash PROVE OrderInv'
  BY <1>19, OrderKept DEF Crash, Down, Fault
<1>20. ASSUME Restart PROVE OrderInv'
  <2>1. SameTriggers
    BY <1>20, RestartWrites DEF Restart
  <2>2. \A h \in Hooks : hook'[h].pending \subseteq hook[h].pending
    BY <1>20 DEF Restart
  <2> QED
    BY <2>1, <2>2, OrderKept
<1>21. ASSUME UNCHANGED vars PROVE OrderInv'
  BY <1>21, OrderKept DEF vars
<1> HIDE DEF IndInv, TypeOK, HookRows, Live, Enabled, SameTriggers,
     workerVars, boundVars
<1> QED
  BY <1>1, <1>2, <1>3, <1>4, <1>5, <1>6, <1>7, <1>8, <1>9, <1>10, <1>11,
       <1>12, <1>13, <1>14, <1>15, <1>16, <1>17, <1>18, <1>19, <1>20, <1>21
       DEF Next, Operator, Handler, Time, Worker, Life

\* The worker ends with the process.
LEMMA DownStep == IndInv /\ [Next]_vars => DownInv'
<1> SUFFICES ASSUME IndInv, [Next]_vars PROVE DownInv'
  OBVIOUS
<1> USE DEF IndInv, DownInv, workerVars, boundVars
<1>1. ASSUME NEW h \in Hooks, NEW on \in BOOLEAN, CreateReleaseHook(h, on)
     PROVE DownInv'
  BY <1>1 DEF CreateReleaseHook
<1>2. ASSUME NEW h \in Hooks, DeleteReleaseHook(h) PROVE DownInv'
  BY <1>2 DEF DeleteReleaseHook
<1>3. ASSUME NEW h \in Hooks, NEW on \in BOOLEAN \cup {None}, UpdateReads(h,
     on) PROVE DownInv'
  BY <1>3 DEF UpdateReads
<1>4. ASSUME NEW S \in SUBSET Hooks, Trigger(S) PROVE DownInv'
  BY <1>4 DEF Trigger, Queue
<1>5. ASSUME UpdateWrites PROVE DownInv'
  BY <1>5 DEF UpdateWrites, Written
<1>6. ASSUME UpdateRecords PROVE DownInv'
  BY <1>6 DEF UpdateRecords
<1>7. ASSUME NEW h \in Hooks, WindowElapses(h) PROVE DownInv'
  BY <1>7 DEF WindowElapses
<1>8. ASSUME NEW i \in DOMAIN events, LeaseExpires(i) PROVE DownInv'
  BY <1>8 DEF LeaseExpires
<1>9. ASSUME Tick PROVE DownInv'
  BY <1>9 DEF Tick, StaleRuns, NewEvent, Claimed, SetToSeqs
<1>10. ASSUME Refuse PROVE DownInv'
  BY <1>10 DEF Refuse, Complete, NextRun, Fault
<1>11. ASSUME Reuse PROVE DownInv'
  BY <1>11 DEF Reuse, Existing
<1>12. ASSUME Create PROVE DownInv'
  BY <1>12 DEF Create, Existing
<1>13. ASSUME StartRun PROVE DownInv'
  BY <1>13 DEF StartRun
<1>14. ASSUME EndRun PROVE DownInv'
  BY <1>14 DEF EndRun, Fault
<1>15. ASSUME Report PROVE DownInv'
  BY <1>15 DEF Report, Complete, NextRun, Fault, EventStatus
<1>16. ASSUME WorkerEnds PROVE DownInv'
  BY <1>16 DEF WorkerEnds
<1>17. ASSUME Drain PROVE DownInv'
  BY <1>17 DEF Drain, Fault
<1>18. ASSUME Exit PROVE DownInv'
  BY <1>18 DEF Exit, Down
<1>19. ASSUME Crash PROVE DownInv'
  BY <1>19 DEF Crash, Down, Fault
<1>20. ASSUME Restart PROVE DownInv'
  BY <1>20 DEF Restart, Interrupted
<1>21. ASSUME UNCHANGED vars PROVE DownInv'
  BY <1>21 DEF vars
<1> HIDE DEF IndInv, DownInv, workerVars, boundVars
<1> QED
  BY <1>1, <1>2, <1>3, <1>4, <1>5, <1>6, <1>7, <1>8, <1>9, <1>10, <1>11,
       <1>12, <1>13, <1>14, <1>15, <1>16, <1>17, <1>18, <1>19, <1>20, <1>21
       DEF Next, Operator, Handler, Time, Worker, Life

\* What was cancelled survives every step that neither records a cancellation,
\* reads a window nor claims one.
LEMMA CancelKept ==
  ASSUME IndInv, SameTriggers, UNCHANGED cancelled,
         update' # None => /\ update # None /\ update'.hook = update.hook
                           /\ update'.pending = update.pending
  PROVE  CancelInv'
BY DEF IndInv, CancelInv, SameTriggers

\* Every step keeps what is known of cancelled triggers.
LEMMA CancelStep == IndInv /\ [Next]_vars => CancelInv'
<1> SUFFICES ASSUME IndInv, [Next]_vars PROVE CancelInv'
  OBVIOUS
<1>0. UNCHANGED events => SameTriggers
  BY DEF SameTriggers, IndInv, TypeOK
<1>1. ASSUME NEW h \in Hooks, NEW on \in BOOLEAN, CreateReleaseHook(h, on) PROVE CancelInv'
  BY <1>1, <1>0, CancelKept DEF CreateReleaseHook, workerVars, boundVars
<1>2. ASSUME NEW h \in Hooks, DeleteReleaseHook(h) PROVE CancelInv'
  BY <1>2, <1>0, CancelKept DEF DeleteReleaseHook, workerVars, boundVars
<1>3. ASSUME NEW h \in Hooks, NEW on \in BOOLEAN \cup {None}, UpdateReads(h, on)
      PROVE  CancelInv'
  <2>1. /\ update'.hook = h /\ update'.pending \subseteq hook[h].pending
        /\ UNCHANGED <<events, cancelled>>
    BY <1>3 DEF UpdateReads
  <2>2. ASSUME NEW i \in DOMAIN events, events[i].hook = h
        PROVE  events[i].batch \cap hook[h].pending = {}
    <3>1. ASSUME NEW t \in events[i].batch, t \in hook[h].pending PROVE FALSE
      <4>1. t < t
        BY <2>2, <3>1 DEF IndInv, OrderInv
      <4>2. t \in Nat
        BY RowTypes, <3>1 DEF IndInv, Triggers
      <4> QED
        BY <4>1, <4>2
    <3> QED
      BY <3>1
  <2> QED
    BY <2>1, <2>2 DEF IndInv, CancelInv
<1>4. ASSUME NEW S \in SUBSET Hooks, Trigger(S) PROVE CancelInv'
  BY <1>4, <1>0, CancelKept DEF Trigger, workerVars, boundVars
<1>5. ASSUME UpdateWrites PROVE CancelInv'
  <2>1. /\ UNCHANGED <<events, cancelled>> /\ update # None
        /\ update' \in {[update EXCEPT !.written = TRUE], None}
    BY <1>5 DEF UpdateWrites
  <2>2. update' # None => update'.hook = update.hook /\ update'.pending = update.pending
    BY <2>1 DEF IndInv, TypeOK, Updates
  <2> QED
    BY <1>0, <2>1, <2>2, CancelKept
<1>6. ASSUME UpdateRecords PROVE CancelInv'
  <2>1. /\ cancelled' = [cancelled EXCEPT ![update.hook] = @ \cup update.pending]
        /\ update # None /\ update' = None /\ UNCHANGED events
    BY <1>6 DEF UpdateRecords
  <2>2. ASSUME NEW i \in DOMAIN events
        PROVE  events[i].batch \cap cancelled'[events[i].hook] \subseteq events[i].read
    <3>1. events[i].hook \in Hooks /\ cancelled \in [Hooks -> SUBSET Triggers]
      BY RowTypes DEF IndInv, TypeOK
    <3>2. CASE events[i].hook = update.hook
      BY <2>1, <3>1, <3>2 DEF IndInv, CancelInv
    <3>3. CASE events[i].hook # update.hook
      BY <2>1, <3>1, <3>3 DEF IndInv, CancelInv
    <3> QED
      BY <3>2, <3>3
  <2> QED
    BY <2>1, <2>2 DEF CancelInv
<1>7. ASSUME NEW h \in Hooks, WindowElapses(h) PROVE CancelInv'
  BY <1>7, <1>0, CancelKept DEF WindowElapses, workerVars, boundVars
<1>8. ASSUME NEW i \in DOMAIN events, LeaseExpires(i) PROVE CancelInv'
  BY <1>8, LeaseWrites, CancelKept DEF LeaseExpires
<1>9. ASSUME Tick PROVE CancelInv'
  <2>1. PICK claims \in Seq(Hooks) :
          /\ events' \in Seq(Events) /\ Len(events') = Len(events) + Len(claims)
          /\ \A i \in DOMAIN events : events'[i] = events[i]
          /\ \A k \in DOMAIN claims : events'[Len(events) + k] = NewEvent(claims[k])
    BY <1>9, TickWrites
  <2> DEFINE N == Len(events)
             m == Len(claims)
  <2>2. /\ m \in Nat /\ DOMAIN claims = 1 .. m /\ N \in Nat /\ DOMAIN events = 1 .. N
        /\ DOMAIN events' = 1 .. (N + m)
    BY <2>1 DEF IndInv, TypeOK
  <2>3. UNCHANGED <<cancelled, update>>
    BY <1>9 DEF Tick
  <2>4. ASSUME NEW k \in 1 .. m
        PROVE  LET e == events'[N + k] IN
               /\ e.batch \cap cancelled[e.hook] \subseteq e.read
               /\ update # None /\ update.hook = e.hook => e.batch \cap update.pending \subseteq e.read
    <3> DEFINE h == claims[k]
    <3>0. k \in DOMAIN claims
      BY <2>2
    <3>1. events'[N + k] = NewEvent(h) /\ h \in Hooks
      <4>1. events'[Len(events) + k] = NewEvent(claims[k])
        BY <2>1, <3>0
      <4> QED
        BY <3>0, <4>1
    <3> HIDE DEF h
    <3>2. hook[h].pending \cap cancelled[h] = {}
      BY <3>1 DEF IndInv, WindowInv
    <3>3. update # None /\ update.hook = h => hook[h].pending \cap update.pending \subseteq ReadByUpdate(h)
      BY DEF IndInv, UpdateInv, ReadByUpdate
    <3> QED
      BY <3>1, <3>2, <3>3 DEF NewEvent
  <2> HIDE DEF N, m
  <2>5. ASSUME NEW i \in DOMAIN events' \ DOMAIN events
        PROVE  i - N \in 1 .. m /\ i = N + (i - N)
    BY <2>2
  <2> QED
    BY <2>1, <2>3, <2>4, <2>5 DEF IndInv, CancelInv
<1>10. ASSUME Refuse PROVE CancelInv'
  <2>1. todo # <<>> /\ Complete("failed") /\ UNCHANGED <<cancelled, update>>
    BY <1>10 DEF Refuse, IndInv, WorkerInv
  <2> QED
    BY <2>1, CompleteWrites, CancelKept DEF IndInv
<1>11. ASSUME Reuse PROVE CancelInv'
  BY <1>11, <1>0, CancelKept DEF Reuse, workerVars, boundVars
<1>12. ASSUME Create PROVE CancelInv'
  BY <1>12, CreateWrites, CancelKept DEF Create
<1>13. ASSUME StartRun PROVE CancelInv'
  <2>1. CASE power # "draining"
    BY <1>13, <2>1, StartRunWrites, CancelKept DEF StartRun
  <2>2. CASE power = "draining"
    BY <1>13, <2>2, <1>0, CancelKept DEF StartRun
  <2> QED
    BY <2>1, <2>2
<1>14. ASSUME EndRun PROVE CancelInv'
  BY <1>14, EndRunWrites, CancelKept DEF EndRun
<1>15. ASSUME Report PROVE CancelInv'
  <2> DEFINE s == EventStatus(events[Cur].deployment)
  <2>1. /\ todo # <<>> /\ Complete(s) /\ s \in {"success", "failed"}
        /\ UNCHANGED <<cancelled, update>>
    BY <1>15 DEF Report, IndInv, WorkerInv, EventStatus
  <2> HIDE DEF s
  <2> QED
    BY <2>1, CompleteWrites, CancelKept DEF IndInv
<1>16. ASSUME WorkerEnds PROVE CancelInv'
  BY <1>16, <1>0, CancelKept DEF WorkerEnds, workerVars, boundVars
<1>17. ASSUME Drain PROVE CancelInv'
  BY <1>17, <1>0, CancelKept DEF Drain, Fault, workerVars, boundVars
<1>18. ASSUME Exit PROVE CancelInv'
  BY <1>18, <1>0, CancelKept DEF Exit, Down, workerVars, boundVars
<1>19. ASSUME Crash PROVE CancelInv'
  BY <1>19, <1>0, CancelKept DEF Crash, Down, Fault, workerVars, boundVars
<1>20. ASSUME Restart PROVE CancelInv'
  BY <1>20, RestartWrites, CancelKept DEF Restart
<1>21. ASSUME UNCHANGED vars PROVE CancelInv'
  BY <1>21, <1>0, CancelKept DEF vars, workerVars, boundVars
<1> QED
  BY <1>1, <1>2, <1>3, <1>4, <1>5, <1>6, <1>7, <1>8, <1>9, <1>10, <1>11,
       <1>12, <1>13, <1>14, <1>15, <1>16, <1>17, <1>18, <1>19, <1>20, <1>21
       DEF Next, Operator, Handler, Time, Worker, Life

\* What the worker knows survives every step of others.
LEMMA WorkerKept ==
  ASSUME IndInv, SameTriggers, UNCHANGED todo, pc' = pc \/ {pc, pc'} \subseteq {"idle", "ended"},
         \A j \in DOMAIN events : events'[j].deployment = events[j].deployment
  PROVE  WorkerInv'
<1>1. \A k \in DOMAIN todo : todo[k].event \in DOMAIN events
  BY RowTypes DEF IndInv
<1>2. Cur' = Cur
  BY DEF Cur
<1>3. pc \in {"created", "running"} => Cur \in DOMAIN events
  BY AtWork DEF IndInv, WorkerInv
<1>4. WorkerInv
  BY DEF IndInv
<1>5. \A k \in DOMAIN todo : ~todo[k].recovery =>
        \A j \in DOMAIN events : todo[k].event < j =>
          events'[j].hook # events'[todo[k].event].hook
  BY <1>1, <1>4 DEF SameTriggers, WorkerInv
<1> QED
  BY <1>2, <1>3, <1>4, <1>5 DEF SameTriggers, WorkerInv

\* Every step keeps what the worker knows.
LEMMA WorkerStep == IndInv /\ [Next]_vars => WorkerInv'
<1> SUFFICES ASSUME IndInv, [Next]_vars PROVE WorkerInv'
  OBVIOUS
<1> USE DEF IndInv, TypeOK, Events, WorkerInv, workerVars, boundVars
<1>1. ASSUME NEW h \in Hooks, NEW on \in BOOLEAN, CreateReleaseHook(h, on)
     PROVE WorkerInv'
  BY <1>1, WorkerKept DEF CreateReleaseHook, SameTriggers
<1>2. ASSUME NEW h \in Hooks, DeleteReleaseHook(h) PROVE WorkerInv'
  BY <1>2, WorkerKept DEF DeleteReleaseHook, SameTriggers
<1>3. ASSUME NEW h \in Hooks, NEW on \in BOOLEAN \cup {None}, UpdateReads(h,
     on) PROVE WorkerInv'
  BY <1>3, WorkerKept DEF UpdateReads, SameTriggers
<1>4. ASSUME NEW S \in SUBSET Hooks, Trigger(S) PROVE WorkerInv'
  BY <1>4, WorkerKept DEF Trigger, Queue, SameTriggers
<1>5. ASSUME UpdateWrites PROVE WorkerInv'
  BY <1>5, WorkerKept DEF UpdateWrites, Written, SameTriggers
<1>6. ASSUME UpdateRecords PROVE WorkerInv'
  BY <1>6, WorkerKept DEF UpdateRecords, SameTriggers
<1>7. ASSUME NEW h \in Hooks, WindowElapses(h) PROVE WorkerInv'
  BY <1>7, WorkerKept DEF WindowElapses, SameTriggers
<1>8. ASSUME NEW i \in DOMAIN events, LeaseExpires(i) PROVE WorkerInv'
  <2>1. SameTriggers /\ \A j \in DOMAIN events : events'[j].deployment = events[j].deployment
    BY <1>8, LeaseWrites
  <2> QED
    BY <1>8, <2>1, WorkerKept DEF LeaseExpires
<1>9. ASSUME Tick PROVE WorkerInv'
  <2>1. PICK claims \in Seq(Hooks) :
          /\ \A k, l \in DOMAIN claims : k # l => claims[k] # claims[l]
          /\ events' \in Seq(Events) /\ Len(events') = Len(events) + Len(claims)
          /\ \A k \in DOMAIN claims : events'[Len(events) + k] = NewEvent(claims[k])
          /\ \A k \in DOMAIN todo' : ~todo'[k].recovery =>
                \E c \in DOMAIN claims : todo'[k].event = Len(events) + c
    BY <1>9, TickWrites
  <2> DEFINE N == Len(events)
             m == Len(claims)
  <2>0. m \in Nat /\ DOMAIN claims = 1 .. m
    OBVIOUS
  <2>2. N \in Nat /\ DOMAIN events' = 1 .. (N + m)
    BY <2>1
  <2>3. \A k \in 1 .. m : events'[N + k].hook = claims[k]
    <3>1. ASSUME NEW k \in 1 .. m PROVE events'[N + k] = NewEvent(claims[k])
      BY <2>0, <2>1
    <3>2. \A k \in 1 .. m : NewEvent(claims[k]).hook = claims[k]
      BY DEF NewEvent
    <3> QED
      BY <3>1, <3>2
  <2>4. pc' = IF todo' = <<>> THEN "idle" ELSE "dispatch"
    BY <1>9 DEF Tick
  <2>5. ASSUME NEW k \in DOMAIN todo', ~todo'[k].recovery, NEW j \in DOMAIN events',
               todo'[k].event < j
        PROVE  events'[j].hook # events'[todo'[k].event].hook
    <3>1. PICK c \in 1 .. m : todo'[k].event = N + c
      BY <2>0, <2>1, <2>5
    <3> HIDE DEF N, m
    <3>2. j - N \in 1 .. m /\ j = N + (j - N) /\ j - N # c
      <4>1. j \in 1 .. (N + m) /\ N + c < j
        BY <2>2, <2>5, <3>1
      <4>2. c \in 1 .. m /\ m \in Nat /\ N \in Nat
        BY <2>0, <2>2
      <4> HIDE DEF IndInv, TypeOK
      <4>3. j \in Int /\ c \in Int /\ c >= 1 /\ j <= N + m
        BY <4>1, <4>2
      <4> QED
        BY <4>1, <4>2, <4>3
    <3>3. events'[j].hook = claims[j - N] /\ events'[N + c].hook = claims[c]
      BY <2>3, <3>2
    <3>4. claims[j - N] # claims[c]
      BY <2>0, <2>1, <3>2 DEF m
    <3> QED
      BY <3>1, <3>3, <3>4
  <2> QED
    BY <2>4, <2>5
<1>10. ASSUME Refuse PROVE WorkerInv'
  <2>1. todo # <<>> /\ Complete("failed")
    BY <1>10 DEF Refuse
  <2>2. SameTriggers
    BY <2>1, CompleteWrites
  <2>3. /\ Tail(todo) \in Seq([event : DOMAIN events, recovery : BOOLEAN])
        /\ Len(Tail(todo)) = Len(todo) - 1 /\ Len(todo) \in Nat
        /\ \A k \in DOMAIN Tail(todo) : k + 1 \in DOMAIN todo /\ Tail(todo)[k] = todo[k + 1]
    BY <2>1, AtWork
  <2>4. todo' = Tail(todo) /\ pc' = IF Len(todo) = 1 THEN "idle" ELSE "dispatch"
    BY <1>10 DEF Refuse, NextRun
  <2>5. Len(todo) = 1 <=> Tail(todo) = <<>>
    <3> DEFINE R == [event : DOMAIN events, recovery : BOOLEAN]
               u == Tail(todo)
    <3>1. u \in Seq(R) /\ Len(u) = Len(todo) - 1 /\ Len(todo) \in Nat
      BY <2>3
    <3> HIDE DEF R, u
    <3>2. u = <<>> <=> Len(u) = 0
      BY <3>1, EmptySeq, Zenon
    <3>3. Len(todo) = 1 <=> u = <<>>
      BY <3>1, <3>2, SMTT(30)
    <3> QED
      BY <3>3 DEF u
  <2>6. ASSUME NEW k \in DOMAIN todo', ~todo'[k].recovery, NEW j \in DOMAIN events',
               todo'[k].event < j
        PROVE  events'[j].hook # events'[todo'[k].event].hook
    <3>1. k + 1 \in DOMAIN todo /\ todo'[k] = todo[k + 1]
      BY <2>3, <2>4
    <3>2. todo'[k].event \in DOMAIN events
      BY <3>1, RowTypes
    <3>3. events[j].hook # events[todo[k + 1].event].hook /\ j \in DOMAIN events
      BY <2>2, <2>6, <3>1 DEF SameTriggers
    <3> QED
      BY SMTT(30), <2>2, <3>1, <3>2, <3>3 DEF SameTriggers
  <2> QED
    BY <2>4, <2>5, <2>6
<1>11. ASSUME Reuse PROVE WorkerInv'
  <2>1. todo # <<>> /\ UNCHANGED <<todo, events>> /\ Cur' = Cur
    BY <1>11 DEF Reuse, Cur
  <2>2. pc' \in {"created", "report"} /\ (pc' = "created" => events[Cur].deployment = "queued")
    BY <1>11 DEF Reuse
  <2> QED
    BY <2>1, <2>2
<1>12. ASSUME Create PROVE WorkerInv'
  <2>1. todo # <<>> /\ UNCHANGED todo /\ SameTriggers
    BY <1>12, CreateWrites DEF Create
  <2>2. \A k \in DOMAIN todo : todo[k].event \in DOMAIN events
    BY RowTypes
  <2>3. pc' = "created" /\ events'[Cur].deployment = "queued"
    BY <1>12, CreateWrites, AtWork DEF Create
  <2>4. pc' \in {"created", "running", "report"} /\ Cur' = Cur /\ Cur \in DOMAIN events
    BY <1>12, <2>1, AtWork DEF Create, Cur
  <2>5. ASSUME NEW k \in DOMAIN todo, ~todo[k].recovery, NEW j \in DOMAIN events,
               todo[k].event < j
        PROVE  events'[j].hook # events'[todo[k].event].hook
    <3>1. \A l \in DOMAIN events : events'[l].hook = events[l].hook
      BY <2>1 DEF SameTriggers
    <3> QED
      BY <2>2, <2>5, <3>1, ZenonT(60)
  <2> QED
    BY <2>1, <2>3, <2>4, <2>5 DEF SameTriggers
<1>13. ASSUME StartRun PROVE WorkerInv'
  <2>1. CASE power # "draining"
    <3>1. todo # <<>> /\ UNCHANGED todo /\ SameTriggers
      BY <1>13, StartRunWrites, <2>1 DEF StartRun
    <3>2. \A k \in DOMAIN todo : todo[k].event \in DOMAIN events
      BY RowTypes
    <3>3. pc' = "running" /\ events'[Cur].deployment = "running"
      BY <1>13, <2>1, StartRunWrites, AtWork DEF StartRun
    <3>4. pc' \in {"created", "running", "report"} /\ Cur' = Cur /\ Cur \in DOMAIN events
      BY <1>13, <3>1, AtWork DEF StartRun, Cur
    <3>5. ASSUME NEW k \in DOMAIN todo, ~todo[k].recovery, NEW j \in DOMAIN events,
                 todo[k].event < j
          PROVE  events'[j].hook # events'[todo[k].event].hook
      <4>1. \A l \in DOMAIN events : events'[l].hook = events[l].hook
        BY <3>1 DEF SameTriggers
      <4> QED
        BY <3>2, <3>5, <4>1, ZenonT(60)
    <3> QED
      BY <3>1, <3>3, <3>4, <3>5 DEF SameTriggers
  <2>2. CASE power = "draining"
    BY <1>13, <2>2 DEF StartRun
  <2> QED
    BY <2>1, <2>2
<1>14. ASSUME EndRun PROVE WorkerInv'
  <2>1. todo # <<>> /\ UNCHANGED todo /\ SameTriggers
    BY <1>14, EndRunWrites DEF EndRun
  <2>2. \A k \in DOMAIN todo : todo[k].event \in DOMAIN events
    BY RowTypes
  <2>3. pc' = "report"
    BY <1>14 DEF EndRun
  <2>4. pc' \in {"created", "running", "report"} /\ Cur' = Cur /\ Cur \in DOMAIN events
    BY <1>14, <2>1, AtWork DEF EndRun, Cur
  <2>5. ASSUME NEW k \in DOMAIN todo, ~todo[k].recovery, NEW j \in DOMAIN events,
               todo[k].event < j
        PROVE  events'[j].hook # events'[todo[k].event].hook
    <3>1. \A l \in DOMAIN events : events'[l].hook = events[l].hook
      BY <2>1 DEF SameTriggers
    <3> QED
      BY <2>2, <2>5, <3>1, ZenonT(60)
  <2> QED
    BY <2>1, <2>3, <2>4, <2>5 DEF SameTriggers
<1>15. ASSUME Report PROVE WorkerInv'
  <2> DEFINE s == EventStatus(events[Cur].deployment)
  <2>1. todo # <<>> /\ Complete(s) /\ s \in {"success", "failed"}
    BY <1>15 DEF Report, EventStatus
  <2> HIDE DEF s
  <2>2. SameTriggers
    BY <2>1, CompleteWrites
  <2>3. /\ Tail(todo) \in Seq([event : DOMAIN events, recovery : BOOLEAN])
        /\ Len(Tail(todo)) = Len(todo) - 1 /\ Len(todo) \in Nat
        /\ \A k \in DOMAIN Tail(todo) : k + 1 \in DOMAIN todo /\ Tail(todo)[k] = todo[k + 1]
    BY <2>1, AtWork
  <2>4. todo' = Tail(todo) /\ pc' = IF Len(todo) = 1 THEN "idle" ELSE "dispatch"
    BY <1>15 DEF Report, NextRun
  <2>5. Len(todo) = 1 <=> Tail(todo) = <<>>
    <3> DEFINE R == [event : DOMAIN events, recovery : BOOLEAN]
               u == Tail(todo)
    <3>1. u \in Seq(R) /\ Len(u) = Len(todo) - 1 /\ Len(todo) \in Nat
      BY <2>3
    <3> HIDE DEF R, u
    <3>2. u = <<>> <=> Len(u) = 0
      BY <3>1, EmptySeq, Zenon
    <3>3. Len(todo) = 1 <=> u = <<>>
      BY <3>1, <3>2, SMTT(30)
    <3> QED
      BY <3>3 DEF u
  <2>6. ASSUME NEW k \in DOMAIN todo', ~todo'[k].recovery, NEW j \in DOMAIN events',
               todo'[k].event < j
        PROVE  events'[j].hook # events'[todo'[k].event].hook
    <3>1. k + 1 \in DOMAIN todo /\ todo'[k] = todo[k + 1]
      BY <2>3, <2>4
    <3>2. todo'[k].event \in DOMAIN events
      BY <3>1, RowTypes
    <3>3. events[j].hook # events[todo[k + 1].event].hook /\ j \in DOMAIN events
      BY <2>2, <2>6, <3>1 DEF SameTriggers
    <3> QED
      BY SMTT(30), <2>2, <3>1, <3>2, <3>3 DEF SameTriggers
  <2> QED
    BY <2>4, <2>5, <2>6
<1>16. ASSUME WorkerEnds PROVE WorkerInv'
  BY <1>16, WorkerKept DEF WorkerEnds, SameTriggers
<1>17. ASSUME Drain PROVE WorkerInv'
  BY <1>17, WorkerKept DEF Drain, Fault, SameTriggers
<1>18. ASSUME Exit PROVE WorkerInv'
  BY <1>18 DEF Exit, Down
<1>19. ASSUME Crash PROVE WorkerInv'
  BY <1>19 DEF Crash, Down, Fault
<1>20. ASSUME Restart PROVE WorkerInv'
  <2>1. SameTriggers /\ todo = <<>> /\ todo' = <<>> /\ pc' = "idle"
    BY <1>20, RestartWrites DEF Restart, DownInv
  <2> QED
    BY <2>1
<1>21. ASSUME UNCHANGED vars PROVE WorkerInv'
  BY <1>21, WorkerKept DEF vars, SameTriggers
<1> HIDE DEF IndInv, TypeOK, Events, WorkerInv, workerVars, boundVars
<1> QED
  BY <1>1, <1>2, <1>3, <1>4, <1>5, <1>6, <1>7, <1>8, <1>9, <1>10, <1>11,
       <1>12, <1>13, <1>14, <1>15, <1>16, <1>17, <1>18, <1>19, <1>20, <1>21
       DEF Next, Operator, Handler, Time, Worker, Life

\* Neither are there new events nor new runs.
Quiet ==
    /\ DOMAIN events' = DOMAIN events
    /\ \A i \in DOMAIN events : events'[i].runs = events[i].runs

\* Only a tick adds events, and only the claim of a deployment starts one.
LEMMA Kinds == IndInv /\ [Next]_vars => Tick \/ StartRun \/ Quiet
<1> SUFFICES ASSUME IndInv, [Next]_vars, ~Tick, ~StartRun PROVE Quiet
  OBVIOUS
<1> USE DEF Quiet, workerVars, boundVars
<1>1. ASSUME NEW h \in Hooks, NEW on \in BOOLEAN, CreateReleaseHook(h, on)
     PROVE Quiet
  BY <1>1 DEF CreateReleaseHook
<1>2. ASSUME NEW h \in Hooks, DeleteReleaseHook(h) PROVE Quiet
  BY <1>2 DEF DeleteReleaseHook
<1>3. ASSUME NEW h \in Hooks, NEW on \in BOOLEAN \cup {None}, UpdateReads(h,
     on) PROVE Quiet
  BY <1>3 DEF UpdateReads
<1>4. ASSUME NEW S \in SUBSET Hooks, Trigger(S) PROVE Quiet
  BY <1>4 DEF Trigger, Queue
<1>5. ASSUME UpdateWrites PROVE Quiet
  BY <1>5 DEF UpdateWrites, Written
<1>6. ASSUME UpdateRecords PROVE Quiet
  BY <1>6 DEF UpdateRecords
<1>7. ASSUME NEW h \in Hooks, WindowElapses(h) PROVE Quiet
  BY <1>7 DEF WindowElapses
<1>8. ASSUME NEW i \in DOMAIN events, LeaseExpires(i) PROVE Quiet
  BY <1>8, LeaseWrites DEF SameTriggers
<1>9. ASSUME Refuse PROVE Quiet
  <2>1. todo # <<>> /\ Complete("failed")
    BY <1>9 DEF Refuse, IndInv, WorkerInv
  <2>2. SameTriggers /\ \A j \in DOMAIN events : events'[j].runs = events[j].runs
    BY <2>1, CompleteWrites DEF IndInv
  <2> QED
    BY <2>2 DEF SameTriggers
<1>10. ASSUME Reuse PROVE Quiet
  BY <1>10 DEF Reuse, Existing
<1>11. ASSUME Create PROVE Quiet
  <2>1. SameTriggers /\ \A j \in DOMAIN events : events'[j].runs = events[j].runs
    BY <1>11, CreateWrites
  <2> QED
    BY <2>1 DEF SameTriggers
<1>12. ASSUME EndRun PROVE Quiet
  <2>1. SameTriggers /\ \A j \in DOMAIN events : events'[j].runs = events[j].runs
    BY <1>12, EndRunWrites
  <2> QED
    BY <2>1 DEF SameTriggers
<1>13. ASSUME Report PROVE Quiet
  <2> DEFINE s == EventStatus(events[Cur].deployment)
  <2>1. todo # <<>> /\ Complete(s) /\ s \in {"success", "failed"}
    BY <1>13 DEF Report, IndInv, WorkerInv, EventStatus
  <2> HIDE DEF s
  <2>2. SameTriggers /\ \A j \in DOMAIN events : events'[j].runs = events[j].runs
    BY <2>1, CompleteWrites DEF IndInv
  <2> QED
    BY <2>2 DEF SameTriggers
<1>14. ASSUME WorkerEnds PROVE Quiet
  BY <1>14 DEF WorkerEnds
<1>15. ASSUME Drain PROVE Quiet
  BY <1>15 DEF Drain, Fault
<1>16. ASSUME Exit PROVE Quiet
  BY <1>16 DEF Exit, Down
<1>17. ASSUME Crash PROVE Quiet
  BY <1>17 DEF Crash, Down, Fault
<1>18. ASSUME Restart PROVE Quiet
  <2>1. SameTriggers /\ \A j \in DOMAIN events : events'[j].runs = events[j].runs
    BY <1>18, RestartWrites
  <2> QED
    BY <2>1 DEF SameTriggers
<1>19. ASSUME UNCHANGED vars PROVE Quiet
  BY <1>19 DEF vars
<1> HIDE DEF Quiet, workerVars, boundVars
<1> QED
  BY <1>1, <1>2, <1>3, <1>4, <1>5, <1>6, <1>7, <1>8, <1>9, <1>10, <1>11,
       <1>12, <1>13, <1>14, <1>15, <1>16, <1>17, <1>18, <1>19 DEF Next,
       Operator, Handler, Time, Worker, Life

-----------------------------------------------------------------------------
(* The initial state, and the theorems.                                    *)

\* A fresh database satisfies the invariant.
LEMMA InitIndInv == Init => IndInv
<1> SUFFICES ASSUME Init PROVE IndInv
  OBVIOUS
<1>1. TypeOK
  <2>1. events = <<>> /\ todo = <<>>
    BY DEF Init
  <2>2. events \in Seq(Events) /\ todo \in Seq([event : DOMAIN events, recovery : BOOLEAN])
    BY <2>1
  <2> QED
    BY <2>2, BoundAssumption DEF Init, TypeOK, HookRows, Points
<1>2. WindowInv
  BY DEF Init, WindowInv
<1>3. UpdateInv /\ EventInv /\ OrderInv /\ WorkerInv /\ CancelInv /\ DownInv
  BY DEF Init, UpdateInv, EventInv, OrderInv, WorkerInv, CancelInv, DownInv
<1> QED
  BY <1>1, <1>2, <1>3 DEF IndInv

\* IndInv holds in every state of hooks, events and worker.
LEMMA Invariance == Spec => []IndInv
<1>1. IndInv /\ [Next]_vars => IndInv'
  BY TypeStep, WindowStep, UpdateStep, EventStep, OrderStep, WorkerStep, CancelStep,
     DownStep DEF IndInv
<1> QED
  BY InitIndInv, <1>1, PTL DEF Spec

\* However triggers, updates, ticks, drains, crashes and failed writes cross:
\* a hook that is off has no window, the deployment of an event is started at
\* most once, and an event that says success was carried out.
THEOREM HooksAreHonest == Spec => []EventsAreHonest
<1>1. IndInv => EventsAreHonest
  BY DEF IndInv, EventsAreHonest, WindowInv, EventInv, DisabledIsIdle, RunsAtMostOnce,
         SuccessIsReal
<1> QED
  BY Invariance, <1>1, PTL

\* A set of triggers has a latest one.
LEMMA LatestTrigger ==
  ASSUME NEW n \in Nat, NEW S \in SUBSET (1 .. n), S # {}
  PROVE  Max(S) \in S /\ \A t \in S : Max(S) >= t
<1> DEFINE D == {n - t : t \in S}
<1>1. \A t \in S : n - t \in Nat /\ t \in Nat
  OBVIOUS
<1>2. D \subseteq Nat /\ D # {}
  BY <1>1
<1> HIDE DEF D
<1>3. PICK d \in D : \A c \in D : ~(<<c, d>> \in OpToRel(<, Nat))
  BY <1>2, WFMin, NatLessThanWellFounded
<1>4. \A c \in D : c >= d
  <2>1. ASSUME NEW c \in D, c < d PROVE FALSE
    BY <1>2, <1>3, <2>1 DEF OpToRel
  <2> QED
    BY <1>2, <2>1
<1>5. PICK x \in S : d = n - x
  BY DEF D
<1>6. \A t \in S : x >= t
  <2>1. ASSUME NEW t \in S PROVE x >= t
    <3>1. n - t \in D
      BY DEF D
    <3>2. n - t >= n - x
      BY <1>4, <1>5, <3>1
    <3> QED
      BY <1>1, <3>2
  <2> QED
    BY <2>1
<1> QED
  BY <1>6, Zenon DEF Max

\* The worker deploys the last trigger of a window last: unless it recovers an
\* event whose lease expired, it starts nothing older than what it started
\* before for that hook.
THEOREM NewestIsLast == Spec => NewestLast
<1> DEFINE Step ==
      \A i \in DOMAIN events : events'[i].runs > events[i].runs =>
         \/ Head(todo).recovery
         \/ \A j \in DOMAIN events \ {i} :
              events[j].hook = events[i].hook /\ events[j].runs > 0
              => Version(events[j]) < Version(events[i])
<1>1. ASSUME IndInv, StartRun PROVE Step
  <2>1. CASE power = "draining"
    <3>1. UNCHANGED events
      BY <1>1, <2>1 DEF StartRun
    <3>2. \A i \in DOMAIN events : events[i].runs \in Nat
      BY <1>1, RowTypes DEF IndInv
    <3> QED
      BY <3>1, <3>2
  <2>2. CASE power # "draining"
    <3> SUFFICES ASSUME NEW i \in DOMAIN events, events'[i].runs > events[i].runs,
                        ~Head(todo).recovery, NEW j \in DOMAIN events \ {i},
                        events[j].hook = events[i].hook
                 PROVE  Version(events[j]) < Version(events[i])
      OBVIOUS
    <3>1. todo # <<>> /\ i = Cur
      <4>1. /\ todo # <<>>
            /\ i # Cur => events'[i] = events[i]
        BY <1>1, <2>2, StartRunWrites
      <4>2. events[i].runs \in Nat
        BY <1>1, RowTypes DEF IndInv
      <4> QED
        BY <4>1, <4>2
    <3>2. 1 \in DOMAIN todo /\ ~todo[1].recovery /\ i = todo[1].event
      BY <1>1, <3>1, AtWork DEF IndInv, Cur
    <3>3. i \in Nat /\ j \in Nat /\ j # i
      BY <1>1 DEF IndInv, TypeOK
    <3>4. ~(i < j)
      BY <1>1, <3>2 DEF IndInv, WorkerInv
    <3>5. \A s \in events[j].batch, t \in events[i].batch : s < t
      BY <1>1, <3>3, <3>4 DEF IndInv, OrderInv
    <3>6. /\ events[i].batch \subseteq 1 .. MaxTriggers /\ events[i].batch # {}
          /\ events[j].batch \subseteq 1 .. MaxTriggers /\ events[j].batch # {}
      BY <1>1, RowTypes DEF IndInv, Triggers
    <3>7. Max(events[i].batch) \in events[i].batch /\ Max(events[j].batch) \in events[j].batch
      BY <3>6, LatestTrigger, BoundAssumption
    <3> QED
      BY <3>5, <3>7 DEF Version
  <2> QED
    BY <2>1, <2>2
<1>2. ASSUME IndInv, Tick PROVE Step
  <2>1. \A i \in DOMAIN events : events'[i] = events[i] /\ events[i].runs \in Nat
    BY <1>2, TickWrites, RowTypes DEF IndInv
  <2> QED
    BY <2>1
<1>3. ASSUME IndInv, Quiet PROVE Step
  <2>1. \A i \in DOMAIN events : events'[i].runs = events[i].runs /\ events[i].runs \in Nat
    BY <1>3, RowTypes DEF IndInv, Quiet
  <2> QED
    BY <2>1
<1>4. IndInv /\ [Next]_vars => [Step]_vars
  <2> HIDE DEF Step
  <2> QED
    BY <1>1, <1>2, <1>3, Kinds
<1> QED
  BY <1>4, Invariance, PTL DEF Spec, NewestLast

\* No event carries a trigger that handleUpdateReleaseHook records as cancelled,
\* unless the window was claimed between its read and its write of the hook.
THEOREM CancelledStaysCancelled == Spec => []CancelledIsNotDeployed
<1>1. IndInv => CancelledIsNotDeployed
  BY DEF IndInv, CancelInv, CancelledIsNotDeployed
<1> QED
  BY Invariance, <1>1, PTL
=============================================================================
