-------------------------- MODULE FleetWatchProofs --------------------------
(***************************************************************************)
(* Proofs about the health monitor, for every set of hosts, intervals and  *)
(* callers, every batch and every number of changes.                       *)
(***************************************************************************)
EXTENDS FleetWatch, FiniteSetTheorems, SequenceTheorems, TLAPS

\* What a row and the age of its last check say together.  A row that is not
\* there says nothing, and a host that never was counts as checked long ago.
\* A host has a next check exactly while its checks are on; then the time since
\* the last check and the time until the next make up the interval, unless an
\* update has moved the next.
Sound(r, a, m) ==
    /\ r.life # "live" => r = Absent(r.life)
    /\ r.life = "unborn" => a = MaxInterval
    /\ r.life = "live" => (r.enabled <=> r.wait # NoCheck)
    /\ r.life = "live" /\ r.enabled /\ m # "update" =>
          /\ r.wait > 0 => a + r.wait >= r.interval
          /\ r.wait <= 0 => a >= r.interval

Causes == {"none", "update", "request"}

RowInv ==
    /\ row \in [Hosts -> Rows] /\ age \in [Hosts -> 0 .. MaxInterval]
    /\ cause \in [Hosts -> Causes]
    /\ \A h \in Hosts : Sound(row[h], age[h], cause[h])

\* There is one connection at a time, and who waits for the mutex or holds it
\* has a host.
ConnInv ==
    /\ conn \in [Actors -> Conns] /\ OneConnection
    /\ \A a \in Actors : conn[a].pc # "idle" => conn[a].host \in Hosts

\* The schedule that an update is about to write is one of a host whose checks
\* are on exactly if the update turns them on.
UpdateInv ==
    /\ update \in Updates \cup {None}
    /\ update # None /\ update.pc = "scheduled"
       => (update.enabled <=> update.wait # NoCheck)

\* The pass and the bounds.
PassInv ==
    /\ strays \subseteq Hosts /\ ticker \in BOOLEAN /\ changes \in 0 .. MaxChanges
    /\ queue \in Seq(Hosts) /\ Len(queue) <= Batch

\* A host in the list of a pass has waited for its interval, unless something
\* happened to it since.
Waited(h) == row[h].life = "live" => age[h] >= row[h].interval \/ cause[h] # "none"
ListInv == \A h \in ToSet(queue) : Waited(h)

\* A pass takes a host once.
OnceInv ==
    /\ \A i, j \in DOMAIN queue : i # j => queue[i] # queue[j]
    /\ conn[Monitor].pc # "idle" => conn[Monitor].host \notin ToSet(queue)

IndInv == RowInv /\ ConnInv /\ UpdateInv /\ PassInv /\ ListInv /\ OnceInv

-----------------------------------------------------------------------------
(* Times.                                                                  *)

\* The smaller of two numbers.
LEMMA MinOfTwo ==
  ASSUME NEW a \in Int, NEW b \in Int
  PROVE  Min({a, b}) = IF a <= b THEN a ELSE b
<1>1. \E x \in {a, b} : \A y \in {a, b} : x =< y
  OBVIOUS
<1>2. Min({a, b}) \in {a, b} /\ \A y \in {a, b} : Min({a, b}) =< y
  BY <1>1, Zenon DEF Min
<1> QED
  BY <1>2

\* MaxInterval is an interval, and none is longer.
LEMMA LongestInterval ==
  MaxInterval \in Intervals /\ MaxInterval \in Nat /\ \A i \in Intervals : i <= MaxInterval
<1>1. \E x \in Intervals : \A y \in Intervals : x >= y
  BY IntervalAssumption
<1>2. MaxInterval \in Intervals /\ \A y \in Intervals : MaxInterval >= y
  BY <1>1, Zenon DEF MaxInterval, Max
<1> QED
  BY <1>2, IntervalAssumption

\* '' sorts before every time.
LEMMA NoCheckIsFirst ==
  NoCheck \in Int /\ NoCheck < 0 /\ Cardinality(Hosts) \in Nat
  /\ NoCheck = -(Cardinality(Hosts) + 2)
BY IdAssumption, FS_CardinalityType DEF NoCheck

\* The waits that last a while are waits.
LEMMA IntervalsAreWaits == Intervals \subseteq Waits /\ 0 \in Waits /\ NoCheck \in Waits
BY IntervalAssumption, LongestInterval, NoCheckIsFirst DEF Waits

\* Rows and the update hold at most one time more than there are hosts.
LEMMA HeldIsSmall ==
  IsFiniteSet(Held) /\ Cardinality(Held) <= Cardinality(Hosts) + 1
<1> DEFINE T == {row[h].wait : h \in Hosts}
           f == [h \in Hosts |-> row[h].wait]
<1>1. f \in Surjection(Hosts, T)
  BY DEF Surjection
<1>2. IsFiniteSet(T) /\ Cardinality(T) <= Cardinality(Hosts)
  BY <1>1, FS_Surjection, IdAssumption, Zenon
<1> HIDE DEF T, f
<1>3. Cardinality(T) \in Nat /\ Cardinality(Hosts) \in Nat
  BY <1>2, IdAssumption, FS_CardinalityType
<1>4. IsFiniteSet(T \cup {update.wait})
      /\ Cardinality(T \cup {update.wait}) <= Cardinality(Hosts) + 1
  BY <1>2, <1>3, FS_AddElement, SMTT(30)
<1>5. Held = T \/ Held = T \cup {update.wait}
  BY DEF Held, T
<1> QED
  BY <1>2, <1>3, <1>4, <1>5

\* A tick later a wait is still a wait; no time becomes '', and only what was
\* due or one tick off is due.
LEMMA LaterIsAWait ==
  ASSUME NEW w \in Held, w \in Waits
  PROVE  /\ OneTickLater(w) \in Waits
         /\ OneTickLater(w) = NoCheck <=> w = NoCheck
         /\ w > 0 => OneTickLater(w) = w - 1
         /\ w <= 0 => OneTickLater(w) <= 0
<1> DEFINE S == {v \in Held : w < v /\ v <= 0}
<1>1. S \in SUBSET (Held \ {w})
  BY DEF Waits
<1>2. IsFiniteSet(Held \ {w}) /\ Cardinality(Held \ {w}) = Cardinality(Held) - 1
  BY HeldIsSmall, FS_RemoveElement
<1>3. IsFiniteSet(S) /\ Cardinality(S) <= Cardinality(Held \ {w})
  BY <1>1, <1>2, FS_Subset
<1>4. Cardinality(S) \in Nat /\ Cardinality(Held) \in Nat
  BY <1>3, HeldIsSmall, FS_CardinalityType
<1>5. Cardinality(S) <= Cardinality(Hosts)
  BY <1>2, <1>3, <1>4, HeldIsSmall, NoCheckIsFirst
<1>6. OneTickLater(w) = IF w = NoCheck THEN NoCheck
                        ELSE IF w > 0 THEN w - 1 ELSE -(1 + Cardinality(S))
  BY DEF OneTickLater
<1> HIDE DEF S
<1> QED
  BY <1>4, <1>5, <1>6, NoCheckIsFirst, LongestInterval DEF Waits

-----------------------------------------------------------------------------
(* The steps preserve the invariant.                                       *)

\* A row that is written is sound if what is written is.
LEMMA OneRow ==
  ASSUME RowInv, NEW h \in Hosts, NEW r \in Rows, NEW a \in 0 .. MaxInterval,
         NEW m \in Causes, Sound(r, a, m), row' = [row EXCEPT ![h] = r],
         age' = [age EXCEPT ![h] = a] \/ (age' = age /\ a = age[h]),
         cause' = [cause EXCEPT ![h] = m] \/ (cause' = cause /\ m = cause[h])
  PROVE  RowInv'
<1>1. /\ row' \in [Hosts -> Rows] /\ age' \in [Hosts -> 0 .. MaxInterval]
      /\ cause' \in [Hosts -> Causes]
  BY DEF RowInv
<1>2. \A g \in Hosts : row'[g] = (IF g = h THEN r ELSE row[g])
                      /\ age'[g] = (IF g = h THEN a ELSE age[g])
                      /\ cause'[g] = (IF g = h THEN m ELSE cause[g])
  BY DEF RowInv
<1>3. \A g \in Hosts : Sound(row'[g], age'[g], cause'[g])
  BY <1>2 DEF RowInv
<1> QED
  BY <1>1, <1>3 DEF RowInv, Sound, Absent

\* Rows and the ages of their checks stay sound.
LEMMA RowStep == IndInv /\ [Next]_vars => RowInv'
<1> SUFFICES ASSUME IndInv, [Next]_vars PROVE RowInv'
  OBVIOUS
<1> USE IntervalAssumption, LongestInterval, NoCheckIsFirst, IntervalsAreWaits DEF IndInv
<1>0. /\ 0 \in 0 .. MaxInterval /\ MaxInterval \in 0 .. MaxInterval
      /\ {"none", "update", "request"} = Causes
  BY DEF Causes
<1>1. CASE UNCHANGED <<row, age, cause>>
  BY <1>1 DEF RowInv, Sound, Absent
<1>2. ASSUME NEW h \in Hosts, NEW e \in BOOLEAN, NEW i \in Intervals,
             CreatePushHost(h, e, i)
      PROVE  RowInv'
  <2> DEFINE r == [life |-> "live", enabled |-> e, interval |-> i,
                   wait |-> IF e THEN 0 ELSE NoCheck]
  <2>1. r \in Rows
    BY DEF Rows
  <2>2. Sound(r, MaxInterval, cause[h]) /\ cause[h] \in Causes
    BY DEF Sound, RowInv
  <2>3. /\ row' = [row EXCEPT ![h] = r] /\ age' = age /\ age[h] = MaxInterval
        /\ cause' = cause
    BY <1>2 DEF CreatePushHost, RowInv, Sound
  <2> HIDE DEF r
  <2> QED
    BY <1>0, <2>1, <2>2, <2>3, OneRow
<1>3. ASSUME NEW h \in Hosts, DeletePushHost(h) PROVE RowInv'
  <2>1. Absent("gone") \in Rows /\ Sound(Absent("gone"), MaxInterval, "none")
    BY DEF Absent, Rows, Sound
  <2> QED
    BY <1>0, <1>3, <2>1, OneRow DEF DeletePushHost
<1>4. CASE WriteHost
  <2> DEFINE h == update.host
             r == [row[h] EXCEPT !.enabled = update.enabled,
                     !.interval = update.interval, !.wait = update.wait]
             m == IF update.interval = row[h].interval /\ update.wait = row[h].wait
                  THEN cause[h] ELSE "update"
  <2>1. update \in Updates /\ h \in Hosts /\ row[h] \in Rows
    BY <1>4 DEF WriteHost, UpdateInv, Updates, RowInv
  <2>2. CASE Live(h)
    <3>1. /\ r \in Rows /\ r.life = "live" /\ r.enabled = update.enabled
          /\ r.interval = update.interval /\ r.wait = update.wait
      BY <2>1, <2>2 DEF Rows, Updates, Live
    <3>2. row' = [row EXCEPT ![h] = r] /\ age' = age
      BY <1>4, <2>1, <2>2 DEF WriteHost, UpdateRow, RowInv
    <3>3. row'[h] = r
      BY <2>1, <3>2 DEF RowInv
    <3>4. cause' = IF row'[h].interval = row[h].interval /\ row'[h].wait = row[h].wait
                   THEN cause ELSE [cause EXCEPT ![h] = "update"]
      BY <1>4 DEF WriteHost
    <3> HIDE DEF h, r
    <3>5. /\ m \in Causes /\ age[h] \in 0 .. MaxInterval
          /\ (cause' = [cause EXCEPT ![h] = m] \/ (cause' = cause /\ m = cause[h]))
      <4>1. CASE update.interval = row[h].interval /\ update.wait = row[h].wait
        BY <2>1, <3>1, <3>3, <3>4, <4>1 DEF RowInv
      <4>2. CASE ~(update.interval = row[h].interval /\ update.wait = row[h].wait)
        BY <1>0, <2>1, <3>1, <3>3, <3>4, <4>2 DEF RowInv
      <4> QED
        BY <4>1, <4>2
    <3>6. Sound(r, age[h], m)
      <4>1. update.enabled <=> update.wait # NoCheck
        BY <1>4 DEF WriteHost, UpdateInv
      <4>2. Sound(row[h], age[h], cause[h]) /\ row[h].life = "live"
            /\ (row[h].enabled <=> row[h].wait # NoCheck)
        BY <2>1, <2>2 DEF RowInv, Sound, Live
      <4>3. CASE m = "update"
        BY <3>1, <4>1, <4>3 DEF Sound
      <4>4. CASE /\ update.interval = row[h].interval /\ update.wait = row[h].wait
                 /\ m = cause[h]
        BY <3>1, <4>1, <4>2, <4>4 DEF Sound
      <4> QED
        BY <4>3, <4>4
    <3> QED
      BY <2>1, <3>1, <3>2, <3>5, <3>6, OneRow
  <2>3. CASE ~Live(h)
    BY <1>1, <1>4, <2>3 DEF WriteHost, UpdateRow
  <2> QED
    BY <2>2, <2>3
<1>5. ASSUME NEW b \in Actors, Record(b) PROVE RowInv'
  <2>1. PICK status \in {"ok", "failed"} : RecordPushHostCheck(b, status)
    BY <1>5 DEF Record
  <2> DEFINE h == conn[b].host
             w == NextCheck(row[h], status)
             r == [row[h] EXCEPT !.wait = w]
  <2>2. h \in Hosts /\ row[h] \in Rows
    BY <2>1 DEF RecordPushHostCheck, ConnInv, RowInv
  <2>3. CASE Live(h)
    <3>1. row[h].enabled \in BOOLEAN /\ row[h].interval \in Intervals
      BY <2>2 DEF Rows
    <3>2. w \in Waits /\ w = IF row[h].enabled THEN row[h].interval ELSE NoCheck
      BY <3>1 DEF NextCheck
    <3> HIDE DEF w
    <3>3. /\ r \in Rows /\ r.life = "live" /\ r.enabled = row[h].enabled
          /\ r.interval = row[h].interval /\ r.wait = w
      BY <2>2, <2>3, <3>2 DEF Rows, Live
    <3> DEFINE m == IF b # Monitor /\ h \in ToSet(queue) THEN "request" ELSE "none"
    <3>4. Sound(r, 0, m) /\ m \in Causes
      BY <3>1, <3>2, <3>3 DEF Sound, Causes
    <3>5. /\ row' = [row EXCEPT ![h] = r] /\ age' = [age EXCEPT ![h] = 0]
          /\ cause' = [cause EXCEPT ![h] = m]
      BY <2>1, <2>2, <2>3 DEF RecordPushHostCheck, RowExists, w
    <3> HIDE DEF r, m
    <3> QED
      BY <1>0, <2>2, <3>3, <3>4, <3>5, OneRow
  <2>4. CASE ~Live(h)
    BY <1>1, <2>1, <2>4 DEF RecordPushHostCheck, RowExists
  <2> QED
    BY <2>3, <2>4
<1>6. CASE Tick
  <2>1. ASSUME NEW h \in Hosts
        PROVE  /\ row'[h] \in Rows /\ age'[h] \in 0 .. MaxInterval
               /\ Sound(row'[h], age'[h], cause[h])
    <3> DEFINE w == OneTickLater(row[h].wait)
               r == [row[h] EXCEPT !.wait = w]
    <3>1. row[h] \in Rows /\ age[h] \in 0 .. MaxInterval
          /\ Sound(row[h], age[h], cause[h])
      BY DEF RowInv
    <3>2. row[h].wait \in Held /\ row[h].wait \in Waits
      BY <3>1 DEF Held, Rows
    <3>3. row'[h] = r /\ age'[h] = Min({MaxInterval, age[h] + 1})
      BY <1>6 DEF Tick
    <3>4. age'[h] = IF MaxInterval <= age[h] + 1 THEN MaxInterval ELSE age[h] + 1
      BY <3>1, <3>3, MinOfTwo
    <3>5. /\ w \in Waits /\ (w = NoCheck <=> row[h].wait = NoCheck)
          /\ row[h].wait > 0 => w = row[h].wait - 1
          /\ row[h].wait <= 0 => w <= 0
      BY <3>2, LaterIsAWait
    <3> HIDE DEF w
    <3>6. /\ r \in Rows /\ r.life = row[h].life /\ r.enabled = row[h].enabled
          /\ r.interval = row[h].interval /\ r.wait = w
          /\ (w = row[h].wait => r = row[h])
      BY <3>1, <3>5 DEF Rows
    <3> HIDE DEF r
    <3>7. row[h].interval \in Intervals /\ row[h].wait \in Int /\ w \in Int
      BY <3>1, <3>5 DEF Rows, Waits
    <3>8. row[h].life # "live" => r = row[h]
      BY <3>1, <3>5, <3>6 DEF Sound, Absent
    <3>9. age'[h] \in 0 .. MaxInterval
      BY <3>1, <3>4
    <3>10. CASE row[h].life # "live"
      BY <3>1, <3>3, <3>4, <3>6, <3>8, <3>9, <3>10 DEF Sound
    <3>11. CASE row[h].life = "live"
      <4>1. row[h].enabled <=> w # NoCheck
        BY <3>1, <3>5, <3>11 DEF Sound
      <4> DEFINE i == row[h].interval
                 v == row[h].wait
      <4>2. /\ i \in Nat /\ i <= MaxInterval /\ v \in Int /\ w \in Int
            /\ age[h] \in Nat /\ age'[h] \in Nat
            /\ age'[h] = MaxInterval \/ age'[h] = age[h] + 1
        <5>1. i \in Nat /\ i <= MaxInterval /\ v \in Int /\ w \in Int
          BY <3>7
        <5>2. age[h] \in Nat /\ age'[h] \in Nat
          BY <3>1, <3>9
        <5>3. age'[h] = MaxInterval \/ age'[h] = age[h] + 1
          BY <3>4
        <5> QED
          BY <5>1, <5>2, <5>3
      <4> DEFINE on == row[h].enabled /\ cause[h] # "update"
      <4>3. /\ on /\ v > 0 => age[h] + v >= i
            /\ on /\ v <= 0 => age[h] >= i
        BY <3>1, <3>11 DEF Sound
      <4> HIDE DEF i, v, on
      <4>4. /\ on /\ w > 0 => age'[h] + w >= i
            /\ on /\ w <= 0 => age'[h] >= i
        <5>1. /\ v > 0 => w = v - 1
              /\ v <= 0 => w <= 0
          BY <3>5 DEF v
        <5> QED
          BY <4>2, <4>3, <5>1
      <4> QED
        BY <3>3, <3>6, <3>9, <3>11, <4>1, <4>4 DEF Sound, i, on
    <3> QED
      BY <3>10, <3>11
  <2>2. row' \in [Hosts -> Rows] /\ age' \in [Hosts -> 0 .. MaxInterval]
    BY <1>6, <2>1 DEF Tick
  <2>3. cause' = cause
    BY <1>6 DEF Tick
  <2> QED
    BY <2>1, <2>2, <2>3 DEF RowInv
<1>7. CASE Restart
  <2>1. ASSUME NEW h \in Hosts
        PROVE  row'[h] = row[h] /\ cause'[h] \in Causes
               /\ Sound(row[h], age[h], cause'[h])
    <3>1. row[h] \in Rows /\ Sound(row[h], age[h], cause[h]) /\ cause[h] \in Causes
      BY DEF RowInv
    <3>2. ~(row[h].enabled /\ row[h].wait = NoCheck)
      BY <3>1 DEF Sound, Absent, Rows
    <3>3. row'[h] = row[h]
      BY <1>7, <3>2 DEF Restart
    <3>4. cause'[h] = IF cause[h] = "request" THEN "none" ELSE cause[h]
      BY <1>7 DEF Restart
    <3> QED
      BY <3>1, <3>3, <3>4 DEF Sound, Causes
  <2>2. /\ row' = row /\ age' = age /\ cause' \in [Hosts -> Causes]
    BY <1>7, <2>1 DEF Restart, RowInv
  <2> QED
    BY <2>1, <2>2 DEF RowInv
<1> QED
  BY <1>1, <1>2, <1>3, <1>4, <1>5, <1>6, <1>7 DEF Next, Operator, Handler,
     handleCreatePushHost, ReadHost, RequestCheck, ScheduleHost, StartPass,
     ConnectNext, ConnectRequested, vars

\* The mutex is taken only when nobody holds it.
LEMMA ConnStep == IndInv /\ [Next]_vars => ConnInv'
<1> SUFFICES ASSUME IndInv, [Next]_vars PROVE ConnInv'
  OBVIOUS
<1> USE DEF IndInv, ConnInv, OneConnection, Conns, Actors
<1>1. ASSUME NEW a \in Callers, NEW h \in Hosts, RequestCheck(a, h) PROVE ConnInv'
  BY <1>1 DEF RequestCheck
<1>2. CASE ConnectNext
  <2>1. Head(queue) \in Hosts
    BY <1>2 DEF ConnectNext, PassInv
  <2> QED
    BY <1>2, <2>1 DEF ConnectNext, MutexFree, Connected
<1>3. ASSUME NEW a \in Callers, ConnectRequested(a) PROVE ConnInv'
  BY <1>3 DEF ConnectRequested, MutexFree, Connected
<1>4. ASSUME NEW a \in Actors, Record(a) PROVE ConnInv'
  BY <1>4 DEF Record, RecordPushHostCheck, Idle
<1>5. CASE Restart
  BY <1>5 DEF Restart, Idle
<1>6. CASE UNCHANGED conn
  BY <1>6
<1> QED
  BY <1>1, <1>2, <1>3, <1>4, <1>5, <1>6 DEF Next, Operator, Handler,
     handleCreatePushHost, CreatePushHost, DeletePushHost, ReadHost, ScheduleHost,
     WriteHost, StartPass, Tick, vars

\* An update schedules what it enables.
LEMMA UpdateStep == IndInv /\ [Next]_vars => UpdateInv'
<1> SUFFICES ASSUME IndInv, [Next]_vars PROVE UpdateInv'
  OBVIOUS
<1> USE IntervalsAreWaits, NoCheckIsFirst DEF IndInv, UpdateInv
<1>1. ASSUME NEW h \in Hosts, NEW e \in BOOLEAN \cup {None},
             NEW i \in Intervals \cup {None}, ReadHost(h, e, i)
      PROVE  UpdateInv'
  BY <1>1 DEF ReadHost, RowInv, Rows, Updates
<1>2. CASE ScheduleHost
  <2> DEFINE r == row[update.host]
             w == Reschedule(update, r)
  <2>1. update \in Updates /\ r \in Rows /\ Sound(r, age[update.host], cause[update.host])
    BY <1>2 DEF ScheduleHost, Updates, RowInv
  <2>2. w \in Waits /\ (update.enabled <=> w # NoCheck)
    BY <2>1 DEF Reschedule, Updates, Rows, Sound
  <2>3. update' = [update EXCEPT !.pc = "scheduled", !.wait = w]
    BY <1>2 DEF ScheduleHost
  <2> HIDE DEF w
  <2> QED
    BY <2>1, <2>2, <2>3 DEF Updates
<1>3. CASE WriteHost
  BY <1>3 DEF WriteHost
<1>4. CASE Tick
  <2>1. CASE update = None
    BY <1>4, <2>1 DEF Tick
  <2>2. CASE update # None
    <3> DEFINE w == OneTickLater(update.wait)
    <3>1. update \in Updates /\ update.wait \in Held
      BY <2>2 DEF Held
    <3>2. w \in Waits /\ (w = NoCheck <=> update.wait = NoCheck)
      BY <3>1, LaterIsAWait DEF Updates
    <3>3. update' = [update EXCEPT !.wait = w]
      BY <1>4, <2>2 DEF Tick
    <3> HIDE DEF w
    <3> QED
      BY <2>2, <3>1, <3>2, <3>3 DEF Updates
  <2> QED
    BY <2>1, <2>2
<1>5. CASE Restart
  BY <1>5 DEF Restart
<1>6. CASE UNCHANGED update
  BY <1>6
<1> QED
  BY <1>1, <1>2, <1>3, <1>4, <1>5, <1>6 DEF Next, Operator, Handler,
     handleCreatePushHost, CreatePushHost, DeletePushHost, RequestCheck,
     StartPass, ConnectNext, ConnectRequested, Record, RecordPushHostCheck, vars

\* A pass takes a batch of hosts that are due.
LEMMA PassIsDue ==
  ASSUME NEW list \in BoundedSeq(Hosts, Batch), ListDuePushHosts(list)
  PROVE  /\ list \in Seq(Hosts) /\ Len(list) <= Batch
         /\ \A h \in ToSet(list) : Due(h)
<1>1. PICK n \in 0 .. Batch : list \in [1 .. n -> Hosts]
  BY DEF BoundedSeq, SeqOf
<1>2. list \in Seq(Hosts) /\ Len(list) = n
  BY <1>1, BoundAssumption
<1>3. \A h \in ToSet(list) : Due(h)
  BY DEF ListDuePushHosts, DueInOrder
<1> QED
  BY <1>2, <1>3, BoundAssumption

\* The pass shrinks until the next begins.
LEMMA PassStep == IndInv /\ [Next]_vars => PassInv'
<1> SUFFICES ASSUME IndInv, [Next]_vars PROVE PassInv'
  OBVIOUS
<1> USE BoundAssumption DEF IndInv, PassInv
<1>1. ASSUME NEW h \in Hosts, NEW e \in BOOLEAN \cup {None},
             NEW i \in Intervals \cup {None}, ReadHost(h, e, i)
      PROVE  PassInv'
  BY <1>1 DEF ReadHost
<1>2. CASE StartPass
  BY <1>2, PassIsDue DEF StartPass
<1>3. CASE ConnectNext
  BY <1>3 DEF ConnectNext
<1>4. ASSUME NEW a \in Actors, Record(a) PROVE PassInv'
  BY <1>4 DEF Record, RecordPushHostCheck, ConnInv, RowExists
<1>5. CASE Tick
  BY <1>5 DEF Tick
<1>6. CASE Restart
  BY <1>6, EmptySeq DEF Restart
<1>7. CASE UNCHANGED <<strays, ticker, changes, queue>>
  BY <1>7
<1> QED
  BY <1>1, <1>2, <1>3, <1>4, <1>5, <1>6, <1>7 DEF Next, Operator, Handler,
     handleCreatePushHost, CreatePushHost, DeletePushHost, RequestCheck,
     ScheduleHost, WriteHost, ConnectRequested, vars

\* What is in the list of a pass has waited, also after updates, checks on demand
\* and deletions.
LEMMA ListStep == IndInv /\ [Next]_vars => ListInv'
<1> SUFFICES ASSUME IndInv, [Next]_vars, NEW h \in ToSet(queue') PROVE Waited(h)'
  BY DEF ListInv
<1> USE DEF IndInv
<1>0. queue \in Seq(Hosts) /\ queue' \in Seq(Hosts)
  BY PassStep DEF PassInv
<1>1. h \in Hosts
  BY <1>0 DEF ToSet
<1>2. /\ row[h] \in Rows /\ age[h] \in Nat /\ cause[h] \in Causes
      /\ Sound(row[h], age[h], cause[h]) /\ row[h].interval \in Nat
  <2>1. /\ row[h] \in Rows /\ age[h] \in 0 .. MaxInterval /\ cause[h] \in Causes
        /\ Sound(row[h], age[h], cause[h])
    BY <1>1 DEF RowInv
  <2>2. row[h].interval \in Intervals
    BY <2>1 DEF Rows
  <2>3. age[h] \in Nat
    BY <2>1, LongestInterval
  <2>4. row[h].interval \in Nat
    BY <2>2, IntervalAssumption
  <2> QED
    BY <2>1, <2>3, <2>4
<1>3. CASE StartPass
  <2>1. Due(h) /\ UNCHANGED <<row, age, cause>>
    BY <1>3, PassIsDue DEF StartPass
  <2> QED
    BY <1>2, <2>1 DEF Due, Live, Sound, Waited
<1>4. CASE UNCHANGED <<row, age, cause>> /\ ToSet(queue') \subseteq ToSet(queue)
  BY <1>4 DEF ListInv, Waited
<1>5. CASE ConnectNext
  <2>1. ToSet(queue') \subseteq ToSet(queue)
    BY <1>0, <1>5 DEF ConnectNext, ToSet
  <2> QED
    BY <1>4, <1>5, <2>1 DEF ConnectNext
<1>6. ASSUME NEW g \in Hosts, NEW e, NEW i, CreatePushHost(g, e, i) PROVE Waited(h)'
  <2>1. CASE g = h
    <3>1. /\ row[h].life = "unborn" /\ age'[h] = MaxInterval
          /\ row'[h].interval \in Intervals
      BY <1>2, <1>6, <2>1, RowStep DEF CreatePushHost, Sound, RowInv, Rows
    <3> QED
      BY <3>1, LongestInterval DEF Waited
  <2>2. CASE g # h
    BY <1>1, <1>6, <2>2 DEF CreatePushHost, ListInv, Waited, RowInv
  <2> QED
    BY <2>1, <2>2
<1>7. ASSUME NEW g \in Hosts, DeletePushHost(g) PROVE Waited(h)'
  BY <1>1, <1>7 DEF DeletePushHost, ListInv, Waited, RowInv, Absent
<1>8. CASE WriteHost
  <2> DEFINE g == update.host
  <2>1. g \in Hosts /\ h \in ToSet(queue) /\ Waited(h)
    BY <1>8 DEF WriteHost, UpdateInv, Updates, ListInv
  <2>2. age' = age /\ (row'[h].life = "live" => row[h].life = "live")
    BY <1>1, <1>8, <2>1 DEF WriteHost, UpdateRow, RowInv, Rows
  <2>3. /\ cause' = IF row'[g].interval = row[g].interval /\ row'[g].wait = row[g].wait
                    THEN cause ELSE [cause EXCEPT ![g] = "update"]
        /\ g # h => row'[h] = row[h]
    BY <1>1, <1>8, <2>1 DEF WriteHost, UpdateRow, RowInv
  <2> HIDE DEF g
  <2>4. \/ row'[h].interval = row[h].interval /\ cause'[h] = cause[h]
        \/ cause'[h] = "update"
    BY <1>1, <2>1, <2>3 DEF RowInv
  <2> QED
    BY <2>1, <2>2, <2>4 DEF Waited
<1>9. ASSUME NEW b \in Actors, Record(b) PROVE Waited(h)'
  <2>1. PICK status \in {"ok", "failed"} : RecordPushHostCheck(b, status)
    BY <1>9 DEF Record
  <2> DEFINE g == conn[b].host
  <2>2. g \in Hosts /\ h \in ToSet(queue) /\ Waited(h)
    BY <2>1 DEF RecordPushHostCheck, ConnInv, ListInv
  <2>3. CASE ~Live(g)
    BY <2>1, <2>2, <2>3 DEF RecordPushHostCheck, RowExists, Waited
  <2>4. CASE Live(g) /\ g # h
    BY <1>1, <2>1, <2>2, <2>4 DEF RecordPushHostCheck, RowExists, Waited, RowInv
  <2>5. CASE Live(g) /\ g = h
    <3>1. b # Monitor
      BY <2>1, <2>2, <2>5 DEF RecordPushHostCheck, OnceInv
    <3> QED
      BY <1>1, <2>1, <2>2, <2>5, <3>1 DEF RecordPushHostCheck, RowExists, Waited, RowInv
  <2> QED
    BY <2>3, <2>4, <2>5
<1>10. CASE Tick
  <2>1. /\ row'[h].life = row[h].life /\ row'[h].interval = row[h].interval
        /\ age'[h] = Min({MaxInterval, age[h] + 1}) /\ cause' = cause /\ queue' = queue
    BY <1>1, <1>2, <1>10 DEF Tick, Rows
  <2>2. age'[h] = IF MaxInterval <= age[h] + 1 THEN MaxInterval ELSE age[h] + 1
    BY <1>2, <2>1, MinOfTwo, LongestInterval
  <2>3. row[h].interval <= MaxInterval
    BY <1>2, LongestInterval DEF Rows
  <2>4. Waited(h)
    BY <2>1 DEF ListInv
  <2>5. age'[h] >= row[h].interval \/ age'[h] >= age[h]
    BY <1>2, <2>2, <2>3, LongestInterval
  <2>6. age'[h] \in Nat
    BY <1>2, <2>2, LongestInterval
  <2> QED
    BY <1>2, <2>1, <2>4, <2>5, <2>6 DEF Waited
<1>11. CASE Restart
  BY <1>11 DEF Restart, ToSet
<1> QED
  BY <1>3, <1>4, <1>5, <1>6, <1>7, <1>8, <1>9, <1>10, <1>11 DEF Next, Operator, Handler,
     handleCreatePushHost, ReadHost, RequestCheck, ScheduleHost, ConnectRequested, vars

\* A list names a host once, and a host leaves it when its turn comes.
LEMMA OnceStep == IndInv /\ [Next]_vars => OnceInv'
<1> SUFFICES ASSUME IndInv, [Next]_vars PROVE OnceInv'
  OBVIOUS
<1> USE DEF IndInv
<1>0. queue \in Seq(Hosts) /\ Monitor \in Actors /\ conn \in [Actors -> Conns]
  BY DEF PassInv, ConnInv, Actors
<1>1. CASE StartPass
  <2>1. PICK list \in BoundedSeq(Hosts, Batch) : ListDuePushHosts(list) /\ queue' = list
    BY <1>1 DEF StartPass
  <2>2. list \in Seq(Hosts)
    BY <2>1, PassIsDue
  <2>3. \A i, j \in DOMAIN list : i < j => Earlier(list[i], list[j])
    BY <2>1 DEF ListDuePushHosts, DueInOrder
  <2>4. \A g \in Hosts : ~Earlier(g, g)
    <3> SUFFICES ASSUME NEW g \in Hosts PROVE ~Earlier(g, g)
      OBVIOUS
    <3>1. row[g].wait \in Int /\ g \in Nat
      BY IdAssumption, NoCheckIsFirst DEF RowInv, Rows, Waits
    <3> QED
      BY <3>1 DEF Earlier
  <2>5. \A i, j \in DOMAIN list : i # j => list[i] # list[j]
    <3> SUFFICES ASSUME NEW i \in DOMAIN list, NEW j \in DOMAIN list, i # j
                 PROVE  list[i] # list[j]
      OBVIOUS
    <3>1. i < j \/ j < i
      BY <2>2
    <3>2. list[i] \in Hosts /\ list[j] \in Hosts
      BY <2>2
    <3> QED
      BY <2>3, <2>4, <3>1, <3>2
  <2> QED
    BY <1>1, <2>1, <2>5 DEF StartPass, OnceInv, Idle
<1>2. CASE ConnectNext
  <2>1. /\ queue # <<>> /\ queue' = Tail(queue)
        /\ conn'[Monitor] = Connected(Head(queue))
    BY <1>0, <1>2 DEF ConnectNext
  <2>2. /\ DOMAIN queue' = 1 .. Len(queue) - 1 /\ DOMAIN queue = 1 .. Len(queue)
        /\ \A i \in DOMAIN queue' : queue'[i] = queue[i + 1]
        /\ Head(queue) = queue[1] /\ Len(queue) \in Nat /\ Len(queue) > 0
    BY <1>0, <2>1
  <2>3. \A i, j \in DOMAIN queue' : i # j => queue'[i] # queue'[j]
    BY <2>2 DEF OnceInv
  <2>4. Head(queue) \notin ToSet(queue')
    BY <2>2 DEF OnceInv, ToSet
  <2> QED
    BY <2>1, <2>3, <2>4 DEF OnceInv, Connected
<1>3. ASSUME NEW a \in Callers, NEW h \in Hosts, RequestCheck(a, h) PROVE OnceInv'
  BY <1>0, <1>3, IdAssumption DEF RequestCheck, OnceInv, Actors
<1>4. ASSUME NEW a \in Callers, ConnectRequested(a) PROVE OnceInv'
  BY <1>0, <1>4, IdAssumption DEF ConnectRequested, OnceInv, Actors
<1>5. ASSUME NEW a \in Actors, Record(a) PROVE OnceInv'
  BY <1>0, <1>5 DEF Record, RecordPushHostCheck, OnceInv, Idle
<1>6. CASE Restart
  BY <1>0, <1>6 DEF Restart, OnceInv, Idle
<1>7. CASE UNCHANGED <<queue, conn>>
  BY <1>7 DEF OnceInv
<1> QED
  BY <1>1, <1>2, <1>3, <1>4, <1>5, <1>6, <1>7 DEF Next, Operator, Handler,
     handleCreatePushHost, CreatePushHost, DeletePushHost, ReadHost, ScheduleHost,
     WriteHost, Tick, vars

\* A controller starts without hosts.
LEMMA InitIndInv == Init => IndInv
<1> SUFFICES ASSUME Init PROVE IndInv
  OBVIOUS
<1> USE IntervalAssumption, BoundAssumption, LongestInterval, NoCheckIsFirst,
     IntervalsAreWaits DEF Init
<1>1. RowInv
  <2>1. Absent("unborn") \in Rows /\ Absent("unborn").life = "unborn"
    BY DEF Absent, Rows
  <2>2. MaxInterval \in 0 .. MaxInterval
    OBVIOUS
  <2> QED
    BY <2>1, <2>2 DEF RowInv, Sound, Causes
<1>2. ConnInv
  BY DEF ConnInv, OneConnection, Conns, Idle
<1>3. UpdateInv /\ PassInv
  BY EmptySeq DEF UpdateInv, PassInv
<1>4. ListInv /\ OnceInv
  <2>1. queue = <<>> /\ conn[Monitor].pc = "idle"
    BY DEF Actors, Idle
  <2> QED
    BY <2>1, EmptySeq DEF ListInv, OnceInv, ToSet
<1> QED
  BY <1>1, <1>2, <1>3, <1>4 DEF IndInv

\* No step of the scheduler, a request or the controller breaks the invariant.
LEMMA Invariance == Spec => []IndInv
<1>1. IndInv /\ [Next]_vars => IndInv'
  BY RowStep, ConnStep, UpdateStep, PassStep, ListStep, OnceStep DEF IndInv
<1> QED
  BY InitIndInv, <1>1, PTL DEF Spec

\* Whatever requests, checks and restarts cross, a host has a next check exactly
\* while its checks are on, and there is one connection at a time.
THEOREM ScheduleStaysSound == Spec => []ScheduleIsSound
<1>1. IndInv => ScheduleIsSound
  BY DEF IndInv, RowInv, ConnInv, UpdateInv, PassInv, ScheduleIsSound, TypeOK,
     ScheduledIffEnabled, Live, Sound, Causes
<1> QED
  BY <1>1, Invariance, PTL

\* The monitor never connects to a host before its interval has passed, unless an
\* update moved the check or one on demand came in between.
THEOREM MonitorKeepsTheInterval == Spec => FullInterval
<1> DEFINE Step == \A h \in Hosts :
       Live(h) /\ conn[Monitor] = Idle /\ conn'[Monitor] = Connected(h)
       => age[h] >= row[h].interval \/ cause[h] # "none"
<1>1. ASSUME IndInv, [Next]_vars PROVE Step
  <2> SUFFICES ASSUME NEW h \in Hosts, Live(h), conn[Monitor] = Idle,
                      conn'[Monitor] = Connected(h)
               PROVE  age[h] >= row[h].interval \/ cause[h] # "none"
    OBVIOUS
  <2>0. Monitor \in Actors /\ conn \in [Actors -> Conns] /\ Idle # Connected(h)
    BY <1>1 DEF Actors, IndInv, ConnInv, Idle, Connected
  <2>1. CASE ConnectNext
    <3>1. queue \in Seq(Hosts) /\ queue # <<>> /\ Connected(h) = Connected(Head(queue))
      BY <1>1, <2>0, <2>1 DEF ConnectNext, IndInv, PassInv
    <3>2. h = Head(queue)
      BY <3>1 DEF Connected
    <3>3. h \in ToSet(queue)
      BY <3>1, <3>2 DEF ToSet
    <3> QED
      BY <1>1, <3>3 DEF IndInv, ListInv, Waited, Live
  <2>2. ASSUME NEW a \in Callers, NEW g \in Hosts, RequestCheck(a, g) PROVE FALSE
    BY <2>0, <2>2, IdAssumption DEF RequestCheck
  <2>3. ASSUME NEW a \in Callers, ConnectRequested(a) PROVE FALSE
    BY <2>0, <2>3, IdAssumption DEF ConnectRequested
  <2>4. ASSUME NEW a \in Actors, Record(a) PROVE FALSE
    BY <2>0, <2>4 DEF Record, RecordPushHostCheck
  <2>5. CASE Restart
    BY <2>0, <2>5 DEF Restart
  <2>6. CASE UNCHANGED conn
    BY <2>0, <2>6
  <2> QED
    BY <1>1, <2>1, <2>2, <2>3, <2>4, <2>5, <2>6 DEF Next, Operator, Handler,
       handleCreatePushHost, CreatePushHost, DeletePushHost, ReadHost, ScheduleHost,
       WriteHost, StartPass, Tick, vars
<1>2. IndInv /\ [Next]_vars => [Step]_vars
  BY <1>1
<1> QED
  BY <1>2, Invariance, PTL DEF Spec, FullInterval

\* Neither a check nor an update that ends later brings a deleted host back.
THEOREM DeletedHostsStayAway == Spec => DeletedStaysDeleted
<1> DEFINE Step == \A h \in Hosts : row[h].life = "gone" =>
                      row'[h] = row[h] /\ strays' = strays
<1>1. ASSUME IndInv, [Next]_vars PROVE Step
  <2> SUFFICES ASSUME NEW h \in Hosts, row[h].life = "gone"
               PROVE  row'[h] = row[h] /\ strays' = strays
    OBVIOUS
  <2> USE <1>1 DEF IndInv, RowInv
  <2>1. CASE Tick
    <3> DEFINE w == OneTickLater(row[h].wait)
    <3>1. row[h] \in Rows /\ row[h].wait = NoCheck
      BY DEF Sound, Absent
    <3>2. w = row[h].wait
      BY <3>1 DEF OneTickLater
    <3> HIDE DEF w
    <3>3. [row[h] EXCEPT !.wait = w] = row[h]
      BY <3>1, <3>2 DEF Rows
    <3> QED
      BY <2>1, <3>3 DEF Tick, w
  <2>2. CASE Restart
    BY <2>2 DEF Restart, Sound, Absent
  <2>3. CASE WriteHost
    <3>1. update.host \in Hosts
      BY <2>3 DEF WriteHost, UpdateInv, Updates
    <3> QED
      BY <2>3, <3>1 DEF WriteHost, UpdateRow, Live
  <2>4. ASSUME NEW a \in Actors, Record(a) PROVE row'[h] = row[h] /\ strays' = strays
    BY <2>4 DEF Record, RecordPushHostCheck, RowExists, Live, ConnInv
  <2>5. ASSUME NEW g \in Hosts, NEW e, NEW i,
               CreatePushHost(g, e, i) \/ DeletePushHost(g)
        PROVE  row'[h] = row[h] /\ strays' = strays
    BY <2>5 DEF CreatePushHost, DeletePushHost, Live
  <2> QED
    BY <2>1, <2>2, <2>3, <2>4, <2>5 DEF Next, Operator, Handler,
       handleCreatePushHost, ReadHost, RequestCheck, ScheduleHost, StartPass,
       ConnectNext, ConnectRequested, vars
<1>2. IndInv /\ [Next]_vars => [Step]_vars
  BY <1>1
<1> QED
  BY <1>2, Invariance, PTL DEF Spec, DeletedStaysDeleted

=============================================================================
