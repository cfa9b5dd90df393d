----------------------------- MODULE FleetWatch -----------------------------
(***************************************************************************)
(* The SSH health monitor of the controller: a serial scheduler that wakes *)
(* every 30 seconds, lists the hosts whose next check is due and connects  *)
(* to each of them once; checks on demand that share its mutex; and the    *)
(* requests that create, change and delete the hosts meanwhile.            *)
(*                                                                         *)
(* Time counts ticks of the scheduler and is kept relative: a row holds    *)
(* how far off next_check_at is, and of the times that have passed only    *)
(* their order.  Names, addresses, credentials and the results shown       *)
(* decide nothing here and are left out, as is the enrolment of a host key *)
(* by the connection.                                                      *)
(***************************************************************************)
EXTENDS Integers, SequencesExt

CONSTANTS
    Hosts,           \* ids of push_hosts, as numbers: AUTOINCREMENT reuses none
    Intervals,       \* valid check intervals, in ticks
    DefaultInterval, \* the interval of a host created without one
    Callers,         \* requests for a check on demand
    Monitor,         \* the scheduler's goroutine
    Batch,           \* hosts a pass takes at most (100 in the code)
    MaxChanges,      \* bound on updates of hosts and restarts of the controller
    None             \* no host, no update, a field not given

\* validPushHealthCheckInterval: an interval is at least two ticks of 30 s, and
\* there is a longest one.
ASSUME IntervalAssumption ==
    /\ Intervals \subseteq Nat \ {0, 1} /\ DefaultInterval \in Intervals
    /\ \E longest \in Intervals : \A i \in Intervals : i <= longest
ASSUME BoundAssumption == Batch \in Nat \ {0} /\ MaxChanges \in Nat
ASSUME IdAssumption ==
    Hosts \subseteq Nat /\ IsFiniteSet(Hosts) /\ Monitor \notin Callers

VARIABLES
    row,      \* the rows of push_hosts
    strays,   \* hosts with a row in push_host_checks from after their deletion
    queue,    \* the hosts that the pass at hand has still to check
    ticker,   \* a tick waits in the channel of the ticker
    conn,     \* what checkPushHost is doing for the monitor and each request
    update,   \* handleUpdatePushHost at work
    age,      \* history: ticks since the last recorded check, capped
    cause,    \* history: what may bring the next scheduled check forward
    changes   \* updates and restarts so far

vars == <<row, strays, queue, ticker, conn, update, age, cause, changes>>

Actors == Callers \cup {Monitor}
MaxInterval == Max(Intervals)

\* next_check_at = '', which sorts before every time.
NoCheck == -(Cardinality(Hosts) + 2)
Waits == NoCheck .. MaxInterval

Rows == [life : {"unborn", "live", "gone"}, enabled : BOOLEAN,
         interval : Intervals, wait : Waits]
Conns == [pc : {"idle", "waiting", "connected"}, host : Hosts \cup {None}]
Updates == [host : Hosts, pc : {"merged", "scheduled"}, enabled : BOOLEAN,
            interval : Intervals, wait : Waits]

Live(h) == row[h].life = "live"
Due(h)  == Live(h) /\ row[h].enabled /\ row[h].wait <= 0

Absent(life) == [life |-> life, enabled |-> FALSE, interval |-> DefaultInterval,
                 wait |-> NoCheck]
Idle == [pc |-> "idle", host |-> None]
Connected(h) == [pc |-> "connected", host |-> h]

Init ==
    /\ row = [h \in Hosts |-> Absent("unborn")] /\ strays = {}
    /\ queue = <<>> /\ ticker = TRUE
    /\ conn = [a \in Actors |-> Idle] /\ update = None
    /\ age = [h \in Hosts |-> MaxInterval]
    /\ cause = [h \in Hosts |-> "none"] /\ changes = 0

-----------------------------------------------------------------------------
(* Hosts.                                                                  *)

\* Ids are drawn in order; the first check of a host is due at once.
CreatePushHost(h, enabled, interval) ==
    /\ row[h].life = "unborn" /\ \A g \in Hosts : g < h => row[g].life # "unborn"
    /\ row' = [row EXCEPT ![h] =
                [life |-> "live", enabled |-> enabled, interval |-> interval,
                 wait |-> IF enabled THEN 0 ELSE NoCheck]]
    /\ UNCHANGED <<strays, queue, ticker, conn, update, age, cause, changes>>

\* Checks are on unless the request says otherwise.
handleCreatePushHost(h, enabled, interval) ==
    CreatePushHost(h, enabled # FALSE,
                   IF interval = None THEN DefaultInterval ELSE interval)

\* Its checks and bindings stay: foreign keys are not enforced.
DeletePushHost(h) ==
    /\ Live(h)
    /\ row' = [row EXCEPT ![h] = Absent("gone")]
    /\ age' = [age EXCEPT ![h] = MaxInterval] /\ cause' = [cause EXCEPT ![h] = "none"]
    /\ UNCHANGED <<strays, queue, ticker, conn, update, changes>>

\* handleUpdatePushHost reads the row and fills in what the request leaves out.
ReadHost(h, enabled, interval) ==
    /\ update = None /\ Live(h)
    /\ changes < MaxChanges /\ changes' = changes + 1
    /\ update' = [host |-> h, pc |-> "merged", wait |-> NoCheck,
                  enabled |-> IF enabled = None THEN row[h].enabled ELSE enabled,
                  interval |-> IF interval = None THEN row[h].interval ELSE interval]
    /\ UNCHANGED <<row, strays, queue, ticker, conn, age, cause>>

\* UpdatePushHost reads it again, and keeps a schedule that does not change.
Reschedule(u, r) ==
    IF ~u.enabled THEN NoCheck
    ELSE IF /\ r.life = "live" /\ r.enabled /\ r.interval = u.interval
            /\ r.wait # NoCheck
    THEN r.wait ELSE 0

ScheduleHost ==
    /\ update # None /\ update.pc = "merged"
    /\ update' = [update EXCEPT !.pc = "scheduled",
                                !.wait = Reschedule(update, row[update.host])]
    /\ UNCHANGED <<row, strays, queue, ticker, conn, age, cause, changes>>

\* The UPDATE statement writes what was read before.  Without a row it changes
\* nothing; and one that inserts the row it misses.
Upsert(h) == row' = [row EXCEPT ![h] =
    [life |-> "live", enabled |-> update.enabled, interval |-> update.interval,
     wait |-> update.wait]]
UpdateRow(h) == row' = IF Live(h)
    THEN [row EXCEPT ![h].enabled = update.enabled, ![h].interval = update.interval,
                     ![h].wait = update.wait]
    ELSE row

WriteHost ==
    /\ update # None /\ update.pc = "scheduled"
    /\ LET h == update.host IN
       /\ UpdateRow(h)
       /\ cause' = IF row'[h].interval = row[h].interval /\ row'[h].wait = row[h].wait
                   THEN cause ELSE [cause EXCEPT ![h] = "update"]
    /\ update' = None
    /\ UNCHANGED <<strays, queue, ticker, conn, age, changes>>

-----------------------------------------------------------------------------
(* Checks.                                                                 *)

\* ListDuePushHosts: the longest due first, then by id (ORDER BY), and not too
\* many (LIMIT); and a list by id.
Earlier(g, h) == row[g].wait < row[h].wait \/ (row[g].wait = row[h].wait /\ g < h)
DueInOrder(list, Before(_, _)) ==
    LET due == {h \in Hosts : Due(h)} IN
    /\ ToSet(list) \subseteq due /\ Len(list) = Min({Batch, Cardinality(due)})
    /\ \A i, j \in DOMAIN list : i < j => Before(list[i], list[j])
    /\ \A h \in due \ ToSet(list), i \in DOMAIN list : Before(list[i], h)
DueById(list) == DueInOrder(list, <)
ListDuePushHosts(list) == DueInOrder(list, Earlier)

\* runDuePushHealthChecks takes a list that it does not look at again.
StartPass ==
    /\ ticker /\ queue = <<>> /\ conn[Monitor] = Idle
    /\ ticker' = FALSE
    /\ \E list \in BoundedSeq(Hosts, Batch) :
          ListDuePushHosts(list) /\ queue' = list
    /\ UNCHANGED <<row, strays, conn, update, age, cause, changes>>

\* handleCheckPushHost reads the row and waits for the mutex.
RequestCheck(a, h) ==
    /\ conn[a] = Idle /\ Live(h)
    /\ conn' = [conn EXCEPT ![a] = [pc |-> "waiting", host |-> h]]
    /\ UNCHANGED <<row, strays, queue, ticker, update, age, cause, changes>>

\* pushHealthMu.
MutexFree == \A a \in Actors : conn[a].pc # "connected"

ConnectNext ==
    /\ queue # <<>> /\ conn[Monitor] = Idle /\ MutexFree
    /\ conn' = [conn EXCEPT ![Monitor] = Connected(Head(queue))]
    /\ queue' = Tail(queue)
    /\ UNCHANGED <<row, strays, ticker, update, age, cause, changes>>

ConnectRequested(a) ==
    /\ conn[a].pc = "waiting" /\ MutexFree
    /\ conn' = [conn EXCEPT ![a] = Connected(conn[a].host)]
    /\ UNCHANGED <<row, strays, queue, ticker, update, age, cause, changes>>

\* The next check after one that ended: the whole interval later, if checks
\* are on; and a retry after a failure, and a check of any host.
RetryAtOnce(r, status) ==
    IF ~r.enabled THEN NoCheck ELSE IF status = "failed" THEN 0 ELSE r.interval
EvenIfOff(r, status) == r.interval
NextCheck(r, status) == IF r.enabled THEN r.interval ELSE NoCheck

\* The row that the transaction asks for first; and one that does not ask.
AnyRow(h)    == TRUE
RowExists(h) == Live(h)

\* RecordPushHostCheck: one transaction, refused when the host is gone.
RecordPushHostCheck(a, status) ==
    /\ conn[a].pc = "connected"
    /\ LET h == conn[a].host IN
       IF RowExists(h)
       THEN /\ row' = IF Live(h) THEN [row EXCEPT ![h].wait = NextCheck(row[h], status)]
                      ELSE row
            /\ strays' = IF Live(h) THEN strays ELSE strays \cup {h}
            /\ age' = [age EXCEPT ![h] = 0]
            /\ cause' = [cause EXCEPT ![h] = IF a # Monitor /\ h \in ToSet(queue)
                                            THEN "request" ELSE "none"]
       ELSE UNCHANGED <<row, strays, age, cause>>
    /\ conn' = [conn EXCEPT ![a] = Idle]
    /\ UNCHANGED <<queue, ticker, update, changes>>

-----------------------------------------------------------------------------
(* Time, and the life of the controller.                                   *)

\* The times that rows and the update hold; of those that have passed only
\* the order is kept.
Held == {row[h].wait : h \in Hosts} \cup (IF update = None THEN {} ELSE {update.wait})
OneTickLater(w) ==
    IF w = NoCheck THEN NoCheck
    ELSE IF w > 0 THEN w - 1
    ELSE -(1 + Cardinality({v \in Held : w < v /\ v <= 0}))

\* The ticker's channel holds one tick; the others are dropped.
Tick ==
    /\ row' = [h \in Hosts |-> [row[h] EXCEPT !.wait = OneTickLater(@)]]
    /\ update' = IF update = None THEN None
                 ELSE [update EXCEPT !.wait = OneTickLater(@)]
    /\ age' = [h \in Hosts |-> Min({MaxInterval, age[h] + 1})]
    /\ ticker' = TRUE
    /\ UNCHANGED <<strays, queue, conn, cause, changes>>

\* The process ends, with its requests; on its start the migration repairs
\* enabled hosts without a time, and the first pass is immediate.
Restart ==
    /\ changes < MaxChanges /\ changes' = changes + 1
    /\ row' = [h \in Hosts |-> IF row[h].enabled /\ row[h].wait = NoCheck
                               THEN [row[h] EXCEPT !.wait = 0] ELSE row[h]]
    /\ queue' = <<>> /\ ticker' = TRUE /\ update' = None
    /\ conn' = [a \in Actors |-> Idle]
    /\ cause' = [h \in Hosts |-> IF cause[h] = "request" THEN "none" ELSE cause[h]]
    /\ UNCHANGED <<strays, age>>

-----------------------------------------------------------------------------
Operator ==
    \/ \E h \in Hosts, e \in BOOLEAN \cup {None}, i \in Intervals \cup {None} :
          handleCreatePushHost(h, e, i) \/ ReadHost(h, e, i)
    \/ \E h \in Hosts : DeletePushHost(h)
    \/ \E a \in Callers, h \in Hosts : RequestCheck(a, h)

Handler == ScheduleHost \/ WriteHost

Record(a) == \E status \in {"ok", "failed"} : RecordPushHostCheck(a, status)

Next ==
    \/ Operator \/ Handler
    \/ StartPass \/ ConnectNext
    \/ \E a \in Callers : ConnectRequested(a)
    \/ \E a \in Actors : Record(a)
    \/ Tick \/ Restart

Spec == Init /\ [][Next]_vars

\* Requests are carried through, time passes, the scheduler runs, and a
\* sync.Mutex does not let a goroutine that waits for it starve.
FairSpec ==
    /\ Spec /\ WF_vars(Handler) /\ WF_vars(Tick) /\ WF_vars(StartPass)
    /\ SF_vars(ConnectNext)
    /\ \A a \in Actors : WF_vars(Record(a))

-----------------------------------------------------------------------------
(* Correctness.                                                            *)

\* Rows, lists and requests keep their types.
TypeOK ==
    /\ row \in [Hosts -> Rows]
    /\ strays \subseteq Hosts
    /\ queue \in Seq(Hosts) /\ Len(queue) <= Batch /\ ticker \in BOOLEAN
    /\ conn \in [Actors -> Conns] /\ update \in Updates \cup {None}
    /\ age \in [Hosts -> 0 .. MaxInterval]
    /\ cause \in [Hosts -> {"none", "update", "request"}] /\ changes \in 0 .. MaxChanges

\* A host has a next check exactly while its checks are on, also when it is
\* switched on or off while a pass holds it in its list, while a connection to
\* it is open or while another check of it is recorded.
ScheduledIffEnabled ==
    \A h \in Hosts : Live(h) => (row[h].enabled <=> row[h].wait # NoCheck)

\* "prevents a manual check racing a scheduled one": there is one connection at
\* a time, and so the result that stands is that of the check begun last.
OneConnection ==
    \A a, b \in Actors : conn[a].pc = "connected" /\ conn[b].pc = "connected" => a = b

\* The schedule can be trusted: who is switched on has a next check, checks do
\* not overlap, and everything keeps its type.
ScheduleIsSound == TypeOK /\ ScheduledIffEnabled /\ OneConnection

\* "then scheduled for its full configured interval, regardless of the result":
\* when the monitor connects to a host, the interval has passed since the last
\* check of it that was recorded, whoever asked for that one.  There are two
\* exceptions, each good for one early check: an update has moved the next
\* check, on purpose or by writing back the time it had read before a check was
\* recorded; or a check on demand was recorded after the pass listed the host.
FullInterval ==
    [][\A h \in Hosts :
         Live(h) /\ conn[Monitor] = Idle /\ conn'[Monitor] = Connected(h)
         => age[h] >= row[h].interval \/ cause[h] # "none"]_vars

\* What ends after a host was deleted leaves no trace of it: neither the check
\* under way nor the update that read it before.
DeletedStaysDeleted ==
    [][\A h \in Hosts : row[h].life = "gone" =>
         row'[h] = row[h] /\ strays' = strays]_vars

\* Every due host has its turn, also when more are due than a pass takes and
\* while requests compete for the mutex.
DueIsChecked == \A h \in Hosts : Due(h) ~> ~Due(h)
=============================================================================
