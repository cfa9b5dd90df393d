---------------------------- MODULE ReleaseLedger ----------------------------
(***************************************************************************)
(* What the push-deployment controller promises to whoever reads its       *)
(* release log: an abstract ledger of deployments, and the commands that   *)
(* were sent on its account.  There are no processes, queues, crashes or   *)
(* plans here; PushDeploy is shown to implement this specification.        *)
(***************************************************************************)
EXTENDS Naturals

CONSTANTS
    Deployments,  \* entries of the ledger
    Bindings,     \* targets
    Orders,       \* what can be ordered: records with fleet, key and dry
    Absent        \* nothing was ordered, no key, nobody's turn

VARIABLES
    order,    \* what a deployment was ordered to do
    verdict,  \* "open", or what became of the deployment
    outcome,  \* "none" for a target outside the fleet, "open", or its result
    sent,     \* commands that a target was sent for a deployment
    turn      \* the deployment that may send commands

ledger == <<order, verdict, outcome, sent, turn>>

Results == {"success", "failed", "unknown", "skipped"}

Init ==
    /\ order = [d \in Deployments |-> Absent]
    /\ verdict = [d \in Deployments |-> "open"]
    /\ outcome = [d \in Deployments |-> [b \in Bindings |-> "none"]]
    /\ sent = [d \in Deployments |-> [b \in Bindings |-> 0]]
    /\ turn = Absent

\* An order is entered once, and once per idempotency key.
Enter(d) ==
    /\ order[d] = Absent
    /\ \E o \in Orders :
         /\ o.key # Absent => \A e \in Deployments : order[e] # Absent => order[e].key # o.key
         /\ order' = [order EXCEPT ![d] = o]
         /\ outcome' = [outcome EXCEPT ![d] =
                          [b \in Bindings |-> IF b \in o.fleet THEN "open" ELSE "none"]]
    /\ UNCHANGED <<verdict, sent, turn>>

\* Deployments take turns, and a turn may end at any time.
TakeTurn(d) ==
    /\ turn = Absent /\ order[d] # Absent /\ verdict[d] = "open"
    /\ turn' = d
    /\ UNCHANGED <<order, verdict, outcome, sent>>

EndTurn ==
    /\ turn # Absent /\ turn' = Absent
    /\ UNCHANGED <<order, verdict, outcome, sent>>

\* A target gets its one command when it is the deployment's turn and every
\* target commanded before has succeeded.
Send(d, b) ==
    /\ turn = d /\ verdict[d] = "open" /\ ~order[d].dry
    /\ outcome[d][b] = "open" /\ sent[d][b] = 0
    /\ \A a \in Bindings : sent[d][a] > 0 => outcome[d][a] = "success"
    /\ sent' = [sent EXCEPT ![d][b] = 1]
    /\ UNCHANGED <<order, verdict, outcome, turn>>

\* What can be said of a target: a success was commanded, unless the
\* deployment is a dry run; what was commanded is not skipped.
Honest(d, b, r) ==
    /\ r = "success" => sent[d][b] > 0 \/ order[d].dry
    /\ r = "skipped" => sent[d][b] = 0

Record(d, b) ==
    /\ verdict[d] = "open" /\ outcome[d][b] = "open"
    /\ sent[d][b] > 0 => turn = d
    /\ \E r \in Results : Honest(d, b, r) /\ outcome' = [outcome EXCEPT ![d][b] = r]
    /\ UNCHANGED <<order, verdict, sent, turn>>

\* A deployment is closed when every commanded target has its result.
Close(d) ==
    /\ order[d] # Absent /\ verdict[d] = "open"
    /\ \A b \in Bindings : sent[d][b] > 0 => outcome[d][b] # "open"
    /\ verdict' = [verdict EXCEPT ![d] =
                     IF \A b \in order[d].fleet : outcome[d][b] = "success"
                     THEN "success" ELSE "failed"]
    /\ turn' = IF turn = d THEN Absent ELSE turn
    /\ UNCHANGED <<order, outcome, sent>>

\* Everything open is given up at once, while nobody has the turn.
GiveUp ==
    /\ turn = Absent
    /\ LET given == {d \in Deployments : order[d] # Absent /\ verdict[d] = "open"} IN
       /\ given # {}
       /\ verdict' = [d \in Deployments |-> IF d \in given THEN "failed" ELSE verdict[d]]
       /\ \A d \in Deployments, b \in Bindings :
            IF d \in given /\ outcome[d][b] = "open"
            THEN outcome'[d][b] \in {"unknown", "skipped"} /\ Honest(d, b, outcome'[d][b])
            ELSE outcome'[d][b] = outcome[d][b]
    /\ UNCHANGED <<order, sent, turn>>

\* Whatever the ledger does not show.  (Stated first: TLC then recognizes the
\* many stuttering steps of an implementation at once.)
Elsewhere == UNCHANGED ledger

Next ==
    \/ Elsewhere
    \/ \E d \in Deployments :
         \/ Enter(d) \/ TakeTurn(d) \/ Close(d)
         \/ \E b \in Bindings : Send(d, b) \/ Record(d, b)
    \/ EndTurn \/ GiveUp

Spec == Init /\ [][Next]_ledger
=============================================================================
