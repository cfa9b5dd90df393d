---------------------------- MODULE Installation ----------------------------
(***************************************************************************)
(* What safe-deploy.sh promises to whoever looks at an instance directory: *)
(* the release files, the record of what they are, and what became of the  *)
(* latest attempt to replace them.  There are no shells, locks, signals,   *)
(* archives or game servers here; SafeDeploy is shown to implement this    *)
(* specification.                                                          *)
(***************************************************************************)
EXTENDS Naturals

CONSTANTS
    Runs,       \* attempts
    Releases,   \* what can be installed
    ProjectOf,  \* the project a run deploys for
    Nil,        \* no order, no record, no attempt
    Empty,      \* an instance directory without release files
    Torn        \* files of more than one release

VARIABLES
    wanted,   \* the release a run was ordered to install
    trusted,  \* the unfinished attempt that an operator lets a run take over
    files,    \* the release files
    record,   \* the release and the project they are said to be of
    latest,   \* the run of the latest attempt
    verdict,  \* what became of it, "open" before that is known
    before    \* the files that a run found

installation == <<wanted, trusted, files, record, latest, verdict, before>>

Init ==
    /\ wanted = [r \in Runs |-> Nil] /\ trusted = [r \in Runs |-> Nil]
    /\ files \in Releases \cup {Empty} /\ record = Nil
    /\ latest = Nil /\ verdict = "none" /\ before = [r \in Runs |-> Nil]

Attempting(r) == latest = r /\ verdict = "open"
Concluded == verdict \in {"none", "completed", "aborted", "rolled_back"}
Owns(r) == record # Nil => record.project = ProjectOf[r]

\* A run is ordered once, possibly to take over what another one left.
Order(r) ==
    /\ wanted[r] = Nil
    /\ \E v \in Releases : wanted' = [wanted EXCEPT ![r] = v]
    /\ \/ UNCHANGED trusted
       \/ latest # Nil /\ trusted' = [trusted EXCEPT ![r] = latest]
    /\ UNCHANGED <<files, record, latest, verdict, before>>

\* It starts once, on an installation of its own project, after the latest
\* attempt has come to a conclusion or on the operator's word.
Start(r) ==
    /\ wanted[r] # Nil /\ before[r] = Nil /\ Owns(r)
    /\ Concluded \/ trusted[r] = latest
    /\ latest' = r /\ verdict' = "open"
    /\ before' = [before EXCEPT ![r] = files]
    /\ UNCHANGED <<wanted, trusted, files, record>>

\* The files are replaced in two steps.  In between the record is gone or
\* describes files that are no longer whole.
Break(r) ==
    /\ Attempting(r) /\ Owns(r)
    /\ files' = Torn /\ record' \in {record, Nil}
    /\ UNCHANGED <<wanted, trusted, latest, verdict, before>>

Install(r) ==
    /\ Attempting(r) /\ files = Torn
    /\ files' = wanted[r] /\ record' = Nil
    /\ UNCHANGED <<wanted, trusted, latest, verdict, before>>

\* What a run found may come back, with the record of it: none, or one that
\* names it, unless it was torn already.  The record may come back alone.
Restore(r) ==
    /\ Attempting(r) /\ files = Torn
    /\ files' \in {before[r], Torn}
    /\ \/ record' = Nil
       \/ \E v \in Releases : /\ before[r] \in {v, Torn}
                             /\ record' = [release |-> v, project |-> ProjectOf[r]]
    /\ UNCHANGED <<wanted, trusted, latest, verdict, before>>

Commit(r) ==
    /\ Attempting(r) /\ files = wanted[r] /\ record = Nil
    /\ record' = [release |-> wanted[r], project |-> ProjectOf[r]]
    /\ UNCHANGED <<wanted, trusted, files, latest, verdict, before>>

\* A verdict is true when it is given: what was wanted is installed and
\* recorded, or what was there is there.  (A restore that failed is overlooked:
\* then the files are torn.)
True(r, v) ==
    /\ v = "completed" => /\ files = wanted[r]
                          /\ record = [release |-> wanted[r], project |-> ProjectOf[r]]
    /\ v = "aborted" => files = before[r]
    /\ v = "rolled_back" => files \in {before[r], Torn}

Conclude(r) ==
    /\ Attempting(r)
    /\ \E v \in {"completed", "aborted", "rolled_back"} : True(r, v) /\ verdict' = v
    /\ UNCHANGED <<wanted, trusted, files, record, latest, before>>

\* The latest run reports that it does not know how things stand, and does no
\* more.  It may say so after it has come to a verdict.
Lose(r) ==
    /\ latest = r /\ verdict' = "lost"
    /\ UNCHANGED <<wanted, trusted, files, record, latest, before>>

\* Whatever the installation does not show.  (Stated first, as in
\* ReleaseLedger.)
Elsewhere == UNCHANGED installation

Next ==
    \/ Elsewhere
    \/ \E r \in Runs :
         \/ Order(r) \/ Start(r) \/ Break(r) \/ Install(r)
         \/ Restore(r) \/ Commit(r) \/ Conclude(r) \/ Lose(r)

Spec == Init /\ [][Next]_installation
=============================================================================
