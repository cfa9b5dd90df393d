----------------------------- MODULE SafeDeploy -----------------------------
(***************************************************************************)
(* scripts/safe-deploy.sh on one node: stage, lock, stop, swap, start and, *)
(* when the new release does not come up, roll back.  Several invocations  *)
(* compete for one instance directory; each may be refused, fail, be       *)
(* signalled or be killed at any line, and the node may reboot.  A killed  *)
(* shell leaves its child behind: rsync goes on and still holds the flock  *)
(* through descriptor 9, a lifecycle script goes on without it (9>&-).     *)
(*                                                                         *)
(* Lifecycle scripts, rsync and the game server are external: their        *)
(* results are nondeterministic, and they are assumed to return.           *)
(***************************************************************************)
EXTENDS Naturals

CONSTANTS
    Runs,               \* invocations of the script
    Releases,           \* artifact trees
    Projects,           \* EXPRESS233_PROJECT values
    ProjectOf,          \* the project a run deploys for
    Nil,                \* no file, no process, no run
    Empty,              \* an instance directory without release files
    Torn                \* a tree that rsync left half way

ASSUME NilAssumption ==
    /\ Nil \notin Runs /\ Nil \notin Releases /\ Nil \notin Projects
    /\ Empty \notin Releases /\ Torn \notin Releases
    /\ Empty # Torn /\ Nil # Torn /\ Nil # Empty
ASSUME ProjectAssumption == ProjectOf \in [Runs -> Projects]

VARIABLES
    \* The shells.
    pc,       \* where an invocation is
    release,  \* what it pulled (its id lives on in the attempt file)
    ack,      \* --acknowledge-recovery
    backup,   \* BACKUP_ARCHIVE: the tree and state file it holds
    \* The node.
    lock,     \* holder of the flock
    orphan,   \* runs whose shell was killed under a lifecycle script
    headless, \* runs whose shell was killed under rsync, which goes on
    tree,     \* release files of FINAL_DIR
    state,    \* STATE_FILE: the committed release and its project
    attempt,  \* ATTEMPT_FILE: phase and run id
    pidfile,  \* PID_FILE exists
    server,   \* the live game server: the tree it was started from
    \* History.
    found,    \* the tree a run found when it wrote its first attempt
    faulted   \* runs whose rsync failed while it restored the old release

shellVars == <<pc, release, ack, backup>>
fileVars  == <<tree, state, attempt, pidfile>>
vars == <<pc, release, ack, backup, lock, orphan, headless, tree, state, attempt,
          pidfile, server, found, faulted>>
history == <<found, faulted>>

Trees    == Releases \cup {Empty, Torn}
States   == [release : Releases, project : Projects]
Archives == [tree : Trees, state : States \cup {Nil}]
Terminal == {"completed", "rolled_back", "aborted"}
Open     == {"prepared", "stopping", "swapped", "blocked", "interrupted"}
Attempts == [phase : Terminal \cup Open, run : Runs]

\* A missing file is not one with contents.
ASSUME FileAssumption == Nil \notin States \cup Archives \cup Attempts

\* Program points between the three traps and the end of the script.
Trapped == {"stopping", "stopped", "swapping", "synced", "swapped", "starting",
            "started", "healthy", "committed", "rollback", "unpacked",
            "restoring", "restored", "restarting", "restarted", "ending"}
Points  == Trapped \cup {"new", "staged", "locked", "prepared", "done"}

\* A child of the shell holds the flock, or works without it.
Syncing == {"swapping", "restoring"}
Hooking == {"starting", "restarting"}

-----------------------------------------------------------------------------
\* The attempt file asks for runtime verification that the run does not
\* bring; and a script that never asks.
NeverFenced(r) == FALSE
Fenced(r) == /\ attempt # Nil /\ attempt.phase \notin Terminal
             /\ ack[r] # attempt.run

\* The state file belongs to another project; and one that is not read.
AnyProject(r) == FALSE
Foreign(r) == state # Nil /\ state.project # ProjectOf[r]

\* current_release_matches, but for the health check.
CurrentReleaseMatches(r) ==
    state # Nil /\ state.release = release[r] /\ pidfile /\ server # Nil

\* flock can be taken.
LockFree == lock = Nil

\* The attempt file is replaced atomically.
write_attempt(r, phase) == attempt' = [phase |-> phase, run |-> r]

At(r, from, to) == pc[r] = from /\ pc' = [pc EXCEPT ![r] = to]

\* The shell and its rsync have ended and the kernel drops their descriptor.
Exit(r) == /\ pc' = [pc EXCEPT ![r] = "done"]
           /\ lock' = IF lock = r THEN Nil ELSE lock

\* The last attempt of a run is written, with the instance otherwise as it is.
\* The shell then logs, cleans up and exits (Finish), its traps still set.
EndWith(r, phase) ==
    /\ write_attempt(r, phase) /\ pc' = [pc EXCEPT ![r] = "ending"]
    /\ UNCHANGED <<release, ack, backup, lock, orphan, headless, tree, state, pidfile, server, history>>

Init ==
    /\ pc = [r \in Runs |-> "new"]
    /\ release = [r \in Runs |-> Nil]
    /\ ack = [r \in Runs |-> Nil]
    /\ backup = [r \in Runs |-> Nil]
    /\ found = [r \in Runs |-> Nil] /\ faulted = {}
    /\ lock = Nil /\ orphan = {} /\ headless = {}
    /\ state = Nil /\ attempt = Nil
    /\ \/ tree = Empty /\ pidfile = FALSE /\ server = Nil
       \/ tree \in Releases /\ pidfile = TRUE /\ server = tree  \* a legacy install

-----------------------------------------------------------------------------
(* Stage and lock.                                                         *)

\* Step 1: pull and verify the staged tree.  An operator acknowledges the run
\* the attempt file names, after checking that nothing of it is left running.
Stage(r, v) ==
    /\ At(r, "new", "staged")
    /\ release' = [release EXCEPT ![r] = v]
    /\ \/ UNCHANGED ack
       \/ /\ attempt # Nil /\ orphan = {} /\ headless = {} /\ lock = Nil
          /\ ack' = [ack EXCEPT ![r] = attempt.run]
    /\ UNCHANGED <<backup, lock, orphan, headless, fileVars, server, history>>

\* Bad arguments, a failed pull, a missing lifecycle script, or flock -w
\* timing out: no service touched.
GiveUp(r) ==
    /\ pc[r] = "new" \/ (pc[r] = "staged" /\ ~LockFree)
    /\ Exit(r)
    /\ UNCHANGED <<release, ack, backup, orphan, headless, fileVars, server, history>>

Lock(r) ==
    /\ At(r, "staged", "locked") /\ LockFree
    /\ lock' = r
    /\ UNCHANGED <<release, ack, backup, orphan, headless, fileVars, server, history>>

\* Another project's installation (78), an attempt that needs verification
\* (75), or the same release already running and healthy (0).
Refuse(r) ==
    /\ pc[r] = "locked"
    /\ Foreign(r) \/ Fenced(r) \/ CurrentReleaseMatches(r)
    /\ Exit(r)
    /\ UNCHANGED <<release, ack, backup, orphan, headless, fileVars, server, history>>

Prepare(r) ==
    /\ At(r, "locked", "prepared")
    /\ ~Foreign(r) /\ ~Fenced(r)
    /\ write_attempt(r, "prepared")
    /\ found' = [found EXCEPT ![r] = tree]
    /\ UNCHANGED <<release, ack, backup, lock, orphan, headless, tree, state, pidfile, server, faulted>>

\* Step 2, with or without --backup; then the traps are set and the stop is
\* announced.  A tar that fails ends the script (set -e): see Die.  And a
\* stop that is not announced.
BackupUnannounced(r) ==
    /\ At(r, "prepared", "stopping")
    /\ backup' = [backup EXCEPT ![r] = [tree |-> tree, state |-> state]]
    /\ UNCHANGED <<release, ack, lock, orphan, headless, fileVars, server, history>>
Backup(r) ==
    /\ At(r, "prepared", "stopping")
    /\ \/ backup' = [backup EXCEPT ![r] = [tree |-> tree, state |-> state]]
       \/ UNCHANGED backup
    /\ write_attempt(r, "stopping")
    /\ UNCHANGED <<release, ack, lock, orphan, headless, tree, state, pidfile, server, history>>

-----------------------------------------------------------------------------
(* Stop and swap.                                                          *)

\* prestop.sh is invalid or fails.
PrestopBlocks(r) == pc[r] = "stopping" /\ EndWith(r, "blocked")

\* stop_server succeeds: no PID file, a stale one, or the server exits in
\* time or is killed by policy.
StopSucceeds(from, to, r) ==
    /\ At(r, from, to)
    /\ pidfile' = FALSE
    /\ server' = IF pidfile THEN Nil ELSE server
    /\ UNCHANGED <<release, ack, backup, lock, orphan, headless, tree, state, attempt, history>>

Stop(r) == StopSucceeds("stopping", "stopped", r)

\* The PID file does not identify the instance, or the server outlives
\* STOP_TIMEOUT.
StopFails(r) == pc[r] = "stopping" /\ pidfile /\ EndWith(r, "aborted")

\* rsync --delete begins.  The state file, which is in no artifact, goes first,
\* unless an error reading the source makes rsync skip the deletions.
SyncBegins(from, to, r) ==
    /\ At(r, from, to)
    /\ tree' = Torn /\ state' \in {state, Nil}
    /\ UNCHANGED <<release, ack, backup, lock, orphan, headless, attempt, pidfile, server, history>>

SwapBegins(r) == SyncBegins("stopped", "swapping", r)

\* It succeeds; and one that excludes the state file.
SwapEndsKeepingState(r) ==
    /\ At(r, "swapping", "synced") /\ r \notin headless
    /\ tree' = release[r]
    /\ UNCHANGED <<release, ack, backup, lock, orphan, headless, state, attempt, pidfile, server, history>>
SwapEnds(r) ==
    /\ At(r, "swapping", "synced") /\ r \notin headless
    /\ tree' = release[r] /\ state' = Nil
    /\ UNCHANGED <<release, ack, backup, lock, orphan, headless, attempt, pidfile, server, history>>

MarkSwapped(r) ==
    /\ At(r, "synced", "swapped")
    /\ write_attempt(r, "swapped")
    /\ UNCHANGED <<release, ack, backup, lock, orphan, headless, tree, state, pidfile, server, history>>

-----------------------------------------------------------------------------
(* Start and commit.                                                       *)

RunHook(from, to, r) ==
    /\ At(r, from, to)
    /\ UNCHANGED <<release, ack, backup, lock, orphan, headless, fileVars, server, history>>

\* What restart.sh may do to the server: start it from the files and write
\* the PID, or not.
HookEffect ==
    \/ server' = tree /\ pidfile' = TRUE
    \/ UNCHANGED <<server, pidfile>>

StartHook(r) == RunHook("swapped", "starting", r)

\* restart.sh returns 0, another status, or 75.
StartOk(r) ==
    /\ At(r, "starting", "started")
    /\ server' = tree /\ pidfile' = TRUE
    /\ UNCHANGED <<release, ack, backup, lock, orphan, headless, tree, state, attempt, history>>

StartFails(r) ==
    /\ At(r, "starting", "rollback")
    /\ HookEffect
    /\ UNCHANGED <<release, ack, backup, lock, orphan, headless, tree, state, attempt, history>>

StartBlocked(r) ==
    /\ At(r, "starting", "ending")
    /\ HookEffect
    /\ write_attempt(r, "blocked")
    /\ UNCHANGED <<release, ack, backup, lock, orphan, headless, tree, state, history>>

\* wait_for_healthcheck.
HealthCheck(r) == RunHook("started", "healthy", r) \/ RunHook("started", "rollback", r)

CommitState(r) ==
    /\ At(r, "healthy", "committed")
    /\ state' = [release |-> release[r], project |-> ProjectOf[r]]
    /\ UNCHANGED <<release, ack, backup, lock, orphan, headless, tree, attempt, pidfile, server, history>>

Complete(r) == pc[r] = "committed" /\ EndWith(r, "completed")

-----------------------------------------------------------------------------
(* rollback_release and fail_and_rollback.                                 *)

\* Each of its return 1: no archive, the candidate does not stop, the archive
\* does not unpack, no previous scripts, the restart or the health check
\* fails.
RollbackFails(r) ==
    /\ pc[r] \in {"rollback", "unpacked", "restored", "restarted"}
    /\ EndWith(r, "blocked")

RollbackStop(r) == backup[r] # Nil /\ StopSucceeds("rollback", "unpacked", r)

RestoreBegins(r) == SyncBegins("unpacked", "restoring", r)

\* The archive holds the old state file, which may be back before the rest.
RestoreRecord(r) ==
    /\ pc[r] = "restoring"
    /\ state' = backup[r].state
    /\ UNCHANGED <<shellVars, lock, orphan, headless, tree, attempt, pidfile, server, history>>

RestoreEnds(r) ==
    /\ At(r, "restoring", "restored") /\ r \notin headless
    /\ tree' = backup[r].tree /\ state' = backup[r].state
    /\ UNCHANGED <<release, ack, backup, lock, orphan, headless, attempt, pidfile, server, history>>

\* errexit is off inside "if rollback_release": a failing rsync is ignored.
RestoreFaultIgnored(r) ==
    /\ At(r, "restoring", "restored") /\ r \notin headless
    /\ faulted' = faulted \cup {r}
    /\ UNCHANGED <<release, ack, backup, lock, orphan, headless, fileVars, server, found>>

RestoreHook(r) == tree # Empty /\ RunHook("restored", "restarting", r)

RestoreStarts(r) ==
    /\ At(r, "restarting", "restarted")
    /\ server' = tree /\ pidfile' = TRUE
    /\ UNCHANGED <<release, ack, backup, lock, orphan, headless, tree, state, attempt, history>>

RestoreHookFails(r) ==
    /\ At(r, "restarting", "ending")
    /\ HookEffect
    /\ write_attempt(r, "blocked")
    /\ UNCHANGED <<release, ack, backup, lock, orphan, headless, tree, state, history>>

RolledBack(r) == pc[r] = "restarted" /\ EndWith(r, "rolled_back")

\* The script ends after its last attempt is on file.
Finish(r) ==
    /\ pc[r] = "ending" /\ Exit(r)
    /\ UNCHANGED <<release, ack, backup, orphan, headless, fileVars, server, history>>

-----------------------------------------------------------------------------
(* Interruptions.                                                          *)

\* HUP, INT or TERM reaches a trapped shell and the children of its group:
\* the traps are cleared, the attempt is overwritten, also one that had come
\* to a verdict, and the script exits.
Signal(r) ==
    /\ pc[r] \in Trapped /\ r \notin headless
    /\ write_attempt(r, "interrupted") /\ Exit(r)
    /\ UNCHANGED <<release, ack, backup, orphan, headless, tree, state, pidfile, server, history>>

\* set -e, an untrapped signal, SIGPIPE or SIGKILL ends the shell where it
\* is.  A lifecycle script it was waiting for goes on without the flock.
Die(r) ==
    /\ pc[r] \in Points \ ({"new", "done"} \cup Syncing)
    /\ Exit(r)
    /\ orphan' = IF pc[r] \in Hooking THEN orphan \cup {r} ELSE orphan
    /\ UNCHANGED <<release, ack, backup, headless, fileVars, server, history>>

\* The same while it waits for rsync, which goes on under the flock; and an
\* rsync that is not given descriptor 9.
DieUnlocking(r) ==
    /\ pc[r] \in Syncing /\ r \notin headless
    /\ headless' = headless \cup {r} /\ lock' = Nil
    /\ UNCHANGED <<shellVars, orphan, fileVars, server, history>>
DieSyncing(r) ==
    /\ pc[r] \in Syncing /\ r \notin headless
    /\ headless' = headless \cup {r}
    /\ UNCHANGED <<shellVars, lock, orphan, fileVars, server, history>>

\* An rsync without a shell succeeds, fails or is killed, and nothing follows
\* it.  (When rsync fails and set -e ends the shell, the two come together.)
HeadlessEnds(r) ==
    /\ r \in headless /\ headless' = headless \ {r}
    /\ \/ UNCHANGED <<tree, state>>
       \/ pc[r] = "swapping" /\ tree' = release[r] /\ state' = Nil
       \/ pc[r] = "restoring" /\ tree' = backup[r].tree /\ state' = backup[r].state
    /\ Exit(r)
    /\ UNCHANGED <<release, ack, backup, orphan, attempt, pidfile, server, history>>

\* A lifecycle script outlives its shell and ends later.
OrphanEnds(r) ==
    /\ r \in orphan
    /\ orphan' = orphan \ {r}
    /\ HookEffect
    /\ UNCHANGED <<shellVars, lock, headless, tree, state, attempt, history>>

\* The server crashes, or exits after the script stopped waiting for it.
ServerExits ==
    /\ server # Nil /\ server' = Nil
    /\ UNCHANGED <<shellVars, lock, orphan, headless, fileVars, history>>

Reboot ==
    /\ \E r \in Runs : pc[r] \notin {"new", "done"} \/ r \in orphan
    /\ pc' = [r \in Runs |-> IF pc[r] = "new" THEN "new" ELSE "done"]
    /\ lock' = Nil /\ orphan' = {} /\ headless' = {} /\ server' = Nil
    /\ UNCHANGED <<release, ack, backup, fileVars, history>>

\* After verifying the runtime the operator starts the server by hand.
OperatorStarts ==
    /\ lock = Nil /\ orphan = {} /\ headless = {} /\ server = Nil /\ tree \in Releases
    /\ server' = tree /\ pidfile' = TRUE
    /\ UNCHANGED <<shellVars, lock, orphan, headless, tree, state, attempt, history>>

-----------------------------------------------------------------------------
Deploy(r) ==
    \/ Lock(r) \/ GiveUp(r) \/ Refuse(r) \/ Prepare(r) \/ Backup(r)
    \/ PrestopBlocks(r) \/ Stop(r) \/ StopFails(r)
    \/ SwapBegins(r) \/ SwapEnds(r) \/ MarkSwapped(r)
    \/ StartHook(r) \/ StartOk(r) \/ StartFails(r) \/ StartBlocked(r)
    \/ HealthCheck(r) \/ CommitState(r) \/ Complete(r) \/ Finish(r)

Recover(r) ==
    \/ RollbackFails(r) \/ RollbackStop(r)
    \/ RestoreBegins(r) \/ RestoreRecord(r) \/ RestoreEnds(r) \/ RestoreFaultIgnored(r)
    \/ RestoreHook(r) \/ RestoreStarts(r) \/ RestoreHookFails(r) \/ RolledBack(r)

Interrupt(r) ==
    Signal(r) \/ Die(r) \/ DieSyncing(r) \/ HeadlessEnds(r) \/ OrphanEnds(r)

Next ==
    \/ \E r \in Runs :
          \/ \E v \in Releases : Stage(r, v)
          \/ Deploy(r) \/ Recover(r) \/ Interrupt(r)
    \/ ServerExits \/ Reboot \/ OperatorStarts

Spec == Init /\ [][Next]_vars

-----------------------------------------------------------------------------
(* Correctness.                                                            *)

\* Every file, process and shell keeps the values the script gives it.
TypeOK ==
    /\ pc \in [Runs -> Points]
    /\ release \in [Runs -> Releases \cup {Nil}]
    /\ ack \in [Runs -> Runs \cup {Nil}]
    /\ backup \in [Runs -> Archives \cup {Nil}]
    /\ lock \in Runs \cup {Nil}
    /\ orphan \subseteq Runs /\ headless \subseteq Runs
    /\ tree \in Trees
    /\ state \in States \cup {Nil}
    /\ attempt \in Attempts \cup {Nil}
    /\ pidfile \in BOOLEAN
    /\ server \in Trees \cup {Nil}
    /\ found \in [Runs -> Trees \cup {Nil}] /\ faulted \subseteq Runs

\* The tree was torn when the latest attempt found it, or its run overlooked
\* that rsync failed to restore the old release: rollback_release runs without
\* errexit and does not look at the status of sync_release_tree.
Overlooked == found[attempt.run] = Torn \/ attempt.run \in faulted

\* A half-replaced release is fenced and down: as long as the tree is torn the
\* attempt file asks for verification and no server runs, unless Overlooked.
TornIsFenced ==
    tree = Torn =>
        /\ attempt # Nil
        /\ (attempt.phase \notin Terminal /\ server = Nil) \/ Overlooked

\* No kill, reboot or rollback leaves the state file of one release over the
\* complete files of another.  (A kill during the restore leaves the old state
\* file over torn ones.)
StateIsInstalled == state # Nil => tree \in {state.release, Torn}

\* "same resolved release is already healthy": the idempotent no-op reports
\* success only where its release is installed, although the state file may be
\* back before the files it describes.
NoOpIsSound ==
    \A r \in Runs :
        /\ pc[r] = "locked" /\ ~Foreign(r) /\ ~Fenced(r)
        /\ CurrentReleaseMatches(r)
        => tree = release[r] \/ Overlooked

\* "completed" says that the release of that run is installed and committed.
CompletedIsInstalled ==
    attempt # Nil /\ attempt.phase = "completed" =>
        tree = release[attempt.run] /\ state # Nil

\* "existing release remains untouched", "previous release restored": after
\* an aborted or rolled-back attempt the tree is the one the run found, unless
\* it overlooked that rsync failed.
PreviousIsBackIfSynced ==
    /\ attempt # Nil /\ attempt.phase \in {"aborted", "rolled_back"}
    /\ attempt.run \notin faulted
    => tree = found[attempt.run]

\* What the files of an instance say is true: a torn release is fenced and
\* down, the state file, a "completed" and an idempotent no-op name what is
\* installed, an aborted or rolled-back attempt left what it found; and
\* everything keeps its type.
FilesTellTheTruth ==
    /\ TypeOK /\ TornIsFenced /\ StateIsInstalled /\ NoOpIsSound
    /\ CompletedIsInstalled /\ PreviousIsBackIfSynced

\* Files are replaced only while the game server is down, also when a start
\* script of an earlier run outlived its shell.
SwapWhileStopped ==
    \A r \in Runs : pc[r] \in Syncing => server = Nil

\* Write-ahead: the release files change only while the attempt file names
\* the run that holds the lock and says that the service is being touched, and
\* an installation is never replaced by another project's.
WriteAhead ==
    [][tree' # tree =>
        /\ attempt # Nil /\ attempt.run = lock /\ attempt.phase \in {"stopping", "swapped"}
        /\ state # Nil => ProjectOf[lock] = state.project]_vars

\* After an interrupted or blocked attempt the next deployment is refused
\* before it touches anything, unless an operator acknowledged that very run.
RecoveryIsAcknowledged ==
    [][/\ attempt # Nil /\ attempt.phase \notin Terminal
       /\ attempt' # attempt /\ attempt'.run # attempt.run
       => ack[attempt'.run] = attempt.run]_vars

\* Nobody interferes with a replacement: while the rsync of a run is at work,
\* be its shell alive or killed, no other run is past the flock and no
\* lifecycle script of a killed shell is left that could start a server from
\* the files.
NobodyInterferes ==
    \A r \in Runs : pc[r] \in Syncing =>
        orphan = {} /\ \A s \in Runs \ {r} : pc[s] \in {"new", "staged", "done"}

-----------------------------------------------------------------------------
(* The abstract specification.  The attempt file names the latest attempt; *)
(* a phase that is neither terminal nor a report of failure leaves it open.*)

Latest == IF attempt = Nil THEN Nil ELSE attempt.run
Verdict ==
    CASE attempt = Nil -> "none"
      [] attempt # Nil /\ attempt.phase \in Terminal -> attempt.phase
      [] attempt # Nil /\ attempt.phase \in {"blocked", "interrupted"} -> "lost"
      [] OTHER -> "open"

Install == INSTANCE Installation WITH
    wanted <- release, trusted <- ack, files <- tree, record <- state,
    latest <- Latest, verdict <- Verdict, before <- found

\* The competing invocations, their traps, kills, rollbacks and reboots behave
\* like attempts that follow one another: each starts after the verdict on the
\* one before or on an operator's word, replaces the files of its own project
\* with what it was ordered to install or with what it found, leaves no record
\* of a release over the complete files of another, and concludes with what is
\* true, or with the word that nothing is known.
ImplementsInstall == Install!Spec
=============================================================================
