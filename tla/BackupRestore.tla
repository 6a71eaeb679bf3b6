---------------------------- MODULE BackupRestore ----------------------------
(***************************************************************************)
(* The encrypted backup service (src/scripts/backup_service.py,            *)
(* backup_bundle.py, backup_guard.py) and the services it stops and        *)
(* starts around a backup, a restore and its recovery.                     *)
(*                                                                         *)
(* A file's content is named by the configuration it comes from; that a    *)
(* file is absent is the content of one its configuration does not have.   *)
(* The daemon serves one request at a time: pc is where it is.             *)
(* Changes made by the other services are not here: they hold the same     *)
(* lock, and an unfinished one refuses every operation of this one.        *)
(***************************************************************************)
EXTENDS Naturals, FiniteSets

CONSTANTS
  Files,          \* the catalog and the enrollment files (specs, cleanup)
  Configurations, \* whole configurations of a device
  Units,          \* services that require justverify-backup
  MaxRequests,    \* bound: operations asked for in a behaviour
  MaxFaults,      \* bound: failures, crashes and power losses in a behaviour
  None,           \* no backup, no review, not running
  Broken          \* a rollback folder that has lost a file

ASSUME ConstantsAssumption ==
  /\ MaxRequests \in Nat /\ MaxFaults \in Nat
  /\ IsFiniteSet(Files) /\ Files # {}
  /\ None \notin Configurations
  /\ None \notin [Files -> Configurations]
  /\ Broken \notin [Files -> Configurations] /\ Broken # None

VARIABLES
  files,    \* the content of every file
  bundle,   \* the encrypted backup on the boot partition
  phase,    \* restore.json
  saved,    \* the rollback folder it names
  running,  \* what every service read when it started
  due,      \* services systemd is about to start
  pc,       \* where the daemon's operation is
  op,       \* which one it is, or was the last of this process
  todo,     \* files still to be replaced
  incoming, \* the reviewed backup, in the daemon's memory
  current,  \* the files before the restore, in the daemon's memory
  requests, \* operations asked for so far
  faults    \* failures injected so far

disk     == <<files, bundle, phase, saved>>
services == <<running, due>>
memory   == <<todo, incoming, current>>
counts   == <<requests, faults>>
vars     == <<disk, services, pc, op, memory, counts>>

Devices == [Files -> Configurations]

Phases == {"none", "prepared", "applying", "committed", "rolling_back", "rolled_back"}
Operations == {"none", "create", "restore", "recover", "startup"}
Steps == {"down", "idle", "quiesce", "create", "prepare", "mark_applying", "apply",
          "validate", "trial", "health", "trial_stop", "commit", "discard",
          "mark_rolling_back", "load", "undo", "mark_rolled_back",
          "discard_undone", "resume", "startup_health"}

-----------------------------------------------------------------------------
(* Helpers.                                                                *)

Goto(from, to) == pc = from /\ pc' = to
Fault == faults < MaxFaults /\ faults' = faults + 1

Recovering == {"quiesce", "load", "undo", "mark_rolled_back", "discard_undone"}

Unfinished == phase \in {"prepared", "applying", "rolling_back"}

\* Where an exception leads: services are resumed in a finally clause, the
\* startup recovery ends the process.
Raised == IF op = "startup" THEN "down" ELSE "resume"

\* READY=1 has been sent: before it systemd starts no service that requires it.
Ready == pc # "down" /\ ~(op = "startup" /\ pc \in Recovering)

Stopped == [u \in Units |-> None]
Whole(device) == \A f, g \in Files : device[f] = device[g]
AllRun  == \A u \in Units : running[u] # None

\* The process is gone, or has answered a request.
Forgotten == op' = "none" /\ todo' = {} /\ incoming' = None /\ current' = None
Answered  == /\ todo' = {} /\ current' = None
             /\ incoming' = IF op = "restore" THEN None ELSE incoming
             /\ UNCHANGED op

\* An exception that nothing handles on its way out.
Raise == /\ pc' = Raised
         /\ IF op = "startup" THEN Forgotten ELSE UNCHANGED <<op, memory>>

-----------------------------------------------------------------------------
(* Requests.  Each is refused while the daemon is busy with another.       *)

Request(o) ==
  /\ pc = "idle" /\ requests < MaxRequests
  /\ pc' = "quiesce" /\ op' = o /\ requests' = requests + 1

CreateApply ==
  /\ Request("create")
  /\ UNCHANGED <<disk, services, memory, faults>>

\* restore_preview: the review is bound to the digest of the backup.
RestorePreview ==
  /\ pc = "idle" /\ bundle # None /\ incoming' = bundle
  /\ UNCHANGED <<disk, services, pc, op, todo, current, counts>>

RestoreApply ==
  /\ Request("restore") /\ incoming # None
  /\ UNCHANGED <<disk, services, memory, faults>>

RecoverRequest ==
  /\ pc = "idle" /\ pc' = "quiesce" /\ op' = "recover"
  /\ UNCHANGED <<disk, services, memory, counts>>

-----------------------------------------------------------------------------
(* Stopping and starting the services.                                     *)

AfterQuiesce == CASE op = "create"  -> "create"
                  [] op = "restore" -> "prepare"
                  [] OTHER          -> "load"

\* systemctl stop also cancels a start that is still waiting.
Quiesce ==
  /\ Goto("quiesce", AfterQuiesce)
  /\ running' = Stopped /\ due' = {}
  /\ UNCHANGED <<disk, op, memory, counts>>

\* Some services may still run, or all are stopped but one not cleanly.
QuiesceFails ==
  /\ pc \in {"quiesce", "trial_stop"} /\ Fault
  /\ IF pc = "quiesce" THEN Raise
     ELSE pc' = "mark_rolling_back" /\ UNCHANGED <<op, memory>>
  /\ \E S \in SUBSET Units :
       running' = [u \in Units |-> IF u \in S THEN running[u] ELSE None]
  /\ due' = {}
  /\ UNCHANGED <<disk, requests>>

\* resume: services that still run are left alone.
StartUnit(u) ==
  /\ pc \in {"trial", "resume"} /\ running[u] = None
  /\ running' = [running EXCEPT ![u] = files] /\ due' = due \ {u}
  /\ UNCHANGED <<disk, pc, op, memory, counts>>

\* Defect: whether a service started is not looked at.
ResumedUnchecked ==
  /\ pc \in {"trial", "resume"}
  /\ CASE pc = "trial"   -> pc' = "health" /\ UNCHANGED <<op, memory>>
       [] pc = "resume" /\ op = "startup" ->
            pc' = "startup_health" /\ UNCHANGED <<op, memory>>
       [] OTHER           -> pc' = "idle" /\ Answered
  /\ UNCHANGED <<disk, services, counts>>

Resumed ==
  /\ pc \in {"trial", "resume"} /\ AllRun
  /\ CASE pc = "trial"   -> pc' = "health" /\ UNCHANGED <<op, memory>>
       [] pc = "resume" /\ op = "startup" ->
            pc' = "startup_health" /\ UNCHANGED <<op, memory>>
       [] OTHER           -> pc' = "idle" /\ Answered
  /\ UNCHANGED <<disk, services, counts>>

\* A service did not start, or the node did not become healthy.  systemd may go on
\* trying to start it.
ResumeFails ==
  /\ pc \in {"trial", "health", "resume", "startup_health"} /\ Fault
  /\ \E S \in SUBSET {u \in Units : running[u] = None} : due' = due \union S
  /\ CASE pc \in {"trial", "health"} -> pc' = "trial_stop" /\ UNCHANGED <<op, memory>>
       [] pc \notin {"trial", "health"} /\ op = "startup" -> pc' = "down" /\ Forgotten
       [] OTHER -> pc' = "idle" /\ Answered
  /\ UNCHANGED <<disk, running, requests>>

-----------------------------------------------------------------------------
(* Backup.                                                                 *)

\* create: the snapshot is encrypted, verified and put in place in one rename.
\* An unfinished restore is not looked at; a mixture may fail the validation.
Create ==
  /\ Goto("create", "resume")
  /\ bundle' \in {files} \union IF Whole(files) THEN {} ELSE {bundle}
  /\ UNCHANGED <<files, phase, saved, services, op, memory, counts>>

-----------------------------------------------------------------------------
(* Restore.                                                                *)

\* Defect: the journal still names the folder of the restore before.
PrepareReusesFolder ==
  /\ pc = "prepare"
  /\ IF bundle = incoming /\ ~Unfinished
     THEN /\ pc' = "mark_applying"
          /\ current' = files /\ phase' = "prepared"
     ELSE pc' = "resume" /\ UNCHANGED <<current, phase>>
  /\ UNCHANGED <<files, bundle, saved, services, op, todo, incoming, counts>>

\* Defect: the backup is not compared with the reviewed one.
PrepareUnreviewed ==
  /\ pc = "prepare"
  /\ IF ~Unfinished
     THEN /\ pc' = "mark_applying"
          /\ current' = files /\ saved' = files /\ phase' = "prepared"
     ELSE pc' = "resume" /\ UNCHANGED <<current, saved, phase>>
  /\ UNCHANGED <<files, bundle, services, op, todo, incoming, counts>>

\* The backup must still be the reviewed one and no restore be unfinished;
\* rollback folder first, then the journal that names it.
Prepare ==
  /\ pc = "prepare"
  /\ IF bundle = incoming /\ ~Unfinished
     THEN /\ pc' = "mark_applying"
          /\ current' = files /\ saved' = files /\ phase' = "prepared"
     ELSE pc' = "resume" /\ UNCHANGED <<current, saved, phase>>
  /\ UNCHANGED <<files, bundle, services, op, todo, incoming, counts>>

MarkApplying ==
  /\ Goto("mark_applying", "apply")
  /\ phase' = "applying" /\ todo' = Files
  /\ UNCHANGED <<files, bundle, saved, services, op, incoming, current, counts>>

\* _apply_values and _apply_cleanup; the order of the files is left open.
ApplyFile(f) ==
  /\ pc = "apply" /\ f \in todo
  /\ files' = [files EXCEPT ![f] = incoming[f]] /\ todo' = todo \ {f}
  /\ pc' = IF todo = {f} THEN "validate" ELSE "apply"
  /\ UNCHANGED <<bundle, phase, saved, services, op, incoming, current, counts>>

Validate ==
  /\ Goto("validate", "trial")
  /\ UNCHANGED <<disk, services, op, memory, counts>>

HealthPasses ==
  /\ pc = "health" /\ AllRun /\ pc' = "commit"
  /\ UNCHANGED <<disk, services, op, memory, counts>>

\* restored_health stops the services again before the files are put back.
TrialStop ==
  /\ Goto("trial_stop", "mark_rolling_back")
  /\ running' = Stopped /\ due' = {}
  /\ UNCHANGED <<disk, op, memory, counts>>

Commit ==
  /\ Goto("commit", "discard") /\ phase' = "committed"
  /\ UNCHANGED <<files, bundle, saved, services, op, memory, counts>>

\* _finish_rollback: once it has begun, recover can no longer read the folder.
Discard ==
  /\ pc \in {"discard", "discard_undone"} /\ pc' = "resume"
  /\ saved' = Broken
  /\ UNCHANGED <<files, bundle, phase, services, op, memory, counts>>

-----------------------------------------------------------------------------
(* Putting the files back, after a failure or on recovery.                 *)

MarkRollingBack ==
  /\ Goto("mark_rolling_back", "undo")
  /\ phase' = "rolling_back" /\ todo' = Files
  /\ UNCHANGED <<files, bundle, saved, services, op, incoming, current, counts>>

\* Defect: a restore that has not replaced a file yet is left as it is.
LoadSkipsPrepared ==
  /\ pc = "load"
  /\ IF phase \notin {"applying", "rolling_back"}
     THEN pc' = "resume" /\ UNCHANGED <<op, memory>>
     ELSE IF saved = Broken THEN Raise
     ELSE /\ pc' = "undo" /\ current' = saved /\ todo' = Files
          /\ UNCHANGED <<op, incoming>>
  /\ UNCHANGED <<disk, services, counts>>

\* recover: an unfinished restore is always undone, from the rollback folder.
Load ==
  /\ pc = "load"
  /\ IF ~Unfinished THEN pc' = "resume" /\ UNCHANGED <<op, memory>>
     ELSE IF saved = Broken THEN Raise
     ELSE /\ pc' = "undo" /\ current' = saved /\ todo' = Files
          /\ UNCHANGED <<op, incoming>>
  /\ UNCHANGED <<disk, services, counts>>

UndoFile(f) ==
  /\ pc = "undo" /\ f \in todo
  /\ files' = [files EXCEPT ![f] = current[f]] /\ todo' = todo \ {f}
  /\ pc' = IF todo = {f} THEN "mark_rolled_back" ELSE "undo"
  /\ UNCHANGED <<bundle, phase, saved, services, op, incoming, current, counts>>

MarkRolledBack ==
  /\ Goto("mark_rolled_back", "discard_undone") /\ phase' = "rolled_back"
  /\ UNCHANGED <<files, bundle, saved, services, op, memory, counts>>

-----------------------------------------------------------------------------
(* Failures of a step.  A write that reports a failure may have taken      *)
(* effect: the rename is done before the directory is synchronised.        *)

Guarded == {"mark_applying", "apply", "validate", "commit", "discard"}
Exposed == {"create", "mark_rolling_back", "load", "undo", "mark_rolled_back",
            "discard_undone"}

\* Nothing handles a failure before the journal is written.
PrepareFails ==
  /\ pc = "prepare" /\ Fault /\ pc' = "resume"
  /\ \/ UNCHANGED <<saved, phase>>
     \/ bundle = incoming /\ ~Unfinished /\ saved' = files /\ phase' = "prepared"
  /\ UNCHANGED <<files, bundle, services, op, memory, requests>>

StepFails ==
  /\ Fault
  /\ \/ pc \in Guarded /\ pc' = "mark_rolling_back" /\ UNCHANGED <<op, memory>>
     \/ pc \in Exposed /\ Raise
  /\ bundle' \in {bundle} \union (IF pc = "create" THEN {files} ELSE {})
  /\ phase' \in {phase} \union
       (CASE pc = "mark_applying"     -> {"applying"}
          [] pc = "commit"            -> {"committed"}
          [] pc = "mark_rolling_back" -> {"rolling_back"}
          [] pc = "mark_rolled_back"  -> {"rolled_back"}
          [] OTHER                    -> {})
  /\ files' \in {files} \union
       (CASE pc = "apply" -> {[files EXCEPT ![f] = incoming[f]] : f \in todo}
          [] pc = "undo"  -> {[files EXCEPT ![f] = current[f]] : f \in todo}
          [] OTHER        -> {})
  /\ saved' \in {saved} \union
       (IF pc \in {"discard", "discard_undone"} THEN {Broken} ELSE {})
  /\ UNCHANGED <<services, requests>>

-----------------------------------------------------------------------------
(* The environment: systemd, crashes, power.                               *)

\* Starts that waited for READY are given up.
DaemonDies ==
  /\ pc # "down" /\ Fault
  /\ pc' = "down" /\ Forgotten
  /\ due' = IF Ready THEN due ELSE {}
  /\ UNCHANGED <<disk, running, requests>>

PowerLoss ==
  /\ Fault
  /\ running' = Stopped /\ due' = Units
  /\ pc' = "down" /\ Forgotten
  /\ UNCHANGED <<disk, requests>>

\* Defect: READY is sent before the recovery.
BackupReadyFirst ==
  /\ pc = "down" /\ pc' = "idle"
  /\ due' = due \union {u \in Units : running[u] # None} /\ running' = Stopped
  /\ UNCHANGED <<disk, op, memory, counts>>

\* systemd restarts what requires the daemon along with it; an unfinished
\* restore is recovered before READY.
BackupStarts ==
  /\ pc = "down"
  /\ due' = due \union {u \in Units : running[u] # None} /\ running' = Stopped
  /\ IF Unfinished THEN pc' = "quiesce" /\ op' = "startup"
                   ELSE pc' = "idle" /\ UNCHANGED op
  /\ UNCHANGED <<disk, memory, counts>>

StartupHealthy ==
  /\ Goto("startup_health", "idle") /\ AllRun /\ Answered
  /\ UNCHANGED <<disk, services, counts>>

SystemdStarts(u) ==
  /\ u \in due /\ Ready
  /\ running' = [running EXCEPT ![u] = files] /\ due' = due \ {u}
  /\ UNCHANGED <<disk, pc, op, memory, counts>>

UnitExits(u) ==
  /\ running[u] # None /\ Fault
  /\ running' = [running EXCEPT ![u] = None] /\ due' = due \union {u}
  /\ UNCHANGED <<disk, pc, op, memory, requests>>

-----------------------------------------------------------------------------
\* The node runs; a backup of this or of an earlier installation may exist.
Init ==
  /\ \E c \in Configurations : files = [f \in Files |-> c]
  /\ \/ bundle = None
     \/ \E c \in Configurations : bundle = [f \in Files |-> c]
  /\ phase = "none" /\ saved = Broken
  /\ running = [u \in Units |-> files] /\ due = {}
  /\ pc = "idle" /\ op = "none"
  /\ todo = {} /\ incoming = None /\ current = None
  /\ requests = 0 /\ faults = 0

Requests == CreateApply \/ RestorePreview \/ RestoreApply \/ RecoverRequest

Operation ==
  \/ Quiesce \/ (\E u \in Units : StartUnit(u)) \/ Resumed
  \/ Create
  \/ Prepare \/ MarkApplying \/ (\E f \in Files : ApplyFile(f)) \/ Validate
  \/ HealthPasses \/ TrialStop \/ Commit \/ Discard
  \/ MarkRollingBack \/ Load \/ (\E f \in Files : UndoFile(f)) \/ MarkRolledBack
  \/ StartupHealthy

Supervision == BackupStarts \/ \E u \in Units : SystemdStarts(u)

Failure == \/ QuiesceFails \/ ResumeFails \/ PrepareFails \/ StepFails
           \/ DaemonDies \/ PowerLoss \/ \E u \in Units : UnitExits(u)

Next == Requests \/ Operation \/ Supervision \/ Failure

Spec == Init /\ [][Next]_vars

\* The daemon goes on, systemd keeps what is enabled running, and the owner asks
\* for recovery while a restore is unfinished or a service is down.
FairSpec ==
  /\ Spec
  /\ WF_vars(Operation) /\ WF_vars(Supervision)
  /\ WF_vars(RecoverRequest /\ (Unfinished \/ ~AllRun))

-----------------------------------------------------------------------------
(* Properties.                                                             *)

\* Types of the files, the services and the daemon's memory.
TypeOK ==
  /\ files \in Devices
  /\ bundle \in Devices \union {None}
  /\ phase \in Phases
  /\ saved \in Devices \union {Broken}
  /\ running \in [Units -> Devices \union {None}]
  /\ due \subseteq Units
  /\ pc \in Steps
  /\ op \in Operations
  /\ todo \subseteq Files
  /\ incoming \in Devices \union {None}
  /\ current \in Devices \union {None}
  /\ requests \in 0..MaxRequests
  /\ faults \in 0..MaxFaults

\* Until a restore is committed or being rolled back, its rollback folder is
\* complete and every file is either the saved one or the backup's.
Undoable ==
  phase \in {"prepared", "applying"} =>
    /\ saved # Broken
    /\ \A f \in Files : files[f] \in {saved[f], bundle[f]}

\* Committed: the device is the reviewed backup and no service runs on anything else.
CommitsRestored ==
  phase # "committed" /\ phase' = "committed" =>
    files = incoming /\ \A u \in Units : running[u] \in {None, files}

\* Rolled back: the device is what it was before the restore.
RollsBackToSaved ==
  phase # "rolled_back" /\ phase' = "rolled_back" =>
    files = IF saved = Broken THEN current ELSE saved

\* What the journal declares of a restore is true of every file.
VerdictIsTrue == [][CommitsRestored /\ RollsBackToSaved]_vars

Starts(u) == running'[u] \notin {None, running[u]}

\* Services start on one whole configuration, never on a mixture: in the trial of a
\* restore, and in a process that has not been asked for anything yet.  Once a
\* rollback has failed inside a request they may (backup_service.py: finally resume).
StartsOnWholeUnlessUndoFailed ==
  [][\A u \in Units : Starts(u) =>
       \/ ~Unfinished \/ files \in {saved, incoming}
       \/ op \notin {"none", "startup"} /\ pc \notin {"trial", "health"}]_vars

\* The next process that tries can recover an unfinished restore: its rollback
\* folder is still there (backup_service.py: "use recovery before retrying restore").
RestoreRecoverable == Unfinished /\ pc \in {"down", "idle"} => saved # Broken

\* After a restore that was rolled back, services run what was rolled back to
\* (tests/linux_backup_production.py asserts it of a restore whose health fails).
RolledBackRuns ==
  pc = "idle" /\ phase = "rolled_back" => \A u \in Units : running[u] \in {None, files}

\* A restore whose rollback folder is complete ends, once failures do.
RestoreEnds == (Unfinished /\ saved # Broken) ~> ~Unfinished

\* Unless a restore stays unfinished, every service runs again, again and again.
ServicesReturn == <>[]~Unfinished => []<>AllRun

-----------------------------------------------------------------------------
(* The restore implements the restore of DeviceRestore.                    *)

Accepted == phase = "committed" /\ pc \in {"discard", "mark_rolling_back"}
Tried    == {"mark_applying", "apply", "validate", "trial", "health", "commit"}

stageBar == IF Accepted THEN "accepted"
            ELSE IF ~Unfinished THEN "settled"
            ELSE IF saved = Broken THEN "withdrawn" ELSE "changing"
configBar == IF ~Unfinished /\ ~Accepted THEN files
             ELSE IF saved = Broken THEN current ELSE saved
goalBar == IF Accepted THEN files
           ELSE IF pc \in Tried THEN incoming ELSE None

Device == INSTANCE DeviceRestore
            WITH stage <- stageBar, config <- configBar, goal <- goalBar, backup <- bundle

\* Every behaviour, with its failures, crashes and recoveries, is one of a restore
\* that takes the reviewed backup as a whole or goes back to what there was.
ImplementsRestore == Device!Spec
=============================================================================
