------------------------ MODULE BackupRestore_proofs ------------------------
(***************************************************************************)
(* Proofs about BackupRestore, for every set of files, configurations and  *)
(* services, and for every bound.                                          *)
(*                                                                         *)
(* The invariant says, of each step of the daemon, which operation it      *)
(* belongs to, what the process remembers, what the journal declares,      *)
(* which files have been replaced and what runs.                           *)
(***************************************************************************)
EXTENDS BackupRestore, TLAPS

-----------------------------------------------------------------------------
(* The inductive invariant.                                                *)

\* From the stop before a restore to its verdict; what of it is before a failure.
Trying    == {"mark_applying", "apply", "validate", "trial", "health", "trial_stop",
              "commit"}
Restoring == Trying \union {"prepare", "discard", "mark_rolling_back"}
Undoing   == {"undo", "mark_rolled_back", "discard_undone"}

\* Which operation a step belongs to.
OpAtStep ==
  /\ pc \in Restoring => op = "restore"
  /\ pc = "create" => op = "create"
  /\ pc = "load" => op \in {"recover", "startup"}
  /\ pc \in Undoing \union {"quiesce"} => op # "none"

\* What the process remembers of the backup and of the files before.
Remembered ==
  /\ pc \in Restoring => incoming \in Devices
  /\ pc = "quiesce" /\ op = "restore" => incoming \in Devices
  /\ pc \in Trying => incoming = bundle
  /\ pc \in Trying \union {"discard", "mark_rolling_back", "undo",
                         "mark_rolled_back"} =>
       current \in Devices /\ saved \in {Broken, current}

\* What the journal declares.
Journalled ==
  /\ pc = "mark_applying" => phase = "prepared"
  /\ pc \in Trying \ {"mark_applying"} => phase = "applying"
  /\ pc = "discard" => phase = "committed"
  /\ pc = "discard_undone" => phase = "rolled_back"
  /\ pc = "mark_rolling_back" => phase \in {"prepared", "applying", "committed"}
  /\ pc \in {"undo", "mark_rolled_back"} => Unfinished

\* Which files have been replaced.
Replaced ==
  /\ pc = "apply" => \A f \in Files \ todo : files[f] = incoming[f]
  /\ pc \in Trying \ {"mark_applying", "apply"} => files = incoming
  /\ pc = "undo" => \A f \in Files \ todo : files[f] = current[f]
  /\ pc = "mark_rolled_back" => files = current

\* What runs while files are replaced, and while the result is tried.
Running ==
  /\ pc \in {"prepare", "mark_applying", "apply", "validate"} =>
       running = Stopped /\ due = {}
  /\ pc \in {"trial", "health", "commit"} =>
       \A u \in Units : running[u] \in {None, files}

\* A process that has not been asked for anything has left no restore unfinished.
Released == op \in {"none", "startup"} /\ Ready => ~Unfinished

Inductive ==
  /\ TypeOK /\ OpAtStep /\ Remembered /\ Journalled /\ Replaced /\ Running
  /\ Released /\ Undoable

-----------------------------------------------------------------------------
(* The initial state, and one lemma for each part of the next-state        *)
(* relation.                                                               *)

LEMMA InitHolds == Init => Inductive
<1> SUFFICES ASSUME Init PROVE Inductive
  OBVIOUS
<1>1. TypeOK
  BY ConstantsAssumption DEF Init, TypeOK, Devices, Steps, Phases, Operations
<1>2. OpAtStep /\ Remembered /\ Journalled /\ Replaced /\ Running
  BY DEF Init, OpAtStep, Remembered, Journalled, Replaced, Running, Trying,
         Restoring, Undoing
<1>3. Released /\ Undoable
  BY DEF Init, Released, Undoable, Unfinished
<1> QED
  BY <1>1, <1>2, <1>3 DEF Inductive

\* Requests are refused while the daemon is busy, so they touch no step but idle.
LEMMA RequestStep ==
  ASSUME Inductive,
         \/ CreateApply \/ RestorePreview \/ RestoreApply \/ RecoverRequest
  PROVE  Inductive'
<1> USE ConstantsAssumption
    DEF Inductive, TypeOK, OpAtStep, Remembered, Journalled, Replaced, Running,
        Released, Undoable, Trying, Restoring, Steps
<1>1. CASE CreateApply
  BY <1>1 DEF CreateApply, Request, disk, services, memory, Operations
<1>2. CASE RestorePreview
  BY <1>2 DEF RestorePreview, Unfinished, Ready, disk, services, counts
<1>3. CASE RestoreApply
  BY <1>3 DEF RestoreApply, Request, disk, services, memory, Operations
<1>4. CASE RecoverRequest
  BY <1>4 DEF RecoverRequest, disk, services, memory, counts, Operations
<1> QED
  BY <1>1, <1>2, <1>3, <1>4

\* Stopping and starting: a service that starts reads the files as they are.
LEMMA ServiceStep ==
  ASSUME Inductive,
         \/ Quiesce \/ (\E u \in Units : StartUnit(u)) \/ Resumed
         \/ HealthPasses \/ TrialStop \/ StartupHealthy
         \/ (\E u \in Units : SystemdStarts(u))
  PROVE  Inductive'
<1> USE ConstantsAssumption
    DEF Inductive, TypeOK, OpAtStep, Remembered, Journalled, Replaced, Running,
        Released, Undoable, Trying, Restoring, Steps
<1>1. CASE Quiesce
  BY <1>1
     DEF Quiesce, AfterQuiesce, Goto, Ready, Recovering, disk, memory, counts,
         Stopped, Operations
<1>2. ASSUME NEW u \in Units, StartUnit(u)
      PROVE  Inductive'
  BY <1>2 DEF StartUnit, Unfinished, Ready, disk, memory, counts
<1>3. CASE Resumed
  BY <1>3
     DEF Resumed, Answered, Unfinished, Ready, Recovering, disk, services, memory,
         counts, Undoing
<1>4. CASE HealthPasses
  BY <1>4 DEF HealthPasses, disk, services, memory, counts
<1>5. CASE TrialStop
  BY <1>5 DEF TrialStop, Goto, disk, memory, counts, Stopped
<1>6. CASE StartupHealthy
  BY <1>6
     DEF StartupHealthy, Answered, Goto, Unfinished, Ready, Recovering, disk,
         services, counts, Undoing
<1>7. ASSUME NEW u \in Units, SystemdStarts(u)
      PROVE  Inductive'
  BY <1>7 DEF SystemdStarts, Unfinished, disk, memory, counts
<1> QED
  BY <1>1, <1>2, <1>3, <1>4, <1>5, <1>6, <1>7

\* A backup, and a restore up to its verdict.
LEMMA RestoreStep ==
  ASSUME Inductive,
         \/ Create \/ Prepare \/ MarkApplying
         \/ (\E f \in Files : ApplyFile(f)) \/ Validate \/ Commit \/ Discard
  PROVE  Inductive'
<1> USE ConstantsAssumption
    DEF Inductive, TypeOK, OpAtStep, Remembered, Journalled, Replaced, Running,
        Released, Undoable, Trying, Restoring, Steps
<1>1. CASE Create
  BY <1>1 DEF Create, Goto, services, memory, counts
<1>2. CASE Prepare
  BY <1>2 DEF Prepare, services, counts, Devices, Phases
<1>3. CASE MarkApplying
  BY <1>3 DEF MarkApplying, Goto, services, counts, Phases
<1>4. ASSUME NEW f \in Files, ApplyFile(f)
      PROVE  Inductive'
  <2>1. incoming = bundle /\ incoming \in Devices /\ phase = "applying"
    BY <1>4 DEF ApplyFile
  <2>2. /\ files' \in Devices /\ files'[f] = incoming[f]
        /\ \A g \in Files : g # f => files'[g] = files[g]
    BY <1>4, <2>1 DEF ApplyFile, Devices
  <2>3. Undoable' /\ Released'
    BY <1>4, <2>1, <2>2 DEF ApplyFile
  <2>4. Replaced'
    BY <1>4, <2>1, <2>2 DEF ApplyFile, Devices
  <2>5. TypeOK' /\ OpAtStep' /\ Remembered' /\ Journalled' /\ Running'
    BY <1>4, <2>1, <2>2 DEF ApplyFile, services, counts
  <2> QED
    BY <2>3, <2>4, <2>5
<1>5. CASE Validate
  BY <1>5 DEF Validate, Goto, disk, services, memory, counts, Stopped
<1>6. CASE Commit
  BY <1>6 DEF Commit, Goto, services, memory, counts, Phases
<1>7. CASE Discard
  BY <1>7 DEF Discard, Unfinished, services, memory, counts, Undoing
<1> QED
  BY <1>1, <1>2, <1>3, <1>4, <1>5, <1>6, <1>7

\* Putting the files back.
LEMMA UndoStep ==
  ASSUME Inductive,
         \/ MarkRollingBack \/ Load \/ (\E f \in Files : UndoFile(f))
         \/ MarkRolledBack
  PROVE  Inductive'
<1> USE ConstantsAssumption
    DEF Inductive, TypeOK, OpAtStep, Remembered, Journalled, Replaced, Running,
        Released, Undoable, Trying, Restoring, Steps
<1>1. CASE MarkRollingBack
  BY <1>1 DEF MarkRollingBack, Goto, Unfinished, services, counts, Phases
<1>2. CASE Load
  <2>1. CASE ~Unfinished
    BY <1>2, <2>1 DEF Load, Unfinished, disk, services, memory, counts
  <2>2. CASE Unfinished /\ saved = Broken
    BY <1>2, <2>2
       DEF Load, Raise, Raised, Forgotten, Ready, disk, services, memory, counts,
           Undoing, Operations
  <2>3. CASE Unfinished /\ saved # Broken
    BY <1>2, <2>3
       DEF Load, Unfinished, Ready, Recovering, disk, services, counts, Undoing
  <2> QED
    BY <2>1, <2>2, <2>3
<1>3. ASSUME NEW f \in Files, UndoFile(f)
      PROVE  Inductive'
  <2>1. current \in Devices /\ saved \in {Broken, current} /\ op # "none"
    BY <1>3 DEF UndoFile, Undoing
  <2>2. /\ files' \in Devices /\ files'[f] = current[f]
        /\ \A g \in Files : g # f => files'[g] = files[g]
    BY <1>3, <2>1 DEF UndoFile, Devices
  <2>3. Undoable' /\ Released'
    BY <1>3, <2>1, <2>2 DEF UndoFile, Ready, Recovering
  <2>4. Replaced'
    BY <1>3, <2>1, <2>2 DEF UndoFile, Devices
  <2>5. TypeOK' /\ OpAtStep' /\ Remembered' /\ Journalled' /\ Running'
    BY <1>3, <2>1, <2>2 DEF UndoFile, Unfinished, services, counts, Undoing
  <2> QED
    BY <2>3, <2>4, <2>5
<1>4. CASE MarkRolledBack
  BY <1>4
     DEF MarkRolledBack, Goto, Ready, Recovering, services, memory, counts, Undoing,
         Phases
<1> QED
  BY <1>1, <1>2, <1>3, <1>4

\* Failures, and the daemon coming back.
LEMMA FaultStep ==
  ASSUME Inductive,
         \/ QuiesceFails \/ ResumeFails \/ PrepareFails \/ StepFails
         \/ DaemonDies \/ PowerLoss \/ (\E u \in Units : UnitExits(u))
         \/ BackupStarts
  PROVE  Inductive'
<1> USE ConstantsAssumption
    DEF Inductive, TypeOK, OpAtStep, Remembered, Journalled, Replaced, Running,
        Released, Undoable, Trying, Restoring, Steps
<1>1. CASE QuiesceFails
  BY <1>1
     DEF QuiesceFails, Raise, Raised, Forgotten, Fault, Ready, disk, memory,
         Undoing, Operations
<1>2. CASE ResumeFails
  BY <1>2
     DEF ResumeFails, Answered, Forgotten, Fault, Unfinished, Ready, disk, services,
         memory, Undoing, Operations
<1>3. CASE PrepareFails
  BY <1>3 DEF PrepareFails, Fault, services, memory, Devices, Phases
<1>4. CASE StepFails
  <2>1. CASE pc \in Guarded
    BY <1>4, <2>1
       DEF StepFails, Fault, Guarded, Exposed, services, memory, Undoing, Devices,
           Phases
  <2>2. CASE pc \in Exposed /\ op = "startup"
    BY <1>4, <2>2
       DEF StepFails, Raise, Raised, Forgotten, Fault, Guarded, Exposed, Ready,
           services, Undoing, Devices, Phases, Operations
  <2>3. CASE pc \in Exposed /\ op # "startup"
    BY <1>4, <2>3
       DEF StepFails, Raise, Raised, Fault, Guarded, Exposed, services, memory,
           Undoing, Devices, Phases, Ready
  <2> QED
    BY <1>4, <2>1, <2>2, <2>3 DEF StepFails
<1>5. CASE DaemonDies
  BY <1>5 DEF DaemonDies, Forgotten, Fault, Ready, disk, Undoing, Operations
<1>6. CASE PowerLoss
  BY <1>6 DEF PowerLoss, Forgotten, Fault, Ready, disk, Undoing, Stopped, Operations
<1>7. ASSUME NEW u \in Units, UnitExits(u)
      PROVE  Inductive'
  BY <1>7 DEF UnitExits, Fault, Unfinished, Ready, disk, memory, Stopped
<1>8. CASE BackupStarts
  BY <1>8
     DEF BackupStarts, Unfinished, Ready, Recovering, disk, memory, counts, Undoing,
         Stopped, Operations
<1> QED
  BY <1>1, <1>2, <1>3, <1>4, <1>5, <1>6, <1>7, <1>8

LEMMA NextStep ==
  ASSUME Inductive, [Next]_vars
  PROVE  Inductive'
<1>1. CASE Next
  BY <1>1, RequestStep, ServiceStep, RestoreStep, UndoStep, FaultStep
     DEF Next, Requests, Operation, Supervision, Failure
<1>2. CASE UNCHANGED vars
  BY <1>2 DEF vars, disk, services, memory, counts, Inductive, TypeOK, OpAtStep,
              Remembered, Journalled, Replaced, Running, Released, Undoable,
              Ready, Unfinished
<1> QED
  BY <1>1, <1>2

LEMMA Invariance == Spec => []Inductive
  BY InitHolds, NextStep, PTL DEF Spec

-----------------------------------------------------------------------------
(* The theorems.                                                           *)

\* The files, the services and the daemon's memory keep their types.
THEOREM TypeCorrect == Spec => []TypeOK
<1>1. Inductive => TypeOK
  BY DEF Inductive
<1> QED
  BY Invariance, <1>1, PTL

\* Until its verdict, a restore can be undone from the folder the journal names,
\* and no file holds anything but what it held or what the backup holds.
THEOREM AlwaysUndoable == Spec => []Undoable
<1>1. Inductive => Undoable
  BY DEF Inductive
<1> QED
  BY Invariance, <1>1, PTL

\* A journal that says "committed" or "rolled_back" is right about every file.
THEOREM TrueVerdict == Spec => VerdictIsTrue
<1>1. ASSUME Inductive, Next
      PROVE  CommitsRestored /\ RollsBackToSaved
  <2>1. CASE pc = "commit" /\ (Commit \/ StepFails)
    <3>1. CommitsRestored
      BY <1>1, <2>1 DEF CommitsRestored, Inductive, Replaced, Running, Trying
    <3>2. RollsBackToSaved
      BY <2>1 DEF RollsBackToSaved, Commit, StepFails
    <3> QED
      BY <3>1, <3>2
  <2>2. CASE pc = "mark_rolled_back" /\ (MarkRolledBack \/ StepFails)
    <3>1. RollsBackToSaved
      BY <1>1, <2>2 DEF RollsBackToSaved, Inductive, Replaced, Remembered
    <3>2. CommitsRestored
      BY <2>2 DEF CommitsRestored, MarkRolledBack, StepFails
    <3> QED
      BY <3>1, <3>2
  <2>3. CASE phase' \in {phase, "none", "prepared", "applying", "rolling_back"}
    BY <2>3 DEF CommitsRestored, RollsBackToSaved
  <2>4. Operation => \/ pc = "commit" /\ Commit
                     \/ pc = "mark_rolled_back" /\ MarkRolledBack
                     \/ phase' \in {phase, "prepared", "applying", "rolling_back"}
    BY DEF Operation, Quiesce, StartUnit, Resumed, Create, Prepare, MarkApplying,
           ApplyFile, Validate, HealthPasses, TrialStop, Commit, Discard,
           MarkRollingBack, Load, UndoFile, MarkRolledBack, StartupHealthy, Goto, disk
  <2>5. Failure => \/ pc \in {"commit", "mark_rolled_back"} /\ StepFails
                   \/ phase' \in {phase, "prepared", "applying", "rolling_back"}
    BY DEF Failure, QuiesceFails, ResumeFails, PrepareFails, StepFails, DaemonDies,
           PowerLoss, UnitExits, disk
  <2>6. Requests \/ Supervision => phase' = phase
    BY DEF Requests, CreateApply, RestorePreview, RestoreApply, RecoverRequest,
           Supervision, BackupStarts, SystemdStarts, disk
  <2> QED
    BY <1>1, <2>1, <2>2, <2>3, <2>4, <2>5, <2>6 DEF Next
<1>2. Inductive /\ [Next]_vars => [CommitsRestored /\ RollsBackToSaved]_vars
  BY <1>1
<1> QED
  BY Invariance, <1>2, PTL DEF Spec, VerdictIsTrue

\* Services start on one whole configuration, unless a rollback has failed inside
\* a request of this process.
THEOREM StartsOnWhole == Spec => StartsOnWholeUnlessUndoFailed
<1> DEFINE Permitted(u) == \/ ~Unfinished \/ files \in {saved, incoming}
                           \/ op \notin {"none", "startup"} /\ pc \notin {"trial", "health"}
           Safe == \A u \in Units : Starts(u) => Permitted(u)
<1>1. ASSUME Inductive, Next
      PROVE  Safe
  <2> SUFFICES ASSUME NEW u \in Units, Starts(u)
               PROVE  Permitted(u)
    OBVIOUS
  <2>1. CASE pc \in {"trial", "health"}
    BY <1>1, <2>1 DEF Inductive, Replaced, Trying
  <2>2. CASE pc \notin {"trial", "health"} /\ Ready
    BY <1>1, <2>2 DEF Inductive, Released
  <2>3. StartUnit(u) \/ SystemdStarts(u) => Ready \/ pc = "trial"
    BY DEF StartUnit, SystemdStarts, Ready, Recovering
  <2>4. StartUnit(u) \/ SystemdStarts(u)
    BY <1>1
       DEF Inductive, TypeOK, Next, Starts, Requests, CreateApply, RestorePreview,
           RestoreApply, RecoverRequest, Request, Operation, Quiesce, StartUnit, Resumed,
           Create, Prepare, MarkApplying, ApplyFile, Validate, HealthPasses, TrialStop,
           Commit, Discard, MarkRollingBack, Load, UndoFile, MarkRolledBack,
           StartupHealthy, Supervision, BackupStarts, SystemdStarts, Failure,
           QuiesceFails, ResumeFails, PrepareFails, StepFails, DaemonDies, PowerLoss,
           UnitExits, Stopped, services
  <2> QED
    BY <2>1, <2>2, <2>3, <2>4
<1>2. Inductive /\ [Next]_vars => [Safe]_vars
  BY <1>1
<1>3. Spec => [][Safe]_vars
  BY Invariance, <1>2, PTL DEF Spec
<1> QED
  BY <1>3 DEF StartsOnWholeUnlessUndoFailed

-----------------------------------------------------------------------------
(* The refinement: each step of the daemon is one of the restore, or none. *)

Seen == Device!Next \/ UNCHANGED Device!dvars

\* Services that stop, all of them or some.
Halting == \A u \in Units : running'[u] \in {None, running[u]}

LEMMA Stopping ==
  ASSUME Inductive', Halting
  PROVE  Device!Stops
BY DEF Halting, Inductive, TypeOK, Device!Stops, Device!Devices, Devices

\* A step at which the restore stays where it is.
SameStage ==
  /\ UNCHANGED <<phase, saved, current, bundle>> /\ (Unfinished \/ UNCHANGED files)
  /\ (Accepted' <=> Accepted) /\ (pc' \in Tried <=> pc \in Tried)
  /\ pc \in Tried => UNCHANGED incoming

LEMMA StageKept ==
  ASSUME SameStage
  PROVE  UNCHANGED <<stageBar, configBar, goalBar>>
BY DEF SameStage, stageBar, configBar, goalBar, Unfinished, Accepted

LEMMA StopSeen ==
  ASSUME Inductive', SameStage, Halting
  PROVE  Seen
BY StageKept, Stopping DEF Seen, SameStage, Device!Next, Device!Stop

\* A step after which nothing is tried or accepted any more: what was accepted is
\* settled, what was withdrawn may be lost.
LEMMA EndSeen ==
  ASSUME Inductive, Inductive', Halting, UNCHANGED <<files, phase, saved, bundle>>,
         current' \in {current, None}, pc' \notin Tried, ~Accepted'
  PROVE  Seen
<1> USE DEF stageBar, configBar, goalBar, Unfinished
<1>1. Device!Stops /\ goalBar' = None
  BY Stopping
<1>2. CASE Accepted
  BY <1>1, <1>2 DEF Seen, Device!Next, Device!Forget, Accepted
<1>3. CASE ~Accepted /\ ~Unfinished
  BY <1>1, <1>3 DEF Seen, Device!Next, Device!Forget
<1>4. CASE Unfinished /\ saved # Broken
  BY <1>1, <1>4 DEF Seen, Device!Next, Device!Forget, Accepted
<1>5. CASE Unfinished /\ saved = Broken /\ current' = None
  BY <1>1, <1>5 DEF Seen, Device!Next, Device!Forget, Accepted
<1>6. CASE Unfinished /\ saved = Broken /\ current' = current
  <2>1. pc \notin Tried
    BY <1>6 DEF Tried, Inductive, Journalled, Trying, Undoable
  <2> QED
    BY <1>1, <1>6, <2>1 DEF Seen, Device!Next, Device!Stop, Accepted
<1> QED
  BY <1>2, <1>3, <1>4, <1>5, <1>6

\* Operations that are asked for, answered or cut off.
LEMMA RequestSeen ==
  ASSUME Inductive, Inductive', Requests \/ Quiesce \/ Resumed \/ StartupHealthy
  PROVE  Seen
<1> USE EndSeen DEF Halting, disk, services, memory, Accepted, Tried
<1>1. CASE Requests
  BY <1>1 DEF Requests, CreateApply, RestorePreview, RestoreApply, RecoverRequest, Request
<1>2. CASE Quiesce
  BY <1>2 DEF Quiesce, AfterQuiesce, Goto, Stopped
<1>3. CASE Resumed /\ pc = "trial"
  BY <1>3, StopSeen DEF Resumed, SameStage
<1>4. CASE Resumed /\ pc = "resume"
  BY <1>4 DEF Resumed, Answered
<1>5. CASE StartupHealthy
  BY <1>5 DEF StartupHealthy, Answered, Goto
<1> QED
  BY <1>1, <1>2, <1>3, <1>4, <1>5 DEF Resumed

LEMMA FaultSeen ==
  ASSUME Inductive, Inductive',
         \/ QuiesceFails \/ ResumeFails \/ DaemonDies \/ PowerLoss \/ BackupStarts
         \/ \E u \in Units : UnitExits(u)
  PROVE  Seen
<1> USE DEF Halting, disk, services, memory, Accepted, Tried
<1>1. CASE QuiesceFails
  <2>1. phase # "committed" \/ pc = "quiesce"
    BY <1>1 DEF QuiesceFails, Inductive, Journalled, Trying
  <2> QED
    BY <1>1, <2>1, EndSeen DEF QuiesceFails, Raise, Raised, Forgotten
<1>2. CASE ResumeFails
  BY <1>2, EndSeen DEF ResumeFails, Answered, Forgotten
<1>3. CASE DaemonDies \/ PowerLoss
  BY <1>3, EndSeen DEF DaemonDies, PowerLoss, Forgotten, Stopped
<1>4. CASE BackupStarts
  BY <1>4, EndSeen DEF BackupStarts, Stopped
<1>5. ASSUME NEW u \in Units, UnitExits(u)
      PROVE  Seen
  <2>1. Halting
    BY <1>5 DEF UnitExits, Inductive, TypeOK
  <2> QED
    BY <1>5, <2>1, StopSeen DEF UnitExits, SameStage
<1> QED
  BY <1>1, <1>2, <1>3, <1>4, <1>5

\* A service that starts.
LEMMA RunSeen ==
  ASSUME Inductive, NEW u \in Units, StartUnit(u) \/ SystemdStarts(u)
  PROVE  Seen
<1>1. /\ running' = [running EXCEPT ![u] = files] /\ files \in Devices
      /\ UNCHANGED <<disk, pc, op, memory>>
  BY DEF StartUnit, SystemdStarts, Inductive, TypeOK
<1>2. UNCHANGED <<stageBar, configBar, goalBar, bundle>>
  BY <1>1 DEF stageBar, configBar, goalBar, Accepted, Unfinished, disk, memory
<1>3. pc \notin {"mark_applying", "apply", "validate"}
  BY DEF StartUnit, SystemdStarts, Inductive, Running
<1>4. files \in Device!Readable
  BY <1>1, <1>3
     DEF Device!Readable, Device!Devices, Devices, stageBar, configBar, goalBar, Accepted,
         Tried, Unfinished, Inductive, Replaced, Remembered, Journalled, Trying
<1> QED
  BY <1>1, <1>2, <1>4 DEF Seen, Device!Next, Device!Run

\* A backup, whether or not its write is reported to have failed.
LEMMA SaveSeen ==
  ASSUME Inductive, pc = "create", pc' \notin Tried, ~Accepted', bundle' \in {files, bundle},
         UNCHANGED <<files, phase, saved, current, running>>
  PROVE  Seen
<1>1. UNCHANGED <<stageBar, configBar, goalBar>> /\ goalBar = None
  BY DEF stageBar, configBar, goalBar, Accepted, Tried, Unfinished
<1>2. CASE bundle' = files
  BY <1>1, <1>2
     DEF Seen, Device!Next, Device!Save, Device!Devices, Devices, stageBar, configBar,
         Accepted, Inductive, TypeOK
<1>3. CASE bundle' = bundle
  BY <1>1, <1>3 DEF Seen, Device!dvars
<1> QED
  BY <1>2, <1>3

\* A restore that begins, and is tried or at once given up.
LEMMA BeginSeen ==
  ASSUME Inductive, pc = "prepare", bundle = incoming, ~Unfinished,
         saved' = files, phase' = "prepared", pc' \in {"mark_applying", "resume"},
         UNCHANGED <<files, bundle, incoming, running>>
  PROVE  Seen
<1>1. incoming \in Devices /\ running = Stopped
  BY DEF Inductive, Remembered, Running, Restoring
<1>2. /\ stageBar = "settled" /\ configBar = files
      /\ stageBar' = "changing" /\ configBar' = files /\ goalBar' \in {bundle, None}
  BY ConstantsAssumption
     DEF stageBar, configBar, goalBar, Accepted, Unfinished, Tried, Inductive, TypeOK,
         Devices
<1>3. bundle # None
  BY <1>1, ConstantsAssumption DEF Devices
<1> QED
  BY <1>1, <1>2, <1>3 DEF Seen, Device!Next, Device!Begin, Stopped

\* The verdict of a trial, whether or not its write is reported to have failed.
LEMMA AcceptSeen ==
  ASSUME Inductive, pc = "commit", phase' = "committed",
         pc' \in {"discard", "mark_rolling_back"},
         UNCHANGED <<files, bundle, saved, current, running>>
  PROVE  Seen
<1>1. /\ files = incoming /\ incoming \in Devices /\ phase = "applying"
      /\ saved # Broken /\ \A u \in Units : running[u] \in {None, files}
  BY DEF Inductive, Replaced, Remembered, Journalled, Running, Undoable, Trying, Restoring
<1>2. files # None
  BY <1>1, ConstantsAssumption DEF Devices
<1> QED
  BY <1>1, <1>2
     DEF Seen, Device!Next, Device!Accept, stageBar, configBar, goalBar, Accepted, Unfinished,
         Tried

\* What is tried is given up: a step before the verdict has failed.
LEMMA RejectSeen ==
  ASSUME Inductive, pc \in Tried, pc' = "mark_rolling_back",
         phase' \in {"prepared", "applying"}, UNCHANGED <<bundle, saved, current, running>>
  PROVE  Seen
<1>1. Unfinished /\ saved # Broken
  BY DEF Tried, Inductive, Journalled, Undoable, Trying, Unfinished
<1> QED
  BY <1>1
     DEF Seen, Device!Next, Device!Reject, stageBar, configBar, goalBar, Accepted, Unfinished,
         Tried

\* The rollback folder is removed, or the way back is taken after all.
LEMMA FinishSeen ==
  ASSUME Inductive, pc \in {"discard", "mark_rolling_back"}, phase = "committed",
         UNCHANGED <<files, bundle, current, running>>,
         \/ phase' = "committed" /\ saved' \in {saved, Broken}
         \/ phase' = "rolling_back" /\ saved' = saved,
         pc' \in {"resume", "mark_rolling_back", "undo"},
         phase' = "committed" => pc' # "undo"
  PROVE  Seen
<1> USE DEF stageBar, configBar, goalBar, Accepted, Unfinished, Tried, Seen
<1>1. current \in Devices /\ saved \in {Broken, current}
  BY DEF Inductive, Remembered
<1>2. CASE phase' = "committed" /\ pc' = "resume"
  BY <1>1, <1>2 DEF Device!Next, Device!Settle
<1>3. CASE phase' = "committed" /\ pc' = "mark_rolling_back"
  BY <1>1, <1>3 DEF Device!dvars
<1>4. CASE phase' = "rolling_back"
  BY <1>1, <1>4 DEF Device!Next, Device!Withdraw
<1> QED
  BY <1>2, <1>3, <1>4

\* The files are back.
LEMMA UndoSeen ==
  ASSUME Inductive, pc = "mark_rolled_back", phase' = "rolled_back", pc' \notin Tried,
         UNCHANGED <<files, bundle, running>>
  PROVE  Seen
<1>1. /\ files = current /\ current \in Devices /\ saved \in {Broken, current} /\ Unfinished
  BY DEF Inductive, Remembered, Replaced, Journalled
<1>2. current # None
  BY <1>1, ConstantsAssumption DEF Devices
<1> QED
  BY <1>1, <1>2
     DEF Seen, Device!Next, Device!Undo, stageBar, configBar, goalBar, Accepted, Unfinished,
         Tried

\* The steps of a backup, a restore and its undoing that do not fail.
LEMMA StepSeen ==
  ASSUME Inductive, Inductive',
         \/ Create \/ Prepare \/ MarkApplying \/ (\E f \in Files : ApplyFile(f)) \/ Validate
         \/ HealthPasses \/ TrialStop \/ Commit \/ Discard
         \/ MarkRollingBack \/ Load \/ (\E f \in Files : UndoFile(f)) \/ MarkRolledBack
  PROVE  Seen
<1> USE DEF Goto, services, memory, disk
<1>1. CASE Create
  BY <1>1, SaveSeen DEF Create, Accepted, Tried
<1>2. CASE Prepare
  <2>1. CASE bundle = incoming /\ ~Unfinished
    BY <1>2, <2>1, BeginSeen DEF Prepare
  <2>2. CASE ~(bundle = incoming /\ ~Unfinished)
    BY <1>2, <2>2, EndSeen DEF Prepare, Halting, Accepted, Tried
  <2> QED
    BY <2>1, <2>2
<1>3. CASE MarkApplying
  <2>1. phase = "prepared"
    BY <1>3 DEF MarkApplying, Inductive, Journalled
  <2> QED
    BY <1>3, <2>1
       DEF MarkApplying, Seen, stageBar, configBar, goalBar, Accepted, Unfinished, Tried,
           Device!dvars
<1>4. CASE \E f \in Files : ApplyFile(f) \/ UndoFile(f)
  <2>1. Unfinished /\ Halting
    BY <1>4 DEF ApplyFile, UndoFile, Inductive, Journalled, Trying, Unfinished, Halting
  <2> QED
    BY <1>4, <2>1, StopSeen DEF ApplyFile, UndoFile, SameStage, Accepted, Tried, Unfinished
<1>5. CASE Validate \/ HealthPasses
  BY <1>5, StopSeen DEF Validate, HealthPasses, SameStage, Halting, Accepted, Tried
<1>6. CASE TrialStop
  <2>1. phase = "applying"
    BY <1>6 DEF TrialStop, Inductive, Journalled, Trying
  <2> QED
    BY <1>6, <2>1, EndSeen DEF TrialStop, Halting, Stopped, Accepted, Tried
<1>7. CASE Commit
  BY <1>7, AcceptSeen DEF Commit
<1>8. CASE Discard /\ pc = "discard"
  <2>1. phase = "committed"
    BY <1>8 DEF Inductive, Journalled
  <2> QED
    BY <1>8, <2>1, FinishSeen DEF Discard
<1>9. CASE Discard /\ pc = "discard_undone"
  <2>1. phase = "rolled_back"
    BY <1>9 DEF Inductive, Journalled
  <2> QED
    BY <1>9, <2>1
       DEF Discard, Seen, stageBar, configBar, goalBar, Accepted, Unfinished, Tried,
           Device!dvars
<1>10. CASE MarkRollingBack /\ phase = "committed"
  BY <1>10, FinishSeen DEF MarkRollingBack
<1>11. CASE MarkRollingBack /\ phase # "committed"
  <2>1. phase \in {"prepared", "applying"}
    BY <1>11 DEF MarkRollingBack, Inductive, Journalled
  <2> QED
    BY <1>11, <2>1
       DEF MarkRollingBack, Seen, stageBar, configBar, goalBar, Accepted, Unfinished, Tried,
           Device!dvars
<1>12. CASE Load
  <2>1. CASE Unfinished /\ saved # Broken
    BY <1>12, <2>1
       DEF Load, Seen, stageBar, configBar, goalBar, Accepted, Unfinished, Tried, Device!dvars
  <2>2. CASE ~(Unfinished /\ saved # Broken)
    BY <1>12, <2>2, EndSeen
       DEF Load, Raise, Raised, Forgotten, Halting, Accepted, Tried
  <2> QED
    BY <2>1, <2>2
<1>13. CASE MarkRolledBack
  BY <1>13, UndoSeen DEF MarkRolledBack, Tried
<1> QED
  BY <1>1, <1>2, <1>3, <1>4, <1>5, <1>6, <1>7, <1>8, <1>9, <1>10, <1>11, <1>12, <1>13
     DEF Discard

\* The steps of a backup, a restore and its undoing that fail.
LEMMA FailureSeen ==
  ASSUME Inductive, Inductive', PrepareFails \/ StepFails
  PROVE  Seen
<1> USE DEF services, memory, Guarded, Exposed
<1>1. CASE PrepareFails
  BY <1>1, BeginSeen, EndSeen DEF PrepareFails, Halting, Accepted, Tried
<1>2. CASE StepFails /\ pc \in Guarded \ {"discard"}
  <2>1. phase' \in {"prepared", "applying"} \/ (pc = "commit" /\ phase' = "committed")
    BY <1>2 DEF StepFails, Inductive, Journalled, Trying
  <2> QED
    BY <1>2, <2>1, RejectSeen, AcceptSeen DEF StepFails, Tried
<1>3. CASE StepFails /\ pc = "discard"
  <2>1. phase = "committed"
    BY <1>3 DEF Inductive, Journalled
  <2> QED
    BY <1>3, <2>1, FinishSeen DEF StepFails
<1>4. CASE StepFails /\ pc = "create"
  BY <1>4, SaveSeen DEF StepFails, Raise, Raised, Inductive, OpAtStep, Accepted, Tried
<1>5. CASE StepFails /\ pc = "mark_rolling_back"
  <2>1. op = "restore" /\ pc' = "resume" /\ UNCHANGED <<files, bundle, saved, current, running>>
        /\ phase' \in {phase, "rolling_back"}
    BY <1>5 DEF StepFails, Raise, Raised, Inductive, OpAtStep, Restoring
  <2>2. CASE phase = "committed"
    BY <1>5, <2>1, <2>2, FinishSeen
  <2>3. CASE phase # "committed"
    <3>1. phase \in {"prepared", "applying"}
      BY <1>5, <2>3 DEF Inductive, Journalled
    <3> QED
      BY <1>5, <2>1, <2>3, <3>1
         DEF Seen, stageBar, configBar, goalBar, Accepted, Unfinished, Tried, Device!dvars
  <2> QED
    BY <2>2, <2>3
<1>6. CASE StepFails /\ pc = "load"
  BY <1>6, EndSeen DEF StepFails, Raise, Raised, Forgotten, Halting, Accepted, Tried
<1>7. CASE StepFails /\ pc = "undo"
  <2>1. /\ Unfinished /\ UNCHANGED <<phase, saved, bundle, running>> /\ Halting
        /\ Accepted' = FALSE /\ pc' \notin Tried
    BY <1>7 DEF StepFails, Raise, Raised, Halting, Accepted, Tried, Inductive, Journalled,
                Unfinished
  <2>2. CASE UNCHANGED current
    BY <1>7, <2>1, <2>2, StopSeen DEF SameStage, Accepted, Tried
  <2>3. CASE current' = None
    <3>1. Device!Stops /\ goalBar' = None
      BY <2>1, Stopping DEF goalBar
    <3>2. stageBar' = stageBar /\ stageBar # "accepted"
      BY <1>7, <2>1 DEF stageBar, Unfinished, Accepted
    <3>3. configBar' = IF stageBar = "withdrawn" THEN None ELSE configBar
      BY <1>7, <2>1, <2>3 DEF stageBar, configBar, Unfinished, Accepted
    <3> QED
      BY <2>1, <3>1, <3>2, <3>3 DEF Seen, Device!Next, Device!Forget, stageBar, Unfinished, Accepted
  <2> QED
    BY <1>7, <2>2, <2>3 DEF StepFails, Raise, Forgotten
<1>8. CASE StepFails /\ pc = "mark_rolled_back"
  BY <1>8, UndoSeen, EndSeen
     DEF StepFails, Raise, Raised, Forgotten, Halting, Accepted, Tried
<1>9. CASE StepFails /\ pc = "discard_undone"
  <2>1. phase = "rolled_back"
    BY <1>9 DEF Inductive, Journalled
  <2> QED
    BY <1>9, <2>1
       DEF StepFails, Raise, Raised, Seen, stageBar, configBar, goalBar, Accepted, Unfinished,
           Tried, Device!dvars
<1> QED
  BY <1>1, <1>2, <1>3, <1>4, <1>5, <1>6, <1>7, <1>8, <1>9 DEF StepFails

\* A restore takes the reviewed backup as a whole, tried on every service that runs, or
\* goes back to exactly what there was, whatever fails; and only one whose acceptance was
\* withdrawn can lose its way back.
THEOREM RestoreIsWhole == Spec => ImplementsRestore
<1>1. Init => Device!Init
  BY DEF Init, Device!Init, stageBar, configBar, goalBar, Accepted, Unfinished, Tried
<1>2. ASSUME Inductive, Inductive', [Next]_vars
      PROVE  [Device!Next]_Device!dvars
  <2>1. CASE UNCHANGED vars
    BY <2>1
       DEF vars, disk, services, memory, counts, stageBar, configBar, goalBar, Accepted,
           Unfinished, Device!dvars
  <2>2. CASE Next
    <3>1. Seen
      BY <1>2, <2>2, RequestSeen, FaultSeen, RunSeen, StepSeen, FailureSeen
         DEF Next, Requests, Operation, Supervision, Failure
    <3> QED
      BY <3>1 DEF Seen
  <2> QED
    BY <1>2, <2>1, <2>2
<1>3. Inductive /\ [Next]_vars => Inductive'
  BY NextStep
<1> QED
  BY Invariance, <1>1, <1>2, <1>3, PTL DEF Spec, ImplementsRestore, Device!Spec
=============================================================================
