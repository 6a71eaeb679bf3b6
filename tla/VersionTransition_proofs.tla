----------------------- MODULE VersionTransition_proofs -----------------------
(***************************************************************************)
(* Proofs about VersionTransition, for every number of versions, networks  *)
(* and chain entries, and for every bound.                                 *)
(*                                                                         *)
(* The type invariant and the safety properties are not inductive as they  *)
(* stand: what makes a step safe is what the operation has already done    *)
(* when it gets there.  Typed and Safe add that: what is known at each pc. *)
(* On them rest Kept, what the files say of one another, and Admitted,     *)
(* what guard and registration are when a step asks for them.              *)
(***************************************************************************)
EXTENDS VersionTransition, TLAPS

-----------------------------------------------------------------------------
(* The inductive invariants.                                               *)

Reviewing == {"prepare", "mark_new", "remember_previous", "journal"}
Rendering == {"write_configs", "finish_configs", "write_ready"}

\* A review being applied is whole, and may still be journalled.
PlanHeld == pc \in Reviewing => plan \in PreviewType /\ begun < MaxTransitions

\* Past the journal entry, the journal names a target.
TargetNamed ==
  /\ journal.phase # "none" => journal.target \in Instances
  /\ pc \notin Reviewing \union {"idle"} => journal.phase # "none"

\* The way back to an activation leads through a previous instance.
PreviousNamed ==
  \/ pc \notin ActivateSteps \union {"restoring", "release"}
  \/ pc \in ActivateSteps /\ journal.phase = "starting"
  \/ pc = "release" /\ journal.phase # "recovering"
  \/ journal.previous # None

\* What is being rendered was found registered.
RenderedRegistered ==
  pc \in Rendering => Selected \in Instances /\ Registered(Selected)

Typed == TypeOK /\ PlanHeld /\ TargetNamed /\ PreviousNamed /\ RenderedRegistered

\* The journal that journal() accepts.
JournalConsistent ==
  journal.deletion_started => journal.reset /\ journal.phase \in IrreversiblePhases

\* Past the deletion, a target that may start is the registered one.
TargetRegistered ==
  /\ (journal.deletion_started
      /\ journal.phase \in {"starting", "target_start_failed", "committed"})
     => active = journal.target
  /\ pc \in {"remember_target", "starting"} => active = journal.target

\* Before deletion is journalled, nothing runs and nothing will start.
Quiet == pc = "validate_scope" => core = None /\ ~wanted /\ journal.reset

\* Before the first unlink, the journal and the guard are written.
WrittenAhead ==
  /\ pc \in {"guard_reset", "lock_scope", "delete"} =>
       journal.deletion_started /\ journal.reset
  /\ pc = "guard_reset" => journal.phase \in {"resetting", "reset_failed"}
  /\ pc \in {"lock_scope", "delete"} => guard.irreversible

\* Only what has not been deleted is undone.
UndoOnlyBefore ==
  pc \in {"restore_stop", "restore_active", "restoring", "rolled_back"} =>
    ~journal.deletion_started

\* An activation is of the target or, undoing, of the previous instance.
ActivationPhase ==
  pc \in ActivateSteps \union {"start_failed"} =>
    journal.phase \in {"starting", "restoring_previous"}

Safe == /\ ActivationPhase /\ JournalConsistent /\ TargetRegistered
        /\ Quiet /\ WrittenAhead /\ UndoOnlyBefore /\ OldNeverRunsAfterDeletion

-----------------------------------------------------------------------------
(* Safe is inductive relative to the type of the journal.                  *)

\* The reviews and what precedes the journal entry touch no file that Safe
\* reads.
LEMMA SafeReview ==
  ASSUME TypeOK, Safe, Review \/ Prepare \/ MarkNew \/ RememberPrevious
  PROVE  Safe'
<1> USE DEF Safe, ActivationPhase, ActivateSteps, JournalConsistent,
            TargetRegistered, Quiet, WrittenAhead, UndoOnlyBefore,
            OldNeverRunsAfterDeletion, Goto, procs, root
<1>1. ASSUME NEW v \in Versions, NEW n \in Networks, Preview(v, n)
      PROVE  Safe'
  BY <1>1 DEF Preview, files
<1>2. ASSUME NEW p \in previews, Discard(p)
      PROVE  Safe'
  BY <1>2 DEF Discard, files
<1>3. ASSUME NEW p \in previews, Apply(p)
      PROVE  Safe'
  BY <1>3 DEF Apply, files
<1>4. CASE Prepare
  BY <1>4 DEF Prepare
<1>5. CASE MarkNew
  BY <1>5 DEF MarkNew
<1>6. CASE RememberPrevious
  BY <1>6 DEF RememberPrevious
<1> QED
  BY <1>1, <1>2, <1>3, <1>4, <1>5, <1>6 DEF Review

\* The journal entry, the guard and the stop.
LEMMA SafeStop ==
  ASSUME TypeOK, Safe,
         \/ Begin \/ Inhibit("guard_stop", "stop") \/ Stop \/ StopFails
         \/ Inhibit("guard_reset", "lock_scope")
         \/ Inhibit("guard_ready", "mark_target") \/ Release
  PROVE  Safe'
<1> USE DEF Safe, ActivationPhase, ActivateSteps, JournalConsistent,
            TargetRegistered, Quiet, WrittenAhead, UndoOnlyBefore,
            OldNeverRunsAfterDeletion, Goto, procs, root, files
<1> journal \in JournalType
  BY DEF TypeOK
<1>1. CASE Begin
  BY <1>1 DEF Begin
<1>2. CASE Inhibit("guard_stop", "stop")
  BY <1>2 DEF Inhibit
<1>3. CASE Stop
  BY <1>3 DEF Stop, StopServices, FinishStep
<1>4. CASE StopFails
  BY <1>4 DEF StopFails, StopUnproved, Persist, Fault, JournalType, IrreversiblePhases
<1>5. CASE Inhibit("guard_reset", "lock_scope")
  <2>1. journal.phase \in {"resetting", "reset_failed"}
    BY <1>5 DEF Inhibit
  <2>2. Inhibited.irreversible
        = (guard.irreversible \/ journal.phase \in {"resetting", "reset_failed"})
    BY Zenon DEF Inhibited
  <2>3. Inhibited.irreversible
    BY <2>1, <2>2, Zenon
  <2> QED
    BY <1>5, <2>3 DEF Inhibit
<1>6. CASE Inhibit("guard_ready", "mark_target")
  BY <1>6 DEF Inhibit
<1>7. CASE Release
  BY <1>7 DEF Release, IrreversiblePhases
<1> QED
  BY <1>1, <1>2, <1>3, <1>4, <1>5, <1>6, <1>7

\* The reset.
LEMMA SafeReset ==
  ASSUME TypeOK, Safe,
         \/ StartDeletion \/ LockScope \/ (\E e \in Entries : DeleteEntry(e))
         \/ ResetDone \/ ResetFails \/ MarkTarget \/ ActivateTarget
         \/ RememberTarget \/ PersistStarting
  PROVE  Safe'
<1> USE DEF Safe, ActivationPhase, ActivateSteps, JournalConsistent,
            TargetRegistered, Quiet, WrittenAhead, UndoOnlyBefore,
            OldNeverRunsAfterDeletion, Goto, Persist, procs,
            root, JournalType, IrreversiblePhases
<1> journal \in JournalType
  BY DEF TypeOK
<1>1. CASE StartDeletion
  BY <1>1 DEF StartDeletion
<1>2. CASE LockScope
  BY <1>2 DEF LockScope, files
<1>3. CASE \E e \in Entries : DeleteEntry(e)
  BY <1>3 DEF DeleteEntry, files
<1>4. CASE ResetDone
  BY <1>4 DEF ResetDone
<1>5. CASE ResetFails
  BY <1>5 DEF ResetFails, Fault
<1>6. CASE MarkTarget
  BY <1>6 DEF MarkTarget
<1>7. CASE ActivateTarget
  BY <1>7 DEF ActivateTarget
<1>8. CASE RememberTarget
  BY <1>8 DEF RememberTarget
<1>9. CASE PersistStarting
  BY <1>9 DEF PersistStarting
<1> QED
  BY <1>1, <1>2, <1>3, <1>4, <1>5, <1>6, <1>7, <1>8, <1>9

\* Past the deletion the gate admits the target only.
LEMMA LaunchIsTarget ==
  ASSUME TypeOK, Safe, Launch, journal.deletion_started
  PROVE  core' = journal.target
<1>1. journal.phase \in {"starting", "committed"}
  BY DEF Safe, JournalConsistent, Launch, StartPermitted, JournalPermits,
         IrreversiblePhases
<1>2. active = journal.target
  BY <1>1 DEF Safe, TargetRegistered
<1> QED
  BY <1>2 DEF Launch, StartPermitted, ProfileBound

\* Starting the selected instance, and what follows when it does not start.
LEMMA SafeStart ==
  ASSUME TypeOK, Safe,
         \/ ValidateActive \/ WriteConfigs \/ FinishConfigs \/ WriteReady
         \/ LaunchSelected \/ CheckPasses \/ StartFails \/ TargetStartFailed
         \/ UndoFailedStart \/ RestoreFailed
  PROVE  Safe'
<1> USE DEF Safe, ActivationPhase, ActivateSteps, JournalConsistent,
            TargetRegistered, Quiet, WrittenAhead, UndoOnlyBefore,
            OldNeverRunsAfterDeletion, Goto, Persist, procs,
            JournalType, IrreversiblePhases
<1> journal \in JournalType
  BY DEF TypeOK
<1>1. CASE ValidateActive
  BY <1>1 DEF ValidateActive, StopServices, files, root
<1>2. CASE WriteConfigs
  BY <1>2 DEF WriteConfigs, files
<1>3. CASE FinishConfigs
  BY <1>3 DEF FinishConfigs, files
<1>4. CASE WriteReady
  BY <1>4 DEF WriteReady, files
<1>5. CASE LaunchSelected
  <2>1. journal.deletion_started => core' \in {None, journal.target}
    BY <1>5, LaunchIsTarget DEF LaunchSelected
  <2> QED
    BY <1>5, <2>1 DEF LaunchSelected, files, root
<1>6. CASE CheckPasses
  BY <1>6 DEF CheckPasses, root
<1>7. CASE StartFails
  BY <1>7 DEF StartFails, ActivateSteps, StopUnproved, files, root
<1>8. CASE TargetStartFailed
  BY <1>8 DEF TargetStartFailed, StopUnproved, root
<1>9. CASE UndoFailedStart
  BY <1>9 DEF UndoFailedStart, files, root
<1>10. CASE RestoreFailed
  BY <1>10 DEF RestoreFailed, root
<1> QED
  BY <1>1, <1>2, <1>3, <1>4, <1>5, <1>6, <1>7, <1>8, <1>9, <1>10

\* The way back, and the request for recovery.
LEMMA SafeRestore ==
  ASSUME TypeOK, Safe,
         \/ BeginRestore \/ RestoreStop \/ RestoreActive \/ PersistRestoring
         \/ PersistRolledBack \/ Recover \/ RecoverCommitted
  PROVE  Safe'
<1> USE DEF Safe, ActivationPhase, ActivateSteps, JournalConsistent,
            TargetRegistered, Quiet, WrittenAhead, UndoOnlyBefore,
            OldNeverRunsAfterDeletion, Goto, Persist, procs,
            root, JournalType
<1> journal \in JournalType
  BY DEF TypeOK
<1>1. CASE BeginRestore
  BY <1>1 DEF BeginRestore
<1>2. CASE RestoreStop
  BY <1>2 DEF RestoreStop, StopServices, files
<1>3. CASE RestoreActive
  BY <1>3 DEF RestoreActive
<1>4. CASE PersistRestoring
  BY <1>4 DEF PersistRestoring
<1>5. CASE PersistRolledBack
  BY <1>5 DEF PersistRolledBack
<1>6. CASE Recover
  BY <1>6 DEF Recover, files
<1>7. CASE RecoverCommitted
  BY <1>7 DEF RecoverCommitted, files
<1> QED
  BY <1>1, <1>2, <1>3, <1>4, <1>5, <1>6, <1>7

\* Failures, crashes, and Core started or stopped behind the daemon's back.
LEMMA SafeEnvironment ==
  ASSUME TypeOK, Safe, Abort \/ Crash \/ ServiceStart \/ CoreExits
  PROVE  Safe'
<1> USE DEF Safe, ActivationPhase, ActivateSteps, JournalConsistent,
            TargetRegistered, Quiet, WrittenAhead, UndoOnlyBefore,
            OldNeverRunsAfterDeletion, procs, root, files
<1>1. CASE Abort
  BY <1>1 DEF Abort
<1>2. CASE Crash
  BY <1>2 DEF Crash
<1>3. CASE ServiceStart
  <2>1. journal.deletion_started => core' = journal.target
    BY <1>3, LaunchIsTarget DEF ServiceStart
  <2> QED
    BY <1>3, <2>1 DEF ServiceStart
<1>4. CASE CoreExits
  BY <1>4 DEF CoreExits
<1> QED
  BY <1>1, <1>2, <1>3, <1>4

LEMMA SafeStep ==
  ASSUME TypeOK, Safe, [Next]_vars
  PROVE  Safe'
<1>1. CASE UNCHANGED vars
  BY <1>1 DEF vars, Safe, ActivationPhase, JournalConsistent, TargetRegistered, Quiet,
              WrittenAhead, UndoOnlyBefore, OldNeverRunsAfterDeletion
<1>2. CASE Next
  BY <1>2, SafeReview, SafeStop, SafeReset, SafeStart, SafeRestore,
     SafeEnvironment DEF Next, Operation, Environment
<1> QED
  BY <1>1, <1>2

-----------------------------------------------------------------------------
(* Typed is inductive: one step per action, the types apart from what is   *)
(* known at each pc.                                                       *)

\* A fault is one more, within the bound.
LEMMA FaultTyped ==
  ASSUME faults \in 0..MaxFaults, Fault
  PROVE  faults' \in 0..MaxFaults
BY ConstantsAssumption DEF Fault

\* What is launched is an instance, and the folder is wholly its version's.
LEMMA LaunchTyped ==
  ASSUME TypeOK, Launch
  PROVE  /\ core' \in Instances \union {None}
         /\ chain' \in [Folders -> [Entries -> Versions \union {None}]]
<1>1. ready.instance \in Instances
  BY DEF TypeOK, ReadyType, Launch, StartPermitted, ProfileBound
<1>2. ready.instance.version \in Versions
  BY <1>1 DEF Instances
<1>3. [e \in Entries |-> ready.instance.version] \in [Entries -> Versions \union {None}]
  BY <1>2
<1> QED
  BY <1>1, <1>3 DEF Launch, TypeOK

\* A stop that is not proved leaves processes of the same type.
LEMMA StopUnprovedTyped ==
  ASSUME TypeOK, StopUnproved
  PROVE  core' \in Instances \union {None} /\ wanted' \in BOOLEAN
BY Zenon DEF TypeOK, StopUnproved

\* The guards the helper writes and removes.
LEMMA GuardTyped ==
  ASSUME TypeOK
  PROVE  Inhibited \in GuardType /\ NoGuard \in GuardType
<1>1. journal.previous \in Instances \union {None} /\ journal.target \in Instances \union {None}
  BY DEF TypeOK, JournalType
<1>2. \A a, b : (a \/ b) \in BOOLEAN
  BY Zenon
<1>3. Inhibited \in GuardType
  BY <1>1, <1>2, Zenon DEF Inhibited, GuardType
<1> QED
  BY <1>3 DEF NoGuard, GuardType

\* A review is of an instance.
LEMMA TargetTyped ==
  ASSUME TypeOK, NEW v \in Versions, NEW n \in Networks
  PROVE  Target(v, n) \in Instances
<1>1. CASE IsReset(v)
  <2>1. active \in Instances
    BY <1>1 DEF IsReset, TypeOK
  <2> QED
    BY <1>1, <2>1 DEF Target, Instances
<1>2. CASE ~IsReset(v) /\ profiles[n] # None
  BY <1>2 DEF Target, TypeOK
<1>3. CASE ~IsReset(v) /\ profiles[n] = None
  BY <1>3 DEF Target, Instances
<1> QED
  BY <1>1, <1>2, <1>3

Known == PlanHeld /\ TargetNamed /\ PreviousNamed /\ RenderedRegistered

\* The reviews and the writes before the journal entry.
LEMMA TypedReview ==
  ASSUME Typed,
         \/ (\E v \in Versions, n \in Networks : Preview(v, n))
         \/ (\E p \in previews : Discard(p))
         \/ (\E p \in previews : Apply(p))
         \/ Prepare
         \/ MarkNew
         \/ RememberPrevious
  PROVE  Typed'
<1> USE DEF Goto, files, root, procs, ActivateSteps, Steps
<1> TypeOK /\ Known
  BY DEF Typed, Known
<1>1. CASE \E v \in Versions, n \in Networks : Preview(v, n)
  <2>1. TypeOK'
    <3>1. PICK v \in Versions, n \in Networks : Preview(v, n)
      BY <1>1
    <3> DEFINE t == Target(v, n)
               p == [previous |-> active, target |-> t, reset |-> IsReset(v),
                     marker |-> MarkerBytes(Folder(t)), binding |-> <<config, ready>>]
    <3>2. t \in Instances
      BY TargetTyped
    <3>3. Folder(t) \in Folders
      BY <3>2 DEF Folder, Folders, Instances
    <3>4. MarkerBytes(Folder(t)) \in Instances \union {None}
      BY <3>3 DEF MarkerBytes, TypeOK
    <3>5. IsReset(v) \in BOOLEAN
      BY Zenon DEF IsReset
    <3>6. p \in PreviewType
      BY <3>2, <3>4, <3>5 DEF PreviewType, TypeOK
    <3>7. previews' = previews \union {p}
      BY <3>1 DEF Preview
    <3> QED
      BY <3>1, <3>6, <3>7 DEF TypeOK, Preview
  <2>2. Known'
    BY <1>1 DEF TypeOK, Known, PlanHeld, TargetNamed, PreviousNamed,
           RenderedRegistered, Reviewing, Rendering, Selected, Registered,
           Preview
  <2> QED
    BY <2>1, <2>2 DEF Typed, Known
<1>2. CASE \E p \in previews : Discard(p)
  <2>1. TypeOK'
    BY <1>2 DEF TypeOK, Discard
  <2>2. Known'
    BY <1>2 DEF TypeOK, Known, PlanHeld, TargetNamed, PreviousNamed,
           RenderedRegistered, Reviewing, Rendering, Selected, Registered,
           Discard
  <2> QED
    BY <2>1, <2>2 DEF Typed, Known
<1>3. CASE \E p \in previews : Apply(p)
  <2>1. TypeOK'
    BY <1>3 DEF TypeOK, Apply
  <2>2. Known'
    BY <1>3 DEF TypeOK, Known, PlanHeld, TargetNamed, PreviousNamed,
           RenderedRegistered, Reviewing, Rendering, Selected, Registered,
           Apply
  <2> QED
    BY <2>1, <2>2 DEF Typed, Known
<1>4. CASE Prepare
  <2>1. TypeOK'
    BY <1>4 DEF TypeOK, Known, Prepare, PlanHeld, Reviewing
  <2>2. Known'
    BY <1>4 DEF TypeOK, Known, PlanHeld, TargetNamed, PreviousNamed,
           RenderedRegistered, Reviewing, Rendering, Selected, Registered,
           Prepare
  <2> QED
    BY <2>1, <2>2 DEF Typed, Known
<1>5. CASE MarkNew
  <2>1. TypeOK'
    BY <1>5 DEF TypeOK, Known, MarkNew, PlanHeld, Reviewing, PreviewType
  <2>2. Known'
    BY <1>5 DEF TypeOK, Known, PlanHeld, TargetNamed, PreviousNamed,
           RenderedRegistered, Reviewing, Rendering, Selected, Registered,
           MarkNew
  <2> QED
    BY <2>1, <2>2 DEF Typed, Known
<1>6. CASE RememberPrevious
  <2>1. TypeOK'
    BY <1>6 DEF TypeOK, Known, RememberPrevious, Remember, PlanHeld,
           Reviewing, PreviewType, Instances
  <2>2. Known'
    BY <1>6 DEF TypeOK, Known, PlanHeld, TargetNamed, PreviousNamed,
           RenderedRegistered, Reviewing, Rendering, Selected, Registered,
           RememberPrevious, Remember
  <2> QED
    BY <2>1, <2>2 DEF Typed, Known
<1> QED
  BY <1>1, <1>2, <1>3, <1>4, <1>5, <1>6

\* The journal entry, the guard and the stop.
LEMMA TypedStop ==
  ASSUME Typed,
         \/ Begin
         \/ Inhibit("guard_stop", "stop")
         \/ Stop
         \/ StopFails
         \/ Inhibit("guard_reset", "lock_scope")
         \/ Inhibit("guard_ready", "mark_target")
         \/ Release
  PROVE  Typed'
<1> USE DEF Goto, files, root, procs, ActivateSteps, Steps
<1> TypeOK /\ Known
  BY DEF Typed, Known
<1>1. CASE Begin
  <2>1. TypeOK'
    <3>1. plan \in PreviewType /\ begun < MaxTransitions
      BY <1>1 DEF Begin, Known, PlanHeld, Reviewing
    <3>2. begun' \in 0..MaxTransitions
      BY <1>1, <3>1, ConstantsAssumption DEF Begin, TypeOK
    <3>3. journal' \in JournalType
      BY <1>1, <3>1 DEF Begin, PreviewType, JournalType, Phases
    <3> QED
      BY <1>1, <3>2, <3>3 DEF Begin, TypeOK
  <2>2. Known'
    BY <1>1 DEF TypeOK, Known, PlanHeld, TargetNamed, PreviousNamed,
           RenderedRegistered, Reviewing, Rendering, Selected, Registered,
           Begin, PreviewType, JournalType
  <2> QED
    BY <2>1, <2>2 DEF Typed, Known
<1>2. CASE Inhibit("guard_stop", "stop")
  <2>1. TypeOK'
    BY <1>2, GuardTyped DEF TypeOK, Inhibit
  <2>2. Known'
    BY <1>2 DEF TypeOK, Known, PlanHeld, TargetNamed, PreviousNamed,
           RenderedRegistered, Reviewing, Rendering, Selected, Registered,
           Inhibit
  <2> QED
    BY <2>1, <2>2 DEF Typed, Known
<1>3. CASE Stop
  <2>1. TypeOK'
    BY <1>3 DEF TypeOK, Stop, StopServices, FinishStep
  <2>2. Known'
    BY <1>3 DEF TypeOK, Known, PlanHeld, TargetNamed, PreviousNamed,
           RenderedRegistered, Reviewing, Rendering, Selected, Registered,
           Stop, StopServices, FinishStep
  <2> QED
    BY <2>1, <2>2 DEF Typed, Known
<1>4. CASE StopFails
  <2>1. TypeOK'
    BY <1>4, FaultTyped, StopUnprovedTyped DEF TypeOK, StopFails, Persist,
           JournalType, Phases, IrreversiblePhases
  <2>2. Known'
    BY <1>4 DEF TypeOK, Known, PlanHeld, TargetNamed, PreviousNamed,
           RenderedRegistered, Reviewing, Rendering, Selected, Registered,
           StopFails, Persist, JournalType, Phases, IrreversiblePhases
  <2> QED
    BY <2>1, <2>2 DEF Typed, Known
<1>5. CASE Inhibit("guard_reset", "lock_scope")
  <2>1. TypeOK'
    BY <1>5, GuardTyped DEF TypeOK, Inhibit
  <2>2. Known'
    BY <1>5 DEF TypeOK, Known, PlanHeld, TargetNamed, PreviousNamed,
           RenderedRegistered, Reviewing, Rendering, Selected, Registered,
           Inhibit
  <2> QED
    BY <2>1, <2>2 DEF Typed, Known
<1>6. CASE Inhibit("guard_ready", "mark_target")
  <2>1. TypeOK'
    BY <1>6, GuardTyped DEF TypeOK, Inhibit
  <2>2. Known'
    BY <1>6 DEF TypeOK, Known, PlanHeld, TargetNamed, PreviousNamed,
           RenderedRegistered, Reviewing, Rendering, Selected, Registered,
           Inhibit
  <2> QED
    BY <2>1, <2>2 DEF Typed, Known
<1>7. CASE Release
  <2>1. TypeOK'
    BY <1>7, GuardTyped DEF TypeOK, Release
  <2>2. Known'
    BY <1>7 DEF TypeOK, Known, PlanHeld, TargetNamed, PreviousNamed,
           RenderedRegistered, Reviewing, Rendering, Selected, Registered,
           Release, JournalType
  <2> QED
    BY <2>1, <2>2 DEF Typed, Known
<1> QED
  BY <1>1, <1>2, <1>3, <1>4, <1>5, <1>6, <1>7

\* The reset.
LEMMA TypedReset ==
  ASSUME Typed,
         \/ StartDeletion
         \/ LockScope
         \/ (\E e \in Entries : DeleteEntry(e))
         \/ ResetDone
         \/ ResetFails
         \/ MarkTarget
         \/ ActivateTarget
         \/ RememberTarget
         \/ PersistStarting
  PROVE  Typed'
<1> USE DEF Goto, files, root, procs, ActivateSteps, Steps
<1> TypeOK /\ Known
  BY DEF Typed, Known
<1>1. CASE StartDeletion
  <2>1. TypeOK'
    BY <1>1 DEF TypeOK, StartDeletion, JournalType, Phases, IrreversiblePhases
  <2>2. Known'
    BY <1>1 DEF TypeOK, Known, PlanHeld, TargetNamed, PreviousNamed,
           RenderedRegistered, Reviewing, Rendering, Selected, Registered,
           StartDeletion, JournalType
  <2> QED
    BY <2>1, <2>2 DEF Typed, Known
<1>2. CASE LockScope
  <2>1. TypeOK'
    BY <1>2 DEF TypeOK, LockScope
  <2>2. Known'
    BY <1>2 DEF TypeOK, Known, PlanHeld, TargetNamed, PreviousNamed,
           RenderedRegistered, Reviewing, Rendering, Selected, Registered,
           LockScope
  <2> QED
    BY <2>1, <2>2 DEF Typed, Known
<1>3. CASE \E e \in Entries : DeleteEntry(e)
  <2>1. TypeOK'
    BY <1>3 DEF TypeOK, Known, DeleteEntry, Folder, Folders, Instances,
           TargetNamed, Reviewing
  <2>2. Known'
    BY <1>3 DEF TypeOK, Known, PlanHeld, TargetNamed, PreviousNamed,
           RenderedRegistered, Reviewing, Rendering, Selected, Registered,
           DeleteEntry
  <2> QED
    BY <2>1, <2>2 DEF Typed, Known
<1>4. CASE ResetDone
  <2>1. TypeOK'
    BY <1>4 DEF TypeOK, ResetDone, Persist, JournalType, Phases,
           IrreversiblePhases
  <2>2. Known'
    BY <1>4 DEF TypeOK, Known, PlanHeld, TargetNamed, PreviousNamed,
           RenderedRegistered, Reviewing, Rendering, Selected, Registered,
           ResetDone, Persist, JournalType, Phases, IrreversiblePhases
  <2> QED
    BY <2>1, <2>2 DEF Typed, Known
<1>5. CASE ResetFails
  <2>1. TypeOK'
    BY <1>5, FaultTyped DEF TypeOK, ResetFails, Persist, JournalType, Phases,
           IrreversiblePhases
  <2>2. Known'
    BY <1>5 DEF TypeOK, Known, PlanHeld, TargetNamed, PreviousNamed,
           RenderedRegistered, Reviewing, Rendering, Selected, Registered,
           ResetFails, Persist, JournalType, Phases, IrreversiblePhases
  <2> QED
    BY <2>1, <2>2 DEF Typed, Known
<1>6. CASE MarkTarget
  <2>1. TypeOK'
    BY <1>6 DEF TypeOK, MarkTarget, JournalType
  <2>2. Known'
    BY <1>6 DEF TypeOK, Known, PlanHeld, TargetNamed, PreviousNamed,
           RenderedRegistered, Reviewing, Rendering, Selected, Registered,
           MarkTarget
  <2> QED
    BY <2>1, <2>2 DEF Typed, Known
<1>7. CASE ActivateTarget
  <2>1. TypeOK'
    BY <1>7 DEF TypeOK, ActivateTarget, JournalType
  <2>2. Known'
    BY <1>7 DEF TypeOK, Known, PlanHeld, TargetNamed, PreviousNamed,
           RenderedRegistered, Reviewing, Rendering, Selected, Registered,
           ActivateTarget
  <2> QED
    BY <2>1, <2>2 DEF Typed, Known
<1>8. CASE RememberTarget
  <2>1. TypeOK'
    BY <1>8 DEF TypeOK, RememberTarget, Remember, JournalType, Instances
  <2>2. Known'
    BY <1>8 DEF TypeOK, Known, PlanHeld, TargetNamed, PreviousNamed,
           RenderedRegistered, Reviewing, Rendering, Selected, Registered,
           RememberTarget, Remember
  <2> QED
    BY <2>1, <2>2 DEF Typed, Known
<1>9. CASE PersistStarting
  <2>1. TypeOK'
    BY <1>9 DEF TypeOK, PersistStarting, Persist, JournalType, Phases,
           IrreversiblePhases
  <2>2. Known'
    BY <1>9 DEF TypeOK, Known, PlanHeld, TargetNamed, PreviousNamed,
           RenderedRegistered, Reviewing, Rendering, Selected, Registered,
           PersistStarting, Persist, JournalType, Phases, IrreversiblePhases
  <2> QED
    BY <2>1, <2>2 DEF Typed, Known
<1> QED
  BY <1>1, <1>2, <1>3, <1>4, <1>5, <1>6, <1>7, <1>8, <1>9

\* The start of the selected instance.
LEMMA TypedStart ==
  ASSUME Typed,
         \/ ValidateActive
         \/ WriteConfigs
         \/ FinishConfigs
         \/ WriteReady
         \/ LaunchSelected
         \/ CheckPasses
         \/ StartFails
         \/ TargetStartFailed
         \/ UndoFailedStart
         \/ RestoreFailed
  PROVE  Typed'
<1> USE DEF Goto, files, root, procs, ActivateSteps, Steps
<1> TypeOK /\ Known
  BY DEF Typed, Known
<1>1. CASE ValidateActive
  <2>1. TypeOK'
    BY <1>1 DEF TypeOK, ValidateActive, StopServices
  <2>2. Known'
    BY <1>1 DEF TypeOK, Known, PlanHeld, TargetNamed, PreviousNamed,
           RenderedRegistered, Reviewing, Rendering, Selected, Registered,
           ValidateActive, StopServices, JournalType
  <2> QED
    BY <2>1, <2>2 DEF Typed, Known
<1>2. CASE WriteConfigs
  <2>1. TypeOK'
    BY <1>2 DEF TypeOK, WriteConfigs, Selected, JournalType
  <2>2. Known'
    BY <1>2 DEF TypeOK, Known, PlanHeld, TargetNamed, PreviousNamed,
           RenderedRegistered, Reviewing, Rendering, Selected, Registered,
           WriteConfigs
  <2> QED
    BY <2>1, <2>2 DEF Typed, Known
<1>3. CASE FinishConfigs
  <2>1. TypeOK'
    BY <1>3 DEF TypeOK, FinishConfigs, Selected, JournalType
  <2>2. Known'
    BY <1>3 DEF TypeOK, Known, PlanHeld, TargetNamed, PreviousNamed,
           RenderedRegistered, Reviewing, Rendering, Selected, Registered,
           FinishConfigs
  <2> QED
    BY <2>1, <2>2 DEF Typed, Known
<1>4. CASE WriteReady
  <2>1. TypeOK'
    BY <1>4 DEF TypeOK, Known, WriteReady, RenderedRegistered, Rendering,
           Registered, ReadyType
  <2>2. Known'
    BY <1>4 DEF TypeOK, Known, PlanHeld, TargetNamed, PreviousNamed,
           RenderedRegistered, Reviewing, Rendering, Selected, Registered,
           WriteReady
  <2> QED
    BY <2>1, <2>2 DEF Typed, Known
<1>5. CASE LaunchSelected
  <2>1. TypeOK'
    BY <1>5, LaunchTyped DEF TypeOK, LaunchSelected
  <2>2. Known'
    BY <1>5 DEF TypeOK, Known, PlanHeld, TargetNamed, PreviousNamed,
           RenderedRegistered, Reviewing, Rendering, Selected, Registered,
           LaunchSelected
  <2> QED
    BY <2>1, <2>2 DEF Typed, Known
<1>6. CASE CheckPasses
  <2>1. TypeOK'
    BY <1>6 DEF TypeOK, CheckPasses, Persist, JournalType, Phases,
           IrreversiblePhases
  <2>2. Known'
    BY <1>6 DEF TypeOK, Known, PlanHeld, TargetNamed, PreviousNamed,
           RenderedRegistered, Reviewing, Rendering, Selected, Registered,
           CheckPasses, Persist, JournalType, Phases, IrreversiblePhases
  <2> QED
    BY <2>1, <2>2 DEF Typed, Known
<1>7. CASE StartFails
  <2>1. TypeOK'
    BY <1>7, FaultTyped, StopUnprovedTyped DEF TypeOK, StartFails
  <2>2. Known'
    BY <1>7 DEF TypeOK, Known, PlanHeld, TargetNamed, PreviousNamed,
           RenderedRegistered, Reviewing, Rendering, Selected, Registered,
           StartFails
  <2> QED
    BY <2>1, <2>2 DEF Typed, Known
<1>8. CASE TargetStartFailed
  <2>1. TypeOK'
    BY <1>8, StopUnprovedTyped DEF TypeOK, TargetStartFailed, Persist,
           JournalType, Phases, IrreversiblePhases
  <2>2. Known'
    BY <1>8 DEF TypeOK, Known, PlanHeld, TargetNamed, PreviousNamed,
           RenderedRegistered, Reviewing, Rendering, Selected, Registered,
           TargetStartFailed, Persist, JournalType, Phases, IrreversiblePhases
  <2> QED
    BY <2>1, <2>2 DEF Typed, Known
<1>9. CASE UndoFailedStart
  <2>1. TypeOK'
    BY <1>9 DEF TypeOK, UndoFailedStart
  <2>2. Known'
    BY <1>9 DEF TypeOK, Known, PlanHeld, TargetNamed, PreviousNamed,
           RenderedRegistered, Reviewing, Rendering, Selected, Registered,
           UndoFailedStart
  <2> QED
    BY <2>1, <2>2 DEF Typed, Known
<1>10. CASE RestoreFailed
  <2>1. TypeOK'
    BY <1>10 DEF TypeOK, RestoreFailed, Persist, JournalType, Phases,
           IrreversiblePhases
  <2>2. Known'
    BY <1>10 DEF TypeOK, Known, PlanHeld, TargetNamed, PreviousNamed,
           RenderedRegistered, Reviewing, Rendering, Selected, Registered,
           RestoreFailed, Persist, JournalType, Phases, IrreversiblePhases
  <2> QED
    BY <2>1, <2>2 DEF Typed, Known
<1> QED
  BY <1>1, <1>2, <1>3, <1>4, <1>5, <1>6, <1>7, <1>8, <1>9, <1>10

\* The way back, and the request for recovery.
LEMMA TypedRestore ==
  ASSUME Typed,
         \/ BeginRestore
         \/ RestoreStop
         \/ RestoreActive
         \/ PersistRestoring
         \/ PersistRolledBack
         \/ Recover
         \/ RecoverCommitted
  PROVE  Typed'
<1> USE DEF Goto, files, root, procs, ActivateSteps, Steps
<1> TypeOK /\ Known
  BY DEF Typed, Known
<1>1. CASE BeginRestore
  <2>1. TypeOK'
    BY <1>1 DEF TypeOK, BeginRestore, Persist, JournalType, Phases,
           IrreversiblePhases
  <2>2. Known'
    BY <1>1 DEF TypeOK, Known, PlanHeld, TargetNamed, PreviousNamed,
           RenderedRegistered, Reviewing, Rendering, Selected, Registered,
           BeginRestore, Persist, JournalType, Phases, IrreversiblePhases
  <2> QED
    BY <2>1, <2>2 DEF Typed, Known
<1>2. CASE RestoreStop
  <2>1. TypeOK'
    BY <1>2 DEF TypeOK, RestoreStop, StopServices
  <2>2. Known'
    BY <1>2 DEF TypeOK, Known, PlanHeld, TargetNamed, PreviousNamed,
           RenderedRegistered, Reviewing, Rendering, Selected, Registered,
           RestoreStop, StopServices
  <2> QED
    BY <2>1, <2>2 DEF Typed, Known
<1>3. CASE RestoreActive
  <2>1. TypeOK'
    BY <1>3 DEF TypeOK, RestoreActive, JournalType
  <2>2. Known'
    BY <1>3 DEF TypeOK, Known, PlanHeld, TargetNamed, PreviousNamed,
           RenderedRegistered, Reviewing, Rendering, Selected, Registered,
           RestoreActive, JournalType
  <2> QED
    BY <2>1, <2>2 DEF Typed, Known
<1>4. CASE PersistRestoring
  <2>1. TypeOK'
    BY <1>4 DEF TypeOK, PersistRestoring, Persist, JournalType, Phases,
           IrreversiblePhases
  <2>2. Known'
    BY <1>4 DEF TypeOK, Known, PlanHeld, TargetNamed, PreviousNamed,
           RenderedRegistered, Reviewing, Rendering, Selected, Registered,
           PersistRestoring, Persist, JournalType, Phases, IrreversiblePhases
  <2> QED
    BY <2>1, <2>2 DEF Typed, Known
<1>5. CASE PersistRolledBack
  <2>1. TypeOK'
    BY <1>5 DEF TypeOK, PersistRolledBack, Persist, JournalType, Phases,
           IrreversiblePhases
  <2>2. Known'
    BY <1>5 DEF TypeOK, Known, PlanHeld, TargetNamed, PreviousNamed,
           RenderedRegistered, Reviewing, Rendering, Selected, Registered,
           PersistRolledBack, Persist, JournalType, Phases, IrreversiblePhases
  <2> QED
    BY <2>1, <2>2 DEF Typed, Known
<1>6. CASE Recover
  <2>1. TypeOK'
    BY <1>6 DEF TypeOK, Recover
  <2>2. Known'
    BY <1>6 DEF TypeOK, Known, PlanHeld, TargetNamed, PreviousNamed,
           RenderedRegistered, Reviewing, Rendering, Selected, Registered,
           Recover, Unfinished
  <2> QED
    BY <2>1, <2>2 DEF Typed, Known
<1>7. CASE RecoverCommitted
  <2>1. TypeOK'
    BY <1>7 DEF TypeOK, RecoverCommitted
  <2>2. Known'
    BY <1>7 DEF TypeOK, Known, PlanHeld, TargetNamed, PreviousNamed,
           RenderedRegistered, Reviewing, Rendering, Selected, Registered,
           RecoverCommitted, JournalType
  <2> QED
    BY <2>1, <2>2 DEF Typed, Known
<1> QED
  BY <1>1, <1>2, <1>3, <1>4, <1>5, <1>6, <1>7

\* The environment.
LEMMA TypedEnvironment ==
  ASSUME Typed,
         \/ Abort
         \/ Crash
         \/ ServiceStart
         \/ CoreExits
  PROVE  Typed'
<1> USE DEF Goto, files, root, procs, ActivateSteps, Steps
<1> TypeOK /\ Known
  BY DEF Typed, Known
<1>1. CASE Abort
  <2>1. TypeOK'
    BY <1>1, FaultTyped DEF TypeOK, Abort
  <2>2. Known'
    BY <1>1 DEF TypeOK, Known, PlanHeld, TargetNamed, PreviousNamed,
           RenderedRegistered, Reviewing, Rendering, Selected, Registered,
           Abort
  <2> QED
    BY <2>1, <2>2 DEF Typed, Known
<1>2. CASE Crash
  <2>1. TypeOK'
    BY <1>2, FaultTyped DEF TypeOK, Crash
  <2>2. Known'
    BY <1>2 DEF TypeOK, Known, PlanHeld, TargetNamed, PreviousNamed,
           RenderedRegistered, Reviewing, Rendering, Selected, Registered,
           Crash
  <2> QED
    BY <2>1, <2>2 DEF Typed, Known
<1>3. CASE ServiceStart
  <2>1. TypeOK'
    BY <1>3, LaunchTyped DEF TypeOK, ServiceStart
  <2>2. Known'
    BY <1>3 DEF TypeOK, Known, PlanHeld, TargetNamed, PreviousNamed,
           RenderedRegistered, Reviewing, Rendering, Selected, Registered,
           ServiceStart
  <2> QED
    BY <2>1, <2>2 DEF Typed, Known
<1>4. CASE CoreExits
  <2>1. TypeOK'
    BY <1>4, FaultTyped DEF TypeOK, CoreExits
  <2>2. Known'
    BY <1>4 DEF TypeOK, Known, PlanHeld, TargetNamed, PreviousNamed,
           RenderedRegistered, Reviewing, Rendering, Selected, Registered,
           CoreExits
  <2> QED
    BY <2>1, <2>2 DEF Typed, Known
<1> QED
  BY <1>1, <1>2, <1>3, <1>4

LEMMA TypedStep ==
  ASSUME Typed, [Next]_vars
  PROVE  Typed'
<1>1. CASE UNCHANGED vars
  BY <1>1 DEF vars, Typed, TypeOK, PlanHeld, TargetNamed, PreviousNamed,
              RenderedRegistered, Selected, Registered
<1>2. CASE Next
  BY <1>2, TypedReview, TypedStop, TypedReset, TypedStart, TypedRestore,
     TypedEnvironment DEF Next, Review, Operation, Environment
<1> QED
  BY <1>1, <1>2

-----------------------------------------------------------------------------
(* The theorems.                                                           *)

LEMMA InitHolds == Init => Typed /\ Safe
<1> SUFFICES ASSUME Init PROVE Typed /\ Safe
  OBVIOUS
<1>1. TypeOK
  BY ConstantsAssumption
     DEF Init, TypeOK, NoJournal, NoGuard, JournalType, GuardType, ReadyType,
         Phases, Steps
<1>2. Typed
  BY <1>1 DEF Init, NoJournal, Typed, PlanHeld, TargetNamed, PreviousNamed,
              RenderedRegistered, Reviewing, Rendering, ActivateSteps
<1>3. Safe
  BY DEF Init, NoJournal, Safe, ActivationPhase, ActivateSteps,
         JournalConsistent, TargetRegistered, Quiet, WrittenAhead,
         UndoOnlyBefore, OldNeverRunsAfterDeletion
<1> QED
  BY <1>2, <1>3

LEMMA Invariance == Spec => [](Typed /\ Safe)
<1>1. Typed /\ Safe /\ [Next]_vars => (Typed /\ Safe)'
  BY TypedStep, SafeStep DEF Typed
<1> QED
  BY InitHolds, <1>1, PTL DEF Spec

\* The files, the processes and the daemon's memory keep their types: no phase
\* journal() would refuse is ever written, no guard or registration without
\* its instances.
THEOREM TypeCorrect == Spec => []TypeOK
<1>1. Typed /\ Safe => TypeOK
  BY DEF Typed
<1> QED
  BY Invariance, <1>1, PTL

\* Once deletion has been journalled only the target ever runs, whatever fails
\* and whenever systemd starts Core.
THEOREM OldNeverRuns == Spec => []OldNeverRunsAfterDeletion
<1>1. Typed /\ Safe => OldNeverRunsAfterDeletion
  BY DEF Safe
<1> QED
  BY Invariance, <1>1, PTL

\* Every unlink follows both durable records of the point of no return.
THEOREM DeletionIsWrittenAhead == Spec => DeletionWrittenAhead
<1> DEFINE Erased(f, e) == chain[f][e] # None /\ chain'[f][e] = None
           Ahead(f) == /\ journal.reset /\ journal.deletion_started
                       /\ guard.irreversible
                       /\ f = Folder(journal.target)
           Ahead1 == \A f \in Folders, e \in Entries : Erased(f, e) => Ahead(f)
<1>1. ASSUME Typed, Safe, Next
      PROVE  Ahead1
  <2> SUFFICES ASSUME NEW f \in Folders, NEW e \in Entries, Erased(f, e)
               PROVE  Ahead(f)
    OBVIOUS
  <2>1. CASE Launch
    <3>1. ready.instance.version # None
      BY <1>1, <2>1, ConstantsAssumption
         DEF Typed, TypeOK, ReadyType, Launch, StartPermitted, ProfileBound, Instances
    <3>2. chain'[f][e] \in {chain[f][e], ready.instance.version}
      BY <1>1, <2>1 DEF Launch, Typed, TypeOK
    <3> QED
      BY <3>1, <3>2
  <2>2. CASE \E d \in Entries : DeleteEntry(d)
    <3>1. f = Folder(journal.target)
      BY <1>1, <2>2 DEF DeleteEntry, Typed, TypeOK
    <3> QED
      BY <1>1, <2>2, <3>1 DEF DeleteEntry, Safe, WrittenAhead
  <2>3. CASE UNCHANGED chain
    BY <2>3
  <2>4. Launch \/ (\E d \in Entries : DeleteEntry(d)) \/ UNCHANGED chain
    BY <1>1 DEF Next, Review, Operation, Environment, Preview, Discard, Apply,
         Prepare, MarkNew, RememberPrevious, Begin, Inhibit, Stop, StopServices,
         StartDeletion, LockScope, ResetDone, MarkTarget, ActivateTarget,
         RememberTarget, PersistStarting, ValidateActive, WriteConfigs,
         FinishConfigs, WriteReady, LaunchSelected, CheckPasses, Release,
         TargetStartFailed, UndoFailedStart, RestoreFailed, BeginRestore,
         RestoreStop, RestoreActive, PersistRestoring, PersistRolledBack,
         StopFails, ResetFails, StartFails, Abort, Crash, ServiceStart,
         CoreExits, Recover, RecoverCommitted
  <2> QED
    BY <2>1, <2>2, <2>3, <2>4
<1>2. Typed /\ Safe /\ [Next]_vars => [Ahead1]_vars
  BY <1>1
<1>3. Spec => [][Ahead1]_vars
  BY Invariance, <1>2, PTL DEF Spec
<1> QED
  BY <1>3 DEF DeletionWrittenAhead

-----------------------------------------------------------------------------
(* What a transition leaves behind.  The invariant Kept says what the      *)
(* files say of one another at each phase and at each step: which of the   *)
(* two instances is active, which one the data folder is marked with, and  *)
(* what the chain in it was written by.                                    *)

\* A reset stays in its folder with another version; a change of network leaves it.
Scoped(r) ==
  /\ r.reset => /\ r.previous # None
                /\ Folder(r.previous) = Folder(r.target)
                /\ r.previous # r.target
  /\ (~r.reset /\ r.previous # None) => r.previous.network # r.target.network

Scopes ==
  /\ \A p \in previews : Scoped(p)
  /\ pc \in Reviewing => Scoped(plan)
  /\ journal.phase # "none" => Scoped(journal)

Erasing  == {"resetting", "reset_failed"}
Started  == {"starting", "target_start_failed"}
Undoing  == {"restoring_previous", "recovering", "recovery_failed"}
Before   == {"stopping", "stop_failed"} \union Undoing

\* The phases in which the operation may be where it is.
PhaseAtStep ==
  /\ pc \in Reviewing => ~Unfinished
  /\ pc \notin Reviewing \union {"idle", "release"} => Unfinished
  /\ pc \in {"guard_stop", "validate_scope", "guard_reset", "lock_scope", "delete",
             "guard_ready", "mark_target"} => journal.reset
  /\ pc \in {"guard_stop", "stop", "validate_scope"} =>
       journal.deletion_started \/ journal.phase = "stopping"
  /\ pc = "validate_scope" => ~journal.deletion_started
  /\ pc \in {"lock_scope", "delete"} => journal.phase \in Erasing
  /\ pc = "guard_ready" => journal.phase = "activating"
  /\ pc \in {"mark_target", "activate", "remember_target", "starting"} =>
       IF journal.reset THEN journal.phase \in {"activating"} \union Started
                        ELSE journal.phase = "stopping"
  /\ pc \in {"restore_stop", "restore_active", "restoring", "rolled_back"} =>
       journal.phase = "recovering"
  /\ pc = "release" => journal.phase \in {"committed", "stop_failed", "recovering"}

\* A reset that has not begun to delete is in a phase before it, and the other way round.
DeletionPhase ==
  Unfinished =>
    IF journal.deletion_started
      THEN journal.phase \in Erasing \union {"activating"} \union Started
      ELSE /\ journal.phase \in Before \union {"starting"}
           /\ journal.reset => journal.phase \in Before

\* Which instance is active.
ActiveAtPhase ==
  /\ journal.phase = "none" => active = None /\ journal.previous = None
  /\ journal.phase # "none" => active \in {journal.previous, journal.target}
  /\ journal.phase \in Started \union {"committed"} => active = journal.target
  /\ journal.phase \in {"restoring_previous", "rolled_back"} => active = journal.previous
  /\ pc \in {"restoring", "rolled_back"} => active = journal.previous
  /\ pc = "release" /\ journal.phase = "recovering" => active = journal.previous
  /\ pc = "rolled_back" => journal.previous = None
  /\ pc \in Reviewing => plan.previous = active

\* Which instance the folder under change is marked with.
MarkerAtPhase ==
  LET m == marker[Folder(journal.target)] IN
  Unfinished =>
    /\ ~journal.reset =>
         /\ m = journal.target
         /\ journal.previous # None => Registered(journal.previous)
    /\ journal.reset =>
         /\ journal.phase \in Erasing \union Before => m = journal.previous
         /\ journal.phase = "activating" => m \in {journal.previous, journal.target}
         /\ journal.phase \in Started => m = journal.target
         /\ pc \in {"activate", "remember_target", "starting"} => m = journal.target

\* The folder of a review that is being applied.
MarkerAtReview ==
  /\ pc = "mark_new" => marker[Folder(plan.target)] = Unmarked
  /\ pc \in {"prepare", "mark_new"} => ~plan.reset
  /\ (pc \in {"remember_previous", "journal"} /\ ~plan.reset) => Registered(plan.target)

\* A remembered profile is registered, but for the one whose folder was just marked.
ProfilesKept ==
  /\ \A n \in Networks : profiles[n] # None =>
       /\ profiles[n].network = n
       /\ \/ Registered(profiles[n])
          \/ /\ journal.phase = "activating" /\ n = journal.target.network
             /\ profiles[n] = journal.previous
             /\ marker[Folder(journal.target)] = journal.target
  /\ pc = "starting" => profiles[journal.target.network] = journal.target

\* Nothing runs that the gate would not let start, where it matters.
Gated ==
  /\ pc \in Rendering \union {"launch", "restore_active", "restoring", "rolled_back"} =>
       core = None /\ ~wanted
  /\ pc = "release" /\ journal.phase = "recovering" => core = None /\ ~wanted
  /\ pc = "check" /\ core # None => StartPermitted

\* The chain in a folder was written by the version it is marked with, unless the
\* deletion of it is under way.
OwnChain(f) ==
  \/ ScopeEmpty(f)
  \/ marker[f] \in Instances /\ \A e \in Entries : chain[f][e] = marker[f].version
ChainKept ==
  /\ \A f \in Folders :
       \/ OwnChain(f)
       \/ /\ journal.deletion_started /\ journal.phase \in Erasing
          /\ f = Folder(journal.target)
  /\ (journal.phase = "activating" /\ Registered(journal.previous)) =>
       ScopeEmpty(Folder(journal.previous))

Phased == Scopes /\ PhaseAtStep /\ DeletionPhase /\ ActiveAtPhase
Marked == MarkerAtPhase /\ MarkerAtReview /\ ProfilesKept
Booted == Gated /\ FinishedNodeBoots

Kept == Phased /\ Marked /\ Booted /\ ChainKept

-----------------------------------------------------------------------------
(* What the journal says of itself and of the instance that is active.     *)

\* The target of a review.
LEMMA TargetScoped ==
  ASSUME Typed, Kept, NEW v \in Versions, NEW n \in Networks,
         IsReset(v) => n = active.network,
         (active # None /\ ~IsReset(v)) => n # active.network,
         NEW m, NEW b
  PROVE  Scoped([previous |-> active, target |-> Target(v, n), reset |-> IsReset(v),
                 marker |-> m, binding |-> b])
<1>1. active \in Instances \union {None}
  BY DEF Typed, TypeOK
<1>2. CASE IsReset(v)
  <2>1. Target(v, n) = [active EXCEPT !.version = v] /\ active \in Instances
        /\ active.version # v
    BY <1>1, <1>2 DEF Target, IsReset
  <2> QED
    BY <1>2, <2>1, ConstantsAssumption DEF Scoped, Folder, Instances
<1>3. CASE ~IsReset(v)
  <2>1. Target(v, n).network = n
    BY <1>3 DEF Target, Kept, Marked, ProfilesKept
  <2> QED
    BY <1>3, <2>1 DEF Scoped
<1> QED
  BY <1>2, <1>3

LEMMA PhasedReview ==
  ASSUME Typed, Safe, Kept, Review \/ Prepare \/ MarkNew \/ RememberPrevious
  PROVE  Phased'
<1> USE DEF Phased, Scopes, PhaseAtStep, DeletionPhase, ActiveAtPhase, Unfinished, Terminal,
            Goto, files
<1> Phased
  BY DEF Kept
<1>1. ASSUME NEW v \in Versions, NEW n \in Networks, Preview(v, n)
      PROVE  Phased'
  <2>1. PICK r : Scoped(r) /\ previews' = previews \union {r}
    BY <1>1, TargetScoped DEF Preview
  <2> QED
    BY <1>1, <2>1 DEF Preview, Reviewing, Scoped
<1>2. ASSUME NEW p \in previews, Discard(p)
      PROVE  Phased'
  BY <1>2 DEF Discard, Reviewing, Scoped
<1>3. ASSUME NEW p \in previews, Apply(p)
      PROVE  Phased'
  BY <1>3 DEF Apply, Fresh, Reviewing, Scoped
<1>4. CASE Prepare
  BY <1>4 DEF Prepare, Reviewing, Scoped
<1>5. CASE MarkNew
  BY <1>5 DEF MarkNew, Reviewing, Scoped
<1>6. CASE RememberPrevious
  BY <1>6 DEF RememberPrevious, Reviewing, Scoped
<1> QED
  BY <1>1, <1>2, <1>3, <1>4, <1>5, <1>6 DEF Review

LEMMA PhasedStop ==
  ASSUME Typed, Safe, Kept,
         \/ Begin \/ Inhibit("guard_stop", "stop") \/ Stop \/ StopFails
         \/ Inhibit("guard_reset", "lock_scope")
         \/ Inhibit("guard_ready", "mark_target") \/ Release
  PROVE  Phased'
<1> USE DEF Phased, Scopes, PhaseAtStep, DeletionPhase, ActiveAtPhase, Unfinished, Terminal,
            Goto, files, Reviewing, Erasing, Started, Before, Undoing
<1> Phased /\ journal \in JournalType
  BY DEF Kept, Typed, TypeOK
<1>1. CASE Begin
  BY <1>1 DEF Begin, Scoped
<1>2. CASE Inhibit("guard_stop", "stop")
  BY <1>2 DEF Inhibit, Scoped
<1>3. CASE Stop
  BY <1>3 DEF Stop, StopServices, FinishStep, Scoped, Safe, JournalConsistent
<1>4. CASE StopFails
  BY <1>4 DEF StopFails, Persist, JournalType, Scoped
<1>5. CASE Inhibit("guard_reset", "lock_scope")
  BY <1>5 DEF Inhibit, Scoped, Safe, WrittenAhead
<1>6. CASE Inhibit("guard_ready", "mark_target")
  BY <1>6 DEF Inhibit, Scoped
<1>7. CASE Release
  BY <1>7 DEF Release, Scoped
<1> QED
  BY <1>1, <1>2, <1>3, <1>4, <1>5, <1>6, <1>7

LEMMA PhasedReset ==
  ASSUME Typed, Safe, Kept,
         \/ StartDeletion \/ LockScope \/ (\E e \in Entries : DeleteEntry(e))
         \/ ResetDone \/ ResetFails \/ MarkTarget \/ ActivateTarget
         \/ RememberTarget \/ PersistStarting
  PROVE  Phased'
<1> USE DEF Phased, Scopes, PhaseAtStep, DeletionPhase, ActiveAtPhase, Unfinished, Terminal,
            Goto, files, Persist, Reviewing, Erasing, Started, Before, Undoing, JournalType
<1> Phased /\ journal \in JournalType
  BY DEF Kept, Typed, TypeOK
<1>1. CASE StartDeletion
  BY <1>1 DEF StartDeletion, Scoped
<1>2. CASE LockScope
  BY <1>2 DEF LockScope, Scoped, Safe, WrittenAhead
<1>3. CASE \E e \in Entries : DeleteEntry(e)
  BY <1>3 DEF DeleteEntry, Scoped
<1>4. CASE ResetDone
  BY <1>4 DEF ResetDone, Scoped
<1>5. CASE ResetFails
  BY <1>5 DEF ResetFails, Scoped
<1>6. CASE MarkTarget
  BY <1>6 DEF MarkTarget, Scoped
<1>7. CASE ActivateTarget
  BY <1>7 DEF ActivateTarget, Scoped
<1>8. CASE RememberTarget
  BY <1>8 DEF RememberTarget, Scoped
<1>9. CASE PersistStarting
  BY <1>9 DEF PersistStarting, Scoped, Safe, TargetRegistered, ActivateSteps
<1> QED
  BY <1>1, <1>2, <1>3, <1>4, <1>5, <1>6, <1>7, <1>8, <1>9

LEMMA PhasedStart ==
  ASSUME Typed, Safe, Kept,
         \/ ValidateActive \/ WriteConfigs \/ FinishConfigs \/ WriteReady
         \/ LaunchSelected \/ CheckPasses \/ StartFails \/ TargetStartFailed
         \/ UndoFailedStart \/ RestoreFailed
  PROVE  Phased'
<1> USE DEF Phased, Scopes, PhaseAtStep, DeletionPhase, ActiveAtPhase, Unfinished, Terminal,
            Goto, files, root, Persist, Reviewing, Erasing, Started, Before, Undoing,
            JournalType
<1> Phased /\ journal \in JournalType /\ ActivationPhase
  BY DEF Kept, Typed, TypeOK, Safe
<1>1. CASE ValidateActive
  BY <1>1 DEF ValidateActive, StopServices, Scoped
<1>2. CASE WriteConfigs
  BY <1>2 DEF WriteConfigs, Scoped
<1>3. CASE FinishConfigs
  BY <1>3 DEF FinishConfigs, Scoped
<1>4. CASE WriteReady
  BY <1>4 DEF WriteReady, Scoped
<1>5. CASE LaunchSelected
  BY <1>5 DEF LaunchSelected, Scoped
<1>6. CASE CheckPasses
  BY <1>6 DEF CheckPasses, Scoped, ActivationPhase, ActivateSteps
<1>7. CASE StartFails
  BY <1>7 DEF StartFails, Scoped, ActivateSteps
<1>8. CASE TargetStartFailed
  BY <1>8 DEF TargetStartFailed, Scoped
<1>9. CASE UndoFailedStart
  BY <1>9 DEF UndoFailedStart, Scoped
<1>10. CASE RestoreFailed
  BY <1>10 DEF RestoreFailed, Scoped
<1> QED
  BY <1>1, <1>2, <1>3, <1>4, <1>5, <1>6, <1>7, <1>8, <1>9, <1>10

LEMMA PhasedRestore ==
  ASSUME Typed, Safe, Kept,
         \/ BeginRestore \/ RestoreStop \/ RestoreActive \/ PersistRestoring
         \/ PersistRolledBack \/ Recover \/ RecoverCommitted
  PROVE  Phased'
<1> USE DEF Phased, Scopes, PhaseAtStep, DeletionPhase, ActiveAtPhase, Unfinished, Terminal,
            Goto, files, root, Persist, Reviewing, Erasing, Started, Before, Undoing,
            JournalType
<1> Phased /\ journal \in JournalType
  BY DEF Kept, Typed, TypeOK
<1>1. CASE BeginRestore
  BY <1>1 DEF BeginRestore, Scoped
<1>2. CASE RestoreStop
  BY <1>2 DEF RestoreStop, StopServices, Scoped
<1>3. CASE RestoreActive
  BY <1>3 DEF RestoreActive, Scoped
<1>4. CASE PersistRestoring
  BY <1>4 DEF PersistRestoring, Scoped, Safe, UndoOnlyBefore
<1>5. CASE PersistRolledBack
  BY <1>5 DEF PersistRolledBack, Scoped
<1>6. CASE Recover
  BY <1>6 DEF Recover, Scoped, Safe, JournalConsistent
<1>7. CASE RecoverCommitted
  BY <1>7 DEF RecoverCommitted, Scoped
<1> QED
  BY <1>1, <1>2, <1>3, <1>4, <1>5, <1>6, <1>7

LEMMA PhasedEnvironment ==
  ASSUME Typed, Safe, Kept, Abort \/ Crash \/ ServiceStart \/ CoreExits
  PROVE  Phased'
<1> USE DEF Phased, Scopes, PhaseAtStep, DeletionPhase, ActiveAtPhase, Unfinished, Terminal,
            files, root, Reviewing, Scoped
<1> Phased
  BY DEF Kept
<1>1. CASE Abort
  BY <1>1 DEF Abort
<1>2. CASE Crash
  BY <1>2 DEF Crash
<1>3. CASE ServiceStart
  BY <1>3 DEF ServiceStart
<1>4. CASE CoreExits
  BY <1>4 DEF CoreExits
<1> QED
  BY <1>1, <1>2, <1>3, <1>4

-----------------------------------------------------------------------------
(* What the folders are marked with.                                       *)

LEMMA FolderTyped ==
  ASSUME NEW i \in Instances
  PROVE  Folder(i) \in Folders /\ Folder(i)[1] = i.network
BY DEF Instances, Folders, Folder

\* Marking a folder leaves what is registered elsewhere.
LEMMA MarkingKeeps ==
  ASSUME TypeOK, NEW f \in Folders, NEW m, marker' = [marker EXCEPT ![f] = m]
  PROVE  /\ marker'[f] = m
         /\ \A g \in Folders : g # f => marker'[g] = marker[g]
         /\ \A i \in Instances : Folder(i) # f => (Registered(i)' <=> Registered(i))
<1>1. marker'[f] = m /\ \A g \in Folders : g # f => marker'[g] = marker[g]
  BY DEF TypeOK
<1> QED
  BY <1>1, FolderTyped DEF Registered

LEMMA MarkedReview ==
  ASSUME Typed, Safe, Kept, Review \/ RememberPrevious
  PROVE  Marked'
<1> USE DEF Marked, MarkerAtPhase, MarkerAtReview, ProfilesKept, Unfinished, Terminal, Goto,
            files, root, Registered
<1> Marked
  BY DEF Kept
<1>1. ASSUME NEW v \in Versions, NEW n \in Networks, Preview(v, n)
      PROVE  Marked'
  BY <1>1 DEF Preview
<1>2. ASSUME NEW p \in previews, Discard(p)
      PROVE  Marked'
  BY <1>2 DEF Discard
<1>3. ASSUME NEW p \in previews, Apply(p)
      PROVE  Marked'
  BY <1>3 DEF Apply
<1>4. CASE RememberPrevious
  <2>1. plan.previous = active /\ plan.previous \in Instances \union {None}
        /\ (active # None => Registered(active))
    <3>1. plan.previous = active /\ ~Unfinished
      BY <1>4 DEF Kept, Phased, ActiveAtPhase, PhaseAtStep, RememberPrevious, Reviewing
    <3>2. journal.phase = "none" => active = None
      BY DEF Kept, Phased, ActiveAtPhase
    <3>3. active # None => Registered(active)
      BY <3>1, <3>2 DEF Kept, Booted, FinishedNodeBoots, StartPermitted, ProfileBound
    <3> QED
      BY <3>1, <3>3 DEF Typed, TypeOK
  <2>2. profiles' = IF plan.previous = None THEN profiles
                    ELSE [profiles EXCEPT ![plan.previous.network] = plan.previous]
    BY <1>4 DEF RememberPrevious, Remember
  <2>3. profiles \in [Networks -> Instances \union {None}]
    BY DEF Typed, TypeOK
  <2>4. ASSUME NEW n \in Networks, profiles'[n] # None
        PROVE  /\ profiles'[n].network = n
               /\ profiles'[n] = profiles[n] \/ Registered(profiles'[n])
    BY <2>1, <2>2, <2>3, <2>4 DEF Instances
  <2> QED
    BY <1>4, <2>4 DEF RememberPrevious
<1> QED
  BY <1>1, <1>2, <1>3, <1>4 DEF Review

LEMMA MarkedPrepare ==
  ASSUME Typed, Safe, Kept, Prepare \/ MarkNew
  PROVE  Marked'
<1> DEFINE t == plan.target
           f == Folder(t)
<1>1. /\ pc \in Reviewing /\ ~Unfinished /\ t \in Instances /\ f \in Folders
      /\ plan \in PreviewType /\ ~plan.reset
  <2>1. pc \in Reviewing
    BY DEF Prepare, MarkNew, Goto, Reviewing
  <2>2. plan \in PreviewType
    BY <2>1 DEF Typed, PlanHeld
  <2>3. ~plan.reset
    BY DEF Kept, Marked, MarkerAtReview, Prepare, MarkNew, Goto
  <2> QED
    BY <2>1, <2>2, <2>3, FolderTyped DEF Kept, Phased, PhaseAtStep, PreviewType
<1>2. /\ marker' = marker \/ marker' = [marker EXCEPT ![f] = t]
                          \/ marker' = [marker EXCEPT ![f] = Unmarked]
      /\ marker' # marker => marker[f] \in {None, Unmarked}
      /\ UNCHANGED <<journal, active, profiles>>
  BY DEF Prepare, MarkNew, Goto, Kept, Marked, MarkerAtReview
<1>3. \A i \in Instances : Registered(i) => Registered(i)'
  <2> SUFFICES ASSUME NEW i \in Instances, Registered(i), marker' # marker
               PROVE  Registered(i)'
    BY DEF Registered
  <2>1. Folder(i) # f
    BY <1>2, ConstantsAssumption DEF Registered
  <2> QED
    BY <1>1, <1>2, <2>1, MarkingKeeps DEF Typed
<1>4. ~Unfinished'
  BY <1>1, <1>2 DEF Unfinished
<1>5. ProfilesKept'
  <2>1. pc' # "starting" /\ journal.phase # "activating"
    BY <1>1 DEF Prepare, MarkNew, Goto, Unfinished, Terminal
  <2>2. \A n \in Networks : profiles[n] # None =>
          profiles[n].network = n /\ profiles[n] \in Instances /\ Registered(profiles[n])
    BY <2>1 DEF Kept, Marked, ProfilesKept, Typed, TypeOK
  <2> QED
    BY <1>2, <1>3, <2>1, <2>2 DEF ProfilesKept
<1>6. MarkerAtReview'
  <2>1. CASE Prepare
    BY <1>1, <2>1, MarkingKeeps DEF Prepare, MarkerAtReview, Registered, Typed
  <2>2. CASE MarkNew
    <3>1. marker'[f] = t
      BY <1>1, <2>2, MarkingKeeps DEF MarkNew, Typed
    <3> QED
      BY <1>1, <2>2, <3>1 DEF MarkNew, Goto, MarkerAtReview, Registered
  <2> QED
    BY <2>1, <2>2
<1> QED
  BY <1>4, <1>5, <1>6 DEF Marked, MarkerAtPhase

LEMMA MarkedStop ==
  ASSUME Typed, Safe, Kept,
         \/ Begin \/ Inhibit("guard_stop", "stop") \/ Stop \/ StopFails
         \/ Inhibit("guard_reset", "lock_scope")
         \/ Inhibit("guard_ready", "mark_target") \/ Release
  PROVE  Marked'
<1> USE DEF Marked, MarkerAtPhase, MarkerAtReview, ProfilesKept, Unfinished, Terminal, Goto,
            files, root, Registered
<1> Marked /\ journal \in JournalType
  BY DEF Kept, Typed, TypeOK
<1>1. CASE Begin
  <2>1. /\ plan.previous = active /\ ~Unfinished /\ Scoped(plan)
        /\ journal.phase = "none" => active = None
    BY <1>1 DEF Begin, Reviewing, Kept, Phased, ActiveAtPhase, PhaseAtStep, Scopes
  <2>2. active # None => Registered(active)
    BY <2>1 DEF Kept, Booted, FinishedNodeBoots, StartPermitted, ProfileBound
  <2>3. plan.reset => /\ plan.previous # None
                      /\ marker[Folder(plan.target)] = plan.previous
    BY <2>1, <2>2 DEF Scoped
  <2>4. ~plan.reset => /\ marker[Folder(plan.target)] = plan.target
                       /\ plan.previous # None => Registered(plan.previous)
    BY <1>1, <2>1, <2>2 DEF Begin
  <2>5. /\ journal' = [phase |-> "stopping", previous |-> plan.previous,
                       target |-> plan.target, reset |-> plan.reset,
                       deletion_started |-> FALSE]
        /\ pc' \in {"guard_stop", "stop"} /\ UNCHANGED <<marker, profiles>>
    BY <1>1 DEF Begin
  <2>6. MarkerAtPhase'
    BY <2>3, <2>4, <2>5 DEF Erasing, Started
  <2>7. MarkerAtReview'
    BY <2>5
  <2>8. ProfilesKept'
    BY <2>1, <2>5
  <2> QED
    BY <2>6, <2>7, <2>8
<1>2. CASE Inhibit("guard_stop", "stop")
  BY <1>2 DEF Inhibit
<1>3. CASE Stop
  <2>1. pc' = FinishStep /\ pc = "stop" /\ UNCHANGED files
    BY <1>3 DEF Stop, StopServices
  <2>2. pc' # "activate" \/ ~journal.reset
    BY <2>1 DEF FinishStep
  <2>3. pc' \notin {"remember_target", "starting", "mark_new", "prepare",
                    "remember_previous", "journal"}
    BY <2>1 DEF FinishStep
  <2> QED
    BY <2>1, <2>2, <2>3
<1>4. CASE StopFails
  BY <1>4 DEF StopFails, Persist, JournalType, Erasing, Started, Before, Undoing
<1>5. CASE Inhibit("guard_reset", "lock_scope")
  BY <1>5 DEF Inhibit
<1>6. CASE Inhibit("guard_ready", "mark_target")
  BY <1>6 DEF Inhibit
<1>7. CASE Release
  BY <1>7 DEF Release
<1> QED
  BY <1>1, <1>2, <1>3, <1>4, <1>5, <1>6, <1>7

LEMMA MarkedReset ==
  ASSUME Typed, Safe, Kept,
         \/ StartDeletion \/ LockScope \/ (\E e \in Entries : DeleteEntry(e))
         \/ ResetDone \/ ResetFails \/ ActivateTarget \/ PersistStarting
  PROVE  Marked'
<1> USE DEF Marked, MarkerAtPhase, MarkerAtReview, ProfilesKept, Unfinished, Terminal, Goto,
            files, root, Registered, Persist, JournalType, Erasing, Started, Before, Undoing
<1> Marked /\ journal \in JournalType /\ Phased
  BY DEF Kept, Typed, TypeOK
<1>1. CASE StartDeletion
  <2>1. journal.reset /\ journal.phase = "stopping"
    BY <1>1 DEF StartDeletion, Phased, PhaseAtStep
  <2> QED
    BY <1>1, <2>1 DEF StartDeletion
<1>2. CASE LockScope
  BY <1>2 DEF LockScope
<1>3. CASE \E e \in Entries : DeleteEntry(e)
  BY <1>3 DEF DeleteEntry
<1>4. CASE ResetDone
  <2>1. journal.reset /\ journal.phase \in Erasing
    BY <1>4 DEF ResetDone, Phased, PhaseAtStep
  <2> QED
    BY <1>4, <2>1 DEF ResetDone
<1>5. CASE ResetFails
  <2>1. journal.reset /\ journal.phase \in Erasing
    BY <1>5 DEF ResetFails, Phased, PhaseAtStep
  <2> QED
    BY <1>5, <2>1 DEF ResetFails
<1>6. CASE ActivateTarget
  BY <1>6 DEF ActivateTarget
<1>7. CASE PersistStarting
  <2>1. /\ journal.phase \notin Terminal \union {"none"}
        /\ journal.phase # "none"
        /\ marker[Folder(journal.target)] = journal.target
    BY <1>7 DEF PersistStarting, Phased, PhaseAtStep, Reviewing
  <2>2. journal.reset => journal.previous # journal.target
    BY <2>1 DEF Phased, Scopes, Scoped
  <2>3. journal' = [journal EXCEPT !.phase = "starting"] /\ pc' = "validate_active"
        /\ profiles[journal.target.network] = journal.target
        /\ UNCHANGED <<profiles, marker>>
    BY <1>7 DEF PersistStarting
  <2>4. \A n \in Networks : profiles[n] # None => Registered(profiles[n])
    <3> SUFFICES ASSUME NEW n \in Networks, profiles[n] # None, ~Registered(profiles[n])
                 PROVE  FALSE
      OBVIOUS
    <3>1. journal.phase = "activating" /\ n = journal.target.network
          /\ profiles[n] = journal.previous
      OBVIOUS
    <3>2. journal.reset
      BY <2>1, <3>1 DEF Phased, PhaseAtStep, DeletionPhase, Safe, JournalConsistent
    <3> QED
      BY <2>2, <2>3, <3>1, <3>2
  <2>5. MarkerAtPhase'
    <3>1. ~journal.reset => (journal.previous # None => Registered(journal.previous))
      BY <2>1
    <3> QED
      BY <2>1, <2>3, <3>1
  <2> QED
    BY <2>3, <2>4, <2>5
<1> QED
  BY <1>1, <1>2, <1>3, <1>4, <1>5, <1>6, <1>7

\* The target is whole where it is marked, activated and remembered.
LEMMA TargetAtStep ==
  ASSUME Typed, Safe, Kept,
         pc \in {"mark_target", "activate", "remember_target", "starting"}
  PROVE  /\ journal.target \in Instances /\ Folder(journal.target) \in Folders
         /\ Unfinished /\ Scoped(journal)
         /\ journal.previous \in Instances \union {None}
<1>1. journal.phase # "none" /\ journal.target \in Instances
  BY DEF Typed, TargetNamed, Reviewing
<1>2. Unfinished /\ Scoped(journal)
  BY <1>1 DEF Kept, Phased, PhaseAtStep, Reviewing, Scopes
<1> QED
  BY <1>1, <1>2, FolderTyped DEF Typed, TypeOK, JournalType

LEMMA MarkedTarget ==
  ASSUME Typed, Safe, Kept, MarkTarget
  PROVE  Marked'
<1> DEFINE t == journal.target
           f == Folder(t)
<1>1. /\ pc = "mark_target" /\ pc' = "activate"
      /\ marker' = [marker EXCEPT ![f] = t] /\ UNCHANGED <<journal, profiles, plan>>
  BY DEF MarkTarget, Goto
<1>2. t \in Instances /\ f \in Folders /\ Unfinished /\ Scoped(journal)
  BY <1>1, TargetAtStep
<1>3. /\ journal.reset /\ journal.phase \in {"activating"} \union Started
      /\ marker[f] \in {journal.previous, t}
      /\ journal.phase \in Started => marker[f] = t
  BY <1>1, <1>2 DEF Kept, Phased, PhaseAtStep, Marked, MarkerAtPhase
<1>4. marker'[f] = t /\ \A i \in Instances : Folder(i) # f => (Registered(i)' <=> Registered(i))
  BY <1>1, <1>2, MarkingKeeps DEF Typed
<1>5. MarkerAtPhase'
  BY <1>1, <1>3, <1>4 DEF MarkerAtPhase, Unfinished, Erasing, Before, Undoing, Started
<1>6. MarkerAtReview'
  BY <1>1 DEF MarkerAtReview
<1>7. ProfilesKept'
  <2>1. ASSUME NEW n \in Networks, profiles[n] # None
        PROVE  \/ Registered(profiles[n])'
               \/ /\ journal.phase = "activating" /\ n = t.network
                  /\ profiles[n] = journal.previous
    <3>1. /\ profiles[n] \in Instances /\ profiles[n].network = n
          /\ \/ Registered(profiles[n])
             \/ /\ journal.phase = "activating" /\ n = t.network
                /\ profiles[n] = journal.previous
      BY <2>1 DEF Kept, Marked, ProfilesKept, Typed, TypeOK
    <3>2. CASE Registered(profiles[n]) /\ Folder(profiles[n]) # f
      BY <1>1, <1>4, <3>1, <3>2 DEF Registered
    <3>3. CASE Registered(profiles[n]) /\ Folder(profiles[n]) = f
      <4>1. profiles[n] \in {journal.previous, t} /\ n = t.network
        <5>1. Folder(profiles[n])[1] = n /\ f[1] = t.network
          BY <1>2, <3>1, FolderTyped
        <5> QED
          BY <1>3, <3>3, <5>1 DEF Registered
      <4>2. CASE profiles[n] = t
        BY <1>1, <1>4, <4>2 DEF Registered
      <4>3. CASE profiles[n] # t
        <5>1. marker[f] # t /\ journal.phase = "activating"
          BY <1>3, <3>3, <4>3 DEF Registered
        <5> QED
          BY <4>1, <4>3, <5>1
      <4> QED
        BY <4>2, <4>3
    <3> QED
      BY <3>1, <3>2, <3>3
  <2>2. \A n \in Networks : profiles[n] # None => profiles[n].network = n
    BY DEF Kept, Marked, ProfilesKept
  <2> QED
    BY <1>1, <1>4, <2>1, <2>2 DEF ProfilesKept, Registered
<1> QED
  BY <1>5, <1>6, <1>7 DEF Marked

LEMMA MarkedRemember ==
  ASSUME Typed, Safe, Kept, RememberTarget
  PROVE  Marked'
<1> DEFINE t == journal.target
<1>1. /\ pc = "remember_target" /\ pc' = "starting"
      /\ profiles' = IF t = None THEN profiles ELSE [profiles EXCEPT ![t.network] = t]
      /\ UNCHANGED <<journal, marker, plan>>
  BY DEF RememberTarget, Remember, Goto
<1>2. t \in Instances /\ t # None /\ t.network \in Networks /\ Unfinished
  BY <1>1, TargetAtStep, ConstantsAssumption DEF Instances
<1>3. Registered(t)
  BY <1>1, <1>2 DEF Kept, Marked, MarkerAtPhase, Registered
<1>4. profiles' = [profiles EXCEPT ![t.network] = t]
      /\ profiles \in [Networks -> Instances \union {None}]
  BY <1>1, <1>2 DEF Typed, TypeOK
<1>5. profiles'[t.network] = t /\ \A n \in Networks : n # t.network => profiles'[n] = profiles[n]
  BY <1>2, <1>4
<1>6. ProfilesKept'
  BY <1>1, <1>3, <1>5 DEF Kept, Marked, ProfilesKept, Registered
<1>7. MarkerAtPhase' /\ MarkerAtReview'
  BY <1>1 DEF Kept, Marked, MarkerAtPhase, MarkerAtReview, Unfinished, Registered
<1> QED
  BY <1>6, <1>7 DEF Marked

LEMMA MarkedStart ==
  ASSUME Typed, Safe, Kept,
         \/ ValidateActive \/ WriteConfigs \/ FinishConfigs \/ WriteReady
         \/ LaunchSelected \/ CheckPasses \/ StartFails \/ TargetStartFailed
         \/ UndoFailedStart \/ RestoreFailed
  PROVE  Marked'
<1> USE DEF Marked, MarkerAtPhase, MarkerAtReview, ProfilesKept, Unfinished, Terminal, Goto,
            files, root, Registered, Persist, JournalType, Erasing, Started, Before, Undoing
<1> Marked /\ journal \in JournalType /\ ActivationPhase
  BY DEF Kept, Typed, TypeOK, Safe
<1>1. CASE ValidateActive
  BY <1>1 DEF ValidateActive, StopServices
<1>2. CASE WriteConfigs
  BY <1>2 DEF WriteConfigs
<1>3. CASE FinishConfigs
  BY <1>3 DEF FinishConfigs
<1>4. CASE WriteReady
  BY <1>4 DEF WriteReady
<1>5. CASE LaunchSelected
  BY <1>5 DEF LaunchSelected
<1>6. CASE CheckPasses
  <2>1. journal.phase # "activating"
    BY <1>6 DEF CheckPasses, ActivationPhase, ActivateSteps
  <2>2. pc' \notin {"mark_new", "prepare", "remember_previous", "journal", "starting"}
        /\ journal'.phase \in Terminal /\ UNCHANGED <<marker, profiles>>
    BY <1>6 DEF CheckPasses
  <2> QED
    BY <2>1, <2>2
<1>7. CASE StartFails
  BY <1>7 DEF StartFails
<1>8. CASE TargetStartFailed
  BY <1>8 DEF TargetStartFailed
<1>9. CASE UndoFailedStart
  BY <1>9 DEF UndoFailedStart
<1>10. CASE RestoreFailed
  BY <1>10 DEF RestoreFailed
<1> QED
  BY <1>1, <1>2, <1>3, <1>4, <1>5, <1>6, <1>7, <1>8, <1>9, <1>10

LEMMA MarkedRestore ==
  ASSUME Typed, Safe, Kept,
         \/ BeginRestore \/ RestoreStop \/ RestoreActive \/ PersistRestoring
         \/ PersistRolledBack \/ Recover \/ RecoverCommitted
  PROVE  Marked'
<1> USE DEF Marked, MarkerAtPhase, MarkerAtReview, ProfilesKept, Unfinished, Terminal, Goto,
            files, root, Registered, Persist, JournalType, Erasing, Started, Before, Undoing
<1> Marked /\ journal \in JournalType /\ Phased
  BY DEF Kept, Typed, TypeOK
<1>1. CASE BeginRestore
  <2>1. /\ journal.phase \in Before \union {"starting"}
        /\ journal.reset => journal.phase \in Before
    BY <1>1 DEF BeginRestore, Phased, DeletionPhase, PhaseAtStep, Reviewing
  <2> QED
    BY <1>1, <2>1 DEF BeginRestore
<1>2. CASE RestoreStop
  BY <1>2 DEF RestoreStop, StopServices
<1>3. CASE RestoreActive
  BY <1>3 DEF RestoreActive
<1>4. CASE PersistRestoring
  BY <1>4 DEF PersistRestoring, Phased, PhaseAtStep
<1>5. CASE PersistRolledBack
  BY <1>5 DEF PersistRolledBack, Phased, PhaseAtStep
<1>6. CASE Recover
  BY <1>6 DEF Recover
<1>7. CASE RecoverCommitted
  BY <1>7 DEF RecoverCommitted
<1> QED
  BY <1>1, <1>2, <1>3, <1>4, <1>5, <1>6, <1>7

LEMMA MarkedEnvironment ==
  ASSUME Typed, Safe, Kept, Abort \/ Crash \/ ServiceStart \/ CoreExits
  PROVE  Marked'
<1> USE DEF Marked, MarkerAtPhase, MarkerAtReview, ProfilesKept, Unfinished, files, root,
            Registered
<1> Marked
  BY DEF Kept
<1>1. CASE Abort
  BY <1>1 DEF Abort
<1>2. CASE Crash
  BY <1>2 DEF Crash
<1>3. CASE ServiceStart
  BY <1>3 DEF ServiceStart
<1>4. CASE CoreExits
  BY <1>4 DEF CoreExits
<1> QED
  BY <1>1, <1>2, <1>3, <1>4

-----------------------------------------------------------------------------
(* What the gate lets start.                                               *)

\* The registered instance of a folder stays registered while others are prepared.
LEMMA BootedReview ==
  ASSUME Typed, Safe, Kept, Review \/ Prepare \/ MarkNew \/ RememberPrevious \/ Begin
  PROVE  Booted'
<1>1. /\ pc \in {"idle"} \union Reviewing
      /\ pc' \in {"idle", "guard_stop", "stop"} \union Reviewing
      /\ UNCHANGED <<active, root>>
  BY DEF Review, Preview, Discard, Apply, Prepare, MarkNew, RememberPrevious, Begin, Goto,
     Reviewing, files
<1>2. Gated'
  BY <1>1 DEF Gated, Reviewing, Rendering
<1>3. (journal'.phase \in Terminal /\ active' # None) => StartPermitted'
  <2> SUFFICES ASSUME journal'.phase \in Terminal, active' # None
               PROVE  StartPermitted'
    OBVIOUS
  <2>1. ~Begin /\ UNCHANGED journal
    BY DEF Review, Preview, Discard, Apply, Prepare, MarkNew, RememberPrevious, Begin, files,
       Terminal
  <2>2. StartPermitted
    BY <1>1, <2>1 DEF Kept, Booted, FinishedNodeBoots
  <2>3. Registered(ready.instance) /\ ready.instance \in Instances
    BY <2>2 DEF StartPermitted, ProfileBound, Typed, TypeOK, ReadyType
  <2>4. Registered(ready.instance)'
    <3>1. CASE UNCHANGED marker
      BY <1>1, <2>3, <3>1 DEF Registered, root
    <3>2. CASE Prepare \/ MarkNew
      <4> DEFINE f == Folder(plan.target)
      <4>1. f \in Folders
        BY <3>2, FolderTyped DEF Prepare, MarkNew, Goto, Typed, PlanHeld, Reviewing,
           PreviewType
      <4>2. /\ marker' = marker \/ \E m : marker' = [marker EXCEPT ![f] = m]
            /\ marker' # marker => marker[f] \in {None, Unmarked}
        BY <3>2 DEF Prepare, MarkNew, Goto, Kept, Marked, MarkerAtReview
      <4>3. marker' # marker => Folder(ready.instance) # f
        BY <2>3, <4>2, ConstantsAssumption DEF Registered
      <4> QED
        BY <1>1, <2>3, <4>1, <4>2, <4>3, MarkingKeeps DEF Registered, Typed, root
    <3> QED
      BY <2>1, <3>1, <3>2 DEF Review, Preview, Discard, Apply, RememberPrevious, files
  <2> QED
    BY <1>1, <2>1, <2>2, <2>4
       DEF StartPermitted, JournalPermits, GuardPermits, ProfileBound, root
<1> QED
  BY <1>2, <1>3 DEF Booted, FinishedNodeBoots

LEMMA BootedStop ==
  ASSUME Typed, Safe, Kept,
         \/ Inhibit("guard_stop", "stop") \/ Stop \/ StopFails
         \/ Inhibit("guard_reset", "lock_scope")
         \/ Inhibit("guard_ready", "mark_target") \/ Release
  PROVE  Booted'
<1> USE DEF Gated, FinishedNodeBoots, Rendering, Reviewing, Unfinished, Goto
<1> Gated /\ FinishedNodeBoots /\ PhaseAtStep /\ journal \in JournalType
  BY DEF Kept, Booted, Phased, Typed, TypeOK
<1>1. ASSUME NEW from, NEW to, Inhibit(from, to),
             <<from, to>> \in {<<"guard_stop", "stop">>, <<"guard_reset", "lock_scope">>,
                               <<"guard_ready", "mark_target">>}
      PROVE  Booted'
  <2>1. pc' \in {"stop", "lock_scope", "mark_target", "idle"} /\ Unfinished /\ Unfinished'
    BY <1>1 DEF Inhibit, PhaseAtStep, files
  <2> QED
    BY <2>1 DEF Booted
<1>2. CASE Stop
  <2>1. pc' \in {"activate", "validate_scope", "guard_reset", "guard_ready", "mark_target"}
        /\ Unfinished'
    BY <1>2 DEF Stop, StopServices, FinishStep, PhaseAtStep, files
  <2> QED
    BY <2>1 DEF Booted
<1>3. CASE StopFails
  <2>1. pc' = "idle" \/ (pc' = "release" /\ journal'.phase = "stop_failed")
    BY <1>3 DEF StopFails, Persist, JournalType
  <2>2. Unfinished'
    BY <1>3 DEF StopFails, Persist, JournalType, PhaseAtStep, Terminal
  <2> QED
    BY <2>1, <2>2 DEF Booted
<1>4. CASE Release
  <2>1. /\ pc = "release" /\ UNCHANGED <<files, config, ready, procs>>
        /\ guard' \in {NoGuard, guard}
        /\ pc' = "idle" \/ (pc' = "restoring" /\ journal.phase = "recovering")
    BY <1>4 DEF Release
  <2>2. Gated'
    BY <2>1 DEF procs
  <2>3. StartPermitted => StartPermitted'
    BY <2>1 DEF StartPermitted, JournalPermits, GuardPermits, ProfileBound, Registered, files,
       NoGuard
  <2> QED
    BY <2>1, <2>2, <2>3 DEF Booted, files
<1> QED
  BY <1>1, <1>2, <1>3, <1>4

LEMMA BootedReset ==
  ASSUME Typed, Safe, Kept,
         \/ StartDeletion \/ LockScope \/ (\E e \in Entries : DeleteEntry(e))
         \/ ResetDone \/ ResetFails \/ MarkTarget \/ ActivateTarget
         \/ RememberTarget \/ PersistStarting
  PROVE  Booted'
<1>1. journal \in JournalType /\ Unfinished
  BY DEF Typed, TypeOK, Kept, Phased, PhaseAtStep, Reviewing, StartDeletion, LockScope,
     DeleteEntry, ResetDone, ResetFails, MarkTarget, ActivateTarget, RememberTarget,
     PersistStarting, Goto
<1>2. pc' \in {"guard_reset", "delete", "guard_ready", "idle", "activate",
               "remember_target", "starting", "validate_active"}
  BY DEF StartDeletion, LockScope, DeleteEntry, ResetDone, ResetFails, MarkTarget,
     ActivateTarget, RememberTarget, PersistStarting, Goto
<1>3. Unfinished'
  BY <1>1 DEF Unfinished, Terminal, JournalType, StartDeletion, LockScope, DeleteEntry,
     ResetDone, ResetFails, MarkTarget, ActivateTarget, RememberTarget, PersistStarting,
     Persist, files
<1> QED
  BY <1>2, <1>3 DEF Booted, Gated, FinishedNodeBoots, Rendering, Unfinished

LEMMA BootedStart ==
  ASSUME Typed, Safe, Kept,
         \/ ValidateActive \/ WriteConfigs \/ FinishConfigs \/ WriteReady
         \/ LaunchSelected \/ StartFails \/ TargetStartFailed
         \/ UndoFailedStart \/ RestoreFailed
  PROVE  Booted'
<1> USE DEF Gated, FinishedNodeBoots, Rendering, Reviewing, Unfinished, Goto
<1>1. journal \in JournalType /\ Unfinished
  BY DEF Typed, TypeOK, Kept, Phased, PhaseAtStep, ActivateSteps, ValidateActive,
     StopServices, WriteConfigs, FinishConfigs, WriteReady, LaunchSelected, StartFails,
     TargetStartFailed,
     UndoFailedStart, RestoreFailed
<1>2. Unfinished'
  BY <1>1 DEF Terminal, JournalType, ValidateActive, StopServices, WriteConfigs, FinishConfigs,
     WriteReady, LaunchSelected, StartFails, TargetStartFailed, UndoFailedStart,
     RestoreFailed, Persist, files
<1>3. Gated
  BY DEF Kept, Booted
<1>4. CASE ValidateActive
  BY <1>2, <1>4 DEF ValidateActive, StopServices, Booted
<1>5. CASE WriteConfigs \/ FinishConfigs \/ WriteReady
  BY <1>2, <1>3, <1>5 DEF WriteConfigs, FinishConfigs, WriteReady, Booted, procs
<1>6. CASE LaunchSelected
  <2>1. pc = "launch" /\ pc' = "check" /\ core = None /\ UNCHANGED <<files, root>>
    BY <1>3, <1>6 DEF LaunchSelected
  <2>2. core' # None => StartPermitted
    BY <1>6, <2>1 DEF LaunchSelected, Launch
  <2>3. StartPermitted => StartPermitted'
    BY <2>1 DEF StartPermitted, JournalPermits, GuardPermits, ProfileBound, Registered, files,
       root
  <2> QED
    BY <1>2, <2>1, <2>2, <2>3 DEF Booted
<1>7. CASE StartFails \/ TargetStartFailed \/ UndoFailedStart \/ RestoreFailed
  <2>1. pc' \in {"start_failed", "idle", "restore"}
    BY <1>7 DEF StartFails, TargetStartFailed, UndoFailedStart, RestoreFailed
  <2> QED
    BY <1>2, <2>1 DEF Booted
<1> QED
  BY <1>4, <1>5, <1>6, <1>7

\* A check that passes is of a Core that the gate let start, and lets start again.
LEMMA BootedCheck ==
  ASSUME Typed, Safe, Kept, CheckPasses
  PROVE  Booted'
<1>1. /\ pc = "check" /\ core = Selected
      /\ pc' \in {"idle", "release"} /\ (pc' = "release" => journal'.phase = "committed")
      /\ journal' = [journal EXCEPT !.phase = IF journal.phase = "starting"
                                                THEN "committed" ELSE "rolled_back"]
      /\ UNCHANGED <<active, marker, root, procs>>
  BY DEF CheckPasses, Persist, Typed, TypeOK, JournalType
<1>2. journal \in JournalType /\ journal.phase \in {"starting", "restoring_previous"}
  BY <1>1 DEF Typed, TypeOK, Safe, ActivationPhase, ActivateSteps
<1>3. journal'.phase \in Terminal
      /\ (journal'.phase = "committed" <=> journal.phase = "starting")
      /\ journal'.reset = journal.reset
  BY <1>1, <1>2 DEF JournalType, Terminal
<1>4. Gated'
  BY <1>1, <1>3 DEF Gated, Rendering
<1>5. ASSUME active' # None PROVE StartPermitted'
  <2>1. core # None
    BY <1>1, <1>2, <1>5 DEF Selected, Kept, Phased, ActiveAtPhase, Started
  <2>2. StartPermitted
    BY <1>1, <2>1 DEF Kept, Booted, Gated
  <2>3. JournalPermits'
    BY <1>3 DEF JournalPermits, Terminal
  <2>4. GuardPermits'
    BY <1>1, <1>2, <1>3, <2>2 DEF StartPermitted, GuardPermits, root
  <2>5. ProfileBound'
    BY <1>1, <2>2 DEF StartPermitted, ProfileBound, Registered, root
  <2> QED
    BY <2>3, <2>4, <2>5 DEF StartPermitted
<1> QED
  BY <1>4, <1>5 DEF Booted, FinishedNodeBoots

LEMMA BootedRestore ==
  ASSUME Typed, Safe, Kept,
         \/ BeginRestore \/ RestoreStop \/ RestoreActive \/ PersistRestoring
         \/ PersistRolledBack \/ Recover \/ RecoverCommitted
  PROVE  Booted'
<1> USE DEF Gated, FinishedNodeBoots, Rendering, Reviewing, Unfinished, Goto
<1> Gated /\ FinishedNodeBoots /\ PhaseAtStep /\ ActiveAtPhase /\ journal \in JournalType
  BY DEF Kept, Booted, Phased, Typed, TypeOK
<1>1. CASE BeginRestore
  BY <1>1 DEF BeginRestore, Persist, JournalType, Terminal, Booted
<1>2. CASE RestoreStop
  BY <1>2 DEF RestoreStop, StopServices, PhaseAtStep, files, Booted
<1>3. CASE RestoreActive
  <2>1. pc' \in {"rolled_back", "release", "restoring"} /\ core' = None /\ ~wanted'
        /\ Unfinished'
    BY <1>3 DEF RestoreActive, PhaseAtStep, procs
  <2> QED
    BY <2>1 DEF Booted
<1>4. CASE PersistRestoring
  BY <1>4 DEF PersistRestoring, Persist, JournalType, Terminal, Booted
<1>5. CASE PersistRolledBack
  BY <1>5 DEF PersistRolledBack, ActiveAtPhase, Booted
<1>6. CASE Recover
  BY <1>6 DEF Recover, files, Booted
<1>7. CASE RecoverCommitted
  <2>1. StartPermitted => StartPermitted'
    BY <1>7 DEF RecoverCommitted, StartPermitted, JournalPermits, GuardPermits, ProfileBound,
       Registered, files, root
  <2> QED
    BY <1>7, <2>1 DEF RecoverCommitted, files, Booted
<1> QED
  BY <1>1, <1>2, <1>3, <1>4, <1>5, <1>6, <1>7

LEMMA BootedEnvironment ==
  ASSUME Typed, Safe, Kept, Abort \/ Crash \/ ServiceStart \/ CoreExits
  PROVE  Booted'
<1>1. UNCHANGED <<files, root>>
  BY DEF Abort, Crash, ServiceStart, CoreExits
<1>2. StartPermitted' <=> StartPermitted
  BY <1>1 DEF StartPermitted, JournalPermits, GuardPermits, ProfileBound, Registered, files,
     root
<1>3. FinishedNodeBoots'
  BY <1>1, <1>2 DEF FinishedNodeBoots, Kept, Booted, files
<1>4. Gated'
  <2>1. CASE Abort \/ Crash
    BY <2>1 DEF Abort, Crash, Gated, Rendering
  <2>2. CASE ServiceStart
    BY <1>1, <1>2, <2>2 DEF ServiceStart, Launch, Kept, Booted, Gated, files
  <2>3. CASE CoreExits
    BY <1>1, <1>2, <2>3 DEF CoreExits, Kept, Booted, Gated, files
  <2> QED
    BY <2>1, <2>2, <2>3
<1> QED
  BY <1>3, <1>4 DEF Booted

-----------------------------------------------------------------------------
(* What the chain in a folder was written by.                              *)

\* The deletion under way stays the deletion under way, and no other begins to activate.
Onward ==
  /\ (journal.deletion_started /\ journal.phase \in Erasing) =>
       /\ journal'.deletion_started /\ journal'.phase \in Erasing
       /\ journal'.target = journal.target
  /\ journal'.phase = "activating" =>
       journal.phase = "activating" /\ journal'.previous = journal.previous

LEMMA ChainStays ==
  ASSUME Kept, Onward, UNCHANGED <<chain, marker>>
  PROVE  ChainKept'
BY DEF Kept, ChainKept, OwnChain, ScopeEmpty, Registered, Onward

\* Outside a deletion a folder is empty or its own version's.
LEMMA SettledChain ==
  ASSUME Kept, journal.phase \notin Erasing, NEW f \in Folders
  PROVE  OwnChain(f)
BY DEF Kept, ChainKept

\* The gate never lets Core start while a reset deletes or has not been marked.
LEMMA LaunchPhase ==
  ASSUME Typed, Safe, Kept, JournalPermits
  PROVE  journal.phase \notin Erasing \union {"activating"}
BY DEF JournalPermits, Kept, Phased, DeletionPhase, Unfinished, Terminal, Erasing, Started,
   Before, Undoing, Safe, JournalConsistent

LEMMA ChainLaunch ==
  ASSUME Typed, Safe, Kept, Launch, UNCHANGED <<journal, marker>>
  PROVE  ChainKept'
<1> DEFINE i == ready.instance
<1>1. i \in Instances /\ Registered(i) /\ journal.phase \notin Erasing \union {"activating"}
  BY LaunchPhase DEF Launch, StartPermitted, ProfileBound, Typed, TypeOK, ReadyType
<1>2. Folder(i) \in Folders
  BY <1>1, FolderTyped
<1>3. \A f \in Folders : chain'[f] = IF f = Folder(i) THEN [e \in Entries |-> i.version]
                                                     ELSE chain[f]
  BY <1>2 DEF Launch, Typed, TypeOK
<1>4. ASSUME NEW f \in Folders PROVE OwnChain(f)'
  <2>1. CASE f = Folder(i)
    BY <1>1, <1>3, <2>1 DEF OwnChain, Registered
  <2>2. CASE f # Folder(i)
    BY <1>1, <1>3, <2>2, SettledChain DEF OwnChain, ScopeEmpty
  <2> QED
    BY <2>1, <2>2
<1> QED
  BY <1>1, <1>4 DEF ChainKept

LEMMA ChainReview ==
  ASSUME Typed, Safe, Kept, Review \/ Prepare \/ MarkNew \/ RememberPrevious \/ Begin
  PROVE  ChainKept'
<1> USE DEF Onward, Erasing
<1>1. CASE Review
  BY <1>1, ChainStays DEF Review, Preview, Discard, Apply, files
<1>2. CASE RememberPrevious
  BY <1>2, ChainStays DEF RememberPrevious
<1>3. CASE Begin
  <2>1. ~Unfinished
    BY <1>3 DEF Begin, Kept, Phased, PhaseAtStep, Reviewing
  <2> QED
    BY <1>3, <2>1, ChainStays DEF Begin, Unfinished, Terminal
<1>4. CASE Prepare \/ MarkNew
  <2> DEFINE f == Folder(plan.target)
  <2>1. ~Unfinished /\ plan.target \in Instances /\ UNCHANGED <<journal, chain>>
    BY <1>4 DEF Prepare, MarkNew, Goto, Kept, Phased, PhaseAtStep, Reviewing, Typed, PlanHeld,
       PreviewType
  <2>2. CASE UNCHANGED marker
    BY <2>1, <2>2, ChainStays
  <2>3. CASE \E m : marker' = [marker EXCEPT ![f] = m] /\ marker[f] \in {None, Unmarked}
    <3>1. f \in Folders
      BY <2>1, FolderTyped
    <3>2. \A g \in Folders : g # f => marker'[g] = marker[g]
      BY <2>3, <3>1 DEF Typed, TypeOK
    <3>3. \A g \in Folders : OwnChain(g)
      BY <2>1, SettledChain DEF Unfinished, Terminal
    <3>4. ScopeEmpty(f)
      BY <2>3, <3>1, <3>3, ConstantsAssumption DEF OwnChain
    <3>5. \A g \in Folders : OwnChain(g)'
      BY <2>1, <3>2, <3>3, <3>4 DEF OwnChain, ScopeEmpty
    <3> QED
      BY <2>1, <3>5 DEF ChainKept, Unfinished, Terminal
  <2> QED
    BY <1>4, <2>2, <2>3 DEF Prepare, MarkNew, Goto, Kept, Marked, MarkerAtReview
<1> QED
  BY <1>1, <1>2, <1>3, <1>4

LEMMA ChainStop ==
  ASSUME Typed, Safe, Kept,
         \/ Inhibit("guard_stop", "stop") \/ Stop \/ StopFails
         \/ Inhibit("guard_reset", "lock_scope")
         \/ Inhibit("guard_ready", "mark_target") \/ Release
  PROVE  ChainKept'
<1>1. UNCHANGED <<chain, marker>>
  BY DEF Inhibit, Stop, StopServices, StopFails, Release, files
<1>2. Onward
  BY DEF Inhibit, Stop, StopServices, StopFails, Release, files, Persist, Onward, Erasing,
     Typed, TypeOK, JournalType
<1> QED
  BY <1>1, <1>2, ChainStays

LEMMA ChainReset ==
  ASSUME Typed, Safe, Kept,
         \/ StartDeletion \/ LockScope \/ (\E e \in Entries : DeleteEntry(e))
         \/ ResetDone \/ ResetFails
  PROVE  ChainKept'
<1> USE DEF Goto, Erasing
<1>1. journal \in JournalType
  BY DEF Typed, TypeOK
<1>2. CASE StartDeletion \/ LockScope \/ ResetFails
  <2>1. Onward /\ UNCHANGED <<chain, marker>>
    BY <1>1, <1>2 DEF StartDeletion, LockScope, ResetFails, Persist, files, Onward, JournalType
  <2> QED
    BY <2>1, ChainStays
<1>3. CASE \E e \in Entries : DeleteEntry(e)
  <2> DEFINE f == Folder(journal.target)
  <2>1. journal.deletion_started /\ journal.phase \in Erasing /\ UNCHANGED <<journal, marker>>
    BY <1>3 DEF DeleteEntry, Safe, WrittenAhead, Kept, Phased, PhaseAtStep, files
  <2>2. \A g \in Folders : g # f => chain'[g] = chain[g]
    BY <1>3 DEF DeleteEntry, Typed, TypeOK
  <2>3. ASSUME NEW g \in Folders, g # f PROVE OwnChain(g)'
    BY <2>1, <2>2, <2>3 DEF Kept, ChainKept, OwnChain, ScopeEmpty
  <2> QED
    BY <2>1, <2>3 DEF ChainKept
<1>4. CASE ResetDone
  <2>1. journal.deletion_started /\ journal.reset /\ ScopeEmpty(Folder(journal.target))
        /\ UNCHANGED <<marker, chain>>
    BY <1>4 DEF ResetDone, Safe, WrittenAhead
  <2>2. Folder(journal.previous) = Folder(journal.target)
        /\ journal' = [journal EXCEPT !.phase = "activating"]
    BY <1>4, <2>1 DEF ResetDone, Persist, Kept, Phased, Scopes, Scoped, PhaseAtStep
  <2>3. \A g \in Folders : OwnChain(g)
    BY <2>1 DEF Kept, ChainKept, OwnChain
  <2>4. \A g \in Folders : OwnChain(g)'
    BY <2>1, <2>3 DEF OwnChain, ScopeEmpty
  <2> QED
    BY <1>1, <2>1, <2>2, <2>4 DEF ChainKept, ScopeEmpty, JournalType
<1> QED
  BY <1>2, <1>3, <1>4

LEMMA ChainTarget ==
  ASSUME Typed, Safe, Kept,
         MarkTarget \/ ActivateTarget \/ RememberTarget \/ PersistStarting
  PROVE  ChainKept'
<1> USE DEF Goto, Erasing
<1>1. CASE ActivateTarget \/ RememberTarget \/ PersistStarting
  <2>1. Onward /\ UNCHANGED <<chain, marker>>
    BY <1>1 DEF ActivateTarget, RememberTarget, PersistStarting, Persist, Onward, Typed, TypeOK,
       JournalType, Kept, Phased, PhaseAtStep, Started
  <2> QED
    BY <2>1, ChainStays
<1>2. CASE MarkTarget
  <2> DEFINE t == journal.target
             f == Folder(t)
  <2>1. /\ journal.reset /\ journal.phase \in {"activating"} \union Started
        /\ t \in Instances /\ f \in Folders /\ UNCHANGED <<journal, chain>>
    BY <1>2, FolderTyped DEF MarkTarget, Kept, Phased, PhaseAtStep, Typed, TargetNamed, Reviewing
  <2>2. f = Folder(journal.previous) /\ journal.previous # t
    BY <2>1 DEF Kept, Phased, Scopes, Scoped, Started
  <2>3. /\ marker'[f] = t
        /\ \A g \in Folders : g # f => marker'[g] = marker[g]
    BY <1>2, <2>1, MarkingKeeps DEF MarkTarget, Typed
  <2>4. \A g \in Folders : OwnChain(g)
    BY <2>1, SettledChain DEF Started
  <2>5. \/ marker[f] = t
        \/ journal.phase = "activating" /\ marker[f] = journal.previous
    BY <2>1 DEF Kept, Marked, MarkerAtPhase, Phased, Unfinished, Terminal, Started
  <2>6. marker[f] # t => ScopeEmpty(f)
    BY <2>2, <2>5 DEF Kept, ChainKept, Registered
  <2>7. ASSUME NEW g \in Folders PROVE OwnChain(g)'
    <3>1. OwnChain(g)
      BY <2>4
    <3>2. CASE g = f /\ marker[f] # t
      BY <2>1, <2>6, <3>2 DEF OwnChain, ScopeEmpty
    <3>3. CASE g # f \/ marker[f] = t
      BY <2>1, <2>3, <3>1, <3>3 DEF OwnChain, ScopeEmpty
    <3> QED
      BY <3>2, <3>3
  <2>8. ~Registered(journal.previous)'
    BY <2>1, <2>2, <2>3 DEF Registered
  <2> QED
    BY <2>1, <2>7, <2>8 DEF ChainKept
<1> QED
  BY <1>1, <1>2

LEMMA ChainStart ==
  ASSUME Typed, Safe, Kept,
         \/ ValidateActive \/ WriteConfigs \/ FinishConfigs \/ WriteReady
         \/ LaunchSelected \/ CheckPasses \/ StartFails \/ TargetStartFailed
         \/ UndoFailedStart \/ RestoreFailed
  PROVE  ChainKept'
<1>1. CASE LaunchSelected /\ Launch
  BY <1>1, ChainLaunch DEF LaunchSelected, files
<1>2. CASE ~(LaunchSelected /\ Launch)
  <2>1. UNCHANGED <<chain, marker>>
    BY <1>2 DEF ValidateActive, StopServices, WriteConfigs, FinishConfigs, WriteReady,
       LaunchSelected, CheckPasses, StartFails, TargetStartFailed, UndoFailedStart,
       RestoreFailed, files
  <2>2. \/ UNCHANGED journal
        \/ /\ journal.phase \notin Erasing
           /\ \E p \in Phases \ {"activating"} : Persist(p)
    BY DEF ValidateActive, StopServices, WriteConfigs, FinishConfigs, WriteReady,
       LaunchSelected, CheckPasses, StartFails, TargetStartFailed, UndoFailedStart,
       RestoreFailed, files, Goto, Safe, ActivationPhase, ActivateSteps, Erasing, Phases,
       IrreversiblePhases
  <2>3. Onward
    BY <2>2 DEF Onward, Persist, Erasing, Typed, TypeOK, JournalType
  <2> QED
    BY <2>1, <2>3, ChainStays
<1> QED
  BY <1>1, <1>2

LEMMA ChainRestore ==
  ASSUME Typed, Safe, Kept,
         \/ BeginRestore \/ RestoreStop \/ RestoreActive \/ PersistRestoring
         \/ PersistRolledBack \/ Recover \/ RecoverCommitted
  PROVE  ChainKept'
<1>1. UNCHANGED <<chain, marker>>
  BY DEF BeginRestore, RestoreStop, StopServices, RestoreActive, PersistRestoring,
     PersistRolledBack, Recover, RecoverCommitted, files
<1>2. Onward
  BY DEF BeginRestore, RestoreStop, StopServices, RestoreActive, PersistRestoring,
     PersistRolledBack, Recover, RecoverCommitted, files, Persist, Goto, Onward, Erasing, Typed,
     TypeOK, JournalType, Kept, Phased, PhaseAtStep
<1> QED
  BY <1>1, <1>2, ChainStays

LEMMA ChainEnvironment ==
  ASSUME Typed, Safe, Kept, Abort \/ Crash \/ ServiceStart \/ CoreExits
  PROVE  ChainKept'
<1>1. CASE ServiceStart
  BY <1>1, ChainLaunch DEF ServiceStart, files
<1>2. CASE Abort \/ Crash \/ CoreExits
  BY <1>2, ChainStays DEF Abort, Crash, CoreExits, files, Onward
<1> QED
  BY <1>1, <1>2

-----------------------------------------------------------------------------
(* Kept is inductive.                                                      *)

LEMMA MarkedStep ==
  ASSUME Typed, Safe, Kept, Next
  PROVE  Marked'
BY MarkedReview, MarkedPrepare, MarkedStop, MarkedReset, MarkedTarget, MarkedRemember,
   MarkedStart, MarkedRestore, MarkedEnvironment DEF Next, Operation, Environment

LEMMA BootedStep ==
  ASSUME Typed, Safe, Kept, Next
  PROVE  Booted'
BY BootedReview, BootedStop, BootedReset, BootedStart, BootedCheck, BootedRestore,
   BootedEnvironment DEF Next, Operation, Environment

LEMMA PhasedStep ==
  ASSUME Typed, Safe, Kept, Next
  PROVE  Phased'
BY PhasedReview, PhasedStop, PhasedReset, PhasedStart, PhasedRestore, PhasedEnvironment
   DEF Next, Operation, Environment

LEMMA ChainStep ==
  ASSUME Typed, Safe, Kept, Next
  PROVE  ChainKept'
BY ChainReview, ChainStop, ChainReset, ChainTarget, ChainStart, ChainRestore, ChainEnvironment
   DEF Next, Operation, Environment

LEMMA KeptStep ==
  ASSUME Typed, Safe, Kept, [Next]_vars
  PROVE  Kept'
<1>1. CASE Next
  BY <1>1, PhasedStep, MarkedStep, BootedStep, ChainStep DEF Kept
<1>2. CASE UNCHANGED vars
  <2>1. Phased'
    BY <1>2 DEF vars, Kept, Phased, Scopes, PhaseAtStep, DeletionPhase, ActiveAtPhase, Unfinished,
       Scoped
  <2>2. Marked'
    BY <1>2 DEF vars, Kept, Marked, MarkerAtPhase, MarkerAtReview, ProfilesKept, Registered,
       Unfinished
  <2>3. Booted'
    BY <1>2 DEF vars, Kept, Booted, Gated, FinishedNodeBoots, StartPermitted, JournalPermits,
       GuardPermits, ProfileBound, Registered
  <2>4. ChainKept'
    BY <1>2, ChainStays DEF vars, Onward
  <2> QED
    BY <2>1, <2>2, <2>3, <2>4 DEF Kept
<1> QED
  BY <1>1, <1>2

LEMMA InitKept == Init => Kept
<1> SUFFICES ASSUME Init PROVE Kept
  OBVIOUS
<1> USE DEF Init, NoJournal, Unfinished, Terminal
<1>1. Phased
  BY DEF Phased, Scopes, PhaseAtStep, DeletionPhase, ActiveAtPhase, Reviewing
<1>2. Marked
  BY DEF Marked, MarkerAtPhase, MarkerAtReview, ProfilesKept
<1>3. Booted
  BY DEF Booted, Gated, FinishedNodeBoots, Rendering
<1>4. ChainKept
  BY DEF ChainKept, OwnChain, ScopeEmpty
<1> QED
  BY <1>1, <1>2, <1>3, <1>4 DEF Kept

LEMMA KeptInvariance == Spec => [](Typed /\ Safe /\ Kept)
<1>1. Init => Typed /\ Safe /\ Kept
  BY InitHolds, InitKept
<1>2. Typed /\ Safe /\ Kept /\ [Next]_vars => (Typed /\ Safe /\ Kept)'
  BY TypedStep, SafeStep, KeptStep DEF Typed
<1> QED
  BY <1>1, <1>2, PTL DEF Spec

-----------------------------------------------------------------------------
(* The theorems.                                                           *)

\* Whatever point a transition was cut off at, recover finds the active instance and the
\* marker of the folder as its checks expect them.
THEOREM RecoveryIsAdmitted == Spec => []RecoveryAdmits
<1>1. Typed /\ Safe /\ Kept => RecoveryAdmits
  <2> SUFFICES ASSUME Typed, Safe, Kept, pc = "idle", Unfinished PROVE RecoveryAdmits
    BY DEF RecoveryAdmits
  <2>1. ActiveReviewed
    BY DEF ActiveReviewed, Kept, Phased, ActiveAtPhase, Unfinished
  <2>2. ASSUME journal.deletion_started PROVE ScopeKept /\ MarkerValid
    <3>1. journal.reset
      BY <2>2 DEF Safe, JournalConsistent
    <3>2. ScopeKept
      BY <3>1 DEF ScopeKept, Kept, Phased, Scopes, Scoped, Unfinished
    <3>3. journal.phase \in Erasing \union {"activating"} \union Started
      BY <2>2 DEF Kept, Phased, DeletionPhase
    <3>4. MarkerValid
      BY <3>1, <3>3 DEF MarkerValid, Kept, Marked, MarkerAtPhase, Erasing, Started, Before
    <3> QED
      BY <3>2, <3>4
  <2> QED
    BY <2>1, <2>2 DEF RecoveryAdmits
<1> QED
  BY KeptInvariance, <1>1, PTL

\* Once a transition has reported its end, the gate lets the selected node boot.
THEOREM FinishedBoots == Spec => []FinishedNodeBoots
<1>1. Kept => FinishedNodeBoots
  BY DEF Kept, Booted
<1> QED
  BY KeptInvariance, <1>1, PTL

\* Between transitions every network that was left can be selected again.
THEOREM ProfilesStayUsable == Spec => []ProfilesUsable
<1>1. Kept => ProfilesUsable
  BY DEF Kept, Marked, ProfilesKept, ProfilesUsable, Unfinished, Terminal
<1> QED
  BY KeptInvariance, <1>1, PTL

\* Core starts on an empty folder or on one that its own version wrote, never on the rest
\* of a deletion or on another version's chain.
THEOREM StartsAreOnOwnData == Spec => StartsOnOwnData
<1> DEFINE Own == \A i \in Instances :
              (core' = i /\ core # i) =>
                \/ ScopeEmpty(Folder(i))
                \/ \A e \in Entries : chain[Folder(i)][e] = i.version
<1>1. ASSUME Typed, Safe, Kept, Next PROVE Own
  <2>1. CASE Launch
    <3> DEFINE i == ready.instance
    <3>1. i \in Instances /\ Registered(i) /\ journal.phase \notin Erasing /\ core' = i
      BY <1>1, <2>1, LaunchPhase DEF Launch, StartPermitted, ProfileBound, Typed, TypeOK,
         ReadyType
    <3>2. OwnChain(Folder(i))
      BY <1>1, <3>1, SettledChain, FolderTyped
    <3> QED
      BY <3>1, <3>2 DEF OwnChain, Registered
  <2>2. CASE core' \in {core, None}
    BY <2>2, ConstantsAssumption
  <2>3. Launch \/ core' \in {core, None}
    BY <1>1 DEF Next, Review, Operation, Environment, Preview, Discard, Apply,
         Prepare, MarkNew, RememberPrevious, Begin, Inhibit, Stop, StopServices,
         StartDeletion, LockScope, DeleteEntry, ResetDone, MarkTarget, ActivateTarget,
         RememberTarget, PersistStarting, ValidateActive, WriteConfigs,
         FinishConfigs, WriteReady, LaunchSelected, CheckPasses, Release,
         TargetStartFailed, UndoFailedStart, RestoreFailed, BeginRestore,
         RestoreStop, RestoreActive, PersistRestoring, PersistRolledBack,
         StopFails, ResetFails, StartFails, Abort, Crash, ServiceStart,
         CoreExits, Recover, RecoverCommitted, StopUnproved, procs
  <2> QED
    BY <2>1, <2>2, <2>3
<1>2. Typed /\ Safe /\ Kept /\ [Next]_vars => [Own]_vars
  BY <1>1
<1>3. Spec => [][Own]_vars
  BY KeptInvariance, <1>2, PTL DEF Spec
<1> QED
  BY <1>3 DEF StartsOnOwnData

-----------------------------------------------------------------------------
(* The refinement: each step of a transition is one of the switch, or none. *)

LEMMA SwitchInit == Init => Switch!Init
BY DEF Init, Switch!Init, NoJournal, stageBar, selectedBar, goalBar, Unfinished, Terminal

\* What the switch sees of a step that writes no journal entry it can tell apart.
SameStage ==
  \/ UNCHANGED journal
  \/ Unfinished /\ \E p \in Phases \ (Terminal \union {"none"}) : Persist(p)

LEMMA Halts ==
  ASSUME Typed, SameStage, core' \in {core, None}, UNCHANGED chain
  PROVE  [Switch!Next]_Switch!svars
<1>1. stageBar' = stageBar /\ selectedBar' = selectedBar /\ goalBar' = goalBar
  BY DEF SameStage, Persist, Typed, TypeOK, JournalType, stageBar, selectedBar, goalBar,
     Unfinished, Terminal
<1>2. CASE core' = core
  BY <1>1, <1>2 DEF Switch!svars
<1>3. CASE core' # core
  BY <1>1, <1>3 DEF Switch!Next, Switch!Halt
<1> QED
  BY <1>2, <1>3

\* The node is settled on what is active.
LEMMA Settled ==
  ASSUME Typed, Kept, ~Unfinished
  PROVE  selectedBar = active
BY DEF selectedBar, Typed, TypeOK, Kept, Phased, ActiveAtPhase, Unfinished, Terminal, Started

LEMMA Runs ==
  ASSUME Typed, Safe, Kept, Launch, UNCHANGED journal
  PROVE  Switch!Next
<1>1. /\ ready.instance = active /\ active \in Instances
      /\ core = None /\ core' = active
      /\ chain' = [chain EXCEPT ![Folder(active)] = [e \in Entries |-> active.version]]
  BY DEF Launch, StartPermitted, ProfileBound, Typed, TypeOK
<1>2. active \in Switch!MayRun \ {None}
  <2>1. CASE ~Unfinished
    BY <1>1, <2>1, Settled, ConstantsAssumption DEF Switch!MayRun, stageBar
  <2>2. CASE Unfinished /\ ~journal.deletion_started
    BY <1>1, <2>2, ConstantsAssumption DEF Switch!MayRun, stageBar, selectedBar, goalBar, Kept,
       Phased, ActiveAtPhase, Unfinished, Terminal
  <2>3. CASE Unfinished /\ journal.deletion_started
    <3>1. active = journal.target
      BY <1>1, <2>3, LaunchIsTarget DEF Typed
    <3> QED
      BY <1>1, <2>3, <3>1, ConstantsAssumption DEF Switch!MayRun, stageBar, goalBar
  <2> QED
    BY <2>1, <2>2, <2>3
<1>3. UNCHANGED <<stageBar, selectedBar, goalBar>>
  BY DEF stageBar, selectedBar, goalBar, Unfinished
<1>4. Switch!Run(active)
  BY <1>1, <1>2, <1>3 DEF Switch!Run
<1> QED
  BY <1>1, <1>4 DEF Switch!Next

LEMMA Begins ==
  ASSUME Typed, Safe, Kept, Begin
  PROVE  Switch!Next
<1>1. /\ ~Unfinished /\ plan.target \in Instances /\ plan.previous = active
  BY DEF Begin, Kept, Phased, PhaseAtStep, ActiveAtPhase, Reviewing, Typed, PlanHeld, PreviewType
<1>2. Unfinished' /\ ~journal'.deletion_started /\ journal'.phase = "stopping"
      /\ journal'.target = plan.target /\ journal'.previous = plan.previous
  BY DEF Begin, Unfinished, Terminal
<1>3. Switch!Begin(plan.target)
  BY <1>1, <1>2, Settled DEF Switch!Begin, stageBar, selectedBar, goalBar, Begin, procs
<1> QED
  BY <1>1, <1>3 DEF Switch!Next

LEMMA PassesPointOfNoReturn ==
  ASSUME Typed, Safe, Kept, StartDeletion
  PROVE  Switch!Next
<1>1. /\ Unfinished /\ ~journal.deletion_started /\ journal.reset /\ journal.phase # "none"
      /\ core = None
  BY DEF StartDeletion, Goto, Kept, Phased, PhaseAtStep, Reviewing, Safe, Quiet, Unfinished
<1>2. journal.previous # None /\ Folder(journal.previous) = Folder(journal.target)
  BY <1>1 DEF Kept, Phased, Scopes, Scoped
<1>3. /\ journal'.phase = "resetting" /\ journal'.deletion_started
      /\ journal'.target = journal.target /\ journal'.previous = journal.previous
  BY DEF StartDeletion, Typed, TypeOK, JournalType
<1>4. Switch!PassPointOfNoReturn
  BY <1>1, <1>2, <1>3 DEF Switch!PassPointOfNoReturn, StartDeletion, stageBar, selectedBar,
     goalBar, Unfinished, Terminal, procs
<1> QED
  BY <1>4 DEF Switch!Next

LEMMA Erases ==
  ASSUME Typed, Safe, Kept, NEW e \in Entries, DeleteEntry(e)
  PROVE  Switch!Next
<1>1. Unfinished /\ journal.deletion_started /\ UNCHANGED journal
  BY DEF DeleteEntry, files, Kept, Phased, PhaseAtStep, Reviewing, Safe, WrittenAhead
<1>2. Switch!Erase(e)
  BY <1>1 DEF Switch!Erase, DeleteEntry, stageBar, selectedBar, goalBar, Unfinished, procs
<1> QED
  BY <1>2 DEF Switch!Next

\* A check that passes ends the switch, or undoes it.
LEMMA Settles ==
  ASSUME Typed, Safe, Kept, CheckPasses \/ PersistRolledBack
  PROVE  Switch!Next
<1> USE DEF stageBar, selectedBar, goalBar, Unfinished, Terminal, procs
<1>1. journal \in JournalType
  BY DEF Typed, TypeOK
<1>2. CASE CheckPasses /\ journal.phase = "starting"
  <2>1. /\ core = journal.target /\ UNCHANGED <<core, chain>>
        /\ journal' = [journal EXCEPT !.phase = "committed"]
    BY <1>2 DEF CheckPasses, Selected, Persist
  <2>2. (~journal.deletion_started /\ journal.previous # None) =>
          Folder(journal.previous) # Folder(journal.target)
    BY <1>2 DEF Kept, Phased, DeletionPhase, Scopes, Scoped, Before, Undoing, Folder
  <2>3. Switch!Finish
    BY <1>1, <1>2, <2>1, <2>2 DEF Switch!Finish, JournalType
  <2> QED
    BY <2>3 DEF Switch!Next
<1>3. CASE PersistRolledBack \/ (CheckPasses /\ journal.phase # "starting")
  <2>1. /\ Unfinished /\ journal.phase \in {"restoring_previous", "recovering"}
        /\ core \in {None, journal.previous} /\ UNCHANGED <<core, chain>>
        /\ journal' = [journal EXCEPT !.phase = "rolled_back"]
    BY <1>3 DEF CheckPasses, PersistRolledBack, Persist, Goto, Selected, Safe, ActivationPhase,
       ActivateSteps, Kept, Phased, PhaseAtStep, Booted, Gated
  <2>2. ~journal.deletion_started
    BY <2>1 DEF Kept, Phased, DeletionPhase, Erasing, Started
  <2>3. Switch!Undo
    BY <1>1, <2>1, <2>2 DEF Switch!Undo, JournalType
  <2> QED
    BY <2>3 DEF Switch!Next
<1> QED
  BY <1>2, <1>3

\* The steps that the switch does not see, or sees as a stop.
LEMMA Unseen ==
  ASSUME Typed, Safe, Kept,
         \/ Review \/ Prepare \/ MarkNew \/ RememberPrevious
         \/ Inhibit("guard_stop", "stop") \/ Stop \/ StopFails
         \/ Inhibit("guard_reset", "lock_scope") \/ LockScope
         \/ ResetDone \/ ResetFails \/ Inhibit("guard_ready", "mark_target") \/ Release
         \/ MarkTarget \/ ActivateTarget \/ RememberTarget \/ PersistStarting
         \/ ValidateActive \/ WriteConfigs \/ FinishConfigs \/ WriteReady
         \/ StartFails \/ TargetStartFailed \/ UndoFailedStart \/ RestoreFailed
         \/ BeginRestore \/ RestoreStop \/ RestoreActive \/ PersistRestoring
         \/ Recover \/ RecoverCommitted \/ Abort \/ Crash \/ CoreExits
  PROVE  [Switch!Next]_Switch!svars
<1>1. core' \in {core, None} /\ UNCHANGED chain
  BY DEF Review, Preview, Discard, Apply, Prepare, MarkNew, RememberPrevious, Inhibit, Stop,
     StopServices, StopFails, LockScope, ResetDone, ResetFails, Release, MarkTarget,
     ActivateTarget, RememberTarget, PersistStarting, ValidateActive, WriteConfigs,
     FinishConfigs, WriteReady, StartFails, StopUnproved, TargetStartFailed, UndoFailedStart,
     RestoreFailed, BeginRestore, RestoreStop, RestoreActive, PersistRestoring, Recover,
     RecoverCommitted, Abort, Crash, CoreExits, procs
<1>2. SameStage
  <2> USE DEF SameStage, Goto, files
  <2> DEFINE Persists == \/ StopFails \/ ResetDone \/ ResetFails \/ PersistStarting
                         \/ TargetStartFailed \/ RestoreFailed \/ BeginRestore
                         \/ PersistRestoring
  <2>1. CASE Persists
    <3>1. \/ UNCHANGED journal
          \/ \E p \in Phases \ (Terminal \union {"none"}) : Persist(p)
      BY <2>1 DEF StopFails, ResetDone, ResetFails, PersistStarting, TargetStartFailed,
         RestoreFailed, BeginRestore, PersistRestoring, Phases, IrreversiblePhases, Terminal
    <3>2. Unfinished
      BY <2>1 DEF StopFails, ResetDone, ResetFails, PersistStarting, TargetStartFailed,
         RestoreFailed, BeginRestore, PersistRestoring, Kept, Phased, PhaseAtStep, Reviewing
    <3> QED
      BY <3>1, <3>2
  <2>2. CASE ~Persists
    BY <2>2 DEF Review, Preview, Discard, Apply, Prepare, MarkNew, RememberPrevious, Inhibit,
       Stop, StopServices, LockScope, Release, MarkTarget, ActivateTarget, RememberTarget,
       ValidateActive, WriteConfigs, FinishConfigs, WriteReady, StartFails, UndoFailedStart,
       RestoreStop, RestoreActive, Recover, RecoverCommitted, Abort, Crash, CoreExits
  <2> QED
    BY <2>1, <2>2
<1> QED
  BY <1>1, <1>2, Halts

\* Every behaviour of the journalled transition, its crashes and recoveries included, is a
\* behaviour of the switch it promises: what runs, what is selected and what is erased.
THEOREM TransitionIsSwitch == Spec => ImplementsSwitch
<1>1. ASSUME Typed, Safe, Kept, Next
      PROVE  [Switch!Next]_Switch!svars
  <2>1. CASE LaunchSelected
    <3>1. CASE Launch
      BY <1>1, <2>1, <3>1, Runs DEF LaunchSelected, files
    <3>2. CASE ~Launch
      BY <1>1, <2>1, <3>2, Halts DEF LaunchSelected, files, SameStage
    <3> QED
      BY <3>1, <3>2
  <2>2. CASE ServiceStart
    BY <1>1, <2>2, Runs DEF ServiceStart, files
  <2>3. CASE Begin
    BY <1>1, <2>3, Begins
  <2>4. CASE StartDeletion
    BY <1>1, <2>4, PassesPointOfNoReturn
  <2>5. CASE \E e \in Entries : DeleteEntry(e)
    BY <1>1, <2>5, Erases
  <2>6. CASE CheckPasses \/ PersistRolledBack
    BY <1>1, <2>6, Settles
  <2> QED
    BY <1>1, <2>1, <2>2, <2>3, <2>4, <2>5, <2>6, Unseen DEF Next, Operation, Environment
<1>2. ASSUME UNCHANGED vars
      PROVE  UNCHANGED Switch!svars
  BY <1>2 DEF vars, Switch!svars, stageBar, selectedBar, goalBar, Unfinished
<1>3. Typed /\ Safe /\ Kept /\ [Next]_vars => [Switch!Next]_Switch!svars
  BY <1>1, <1>2
<1> QED
  BY KeptInvariance, SwitchInit, <1>3, PTL DEF Spec, ImplementsSwitch, Switch!Spec

-----------------------------------------------------------------------------
(* No step is refused: what the guard, the registration and the processes  *)
(* are at each step, for the checks that the code makes there.             *)

\* A guard is the one of the reset under change, or of an earlier one.
GuardOwned ==
  /\ guard.irreversible => guard.present
  /\ guard.present => journal.phase # "none" /\ journal.previous # None
  /\ (guard.present /\ ~StaleGuard) => journal.reset /\ guard.previous = journal.previous
  /\ (guard.irreversible /\ ~StaleGuard) => journal.deletion_started

\* From before the first unlink to the commit there is a guard that forbids the way
\* back; it lets the target start from before its folder is marked.
GuardRaised ==
  /\ (\/ pc \in {"lock_scope", "delete"}
      \/ journal.reset /\ journal.phase \in {"activating"} \union Started) =>
       guard.present /\ guard.irreversible /\ ~StaleGuard
  /\ (journal.reset /\ (\/ journal.phase \in Started
                        \/ pc \in {"mark_target", "activate", "remember_target",
                                   "starting"})) =>
       guard.target_ready

\* On the way back it has been released.
GuardLowered ==
  (pc = "restoring" \/ journal.phase = "restoring_previous") =>
    ~guard.present \/ StaleGuard

GuardKept == GuardOwned /\ GuardRaised /\ GuardLowered

\* Which instance node-ready.json registers, and /etc is rendered for.
ReadyBound ==
  /\ (journal.phase # "none" /\ journal.previous # None) =>
       ready.instance \in {journal.previous, journal.target}
  /\ (pc \in Reviewing /\ active # None) => ready.instance = active

\* What a start will read is what was rendered and registered.
Rendered ==
  /\ pc \in {"write_ready", "launch", "check"} => config = Selected
  /\ pc \in {"launch", "check"} => ready = [instance |-> Selected, config |-> Selected]

\* What does not run before the deletion, and what remains empty after it.
Resting ==
  /\ pc \in {"guard_reset", "lock_scope"} => core = None /\ ~wanted
  /\ journal.phase = "activating" => ScopeEmpty(Folder(journal.target))
  /\ pc = "restore" => ~journal.deletion_started

Admitted == GuardKept /\ ReadyBound /\ Rendered /\ Resting

LEMMA GuardReview ==
  ASSUME Typed, Safe, Kept, GuardKept,
         Review \/ Prepare \/ MarkNew \/ RememberPrevious
  PROVE  GuardKept'
<1>1. UNCHANGED <<guard, journal>> /\ pc' \in Reviewing \union {"idle"}
  BY DEF Review, Preview, Discard, Apply, Prepare, MarkNew, RememberPrevious, Goto, files, root,
     Reviewing
<1> QED
  BY <1>1 DEF GuardKept, GuardOwned, GuardRaised, GuardLowered, StaleGuard, Reviewing

\* The guard that Inhibit writes.
LEMMA InhibitWrites ==
  ASSUME Typed, NEW from, NEW to, Inhibit(from, to)
  PROVE  /\ UNCHANGED <<files, config, ready, procs, chain, plan, previews>>
         /\ \/ pc' = "idle" /\ UNCHANGED guard
            \/ /\ pc' = to /\ InhibitAllowed
               /\ guard'.present /\ ~StaleGuard'
               /\ guard'.previous = journal.previous
               /\ guard'.irreversible <=> guard.irreversible \/ journal.phase \in Erasing
               /\ guard'.target_ready <=> guard.target_ready \/ journal.phase = "activating"
<1>1. CASE InhibitAllowed
  <2>1. guard' = Inhibited /\ UNCHANGED files
    BY <1>1 DEF Inhibit
  <2>2. /\ Inhibited.present /\ Inhibited.previous = journal.previous
        /\ Inhibited.target = journal.target
        /\ Inhibited.irreversible = (guard.irreversible \/ journal.phase \in Erasing)
        /\ Inhibited.target_ready = (guard.target_ready \/ journal.phase = "activating")
    BY Zenon DEF Inhibited, Erasing
  <2>3. /\ guard'.irreversible <=> guard.irreversible \/ journal.phase \in Erasing
        /\ guard'.target_ready <=> guard.target_ready \/ journal.phase = "activating"
    BY <2>1, <2>2, Zenon
  <2> QED
    BY <1>1, <2>1, <2>2, <2>3 DEF Inhibit, StaleGuard, files
<1>2. CASE ~InhibitAllowed
  BY <1>2 DEF Inhibit
<1> QED
  BY <1>1, <1>2

LEMMA GuardInhibit ==
  ASSUME Typed, Safe, Kept, GuardKept,
         \/ Inhibit("guard_stop", "stop") \/ Inhibit("guard_reset", "lock_scope")
         \/ Inhibit("guard_ready", "mark_target")
  PROVE  GuardKept'
<1> DEFINE Raised ==
      /\ guard'.present /\ ~StaleGuard' /\ guard'.previous = journal.previous
      /\ guard'.irreversible <=> guard.irreversible \/ journal.phase \in Erasing
      /\ guard'.target_ready <=> guard.target_ready \/ journal.phase = "activating"
<1>1. UNCHANGED journal
  BY InhibitWrites DEF files
<1>2. CASE pc' = "idle" /\ UNCHANGED guard
  BY <1>1, <1>2 DEF GuardKept, GuardOwned, GuardRaised, GuardLowered, StaleGuard
<1>3. CASE InhibitAllowed /\ Raised /\ pc' \in {"stop", "lock_scope", "mark_target"}
  <2>1. /\ journal.reset /\ journal.previous # None /\ journal.phase # "none" /\ Unfinished
        /\ pc \in {"guard_stop", "guard_reset", "guard_ready"}
    BY DEF Inhibit, Kept, Phased, PhaseAtStep, Scopes, Scoped, Unfinished, Reviewing
  <2>2. journal.phase # "restoring_previous"
    BY <2>1 DEF Kept, Phased, PhaseAtStep, DeletionPhase, Safe, WrittenAhead, Erasing, Started
  <2>3. journal.phase \in Erasing => journal.deletion_started
    BY <2>1 DEF Kept, Phased, DeletionPhase, Erasing, Before, Undoing
  <2>4. guard.irreversible => journal.deletion_started
    BY <1>3 DEF InhibitAllowed, StaleGuard, GuardKept, GuardOwned
  <2>5. pc' = "lock_scope" => journal.phase \in Erasing
    BY <1>3 DEF Inhibit, Safe, WrittenAhead, Erasing
  <2>6. pc' = "mark_target" => journal.phase = "activating"
    BY <1>3 DEF Inhibit, Kept, Phased, PhaseAtStep
  <2>7. GuardOwned'
    BY <1>1, <1>3, <2>1, <2>3, <2>4 DEF GuardOwned
  <2>8. GuardRaised'
    BY <1>1, <1>3, <2>5, <2>6 DEF GuardKept, GuardRaised
  <2>9. GuardLowered'
    BY <1>1, <1>3, <2>2 DEF GuardLowered
  <2> QED
    BY <2>7, <2>8, <2>9 DEF GuardKept
<1> QED
  BY <1>2, <1>3, InhibitWrites

\* A transition that begins under a guard finds it stale: it is of the instance left.
LEMMA GuardBegin ==
  ASSUME Typed, Safe, Kept, GuardKept, Begin
  PROVE  GuardKept'
<1>1. /\ UNCHANGED guard /\ pc' \in {"guard_stop", "stop"}
      /\ journal'.phase = "stopping" /\ journal'.previous = active
      /\ journal'.target = plan.target
  BY DEF Begin, root, Kept, Phased, ActiveAtPhase, Reviewing
<1>2. ASSUME guard.present PROVE active # None /\ guard.target # plan.target
  <2>1. ~Unfinished /\ journal.phase # "none" /\ journal.previous # None
        /\ plan \in PreviewType /\ Scoped(plan) /\ plan.previous = active
    BY <1>2 DEF Begin, Kept, Phased, PhaseAtStep, Scopes, ActiveAtPhase, Reviewing, GuardKept,
       GuardOwned, Typed, PlanHeld
  <2>2. active # None
    BY <2>1, ConstantsAssumption DEF Kept, Phased, ActiveAtPhase, Typed, TargetNamed
  <2>3. guard.target = active
    BY <1>2, <2>1, <2>2 DEF Unfinished, Kept, Booted, FinishedNodeBoots, StartPermitted,
       GuardPermits
  <2> QED
    BY <2>1, <2>2, <2>3 DEF Scoped
<1>3. ~guard.present => ~guard.irreversible
  BY DEF GuardKept, GuardOwned
<1> QED
  BY <1>1, <1>2, <1>3 DEF GuardKept, GuardOwned, GuardRaised, GuardLowered, StaleGuard, Started

LEMMA GuardStop ==
  ASSUME Typed, Safe, Kept, GuardKept, Stop \/ StopFails \/ Release
  PROVE  GuardKept'
<1> USE DEF GuardKept, GuardOwned, GuardRaised, GuardLowered, StaleGuard, Goto, Started
<1> journal \in JournalType /\ PhaseAtStep /\ DeletionPhase
  BY DEF Typed, TypeOK, Kept, Phased
<1>1. CASE Stop
  BY <1>1 DEF Stop, StopServices, FinishStep, files, root, PhaseAtStep, DeletionPhase, Erasing,
     Reviewing
<1>2. CASE StopFails
  BY <1>2 DEF StopFails, Persist, JournalType, root
<1>3. CASE Release /\ ~ReleaseAllowed
  BY <1>3 DEF Release, files, PhaseAtStep
<1>4. CASE Release /\ ReleaseAllowed
  BY <1>4 DEF Release, files, PhaseAtStep, NoGuard
<1> QED
  BY <1>1, <1>2, <1>3, <1>4

LEMMA GuardReset ==
  ASSUME Typed, Safe, Kept, GuardKept,
         \/ StartDeletion \/ LockScope \/ (\E e \in Entries : DeleteEntry(e))
         \/ ResetDone \/ ResetFails \/ MarkTarget \/ ActivateTarget
         \/ RememberTarget \/ PersistStarting
  PROVE  GuardKept'
<1> USE DEF GuardKept, GuardOwned, GuardRaised, GuardLowered, StaleGuard, Goto, Started, Persist,
            JournalType, root, files
<1> journal \in JournalType /\ PhaseAtStep /\ DeletionPhase
  BY DEF Typed, TypeOK, Kept, Phased
<1>1. CASE StartDeletion
  BY <1>1 DEF StartDeletion
<1>2. CASE LockScope
  BY <1>2 DEF LockScope
<1>3. CASE \E e \in Entries : DeleteEntry(e)
  BY <1>3 DEF DeleteEntry
<1>4. CASE ResetDone
  BY <1>4 DEF ResetDone
<1>5. CASE ResetFails
  BY <1>5 DEF ResetFails
<1>6. CASE MarkTarget \/ ActivateTarget \/ RememberTarget
  BY <1>6 DEF MarkTarget, ActivateTarget, RememberTarget
<1>7. CASE PersistStarting
  BY <1>7 DEF PersistStarting, PhaseAtStep
<1> QED
  BY <1>1, <1>2, <1>3, <1>4, <1>5, <1>6, <1>7

LEMMA GuardStart ==
  ASSUME Typed, Safe, Kept, GuardKept,
         \/ ValidateActive \/ WriteConfigs \/ FinishConfigs \/ WriteReady
         \/ LaunchSelected \/ CheckPasses \/ StartFails \/ TargetStartFailed
         \/ UndoFailedStart \/ RestoreFailed
  PROVE  GuardKept'
<1> USE DEF GuardKept, GuardOwned, GuardRaised, GuardLowered, StaleGuard, Goto, Started, Persist,
            JournalType, root, files
<1> journal \in JournalType
  BY DEF Typed, TypeOK
<1>1. CASE ValidateActive \/ WriteConfigs \/ FinishConfigs \/ WriteReady \/ LaunchSelected
  BY <1>1 DEF ValidateActive, StopServices, WriteConfigs, FinishConfigs, WriteReady,
     LaunchSelected
<1>2. CASE CheckPasses
  BY <1>2 DEF CheckPasses
<1>3. CASE StartFails \/ UndoFailedStart
  BY <1>3 DEF StartFails, UndoFailedStart
<1>4. CASE TargetStartFailed
  BY <1>4 DEF TargetStartFailed
<1>5. CASE RestoreFailed
  BY <1>5 DEF RestoreFailed
<1> QED
  BY <1>1, <1>2, <1>3, <1>4, <1>5

LEMMA GuardRestore ==
  ASSUME Typed, Safe, Kept, GuardKept,
         \/ BeginRestore \/ RestoreStop \/ RestoreActive \/ PersistRestoring
         \/ PersistRolledBack \/ Recover \/ RecoverCommitted
         \/ Abort \/ Crash \/ ServiceStart \/ CoreExits
  PROVE  GuardKept'
<1> USE DEF GuardKept, GuardOwned, GuardRaised, GuardLowered, StaleGuard, Goto, Started, Persist,
            JournalType, root, files
<1> journal \in JournalType /\ PhaseAtStep
  BY DEF Typed, TypeOK, Kept, Phased
<1>1. CASE BeginRestore \/ PersistRestoring \/ PersistRolledBack
  BY <1>1 DEF BeginRestore, PersistRestoring, PersistRolledBack
<1>2. CASE RestoreActive
  BY <1>2 DEF RestoreActive, PhaseAtStep
<1>3. CASE RestoreStop \/ Recover \/ RecoverCommitted
  BY <1>3 DEF RestoreStop, StopServices, Recover, RecoverCommitted
<1>4. CASE Abort \/ Crash \/ ServiceStart \/ CoreExits
  BY <1>4 DEF Abort, Crash, ServiceStart, CoreExits
<1> QED
  BY <1>1, <1>2, <1>3, <1>4

-----------------------------------------------------------------------------
(* What is registered, rendered and running.                               *)

LEMMA BoundStep ==
  ASSUME Typed, Safe, Kept, ReadyBound, Next
  PROVE  ReadyBound'
<1> USE DEF ReadyBound, Goto, files, root, Reviewing
<1> journal \in JournalType /\ TargetNamed
  BY DEF Typed, TypeOK
<1>1. CASE Review
  <2>1. ASSUME NEW p \in previews, Apply(p), active # None
        PROVE  pc' \in Reviewing => ready.instance = active
    BY <2>1 DEF Apply, Fresh, HostAdmits, StartPermitted, ProfileBound
  <2>2. CASE \E p \in previews : Apply(p)
    BY <2>1, <2>2 DEF Apply
  <2>3. CASE ~\E p \in previews : Apply(p)
    BY <1>1, <2>3 DEF Review, Preview, Discard
  <2> QED
    BY <2>2, <2>3
<1>2. CASE Prepare \/ MarkNew \/ RememberPrevious
  BY <1>2 DEF Prepare, MarkNew, RememberPrevious
<1>3. CASE Begin
  BY <1>3 DEF Begin, Kept, Phased, ActiveAtPhase
<1>4. CASE WriteReady
  <2>1. ready'.instance = Selected /\ Selected \in {journal.previous, journal.target}
    BY <1>4 DEF WriteReady, Typed, RenderedRegistered, Rendering, Selected, Registered
  <2> QED
    BY <1>4, <2>1 DEF WriteReady
<1>5. CASE \/ Inhibit("guard_stop", "stop") \/ Inhibit("guard_reset", "lock_scope")
           \/ Inhibit("guard_ready", "mark_target")
  BY <1>5 DEF Inhibit
<1>6. CASE \/ Stop \/ StartDeletion \/ LockScope \/ (\E e \in Entries : DeleteEntry(e))
           \/ ResetDone \/ MarkTarget \/ ActivateTarget \/ RememberTarget
           \/ PersistStarting
  BY <1>6 DEF Stop, StopServices, FinishStep, StartDeletion, LockScope, DeleteEntry, ResetDone,
     MarkTarget, ActivateTarget, RememberTarget, PersistStarting, Persist, JournalType, TargetNamed
<1>7. CASE \/ ValidateActive \/ WriteConfigs \/ FinishConfigs \/ LaunchSelected \/ CheckPasses
           \/ Release \/ TargetStartFailed \/ UndoFailedStart \/ RestoreFailed
  BY <1>7 DEF ValidateActive, StopServices, WriteConfigs, FinishConfigs, LaunchSelected,
     CheckPasses, Release, TargetStartFailed, UndoFailedStart, RestoreFailed, Persist,
     JournalType, TargetNamed, ActivateSteps
<1>8. CASE BeginRestore \/ RestoreStop \/ RestoreActive \/ PersistRestoring \/ PersistRolledBack
  <2>1. CASE RestoreActive
    BY <2>1 DEF RestoreActive
  <2>2. CASE RestoreStop
    BY <2>2 DEF RestoreStop, StopServices
  <2>3. CASE BeginRestore \/ PersistRestoring \/ PersistRolledBack
    BY <2>3 DEF BeginRestore, PersistRestoring, PersistRolledBack, Persist, JournalType,
       TargetNamed
  <2> QED
    BY <1>8, <2>1, <2>2, <2>3
<1>9. CASE Environment \/ Recover \/ RecoverCommitted
  <2>1. CASE StopFails \/ ResetFails \/ StartFails
    BY <2>1 DEF StopFails, ResetFails, StartFails, Persist, JournalType, ActivateSteps, TargetNamed
  <2>2. CASE Abort \/ Crash \/ ServiceStart \/ CoreExits \/ Recover \/ RecoverCommitted
    BY <2>2 DEF Abort, Crash, ServiceStart, CoreExits, Recover, RecoverCommitted
  <2> QED
    BY <1>9, <2>1, <2>2 DEF Environment
<1> QED
  BY <1>1, <1>2, <1>3, <1>4, <1>5, <1>6, <1>7, <1>8, <1>9 DEF Next, Operation

LEMMA RenderedStep ==
  ASSUME Typed, Safe, Kept, Rendered, Next
  PROVE  Rendered'
<1> USE DEF Rendered, Goto
<1>1. CASE FinishConfigs
  BY <1>1 DEF FinishConfigs, Selected, files
<1>2. CASE WriteReady
  BY <1>2 DEF WriteReady, Selected, files, Typed, RenderedRegistered, Rendering, Registered
<1>3. CASE LaunchSelected \/ ServiceStart \/ CoreExits
  BY <1>3 DEF LaunchSelected, ServiceStart, CoreExits, Selected, files, root
<1>4. CASE ~(FinishConfigs \/ WriteReady \/ LaunchSelected \/ ServiceStart \/ CoreExits)
  <2>1. CASE Review \/ Recover \/ RecoverCommitted \/ Abort \/ Crash
    BY <2>1 DEF Review, Preview, Discard, Apply, Recover, RecoverCommitted, Abort, Crash
  <2>2. CASE Environment
    BY <1>4, <2>1, <2>2 DEF Environment, StopFails, ResetFails, StartFails
  <2>3. CASE Operation
    BY <1>4, <2>3 DEF Operation, Prepare, MarkNew, RememberPrevious, Begin, Inhibit, Stop,
       StopServices, FinishStep, StartDeletion, LockScope, DeleteEntry, ResetDone, MarkTarget,
       ActivateTarget, RememberTarget, PersistStarting, ValidateActive, WriteConfigs,
       CheckPasses, Release, TargetStartFailed, UndoFailedStart, RestoreFailed, BeginRestore,
       RestoreStop, RestoreActive, PersistRestoring, PersistRolledBack
  <2> QED
    BY <2>1, <2>2, <2>3 DEF Next
<1> QED
  BY <1>1, <1>2, <1>3, <1>4

\* Nothing starts while a reset has not marked its folder.
LEMMA LaunchLater ==
  ASSUME Typed, Safe, Kept, Launch
  PROVE  journal.phase # "activating"
BY LaunchPhase DEF Launch, StartPermitted

LEMMA RestingStep ==
  ASSUME Typed, Safe, Kept, Resting, Next
  PROVE  Resting'
<1> USE DEF Resting, Goto, files, root, procs
<1> journal \in JournalType
  BY DEF Typed, TypeOK
<1>1. CASE Review \/ Prepare \/ MarkNew \/ RememberPrevious \/ Begin
  <2>1. /\ pc' \in Reviewing \union {"idle", "guard_stop", "stop"}
        /\ UNCHANGED journal \/ journal'.phase = "stopping"
        /\ UNCHANGED chain
    BY <1>1 DEF Review, Preview, Discard, Apply, Prepare, MarkNew, RememberPrevious, Begin,
       Reviewing
  <2> QED
    BY <2>1 DEF ScopeEmpty, Reviewing
<1>2. CASE Stop \/ StopFails \/ Release
  BY <1>2 DEF Stop, StopServices, FinishStep, StopFails, Release, Persist, JournalType,
     ScopeEmpty
<1>3. CASE \/ Inhibit("guard_stop", "stop") \/ Inhibit("guard_reset", "lock_scope")
           \/ Inhibit("guard_ready", "mark_target")
  <2>1. /\ pc' \in {"idle", "stop", "lock_scope", "mark_target"}
        /\ pc' = "lock_scope" => pc = "guard_reset"
        /\ UNCHANGED <<journal, chain, procs>>
    BY <1>3 DEF Inhibit
  <2> QED
    BY <2>1 DEF ScopeEmpty
<1>4. CASE StartDeletion
  BY <1>4 DEF StartDeletion, Safe, Quiet, JournalType
<1>5. CASE LockScope \/ ResetFails \/ \E e \in Entries : DeleteEntry(e)
  BY <1>5 DEF LockScope, ResetFails, DeleteEntry, Persist, JournalType, Kept, Phased,
     PhaseAtStep, Erasing
<1>6. CASE ResetDone
  BY <1>6 DEF ResetDone, Persist, JournalType, ScopeEmpty
<1>7. CASE MarkTarget \/ ActivateTarget \/ RememberTarget \/ PersistStarting
  BY <1>7 DEF MarkTarget, ActivateTarget, RememberTarget, PersistStarting, Persist, JournalType,
     ScopeEmpty
<1>8. CASE LaunchSelected \/ ServiceStart
  BY <1>8, LaunchLater DEF LaunchSelected, ServiceStart, Launch, ScopeEmpty
<1>9. CASE \/ ValidateActive \/ WriteConfigs \/ FinishConfigs \/ WriteReady \/ CheckPasses
           \/ StartFails \/ TargetStartFailed \/ UndoFailedStart \/ RestoreFailed
  BY <1>9 DEF ValidateActive, StopServices, WriteConfigs, FinishConfigs, WriteReady, CheckPasses,
     StartFails, TargetStartFailed, UndoFailedStart, RestoreFailed, Persist, JournalType,
     ScopeEmpty
<1>10. CASE \/ BeginRestore \/ RestoreStop \/ RestoreActive \/ PersistRestoring
            \/ PersistRolledBack \/ Recover \/ RecoverCommitted
  BY <1>10 DEF BeginRestore, RestoreStop, StopServices, RestoreActive, PersistRestoring,
     PersistRolledBack, Recover, RecoverCommitted, Persist, JournalType, ScopeEmpty
<1>11. CASE Abort \/ Crash \/ CoreExits
  BY <1>11 DEF Abort, Crash, CoreExits, ScopeEmpty
<1> QED
  BY <1>1, <1>2, <1>3, <1>4, <1>5, <1>6, <1>7, <1>8, <1>9, <1>10, <1>11
     DEF Next, Operation, Environment

-----------------------------------------------------------------------------
(* The checks at each step.                                                *)

LEMMA AdmittedStep ==
  ASSUME Typed, Safe, Kept, Admitted, [Next]_vars
  PROVE  Admitted'
<1>1. CASE Next
  <2>1. GuardKept'
    BY <1>1, GuardReview, GuardInhibit, GuardBegin, GuardStop, GuardReset, GuardStart,
       GuardRestore DEF Admitted, Next, Operation, Environment
  <2> QED
    BY <1>1, <2>1, BoundStep, RenderedStep, RestingStep DEF Admitted
<1>2. CASE UNCHANGED vars
  BY <1>2 DEF vars, Admitted, GuardKept, GuardOwned, GuardRaised, GuardLowered, StaleGuard,
     ReadyBound, Rendered, Selected, Resting, ScopeEmpty
<1> QED
  BY <1>1, <1>2

LEMMA InitAdmitted == Init => Admitted
BY DEF Init, NoJournal, NoGuard, Admitted, GuardKept, GuardOwned, GuardRaised, GuardLowered,
   Started, ReadyBound, Rendered, Resting, Reviewing

LEMMA InhibitAdmitted ==
  ASSUME Typed, Safe, Kept, Admitted, ~StaleGuard,
         pc \in {"guard_stop", "guard_reset", "guard_ready"}
  PROVE  InhibitAllowed
<1>1. /\ journal.reset /\ journal.phase # "none" /\ journal.previous # None
  BY DEF Kept, Phased, PhaseAtStep, Scopes, Scoped, Unfinished, Reviewing
<1>2. ready.instance \in {journal.previous, journal.target}
  BY <1>1 DEF Admitted, ReadyBound
<1>3. guard.present => guard.previous = journal.previous /\ guard.target = journal.target
  BY DEF Admitted, GuardKept, GuardOwned, StaleGuard
<1>4. journal.phase = "activating" => guard.irreversible /\ ScopeEmpty(Folder(journal.target))
  BY <1>1 DEF Admitted, GuardKept, GuardRaised, Resting
<1> QED
  BY <1>2, <1>3, <1>4 DEF InhibitAllowed

LEMMA ReleaseAdmitted ==
  ASSUME Typed, Safe, Kept, Admitted, ~StaleGuard, pc = "release"
  PROVE  ReleaseAllowed
<1>1. CASE journal.phase = "committed"
  <2>1. active = journal.target /\ active # None
    BY <1>1, ConstantsAssumption DEF Kept, Phased, ActiveAtPhase, Typed, TargetNamed
  <2>2. guard.present => guard.target_ready /\ active = guard.target
    BY <1>1, <2>1 DEF Kept, Booted, FinishedNodeBoots, StartPermitted, GuardPermits, Terminal
  <2> QED
    BY <1>1, <2>2 DEF ReleaseAllowed, Admitted, GuardKept, GuardOwned
<1>2. CASE journal.phase \in {"stop_failed", "recovering"}
  <2>1. ~journal.deletion_started
    BY <1>2 DEF Kept, Phased, DeletionPhase, Unfinished, Terminal, Erasing, Started
  <2> QED
    BY <1>2, <2>1 DEF ReleaseAllowed, Admitted, GuardKept, GuardOwned
<1> QED
  BY <1>1, <1>2 DEF Kept, Phased, PhaseAtStep

\* The selected instance is the active one, and its folder is marked with it.
LEMMA SelectedRegistered ==
  ASSUME Typed, Safe, Kept, pc \in ActivateSteps
  PROVE  active = Selected /\ Registered(Selected)
<1>1. journal.phase \in {"starting", "restoring_previous"} /\ Unfinished
  BY DEF Safe, ActivationPhase, Unfinished, Terminal
<1>2. CASE journal.phase = "starting"
  BY <1>1, <1>2
     DEF Selected, Kept, Phased, ActiveAtPhase, Started, Marked, MarkerAtPhase, Registered
<1>3. CASE journal.phase = "restoring_previous"
  <2>1. active = journal.previous /\ journal.previous # None
    BY <1>3 DEF Kept, Phased, ActiveAtPhase, Typed, PreviousNamed, ActivateSteps
  <2>2. CASE journal.reset
    BY <1>1, <1>3, <2>1, <2>2
       DEF Selected, Kept, Phased, Scopes, Scoped, Marked, MarkerAtPhase, Before, Undoing,
           Registered
  <2>3. CASE ~journal.reset
    BY <1>1, <1>3, <2>1, <2>3 DEF Selected, Kept, Marked, MarkerAtPhase
  <2> QED
    BY <2>1, <2>2, <2>3
<1> QED
  BY <1>1, <1>2, <1>3

LEMMA LaunchAdmitted ==
  ASSUME Typed, Safe, Kept, Admitted, ~StaleGuard, pc = "launch"
  PROVE  StartPermitted
<1>1. /\ journal.phase \in {"starting", "restoring_previous"} /\ Unfinished
      /\ active = Selected /\ Registered(Selected)
  BY SelectedRegistered DEF Safe, ActivationPhase, ActivateSteps, Unfinished, Terminal
<1>2. JournalPermits
  BY <1>1 DEF JournalPermits, Kept, Phased, DeletionPhase, Erasing, Started
<1>3. CASE journal.phase = "starting"
  <2>1. guard.present => journal.reset /\ guard.target = journal.target
    BY DEF Admitted, GuardKept, GuardOwned, StaleGuard
  <2>2. guard.present => guard.target_ready
    BY <1>3, <2>1 DEF Admitted, GuardKept, GuardRaised, Started
  <2> QED
    BY <1>1, <1>2, <1>3, <2>1, <2>2, ConstantsAssumption
       DEF GuardPermits, StartPermitted, ProfileBound, Selected, Admitted, Rendered, Typed,
           TargetNamed
<1>4. CASE journal.phase = "restoring_previous"
  <2>1. ~guard.present
    BY <1>4 DEF Admitted, GuardKept, GuardLowered
  <2>2. journal.previous # None
    BY <1>4 DEF Typed, PreviousNamed, ActivateSteps
  <2> QED
    BY <1>1, <1>2, <1>4, <2>1, <2>2
       DEF GuardPermits, StartPermitted, ProfileBound, Selected, Admitted, Rendered
<1> QED
  BY <1>1, <1>3, <1>4

\* Whatever was cut off and resumed, a step finds what its own checks ask for; only a
\* guard left by an earlier reset can refuse it.
THEOREM NoStepIsRefused == Spec => []StepsAdmitted
<1>1. ASSUME Typed, Safe, Kept, Admitted PROVE StepsAdmitted
  <2>1. pc = "lock_scope" => ~ScopeInUse
    BY <1>1 DEF Admitted, Resting, ScopeInUse
  <2>2. pc = "restore" => ~journal.deletion_started
    BY <1>1 DEF Admitted, Resting
  <2>3. ASSUME pc = "restore_active", journal.previous # None
        PROVE  Registered(journal.previous)
    <3>1. journal.phase = "recovering" /\ Unfinished
      BY <1>1, <2>3 DEF Kept, Phased, PhaseAtStep, Unfinished, Terminal
    <3> QED
      BY <1>1, <2>3, <3>1 DEF Kept, Phased, Scopes, Scoped, Marked, MarkerAtPhase, Before,
         Undoing, Registered
  <2>4. ~StaleGuard /\ pc \in {"guard_stop", "guard_reset", "guard_ready"} => InhibitAllowed
    BY <1>1, InhibitAdmitted
  <2>5. ~StaleGuard /\ pc = "release" => ReleaseAllowed
    BY <1>1, ReleaseAdmitted
  <2>6. ~StaleGuard /\ pc \in {"validate_active", "launch"} => ~StartImpossible
    BY <1>1, LaunchAdmitted, SelectedRegistered DEF StartImpossible, ActivateSteps
  <2> QED
    BY <2>1, <2>2, <2>3, <2>4, <2>5, <2>6 DEF StepsAdmitted
<1>2. Typed /\ Safe /\ Kept /\ Admitted /\ [Next]_vars => Admitted'
  BY AdmittedStep
<1>3. Init => Admitted
  BY InitAdmitted
<1> QED
  BY KeptInvariance, <1>1, <1>2, <1>3, PTL DEF Spec
=============================================================================
