-------------------------- MODULE VersionTransition --------------------------
(***************************************************************************)
(* The journalled change of the running Bitcoin Core version or network    *)
(* (src/src/versions.rs), the root helper that guards and activates it     *)
(* (src/scripts/profile_helper.py), the worker that deletes chain data     *)
(* (src/scripts/chain_reset.py) and the gate every service start passes    *)
(* (src/scripts/node_ready.py).                                            *)
(*                                                                         *)
(* The daemon runs one operation at a time under transition.lock: pc is    *)
(* where that operation is.  Each durable write and each call of the root  *)
(* helper is an action of its own, so that the daemon can die, or the      *)
(* power can fail, between any two.  Files survive; pc, plan and previews  *)
(* do not.                                                                 *)
(***************************************************************************)
EXTENDS Naturals, FiniteSets

CONSTANTS
  Versions,        \* Core releases
  Networks,        \* registered network/mode keys of profiles.json
  Entries,         \* allowlisted chain and index entries of a data folder
  MaxTransitions,  \* bound: journalled transitions in a behaviour
  MaxFaults,       \* bound: failures, crashes and power losses in a behaviour
  MaxPreviews,     \* reviews held at once (4 in version_service.rs)
  None,            \* an absent file, process or value
  Unmarked,        \* a data folder that has no instance.json yet
  Torn             \* /etc configuration of which only a part was replaced

(***************************************************************************)
(* An instance is what a registration names: a version run on the data     *)
(* folder <<network, id>>.  A version change keeps the folder.             *)
(***************************************************************************)
Instances == [version : Versions, network : Networks, id : Versions]
Folders   == Networks \X Versions
Folder(i) == <<i.network, i.id>>

ASSUME ConstantsAssumption ==
  /\ MaxTransitions \in Nat /\ MaxFaults \in Nat /\ MaxPreviews \in Nat
  /\ None \notin Instances /\ None \notin Versions
  /\ Unmarked \notin Instances /\ Unmarked # None
  /\ Torn \notin Instances /\ Torn # None

VARIABLES
  journal,   \* transition.json
  active,    \* active.json
  profiles,  \* profiles.json: the instance remembered for each network
  marker,    \* instance.json of each data folder
  chain,     \* which version wrote each entry of each data folder
  guard,     \* /etc/justverify/version-reset-guard.json
  config,    \* the instance /etc/justverify was rendered for
  ready,     \* node-ready.json
  core,      \* the instance bitcoind is running, if it runs
  wanted,    \* systemd starts Core (again) on its own: boot job, on-failure
  pc,        \* where the daemon's operation is
  plan,      \* the review being applied, until it is journalled
  previews,  \* reviews waiting for a decision, in the daemon's memory
  begun,     \* transitions journalled so far
  faults     \* failures injected so far

files == <<journal, active, profiles, marker>>
root  == <<guard, config, ready>>
procs == <<core, wanted>>
vars  == <<journal, active, profiles, marker, chain, guard, config, ready,
           core, wanted, pc, plan, previews, begun, faults>>

NoJournal == [phase |-> "none", previous |-> None, target |-> None,
              reset |-> FALSE, deletion_started |-> FALSE]
NoGuard   == [present |-> FALSE, previous |-> None, target |-> None,
              irreversible |-> FALSE, target_ready |-> FALSE]

IrreversiblePhases == {"resetting", "reset_failed", "activating", "starting",
                       "target_start_failed", "committed"}
Phases == IrreversiblePhases \union
          {"none", "stopping", "stop_failed", "recovering",
           "restoring_previous", "rolled_back", "recovery_failed"}
ActivateSteps == {"validate_active", "write_configs", "finish_configs",
                  "write_ready", "launch", "check"}
Steps == ActivateSteps \union
         {"idle", "prepare", "mark_new", "remember_previous", "journal",
          "guard_stop", "stop", "validate_scope", "guard_reset", "lock_scope",
          "delete", "guard_ready", "mark_target", "activate", "remember_target",
          "starting", "start_failed", "release", "restore", "restore_stop",
          "restore_active", "restoring", "rolled_back"}

-----------------------------------------------------------------------------
(* Helpers.                                                                *)

Goto(from, to) == pc = from /\ pc' = to
Persist(p) == journal' = [journal EXCEPT !.phase = p]
Fault == faults < MaxFaults /\ faults' = faults + 1

Terminal   == {"committed", "rolled_back"}
Unfinished == journal.phase \notin Terminal \union {"none"}

\* A registration is usable when its folder carries the same instance.
Registered(i) == marker[Folder(i)] = i

\* The instance an activation is for: the target, or the previous instance
\* when the transition is being undone.
Selected == IF journal.phase = "starting" THEN journal.target ELSE journal.previous

ScopeEmpty(f) == \A e \in Entries : chain[f][e] = None

\* The reset worker holds Core's own data lock while it deletes.
Locked(f) == pc = "delete" /\ f = Folder(journal.target)

(***************************************************************************)
(* node_ready.check: run before every start of Core, by systemd and again  *)
(* by the launcher.                                                        *)
(***************************************************************************)
JournalPermits ==
  journal.reset =>
    \/ journal.phase \in {"starting", "committed", "rolled_back", "stop_failed"}
    \/ journal.phase = "restoring_previous" /\ ~journal.deletion_started
\* Defect: only an activation in progress may pass the guard.
GuardPermitsStarting ==
  guard.present =>
    /\ guard.target_ready
    /\ journal.phase = "starting"
    /\ active = guard.target
GuardPermits ==
  guard.present =>
    /\ guard.target_ready
    /\ journal.phase \in {"starting", "committed"}
    /\ active = guard.target
ProfileBound ==
  /\ ready.instance # None
  /\ ready.config = config
  /\ ready.instance = active
  /\ config = active
  /\ Registered(ready.instance)
\* Defect: the gate looks at the registration alone.
StartPermittedByProfile == ProfileBound
StartPermitted == JournalPermits /\ GuardPermits /\ ProfileBound

\* bitcoind comes up on its folder and (re)writes what it finds there.
Launch ==
  /\ core = None
  /\ StartPermitted
  /\ ~Locked(Folder(ready.instance))
  /\ core' = ready.instance
  /\ chain' = [chain EXCEPT ![Folder(ready.instance)] =
                 [e \in Entries |-> ready.instance.version]]

-----------------------------------------------------------------------------
(* Review and application.                                                 *)

\* The instance a review of version v on network n is for.
IsReset(v) == active # None /\ active.version # v
Target(v, n) ==
  IF IsReset(v) THEN [active EXCEPT !.version = v]
  ELSE IF profiles[n] # None THEN profiles[n]
  ELSE [version |-> v, network |-> n, id |-> v]

\* marker_hash cannot tell a folder without a marker from no folder.
MarkerBytes(f) == IF marker[f] = Unmarked THEN None ELSE marker[f]

\* check_registered for a running node, check_initial for a blank volume.
HostAdmits ==
  IF active # None THEN Registered(active) /\ StartPermitted
  ELSE \A f \in Folders : marker[f] = None

Preview(v, n) ==
  /\ pc = "idle" /\ ~Unfinished /\ HostAdmits
  /\ Cardinality(previews) < MaxPreviews
  /\ IsReset(v) => n = active.network
  /\ (active # None /\ ~IsReset(v)) => n # active.network
  /\ LET t == Target(v, n) IN
       /\ t.version = v
       /\ ~IsReset(v) => marker[Folder(t)] \in {None, t}
       /\ previews' = previews \union
            {[previous |-> active, target |-> t, reset |-> IsReset(v),
              marker |-> MarkerBytes(Folder(t)), binding |-> <<config, ready>>]}
  /\ UNCHANGED <<files, root, chain, procs, pc, plan, begun, faults>>

\* cancel, and the 300 s expiry.
Discard(p) ==
  /\ pc = "idle" /\ p \in previews
  /\ previews' = previews \ {p}
  /\ UNCHANGED <<files, root, chain, procs, pc, plan, begun, faults>>

\* Everything a review was bound to is compared again before it is used.
Fresh(p) ==
  /\ HostAdmits
  /\ p.previous = active
  /\ p.binding = <<config, ready>>
  /\ p.marker = MarkerBytes(Folder(p.target))

Apply(p) ==
  /\ pc = "idle" /\ p \in previews /\ ~Unfinished /\ begun < MaxTransitions
  /\ previews' = previews \ {p}
  /\ IF Fresh(p)
     THEN /\ plan' = p
          /\ pc' = IF p.reset THEN "remember_previous" ELSE "prepare"
     ELSE UNCHANGED <<plan, pc>>
  /\ UNCHANGED <<files, root, chain, procs, begun, faults>>

\* storage::prepare: make the folder, then write its marker.
Prepare ==
  /\ pc = "prepare"
  /\ LET f == Folder(plan.target) IN
       \/ /\ marker[f] = None
          /\ marker' = [marker EXCEPT ![f] = Unmarked]
          /\ pc' = "mark_new" /\ UNCHANGED plan
       \/ /\ marker[f] = plan.target
          /\ pc' = "remember_previous" /\ UNCHANGED <<marker, plan>>
       \/ /\ marker[f] \notin {None, plan.target}
          /\ pc' = "idle" /\ plan' = None /\ UNCHANGED marker
  /\ UNCHANGED <<journal, active, profiles, root, chain, procs, previews, begun,
                 faults>>

MarkNew ==
  /\ Goto("mark_new", "remember_previous")
  /\ marker' = [marker EXCEPT ![Folder(plan.target)] = plan.target]
  /\ UNCHANGED <<journal, active, profiles, root, chain, procs, plan, previews,
                 begun, faults>>

Remember(i) == profiles' = IF i = None THEN profiles
                           ELSE [profiles EXCEPT ![i.network] = i]

RememberPrevious ==
  /\ Goto("remember_previous", "journal")
  /\ Remember(plan.previous)
  /\ UNCHANGED <<journal, active, marker, root, chain, procs, plan, previews,
                 begun, faults>>

Begin ==
  /\ pc = "journal"
  /\ journal' = [phase |-> "stopping", previous |-> plan.previous,
                 target |-> plan.target, reset |-> plan.reset,
                 deletion_started |-> FALSE]
  /\ pc' = IF plan.reset THEN "guard_stop" ELSE "stop"
  /\ plan' = None /\ begun' = begun + 1
  /\ UNCHANGED <<active, profiles, marker, root, chain, procs, previews, faults>>

-----------------------------------------------------------------------------
(* The root helper: inhibit, release and stop.                             *)

InhibitAllowed ==
  /\ ready.instance \in {journal.previous, journal.target}
  /\ guard.present => /\ guard.previous = journal.previous
                      /\ guard.target = journal.target
  /\ (journal.phase = "activating" /\ ~guard.target_ready) =>
       guard.irreversible /\ ScopeEmpty(Folder(journal.target))

\* Defect: the root checkpoint is raised only once the deletion is over.
InhibitedLate ==
  [present |-> TRUE, previous |-> journal.previous, target |-> journal.target,
   irreversible |-> guard.irreversible \/ journal.phase = "activating",
   target_ready |-> guard.target_ready \/ journal.phase = "activating"]

Inhibited ==
  [present |-> TRUE, previous |-> journal.previous, target |-> journal.target,
   irreversible |-> guard.irreversible \/ journal.phase \in {"resetting", "reset_failed"},
   target_ready |-> guard.target_ready \/ journal.phase = "activating"]

Inhibit(from, to) ==
  /\ pc = from
  /\ IF InhibitAllowed THEN guard' = Inhibited /\ pc' = to
                       ELSE UNCHANGED guard /\ pc' = "idle"
  /\ UNCHANGED <<files, config, ready, chain, procs, plan, previews, begun, faults>>

ReleaseAllowed ==
  /\ \/ journal.phase = "committed"
     \/ /\ ~journal.deletion_started
        /\ journal.phase \in {"stop_failed", "recovering", "rolled_back"}
  /\ guard.irreversible => /\ journal.phase = "committed"
                           /\ guard.target_ready
                           /\ active = guard.target

Release ==
  /\ pc = "release"
  /\ IF ReleaseAllowed
     THEN /\ guard' = NoGuard
          /\ pc' = IF journal.phase = "recovering" THEN "restoring" ELSE "idle"
     ELSE UNCHANGED guard /\ pc' = "idle"
  /\ UNCHANGED <<files, config, ready, chain, procs, plan, previews, begun, faults>>

\* Defect: the units are asked to stop, and nobody waits for them to be gone.
StopRequested(from, to) ==
  /\ Goto(from, to)
  /\ core' \in {core, None} /\ wanted' = FALSE
  /\ UNCHANGED <<files, root, chain, plan, previews, begun, faults>>

\* stop_all proves that every unit's control group is empty before it answers.
StopServices(from, to) ==
  /\ Goto(from, to)
  /\ core' = None /\ wanted' = FALSE
  /\ UNCHANGED <<files, root, chain, plan, previews, begun, faults>>

\* Where finish takes up a transition that has been stopped.
FinishStep ==
  IF ~journal.reset THEN "activate"
  ELSE IF ~journal.deletion_started THEN "validate_scope"
  ELSE IF journal.phase \in {"resetting", "reset_failed"} THEN "guard_reset"
  ELSE IF journal.phase = "activating" THEN "guard_ready"
  ELSE "mark_target"

Stop == StopServices("stop", FinishStep)

\* A stop that is not proved may have stopped nothing, or everything.
StopUnproved == core' \in {core, None} /\ wanted' \in {wanted, FALSE}

StopFails ==
  /\ pc \in {"stop", "restore_stop"} /\ Fault
  /\ StopUnproved
  /\ IF pc = "stop" /\ journal.phase = "stopping"
     THEN /\ Persist("stop_failed")
          /\ pc' = IF journal.reset THEN "release" ELSE "idle"
     ELSE UNCHANGED journal /\ pc' = "idle"
  /\ UNCHANGED <<active, profiles, marker, root, chain, plan, previews, begun>>

-----------------------------------------------------------------------------
(* finish: the reset, then the registration of the target.                 *)

\* The point of no automatic rollback is on disk before the first unlink.
StartDeletion ==
  /\ Goto("validate_scope", "guard_reset")
  /\ journal' = [journal EXCEPT !.phase = "resetting", !.deletion_started = TRUE]
  /\ UNCHANGED <<active, profiles, marker, root, chain, procs, plan, previews,
                 begun, faults>>

\* bitcoind keeps its own data lock while it runs.
ScopeInUse == core # None /\ Folder(core) = Folder(journal.target)

LockScope ==
  /\ pc = "lock_scope" /\ ~ScopeInUse
  /\ pc' = "delete"
  /\ UNCHANGED <<files, root, chain, procs, plan, previews, begun, faults>>

\* The worker unlinks one allowlisted entry at a time.
DeleteEntry(e) ==
  /\ pc = "delete"
  /\ chain[Folder(journal.target)][e] # None
  /\ chain' = [chain EXCEPT ![Folder(journal.target)][e] = None]
  /\ UNCHANGED <<files, root, procs, pc, plan, previews, begun, faults>>

ResetDone ==
  /\ Goto("delete", "guard_ready")
  /\ ScopeEmpty(Folder(journal.target))
  /\ Persist("activating")
  /\ UNCHANGED <<active, profiles, marker, root, chain, procs, plan, previews,
                 begun, faults>>

ResetFails ==
  /\ pc \in {"lock_scope", "delete"} /\ pc' = "idle"
  /\ IF pc = "lock_scope" /\ ScopeInUse THEN UNCHANGED faults ELSE Fault
  /\ Persist("reset_failed")
  /\ UNCHANGED <<active, profiles, marker, root, chain, procs, plan, previews, begun>>

MarkTarget ==
  /\ Goto("mark_target", "activate")
  /\ marker' = [marker EXCEPT ![Folder(journal.target)] = journal.target]
  /\ UNCHANGED <<journal, active, profiles, root, chain, procs, plan, previews,
                 begun, faults>>

ActivateTarget ==
  /\ Goto("activate", "remember_target")
  /\ active' = journal.target
  /\ UNCHANGED <<journal, profiles, marker, root, chain, procs, plan, previews,
                 begun, faults>>

\* Defect: only the profile that is left is remembered.
ForgetTarget ==
  /\ Goto("remember_target", "starting")
  /\ UNCHANGED <<files, root, chain, procs, plan, previews, begun, faults>>

RememberTarget ==
  /\ Goto("remember_target", "starting")
  /\ Remember(journal.target)
  /\ UNCHANGED <<journal, active, marker, root, chain, procs, plan, previews,
                 begun, faults>>

PersistStarting ==
  /\ Goto("starting", "validate_active") /\ Persist("starting")
  /\ UNCHANGED <<active, profiles, marker, root, chain, procs, plan, previews,
                 begun, faults>>

-----------------------------------------------------------------------------
(* start_and_check: the helper renders /etc, registers the node and starts *)
(* the units; the daemon then asks the running Core what it is.            *)

ValidateActive == StopServices("validate_active", "write_configs")
                  /\ active = Selected /\ Registered(Selected)

WriteConfigs ==
  /\ Goto("write_configs", "finish_configs")
  /\ config' = IF config = Selected THEN Selected ELSE Torn
  /\ UNCHANGED <<files, guard, ready, chain, procs, plan, previews, begun, faults>>

FinishConfigs ==
  /\ Goto("finish_configs", "write_ready")
  /\ config' = Selected
  /\ UNCHANGED <<files, guard, ready, chain, procs, plan, previews, begun, faults>>

WriteReady ==
  /\ Goto("write_ready", "launch")
  /\ ready' = [instance |-> marker[Folder(Selected)], config |-> config]
  /\ UNCHANGED <<files, guard, config, chain, procs, plan, previews, begun, faults>>

LaunchSelected ==
  /\ Goto("launch", "check")
  /\ \/ Launch
     \/ core # None /\ UNCHANGED <<core, chain>>
  /\ wanted' = TRUE
  /\ UNCHANGED <<files, root, plan, previews, begun, faults>>

\* getnetworkinfo and getblockchaininfo name the selected version and network.
CheckPasses ==
  /\ pc = "check" /\ core = Selected
  /\ IF journal.phase = "starting"
     THEN /\ Persist("committed")
          /\ pc' = IF journal.reset THEN "release" ELSE "idle"
     ELSE Persist("rolled_back") /\ pc' = "idle"
  /\ UNCHANGED <<active, profiles, marker, root, chain, procs, plan, previews,
                 begun, faults>>

StartImpossible ==
  \/ pc = "validate_active" /\ ~(active = Selected /\ Registered(Selected))
  \/ pc = "launch" /\ core = None /\ ~StartPermitted
  \/ pc = "check" /\ core # Selected

StartFails ==
  /\ pc \in ActivateSteps /\ pc' = "start_failed"
  /\ IF StartImpossible THEN UNCHANGED faults ELSE Fault
  /\ CASE pc = "validate_active" -> StopUnproved
       [] pc = "launch" -> wanted' \in {wanted, TRUE} /\ UNCHANGED core
       [] OTHER -> UNCHANGED procs
  /\ UNCHANGED <<files, root, chain, plan, previews, begun>>

\* Defect: a phase that journal() does not know.
TargetStartUnknown ==
  /\ Goto("start_failed", "idle")
  /\ journal.phase = "starting" /\ journal.deletion_started
  /\ StopUnproved
  /\ Persist("start_failed")
  /\ UNCHANGED <<active, profiles, marker, root, chain, plan, previews, begun, faults>>

\* After a deletion the target is the only way on; its stop may go unproved.
TargetStartFailed ==
  /\ Goto("start_failed", "idle")
  /\ journal.phase = "starting" /\ journal.deletion_started
  /\ StopUnproved
  /\ Persist("target_start_failed")
  /\ UNCHANGED <<active, profiles, marker, root, chain, plan, previews, begun, faults>>

UndoFailedStart ==
  /\ Goto("start_failed", "restore")
  /\ journal.phase = "starting" /\ ~journal.deletion_started
  /\ UNCHANGED <<files, root, chain, procs, plan, previews, begun, faults>>

RestoreFailed ==
  /\ Goto("start_failed", "idle")
  /\ journal.phase = "restoring_previous"
  /\ Persist("recovery_failed")
  /\ UNCHANGED <<active, profiles, marker, root, chain, procs, plan, previews,
                 begun, faults>>

-----------------------------------------------------------------------------
(* restore: back to the previous instance, or to none.                     *)

BeginRestore ==
  /\ Goto("restore", "restore_stop")
  /\ ~journal.deletion_started
  /\ Persist("recovering")
  /\ UNCHANGED <<active, profiles, marker, root, chain, procs, plan, previews,
                 begun, faults>>

RestoreStop == StopServices("restore_stop", "restore_active")

\* Defect: undoing a first selection leaves its registration in place.
RestoreActiveKept ==
  /\ pc = "restore_active"
  /\ journal.previous # None => Registered(journal.previous)
  /\ active' = IF journal.previous = None THEN active ELSE journal.previous
  /\ pc' = IF journal.previous = None THEN "rolled_back"
           ELSE IF journal.reset THEN "release" ELSE "restoring"
  /\ UNCHANGED <<journal, profiles, marker, root, chain, procs, plan, previews,
                 begun, faults>>

\* Defect: the guard is not released on the way back.
RestoreActiveGuarded ==
  /\ pc = "restore_active"
  /\ journal.previous # None => Registered(journal.previous)
  /\ active' = journal.previous
  /\ pc' = IF journal.previous = None THEN "rolled_back" ELSE "restoring"
  /\ UNCHANGED <<journal, profiles, marker, root, chain, procs, plan, previews,
                 begun, faults>>

RestoreActive ==
  /\ pc = "restore_active"
  /\ journal.previous # None => Registered(journal.previous)
  /\ active' = journal.previous
  /\ pc' = IF journal.previous = None THEN "rolled_back"
           ELSE IF journal.reset THEN "release" ELSE "restoring"
  /\ UNCHANGED <<journal, profiles, marker, root, chain, procs, plan, previews,
                 begun, faults>>

PersistRestoring ==
  /\ Goto("restoring", "validate_active") /\ Persist("restoring_previous")
  /\ UNCHANGED <<active, profiles, marker, root, chain, procs, plan, previews,
                 begun, faults>>

PersistRolledBack ==
  /\ Goto("rolled_back", "idle") /\ Persist("rolled_back")
  /\ UNCHANGED <<active, profiles, marker, root, chain, procs, plan, previews,
                 begun, faults>>

-----------------------------------------------------------------------------
(* recover: what the operator asks for after an interrupted transition.    *)

ActiveReviewed == active \in {journal.previous, journal.target}

\* Defect: the rebinding of the folder is expected to come after the activation.
MarkerValidEarly ==
  LET m == marker[Folder(journal.target)] IN
  CASE journal.phase \in {"resetting", "reset_failed", "activating"} -> m = journal.previous
    [] OTHER -> m = journal.target

MarkerValid ==
  LET m == marker[Folder(journal.target)] IN
  CASE journal.phase \in {"resetting", "reset_failed"} -> m = journal.previous
    [] journal.phase = "activating" -> m \in {journal.previous, journal.target}
    [] OTHER -> m = journal.target

ScopeKept == /\ journal.previous # None
             /\ Folder(journal.previous) = Folder(journal.target)

\* Defect: every interrupted transition is undone.
RecoverUndo ==
  /\ pc = "idle" /\ Unfinished /\ ActiveReviewed
  /\ pc' = "restore"
  /\ UNCHANGED <<files, root, chain, procs, plan, previews, begun, faults>>

\* A deletion that started is resumed; anything else is undone.
Recover ==
  /\ pc = "idle" /\ Unfinished /\ ActiveReviewed
  /\ IF journal.deletion_started
     THEN ScopeKept /\ MarkerValid /\ pc' = "guard_stop"
     ELSE pc' = "restore"
  /\ UNCHANGED <<files, root, chain, procs, plan, previews, begun, faults>>

\* After a commit only the guard may be left to release.
RecoverCommitted ==
  /\ Goto("idle", "release")
  /\ journal.phase = "committed" /\ journal.reset
  /\ UNCHANGED <<files, root, chain, procs, plan, previews, begun, faults>>

-----------------------------------------------------------------------------
(* The environment.                                                        *)

\* Steps whose failure the daemon handles itself.
Handled == ActivateSteps \union {"lock_scope", "delete", "stop", "restore_stop"}

\* A helper, worker or write failed and the operation returned the error.
Abort ==
  /\ pc \notin Handled \union {"idle", "start_failed"} /\ pc' = "idle"
  /\ Fault /\ plan' = None
  /\ UNCHANGED <<files, root, chain, procs, previews, begun>>

\* The daemon died (its helper and worker with it), or the power failed.
Crash ==
  /\ pc' = "idle" /\ Fault
  /\ plan' = None /\ previews' = {}
  /\ \/ UNCHANGED procs
     \/ core' = None /\ wanted' = TRUE
  /\ UNCHANGED <<files, root, chain, begun>>

\* systemd starts Core at boot, or again after a failure.
ServiceStart ==
  /\ wanted /\ Launch
  /\ UNCHANGED <<wanted, files, root, pc, plan, previews, begun, faults>>

CoreExits ==
  /\ core # None /\ core' = None /\ Fault
  /\ UNCHANGED <<wanted, files, root, chain, pc, plan, previews, begun>>

-----------------------------------------------------------------------------
Init ==
  /\ journal = NoJournal
  /\ active = None
  /\ profiles = [n \in Networks |-> None]
  /\ marker = [f \in Folders |-> None]
  /\ chain = [f \in Folders |-> [e \in Entries |-> None]]
  /\ guard = NoGuard
  /\ config = None
  /\ ready = [instance |-> None, config |-> None]
  /\ core = None
  /\ wanted = TRUE
  /\ pc = "idle"
  /\ plan = None
  /\ previews = {}
  /\ begun = 0
  /\ faults = 0

Review == \/ \E v \in Versions, n \in Networks : Preview(v, n)
          \/ \E p \in previews : Discard(p) \/ Apply(p)

Operation ==
  \/ Prepare \/ MarkNew \/ RememberPrevious \/ Begin
  \/ Inhibit("guard_stop", "stop") \/ Stop
  \/ StartDeletion \/ Inhibit("guard_reset", "lock_scope") \/ LockScope
  \/ (\E e \in Entries : DeleteEntry(e)) \/ ResetDone
  \/ Inhibit("guard_ready", "mark_target") \/ MarkTarget
  \/ ActivateTarget \/ RememberTarget \/ PersistStarting
  \/ ValidateActive \/ WriteConfigs \/ FinishConfigs \/ WriteReady
  \/ LaunchSelected \/ CheckPasses \/ Release
  \/ TargetStartFailed \/ UndoFailedStart \/ RestoreFailed
  \/ BeginRestore \/ RestoreStop \/ RestoreActive \/ PersistRestoring
  \/ PersistRolledBack

Environment == StopFails \/ ResetFails \/ StartFails \/ Abort \/ Crash
               \/ ServiceStart \/ CoreExits

Next == Review \/ Operation \/ Recover \/ RecoverCommitted \/ Environment

Spec == Init /\ [][Next]_vars

\* The operator asks for recovery again until it ends; the daemon's own steps
\* and the root helper's are never abandoned without a fault.
FairSpec == Spec /\ WF_vars(Operation) /\ WF_vars(StartFails /\ UNCHANGED faults)
                 /\ WF_vars(Recover)

-----------------------------------------------------------------------------
(* Properties.                                                             *)

JournalType ==
  [phase : Phases, previous : Instances \union {None},
   target : Instances \union {None}, reset : BOOLEAN, deletion_started : BOOLEAN]
GuardType ==
  [present : BOOLEAN, previous : Instances \union {None},
   target : Instances \union {None}, irreversible : BOOLEAN, target_ready : BOOLEAN]
ReadyType ==
  [instance : Instances \union {None}, config : Instances \union {None, Torn}]
PreviewType ==
  [previous : Instances \union {None}, target : Instances, reset : BOOLEAN,
   marker : Instances \union {None},
   binding : (Instances \union {None, Torn}) \X ReadyType]

\* Types of the files, the processes and the daemon's memory.
TypeOK ==
  /\ journal \in JournalType
  /\ active \in Instances \union {None}
  /\ profiles \in [Networks -> Instances \union {None}]
  /\ marker \in [Folders -> Instances \union {None, Unmarked}]
  /\ chain \in [Folders -> [Entries -> Versions \union {None}]]
  /\ guard \in GuardType
  /\ config \in Instances \union {None, Torn}
  /\ ready \in ReadyType
  /\ core \in Instances \union {None}
  /\ wanted \in BOOLEAN
  /\ pc \in Steps
  /\ plan \in PreviewType \union {None}
  /\ previews \subseteq PreviewType
  /\ begun \in 0..MaxTransitions
  /\ faults \in 0..MaxFaults

\* Once deletion has been journalled, no step, crash, boot or recovery ever
\* has the previous version running (versions.rs: "previous binary rollback is
\* forbidden after deletion"; the gate and the root guard must agree with it).
OldNeverRunsAfterDeletion ==
  journal.deletion_started => core \in {None, journal.target}

\* Core is only ever started on a data folder that is empty or wholly its own
\* version's: never on another version's database, never on a partial one.
StartsOnOwnData ==
  [][\A i \in Instances :
       (core' = i /\ core # i) =>
         \/ ScopeEmpty(Folder(i))
         \/ \A e \in Entries : chain[Folder(i)][e] = i.version]_vars

\* Chain data disappears only in the reviewed folder, and only after both the
\* journal and the root guard durably say that there is no way back.
DeletionWrittenAhead ==
  [][\A f \in Folders, e \in Entries :
       (chain[f][e] # None /\ chain'[f][e] = None) =>
         /\ journal.reset /\ journal.deletion_started
         /\ guard.irreversible
         /\ f = Folder(journal.target)]_vars

\* Whatever point an operation was cut off at, the files it left pass the
\* consistency checks that recover makes before it resumes.
RecoveryAdmits ==
  (pc = "idle" /\ Unfinished) =>
    /\ ActiveReviewed
    /\ journal.deletion_started => ScopeKept /\ MarkerValid

\* A transition that reports committed or rolled_back leaves a node that the
\* start gate lets boot, whether or not the guard was released in time.
FinishedNodeBoots ==
  (journal.phase \in Terminal /\ active # None) => StartPermitted

\* Between transitions every remembered profile names the folder's marker, so
\* that its network can be selected again.
ProfilesUsable ==
  ~Unfinished => \A n \in Networks :
                   profiles[n] # None => Registered(profiles[n])

\* While the node has no selection and no unfinished transition, another first
\* selection can be reviewed: this is what "Retry node startup" asks for
\* (web/static/app.js, web/node_admin.py Startup.start).
FirstSelectionRetryable ==
  (pc = "idle" /\ ~Unfinished /\ active = None) => HostAdmits

\* The guard of an earlier committed reset whose release was lost.
StaleGuard == guard.present /\ guard.target # journal.target

\* No step refuses what the steps before it have left, whatever was cut off and resumed:
\* only a failure from outside, or a stale guard, keeps an operation from going on.
StepsAdmitted ==
  /\ pc = "lock_scope" => ~ScopeInUse
  /\ pc = "restore" => ~journal.deletion_started
  /\ pc = "restore_active" /\ journal.previous # None => Registered(journal.previous)
  /\ ~StaleGuard =>
       /\ pc \in {"guard_stop", "guard_reset", "guard_ready"} => InhibitAllowed
       /\ pc = "release" => ReleaseAllowed
       /\ pc \in {"validate_active", "launch"} => ~StartImpossible

\* An interrupted transition ends once the operator keeps asking for recovery.
RecoveryEnds == Unfinished ~> ~Unfinished
RecoveryEndsUnlessStale == Unfinished ~> (~Unfinished \/ StaleGuard)

-----------------------------------------------------------------------------
(* The transition implements the switch of VersionSwitch.                  *)

stageBar == IF ~Unfinished THEN "settled"
            ELSE IF journal.deletion_started THEN "irreversible" ELSE "switching"
selectedBar == IF journal.phase = "committed" THEN journal.target ELSE journal.previous
goalBar == IF Unfinished THEN journal.target ELSE None

Switch == INSTANCE VersionSwitch
            WITH stage <- stageBar, selected <- selectedBar, goal <- goalBar,
                 running <- core, data <- chain

\* Every behaviour, crashes and recoveries included, is one of the switch.
ImplementsSwitch == Switch!Spec
=============================================================================
