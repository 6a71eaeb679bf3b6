-------------------------- MODULE PolicyTransaction --------------------------
(***************************************************************************)
(* The journalled change of a node's Core settings (src/src/policy.rs,     *)
(* src/src/policy_service.rs) beside the version service that may select   *)
(* another instance under it (src/src/versions.rs).                        *)
(*                                                                         *)
(* Both daemons take operations.lock for a whole operation: the lock is    *)
(* held exactly while pc or vpc is away from "idle".  Every durable write  *)
(* of a settings change is an action of its own.  Of a version transition  *)
(* only the steps that touch what this daemon uses are here; its journal,  *)
(* guards and undo are VersionTransition's.                                *)
(***************************************************************************)
EXTENDS Naturals, FiniteSets

CONSTANTS
  Folders,      \* data folders, each with its managed.conf
  Versions,     \* Core releases
  Configs,      \* contents of a managed.conf
  Default,      \* the installation's configuration
  MaxPending,   \* reviews held at once (8 in policy_service.rs)
  MaxApplied,   \* bound: settings changes journalled in a behaviour
  MaxSwitches,  \* bound: version transitions begun in a behaviour
  MaxFaults,    \* bound: failures, crashes and power losses in a behaviour
  None          \* no process, no file

Instances == Folders \X Versions
Folder(i)  == i[1]
Version(i) == i[2]

ASSUME ConstantsAssumption ==
  /\ MaxPending \in Nat /\ MaxApplied \in Nat
  /\ MaxSwitches \in Nat /\ MaxFaults \in Nat
  /\ Default \in Configs /\ None \notin Configs /\ None \notin Versions
  /\ None \notin Instances

VARIABLES
  profile,  \* /etc/justverify/profile.json: the instance selected
  managed,  \* managed.conf of each folder
  journal,  \* managed.transaction.json of each folder
  switch,   \* transition.json of the version service
  vpc,      \* where the version service's operation is
  daemon,   \* the profile the settings daemon was started on, if it runs
  pending,  \* its reviews, in memory
  pc,       \* where its operation is
  core,     \* what Core is running: instance and settings it read
  applied,  \* settings changes journalled so far
  switches, \* version transitions begun so far
  faults    \* failures injected so far

counts == <<applied, switches, faults>>
vars == <<profile, managed, journal, switch, vpc, daemon, pending, pc, core,
          applied, switches, faults>>

NoJournal == [phase |-> "none", before |-> None, after |-> None, version |-> None]
Phases == {"none", "prepared", "restarting", "committed", "rolling_back",
           "rolled_back", "recovery_failed"}
Steps  == {"idle", "write_after", "mark_restarting", "restart", "check",
           "mark_rolling_back", "write_before", "mark_failed"}
VersionSteps == {"idle", "stop", "render", "start"}

-----------------------------------------------------------------------------
(* Helpers.                                                                *)

Here == Folder(profile)

Goto(from, to) == pc = from /\ pc' = to
Persist(p) == journal' = [journal EXCEPT ![Here].phase = p]
Fault == faults < MaxFaults /\ faults' = faults + 1

\* transaction_status: needs_recovery.
Unfinished(f) == journal[f].phase \notin {"none", "committed", "rolled_back"}

\* What Core reads when it starts: bitcoin.conf includes the managed file.
Loaded == [instance |-> profile, config |-> managed[Here]]

\* Defect: ensure_no_reset is not asked.
AdmittedUnasked ==
  /\ pc = "idle" /\ vpc = "idle"
  /\ daemon = profile

\* The lock is free, the profile is the one the daemon was started on, and no
\* version transition waits for its recovery.
Admitted ==
  /\ pc = "idle" /\ vpc = "idle"
  /\ daemon = profile
  /\ ~switch.unfinished

-----------------------------------------------------------------------------
(* Review and application of settings.                                     *)

Preview(c) ==
  /\ pc = "idle" /\ daemon = profile
  /\ Cardinality(pending) < MaxPending
  /\ pending' = pending \union {[base |-> managed[Here], after |-> c]}
  /\ UNCHANGED <<profile, managed, journal, switch, vpc, daemon, pc, core, counts>>

\* The 300 s expiry.
Expire(p) ==
  /\ pc = "idle" /\ p \in pending
  /\ pending' = pending \ {p}
  /\ UNCHANGED <<profile, managed, journal, switch, vpc, daemon, pc, core, counts>>

\* Defect: the settings are written before the journal.
ApplyUnjournalled(p) ==
  /\ Admitted /\ p \in pending /\ applied < MaxApplied
  /\ pending' = pending \ {p}
  /\ p.base = managed[Here] /\ ~Unfinished(Here)
  /\ managed' = [managed EXCEPT ![Here] = p.after]
  /\ journal' = [journal EXCEPT ![Here] =
                    [phase |-> "prepared", before |-> p.base,
                     after |-> p.after, version |-> Version(profile)]]
  /\ pc' = "mark_restarting" /\ applied' = applied + 1
  /\ UNCHANGED <<profile, switch, vpc, daemon, core, switches, faults>>

\* Defect: an unfinished change is forgotten by the next one.
ApplyOverUnfinished(p) ==
  /\ Admitted /\ p \in pending /\ applied < MaxApplied
  /\ pending' = pending \ {p}
  /\ p.base = managed[Here]
  /\ journal' = [journal EXCEPT ![Here] =
                    [phase |-> "prepared", before |-> p.base,
                     after |-> p.after, version |-> Version(profile)]]
  /\ pc' = "write_after" /\ applied' = applied + 1
  /\ UNCHANGED <<profile, managed, switch, vpc, daemon, core, switches, faults>>

\* The journal that holds the way back is on disk before the file changes.
Apply(p) ==
  /\ Admitted /\ p \in pending /\ applied < MaxApplied
  /\ pending' = pending \ {p}
  /\ IF p.base = managed[Here] /\ ~Unfinished(Here)
     THEN /\ journal' = [journal EXCEPT ![Here] =
                           [phase |-> "prepared", before |-> p.base,
                            after |-> p.after, version |-> Version(profile)]]
          /\ pc' = "write_after" /\ applied' = applied + 1
     ELSE UNCHANGED <<journal, pc, applied>>
  /\ UNCHANGED <<profile, managed, switch, vpc, daemon, core, switches, faults>>

WriteAfter ==
  /\ Goto("write_after", "mark_restarting")
  /\ managed' = [managed EXCEPT ![Here] = journal[Here].after]
  /\ UNCHANGED <<profile, journal, switch, vpc, daemon, pending, core, counts>>

MarkRestarting ==
  /\ Goto("mark_restarting", "restart") /\ Persist("restarting")
  /\ UNCHANGED <<profile, managed, switch, vpc, daemon, pending, core, counts>>

\* restart-core.sh: systemctl restart waits for the old process to be gone.
Restart ==
  /\ Goto("restart", "check")
  /\ core' = Loaded
  /\ UNCHANGED <<profile, managed, journal, switch, vpc, daemon, pending, counts>>

\* The verify_* calls compare the running Core with the file as it is now.
Observed == core = Loaded

CheckPasses ==
  /\ Goto("check", "idle") /\ Observed
  /\ Persist(IF journal[Here].phase = "restarting" THEN "committed" ELSE "rolled_back")
  /\ UNCHANGED <<profile, managed, switch, vpc, daemon, pending, core, counts>>

\* The helper failed at some point, or Core did not answer as it should.
RestartFails ==
  /\ pc \in {"restart", "check"}
  /\ IF pc = "check" /\ ~Observed THEN UNCHANGED faults ELSE Fault
  /\ IF pc = "restart" THEN core' \in {core, None, Loaded} ELSE UNCHANGED core
  /\ pc' = IF journal[Here].phase = "restarting" THEN "mark_rolling_back"
                                                 ELSE "mark_failed"
  /\ UNCHANGED <<profile, managed, journal, switch, vpc, daemon, pending,
                 applied, switches>>

MarkRollingBack ==
  /\ Goto("mark_rolling_back", "write_before") /\ Persist("rolling_back")
  /\ UNCHANGED <<profile, managed, switch, vpc, daemon, pending, core, counts>>

WriteBefore ==
  /\ Goto("write_before", "restart")
  /\ managed' = [managed EXCEPT ![Here] = journal[Here].before]
  /\ UNCHANGED <<profile, journal, switch, vpc, daemon, pending, core, counts>>

\* Defect: a phase that nothing else knows.
MarkFailedUnknown ==
  /\ Goto("mark_failed", "idle") /\ Persist("failed")
  /\ UNCHANGED <<profile, managed, switch, vpc, daemon, pending, core, counts>>
MarkFailed ==
  /\ Goto("mark_failed", "idle") /\ Persist("recovery_failed")
  /\ UNCHANGED <<profile, managed, switch, vpc, daemon, pending, core, counts>>

\* Defect: only a change that reached the file can be undone.
RecoverableAfter ==
  /\ journal[Here].version = Version(profile)
  /\ managed[Here] = journal[Here].after
Recoverable ==
  /\ journal[Here].version = Version(profile)
  /\ managed[Here] \in {journal[Here].before, journal[Here].after}

\* Defect: nothing is restarted when the file already holds the old settings.
RecoverUnlessRestored ==
  /\ Admitted /\ Unfinished(Here) /\ Recoverable
  /\ IF managed[Here] = journal[Here].before
     THEN Persist("rolled_back") /\ UNCHANGED pc
     ELSE Persist("rolling_back") /\ pc' = "write_before"
  /\ UNCHANGED <<profile, managed, switch, vpc, daemon, pending, core, counts>>

\* recover: an unfinished change is always undone, by the binary that began it.
Recover ==
  /\ Admitted /\ Unfinished(Here) /\ Recoverable
  /\ Persist("rolling_back") /\ pc' = "write_before"
  /\ UNCHANGED <<profile, managed, switch, vpc, daemon, pending, core, counts>>

-----------------------------------------------------------------------------
(* The version service.                                                    *)

\* Defect: only the target is asked.
SwitchPermittedByTarget(t) == ~Unfinished(Folder(t))

\* Neither the instance that is left nor the one selected may have a settings
\* change to recover.
SwitchPermitted(t) == ~Unfinished(Here) /\ ~Unfinished(Folder(t))

\* What apply asks before it writes anything.
Selectable(t) ==
  /\ pc = "idle" /\ vpc = "idle" /\ ~switch.unfinished
  /\ t # profile /\ switches < MaxSwitches
  /\ SwitchPermitted(t)

\* A folder without settings gets the installation's.  apply goes on to its
\* journal under the lock; cut off here, it leaves a furnished folder and no
\* transition.
Furnish(t) ==
  /\ Selectable(t) /\ managed[Folder(t)] = None
  /\ managed' = [managed EXCEPT ![Folder(t)] = Default]
  /\ UNCHANGED <<profile, journal, switch, vpc, daemon, pending, pc, core, counts>>

BeginSwitch(t) ==
  /\ Selectable(t) /\ managed[Folder(t)] # None
  /\ switch' = [unfinished |-> TRUE, previous |-> profile, target |-> t]
  /\ vpc' = "stop" /\ switches' = switches + 1
  /\ UNCHANGED <<profile, managed, journal, daemon, pending, pc, core, applied, faults>>

\* stop_all: the settings daemon is one of the units.
StopUnits ==
  /\ vpc = "stop" /\ vpc' = "render"
  /\ daemon' = None /\ pending' = {} /\ core' = None
  /\ UNCHANGED <<profile, managed, journal, switch, pc, counts>>

\* activate renders the target's profile, or the previous one's to undo.
Render(i) ==
  /\ vpc = "render" /\ vpc' = "start"
  /\ i \in {switch.previous, switch.target}
  /\ profile' = i
  /\ UNCHANGED <<managed, journal, switch, daemon, pending, pc, core, counts>>

StartUnits ==
  /\ vpc = "start" /\ vpc' = "idle"
  /\ daemon' = profile /\ core' = Loaded
  /\ switch' = [switch EXCEPT !.unfinished = FALSE]
  /\ UNCHANGED <<profile, managed, journal, pending, pc, counts>>

\* A step failed: the transition is undone at once or left for its recovery.
SwitchFails ==
  /\ vpc # "idle" /\ Fault
  /\ CASE vpc = "stop"   -> /\ vpc' = "idle" /\ core' \in {core, None}
                            /\ \/ UNCHANGED <<daemon, pending>>
                               \/ daemon' = None /\ pending' = {}
       [] vpc = "render" -> vpc' = "idle" /\ UNCHANGED <<daemon, pending, core>>
       [] vpc = "start"  -> /\ vpc' \in {"idle", "stop"} /\ core' \in {core, Loaded}
                            /\ daemon' \in {daemon, profile} /\ UNCHANGED pending
  /\ UNCHANGED <<profile, managed, journal, switch, pc, applied, switches>>

RecoverSwitch ==
  /\ pc = "idle" /\ vpc = "idle" /\ switch.unfinished
  /\ vpc' = "stop"
  /\ UNCHANGED <<profile, managed, journal, switch, daemon, pending, pc, core, counts>>

-----------------------------------------------------------------------------
(* The environment.                                                        *)

\* A durable write failed, that of the verdict among them, and the operation
\* returned the error.  A restart and a check that fail are RestartFails.
Abort ==
  /\ pc \notin {"idle", "restart"} /\ (pc = "check" => Observed)
  /\ pc' = "idle" /\ Fault
  /\ UNCHANGED <<profile, managed, journal, switch, vpc, daemon, pending, core,
                 applied, switches>>

DaemonDies ==
  /\ daemon # None /\ Fault
  /\ daemon' = None /\ pending' = {} /\ pc' = "idle"
  /\ UNCHANGED <<profile, managed, journal, switch, vpc, core, applied, switches>>

PowerLoss ==
  /\ Fault
  /\ daemon' = None /\ pending' = {} /\ pc' = "idle" /\ vpc' = "idle" /\ core' = None
  /\ UNCHANGED <<profile, managed, journal, switch, applied, switches>>

\* systemd starts what it keeps running; not what a transition has stopped.
Supervised == vpc \in {"idle", "stop"}

DaemonStarts ==
  /\ daemon = None /\ Supervised
  /\ daemon' = profile
  /\ UNCHANGED <<profile, managed, journal, switch, vpc, pending, pc, core, counts>>

CoreStarts ==
  /\ core = None /\ Supervised
  /\ core' = Loaded
  /\ UNCHANGED <<profile, managed, journal, switch, vpc, daemon, pending, pc, counts>>

CoreExits ==
  /\ core # None /\ core' = None /\ Fault
  /\ UNCHANGED <<profile, managed, journal, switch, vpc, daemon, pending, pc,
                 applied, switches>>

-----------------------------------------------------------------------------
\* An instance has been selected and its node runs on the installation's
\* settings.
Init ==
  /\ profile \in Instances
  /\ managed = [f \in Folders |-> IF f = Folder(profile) THEN Default ELSE None]
  /\ journal = [f \in Folders |-> NoJournal]
  /\ switch = [unfinished |-> FALSE, previous |-> None, target |-> None]
  /\ vpc = "idle"
  /\ daemon = profile
  /\ pending = {}
  /\ pc = "idle"
  /\ core = [instance |-> profile, config |-> Default]
  /\ applied = 0 /\ switches = 0 /\ faults = 0

Review == \/ \E c \in Configs : Preview(c)
          \/ \E p \in pending : Expire(p) \/ Apply(p)

Operation == \/ WriteAfter \/ MarkRestarting \/ Restart \/ CheckPasses
             \/ MarkRollingBack \/ WriteBefore \/ MarkFailed

Switching == StopUnits \/ (\E i \in Instances : Render(i)) \/ StartUnits

Supervision == DaemonStarts \/ CoreStarts

Environment == \/ RestartFails \/ SwitchFails \/ Abort
               \/ DaemonDies \/ PowerLoss \/ CoreExits

Next == \/ Review \/ Operation \/ Recover \/ Switching \/ RecoverSwitch
        \/ (\E t \in Instances : Furnish(t) \/ BeginSwitch(t))
        \/ Supervision \/ Environment

Spec == Init /\ [][Next]_vars

\* Running operations go on, systemd keeps the daemon up, and the operator asks
\* for the recoveries that are due.
FairSpec ==
  /\ Spec
  /\ WF_vars(Operation) /\ WF_vars(RestartFails /\ UNCHANGED faults)
  /\ WF_vars(Switching) /\ WF_vars(DaemonStarts)
  /\ WF_vars(Recover) /\ WF_vars(RecoverSwitch)

-----------------------------------------------------------------------------
(* Properties.                                                             *)

Journals == [phase : Phases, before : Configs \union {None},
             after : Configs \union {None}, version : Versions \union {None}]
Plans    == [base : Configs, after : Configs]
Runs     == [instance : Instances, config : Configs]

\* Types of the files, the processes and the daemon's memory.
TypeOK ==
  /\ profile \in Instances
  /\ managed \in [Folders -> Configs \union {None}]
  /\ journal \in [Folders -> Journals]
  /\ switch \in [unfinished : BOOLEAN, previous : Instances \union {None},
                 target : Instances \union {None}]
  /\ vpc \in VersionSteps
  /\ daemon \in Instances \union {None}
  /\ pending \subseteq Plans
  /\ pc \in Steps
  /\ core \in Runs \union {None}
  /\ applied \in 0..MaxApplied
  /\ switches \in 0..MaxSwitches
  /\ faults \in 0..MaxFaults

\* A settings change and a version transition never wait for recovery together:
\* each daemon refuses to begin while the other's journal is unfinished, under
\* one lock (ensure_no_reset, Versions::apply).
NoConcurrentChange == switch.unfinished => \A f \in Folders : ~Unfinished(f)

\* An unfinished change is the selected instance's own, and its file holds one
\* of the two texts its journal names: recover never meets a change that it
\* must refuse, whatever was cut off and whichever instance was selected since.
RecoveryAdmits ==
  \A f \in Folders : Unfinished(f) => f = Here /\ Recoverable

\* Once no change is unfinished, a running Core has read the settings on disk:
\* neither a rollback nor a crash leaves it on settings that were withdrawn.
SettledConfigInForce ==
  (~Unfinished(Here) /\ ~switch.unfinished /\ core # None) => core = Loaded

\* Settings are replaced only while a journal on disk holds the old and the new
\* text (SETTINGS.md: "saved atomically and checked after restart").
ConfigWrittenAhead ==
  [][\A f \in Folders :
       (managed[f] # None /\ managed'[f] # managed[f]) =>
         /\ Unfinished(f)
         /\ {managed[f], managed'[f]} \subseteq {journal[f].before, journal[f].after}
    ]_vars

\* Every settings change ends, once failures do.
ChangeEnds == \A f \in Folders : Unfinished(f) ~> ~Unfinished(f)

-----------------------------------------------------------------------------
(* The transaction implements the change of ConfigChange.                  *)

settingBar == [f \in Folders |-> IF Unfinished(f) THEN journal[f].before ELSE managed[f]]
proposalBar == IF Unfinished(Here) THEN journal[Here].after ELSE None

Change == INSTANCE ConfigChange
            WITH selected <- profile, setting <- settingBar,
                 proposal <- proposalBar, running <- core

\* Seen through its journal, a settings change is one step: committed after Core
\* ran on it, or withdrawn with Core back on the settings before it.
ImplementsConfigChange == Change!Spec
=============================================================================
