----------------------- MODULE PolicyTransaction_proofs -----------------------
(***************************************************************************)
(* Proofs about PolicyTransaction, for every set of folders, releases and  *)
(* settings, and for every bound.                                          *)
(*                                                                         *)
(* Two invariants carry them.  Exclusive says who may be at work while     *)
(* what is unfinished; AtStep says which of its two texts the file holds   *)
(* at each step of a settings change.                                      *)
(***************************************************************************)
EXTENDS PolicyTransaction, TLAPS

-----------------------------------------------------------------------------
(* The inductive invariant.                                                *)

\* operations.lock, and what its holder has made of the journals.
Exclusive ==
  /\ pc = "idle" \/ vpc = "idle"
  /\ pc # "idle" => Unfinished(Here)
  /\ vpc # "idle" => switch.unfinished
  /\ vpc = "render" => core = None

\* Whatever may be selected has settings, and a journal in use holds two texts.
Furnished ==
  /\ managed[Here] # None
  /\ switch.unfinished =>
       \A i \in {switch.previous, switch.target} :
         i \in Instances /\ managed[Folder(i)] # None
  /\ \A f \in Folders :
       Unfinished(f) => journal[f].before \in Configs /\ journal[f].after \in Configs

\* Which text the file holds where the operation is.
AtStep ==
  LET j == journal[Here]  m == managed[Here] IN
    /\ pc \in {"write_after", "mark_failed"} => m = j.before
    /\ pc = "mark_restarting" => m = j.after
    /\ pc = "write_before" => j.phase = "rolling_back"
    /\ pc \in {"restart", "check"} =>
         m = IF j.phase = "restarting" THEN j.after ELSE j.before

Inductive ==
  /\ TypeOK /\ Exclusive /\ Furnished /\ AtStep
  /\ NoConcurrentChange /\ RecoveryAdmits /\ SettledConfigInForce

-----------------------------------------------------------------------------
(* The initial state, and one lemma for each part of the next-state        *)
(* relation.                                                               *)

LEMMA InitHolds == Init => Inductive
<1> SUFFICES ASSUME Init PROVE Inductive
  OBVIOUS
<1> USE ConstantsAssumption
<1>1. Here \in Folders
  BY DEF Init, Here, Folder, Instances
<1>2. \A f \in Folders : ~Unfinished(f)
  BY DEF Init, Unfinished, NoJournal
<1>3. TypeOK
  BY <1>1 DEF Init, TypeOK, Here, Instances, Folder, Journals, NoJournal, Phases,
              VersionSteps, Steps, Runs
<1>4. Exclusive /\ AtStep /\ NoConcurrentChange
  BY DEF Init, Exclusive, AtStep, NoConcurrentChange
<1>5. Furnished /\ SettledConfigInForce
  BY <1>1, <1>2 DEF Init, Furnished, SettledConfigInForce, Here, Loaded
<1>6. RecoveryAdmits
  BY <1>2 DEF RecoveryAdmits
<1> QED
  BY <1>3, <1>4, <1>5, <1>6 DEF Inductive

\* Reviews change nothing on disk; applying one journals it in the selected
\* folder alone.
LEMMA ReviewStep ==
  ASSUME Inductive, Review
  PROVE  Inductive'
<1> USE DEF Inductive
<1>1. Here \in Folders /\ managed[Here] \in Configs
  BY DEF TypeOK, Here, Folder, Instances, Furnished
<1>2. ASSUME NEW c \in Configs, Preview(c)
      PROVE  Inductive'
  BY <1>1, <1>2
     DEF Preview, counts, TypeOK, Plans, Exclusive, Furnished, AtStep, Unfinished,
         Here, NoConcurrentChange, RecoveryAdmits, Recoverable, SettledConfigInForce,
         Loaded
<1>3. ASSUME NEW p \in pending, Expire(p)
      PROVE  Inductive'
  BY <1>3
     DEF Expire, counts, TypeOK, Exclusive, Furnished, AtStep, Unfinished, Here,
         NoConcurrentChange, RecoveryAdmits, Recoverable, SettledConfigInForce, Loaded
<1>4. ASSUME NEW p \in pending, Apply(p)
      PROVE  Inductive'
  <2>1. CASE ~(p.base = managed[Here] /\ ~Unfinished(Here))
    BY <1>4, <2>1
       DEF Apply, TypeOK, Exclusive, Furnished, AtStep, Unfinished, Here,
           NoConcurrentChange, RecoveryAdmits, Recoverable, SettledConfigInForce, Loaded
  <2>2. CASE p.base = managed[Here] /\ ~Unfinished(Here)
    <3>1. p \in Plans /\ Version(profile) \in Versions
      BY DEF TypeOK, Version, Instances
    <3>2. journal' = [journal EXCEPT ![Here] =
                        [phase |-> "prepared", before |-> p.base,
                         after |-> p.after, version |-> Version(profile)]]
          /\ pc' = "write_after" /\ pc = "idle" /\ vpc = "idle" /\ ~switch.unfinished
          /\ UNCHANGED <<profile, managed, switch, vpc, daemon, core>>
      BY <1>4, <2>2 DEF Apply, Admitted
    <3>3. Here' = Here /\ Unfinished(Here)'
      BY <1>1, <3>2 DEF Here, Unfinished, TypeOK
    <3>4. \A f \in Folders : f # Here => ~Unfinished(f) /\ ~Unfinished(f)'
      BY <3>2, <2>2 DEF RecoveryAdmits, Unfinished, TypeOK
    <3>5. TypeOK'
      <4>1. [phase |-> "prepared", before |-> p.base, after |-> p.after,
             version |-> Version(profile)] \in Journals
        BY <3>1 DEF Journals, Phases, Plans
      <4>2. journal' \in [Folders -> Journals]
        BY <3>2, <4>1 DEF TypeOK
      <4>3. pending' \subseteq Plans /\ UNCHANGED <<switches, faults>>
        BY <1>4 DEF TypeOK, Apply
      <4>4. applied' \in 0..MaxApplied
        BY <1>4, <2>2, ConstantsAssumption DEF TypeOK, Apply
      <4> QED
        BY <3>2, <4>2, <4>3, <4>4 DEF TypeOK, Steps
    <3>6. Furnished' /\ AtStep' /\ RecoveryAdmits'
      BY <1>1, <2>2, <3>1, <3>2, <3>3, <3>4
         DEF Furnished, AtStep, RecoveryAdmits, Recoverable, Plans, TypeOK
    <3>7. Exclusive' /\ NoConcurrentChange' /\ SettledConfigInForce'
      BY <3>2, <3>3 DEF Exclusive, NoConcurrentChange, SettledConfigInForce
    <3> QED
      BY <3>5, <3>6, <3>7
  <2> QED
    BY <2>1, <2>2
<1> QED
  BY <1>2, <1>3, <1>4 DEF Review

\* The daemon's steps write the journal and the file of the selected folder.
LEMMA OperationStep ==
  ASSUME Inductive, Operation \/ Recover \/ RestartFails
  PROVE  Inductive'
<1> USE DEF Inductive
<1>1. Here \in Folders /\ managed[Here] \in Configs /\ journal[Here] \in Journals
  BY DEF TypeOK, Here, Folder, Instances, Furnished
<1>2. UNCHANGED <<profile, switch, vpc, daemon, pending, applied, switches>> /\ vpc = "idle"
  BY DEF Operation, WriteAfter, MarkRestarting, Restart, CheckPasses, MarkRollingBack,
         WriteBefore, MarkFailed, Recover, RestartFails, Exclusive, Goto, counts,
         Admitted
<1>3. Here' = Here /\ ~switch.unfinished /\ Unfinished(Here)
  <2>1. Unfinished(Here)
    BY DEF Operation, WriteAfter, MarkRestarting, Restart, CheckPasses, MarkRollingBack,
           WriteBefore, MarkFailed, Recover, RestartFails, Exclusive, Goto
  <2> QED
    BY <1>1, <1>2, <2>1 DEF Here, NoConcurrentChange
<1>4. journal[Here].before \in Configs /\ journal[Here].after \in Configs
      /\ Recoverable
  BY <1>1, <1>3 DEF Furnished, RecoveryAdmits
<1>5. ASSUME NEW p \in Phases, Persist(p), UNCHANGED managed
      PROVE  /\ journal'[Here] = [journal[Here] EXCEPT !.phase = p]
             /\ journal' \in [Folders -> Journals]
             /\ Furnished' /\ RecoveryAdmits' /\ NoConcurrentChange'
  <2>1. /\ journal'[Here] = [journal[Here] EXCEPT !.phase = p]
        /\ journal' \in [Folders -> Journals]
        /\ \A f \in Folders : f # Here => journal'[f] = journal[f]
    BY <1>1, <1>5 DEF Persist, TypeOK, Journals
  <2>2. \A f \in Folders : Unfinished(f)' => Unfinished(f)
    BY <1>3, <2>1 DEF Unfinished
  <2>3. Furnished'
    BY <1>1, <1>2, <1>3, <1>5, <2>1, <2>2 DEF Furnished, Journals
  <2>4. RecoveryAdmits' /\ NoConcurrentChange'
    BY <1>1, <1>2, <1>3, <1>4, <1>5, <2>1, <2>2
       DEF RecoveryAdmits, Recoverable, Journals, NoConcurrentChange
  <2> QED
    BY <2>1, <2>3, <2>4
<1>6. ASSUME NEW t \in {journal[Here].before, journal[Here].after},
             managed' = [managed EXCEPT ![Here] = t], UNCHANGED journal
      PROVE  /\ managed' \in [Folders -> Configs \union {None}]
             /\ managed'[Here] = t
             /\ Furnished' /\ RecoveryAdmits' /\ NoConcurrentChange'
             /\ Unfinished(Here)'
  <2>1. /\ managed' \in [Folders -> Configs \union {None}]
        /\ managed'[Here] = t /\ t \in Configs
        /\ \A f \in Folders : f # Here => managed'[f] = managed[f]
    BY <1>1, <1>4, <1>6 DEF TypeOK
  <2>2. t # None
    BY <2>1, ConstantsAssumption
  <2>3. \A f \in Folders : Unfinished(f)' <=> Unfinished(f)
    BY <1>6 DEF Unfinished
  <2>4. Furnished'
    BY <1>2, <1>3, <1>6, <2>1, <2>2, <2>3 DEF Furnished
  <2>5. RecoveryAdmits' /\ NoConcurrentChange' /\ Unfinished(Here)'
    BY <1>1, <1>2, <1>3, <1>4, <1>6, <2>1, <2>3
       DEF RecoveryAdmits, Recoverable, NoConcurrentChange
  <2> QED
    BY <2>1, <2>4, <2>5
<1>7. CASE WriteAfter
  <2>1. pc' = "mark_restarting" /\ UNCHANGED core
        /\ managed' = [managed EXCEPT ![Here] = journal[Here].after]
        /\ UNCHANGED <<journal, faults>>
    BY <1>7 DEF WriteAfter, Goto, counts
  <2>2. TypeOK'
    BY <1>2, <1>6, <2>1 DEF TypeOK, Steps
  <2>3. AtStep' /\ Exclusive' /\ SettledConfigInForce'
    BY <1>2, <1>3, <1>6, <2>1 DEF AtStep, Exclusive, SettledConfigInForce
  <2> QED
    BY <1>6, <2>1, <2>2, <2>3
<1>8. CASE WriteBefore
  <2>1. pc' = "restart" /\ UNCHANGED core /\ pc = "write_before"
        /\ managed' = [managed EXCEPT ![Here] = journal[Here].before]
        /\ UNCHANGED <<journal, faults>>
    BY <1>8 DEF WriteBefore, Goto, counts
  <2>2. TypeOK'
    BY <1>2, <1>6, <2>1 DEF TypeOK, Steps
  <2>3. AtStep' /\ Exclusive' /\ SettledConfigInForce'
    BY <1>2, <1>3, <1>6, <2>1 DEF AtStep, Exclusive, SettledConfigInForce
  <2> QED
    BY <1>6, <2>1, <2>2, <2>3
<1>9. CASE MarkRestarting
  <2>1. Persist("restarting") /\ UNCHANGED <<managed, core, faults>>
        /\ pc = "mark_restarting" /\ pc' = "restart"
    BY <1>9 DEF MarkRestarting, Goto, counts
  <2>2. journal'[Here].phase = "restarting" /\ journal'[Here].after = journal[Here].after
    BY <1>1, <1>5, <2>1 DEF Phases, Journals
  <2>3. TypeOK'
    BY <1>2, <1>5, <2>1 DEF TypeOK, Steps, Phases
  <2>4. AtStep' /\ Exclusive' /\ SettledConfigInForce'
    BY <1>2, <1>3, <2>1, <2>2
       DEF AtStep, Exclusive, SettledConfigInForce, Unfinished
  <2> QED
    BY <1>5, <2>1, <2>3, <2>4 DEF Phases
<1>10. CASE Restart
  <2>1. core' = Loaded /\ UNCHANGED <<managed, journal, faults>>
        /\ pc = "restart" /\ pc' = "check"
    BY <1>10 DEF Restart, Goto, counts
  <2>2. TypeOK'
    BY <1>1, <1>2, <2>1 DEF TypeOK, Steps, Loaded, Runs
  <2>3. Exclusive' /\ Furnished' /\ AtStep'
    BY <1>2, <1>3, <2>1 DEF AtStep, Exclusive, Furnished, Unfinished
  <2>4. NoConcurrentChange' /\ RecoveryAdmits' /\ SettledConfigInForce'
    BY <1>2, <1>3, <2>1
       DEF NoConcurrentChange, RecoveryAdmits, Recoverable, SettledConfigInForce,
           Unfinished, Loaded
  <2> QED
    BY <2>2, <2>3, <2>4
<1>11. CASE CheckPasses
  <2> DEFINE p == IF journal[Here].phase = "restarting" THEN "committed" ELSE "rolled_back"
  <2>1. Persist(p) /\ UNCHANGED <<managed, core, faults>> /\ pc' = "idle" /\ core = Loaded
    BY <1>11 DEF CheckPasses, Goto, counts, Observed
  <2>2. p \in Phases
    BY DEF Phases
  <2>3. TypeOK'
    BY <1>2, <1>5, <2>1, <2>2 DEF TypeOK, Steps
  <2>4. AtStep' /\ Exclusive'
    BY <1>2, <2>1 DEF AtStep, Exclusive
  <2>5. SettledConfigInForce'
    BY <1>2, <1>3, <2>1 DEF SettledConfigInForce, Loaded
  <2> QED
    BY <1>5, <2>1, <2>2, <2>3, <2>4, <2>5
<1>12. CASE MarkRollingBack
  <2>1. Persist("rolling_back") /\ UNCHANGED <<managed, core, faults>>
        /\ pc' = "write_before"
    BY <1>12 DEF MarkRollingBack, Goto, counts
  <2>2. journal'[Here].phase = "rolling_back"
    BY <1>1, <1>5, <2>1 DEF Phases, Journals
  <2>3. TypeOK'
    BY <1>2, <1>5, <2>1 DEF TypeOK, Steps, Phases
  <2>4. AtStep' /\ Exclusive' /\ SettledConfigInForce'
    BY <1>2, <1>3, <2>1, <2>2
       DEF AtStep, Exclusive, SettledConfigInForce, Unfinished
  <2> QED
    BY <1>5, <2>1, <2>3, <2>4 DEF Phases
<1>13. CASE MarkFailed
  <2>1. Persist("recovery_failed") /\ UNCHANGED <<managed, core, faults>>
        /\ pc' = "idle"
    BY <1>13 DEF MarkFailed, Goto, counts
  <2>2. journal'[Here].phase = "recovery_failed"
    BY <1>1, <1>5, <2>1 DEF Phases, Journals
  <2>3. TypeOK'
    BY <1>2, <1>5, <2>1 DEF TypeOK, Steps, Phases
  <2>4. AtStep' /\ Exclusive' /\ SettledConfigInForce'
    BY <1>2, <1>3, <2>1, <2>2
       DEF AtStep, Exclusive, SettledConfigInForce, Unfinished
  <2> QED
    BY <1>5, <2>1, <2>3, <2>4 DEF Phases
<1>14. CASE Recover
  <2>1. Persist("rolling_back") /\ UNCHANGED <<managed, core, faults>>
        /\ pc' = "write_before"
    BY <1>14 DEF Recover, Goto, counts
  <2>2. journal'[Here].phase = "rolling_back"
    BY <1>1, <1>5, <2>1 DEF Phases, Journals
  <2>3. TypeOK'
    BY <1>2, <1>5, <2>1 DEF TypeOK, Steps, Phases
  <2>4. AtStep' /\ Exclusive' /\ SettledConfigInForce'
    BY <1>2, <1>3, <2>1, <2>2
       DEF AtStep, Exclusive, SettledConfigInForce, Unfinished
  <2> QED
    BY <1>5, <2>1, <2>3, <2>4 DEF Phases
<1>15. CASE RestartFails
  <2>1. core' \in {core, None, Loaded} /\ UNCHANGED <<managed, journal>>
        /\ pc \in {"restart", "check"}
        /\ pc' = IF journal[Here].phase = "restarting" THEN "mark_rolling_back"
                                                       ELSE "mark_failed"
    BY <1>15 DEF RestartFails
  <2>2. faults' \in 0..MaxFaults
    BY <1>15, ConstantsAssumption DEF RestartFails, Fault, TypeOK
  <2>3. TypeOK'
    BY <1>1, <1>2, <2>1, <2>2 DEF TypeOK, Steps, Loaded, Runs
  <2>4. Exclusive' /\ Furnished' /\ AtStep'
    BY <1>2, <1>3, <2>1 DEF AtStep, Exclusive, Furnished, Unfinished
  <2>5. NoConcurrentChange' /\ RecoveryAdmits' /\ SettledConfigInForce'
    BY <1>2, <1>3, <2>1
       DEF NoConcurrentChange, RecoveryAdmits, Recoverable, SettledConfigInForce,
           Unfinished, Loaded
  <2> QED
    BY <2>3, <2>4, <2>5
<1> QED
  BY <1>7, <1>8, <1>9, <1>10, <1>11, <1>12, <1>13, <1>14, <1>15 DEF Operation

\* A transition begins, stops the units and starts those of what it selects,
\* with no settings change to recover.
LEMMA SwitchingStep ==
  ASSUME Inductive,
         \/ Switching \/ RecoverSwitch \/ SwitchFails
         \/ \E t \in Instances : Furnish(t) \/ BeginSwitch(t)
  PROVE  Inductive'
<1> USE DEF Inductive
<1>1. Here \in Folders /\ managed[Here] \in Configs
  BY DEF TypeOK, Here, Folder, Instances, Furnished
<1>2. \A f \in Folders : Unfinished(f)' <=> Unfinished(f)
  BY DEF Unfinished, Switching, StopUnits, Render, StartUnits, RecoverSwitch,
         SwitchFails, Furnish, BeginSwitch
<1>3. pc = "idle" /\ UNCHANGED <<journal, pc>>
  BY DEF Switching, StopUnits, Render, StartUnits, RecoverSwitch, SwitchFails,
         Furnish, BeginSwitch, Selectable, counts, Exclusive
<1>4. \A f \in Folders : ~Unfinished(f)
  <2>1. CASE switch.unfinished
    BY <2>1 DEF NoConcurrentChange
  <2>2. CASE \E t \in Instances : Furnish(t) \/ BeginSwitch(t)
    BY <2>2 DEF Furnish, BeginSwitch, Selectable, SwitchPermitted, RecoveryAdmits
  <2> QED
    BY <2>1, <2>2 DEF Switching, StopUnits, Render, StartUnits, RecoverSwitch,
       SwitchFails, Exclusive
<1>5. NoConcurrentChange' /\ RecoveryAdmits' /\ AtStep'
  BY <1>2, <1>3, <1>4 DEF NoConcurrentChange, RecoveryAdmits, AtStep
<1>6. ASSUME NEW t \in Instances, BeginSwitch(t)
      PROVE  Inductive'
  <2>1. switches' \in 0..MaxSwitches
    BY <1>6, ConstantsAssumption DEF BeginSwitch, Selectable, TypeOK
  <2>2. TypeOK'
    BY <1>6, <2>1 DEF BeginSwitch, TypeOK, VersionSteps
  <2>3. Exclusive' /\ Furnished' /\ SettledConfigInForce'
    BY <1>1, <1>2, <1>4, <1>6
       DEF BeginSwitch, Selectable, Exclusive, Furnished, SettledConfigInForce, TypeOK,
           Here
  <2> QED
    BY <1>5, <2>2, <2>3
<1>7. CASE StopUnits
  BY <1>2, <1>4, <1>5, <1>7
     DEF StopUnits, counts, TypeOK, VersionSteps, Exclusive, Furnished,
         SettledConfigInForce, Here
<1>8. ASSUME NEW i \in Instances, Render(i)
      PROVE  Inductive'
  BY <1>2, <1>4, <1>5, <1>8
     DEF Render, counts, TypeOK, VersionSteps, Exclusive, Furnished,
         SettledConfigInForce, Here
<1>9. CASE StartUnits
  <2>1. TypeOK'
    BY <1>1, <1>9 DEF StartUnits, counts, TypeOK, VersionSteps, Loaded, Runs
  <2>2. Exclusive' /\ Furnished' /\ SettledConfigInForce'
    BY <1>2, <1>3, <1>4, <1>9
       DEF StartUnits, counts, TypeOK, Exclusive, Furnished, SettledConfigInForce,
           Here, Loaded
  <2> QED
    BY <1>5, <2>1, <2>2
<1>10. CASE SwitchFails
  <2>1. switch.unfinished /\ UNCHANGED <<profile, managed, switch, applied, switches>>
    BY <1>10 DEF SwitchFails, Exclusive
  <2>2. faults' \in 0..MaxFaults
    BY <1>10, ConstantsAssumption DEF SwitchFails, Fault, TypeOK
  <2>3. /\ vpc' \in {"idle", "stop"} /\ core' \in {core, None, Loaded}
        /\ daemon' \in {daemon, None, profile} /\ pending' \in {pending, {}}
    BY <1>10 DEF SwitchFails, TypeOK, VersionSteps
  <2>4. TypeOK'
    BY <1>1, <1>3, <2>1, <2>2, <2>3 DEF TypeOK, VersionSteps, Loaded, Runs
  <2>5. Exclusive' /\ Furnished' /\ SettledConfigInForce'
    BY <1>2, <1>3, <1>4, <2>1, <2>3
       DEF Exclusive, Furnished, SettledConfigInForce, Here
  <2> QED
    BY <1>5, <2>4, <2>5
<1>11. CASE RecoverSwitch
  BY <1>2, <1>4, <1>5, <1>11
     DEF RecoverSwitch, counts, TypeOK, VersionSteps, Exclusive, Furnished,
         SettledConfigInForce, Here
<1>12. ASSUME NEW t \in Instances, Furnish(t)
       PROVE  Inductive'
  <2>1. Folder(t) \in Folders /\ Here # Folder(t) /\ Here' = Here
    BY <1>1, <1>12 DEF Folder, Instances, Furnish, Here, Furnished
  <2>2. managed' \in [Folders -> Configs \union {None}]
    BY <1>12, <2>1, ConstantsAssumption DEF Furnish, TypeOK
  <2>3. \A f \in Folders : managed[f] # None => managed'[f] = managed[f]
    BY <1>12, <2>1 DEF Furnish, TypeOK
  <2>4. TypeOK'
    BY <1>12, <2>2 DEF Furnish, counts, TypeOK
  <2>5. Furnished'
    BY <1>1, <1>2, <1>4, <1>12, <2>1, <2>3
       DEF Furnish, Selectable, Furnished, Here
  <2>6. Exclusive' /\ SettledConfigInForce'
    BY <1>1, <1>2, <1>3, <1>12, <2>1, <2>3
       DEF Furnish, Exclusive, SettledConfigInForce, Loaded, Here
  <2> QED
    BY <1>5, <2>4, <2>5, <2>6
<1> QED
  BY <1>6, <1>7, <1>8, <1>9, <1>10, <1>11, <1>12 DEF Switching

\* Crashes, power losses and systemd touch no file.
LEMMA EnvironmentStep ==
  ASSUME Inductive,
         Supervision \/ Abort \/ DaemonDies \/ PowerLoss \/ CoreExits
  PROVE  Inductive'
<1> USE DEF Inductive
<1>1. Here \in Folders /\ managed[Here] \in Configs
  BY DEF TypeOK, Here, Folder, Instances, Furnished
<1>2. UNCHANGED <<profile, managed, journal, switch, applied, switches>>
  BY DEF Supervision, DaemonStarts, CoreStarts, Abort, DaemonDies, PowerLoss, CoreExits,
         counts
<1>3. /\ pc' \in {pc, "idle"} /\ vpc' \in {vpc, "idle"}
      /\ core' \in {core, None, Loaded} /\ daemon' \in {daemon, None, profile}
      /\ pending' \in {pending, {}}
      /\ vpc' = "render" => vpc = "render" /\ core' \in {core, None}
  BY DEF Supervision, DaemonStarts, CoreStarts, Supervised, Abort, DaemonDies, PowerLoss,
         CoreExits
<1>4. faults' \in 0..MaxFaults
  BY ConstantsAssumption
     DEF Supervision, DaemonStarts, CoreStarts, Abort, DaemonDies, PowerLoss, CoreExits,
         counts, Fault, TypeOK
<1>5. TypeOK'
  BY <1>1, <1>2, <1>3, <1>4 DEF TypeOK, Steps, VersionSteps, Loaded, Runs
<1>6. Exclusive' /\ Furnished' /\ AtStep'
  BY <1>2, <1>3 DEF Exclusive, Furnished, AtStep, Here, Unfinished
<1>7. NoConcurrentChange' /\ RecoveryAdmits' /\ SettledConfigInForce'
  BY <1>2, <1>3
     DEF NoConcurrentChange, RecoveryAdmits, Recoverable, SettledConfigInForce, Here,
         Unfinished, Loaded
<1> QED
  BY <1>5, <1>6, <1>7

LEMMA NextStep ==
  ASSUME Inductive, [Next]_vars
  PROVE  Inductive'
<1>1. CASE Next
  BY <1>1, ReviewStep, OperationStep, SwitchingStep, EnvironmentStep
     DEF Next, Environment
<1>2. CASE UNCHANGED vars
  BY <1>2 DEF vars, Inductive, TypeOK, Exclusive, Furnished, AtStep, NoConcurrentChange,
              RecoveryAdmits, Recoverable, SettledConfigInForce, Here, Unfinished, Loaded
<1> QED
  BY <1>1, <1>2

LEMMA Invariance == Spec => []Inductive
  BY InitHolds, NextStep, PTL DEF Spec

-----------------------------------------------------------------------------
(* The theorems.                                                           *)

\* The files, the processes and the daemon's memory keep their types.
THEOREM TypeCorrect == Spec => []TypeOK
<1>1. Inductive => TypeOK
  BY DEF Inductive
<1> QED
  BY Invariance, <1>1, PTL

\* The settings and the version service never both wait for a recovery.
THEOREM OneRecoveryAtATime == Spec => []NoConcurrentChange
<1>1. Inductive => NoConcurrentChange
  BY DEF Inductive
<1> QED
  BY Invariance, <1>1, PTL

\* Recovery never meets a settings change that it must refuse.
THEOREM AlwaysRecoverable == Spec => []RecoveryAdmits
<1>1. Inductive => RecoveryAdmits
  BY DEF Inductive
<1> QED
  BY Invariance, <1>1, PTL

\* Between changes, a running Core is on the settings that are on disk.
THEOREM SettledInForce == Spec => []SettledConfigInForce
<1>1. Inductive => SettledConfigInForce
  BY DEF Inductive
<1> QED
  BY Invariance, <1>1, PTL

\* A file is only replaced by the other of the two texts its journal holds.
THEOREM WrittenAhead == Spec => ConfigWrittenAhead
<1> DEFINE Replaced(f) == managed[f] # None /\ managed'[f] # managed[f]
           Held(f) == /\ Unfinished(f)
                      /\ {managed[f], managed'[f]}
                           \subseteq {journal[f].before, journal[f].after}
           Ahead == \A f \in Folders : Replaced(f) => Held(f)
<1>1. ASSUME Inductive, Next
      PROVE  Ahead
  <2> SUFFICES ASSUME NEW f \in Folders, Replaced(f)
               PROVE  Held(f)
    OBVIOUS
  <2>1. CASE WriteAfter \/ WriteBefore
    <3>1. f = Here
      BY <1>1, <2>1 DEF WriteAfter, WriteBefore, Inductive, TypeOK
    <3>2. Unfinished(Here) /\ managed[Here] \in {journal[Here].before, journal[Here].after}
      BY <1>1, <2>1, <3>1
         DEF WriteAfter, WriteBefore, Goto, Inductive, Exclusive, RecoveryAdmits,
             Recoverable
    <3>3. managed'[f] \in {journal[Here].before, journal[Here].after}
      BY <1>1, <2>1, <3>1 DEF WriteAfter, WriteBefore, Inductive, TypeOK
    <3> QED
      BY <3>1, <3>2, <3>3
  <2>2. CASE \E t \in Instances : Furnish(t)
    BY <1>1, <2>2 DEF Furnish, Inductive, TypeOK
  <2>3. CASE UNCHANGED managed
    BY <2>3
  <2> QED
    BY <1>1, <2>1, <2>2, <2>3
       DEF Next, Review, Preview, Expire, Apply, Operation, MarkRestarting, Restart,
           CheckPasses, MarkRollingBack, MarkFailed, Recover, Switching, StopUnits,
           Render, StartUnits, BeginSwitch, RecoverSwitch, Supervision, DaemonStarts,
           CoreStarts, Environment, RestartFails, SwitchFails, Abort, DaemonDies, PowerLoss,
           CoreExits
<1>2. Inductive /\ [Next]_vars => [Ahead]_vars
  BY <1>1
<1>3. Spec => [][Ahead]_vars
  BY Invariance, <1>2, PTL DEF Spec
<1> QED
  BY <1>3 DEF ConfigWrittenAhead

-----------------------------------------------------------------------------
(* The transaction implements ConfigChange.                                *)

\* The initial states map to initial states.
LEMMA InitMaps == Init => Change!Init
<1> SUFFICES ASSUME Init PROVE Change!Init
  OBVIOUS
<1>1. \A f \in Folders : ~Unfinished(f)
  BY DEF Init, Unfinished, NoJournal
<1>2. Here \in Folders
  BY DEF Init, Here, Folder, Instances
<1>3. settingBar = [f \in Folders |-> IF f = Folder(profile) THEN Default ELSE None]
  BY <1>1 DEF Init, settingBar
<1>4. proposalBar = None
  BY <1>1, <1>2 DEF proposalBar
<1> QED
  BY <1>3, <1>4 DEF Init, Change!Init, Change!On

\* A step that leaves journals, files and selection alone starts Core on the
\* file's text, stops it, or is not seen.
LEMMA CoreMaps ==
  ASSUME Inductive, UNCHANGED <<profile, settingBar, proposalBar>>,
         managed[Here] \in {settingBar[Here], proposalBar},
         core' \in {core, None, Loaded}
  PROVE  [Change!Next]_Change!cvars
<1>1. managed[Here] # None
  BY DEF Inductive, Furnished
<1>2. CASE core' = core
  BY <1>2 DEF Change!cvars
<1>3. CASE core' = None
  BY <1>3 DEF Change!Next, Change!Halt
<1>4. CASE core' = Loaded
  BY <1>1, <1>4 DEF Change!Next, Change!Run, Change!On, Change!Current, Loaded, Here
<1> QED
  BY <1>2, <1>3, <1>4

\* What the files say of the change under way.
LEMMA Mapped ==
  ASSUME Inductive
  PROVE  /\ Here \in Folders
         /\ managed[Here] \in {settingBar[Here], proposalBar}
         /\ \A f \in Folders : f # Here => ~Unfinished(f)
<1>1. Here \in Folders
  BY DEF Inductive, TypeOK, Here, Folder, Instances
<1> QED
  BY <1>1 DEF Inductive, RecoveryAdmits, Recoverable, settingBar, proposalBar

\* Every step maps to a step of the change or to a stutter.
LEMMA StepMaps ==
  ASSUME Inductive, Inductive', [Next]_vars
  PROVE  [Change!Next]_Change!cvars
<1> USE Mapped DEF Inductive
<1>1. CASE UNCHANGED <<profile, managed, journal>> /\ core' \in {core, None, Loaded}
  BY <1>1, CoreMaps DEF settingBar, proposalBar, Unfinished, Here
<1>2. ASSUME NEW p \in pending, Apply(p), p.base = managed[Here], ~Unfinished(Here)
      PROVE  Change!Next
  <2>1. /\ journal' = [journal EXCEPT ![Here] =
                          [phase |-> "prepared", before |-> p.base,
                           after |-> p.after, version |-> Version(profile)]]
        /\ UNCHANGED <<profile, managed, core>>
    BY <1>2 DEF Apply
  <2>2. journal'[Here] = [phase |-> "prepared", before |-> p.base,
                          after |-> p.after, version |-> Version(profile)]
        /\ \A f \in Folders : f # Here => journal'[f] = journal[f]
    BY <2>1 DEF TypeOK
  <2>3. settingBar' = settingBar
    BY <1>2, <2>1, <2>2 DEF settingBar, Unfinished
  <2>4. proposalBar = None /\ proposalBar' = p.after
    BY <1>2, <2>1, <2>2 DEF proposalBar, Unfinished, Here
  <2>5. p.after \in Configs
    BY <1>2 DEF TypeOK, Plans
  <2> QED
    BY <2>1, <2>3, <2>4, <2>5 DEF Change!Next, Change!Propose
<1>3. CASE WriteAfter \/ WriteBefore
  <2>1. Unfinished(Here) /\ UNCHANGED <<profile, journal, core>>
        /\ \A f \in Folders : f # Here => managed'[f] = managed[f]
    BY <1>3 DEF WriteAfter, WriteBefore, Goto, Exclusive, TypeOK
  <2>2. UNCHANGED <<settingBar, proposalBar>>
    BY <2>1 DEF settingBar, proposalBar, Unfinished, Here
  <2> QED
    BY <2>1, <2>2 DEF Change!cvars
<1>4. ASSUME NEW ph \in {"restarting", "rolling_back", "recovery_failed"},
             Persist(ph), Unfinished(Here), UNCHANGED <<profile, managed, core>>
      PROVE  UNCHANGED Change!cvars
  <2>1. /\ journal'[Here] = [journal[Here] EXCEPT !.phase = ph]
        /\ \A f \in Folders : f # Here => journal'[f] = journal[f]
    BY <1>4 DEF Persist, TypeOK
  <2>2. journal'[Here].before = journal[Here].before
        /\ journal'[Here].after = journal[Here].after /\ journal'[Here].phase = ph
    BY <2>1 DEF TypeOK, Journals
  <2>3. Here' = Here /\ Unfinished(Here)'
    BY <1>4, <2>2 DEF Unfinished, Here
  <2>4. \A f \in Folders : f # Here => (Unfinished(f)' <=> Unfinished(f))
    BY <2>1 DEF Unfinished
  <2>5. UNCHANGED <<settingBar, proposalBar>>
    BY <1>4, <2>1, <2>2, <2>3, <2>4 DEF settingBar, proposalBar
  <2> QED
    BY <1>4, <2>5 DEF Change!cvars
<1>5. CASE CheckPasses
  <2> DEFINE ph == IF journal[Here].phase = "restarting" THEN "committed" ELSE "rolled_back"
  <2>1. /\ journal'[Here] = [journal[Here] EXCEPT !.phase = ph]
        /\ \A f \in Folders : f # Here => journal'[f] = journal[f]
        /\ UNCHANGED <<profile, managed, core>> /\ core = Loaded /\ Unfinished(Here)
    BY <1>5 DEF CheckPasses, Persist, Observed, Goto, Exclusive, TypeOK
  <2>2. journal'[Here].phase = ph
    BY <2>1 DEF TypeOK, Journals
  <2>3. Here' = Here /\ ~Unfinished(Here)'
    BY <2>1, <2>2 DEF Unfinished, Here
  <2>4. settingBar' = [settingBar EXCEPT ![Here] = managed[Here]]
    BY <2>1, <2>3 DEF settingBar, Unfinished
  <2>5. proposalBar = journal[Here].after /\ proposalBar' = None
    BY <2>1, <2>3 DEF proposalBar
  <2>6. journal[Here].after \in Configs /\ proposalBar # None
    BY <2>1, <2>5, ConstantsAssumption DEF Furnished
  <2>7. settingBar[Here] = journal[Here].before
    BY <2>1 DEF settingBar
  <2>8. managed[Here] = IF journal[Here].phase = "restarting"
                          THEN journal[Here].after ELSE journal[Here].before
    BY <1>5 DEF CheckPasses, Goto, AtStep
  <2>9. CASE journal[Here].phase = "restarting"
    BY <2>1, <2>4, <2>5, <2>6, <2>8, <2>9
       DEF Change!Next, Change!Commit, Change!On, Loaded, Here
  <2>10. CASE journal[Here].phase # "restarting"
    <3>1. settingBar' = settingBar
      BY <2>4, <2>7, <2>8, <2>10 DEF settingBar
    <3> QED
      BY <2>1, <2>5, <2>6, <2>7, <2>8, <2>10, <3>1
         DEF Change!Next, Change!Withdraw, Change!On, Change!Current, Loaded, Here
  <2> QED
    BY <2>9, <2>10
<1>6. ASSUME NEW t \in Instances, Furnish(t)
      PROVE  Change!Next
  <2>1. UNCHANGED <<profile, journal, core>> /\ Folder(t) \in Folders
    BY <1>6 DEF Furnish, Folder, Instances
  <2>2. Here \in Folders /\ managed[Here] # None
    BY DEF TypeOK, Here, Folder, Instances, Furnished
  <2>3. \A f \in Folders : ~Unfinished(f) /\ ~Unfinished(f)'
    <3>1. ~Unfinished(Here)
      BY <1>6 DEF Furnish, Selectable, SwitchPermitted
    <3> QED
      BY <2>1, <3>1 DEF RecoveryAdmits, Unfinished
  <2>4. settingBar = managed /\ settingBar' = managed'
        /\ proposalBar = None /\ proposalBar' = None
    BY <1>6, <2>1, <2>2, <2>3 DEF settingBar, proposalBar, TypeOK, Furnish, Here
  <2> QED
    BY <1>6, <2>1, <2>4 DEF Furnish, Change!Next, Change!Furnish
<1>7. ASSUME NEW i \in Instances, Render(i)
      PROVE  Change!Next
  <2>1. switch.unfinished /\ core = None /\ UNCHANGED <<managed, journal, core>>
    BY <1>7 DEF Render, Exclusive
  <2>2. \A f \in Folders : ~Unfinished(f) /\ ~Unfinished(f)'
    BY <2>1 DEF NoConcurrentChange, Unfinished
  <2>3. settingBar = managed /\ settingBar' = settingBar
    BY <2>1, <2>2 DEF settingBar, TypeOK
  <2>4. Here' \in Folders
    BY DEF TypeOK, Here, Folder, Instances
  <2>5. proposalBar = None /\ proposalBar' = None
    BY <2>2, <2>4 DEF proposalBar
  <2>6. managed[Folder(i)] # None
    BY <1>7, <2>1 DEF Render, Furnished
  <2> QED
    BY <1>7, <2>1, <2>3, <2>5, <2>6 DEF Render, Change!Next, Change!Select
<1>8. CASE UNCHANGED vars
  BY <1>1, <1>8 DEF vars
<1>9. CASE MarkRestarting \/ MarkRollingBack \/ MarkFailed \/ Recover
  BY <1>4, <1>9
     DEF MarkRestarting, MarkRollingBack, MarkFailed, Recover, Goto, Exclusive
<1>10. ASSUME NEW p \in pending, Apply(p), ~(p.base = managed[Here] /\ ~Unfinished(Here))
       PROVE  UNCHANGED <<profile, managed, journal, core>>
  BY <1>10 DEF Apply
<1>11. CASE Review
  BY <1>1, <1>2, <1>10, <1>11 DEF Review, Preview, Expire
<1>12. CASE Operation \/ Recover
  BY <1>1, <1>3, <1>5, <1>9, <1>12 DEF Operation, Restart
<1>13. CASE Switching \/ RecoverSwitch \/ \E t \in Instances : Furnish(t) \/ BeginSwitch(t)
  BY <1>1, <1>6, <1>7, <1>13
     DEF Switching, StopUnits, StartUnits, BeginSwitch, RecoverSwitch
<1>14. CASE Supervision \/ Environment
  <2>1. SwitchFails => core' \in {core, None, Loaded}
    BY DEF SwitchFails, TypeOK, VersionSteps
  <2>2. UNCHANGED <<profile, managed, journal>> /\ core' \in {core, None, Loaded}
    BY <1>14, <2>1
       DEF Supervision, DaemonStarts, CoreStarts, Environment, RestartFails,
           SwitchFails, Abort, DaemonDies, PowerLoss, CoreExits
  <2> QED
    BY <1>1, <2>2
<1> QED
  BY <1>8, <1>11, <1>12, <1>13, <1>14 DEF Next

\* Through crashes, rollbacks and version changes, settings change in one step:
\* accepted once Core has run on them, or withdrawn.
THEOREM Implementation == Spec => ImplementsConfigChange
<1>1. Inductive /\ Inductive' /\ [Next]_vars => [Change!Next]_Change!cvars
  BY StepMaps
<1> QED
  BY Invariance, InitMaps, <1>1, PTL DEF Spec, ImplementsConfigChange, Change!Spec
=============================================================================
