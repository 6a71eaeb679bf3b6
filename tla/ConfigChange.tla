---------------------------- MODULE ConfigChange ----------------------------
(***************************************************************************)
(* What a settings change promises its owner, without files, journals or   *)
(* crashes.  Each data folder has the settings last accepted for it.  A    *)
(* proposal for the selected folder is committed while Core runs on it, or *)
(* withdrawn while Core runs on the accepted settings again.  Another      *)
(* instance is selected only between proposals.                            *)
(***************************************************************************)
CONSTANTS Instances, Folders, Configs, Default, None, Folder(_)

VARIABLES
  selected,  \* the instance that may run
  setting,   \* the settings accepted for each folder, None before the first
  proposal,  \* the settings on trial in the selected folder, or None
  running    \* the instance and the settings Core runs on, or None

cvars == <<selected, setting, proposal, running>>

Current == setting[Folder(selected)]
On(c)   == [instance |-> selected, config |-> c]

Init ==
  /\ selected \in Instances
  /\ setting = [f \in Folders |-> IF f = Folder(selected) THEN Default ELSE None]
  /\ proposal = None
  /\ running = On(Default)

Propose(c) ==
  /\ proposal = None /\ proposal' = c
  /\ UNCHANGED <<selected, setting, running>>

Commit ==
  /\ proposal # None /\ running = On(proposal)
  /\ setting' = [setting EXCEPT ![Folder(selected)] = proposal]
  /\ proposal' = None
  /\ UNCHANGED <<selected, running>>

Withdraw ==
  /\ proposal # None /\ running = On(Current)
  /\ proposal' = None
  /\ UNCHANGED <<selected, setting, running>>

\* Core is (re)started on the accepted settings or on those on trial.
Run ==
  /\ \E c \in {Current, proposal} \ {None} : running' = On(c)
  /\ UNCHANGED <<selected, setting, proposal>>

Halt ==
  /\ running' = None
  /\ UNCHANGED <<selected, setting, proposal>>

\* A folder that is selected for the first time gets the default settings.
Furnish(f) ==
  /\ setting[f] = None /\ proposal = None
  /\ setting' = [setting EXCEPT ![f] = Default]
  /\ UNCHANGED <<selected, proposal, running>>

Select(i) ==
  /\ proposal = None /\ running = None
  /\ setting[Folder(i)] # None
  /\ selected' = i
  /\ UNCHANGED <<setting, proposal, running>>

Next == \/ \E c \in Configs : Propose(c)
        \/ Commit \/ Withdraw \/ Run \/ Halt
        \/ \E f \in Folders : Furnish(f)
        \/ \E i \in Instances : Select(i)

Spec == Init /\ [][Next]_cvars
=============================================================================
