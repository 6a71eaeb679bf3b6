---------------------------- MODULE VersionSwitch ----------------------------
(***************************************************************************)
(* What a version or network change promises its owner, without journals,  *)
(* guards, helpers or crashes.  A node is settled on an instance, or is    *)
(* switching to another one and may still come back, or has passed the     *)
(* point of no return and can only go on.  Chain data is erased only       *)
(* beyond that point, only in the folder under change; what runs is always *)
(* one of the two instances, and beyond that point only the new one.       *)
(***************************************************************************)
CONSTANTS Instances, Folders, Entries, Versions, None, Folder(_)

VARIABLES
  stage,     \* "settled", "switching" or "irreversible"
  selected,  \* the instance the node is, or was last, settled on
  goal,      \* the instance it is switching to
  running,   \* the instance that runs
  data       \* which version wrote each chain entry

svars == <<stage, selected, goal, running, data>>

Init ==
  /\ stage = "settled" /\ selected = None /\ goal = None /\ running = None
  /\ data = [f \in Folders |-> [e \in Entries |-> None]]

Begin(i) ==
  /\ stage = "settled" /\ stage' = "switching" /\ goal' = i
  /\ UNCHANGED <<selected, running, data>>

Undo ==
  /\ stage = "switching" /\ stage' = "settled" /\ goal' = None
  /\ running \in {None, selected}
  /\ UNCHANGED <<selected, running, data>>

\* Only a change within one data folder can be irreversible, and nothing runs.
PassPointOfNoReturn ==
  /\ stage = "switching" /\ stage' = "irreversible"
  /\ selected # None /\ Folder(selected) = Folder(goal)
  /\ running = None
  /\ UNCHANGED <<selected, goal, running, data>>

Erase(e) ==
  /\ stage = "irreversible"
  /\ data' = [data EXCEPT ![Folder(goal)][e] = None]
  /\ UNCHANGED <<stage, selected, goal, running>>

Finish ==
  /\ stage \in {"switching", "irreversible"}
  /\ running = goal
  /\ (stage = "switching" /\ selected # None) => Folder(selected) # Folder(goal)
  /\ stage' = "settled" /\ selected' = goal /\ goal' = None
  /\ UNCHANGED <<running, data>>

MayRun == CASE stage = "settled"      -> {selected}
            [] stage = "switching"    -> {selected, goal}
            [] stage = "irreversible" -> {goal}

Run(i) ==
  /\ running = None /\ i \in MayRun \ {None}
  /\ running' = i
  /\ data' = [data EXCEPT ![Folder(i)] = [e \in Entries |-> i.version]]
  /\ UNCHANGED <<stage, selected, goal>>

Halt ==
  /\ running # None /\ running' = None
  /\ UNCHANGED <<stage, selected, goal, data>>

Next == \/ \E i \in Instances : Begin(i) \/ Run(i)
        \/ \E e \in Entries : Erase(e)
        \/ Undo \/ PassPointOfNoReturn \/ Finish \/ Halt

Spec == Init /\ [][Next]_svars
=============================================================================
