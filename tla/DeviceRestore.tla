---------------------------- MODULE DeviceRestore ----------------------------
(***************************************************************************)
(* What a restore promises the owner of a device, without journals,        *)
(* rollback folders or files that are replaced one by one.  A device has   *)
(* one whole configuration; a restore tries the backup of the moment on it *)
(* and then has it or goes back to exactly what there was.  Only a restore *)
(* whose result had already been accepted can be lost: its acceptance may  *)
(* be withdrawn while it is being finished, and the way back be gone then. *)
(***************************************************************************)
CONSTANTS Files, Configurations, Units, None

VARIABLES
  stage,   \* "settled", "changing", "accepted" or "withdrawn"
  config,  \* the configuration of the device, or the one it goes back to
  goal,    \* the backup being tried; None once it can only be undone
  backup,  \* the backup there is
  running  \* what every service read when it started

dvars == <<stage, config, goal, backup, running>>

Devices == [Files -> Configurations]

Init ==
  /\ stage = "settled" /\ goal = None
  /\ \E c \in Configurations : config = [f \in Files |-> c]
  /\ \/ backup = None
     \/ \E c \in Configurations : backup = [f \in Files |-> c]
  /\ running = [u \in Units |-> config]

\* A backup is of a settled device, except while a restore remains unfinished.
Save ==
  /\ goal = None
  /\ backup' \in IF stage = "settled" THEN {config} ELSE Devices
  /\ UNCHANGED <<stage, config, goal, running>>

\* Nothing runs when a restore begins; what is tried is the backup there is.
Begin ==
  /\ stage = "settled" /\ stage' = "changing"
  /\ backup # None /\ goal' \in {backup, None}
  /\ \A u \in Units : running[u] = None
  /\ UNCHANGED <<config, backup, running>>

Reject ==
  /\ stage = "changing" /\ goal' = None
  /\ UNCHANGED <<stage, config, backup, running>>

\* Every service that runs has been tried on the restored configuration.
Accept ==
  /\ stage = "changing" /\ stage' = "accepted"
  /\ goal # None /\ \A u \in Units : running[u] \in {None, goal}
  /\ UNCHANGED <<config, goal, backup, running>>

Settle ==
  /\ stage = "accepted" /\ stage' = "settled"
  /\ config' = goal /\ goal' = None
  /\ UNCHANGED <<backup, running>>

Withdraw ==
  /\ stage = "accepted" /\ stage' \in {"changing", "withdrawn"}
  /\ goal' = None
  /\ UNCHANGED <<config, backup, running>>

\* Back to what there was.
Undo ==
  /\ stage \in {"changing", "withdrawn"} /\ stage' = "settled"
  /\ config # None /\ goal = None
  /\ UNCHANGED <<config, goal, backup, running>>

Stops == running' \in [Units -> Devices \union {None}]
         /\ \A u \in Units : running'[u] \in {None, running[u]}

\* The process that restores ends, in whatever stage.
Forget ==
  /\ stage' = IF stage = "accepted" THEN "settled" ELSE stage
  /\ config' = CASE stage = "accepted"  -> goal
                 [] stage = "withdrawn" -> None
                 [] OTHER               -> config
  /\ goal' = None /\ Stops
  /\ UNCHANGED backup

Stop == Stops /\ UNCHANGED <<stage, config, goal, backup>>

\* What a service may start on: a mixture only where an undo is not over.
Readable ==
  CASE stage = "settled" -> {config}
    [] goal # None       -> {goal}
    [] OTHER             -> Devices

Run(u) ==
  /\ \E device \in Readable : running' = [running EXCEPT ![u] = device]
  /\ UNCHANGED <<stage, config, goal, backup>>

Next == \/ Save \/ Begin \/ Reject \/ Accept \/ Settle \/ Withdraw \/ Undo
        \/ Forget \/ Stop \/ \E u \in Units : Run(u)

Spec == Init /\ [][Next]_dvars
=============================================================================
