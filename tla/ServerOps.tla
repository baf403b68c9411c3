------------------------------ MODULE ServerOps -----------------------------
(***************************************************************************)
(* What an operator runs on a server: the scripts that deploy, roll back   *)
(* and build, or the set-up of the realm. deploy.sh and the build call the *)
(* set-up too, in the back end's container and whatever it answers; the    *)
(* image holds neither the script nor the program that runs it, so that    *)
(* call changes nothing, and the two meet in no other state.               *)
(***************************************************************************)
EXTENDS Rollouts, RealmSetup

VARIABLE work \* what is worked on

opsVars == <<work, serverVars, setupVars>>

OpsInit ==
    /\ work \in {"rollouts", "realm"}
    /\ ServerInit
    /\ SetupInit
    /\ work = "rollouts" => mail = "MAIL"

OpsNext ==
    \/ \E s \in Scripts : work = "rollouts" /\ ServerStep(s) /\ UNCHANGED <<work, setupVars>>
    \/ work = "realm" /\ SetupNext /\ UNCHANGED <<work, serverVars>>

OpsSpec == OpsInit /\ [][OpsNext]_opsVars

=============================================================================
