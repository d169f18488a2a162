------------------------------- MODULE MCReap -------------------------------
(* The reaper against the commands of two clients, or against DEL and MSET:   *)
(* one of the two in each behavior.                                           *)
EXTENDS KeyStore, TLC

VARIABLE users

MCInit == Init /\ users \in {"commands", "bulk"}
MCUp ==
    /\ Up
    /\ users = "commands" => UNCHANGED bulk
    /\ users = "bulk" => UNCHANGED client
    /\ UNCHANGED users
MCFairSpec == MCInit /\ [][MCUp]_<<vars, users>> /\ Fairness
=============================================================================
