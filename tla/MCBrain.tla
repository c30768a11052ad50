------------------------------ MODULE MCBrain ------------------------------
(* Instances of Brain for TLC. *)
EXTENDS Brain, TLC

MCBrainFiles == <<"soul", "persona">>
MCHouseFiles == <<"company">>
MCAgents == {"lead", "worker"}

=============================================================================
