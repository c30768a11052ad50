----------------------------- MODULE MCCogQueue -----------------------------
(* Instances of CogQueue for TLC. *)
EXTENDS CogQueue, TLC

CONSTANTS a, b, c

(* Two lead requests that compete for one buffer slot and a background one. *)
LeadsAndBackground == (a :> P1Lead) @@ (b :> P1Lead) @@ (c :> P3Background)

OneSlot == [p \in Tiers |-> 1]

=============================================================================
