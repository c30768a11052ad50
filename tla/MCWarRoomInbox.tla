--------------------------- MODULE MCWarRoomInbox ---------------------------
(* Instances of WarRoomInbox for TLC. *)
EXTENDS WarRoomInbox, TLC

CONSTANTS lead, d1, d2, c1

(* Two direct messages to one agent and a channel command. *)
TwoDirectOneChannel == (d1 :> lead) @@ (d2 :> lead) @@ (c1 :> Channel)

(* Two direct messages to one agent. *)
TwoDirect == (d1 :> lead) @@ (d2 :> lead)

(* A direct message and a channel command. *)
DirectAndChannel == (d1 :> lead) @@ (c1 :> Channel)

=============================================================================
