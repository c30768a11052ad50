----------------------------- MODULE MCApprovals -----------------------------
(* Instances of Approvals for TLC. *)
EXTENDS Approvals, TLC

CONSTANTS c1, c2, k1, k2

(* Both agents may use the shell. *)
Specialists == [c \in Calls |-> 1]

=============================================================================
