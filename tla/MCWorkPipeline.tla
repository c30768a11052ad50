--------------------------- MODULE MCWorkPipeline ---------------------------
(* Instances of WorkPipeline for TLC. *)
EXTENDS WorkPipeline

CONSTANTS t1, t2

Specialist(t) == [id |-> t, specialist |-> TRUE]
LeadTask(t)   == [id |-> t, specialist |-> FALSE]

(* A list with two specialist tasks, one with a task of the Lead's own, and *)
(* one whose tasks share an identifier.                                     *)
MixedPlans ==
    { <<Specialist(t1), Specialist(t2)>>,
      <<LeadTask(t1), Specialist(t2)>>,
      <<Specialist(t1), Specialist(t1)>> }

(* One specialist task. *)
SinglePlan == { <<Specialist(t1)>> }

=============================================================================
