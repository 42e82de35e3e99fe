-------------------------- MODULE MCSchedulerPlan --------------------------
(* Instances of SchedulerPlan for TLC. *)
EXTENDS SchedulerPlan, TLC

CONSTANTS j1, j2, j3

Jobs == {j1, j2, j3}
\* Two jobs of one size, and one that is smaller.
Sizes == j1 :> 2 @@ j2 :> 2 @@ j3 :> 1
Symmetry == Permutations({j1, j2})
=============================================================================
