----------------------------- MODULE MCFleetPolicy -----------------------------
(* FleetPolicy for TLC: two requests at a time, five in all, plans with small limits. *)
EXTENDS FleetPolicy, TLC

MCPlanLimit ==
    [p \in Plans |->
       CASE p = "individual" -> [users |-> 1, devices |-> 2, groups |-> 1]
         [] p = "team" -> [users |-> 2, devices |-> 3, groups |-> 1]
         [] OTHER -> [users |-> 0, devices |-> 0, groups |-> 0]]

MCSymmetry == Permutations(Threads)
===============================================================================
