-------------------------------- MODULE MCPlan --------------------------------
(* Instances of Plan for TLC.                                                *)
EXTENDS Plan, TLC

Alike == Permutations(Exp)
=============================================================================
