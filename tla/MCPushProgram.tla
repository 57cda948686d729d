--------------------------- MODULE MCPushProgram ----------------------------
(* Instances of PushProgram for TLC.                                       *)
EXTENDS PushProgram, TLC

Symmetry == Permutations(Sources)
=============================================================================
