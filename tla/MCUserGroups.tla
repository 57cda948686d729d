---------------------------- MODULE MCUserGroups ----------------------------
(* Instances of UserGroups for TLC.                                        *)
EXTENDS UserGroups, TLC

Symmetry == Permutations(Ids)
=============================================================================
