----------------------------- MODULE MCSessions -----------------------------
(* Instances of Sessions for TLC: i and j can be given the same id.        *)
EXTENDS Sessions, TLC

CONSTANTS i, j, a

MCId == [s \in GssSessions |-> IF s \in {i, j} THEN a ELSE s]

Symmetry == Permutations({i, j})
=============================================================================
