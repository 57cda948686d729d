--------------------------- MODULE MCStreamClients --------------------------
(* Instances of StreamClients for TLC: two streams share one program.      *)
EXTENDS StreamClients

CONSTANTS p1, p2, s1, s2

(* A player of each stream.                                                *)
MCWant == [p \in Players |-> IF p = p2 THEN s2 ELSE s1]
=============================================================================
