------------------------------- MODULE MCPlex -------------------------------
(***************************************************************************)
(* Instances of Plex: how much each end writes.                            *)
(***************************************************************************)
EXTENDS Plex

CONSTANTS A, B

(* A fills its direction more than once, B writes little. *)
MostlyA == [d \in End |-> IF d = A THEN 5 ELSE 1]
OnlyA == [d \in End |-> IF d = A THEN 3 ELSE 0]
Nobody == {}
=============================================================================
