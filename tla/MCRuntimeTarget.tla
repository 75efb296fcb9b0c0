--------------------------- MODULE MCRuntimeTarget ---------------------------
(* Instances of RuntimeTarget for TLC. *)
EXTENDS RuntimeTarget, TLC

Symmetry == Permutations(Handlers)

(* no retry of any job, or one retry of the creations only *)
RetryNone == [j \in Jobs |-> 0]
RetryCreations == [j \in Jobs |-> IF j \in Creations THEN 1 ELSE 0]
=============================================================================
