------------------------- MODULE MCInstanceLifecycle -------------------------
(* Instances of InstanceLifecycle for TLC. *)
EXTENDS InstanceLifecycle, TLC

(* The worker's retries of a deletion outlast the faults; an attempt to      *)
(* provision is repeated once, or only by maintenance.                       *)
Limits     == [a \in Actions |-> IF a = "delete" THEN Events ELSE 1]
FirstTries == [a \in Actions |-> IF a = "delete" THEN Events ELSE 0]

Symmetry == Permutations(Requests)
=============================================================================
