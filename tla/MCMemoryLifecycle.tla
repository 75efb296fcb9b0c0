------------------------- MODULE MCMemoryLifecycle -------------------------
(* Instances of MemoryLifecycle for TLC. *)
EXTENDS MemoryLifecycle, TLC

(* The calls in flight are interchangeable, and so are the Instances of     *)
(* each kind.                                                               *)
Interchangeable == Permutations(Processes)
                     \cup Permutations(Existing)
                     \cup Permutations(Instances \ Existing)
=============================================================================
