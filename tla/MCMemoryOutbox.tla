---------------------------- MODULE MCMemoryOutbox ----------------------------
(* Instances of MemoryOutbox for TLC. *)
EXTENDS MemoryOutbox, TLC

(* Drains are alike, and so are the requests of the people: for safety     *)
(* only, on larger instances.                                              *)
Interchangeable == Permutations(Drains) \cup Permutations(Editors)
=============================================================================
