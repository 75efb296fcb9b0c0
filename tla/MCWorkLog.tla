---------------------------- MODULE MCWorkLog ----------------------------
(* WorkLog on small instances. *)
EXTENDS WorkLog

(* The owner gives two commands, anybody else one. *)
TwoOfTheOwner == [p \in People |-> IF p = Owner THEN 2 ELSE 1]
==========================================================================
