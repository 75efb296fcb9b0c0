--------------------------- MODULE MCA2aTombstones ---------------------------
(* A2aTombstones for TLC; the .cfg gives the constants. *)
EXTENDS A2aTombstones
=============================================================================
