-------------------------- MODULE MCApiProcess ----------------------------
(***************************************************************************)
(* An instance of ApiProcess, and of the CreateImport in it, for TLC.      *)
(***************************************************************************)
EXTENDS ApiProcess, TLC

CONSTANTS r1, r2, r3, ka, kb

Symmetry == Permutations({r1, r2, r3}) \cup Permutations({ka, kb})
=============================================================================
