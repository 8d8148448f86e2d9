---------------------------- MODULE MCJobQueue ----------------------------
(***************************************************************************)
(* Instances of JobQueue for TLC.                                          *)
(***************************************************************************)
EXTENDS JobQueue, TLC

\* Workers and imports are interchangeable in the safety properties.
Symmetry == Permutations(Workers) \cup Permutations(Imports)
=============================================================================
