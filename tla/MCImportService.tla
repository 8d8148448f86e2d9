-------------------------- MODULE MCImportService --------------------------
(***************************************************************************)
(* Instances of ImportService for TLC.                                     *)
(***************************************************************************)
EXTENDS ImportService, TLC

\* Workers and imports are interchangeable in the safety properties.
Symmetry == Permutations(Workers) \cup Permutations(Imports)
=============================================================================
