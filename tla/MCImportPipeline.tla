------------------------- MODULE MCImportPipeline -------------------------
(***************************************************************************)
(* Instances of ImportPipeline for TLC.                                    *)
(***************************************************************************)
EXTENDS ImportPipeline, TLC

CONSTANTS k1, k2, k3

\* Files of three lines: a key twice, a key of the other file, bad and blank lines
\* before and between, and one whose last record the database refuses.
MixedFiles == {<<k1, k1, k2>>, <<k2, Bad, k1>>, <<Bad, Blank, k1>>, <<k1, k2, k3>>}
=============================================================================
