--------------------------- MODULE MCBatchFlush ---------------------------
(***************************************************************************)
(* An instance of BatchFlush for TLC.                                      *)
(***************************************************************************)
EXTENDS BatchFlush, TLC
=============================================================================
