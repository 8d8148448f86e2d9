------------------------ MODULE MCGracefulShutdown ------------------------
(***************************************************************************)
(* An instance of GracefulShutdown for TLC.                                *)
(***************************************************************************)
EXTENDS GracefulShutdown, TLC

CONSTANTS j1, j2, j3
=============================================================================
