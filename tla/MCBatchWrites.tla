-------------------------- MODULE MCBatchWrites ----------------------------
(***************************************************************************)
(* An instance of BatchWrites for TLC: batches in equal and in opposite    *)
(* key order, and one with a row the database refuses.                     *)
(***************************************************************************)
EXTENDS BatchWrites, TLC

CONSTANTS w1, w2, i1, i2, k1, k2, k3

MCImportOf == (w1 :> i1) @@ (w2 :> i2)
MCBatches  == {<<k1, k2, k1>>, <<k2, k1, k3>>}
=============================================================================
