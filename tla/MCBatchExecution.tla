------------------------- MODULE MCBatchExecution -------------------------
(* A small instance of BatchExecution for TLC. *)
EXTENDS BatchExecution

CONSTANTS w1, w2

Pool == {w1, w2}
=============================================================================
