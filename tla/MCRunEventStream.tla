------------------------- MODULE MCRunEventStream -------------------------
(* A small instance of RunEventStream for TLC. *)
EXTENDS RunEventStream

CONSTANTS s1, s2

Sessions == {s1, s2}
=============================================================================
