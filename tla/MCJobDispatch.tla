---------------------------- MODULE MCJobDispatch ----------------------------
(* A small instance of JobDispatch for TLC: the requests overlap. *)
EXTENDS JobDispatch, TLC

CONSTANTS j1, j2, w1, w2

TwoJobs == {j1, j2}
TwoRecords == {1, 2}
Overlapping == j1 :> {1, 2} @@ j2 :> {2}
TwoSlots == {w1, w2}
=============================================================================
