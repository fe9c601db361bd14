-------------------------- MODULE MCRunLifecycle --------------------------
(* Small instances of RunLifecycle for TLC. *)
EXTENDS RunLifecycle, TLC

CONSTANTS e1, e2, c1, c2, u1, u2

Slots == {e1, e2}
Requests == {c1, c2}
TwoUrls == {u1, u2}
OneUrl == {u1}

Symmetric == Permutations(Slots) \cup Permutations(Requests) \cup Permutations(TwoUrls)
=============================================================================
