----------------------------- MODULE MCServices -----------------------------
(* Small instances of the services around a run.  Redis serves one of them *)
(* at a time here: a behaviour is one of the service in focus, with the    *)
(* other users of Redis in RedisStep, while the other services stay where  *)
(* they began.                                                             *)
EXTENDS Services, TLC

CONSTANTS
    p1, p2, t1, t2, n1, n2,
    PacingTime   \* bound: the clock stops there for HostPacing

VARIABLES
    focus,
    resets       \* resets of the pacing so far

TwoProcesses == {p1, p2}
TwoTasks == {t1, t2}
OneEach == t1 :> p1 @@ t2 :> p2
TwoNames == {n1, n2}

ServicesInit ==
    /\ focus \in {"pool", "pacing", "window", "circuit", "learning"}
    /\ resets = 0
    /\ TogetherInit

\* Resets and disturbances have one bound.
PacingBounds ==
    /\ now' <= PacingTime
    /\ resets' = IF \E p \in Processes : ResetLocal(p) THEN resets + 1 ELSE resets
    /\ resets' + disturbances' <= MaxDisturbances

ServicesNext ==
    /\ UNCHANGED focus
    /\ \/ focus = "pool" /\ PoolSteps /\ UNCHANGED resets
       \/ focus = "pacing" /\ PacingSteps /\ PacingBounds
       \/ focus = "window" /\ WindowSteps /\ UNCHANGED resets
       \/ focus = "circuit" /\ CircuitSteps /\ UNCHANGED resets
       \/ focus = "learning" /\ LearningSteps /\ UNCHANGED resets

servicesVars == <<focus, resets, togetherVars>>

ServicesSpec == ServicesInit /\ [][ServicesNext]_servicesVars

\* Two processes are alike when their tasks change places too.
SwapProcesses == p1 :> p2 @@ p2 :> p1 @@ t1 :> t2 @@ t2 :> t1

Symmetric == Permutations(TwoNames) \cup {SwapProcesses}
=============================================================================
