------------------------------ MODULE Services ------------------------------
(* The services around a run, together: the browser pool of one process,   *)
(* the pacing of hosts, the sliding windows of the API, the circuit before *)
(* an LLM provider and the learn-once recipe of one scope.  Pacing,        *)
(* windows and circuit meet in SharedRedis: the clock, the server and the  *)
(* breaker of each process are the same for all three, so the failed call  *)
(* of one sends the others of its process to their own books.              *)
EXTENDS BrowserPool, HostPacing, RequestWindow, LlmCircuit, RecipeLearning

TogetherInit ==
    PoolInit /\ PacingInit /\ WindowInit /\ CircuitInit /\ LearningInit

\* What is local to each service.
PoolSteps ==
    PoolNext /\ UNCHANGED <<redisVars, pacingVars, windowVars, circuitVars, learningVars>>
PacingSteps == PacingNext /\ UNCHANGED <<poolVars, windowVars, circuitVars, learningVars>>
WindowSteps == WindowNext /\ UNCHANGED <<poolVars, pacingVars, circuitVars, learningVars>>
CircuitSteps == CircuitNext /\ UNCHANGED <<poolVars, pacingVars, windowVars, learningVars>>
LearningSteps ==
    LearningNext /\ UNCHANGED <<redisVars, poolVars, pacingVars, windowVars, circuitVars>>

TogetherNext == PoolSteps \/ PacingSteps \/ WindowSteps \/ CircuitSteps \/ LearningSteps

togetherVars == <<redisVars, poolVars, pacingVars, windowVars, circuitVars, learningVars>>

TogetherSpec == TogetherInit /\ [][TogetherNext]_togetherVars

(* Every variable of the services has its type: no schedule, bucket or     *)
(* counter leaves its bounds, whatever the services do to the Redis that   *)
(* they share (core/redis.py).                                             *)
ServicesTypeOK ==
    PoolTypeOK /\ PacingTypeOK /\ WindowTypeOK /\ CircuitTypeOK /\ LearningTypeOK
=============================================================================
