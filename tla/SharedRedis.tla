---------------------------- MODULE SharedRedis ----------------------------
(***************************************************************************)
(* Redis as the processes of the system see it (core/redis.py): a clock,   *)
(* the server, and in each process the breaker that keeps every user away  *)
(* from it for a cooldown after a failed call.  What the limits do with it *)
(* is in HostPacing, RequestWindow and LlmCircuit.                         *)
(***************************************************************************)
EXTENDS Integers, FiniteSets

CONSTANTS
    Processes,       \* the API process and the Celery workers
    Redis,           \* the shared server, where it stands beside the processes
    Cooldown,        \* _DISABLE_COOLDOWN_SECONDS
    MaxTime,         \* bound: the clock stops there
    MaxDisturbances  \* bound: outages, lost replies

ASSUME SharedRedisAssumption ==
    /\ Redis \notin Processes
    /\ Cooldown \in Nat \ {0}
    /\ MaxTime \in Nat
    /\ MaxDisturbances \in Nat

VARIABLES
    now,            \* the clock, in ticks
    redisUp,        \* the server answers
    disabledUntil,  \* _redis_failure_state.disabled_until of a process
    disturbances    \* outages and lost replies so far

\* Who keeps books: each process its own, Redis the shared ones.
Books == Processes \cup {Redis}

redisVars == <<now, redisUp, disabledUntil, disturbances>>

RedisTypeOK ==
    /\ now \in Nat
    /\ redisUp \in BOOLEAN
    /\ disabledUntil \in [Processes -> Nat]
    /\ disturbances \in 0..MaxDisturbances

RedisInit ==
    /\ now = 1
    /\ redisUp = TRUE
    /\ disabledUntil = [p \in Processes |-> 0]
    /\ disturbances = 0

BreakerOpen(p) == now < disabledUntil[p]

\* How a call may end once it was sent: answered, not carried out, or carried
\* out with its reply lost.
Answered == redisUp /\ UNCHANGED redisVars

Disable(p) == disabledUntil' = [disabledUntil EXCEPT ![p] = now + Cooldown]

NotCarriedOut(p) ==
    /\ ~redisUp
    /\ Disable(p)
    /\ UNCHANGED <<now, redisUp, disturbances>>

ReplyLost(p) ==
    /\ redisUp
    /\ disturbances < MaxDisturbances
    /\ disturbances' = disturbances + 1
    /\ Disable(p)
    /\ UNCHANGED <<now, redisUp>>

Tick ==
    /\ now < MaxTime
    /\ now' = now + 1
    /\ UNCHANGED <<redisUp, disabledUntil, disturbances>>

Outage ==
    /\ redisUp
    /\ disturbances < MaxDisturbances
    /\ redisUp' = FALSE
    /\ disturbances' = disturbances + 1
    /\ UNCHANGED <<now, disabledUntil>>

Recovery ==
    /\ ~redisUp
    /\ redisUp' = TRUE
    /\ UNCHANGED <<now, disabledUntil, disturbances>>

\* A call of another user of Redis in the process fails.
OthersDisable(p) == NotCarriedOut(p) \/ ReplyLost(p)

RedisStep == Tick \/ Outage \/ Recovery \/ \E p \in Processes : OthersDisable(p)

Later(s, t) == IF s < t THEN t ELSE s

=============================================================================
