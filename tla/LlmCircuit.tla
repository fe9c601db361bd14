----------------------------- MODULE LlmCircuit -----------------------------
(***************************************************************************)
(* The circuit breaker before one LLM provider                             *)
(* (connectors/llm/circuit_breaker.py, used by call_provider_with_retry),  *)
(* kept in each process and, with redis_state_enabled, in Redis too.       *)
(* Totals, error categories and the time to live of the statistics (ten    *)
(* cooldowns) are left out.                                                *)
(***************************************************************************)
EXTENDS SharedRedis

CONSTANTS
    LlmCalls,     \* calls in flight at once
    RunsIn,       \* the process of a call
    Threshold,    \* circuit_failure_threshold
    RestTime,     \* circuit_cooldown_seconds
    MaxFailures   \* bound: failures counted in a row

ASSUME LlmCircuitAssumption ==
    /\ RunsIn \in [LlmCalls -> Processes]
    /\ Threshold \in Nat \ {0}
    /\ RestTime \in Nat \ {0}
    /\ MaxFailures \in Nat

VARIABLES
    failures,     \* consecutive_failures of a process
    openedAt,     \* opened_at of a process, 0 for None
    sharedFails,  \* consecutive_failures in Redis
    openUntil,    \* when the open key in Redis runs out, 0 for no key
    llmCall,      \* what a call does
    localOpen,    \* what the process's own circuit said when the call asked
    failedAt,     \* history: when a failure was last counted in Redis
    overtaken     \* history: a success deleted the key of newer failures

circuitVars == <<failures, openedAt, sharedFails, openUntil, llmCall, localOpen,
                 failedAt, overtaken>>

CallPhases == {"none", "checking", "calling", "resetting", "unlocking", "counting"}

CircuitTypeOK ==
    /\ RedisTypeOK
    /\ failures \in [Processes -> 0..MaxFailures]
    /\ openedAt \in [Processes -> Nat]
    /\ sharedFails \in 0..MaxFailures
    /\ openUntil \in Nat
    /\ llmCall \in [LlmCalls -> CallPhases]
    /\ localOpen \in [LlmCalls -> BOOLEAN]
    /\ failedAt \in Nat
    /\ openUntil # 0 => openUntil <= failedAt + RestTime
    /\ overtaken \in BOOLEAN

CircuitInit ==
    /\ RedisInit
    /\ failures = [p \in Processes |-> 0]
    /\ openedAt = [p \in Processes |-> 0]
    /\ sharedFails = 0
    /\ openUntil = 0
    /\ llmCall = [c \in LlmCalls |-> "none"]
    /\ localOpen = [c \in LlmCalls |-> FALSE]
    /\ failedAt = 0
    /\ overtaken = FALSE

----------------------------------------------------------------------------

\* Past the cooldown every caller is let through, not one probe.
LocallyOpen(p) ==
    /\ failures[p] >= Threshold
    /\ openedAt[p] # 0
    /\ now - openedAt[p] < RestTime

CallGoes(c, phase) == llmCall' = [llmCall EXCEPT ![c] = phase]

\* circuit_is_open
CheckCircuit(c) ==
    LET p == RunsIn[c]
        open == LocallyOpen(p)
    IN  /\ llmCall[c] = "none"
        /\ IF BreakerOpen(p)
           THEN ~open /\ CallGoes(c, "calling") /\ UNCHANGED localOpen
           ELSE CallGoes(c, "checking") /\ localOpen' = [localOpen EXCEPT ![c] = open]
        /\ UNCHANGED <<redisVars, failures, openedAt, sharedFails, openUntil, failedAt,
                       overtaken>>

Verdict(c, open) ==
    /\ CallGoes(c, IF open THEN "none" ELSE "calling")
    /\ localOpen' = [localOpen EXCEPT ![c] = FALSE]
    /\ UNCHANGED <<failures, openedAt, sharedFails, openUntil, failedAt, overtaken>>

CheckAnswered(c) ==
    /\ llmCall[c] = "checking"
    /\ Answered
    /\ Verdict(c, now < openUntil)

CheckFails(c) ==
    /\ llmCall[c] = "checking"
    /\ NotCarriedOut(RunsIn[c]) \/ ReplyLost(RunsIn[c])
    /\ Verdict(c, localOpen[c])

----------------------------------------------------------------------------
(* record_success: in the process, then by several commands in Redis. *)

Succeeds(c) ==
    LET p == RunsIn[c] IN
    /\ llmCall[c] = "calling"
    /\ failures' = [failures EXCEPT ![p] = 0]
    /\ openedAt' = [openedAt EXCEPT ![p] = 0]
    /\ CallGoes(c, IF BreakerOpen(p) THEN "none" ELSE "resetting")
    /\ UNCHANGED <<redisVars, sharedFails, openUntil, localOpen, failedAt, overtaken>>

\* hset; if its reply is lost the commands after it are not sent.
ResetFailures(c) ==
    /\ llmCall[c] = "resetting"
    /\ \/ Answered /\ CallGoes(c, "unlocking")
       \/ ReplyLost(RunsIn[c]) /\ CallGoes(c, "none")
    /\ sharedFails' = 0
    /\ overtaken' = FALSE
    /\ UNCHANGED <<failures, openedAt, openUntil, localOpen, failedAt>>

DeleteOpenKey(c) ==
    /\ llmCall[c] = "unlocking"
    /\ Answered \/ ReplyLost(RunsIn[c])
    /\ openUntil' = 0
    /\ overtaken' = (overtaken \/ sharedFails >= Threshold)
    /\ CallGoes(c, "none")
    /\ UNCHANGED <<failures, openedAt, sharedFails, localOpen, failedAt>>

\* A command is not carried out; or the reply of hincrby, before hset, or of
\* expire, before delete, is lost.
RecordFails(c) ==
    /\ llmCall[c] \in {"resetting", "unlocking", "counting"}
    /\ \/ NotCarriedOut(RunsIn[c])
       \/ llmCall[c] # "counting" /\ ReplyLost(RunsIn[c])
    /\ CallGoes(c, "none")
    /\ UNCHANGED <<failures, openedAt, sharedFails, openUntil, localOpen, failedAt, overtaken>>

----------------------------------------------------------------------------
(* record_failure *)

\* opened_at is set only when it is None: a failed probe leaves it alone.
Fails(c) ==
    LET p == RunsIn[c] IN
    /\ llmCall[c] = "calling"
    /\ failures[p] < MaxFailures
    /\ failures' = [failures EXCEPT ![p] = @ + 1]
    /\ openedAt' = [openedAt EXCEPT ![p] =
                       IF @ = 0 /\ failures[p] + 1 >= Threshold THEN now ELSE @]
    /\ CallGoes(c, IF BreakerOpen(p) THEN "none" ELSE "counting")
    /\ UNCHANGED <<redisVars, sharedFails, openUntil, localOpen, failedAt, overtaken>>

\* mistake: the key is set on the very failure that reaches the threshold.
CountFailureOnce ==
    /\ sharedFails < MaxFailures
    /\ sharedFails' = sharedFails + 1
    /\ failedAt' = now
    /\ IF sharedFails + 1 = Threshold
       THEN openUntil' = now + RestTime /\ overtaken' = FALSE
       ELSE UNCHANGED <<openUntil, overtaken>>

\* The script: SET ... NX EX at the threshold.
CountFailure ==
    /\ sharedFails < MaxFailures
    /\ sharedFails' = sharedFails + 1
    /\ failedAt' = now
    /\ IF sharedFails + 1 >= Threshold /\ now >= openUntil
       THEN openUntil' = now + RestTime /\ overtaken' = FALSE
       ELSE UNCHANGED <<openUntil, overtaken>>

FailureCounted(c) ==
    /\ llmCall[c] = "counting"
    /\ Answered
    /\ CountFailure
    /\ CallGoes(c, "none")
    /\ UNCHANGED <<failures, openedAt, localOpen>>

FailureReplyLost(c) ==
    /\ llmCall[c] = "counting"
    /\ ReplyLost(RunsIn[c])
    /\ CountFailure
    /\ CallGoes(c, "none")
    /\ UNCHANGED <<failures, openedAt, localOpen>>

----------------------------------------------------------------------------

CircuitNext ==
    \/ \E c \in LlmCalls : CheckCircuit(c) \/ CheckAnswered(c) \/ CheckFails(c)
    \/ \E c \in LlmCalls : Succeeds(c) \/ ResetFailures(c) \/ DeleteOpenKey(c)
    \/ \E c \in LlmCalls : Fails(c) \/ FailureCounted(c) \/ FailureReplyLost(c)
    \/ \E c \in LlmCalls : RecordFails(c)
    \/ RedisStep /\ UNCHANGED circuitVars

CircuitSpec == CircuitInit /\ [][CircuitNext]_<<redisVars, circuitVars>>

----------------------------------------------------------------------------
(* Properties. *)

(* When a failure is counted in Redis and Threshold failures in a row are  *)
(* on record, the shared circuit is open from then on for what is left of  *)
(* its cooldown: also after a failed probe, and whatever calls were under  *)
(* way.  Only a success that was being recorded when the failures came     *)
(* deletes their key (record_success).  A process with that many failures  *)
(* of its own has opened its circuit, but once: a failed probe does not    *)
(* start the cooldown again (_record_local_failure).                       *)
FailuresOpen ==
    /\ (sharedFails >= Threshold /\ ~overtaken) => failedAt < openUntil
    /\ \A p \in Processes : failures[p] >= Threshold => openedAt[p] # 0

=============================================================================
