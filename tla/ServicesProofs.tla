--------------------------- MODULE ServicesProofs ---------------------------
(* The services together do nothing that each would not do on its own: the *)
(* system composed over one Redis implements the specification of every    *)
(* service, where the others are some users of Redis (RedisStep).  What    *)
(* was proved of each service holds of all of them together.               *)
EXTENDS Services, RedisLimitsProofs, BrowserPoolProofs, RecipeLearningProofs

\* What a user of Redis does to it: nothing, or what another user sees as a RedisStep.
LEMMA CallSeenByOthers ==
    ASSUME NEW p \in Processes, Answered \/ NotCarriedOut(p) \/ ReplyLost(p)
    PROVE  RedisStep \/ UNCHANGED redisVars
BY DEF Answered, RedisStep, OthersDisable

LEMMA PacingSeenByOthers == PacingNext => RedisStep \/ UNCHANGED redisVars
<1> SUFFICES ASSUME PacingNext PROVE RedisStep \/ UNCHANGED redisVars
    OBVIOUS
<1> USE HostPacingAssumption DEF HostPacingAssumption
<1>1. ASSUME NEW f \in Fetchers, NEW h \in Hosts, ClaimLocally(f, h) \/ AskRedis(f, h)
      PROVE  UNCHANGED redisVars
    BY <1>1 DEF ClaimLocally, AskRedis
<1>2. ASSUME NEW f \in Fetchers, RedisGrants(f) \/ RedisFails(f) \/ Wake(f) \/ FetchedWell(f)
      PROVE  RedisStep \/ UNCHANGED redisVars
    <2>1. Home[f] \in Processes
        OBVIOUS
    <2>2. CASE Wake(f) \/ FetchedWell(f)
        BY <2>2 DEF Wake, FetchedWell
    <2>3. CASE RedisGrants(f) \/ RedisFails(f)
        BY <2>1, <2>3, CallSeenByOthers DEF RedisGrants, RedisFails
    <2> QED BY <1>2, <2>2, <2>3
<1>3. ASSUME NEW f \in Fetchers, Blocked(f) \/ RedisBacksOff(f) \/ BackoffFails(f)
      PROVE  RedisStep \/ UNCHANGED redisVars
    <2>1. Home[f] \in Processes
        OBVIOUS
    <2>2. CASE Blocked(f)
        BY <2>2 DEF Blocked
    <2>3. CASE RedisBacksOff(f) \/ BackoffFails(f)
        BY <2>1, <2>3, CallSeenByOthers DEF RedisBacksOff, BackoffFails
    <2> QED BY <1>3, <2>2, <2>3
<1>4. ASSUME NEW p \in Processes, ResetLocal(p) \/ ResetShared(p)
      PROVE  RedisStep \/ UNCHANGED redisVars
    BY <1>4, CallSeenByOthers DEF ResetLocal, ResetShared
<1> QED BY <1>1, <1>2, <1>3, <1>4 DEF PacingNext

LEMMA WindowSeenByOthers == WindowNext => RedisStep \/ UNCHANGED redisVars
<1> SUFFICES ASSUME WindowNext PROVE RedisStep \/ UNCHANGED redisVars
    OBVIOUS
<1>1. ASSUME NEW q \in RequestSlots, NEW i \in Identifiers, CountLocally(q, i) \/ AskWindow(q, i)
      PROVE  UNCHANGED redisVars
    BY <1>1 DEF CountLocally, AskWindow
<1>2. ASSUME NEW q \in RequestSlots, WindowAnswers(q) \/ WindowFails(q)
      PROVE  RedisStep \/ UNCHANGED redisVars
    <2>1. Serves[q] \in Processes
        BY RequestWindowAssumption DEF RequestWindowAssumption
    <2>2. Answered \/ NotCarriedOut(Serves[q]) \/ ReplyLost(Serves[q])
        BY <1>2 DEF WindowAnswers, WindowFails
    <2> QED BY <2>1, <2>2, CallSeenByOthers
<1> QED BY <1>1, <1>2 DEF WindowNext

LEMMA CircuitSeenByOthers == CircuitNext => RedisStep \/ UNCHANGED redisVars
<1> SUFFICES ASSUME CircuitNext PROVE RedisStep \/ UNCHANGED redisVars
    OBVIOUS
<1>1. ASSUME NEW c \in LlmCalls, CheckCircuit(c) \/ Succeeds(c) \/ Fails(c)
      PROVE  UNCHANGED redisVars
    BY <1>1 DEF CheckCircuit, Succeeds, Fails
<1>2. ASSUME NEW c \in LlmCalls,
             \/ CheckAnswered(c) \/ CheckFails(c) \/ ResetFailures(c) \/ DeleteOpenKey(c)
             \/ FailureCounted(c) \/ FailureReplyLost(c) \/ RecordFails(c)
      PROVE  RedisStep \/ UNCHANGED redisVars
    <2>1. RunsIn[c] \in Processes
        BY LlmCircuitAssumption DEF LlmCircuitAssumption
    <2>2. Answered \/ NotCarriedOut(RunsIn[c]) \/ ReplyLost(RunsIn[c])
        BY <1>2 DEF CheckAnswered, CheckFails, ResetFailures, DeleteOpenKey, FailureCounted,
                    FailureReplyLost, RecordFails
    <2> QED BY <2>1, <2>2, CallSeenByOthers
<1> QED BY <1>1, <1>2 DEF CircuitNext

----------------------------------------------------------------------------

LEMMA TogetherStarts ==
    TogetherInit => PoolInit /\ PacingInit /\ WindowInit /\ CircuitInit /\ LearningInit
BY DEF TogetherInit

LEMMA TogetherSteps ==
    ASSUME [TogetherNext]_togetherVars
    PROVE  /\ [PoolNext]_poolVars
           /\ [PacingNext]_pVars
           /\ [WindowNext]_wVars
           /\ [CircuitNext]_cVars
           /\ [LearningNext]_learningVars
<1>1. CASE UNCHANGED togetherVars
    BY <1>1 DEF togetherVars, pVars, wVars, cVars
<1>2. CASE PoolSteps
    BY <1>2 DEF PoolSteps, pVars, wVars, cVars
<1>3. CASE LearningSteps
    BY <1>3 DEF LearningSteps, pVars, wVars, cVars
<1>4. CASE PacingSteps
    <2>1. RedisStep \/ UNCHANGED redisVars
        BY <1>4, PacingSeenByOthers DEF PacingSteps
    <2>2. PacingNext /\ UNCHANGED <<poolVars, windowVars, circuitVars, learningVars>>
        BY <1>4 DEF PacingSteps
    <2>3. [WindowNext]_wVars /\ [CircuitNext]_cVars
        BY <2>1, <2>2 DEF WindowNext, CircuitNext, wVars, cVars
    <2> QED BY <2>2, <2>3
<1>5. CASE WindowSteps
    <2>1. RedisStep \/ UNCHANGED redisVars
        BY <1>5, WindowSeenByOthers DEF WindowSteps
    <2>2. WindowNext /\ UNCHANGED <<poolVars, pacingVars, circuitVars, learningVars>>
        BY <1>5 DEF WindowSteps
    <2>3. [PacingNext]_pVars /\ [CircuitNext]_cVars
        BY <2>1, <2>2 DEF PacingNext, CircuitNext, pVars, cVars
    <2> QED BY <2>2, <2>3
<1>6. CASE CircuitSteps
    <2>1. RedisStep \/ UNCHANGED redisVars
        BY <1>6, CircuitSeenByOthers DEF CircuitSteps
    <2>2. CircuitNext /\ UNCHANGED <<poolVars, pacingVars, windowVars, learningVars>>
        BY <1>6 DEF CircuitSteps
    <2>3. [PacingNext]_pVars /\ [WindowNext]_wVars
        BY <2>1, <2>2 DEF PacingNext, WindowNext, pVars, wVars
    <2> QED BY <2>2, <2>3
<1> QED BY <1>1, <1>2, <1>3, <1>4, <1>5, <1>6 DEF TogetherNext

(* All services over one Redis implement each service over its own: the    *)
(* failed calls of one are, to the breaker of core/redis.py in another,    *)
(* the failed calls of some user in its process.                           *)
THEOREM TogetherImplementsEach ==
    TogetherSpec => PoolSpec /\ PacingSpec /\ WindowSpec /\ CircuitSpec /\ LearningSpec
<1>1. /\ PoolSpec <=> PoolInit /\ [][PoolNext]_poolVars
      /\ PacingSpec <=> PacingInit /\ [][PacingNext]_pVars
      /\ WindowSpec <=> WindowInit /\ [][WindowNext]_wVars
      /\ CircuitSpec <=> CircuitInit /\ [][CircuitNext]_cVars
      /\ LearningSpec <=> LearningInit /\ [][LearningNext]_learningVars
    BY DEF PoolSpec, PacingSpec, WindowSpec, CircuitSpec, LearningSpec, pVars, wVars, cVars
<1>2. [TogetherNext]_togetherVars =>
        /\ [PoolNext]_poolVars
        /\ [PacingNext]_pVars
        /\ [WindowNext]_wVars
        /\ [CircuitNext]_cVars
        /\ [LearningNext]_learningVars
    BY TogetherSteps
<1> QED BY <1>1, <1>2, TogetherStarts, PTL DEF TogetherSpec

(* Whatever the services do at once, every variable of every one keeps its *)
(* type: no cache, bucket, counter or pool entry leaves its bounds.        *)
THEOREM ServicesKeepTypes == TogetherSpec => []ServicesTypeOK
<1>1. (PoolTypeOK /\ PacingTypeOK /\ WindowTypeOK /\ CircuitTypeOK /\ LearningTypeOK)
        => ServicesTypeOK
    BY DEF ServicesTypeOK
<1> QED BY <1>1, TogetherImplementsEach, PoolTypeCorrect, PacingTypeCorrect, WindowTypeCorrect,
           CircuitTypeCorrect, LearningTypeCorrect, PTL

(* Each limit holds while the others fail: the pool replaces no browser    *)
(* and no context, the slots of a book are spaced and a blocked host       *)
(* rests, no book admits too many, failures open the circuit, and a recipe *)
(* is compiled once and lost only to drifts.                               *)
THEOREM LimitsHoldTogether ==
    TogetherSpec =>
        /\ [](LaunchReplacesNothing /\ RenewSparesContexts /\ RetiredIsClosed)
        /\ [](AdmissionsBounded /\ FailuresOpen /\ OneCompile /\ DriftSuspends)
        /\ SlotsConserved /\ SlotsAreSpaced /\ BlockedHostRests /\ LearnedIsKept
BY TogetherImplementsEach, LaunchIsSafe, RenewIsSafe, RetiredStaysClosed, SlotsAreConserved,
   SpacedSlots, BlockedHostsRest, NoBookAdmitsMore, FailuresOpenCircuit, ModelIsCalledOnce,
   DriftsInARowSuspend, LearnedRecipeIsKept, PTL

=============================================================================
