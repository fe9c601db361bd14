-------------------------- MODULE BrowserPoolProofs --------------------------
(* The browser pool, for every number of keys, callers and runtimes, every  *)
(* capacity and every number of faults.                                     *)
EXTENDS BrowserPool, FiniteSetTheorems, TLAPS

USE BrowserPoolAssumption DEF BrowserPoolAssumption

----------------------------------------------------------------------------
(* Types. *)

\* A caller that uses a runtime uses one that was made.
UsersInv ==
    /\ \A k \in Keys : pool[k] \in 0..made
    /\ \A c \in Callers : IF pc[c] = "idle" THEN using[c] = 0 /\ attempt[c] = 0
                          ELSE using[c] \in 1..made

TypeInv == PoolTypeOK /\ UsersInv

LEMMA RuntimeOf ==
    ASSUME TypeInv, NEW c \in Callers, pc[c] # "idle"
    PROVE  using[c] \in Runtimes /\ using[c] \in 1..made /\ made \in Nat /\ MaxRuntimes \in Nat
BY DEF TypeInv, PoolTypeOK, UsersInv, Runtimes

\* A caller moves on with what it uses.
Moving(c) ==
    /\ pc[c] # "idle"
    /\ \E phase \in Phases \ {"idle"} : Goto(c, phase)
    /\ attempt' = attempt \/ attempt' = [attempt EXCEPT ![c] = 1]
    /\ UNCHANGED <<using, pool, made, held, closer>>

LEMMA MovingTypes ==
    ASSUME TypeInv, NEW c \in Callers, Moving(c)
    PROVE  /\ pc' \in [Callers -> Phases] /\ attempt' \in [Callers -> {0, 1}]
           /\ UsersInv' /\ \A d \in Callers : pc'[d] # "idle" => using'[d] \in Runtimes
<1>1. PICK phase \in Phases \ {"idle"} : pc' = [pc EXCEPT ![c] = phase]
    BY DEF Moving, Goto
<1>2. pc \in [Callers -> Phases] /\ attempt \in [Callers -> {0, 1}]
    BY DEF TypeInv, PoolTypeOK
<1>3. pc' \in [Callers -> Phases] /\ pc'[c] # "idle" /\ \A d \in Callers \ {c} : pc'[d] = pc[d]
    BY <1>1, <1>2
<1>4. attempt' \in [Callers -> {0, 1}] /\ \A d \in Callers \ {c} : attempt'[d] = attempt[d]
    BY <1>2 DEF Moving
<1>5. \A d \in Callers : pc'[d] # "idle" => pc[d] # "idle"
    BY <1>3 DEF Moving
<1>6. UsersInv'
    <2>1. \A k \in Keys : pool'[k] \in 0..made'
        BY DEF TypeInv, UsersInv, Moving
    <2>2. ASSUME NEW d \in Callers
          PROVE  IF pc'[d] = "idle" THEN using'[d] = 0 /\ attempt'[d] = 0
                 ELSE using'[d] \in 1..made'
        BY <1>3, <1>4 DEF TypeInv, UsersInv, Moving
    <2> QED BY <2>1, <2>2 DEF UsersInv
<1>7. \A d \in Callers : pc'[d] # "idle" => using'[d] \in Runtimes
    BY <1>5 DEF TypeInv, PoolTypeOK, Moving
<1> QED BY <1>3, <1>4, <1>6, <1>7

LEMMA LeavingTypes ==
    ASSUME TypeInv, NEW c \in Callers, Leave(c), UNCHANGED <<pool, made>>
    PROVE  /\ pc' \in [Callers -> Phases] /\ attempt' \in [Callers -> {0, 1}]
           /\ using' \in [Callers -> 0..MaxRuntimes]
           /\ UsersInv' /\ \A d \in Callers : pc'[d] # "idle" => using'[d] \in Runtimes
<1>1. /\ pc' = [pc EXCEPT ![c] = "idle"] /\ using' = [using EXCEPT ![c] = 0]
      /\ attempt' = [attempt EXCEPT ![c] = 0]
    BY DEF Leave, Goto
<1>2. /\ pc \in [Callers -> Phases] /\ attempt \in [Callers -> {0, 1}]
      /\ using \in [Callers -> 0..MaxRuntimes]
    BY DEF TypeInv, PoolTypeOK
<1>3. /\ pc' \in [Callers -> Phases] /\ pc'[c] = "idle" /\ using'[c] = 0 /\ attempt'[c] = 0
      /\ attempt' \in [Callers -> {0, 1}] /\ using' \in [Callers -> 0..MaxRuntimes]
      /\ \A d \in Callers \ {c} : pc'[d] = pc[d] /\ attempt'[d] = attempt[d] /\ using'[d] = using[d]
    BY <1>1, <1>2 DEF Phases
<1>4. UsersInv'
    <2>1. \A k \in Keys : pool'[k] \in 0..made'
        BY DEF TypeInv, UsersInv
    <2>2. ASSUME NEW d \in Callers
          PROVE  IF pc'[d] = "idle" THEN using'[d] = 0 /\ attempt'[d] = 0
                 ELSE using'[d] \in 1..made'
        BY <1>3 DEF TypeInv, UsersInv
    <2> QED BY <2>1, <2>2 DEF UsersInv
<1>5. \A d \in Callers : pc'[d] # "idle" => using'[d] \in Runtimes
    BY <1>3 DEF TypeInv, PoolTypeOK
<1> QED BY <1>3, <1>4, <1>5

\* The counters and browsers of the runtimes, and who closes them.
RuntimesOK ==
    /\ browser \in [Runtimes -> {"none", "up", "closing", "dead"}]
    /\ created \in [Runtimes -> 0..RecycleAfter]
    /\ aged \subseteq Runtimes
    /\ free \in [Runtimes -> Nat]
    /\ deferred \in [Runtimes -> Nat]
    /\ closer \in [Runtimes -> {"none", "waiting", "closing"}]
    /\ held \subseteq Runtimes
    /\ poolFaults \in 0..MaxFaults

LEMMA MovingKeepsTypes ==
    ASSUME TypeInv, NEW c \in Callers, Moving(c), RuntimesOK'
    PROVE  TypeInv'
BY MovingTypes DEF TypeInv, PoolTypeOK, RuntimesOK, Moving

LEMMA LeavingKeepsTypes ==
    ASSUME TypeInv, NEW c \in Callers, Leave(c), UNCHANGED <<pool, made>>, RuntimesOK'
    PROVE  TypeInv'
BY LeavingTypes DEF TypeInv, PoolTypeOK, RuntimesOK

LEMMA StayingKeepsTypes ==
    ASSUME TypeInv, UNCHANGED <<pool, made, pc, using, attempt>>, RuntimesOK'
    PROVE  TypeInv'
<1>1. UsersInv'
    BY DEF TypeInv, UsersInv
<1> QED BY <1>1 DEF TypeInv, PoolTypeOK, RuntimesOK

LEMMA RuntimesNow == TypeInv => RuntimesOK
BY DEF TypeInv, PoolTypeOK, RuntimesOK

LEMMA FaultTypes ==
    ASSUME TypeInv, Fault \/ UNCHANGED poolFaults
    PROVE  poolFaults' \in 0..MaxFaults
BY DEF TypeInv, PoolTypeOK, Fault

LEMMA ReleaseTypes ==
    ASSUME TypeInv, NEW r \in Runtimes, Release(r) \/ UNCHANGED free
    PROVE  free' \in [Runtimes -> Nat]
BY DEF TypeInv, PoolTypeOK, Release

LEMMA SlotTypes ==
    ASSUME TypeInv, NEW c \in Callers, SlotStep(c)
    PROVE  TypeInv'
<1>1. pc[c] # "idle"
    BY DEF SlotStep, TakeSlot, RetakeSlot, SlotTimeout, SlotCancelled
<1>2. using[c] \in Runtimes /\ RuntimesOK
    BY <1>1, RuntimeOf, RuntimesNow
<1>3. CASE TakeSlot(c) \/ RetakeSlot(c)
    <2>1. Moving(c)
        BY <1>1, <1>3 DEF TakeSlot, RetakeSlot, Moving, Ensure, Goto, Phases
    <2>2. free[using[c]] > 0 /\ (free' = free \/ free' = [free EXCEPT ![using[c]] = @ - 1])
        BY <1>3 DEF TakeSlot, RetakeSlot
    <2>3. free' \in [Runtimes -> Nat]
        BY <1>2, <2>2 DEF RuntimesOK
    <2>4. RuntimesOK'
        BY <1>2, <1>3, <2>3 DEF RuntimesOK, TakeSlot, RetakeSlot
    <2> QED BY <2>1, <2>4, MovingKeepsTypes
<1>4. CASE SlotTimeout(c) \/ SlotCancelled(c)
    <2>1. Leave(c) /\ UNCHANGED <<pool, made>>
        BY <1>4 DEF SlotTimeout, SlotCancelled
    <2>2. free' \in [Runtimes -> Nat] /\ poolFaults' \in 0..MaxFaults
        BY <1>2, <1>4, ReleaseTypes, FaultTypes DEF SlotTimeout, SlotCancelled
    <2>3. RuntimesOK'
        BY <1>2, <1>4, <2>2 DEF RuntimesOK, SlotTimeout, SlotCancelled
    <2> QED BY <2>1, <2>3, LeavingKeepsTypes
<1> QED BY <1>3, <1>4 DEF SlotStep

LEMMA StartCloseTypes ==
    ASSUME TypeInv, NEW r \in Runtimes, StartClose(r) \/ UNCHANGED browser
    PROVE  browser' \in [Runtimes -> {"none", "up", "closing", "dead"}]
BY DEF TypeInv, PoolTypeOK, StartClose

LEMMA LockTypes ==
    ASSUME TypeInv, NEW c \in Callers, LockStep(c)
    PROVE  TypeInv'
<1>1. pc[c] # "idle"
    BY DEF LockStep, LockAndCheck, Renewed, Launch, LaunchFails, LaunchAborted, Recycle,
           Recycled, CloseCancelled
<1>2. using[c] \in Runtimes /\ RuntimesOK
    BY <1>1, RuntimeOf, RuntimesNow
<1>3. CASE LockAndCheck(c) \/ Recycle(c)
    <2>1. Moving(c)
        <3>1. CASE LockAndCheck(c)
            BY <1>1, <3>1 DEF LockAndCheck, Moving, Goto, Phases
        <3>2. CASE Recycle(c)
            BY <1>1, <3>2 DEF Recycle, Moving, Goto, Phases
        <3> QED BY <1>3, <3>1, <3>2
    <2>2. browser' \in [Runtimes -> {"none", "up", "closing", "dead"}]
        BY <1>2, <1>3, StartCloseTypes DEF LockAndCheck, Recycle
    <2>3. RuntimesOK'
        BY <1>2, <1>3, <2>2 DEF RuntimesOK, LockAndCheck, Recycle
    <2> QED BY <2>1, <2>3, MovingKeepsTypes
<1>4. CASE Renewed(c) \/ Recycled(c)
    <2>1. Moving(c)
        BY <1>1, <1>4 DEF Renewed, Recycled, Moving, Goto, Phases
    <2>2. RuntimesOK'
        BY <1>2, <1>4 DEF RuntimesOK, Renewed, Recycled
    <2> QED BY <2>1, <2>2, MovingKeepsTypes
<1>5. CASE Launch(c)
    <2>1. Moving(c)
        BY <1>1, <1>5 DEF Launch, Moving, Goto, Phases
    <2>2. RuntimesOK'
        BY <1>2, <1>5 DEF RuntimesOK, Launch
    <2> QED BY <2>1, <2>2, MovingKeepsTypes
<1>6. CASE LaunchFails(c)
    <2>1. Moving(c)
        BY <1>1, <1>6 DEF LaunchFails, Moving, Goto, Phases
    <2>2. RuntimesOK'
        BY <1>2, <1>6, FaultTypes DEF RuntimesOK, LaunchFails
    <2> QED BY <2>1, <2>2, MovingKeepsTypes
<1>7. CASE LaunchAborted(c) \/ CloseCancelled(c)
    <2>1. Leave(c) /\ UNCHANGED <<pool, made, browser>>
        BY <1>7 DEF LaunchAborted, CloseCancelled
    <2>2. free' \in [Runtimes -> Nat]
        BY <1>2, <1>7, ReleaseTypes DEF LaunchAborted, CloseCancelled
    <2>3. poolFaults' \in 0..MaxFaults
        BY <1>2, <1>7, FaultTypes DEF RuntimesOK, LaunchAborted, CloseCancelled
    <2>4. RuntimesOK'
        BY <1>2, <1>7, <2>2, <2>3 DEF RuntimesOK, LaunchAborted, CloseCancelled
    <2> QED BY <2>1, <2>4, LeavingKeepsTypes
<1> QED BY <1>3, <1>4, <1>5, <1>6, <1>7 DEF LockStep

LEMMA ContextTypes ==
    ASSUME TypeInv, NEW r \in Runtimes
    PROVE  ContextMade(r) \in [Runtimes -> 0..RecycleAfter]
BY DEF TypeInv, PoolTypeOK, ContextMade

LEMMA PageTypes ==
    ASSUME TypeInv, NEW c \in Callers, PageStep(c)
    PROVE  TypeInv'
<1>1. pc[c] # "idle"
    BY DEF PageStep, OpenPage, Disconnected, OpenFails, FinishPage, ContextClosed,
           ContextCloseLate
<1>2. using[c] \in Runtimes /\ RuntimesOK
    BY <1>1, RuntimeOf, RuntimesNow
<1>3. ContextMade(using[c]) \in [Runtimes -> 0..RecycleAfter]
    BY <1>2, ContextTypes
<1>4. CASE OpenPage(c) \/ FinishPage(c)
    <2>1. Moving(c)
        BY <1>1, <1>4 DEF OpenPage, FinishPage, Moving, Goto, Phases
    <2>2. RuntimesOK'
        BY <1>2, <1>3, <1>4 DEF RuntimesOK, OpenPage, FinishPage
    <2> QED BY <2>1, <2>2, MovingKeepsTypes
<1>5. CASE Disconnected(c)
    <2>1. Moving(c)
        BY <1>1, <1>5 DEF Disconnected, Moving, Goto, Phases
    <2>2. created' \in [Runtimes -> 0..RecycleAfter] /\ poolFaults' \in 0..MaxFaults
        BY <1>2, <1>3, <1>5, FaultTypes DEF RuntimesOK, Disconnected
    <2>3. RuntimesOK'
        BY <1>2, <1>5, <2>2 DEF RuntimesOK, Disconnected
    <2> QED BY <2>1, <2>3, MovingKeepsTypes
<1>6. CASE OpenFails(c)
    <2>1. created' \in [Runtimes -> 0..RecycleAfter] /\ poolFaults' \in 0..MaxFaults
        BY <1>2, <1>3, <1>6, FaultTypes DEF RuntimesOK, OpenFails
    <2>2. free' \in [Runtimes -> Nat]
        BY <1>2, <1>6, ReleaseTypes DEF OpenFails
    <2>3. RuntimesOK'
        BY <1>2, <1>6, <2>1, <2>2 DEF RuntimesOK, OpenFails
    <2> QED BY <1>6, <2>3, LeavingKeepsTypes DEF OpenFails
<1>7. CASE ContextClosed(c)
    <2>1. RuntimesOK'
        BY <1>2, <1>7, ReleaseTypes DEF RuntimesOK, ContextClosed
    <2> QED BY <1>7, <2>1, LeavingKeepsTypes DEF ContextClosed
<1>8. CASE ContextCloseLate(c)
    <2>1. poolFaults' \in 0..MaxFaults /\ deferred' \in [Runtimes -> Nat]
        BY <1>2, <1>8, FaultTypes DEF RuntimesOK, ContextCloseLate
    <2>2. RuntimesOK'
        BY <1>2, <1>8, <2>1 DEF RuntimesOK, ContextCloseLate
    <2> QED BY <1>8, <2>2, LeavingKeepsTypes DEF ContextCloseLate
<1> QED BY <1>4, <1>5, <1>6, <1>7, <1>8 DEF PageStep

LEMMA RuntimeTypes ==
    ASSUME TypeInv, NEW r \in Runtimes, RuntimeStep(r)
    PROVE  TypeInv'
<1>1. RuntimesOK /\ UNCHANGED <<pool, made, pc, using, attempt>>
    BY RuntimesNow DEF RuntimeStep, LateCloseDone, CloserLocks, CloserDone, Disconnects, Crash,
           Age
<1>2. CASE LateCloseDone(r)
    <2>1. deferred' = [deferred EXCEPT ![r] = @ - 1] /\ deferred[r] > 0
        BY <1>2 DEF LateCloseDone
    <2>2. deferred' \in [Runtimes -> Nat]
        BY <1>1, <2>1 DEF RuntimesOK
    <2>3. free' \in [Runtimes -> Nat]
        BY <1>2, ReleaseTypes DEF LateCloseDone
    <2>4. RuntimesOK'
        BY <1>1, <1>2, <2>2, <2>3 DEF RuntimesOK, LateCloseDone
    <2> QED BY <1>1, <2>4, StayingKeepsTypes
<1>3. CASE CloserLocks(r) \/ CloserDone(r)
    <2>1. browser' \in [Runtimes -> {"none", "up", "closing", "dead"}]
        <3>1. CASE CloserLocks(r)
            BY <3>1, StartCloseTypes DEF CloserLocks
        <3>2. CASE CloserDone(r)
            BY <1>1, <3>2 DEF RuntimesOK, CloserDone
        <3> QED BY <1>3, <3>1, <3>2
    <2>2. closer' \in [Runtimes -> {"none", "waiting", "closing"}]
        BY <1>1, <1>3 DEF RuntimesOK, CloserLocks, CloserDone
    <2>3. RuntimesOK'
        BY <1>1, <1>3, <2>1, <2>2 DEF RuntimesOK, CloserLocks, CloserDone
    <2> QED BY <1>1, <2>3, StayingKeepsTypes
<1>4. CASE Crash(r) \/ Age(r)
    <2>1. poolFaults' \in 0..MaxFaults
        BY <1>4, FaultTypes DEF Crash, Age
    <2>2. RuntimesOK'
        BY <1>1, <1>4, <2>1 DEF RuntimesOK, Crash, Age
    <2> QED BY <1>1, <2>2, StayingKeepsTypes
<1>5. CASE Disconnects(r)
    <2>1. RuntimesOK'
        BY <1>1, <1>5 DEF RuntimesOK, Disconnects
    <2> QED BY <1>1, <2>1, StayingKeepsTypes
<1> QED BY <1>2, <1>3, <1>4, <1>5 DEF RuntimeStep

LEMMA RetireTypes ==
    ASSUME RuntimesOK, NEW runtimes, Retire(runtimes)
    PROVE  closer' \in [Runtimes -> {"none", "waiting", "closing"}]
BY DEF RuntimesOK, Retire

\* What is evicted was pooled and nobody was using it.
LEMMA EvictedIdle ==
    ASSUME NEW gone \in SUBSET Keys, Evicted(gone)
    PROVE  \A j \in gone : pool[j] # 0 /\ Idle(pool[j])
BY DEF Evicted

LEMMA EntryTypes ==
    ASSUME TypeInv, NEW c \in Callers, NEW k \in Keys, GetPooled(c, k) \/ GetNew(c, k)
    PROVE  TypeInv'
<1>1. RuntimesOK /\ made \in Nat /\ MaxRuntimes \in Nat /\ made <= MaxRuntimes
    BY RuntimesNow DEF TypeInv, PoolTypeOK
<1>2. UNCHANGED <<browser, created, aged, free, deferred, attempt, poolFaults>>
    BY DEF GetPooled, GetNew, Enter
<1>3. PICK r \in Runtimes : Enter(c, r) /\ r <= made' /\ made' \in made..MaxRuntimes
                            /\ pool' \in [Keys -> 0..made'] /\ made' \in Nat
    <2>1. CASE GetPooled(c, k)
        <3>1. Enter(c, pool[k]) /\ UNCHANGED <<pool, made>> /\ pool[k] # 0
            BY <2>1 DEF GetPooled
        <3>2. pool \in [Keys -> 0..made] /\ pool[k] \in Runtimes
            BY <1>1, <3>1 DEF TypeInv, PoolTypeOK, UsersInv, Runtimes
        <3> QED BY <1>1, <3>1, <3>2
    <2>2. CASE GetNew(c, k)
        <3>1. PICK gone \in SUBSET Keys :
                pool' = [j \in Keys |-> IF j = k THEN made + 1
                                        ELSE IF j \in gone THEN 0 ELSE pool[j]]
            BY <2>2 DEF GetNew
        <3>2. Enter(c, made + 1) /\ made' = made + 1 /\ made < MaxRuntimes
            BY <2>2 DEF GetNew
        <3>3. \A j \in Keys : pool[j] \in 0..(made + 1)
            BY <1>1 DEF TypeInv, UsersInv
        <3>4. pool' \in [Keys -> 0..made'] /\ made + 1 \in Runtimes
            BY <1>1, <3>1, <3>2, <3>3 DEF Runtimes
        <3> QED BY <1>1, <3>2, <3>4
    <2> QED BY <2>1, <2>2
<1>4. closer' \in [Runtimes -> {"none", "waiting", "closing"}] /\ held' \subseteq Runtimes
    <2>1. CASE GetPooled(c, k)
        BY <1>1, <2>1 DEF GetPooled, RuntimesOK
    <2>2. CASE GetNew(c, k)
        <3>1. PICK gone \in SUBSET Keys : Evicted(gone) /\ Retire({pool[j] : j \in gone})
            BY <2>2 DEF GetNew
        <3>2. \A j \in gone : pool[j] \in Runtimes
            <4>1. \A j \in gone : pool[j] # 0
                BY <3>1, EvictedIdle
            <4> QED BY <1>1, <4>1 DEF TypeInv, PoolTypeOK, Runtimes
        <3>3. held' \subseteq Runtimes
            BY <1>1, <3>1, <3>2 DEF Retire, RuntimesOK
        <3> QED BY <1>1, <3>1, <3>3, RetireTypes
    <2> QED BY <2>1, <2>2
<1>5. RuntimesOK'
    BY <1>1, <1>2, <1>4 DEF RuntimesOK
<1>6. pc[c] = "idle" /\ attempt[c] = 0
    BY DEF GetPooled, GetNew, TypeInv, UsersInv
<1>7. /\ pc' \in [Callers -> Phases] /\ pc'[c] = "queued"
      /\ using' \in [Callers -> 0..MaxRuntimes] /\ using'[c] = r
      /\ \A d \in Callers \ {c} : pc'[d] = pc[d] /\ using'[d] = using[d]
    BY <1>1, <1>3 DEF Enter, Goto, TypeInv, PoolTypeOK, Phases, Runtimes
<1>8. UsersInv'
    <2>1. \A j \in Keys : pool'[j] \in 0..made'
        BY <1>3
    <2>2. ASSUME NEW d \in Callers
          PROVE  IF pc'[d] = "idle" THEN using'[d] = 0 /\ attempt'[d] = 0
                 ELSE using'[d] \in 1..made'
        <3>1. CASE d = c
            BY <1>1, <1>3, <1>7, <3>1 DEF Runtimes
        <3>2. CASE d # c
            <4>1. using[d] \in 1..made => using[d] \in 1..made'
                BY <1>1, <1>3
            <4> QED BY <1>2, <1>7, <3>2, <4>1 DEF TypeInv, UsersInv
        <3> QED BY <3>1, <3>2
    <2> QED BY <2>1, <2>2 DEF UsersInv
<1>9. made' \in 0..MaxRuntimes /\ pool' \in [Keys -> 0..MaxRuntimes]
    BY <1>1, <1>3
<1>10. \A d \in Callers : pc'[d] # "idle" => using'[d] \in Runtimes
    BY <1>8, <1>9 DEF UsersInv, Runtimes
<1>11. attempt' \in [Callers -> {0, 1}]
    BY <1>2 DEF TypeInv, PoolTypeOK
<1> QED BY <1>5, <1>7, <1>8, <1>9, <1>10, <1>11 DEF TypeInv, PoolTypeOK, RuntimesOK

LEMMA ShutdownTypes ==
    ASSUME TypeInv, Shutdown
    PROVE  TypeInv'
<1>1. RuntimesOK /\ \A k \in Keys : pool[k] \in 0..MaxRuntimes
    BY RuntimesNow DEF TypeInv, PoolTypeOK
<1>2. Retire({pool[k] : k \in Keys} \ {0})
    BY DEF Shutdown
<1>3. closer' \in [Runtimes -> {"none", "waiting", "closing"}] /\ held' \subseteq Runtimes
    <2>1. {pool[k] : k \in Keys} \ {0} \subseteq Runtimes
        BY <1>1 DEF Runtimes
    <2> QED BY <1>1, <1>2, <2>1, RetireTypes DEF Retire, RuntimesOK
<1>4. RuntimesOK'
    BY <1>1, <1>3 DEF Shutdown, RuntimesOK
<1>5. /\ pool' = [k \in Keys |-> 0] /\ made' = made /\ made \in Nat
      /\ UNCHANGED <<pc, using, attempt>>
    BY DEF Shutdown, TypeInv, PoolTypeOK
<1>6. UsersInv'
    BY <1>5 DEF TypeInv, UsersInv
<1>7. pool' \in [Keys -> 0..MaxRuntimes]
    BY <1>5
<1> QED BY <1>4, <1>5, <1>6, <1>7 DEF TypeInv, PoolTypeOK, RuntimesOK

----------------------------------------------------------------------------
(* The runtime lock. *)

\* One holder at a time, and none while the background close has the lock.
LockInv ==
    /\ \A c, d \in Callers :
        pc[c] \in LockHolders /\ pc[d] \in LockHolders /\ using[c] = using[d] => c = d
    /\ \A c \in Callers : pc[c] \in LockHolders => closer[using[c]] # "closing"

LaunchInv == \A c \in Callers : pc[c] = "launching" => browser[using[c]] = "none"

\* What a renewing caller has found and its lock preserves.
Renewable(r) ==
    /\ \A e \in Callers : using[e] = r => ~IsActive(e)
    /\ deferred[r] = 0
    /\ created[r] >= RecycleAfter \/ r \in aged

RenewInv ==
    \A c \in Callers :
        pc[c] = "renewing" /\ browser[using[c]] = "closing" => Renewable(using[c])

SafeInv == TypeInv /\ LockInv /\ LaunchInv /\ RenewInv

\* Nobody takes a lock in this step but c, who found it free; no background
\* close gets one.
LEMMA LockKept ==
    ASSUME LockInv, NEW c \in Callers,
           \A d \in Callers \ {c} : pc'[d] = pc[d] /\ using'[d] = using[d],
           pc'[c] \in LockHolders =>
                using'[c] = using[c] /\ (pc[c] \in LockHolders \/ LockFree(using[c])),
           \A r : closer'[r] = "closing" => closer[r] = "closing"
    PROVE  LockInv'
<1>1. ASSUME NEW d \in Callers, NEW e \in Callers, pc'[d] \in LockHolders,
             pc'[e] \in LockHolders, using'[d] = using'[e]
      PROVE  d = e
    BY <1>1 DEF LockInv, LockFree, On
<1>2. ASSUME NEW d \in Callers, pc'[d] \in LockHolders
      PROVE  closer'[using'[d]] # "closing"
    BY <1>2 DEF LockInv, LockFree
<1> QED BY <1>1, <1>2 DEF LockInv

\* The same for steps of a runtime.
LEMMA LockKeptByRuntime ==
    ASSUME TypeInv, LockInv, NEW r \in Runtimes, UNCHANGED <<pc, using>>,
           closer \in [Runtimes -> {"none", "waiting", "closing"}],
           \/ closer' = closer
           \/ closer' = [closer EXCEPT ![r] = "none"]
           \/ closer' = [closer EXCEPT ![r] = "closing"] /\ LockFree(r)
    PROVE  LockInv'
<1>1. ASSUME NEW d \in Callers, pc[d] \in LockHolders
      PROVE  closer'[using[d]] # "closing"
    <2>1. closer[using[d]] # "closing"
        BY <1>1 DEF LockInv
    <2>2. CASE using[d] = r
        <3>1. ~LockFree(r)
            BY <1>1, <2>2 DEF LockFree, On
        <3>2. closer' = closer \/ closer'[r] = "none"
            BY <3>1
        <3> QED BY <2>1, <2>2, <3>2
    <2>3. CASE using[d] # r
        <3>1. using[d] \in Runtimes
            BY <1>1 DEF TypeInv, PoolTypeOK, LockHolders
        <3> QED BY <2>1, <2>3, <3>1
    <2> QED BY <2>2, <2>3
<1> QED BY <1>1 DEF LockInv

\* A runtime that is popped is not being closed at once.
LEMMA RetireLocks ==
    ASSUME NEW runtimes, Retire(runtimes), NEW r \in Runtimes, closer'[r] = "closing",
           closer \in [Runtimes -> {"none", "waiting", "closing"}]
    PROVE  closer[r] = "closing"
BY DEF Retire

LEMMA SlotLocks ==
    ASSUME TypeInv, LockInv, NEW c \in Callers, SlotStep(c)
    PROVE  LockInv'
<1>1. \A d \in Callers \ {c} : pc'[d] = pc[d] /\ using'[d] = using[d]
    BY DEF TypeInv, PoolTypeOK, SlotStep, TakeSlot, RetakeSlot, SlotTimeout, SlotCancelled,
           Ensure, Leave, Goto
<1>2. pc'[c] \notin LockHolders
    BY DEF TypeInv, PoolTypeOK, SlotStep, TakeSlot, RetakeSlot, SlotTimeout, SlotCancelled,
           Ensure, Leave, Goto, LockHolders
<1>3. closer' = closer
    BY DEF SlotStep, TakeSlot, RetakeSlot, SlotTimeout, SlotCancelled
<1> QED BY <1>1, <1>2, <1>3, LockKept

LEMMA LockLocks ==
    ASSUME TypeInv, LockInv, NEW c \in Callers, LockStep(c)
    PROVE  LockInv'
<1>1. \A d \in Callers \ {c} : pc'[d] = pc[d] /\ using'[d] = using[d]
    BY DEF TypeInv, PoolTypeOK, LockStep, LockAndCheck, Renewed, Launch, LaunchFails,
           LaunchAborted, Recycle, Recycled, CloseCancelled, Leave, Goto
<1>2. closer' = closer
    BY DEF LockStep, LockAndCheck, Renewed, Launch, LaunchFails, LaunchAborted, Recycle, Recycled,
           CloseCancelled
<1>3. pc'[c] \in LockHolders =>
        using'[c] = using[c] /\ (pc[c] \in LockHolders \/ LockFree(using[c]))
    BY DEF TypeInv, PoolTypeOK, LockStep, LockAndCheck, Renewed, Launch, LaunchFails,
           LaunchAborted, Recycle, Recycled, CloseCancelled, Leave, Goto, LockHolders
<1> QED BY <1>1, <1>2, <1>3, LockKept

LEMMA PageLocks ==
    ASSUME TypeInv, LockInv, NEW c \in Callers, PageStep(c)
    PROVE  LockInv'
<1>1. \A d \in Callers \ {c} : pc'[d] = pc[d] /\ using'[d] = using[d]
    BY DEF TypeInv, PoolTypeOK, PageStep, OpenPage, Disconnected, OpenFails, FinishPage,
           ContextClosed, ContextCloseLate, Leave, Goto
<1>2. closer' = closer
    BY DEF PageStep, OpenPage, Disconnected, OpenFails, FinishPage, ContextClosed,
           ContextCloseLate
<1>3. pc'[c] \notin LockHolders
    BY DEF TypeInv, PoolTypeOK, PageStep, OpenPage, Disconnected, OpenFails, FinishPage,
           ContextClosed, ContextCloseLate, Leave, Goto, LockHolders
<1> QED BY <1>1, <1>2, <1>3, LockKept

LEMMA EntryLocks ==
    ASSUME TypeInv, LockInv, NEW c \in Callers, NEW k \in Keys, GetPooled(c, k) \/ GetNew(c, k)
    PROVE  LockInv'
<1>1. PICK r : Enter(c, r)
    BY DEF GetPooled, GetNew
<1>2. \A d \in Callers \ {c} : pc'[d] = pc[d] /\ using'[d] = using[d]
    BY <1>1 DEF TypeInv, PoolTypeOK, Enter, Goto
<1>3. pc'[c] = "queued" /\ pc'[c] \notin LockHolders
    BY <1>1 DEF TypeInv, PoolTypeOK, Enter, Goto, LockHolders
<1>4. \A d \in Callers : pc'[d] \in LockHolders => using[d] \in Runtimes
    BY <1>2, <1>3 DEF TypeInv, PoolTypeOK, LockHolders
<1>5. \A q \in Runtimes : closer'[q] = "closing" => closer[q] = "closing"
    <2>1. closer \in [Runtimes -> {"none", "waiting", "closing"}]
        BY DEF TypeInv, PoolTypeOK
    <2>2. closer' = closer \/ \E runtimes : Retire(runtimes)
        BY DEF GetPooled, GetNew
    <2> QED BY <2>1, <2>2, RetireLocks
<1>6. ASSUME NEW d \in Callers, NEW e \in Callers, pc'[d] \in LockHolders,
             pc'[e] \in LockHolders, using'[d] = using'[e]
      PROVE  d = e
    BY <1>2, <1>3, <1>6 DEF LockInv
<1>7. ASSUME NEW d \in Callers, pc'[d] \in LockHolders
      PROVE  closer'[using'[d]] # "closing"
    BY <1>2, <1>3, <1>4, <1>5, <1>7 DEF LockInv
<1> QED BY <1>6, <1>7 DEF LockInv

LEMMA OtherLocks ==
    ASSUME TypeInv, LockInv, Shutdown \/ \E r \in Runtimes : RuntimeStep(r)
    PROVE  LockInv'
<1>1. closer \in [Runtimes -> {"none", "waiting", "closing"}]
    BY DEF TypeInv, PoolTypeOK
<1>2. CASE Shutdown
    <2>1. UNCHANGED <<pc, using>> /\ \E runtimes : Retire(runtimes)
        BY <1>2 DEF Shutdown
    <2>2. \A q \in Runtimes : closer'[q] = "closing" => closer[q] = "closing"
        BY <1>1, <2>1, RetireLocks
    <2>3. ASSUME NEW d \in Callers, pc[d] \in LockHolders
          PROVE  closer'[using[d]] # "closing"
        <3>1. using[d] \in Runtimes
            BY <2>3 DEF TypeInv, PoolTypeOK, LockHolders
        <3> QED BY <2>2, <2>3, <3>1 DEF LockInv
    <2> QED BY <2>1, <2>3 DEF LockInv
<1>3. ASSUME NEW r \in Runtimes, RuntimeStep(r)
      PROVE  LockInv'
    <2>1. UNCHANGED <<pc, using>>
        BY <1>3 DEF RuntimeStep, LateCloseDone, CloserLocks, CloserDone, Disconnects, Crash, Age
    <2>2. \/ closer' = closer
          \/ closer' = [closer EXCEPT ![r] = "none"]
          \/ closer' = [closer EXCEPT ![r] = "closing"] /\ LockFree(r)
        BY <1>3 DEF RuntimeStep, LateCloseDone, CloserLocks, CloserDone, Disconnects, Crash, Age
    <2> QED BY <1>1, <2>1, <2>2, LockKeptByRuntime
<1> QED BY <1>2, <1>3

----------------------------------------------------------------------------
(* Launching and renewing. *)

LEMMA LaunchKept ==
    ASSUME TypeInv, LaunchInv,
           \A d \in Callers :
                pc'[d] = "launching" => pc[d] = "launching" /\ using'[d] = using[d],
           \A r \in Runtimes : browser[r] = "none" => browser'[r] = "none"
    PROVE  LaunchInv'
BY DEF LaunchInv, TypeInv, PoolTypeOK

LEMMA ClosingKeepsNone ==
    ASSUME TypeInv, NEW r \in Runtimes, StartClose(r), NEW q \in Runtimes
    PROVE  /\ browser[q] = "none" => browser'[q] = "none"
           /\ browser'[q] = "closing" => browser[q] = "closing" \/ (q = r /\ browser[q] = "up")
BY DEF TypeInv, PoolTypeOK, StartClose

\* Whoever renews goes on doing so, and what it found still holds.
LEMMA RenewKept ==
    ASSUME RenewInv, TypeInv,
           \A d \in Callers : pc'[d] = "renewing" => pc[d] = "renewing" /\ using'[d] = using[d],
           \A d \in Callers, r \in Runtimes :
                (pc[d] = "renewing" /\ pc'[d] = "renewing" /\ using[d] = r
                    /\ browser'[r] = "closing") =>
                        browser[r] = "closing" /\ (Renewable(r) => Renewable(r)')
    PROVE  RenewInv'
<1>1. ASSUME NEW d \in Callers, pc'[d] = "renewing", browser'[using'[d]] = "closing"
      PROVE  Renewable(using[d])'
    <2> DEFINE r == using[d]
    <2>1. pc[d] = "renewing" /\ using'[d] = r /\ r \in Runtimes
        BY <1>1 DEF TypeInv, PoolTypeOK
    <2>2. browser[r] = "closing" /\ (Renewable(r) => Renewable(r)')
        BY <1>1, <2>1
    <2>3. Renewable(r)
        BY <2>1, <2>2 DEF RenewInv
    <2>4. ASSUME NEW q \in Runtimes, q = r, browser[q] = "closing", Renewable(q)
          PROVE  Renewable(q)'
        BY <1>1, <2>1, <2>4
    <2>5. PICK q \in Runtimes : q = r /\ using'[d] = q
        BY <2>1
    <2>6. Renewable(q)'
        BY <2>2, <2>3, <2>4, <2>5
    <2> QED BY <2>5, <2>6 DEF Renewable
<1> QED BY <1>1 DEF RenewInv

LEMMA RenewableRecycles ==
    ASSUME TypeInv, NEW r \in Runtimes, Renewable(r), browser[r] = "closing"
    PROVE  ShouldRecycle(r)
<1>1. InContext(r) = {} /\ deferred[r] = 0
    BY DEF Renewable, InContext, On
<1> QED BY <1>1 DEF Renewable, ShouldRecycle, NoneActive, ThresholdReached

LEMMA SlotKeeps ==
    ASSUME SafeInv, NEW c \in Callers, SlotStep(c)
    PROVE  LaunchInv' /\ RenewInv'
<1>1. pc[c] \in {"queued", "requeued"} /\ TypeInv
    BY DEF SlotStep, TakeSlot, RetakeSlot, SlotTimeout, SlotCancelled, SafeInv
<1>2. UNCHANGED <<browser, created, aged, deferred>>
    BY DEF SlotStep, TakeSlot, RetakeSlot, SlotTimeout, SlotCancelled
<1>3. \A d \in Callers \ {c} : pc'[d] = pc[d] /\ using'[d] = using[d] /\ attempt'[d] = attempt[d]
    BY DEF SafeInv, TypeInv, PoolTypeOK, SlotStep, TakeSlot, RetakeSlot, SlotTimeout,
           SlotCancelled, Ensure, Leave, Goto
<1>4. \/ using'[c] = 0 /\ pc'[c] = "idle"
      \/ using'[c] = using[c] /\ attempt'[c] = attempt[c] /\ pc'[c] \in {"requeued", "starting"}
      \/ using'[c] = using[c] /\ pc'[c] = "opening" /\ ~ShouldRecycle(using[c])
    BY DEF SafeInv, TypeInv, PoolTypeOK, SlotStep, TakeSlot, RetakeSlot, SlotTimeout,
           SlotCancelled, Ensure, Leave, Goto
<1>5. LaunchInv'
    <2>1. \A d \in Callers :
            pc'[d] = "launching" => pc[d] = "launching" /\ using'[d] = using[d]
        BY <1>3, <1>4
    <2> QED BY <1>2, <2>1, LaunchKept DEF SafeInv
<1>6. ASSUME NEW r \in Runtimes, Renewable(r), browser[r] = "closing"
      PROVE  Renewable(r)'
    <2>1. ShouldRecycle(r)
        BY <1>1, <1>6, RenewableRecycles
    <2>2. using'[c] = r => ~IsActive(c)'
        <3>1. CASE using'[c] = 0
            BY <3>1 DEF Runtimes
        <3>2. CASE using'[c] = using[c] /\ attempt'[c] = attempt[c]
                   /\ pc'[c] \in {"requeued", "starting"}
            BY <1>6, <3>2 DEF Renewable, IsActive
        <3>3. CASE using'[c] = using[c] /\ ~ShouldRecycle(using[c])
            BY <2>1, <3>3
        <3> QED BY <1>4, <3>1, <3>2, <3>3
    <2>3. ASSUME NEW e \in Callers, using'[e] = r PROVE ~IsActive(e)'
        BY <1>3, <1>6, <2>2, <2>3 DEF Renewable, IsActive
    <2> QED BY <1>2, <1>6, <2>3 DEF Renewable
<1>7. RenewInv'
    <2>1. \A d \in Callers : pc'[d] = "renewing" => pc[d] = "renewing" /\ using'[d] = using[d]
        BY <1>3, <1>4
    <2>2. ASSUME NEW d \in Callers, NEW r \in Runtimes, browser'[r] = "closing"
          PROVE  browser[r] = "closing" /\ (Renewable(r) => Renewable(r)')
        BY <1>2, <1>6, <2>2
    <2> QED BY <1>1, <2>1, <2>2, RenewKept DEF SafeInv
<1> QED BY <1>5, <1>7

LEMMA PageKeeps ==
    ASSUME SafeInv, NEW c \in Callers, PageStep(c)
    PROVE  LaunchInv' /\ RenewInv'
<1>1. TypeInv /\ browser' = browser /\ aged' = aged /\ pc[c] # "idle"
    BY DEF SafeInv, PageStep, OpenPage, Disconnected, OpenFails, FinishPage, ContextClosed,
           ContextCloseLate
<1>2. \A d \in Callers \ {c} : pc'[d] = pc[d] /\ using'[d] = using[d] /\ attempt'[d] = attempt[d]
    BY DEF SafeInv, TypeInv, PoolTypeOK, PageStep, OpenPage, Disconnected, OpenFails, FinishPage,
           ContextClosed, ContextCloseLate, Leave, Goto
<1>3. pc'[c] \in {"idle", "page", "disconnected", "closing"}
    BY DEF SafeInv, TypeInv, PoolTypeOK, PageStep, OpenPage, Disconnected, OpenFails, FinishPage,
           ContextClosed, ContextCloseLate, Leave, Goto
<1>4. \/ IsActive(c)
      \/ UNCHANGED <<created, deferred>> /\ using'[c] = 0
    BY DEF SafeInv, TypeInv, PoolTypeOK, PageStep, OpenPage, Disconnected, OpenFails, FinishPage,
           ContextClosed, ContextCloseLate, Leave, Goto, IsActive
<1>5. \A r \in Runtimes \ {using[c]} :
        deferred'[r] = deferred[r] /\ created'[r] = created[r]
    BY DEF SafeInv, TypeInv, PoolTypeOK, PageStep, OpenPage, Disconnected, OpenFails, FinishPage,
           ContextClosed, ContextCloseLate, ContextMade
<1>6. LaunchInv'
    <2>1. \A d \in Callers :
            pc'[d] = "launching" => pc[d] = "launching" /\ using'[d] = using[d]
        BY <1>2, <1>3
    <2> QED BY <1>1, <2>1, LaunchKept DEF SafeInv
<1>7. using'[c] \in {using[c], 0}
    BY DEF SafeInv, TypeInv, PoolTypeOK, PageStep, OpenPage, Disconnected, OpenFails, FinishPage,
           ContextClosed, ContextCloseLate, Leave
<1>8. ASSUME NEW r \in Runtimes, Renewable(r)
      PROVE  Renewable(r)'
    <2>1. using'[c] # r
        BY <1>4, <1>7, <1>8 DEF Renewable, Runtimes
    <2>2. deferred'[r] = deferred[r] /\ created'[r] = created[r]
        BY <1>4, <1>5, <1>8 DEF Renewable
    <2>3. ASSUME NEW e \in Callers, using'[e] = r PROVE ~IsActive(e)'
        BY <1>2, <1>8, <2>1, <2>3 DEF Renewable, IsActive
    <2> QED BY <1>1, <1>8, <2>2, <2>3 DEF Renewable
<1>9. RenewInv'
    <2>1. \A d \in Callers : pc'[d] = "renewing" => pc[d] = "renewing" /\ using'[d] = using[d]
        BY <1>2, <1>3
    <2>2. ASSUME NEW d \in Callers, NEW r \in Runtimes, browser'[r] = "closing"
          PROVE  browser[r] = "closing" /\ (Renewable(r) => Renewable(r)')
        BY <1>1, <1>8, <2>2
    <2> QED BY <1>1, <2>1, <2>2, RenewKept DEF SafeInv
<1> QED BY <1>6, <1>9

\* Who has or gets the lock of a runtime keeps every other caller's steps on it
\* from needing the lock.
LEMMA OneAtATime ==
    ASSUME LockInv, NEW c \in Callers, NEW d \in Callers, c # d, using[c] = using[d],
           pc[d] \in LockHolders
    PROVE  pc[c] \notin LockHolders /\ ~LockFree(using[c])
BY DEF LockInv, LockFree, On

LEMMA LockStepShape ==
    ASSUME TypeInv, NEW c \in Callers, LockStep(c)
    PROVE  /\ pc[c] \in LockHolders \/ LockFree(using[c])
           /\ using[c] \in Runtimes
           /\ \A d \in Callers \ {c} :
                pc'[d] = pc[d] /\ using'[d] = using[d] /\ attempt'[d] = attempt[d]
           /\ \A r \in Runtimes \ {using[c]} :
                /\ browser'[r] = browser[r] /\ created'[r] = created[r]
                /\ deferred'[r] = deferred[r] /\ (r \in aged' <=> r \in aged)
           /\ using'[c] \in {using[c], 0}
<1>1. pc[c] # "idle"
    BY DEF LockStep, LockAndCheck, Renewed, Launch, LaunchFails, LaunchAborted, Recycle,
           Recycled, CloseCancelled
<1>2. using[c] \in Runtimes
    BY <1>1, RuntimeOf
<1>3. pc[c] \in LockHolders \/ LockFree(using[c])
    BY DEF LockStep, LockAndCheck, Renewed, Launch, LaunchFails, LaunchAborted, Recycle, Recycled,
           CloseCancelled, LockHolders
<1>4. /\ \A d \in Callers \ {c} :
            pc'[d] = pc[d] /\ using'[d] = using[d] /\ attempt'[d] = attempt[d]
      /\ using'[c] \in {using[c], 0}
    BY DEF TypeInv, PoolTypeOK, LockStep, LockAndCheck, Renewed, Launch, LaunchFails,
           LaunchAborted, Recycle, Recycled, CloseCancelled, Leave, Goto
<1>5. ASSUME NEW r \in Runtimes \ {using[c]}
      PROVE  /\ browser'[r] = browser[r] /\ created'[r] = created[r]
             /\ deferred'[r] = deferred[r] /\ (r \in aged' <=> r \in aged)
    <2>1. deferred' = deferred
        BY DEF LockStep, LockAndCheck, Renewed, Launch, LaunchFails, LaunchAborted, Recycle,
               Recycled, CloseCancelled
    <2>2. created'[r] = created[r] /\ (r \in aged' <=> r \in aged)
        BY <1>2 DEF TypeInv, PoolTypeOK, LockStep, LockAndCheck, Renewed, Launch, LaunchFails,
               LaunchAborted, Recycle, Recycled, CloseCancelled
    <2>3. browser'[r] = browser[r]
        BY <1>2 DEF TypeInv, PoolTypeOK, LockStep, LockAndCheck, Renewed, Launch, LaunchFails,
               LaunchAborted, Recycle, Recycled, CloseCancelled, StartClose
    <2> QED BY <2>1, <2>2, <2>3
<1> QED BY <1>2, <1>3, <1>4, <1>5

\* A caller that begins to renew has found the runtime without contexts.
LEMMA BeginsToRenew ==
    ASSUME TypeInv, NEW c \in Callers, LockStep(c), pc'[c] = "renewing",
           browser'[using[c]] = "closing"
    PROVE  Renewable(using[c])'
<1> DEFINE r == using[c]
<1>1. LockAndCheck(c) /\ ShouldRecycle(r) /\ StartClose(r) /\ pc[c] = "starting"
    BY DEF TypeInv, PoolTypeOK, LockStep, LockAndCheck, Renewed, Launch, LaunchFails,
           LaunchAborted, Recycle, Recycled, CloseCancelled, Leave, Goto
<1>2. r \in Runtimes
    BY <1>1, RuntimeOf
<1>3. browser[r] # "dead"
    BY <1>1, <1>2 DEF TypeInv, PoolTypeOK, StartClose
<1>4. InContext(r) = {} /\ deferred[r] = 0 /\ (created[r] >= RecycleAfter \/ r \in aged)
    BY <1>1, <1>3 DEF ShouldRecycle, NoneActive, ThresholdReached
<1>5. /\ UNCHANGED <<using, attempt, created, aged, deferred>>
      /\ pc' = [pc EXCEPT ![c] = "renewing"]
    BY <1>1 DEF LockAndCheck, Goto
<1>6. ASSUME NEW e \in Callers, using[e] = r PROVE ~IsActive(e)'
    <2>1. ~IsActive(e)
        BY <1>4, <1>6 DEF InContext, On
    <2> QED BY <1>5, <2>1 DEF IsActive, TypeInv, PoolTypeOK
<1>7. using'[c] = using[c] /\ deferred'[r] = 0 /\ (created'[r] >= RecycleAfter \/ r \in aged')
    BY <1>4, <1>5
<1> QED BY <1>5, <1>6, <1>7 DEF Renewable

LEMMA LockKeeps ==
    ASSUME SafeInv, NEW c \in Callers, LockStep(c)
    PROVE  LaunchInv' /\ RenewInv'
<1>1. TypeInv /\ LockInv /\ LaunchInv /\ RenewInv
    BY DEF SafeInv
<1>2. /\ pc[c] \in LockHolders \/ LockFree(using[c])
      /\ using[c] \in Runtimes
      /\ \A d \in Callers \ {c} :
            pc'[d] = pc[d] /\ using'[d] = using[d] /\ attempt'[d] = attempt[d]
      /\ \A r \in Runtimes \ {using[c]} :
            /\ browser'[r] = browser[r] /\ created'[r] = created[r]
            /\ deferred'[r] = deferred[r] /\ (r \in aged' <=> r \in aged)
      /\ using'[c] \in {using[c], 0}
    BY <1>1, LockStepShape
<1>3. \A d \in Callers \ {c} : pc[d] \in LockHolders => using[d] # using[c] /\ using[d] \in Runtimes
    BY <1>1, <1>2, OneAtATime DEF TypeInv, PoolTypeOK, LockHolders
<1>4. pc'[c] = "launching" => browser'[using'[c]] = "none"
    BY <1>1, <1>2 DEF TypeInv, PoolTypeOK, LaunchInv, LockStep, LockAndCheck, Renewed, Launch,
       LaunchFails, LaunchAborted, Recycle, Recycled, CloseCancelled, Leave, Goto
<1>5. LaunchInv'
    BY <1>1, <1>2, <1>3, <1>4 DEF LaunchInv, LockHolders
<1>6. ASSUME NEW d \in Callers \ {c}, pc'[d] = "renewing", browser'[using'[d]] = "closing"
      PROVE  Renewable(using[d])'
    <2>1. PICK r \in Runtimes : r = using[d] /\ r # using[c] /\ using'[d] = r
        BY <1>2, <1>3, <1>6 DEF LockHolders
    <2>2. browser[r] = "closing" /\ pc[d] = "renewing"
        BY <1>2, <1>6, <2>1
    <2>3. Renewable(r)
        BY <1>1, <2>1, <2>2 DEF RenewInv
    <2>4. /\ created'[r] >= RecycleAfter \/ r \in aged'
          /\ deferred'[r] = 0
        BY <1>2, <2>1, <2>3 DEF Renewable
    <2>5. ASSUME NEW e \in Callers, using'[e] = r PROVE ~IsActive(e)'
        <3>1. e # c
            BY <1>2, <2>1, <2>5 DEF Runtimes
        <3> QED BY <1>2, <2>3, <2>5, <3>1 DEF Renewable, IsActive
    <2> QED BY <2>1, <2>4, <2>5 DEF Renewable
<1>7. pc'[c] = "renewing" => using'[c] = using[c]
    BY <1>1, <1>2 DEF TypeInv, PoolTypeOK, LockStep, LockAndCheck, Renewed, Launch,
       LaunchFails, LaunchAborted, Recycle, Recycled, CloseCancelled, Leave, Goto
<1>8. RenewInv'
    <2>1. ASSUME NEW d \in Callers, pc'[d] = "renewing", browser'[using'[d]] = "closing"
          PROVE  Renewable(using[d])'
        <3>1. CASE d = c
            BY <1>1, <1>7, <2>1, <3>1, BeginsToRenew
        <3>2. CASE d # c
            BY <1>6, <2>1, <3>2
        <3> QED BY <3>1, <3>2
    <2> QED BY <2>1 DEF RenewInv
<1> QED BY <1>5, <1>8

LEMMA RuntimeKeeps ==
    ASSUME SafeInv, NEW q \in Runtimes, RuntimeStep(q)
    PROVE  LaunchInv' /\ RenewInv'
<1>1. TypeInv /\ LockInv /\ LaunchInv /\ RenewInv
    BY DEF SafeInv
<1>2. UNCHANGED <<pc, using, attempt, created>> /\ aged \subseteq aged'
    BY DEF RuntimeStep, LateCloseDone, CloserLocks, CloserDone, Disconnects, Crash, Age
<1>3. \A r \in Runtimes : browser[r] = "none" => browser'[r] = "none"
    BY <1>1 DEF TypeInv, PoolTypeOK, RuntimeStep, LateCloseDone, CloserLocks, CloserDone,
           Disconnects, Crash, Age, StartClose
<1>4. LaunchInv'
    BY <1>1, <1>2, <1>3, LaunchKept
<1>5. \A r \in Runtimes : deferred[r] = 0 => deferred'[r] = 0
    BY <1>1 DEF TypeInv, PoolTypeOK, RuntimeStep, LateCloseDone, CloserLocks, CloserDone,
           Disconnects, Crash, Age
<1>6. ASSUME NEW r \in Runtimes, Renewable(r)
      PROVE  Renewable(r)'
    BY <1>2, <1>5, <1>6 DEF Renewable, IsActive
<1>7. ASSUME NEW d \in Callers, NEW r \in Runtimes, pc[d] = "renewing", using[d] = r,
             browser'[r] = "closing"
      PROVE  browser[r] = "closing"
    <2>1. ~LockFree(r)
        BY <1>7 DEF LockFree, On, LockHolders
    <2>2. browser' = browser \/ browser' = [browser EXCEPT ![q] = "none"]
          \/ browser' = [browser EXCEPT ![q] = "dead"] \/ (StartClose(q) /\ LockFree(q))
        BY DEF RuntimeStep, LateCloseDone, CloserLocks, CloserDone, Disconnects, Crash, Age
    <2>3. browser \in [Runtimes -> {"none", "up", "closing", "dead"}]
        BY <1>1 DEF TypeInv, PoolTypeOK
    <2> QED BY <1>7, <2>1, <2>2, <2>3 DEF StartClose
<1>8. RenewInv'
    BY <1>1, <1>2, <1>6, <1>7, RenewKept
<1> QED BY <1>4, <1>8

LEMMA EntryKeeps ==
    ASSUME SafeInv, NEW c \in Callers, NEW k \in Keys, GetPooled(c, k) \/ GetNew(c, k)
    PROVE  LaunchInv' /\ RenewInv'
<1>1. TypeInv /\ LockInv /\ LaunchInv /\ RenewInv
    BY DEF SafeInv
<1>2. PICK q : Enter(c, q) /\ pc[c] = "idle"
    BY DEF GetPooled, GetNew
<1>3. UNCHANGED <<browser, created, aged, deferred, attempt>>
    BY <1>2 DEF Enter
<1>4. /\ \A d \in Callers \ {c} : pc'[d] = pc[d] /\ using'[d] = using[d]
      /\ pc'[c] = "queued" /\ attempt[c] = 0
    BY <1>1, <1>2 DEF TypeInv, PoolTypeOK, UsersInv, Enter, Goto
<1>5. LaunchInv'
    BY <1>1, <1>3, <1>4, LaunchKept
<1>6. ASSUME NEW r \in Runtimes, Renewable(r)
      PROVE  Renewable(r)'
    <2>1. ~IsActive(c)'
        BY <1>3, <1>4 DEF IsActive
    <2> QED BY <1>3, <1>4, <1>6, <2>1 DEF Renewable, IsActive
<1>7. RenewInv'
    BY <1>1, <1>3, <1>4, <1>6, RenewKept
<1> QED BY <1>5, <1>7

LEMMA ShutdownKeeps ==
    ASSUME SafeInv, Shutdown
    PROVE  LaunchInv' /\ RenewInv'
<1>1. UNCHANGED <<browser, created, aged, deferred, pc, using, attempt>>
    BY DEF Shutdown
<1> QED BY <1>1 DEF SafeInv, LaunchInv, RenewInv, Renewable, IsActive

----------------------------------------------------------------------------
(* What becomes of popped runtimes. *)

\* A runtime that nobody can reach: not pooled, and not used when it was popped.
Unreachable(r) == (\A k \in Keys : pool[k] # r) /\ r \notin held

RetireInv ==
    \A r \in 1..made : Unreachable(r) =>
        /\ \A c \in Callers : using[c] # r
        /\ browser[r] = "none" \/ closer[r] # "none"

LEMMA CallerStepShape ==
    ASSUME TypeInv, NEW c \in Callers, CallerStep(c)
    PROVE  /\ UNCHANGED <<pool, made, held, closer>>
           /\ using[c] \in 1..made
           /\ \A r \in Runtimes \ {using[c]} : browser'[r] = browser[r]
           /\ \A d \in Callers : using'[d] \in {using[d], 0}
<1>1. CASE SlotStep(c)
    <2>1. pc[c] # "idle" /\ browser' = browser
        BY <1>1 DEF SlotStep, TakeSlot, RetakeSlot, SlotTimeout, SlotCancelled
    <2>2. \A d \in Callers : using'[d] \in {using[d], 0}
        BY <1>1 DEF TypeInv, PoolTypeOK, SlotStep, TakeSlot, RetakeSlot, SlotTimeout,
           SlotCancelled, Leave
    <2>3. UNCHANGED <<pool, made, held, closer>>
        BY <1>1 DEF SlotStep, TakeSlot, RetakeSlot, SlotTimeout, SlotCancelled
    <2> QED BY <2>1, <2>2, <2>3, RuntimeOf
<1>2. CASE LockStep(c)
    <2>1. pc[c] # "idle" /\ UNCHANGED <<pool, made, held, closer>>
        BY <1>2 DEF LockStep, LockAndCheck, Renewed, Launch, LaunchFails, LaunchAborted,
               Recycle, Recycled, CloseCancelled
    <2>2. /\ \A d \in Callers \ {c} : using'[d] = using[d]
          /\ \A r \in Runtimes \ {using[c]} : browser'[r] = browser[r]
          /\ using'[c] \in {using[c], 0}
        BY <1>2, LockStepShape
    <2> QED BY <2>1, <2>2, RuntimeOf
<1>3. CASE PageStep(c)
    <2>1. pc[c] # "idle" /\ browser' = browser /\ UNCHANGED <<pool, made, held, closer>>
        BY <1>3 DEF PageStep, OpenPage, Disconnected, OpenFails, FinishPage, ContextClosed,
           ContextCloseLate
    <2>2. \A d \in Callers : using'[d] \in {using[d], 0}
        BY <1>3 DEF TypeInv, PoolTypeOK, PageStep, OpenPage, Disconnected, OpenFails,
           FinishPage, ContextClosed, ContextCloseLate, Leave
    <2> QED BY <2>1, <2>2, RuntimeOf
<1> QED BY <1>1, <1>2, <1>3 DEF CallerStep

LEMMA CallerRetires ==
    ASSUME TypeInv, RetireInv, NEW c \in Callers, CallerStep(c)
    PROVE  RetireInv'
<1>1. /\ UNCHANGED <<pool, made, held, closer>>
      /\ using[c] \in 1..made
      /\ \A r \in Runtimes \ {using[c]} : browser'[r] = browser[r]
      /\ \A d \in Callers : using'[d] \in {using[d], 0}
    BY CallerStepShape
<1>2. ASSUME NEW r \in 1..made, Unreachable(r)
      PROVE  /\ \A d \in Callers : using'[d] # r
             /\ browser'[r] = "none" \/ closer'[r] # "none"
    <2>1. /\ \A d \in Callers : using[d] # r
          /\ browser[r] = "none" \/ closer[r] # "none"
        BY <1>2 DEF RetireInv
    <2>2. r \in Runtimes /\ r # 0
        BY <1>2 DEF TypeInv, PoolTypeOK, Runtimes
    <2> QED BY <1>1, <2>1, <2>2
<1> QED BY <1>1, <1>2 DEF RetireInv, Unreachable

LEMMA RuntimeRetires ==
    ASSUME TypeInv, RetireInv, NEW q \in Runtimes, RuntimeStep(q)
    PROVE  RetireInv'
<1>1. UNCHANGED <<pool, made, held, using>>
    BY DEF RuntimeStep, LateCloseDone, CloserLocks, CloserDone, Disconnects, Crash, Age
<1>2. ASSUME NEW r \in Runtimes, browser[r] = "none" \/ closer[r] # "none"
      PROVE  browser'[r] = "none" \/ closer'[r] # "none"
    BY <1>2 DEF TypeInv, PoolTypeOK, RuntimeStep, LateCloseDone, CloserLocks, CloserDone,
           Disconnects, Crash, Age, StartClose
<1>3. \A r \in 1..made : r \in Runtimes
    BY DEF TypeInv, PoolTypeOK, Runtimes
<1> QED BY <1>1, <1>2, <1>3 DEF RetireInv, Unreachable

\* The runtimes that leave the pool are retired, and only they.
LEMMA PoppingRetires ==
    ASSUME TypeInv, RetireInv, NEW popped \in SUBSET Keys,
           Retire({pool[j] : j \in popped} \ {0}), browser' = browser,
           \A j \in Keys \ popped : pool'[j] = pool[j] \/ pool[j] = 0,
           NEW r \in 1..made, Unreachable(r)',
           \A c \in Callers : using'[c] = r => using[c] = r
    PROVE  /\ \A c \in Callers : using'[c] # r
           /\ browser'[r] = "none" \/ closer'[r] # "none"
<1>1. r \in Runtimes /\ r # 0
    BY DEF TypeInv, PoolTypeOK, Runtimes
<1>2. CASE r \in {pool[j] : j \in popped} \ {0}
    <2>1. On(r) = {} /\ closer'[r] = "waiting"
        BY <1>1, <1>2 DEF Retire, Unreachable
    <2> QED BY <2>1 DEF On
<1>3. CASE r \notin {pool[j] : j \in popped} \ {0}
    <2>1. r \notin held /\ closer'[r] = closer[r]
        BY <1>1, <1>3 DEF Retire, Unreachable
    <2>2. \A j \in Keys : pool[j] # r
        BY <1>1, <1>3 DEF Unreachable
    <2>3. /\ \A c \in Callers : using[c] # r
          /\ browser[r] = "none" \/ closer[r] # "none"
        BY <2>1, <2>2 DEF RetireInv, Unreachable
    <2> QED BY <2>1, <2>3
<1> QED BY <1>2, <1>3

LEMMA ShutdownRetires ==
    ASSUME TypeInv, RetireInv, Shutdown
    PROVE  RetireInv'
<1>1. Retire({pool[k] : k \in Keys} \ {0}) /\ UNCHANGED <<browser, made, using>>
    BY DEF Shutdown
<1>2. ASSUME NEW r \in 1..made, Unreachable(r)'
      PROVE  /\ \A c \in Callers : using'[c] # r
             /\ browser'[r] = "none" \/ closer'[r] # "none"
    BY <1>1, <1>2, PoppingRetires
<1> QED BY <1>1, <1>2 DEF RetireInv

LEMMA EntryRetires ==
    ASSUME TypeInv, RetireInv, NEW c \in Callers, NEW k \in Keys, GetPooled(c, k) \/ GetNew(c, k)
    PROVE  RetireInv'
<1>1. CASE GetPooled(c, k)
    <2>1. Enter(c, pool[k]) /\ UNCHANGED <<pool, made, closer, held, browser>>
        BY <1>1 DEF GetPooled, Enter
    <2>2. using' = [using EXCEPT ![c] = pool[k]]
        BY <2>1 DEF Enter
    <2>3. ASSUME NEW r \in 1..made, Unreachable(r), NEW d \in Callers
          PROVE  using'[d] # r
        <3>1. pool[k] # r /\ using[d] # r
            BY <2>3 DEF Unreachable, RetireInv
        <3> QED BY <2>2, <3>1 DEF TypeInv, PoolTypeOK
    <2> QED BY <2>1, <2>3 DEF RetireInv, Unreachable
<1>2. CASE GetNew(c, k)
    <2>1. PICK gone \in SUBSET Keys :
            /\ Evicted(gone)
            /\ pool' = [j \in Keys |-> IF j = k THEN made + 1
                                       ELSE IF j \in gone THEN 0 ELSE pool[j]]
            /\ Retire({pool[j] : j \in gone})
        BY <1>2 DEF GetNew
    <2>2. made' = made + 1 /\ browser' = browser /\ using' = [using EXCEPT ![c] = made + 1]
          /\ pool[k] = 0 /\ made \in Nat
        BY <1>2 DEF GetNew, Enter, TypeInv, PoolTypeOK
    <2>3. {pool[j] : j \in gone} = {pool[j] : j \in gone} \ {0}
        BY <2>1, EvictedIdle
    <2>4. Retire({pool[j] : j \in gone} \ {0})
        BY <2>1, <2>3
    <2>5. \A j \in Keys \ gone : pool'[j] = pool[j] \/ pool[j] = 0
        BY <2>1, <2>2
    <2>6. ASSUME NEW r \in 1..made, Unreachable(r)'
          PROVE  /\ \A d \in Callers : using'[d] # r
                 /\ browser'[r] = "none" \/ closer'[r] # "none"
        <3>1. \A d \in Callers : using'[d] = r => using[d] = r
            BY <2>2 DEF TypeInv, PoolTypeOK
        <3> QED BY <2>2, <2>4, <2>5, <2>6, <3>1, PoppingRetires
    <2>7. ASSUME NEW r \in 1..made', Unreachable(r)'
          PROVE  /\ \A d \in Callers : using'[d] # r
                 /\ browser'[r] = "none" \/ closer'[r] # "none"
        <3>1. r \in 1..made \/ r = made + 1
            BY <2>2
        <3>2. r # made + 1
            <4>1. pool'[k] = made + 1
                BY <2>1
            <4> QED BY <2>7, <4>1 DEF Unreachable
        <3> QED BY <2>6, <2>7, <3>1, <3>2
    <2> QED BY <2>7 DEF RetireInv
<1> QED BY <1>1, <1>2

LEMMA SafeStart == PoolInit => SafeInv /\ RetireInv
<1> SUFFICES ASSUME PoolInit PROVE SafeInv /\ RetireInv
    OBVIOUS
<1>1. MaxRuntimes \in Nat /\ 0 \in 0..MaxRuntimes /\ 0 \in 0..RecycleAfter /\ 0 \in 0..MaxFaults
    OBVIOUS
<1>2. PoolTypeOK
    BY <1>1 DEF PoolInit, PoolTypeOK, Phases
<1>3. UsersInv
    BY DEF PoolInit, UsersInv
<1>4. LockInv /\ LaunchInv /\ RenewInv
    BY DEF PoolInit, LockInv, LaunchInv, RenewInv, LockHolders
<1>5. RetireInv
    BY DEF PoolInit, RetireInv
<1> QED BY <1>2, <1>3, <1>4, <1>5 DEF SafeInv, TypeInv

LEMMA SafeStep ==
    ASSUME SafeInv, RetireInv, [PoolNext]_poolVars
    PROVE  SafeInv' /\ RetireInv'
<1>1. TypeInv /\ LockInv
    BY DEF SafeInv
<1>2. ASSUME NEW c \in Callers, CallerStep(c)
      PROVE  SafeInv' /\ RetireInv'
    <2>1. CASE SlotStep(c)
        <3>1. TypeInv' /\ LockInv'
            BY <1>1, <2>1, SlotTypes, SlotLocks
        <3>2. LaunchInv' /\ RenewInv' /\ RetireInv'
            BY <1>1, <1>2, <2>1, SlotKeeps, CallerRetires
        <3> QED BY <3>1, <3>2 DEF SafeInv
    <2>2. CASE LockStep(c)
        <3>1. TypeInv' /\ LockInv'
            BY <1>1, <2>2, LockTypes, LockLocks
        <3>2. LaunchInv' /\ RenewInv' /\ RetireInv'
            BY <1>1, <1>2, <2>2, LockKeeps, CallerRetires
        <3> QED BY <3>1, <3>2 DEF SafeInv
    <2>3. CASE PageStep(c)
        <3>1. TypeInv' /\ LockInv'
            BY <1>1, <2>3, PageTypes, PageLocks
        <3>2. LaunchInv' /\ RenewInv' /\ RetireInv'
            BY <1>1, <1>2, <2>3, PageKeeps, CallerRetires
        <3> QED BY <3>1, <3>2 DEF SafeInv
    <2> QED BY <1>2, <2>1, <2>2, <2>3 DEF CallerStep
<1>3. ASSUME NEW c \in Callers, NEW k \in Keys, GetPooled(c, k) \/ GetNew(c, k)
      PROVE  SafeInv' /\ RetireInv'
    BY <1>1, <1>3, EntryTypes, EntryLocks, EntryKeeps, EntryRetires DEF SafeInv
<1>4. ASSUME NEW r \in Runtimes, RuntimeStep(r)
      PROVE  SafeInv' /\ RetireInv'
    BY <1>1, <1>4, RuntimeTypes, OtherLocks, RuntimeKeeps, RuntimeRetires DEF SafeInv
<1>5. CASE Shutdown
    BY <1>1, <1>5, ShutdownTypes, OtherLocks, ShutdownKeeps, ShutdownRetires DEF SafeInv
<1>6. CASE UNCHANGED poolVars
    <2>1. TypeInv'
        BY <1>6 DEF SafeInv, TypeInv, PoolTypeOK, UsersInv, poolVars
    <2>2. LockInv' /\ LaunchInv' /\ RenewInv' /\ RetireInv'
        BY <1>6 DEF SafeInv, LockInv, LockHolders, LaunchInv, RenewInv, Renewable, IsActive,
                    RetireInv, Unreachable, poolVars
    <2> QED BY <2>1, <2>2 DEF SafeInv
<1> QED BY <1>2, <1>3, <1>4, <1>5, <1>6 DEF PoolNext

LEMMA PoolInvariant == PoolSpec => [](SafeInv /\ RetireInv)
BY SafeStart, SafeStep, PTL DEF PoolSpec

(* Every variable keeps its type, whatever the callers, crashes and         *)
(* closes do.                                                               *)
THEOREM PoolTypeCorrect == PoolSpec => []PoolTypeOK
<1>1. SafeInv => PoolTypeOK
    BY DEF SafeInv, TypeInv
<1> QED BY <1>1, PoolInvariant, PTL

(* The runtime lock has one holder at a time, and a browser is launched     *)
(* only where there is none.                                                *)
THEOREM LaunchIsSafe == PoolSpec => []LaunchReplacesNothing
<1>1. SafeInv => LaunchReplacesNothing
    <2> SUFFICES ASSUME SafeInv PROVE LaunchReplacesNothing
        OBVIOUS
    <2>1. \A c \in Callers : pc[c] = "launching" => browser[using[c]] = "none"
        BY DEF SafeInv, LaunchInv
    <2>2. ASSUME NEW r \in Runtimes
          PROVE  Cardinality({c \in On(r) : pc[c] \in LockHolders}) <= 1
        <3> DEFINE holders == {c \in On(r) : pc[c] \in LockHolders}
        <3>1. \A c, d \in holders : c = d
            BY DEF SafeInv, LockInv, On
        <3>2. CASE holders = {}
            BY <3>2, FS_EmptySet
        <3>3. CASE holders # {}
            <4>1. PICK c \in holders : TRUE
                BY <3>3
            <4>2. holders = {c}
                BY <3>1, <4>1
            <4> QED BY <4>2, FS_Singleton
        <3> QED BY <3>2, <3>3
    <2> QED BY <2>1, <2>2 DEF LaunchReplacesNothing
<1> QED BY <1>1, PoolInvariant, PTL

(* A caller that counts as active in a runtime does not lose its browser to *)
(* another caller's recycling.                                              *)
THEOREM RenewIsSafe == PoolSpec => []RenewSparesContexts
<1>1. SafeInv => RenewSparesContexts
    <2> SUFFICES ASSUME SafeInv, NEW c \in Callers, pc[c] = "renewing",
                        browser[using[c]] = "closing"
                 PROVE  NoneActive(using[c])
        BY DEF RenewSparesContexts
    <2>1. Renewable(using[c])
        BY DEF SafeInv, RenewInv
    <2> QED BY <2>1 DEF Renewable, NoneActive, InContext, On
<1> QED BY <1>1, PoolInvariant, PTL

(* Whatever is popped from the pool unused is closed in the end, and stays  *)
(* without a browser.                                                       *)
THEOREM RetiredStaysClosed == PoolSpec => []RetiredIsClosed
<1>1. RetireInv => RetiredIsClosed
    BY DEF RetireInv, RetiredIsClosed, Unreachable
<1> QED BY <1>1, PoolInvariant, PTL

----------------------------------------------------------------------------
(* The context slots. *)

Outside == {"idle", "queued", "requeued"}

\* Nobody but c moves.
OnlyMover(c) == \A d \in Callers \ {c} : pc'[d] = pc[d] /\ using'[d] = using[d]

LEMMA HoldingFinite ==
    ASSUME NEW r
    PROVE  IsFiniteSet(Holding(r)) /\ Cardinality(Holding(r)) \in Nat
<1>1. Holding(r) \subseteq Callers
    BY DEF Holding, On
<1> QED BY <1>1, FS_Subset, FS_CardinalityType

LEMMA SameHolders ==
    ASSUME NEW c \in Callers, OnlyMover(c), NEW r \in Runtimes,
           \/ using'[c] = using[c] /\ (pc'[c] \in Outside <=> pc[c] \in Outside)
           \/ pc[c] \in Outside /\ pc'[c] \in Outside
    PROVE  Holding(r)' = Holding(r)
<1>1. ASSUME NEW d \in Callers
      PROVE  (using'[d] = r /\ pc'[d] \notin Outside) <=> (using[d] = r /\ pc[d] \notin Outside)
    BY DEF OnlyMover
<1> QED BY <1>1 DEF Holding, On, Outside

LEMMA Joins ==
    ASSUME TypeInv, NEW c \in Callers, OnlyMover(c), using'[c] = using[c], pc[c] \in Outside,
           pc'[c] \notin Outside, NEW r \in Runtimes
    PROVE  Cardinality(Holding(r)') = Cardinality(Holding(r)) + IF r = using[c] THEN 1 ELSE 0
<1>1. CASE r = using[c]
    <2>1. c \notin Holding(r)
        BY DEF Holding, On, Outside
    <2>2. Holding(r)' = Holding(r) \cup {c}
        <3>1. ASSUME NEW d \in Callers
              PROVE  (using'[d] = r /\ pc'[d] \notin Outside)
                        <=> (using[d] = r /\ pc[d] \notin Outside) \/ d = c
            BY <1>1 DEF OnlyMover
        <3> QED BY <3>1 DEF Holding, On, Outside
    <2> QED BY <1>1, <2>1, <2>2, HoldingFinite, FS_AddElement
<1>2. CASE r # using[c]
    <2>1. Holding(r)' = Holding(r)
        <3>1. ASSUME NEW d \in Callers
              PROVE  (using'[d] = r /\ pc'[d] \notin Outside)
                        <=> (using[d] = r /\ pc[d] \notin Outside)
            BY <1>2 DEF OnlyMover
        <3> QED BY <3>1 DEF Holding, On, Outside
    <2> QED BY <1>2, <2>1, HoldingFinite
<1> QED BY <1>1, <1>2

LEMMA Leaves ==
    ASSUME TypeInv, NEW c \in Callers, OnlyMover(c), pc[c] \notin Outside, pc'[c] \in Outside,
           NEW r \in Runtimes
    PROVE  Cardinality(Holding(r)') = Cardinality(Holding(r)) - IF r = using[c] THEN 1 ELSE 0
<1>1. CASE r = using[c]
    <2>1. c \in Holding(r)
        BY <1>1 DEF Holding, On, Outside
    <2>2. Holding(r)' = Holding(r) \ {c}
        <3>1. ASSUME NEW d \in Callers
              PROVE  (using'[d] = r /\ pc'[d] \notin Outside)
                        <=> (using[d] = r /\ pc[d] \notin Outside) /\ d # c
            BY <1>1 DEF OnlyMover
        <3> QED BY <3>1 DEF Holding, On, Outside
    <2> QED BY <1>1, <2>1, <2>2, HoldingFinite, FS_RemoveElement
<1>2. CASE r # using[c]
    <2>1. Holding(r)' = Holding(r)
        <3>1. ASSUME NEW d \in Callers
              PROVE  (using'[d] = r /\ pc'[d] \notin Outside)
                        <=> (using[d] = r /\ pc[d] \notin Outside)
            BY <1>2 DEF OnlyMover
        <3> QED BY <3>1 DEF Holding, On, Outside
    <2> QED BY <1>2, <2>1, HoldingFinite
<1> QED BY <1>1, <1>2

LEMMA Moves ==
    ASSUME TypeInv, NEW c \in Callers, NEW phase, Goto(c, phase), UNCHANGED using
    PROVE  OnlyMover(c) /\ pc'[c] = phase /\ using'[c] = using[c]
BY DEF TypeInv, PoolTypeOK, Goto, OnlyMover

LEMMA Goes ==
    ASSUME TypeInv, NEW c \in Callers, Leave(c)
    PROVE  OnlyMover(c) /\ pc'[c] = "idle"
BY DEF TypeInv, PoolTypeOK, Leave, Goto, OnlyMover

\* The slots of r when its holders stay the same.
LEMMA StayingSlots ==
    ASSUME TypeInv, NEW r \in Runtimes, Holding(r)' = Holding(r), UNCHANGED <<free, deferred>>
    PROVE  Slots(r)' = Slots(r)
BY DEF Slots

\* A caller that takes a slot takes one from the semaphore.
LEMMA TakingSlots ==
    ASSUME TypeInv, NEW c \in Callers, pc[c] \in {"queued", "requeued"}, Ensure(c, using[c]),
           UNCHANGED <<using, deferred>>, free' = [free EXCEPT ![using[c]] = @ - 1],
           NEW r \in Runtimes
    PROVE  Slots(r)' = Slots(r)
<1>1. PICK phase \in {"opening", "starting"} : Goto(c, phase)
    BY DEF Ensure
<1>2. OnlyMover(c) /\ pc'[c] = phase /\ using'[c] = using[c]
    BY <1>1, Moves
<1>3. Cardinality(Holding(r)') = Cardinality(Holding(r)) + IF r = using[c] THEN 1 ELSE 0
    BY <1>2, Joins DEF Outside
<1>4. free'[r] = free[r] - (IF r = using[c] THEN 1 ELSE 0)
    BY DEF TypeInv, PoolTypeOK
<1>5. free[r] \in Nat /\ deferred[r] \in Nat /\ Cardinality(Holding(r)) \in Nat
    BY HoldingFinite DEF TypeInv, PoolTypeOK
<1> QED BY <1>3, <1>4, <1>5 DEF Slots

\* A caller that leaves gives its slot back, or leaves it to the late close.
LEMMA LeavingSlots ==
    ASSUME TypeInv, NEW c \in Callers, pc[c] \notin Outside, Leave(c), NEW r \in Runtimes,
           \/ Release(using[c]) /\ UNCHANGED deferred
           \/ UNCHANGED free /\ deferred' = [deferred EXCEPT ![using[c]] = @ + 1]
    PROVE  Slots(r)' = Slots(r)
<1>1. Cardinality(Holding(r)') = Cardinality(Holding(r)) - IF r = using[c] THEN 1 ELSE 0
    BY Goes, Leaves DEF Outside
<1>2. free[r] \in Nat /\ deferred[r] \in Nat /\ Cardinality(Holding(r)) \in Nat
    BY HoldingFinite DEF TypeInv, PoolTypeOK
<1>3. free'[r] + deferred'[r] = free[r] + deferred[r] + IF r = using[c] THEN 1 ELSE 0
    BY <1>2 DEF TypeInv, PoolTypeOK, Release
<1>4. free'[r] \in Int /\ deferred'[r] \in Int
    BY <1>2 DEF TypeInv, PoolTypeOK, Release
<1> DEFINE change == IF r = using[c] THEN 1 ELSE 0
<1>5. change \in Int /\ Cardinality(Holding(r)') = Cardinality(Holding(r)) - change
      /\ free'[r] + deferred'[r] = free[r] + deferred[r] + change
    BY <1>1, <1>3
<1> HIDE DEF change
<1>6. free'[r] + Cardinality(Holding(r)') + deferred'[r]
        = free[r] + Cardinality(Holding(r)) + deferred[r]
    BY <1>2, <1>4, <1>5
<1> QED BY <1>6 DEF Slots

LEMMA SlotStepSlots ==
    ASSUME TypeInv, NEW c \in Callers, SlotStep(c), NEW r \in Runtimes
    PROVE  \/ Slots(r)' = Slots(r)
           \/ Slots(r)' = Slots(r) + 1 /\ \E d \in On(r) : pc[d] = "requeued" /\ pc'[d] = "idle"
<1>1. CASE TakeSlot(c)
    <2>1. CASE Goto(c, "requeued") /\ UNCHANGED free
        BY <1>1, <2>1, Moves, SameHolders, StayingSlots DEF TakeSlot, Outside
    <2>2. CASE Ensure(c, using[c]) /\ free' = [free EXCEPT ![using[c]] = @ - 1]
        BY <1>1, <2>2, TakingSlots DEF TakeSlot
    <2> QED BY <1>1, <2>1, <2>2 DEF TakeSlot
<1>2. CASE RetakeSlot(c)
    BY <1>2, TakingSlots DEF RetakeSlot
<1>3. CASE SlotTimeout(c)
    BY <1>3, Goes, SameHolders, StayingSlots DEF SlotTimeout, Outside
<1>4. CASE SlotCancelled(c)
    <2>1. Holding(r)' = Holding(r)
        BY <1>4, Goes, SameHolders DEF SlotCancelled, Outside
    <2>2. CASE free'[r] = free[r]
        BY <1>4, <2>1, <2>2 DEF SlotCancelled, Slots
    <2>3. CASE free'[r] # free[r]
        <3>1. pc[c] = "requeued" /\ r = using[c] /\ free'[r] = free[r] + 1
            BY <1>4, <2>3 DEF SlotCancelled, Release, TypeInv, PoolTypeOK
        <3>2. Slots(r)' = Slots(r) + 1
            <4>1. free[r] \in Nat /\ deferred[r] \in Nat /\ Cardinality(Holding(r)) \in Nat
                BY HoldingFinite DEF TypeInv, PoolTypeOK
            <4> QED BY <1>4, <2>1, <3>1, <4>1 DEF SlotCancelled, Slots
        <3>3. c \in On(r) /\ pc'[c] = "idle"
            BY <1>4, <3>1, Goes DEF SlotCancelled, On
        <3> QED BY <3>1, <3>2, <3>3
    <2> QED BY <2>2, <2>3
<1> QED BY <1>1, <1>2, <1>3, <1>4 DEF SlotStep

LEMMA LockStepSlots ==
    ASSUME TypeInv, NEW c \in Callers, LockStep(c), NEW r \in Runtimes
    PROVE  Slots(r)' = Slots(r)
<1>1. CASE LockAndCheck(c) \/ Renewed(c) \/ Launch(c) \/ LaunchFails(c) \/ Recycle(c)
           \/ Recycled(c)
    <2>1. PICK phase \in {"renewing", "launching", "clearing", "opening", "recycling", "starting"} :
            Goto(c, phase)
        BY <1>1 DEF LockAndCheck, Renewed, Launch, LaunchFails, Recycle, Recycled
    <2>2. UNCHANGED <<free, deferred, using>> /\ pc[c] \notin Outside
        BY <1>1 DEF LockAndCheck, Renewed, Launch, LaunchFails, Recycle, Recycled, Outside
    <2> QED BY <2>1, <2>2, Moves, SameHolders, StayingSlots DEF Outside
<1>2. CASE LaunchAborted(c) \/ CloseCancelled(c)
    BY <1>2, LeavingSlots DEF LaunchAborted, CloseCancelled, Outside
<1> QED BY <1>1, <1>2 DEF LockStep

LEMMA PageStepSlots ==
    ASSUME TypeInv, NEW c \in Callers, PageStep(c), NEW r \in Runtimes
    PROVE  Slots(r)' = Slots(r)
<1>1. CASE OpenPage(c) \/ Disconnected(c) \/ FinishPage(c)
    <2>1. PICK phase \in {"page", "disconnected", "closing"} : Goto(c, phase)
        BY <1>1 DEF OpenPage, Disconnected, FinishPage
    <2>2. UNCHANGED <<free, deferred, using>> /\ pc[c] \notin Outside
        BY <1>1 DEF OpenPage, Disconnected, FinishPage, Outside
    <2> QED BY <2>1, <2>2, Moves, SameHolders, StayingSlots DEF Outside
<1>2. CASE OpenFails(c)
    BY <1>2, LeavingSlots DEF OpenFails, Outside
<1>3. CASE ContextClosed(c)
    BY <1>3, LeavingSlots DEF ContextClosed, Outside
<1>4. CASE ContextCloseLate(c)
    BY <1>4, LeavingSlots DEF ContextCloseLate, Outside
<1> QED BY <1>1, <1>2, <1>3, <1>4 DEF PageStep

LEMMA EntrySlots ==
    ASSUME TypeInv, NEW c \in Callers, NEW k \in Keys, GetPooled(c, k) \/ GetNew(c, k),
           NEW r \in Runtimes
    PROVE  Slots(r)' = Slots(r)
<1>1. PICK s : Enter(c, s) /\ pc[c] = "idle"
    BY DEF GetPooled, GetNew
<1>2. OnlyMover(c) /\ pc'[c] = "queued"
    BY <1>1 DEF Enter, Goto, OnlyMover, TypeInv, PoolTypeOK
<1> QED BY <1>1, <1>2, SameHolders, StayingSlots DEF Enter, Outside

LEMMA RuntimeSlots ==
    ASSUME TypeInv, NEW s \in Runtimes, RuntimeStep(s), NEW r \in Runtimes
    PROVE  Slots(r)' = Slots(r)
<1>1. UNCHANGED <<pc, using>>
    BY DEF RuntimeStep, LateCloseDone, CloserLocks, CloserDone, Disconnects, Crash, Age
<1>2. Holding(r)' = Holding(r)
    BY <1>1 DEF Holding, On
<1>3. CASE LateCloseDone(s)
    <2>1. free[r] \in Nat /\ deferred[r] \in Nat /\ Cardinality(Holding(r)) \in Nat
        BY HoldingFinite DEF TypeInv, PoolTypeOK
    <2>2. free'[r] + deferred'[r] = free[r] + deferred[r] /\ free'[r] \in Int /\ deferred'[r] \in Int
        BY <1>3, <2>1 DEF TypeInv, PoolTypeOK, LateCloseDone, Release
    <2> QED BY <1>2, <2>1, <2>2 DEF Slots
<1>4. CASE CloserLocks(s) \/ CloserDone(s) \/ Disconnects(s) \/ Crash(s) \/ Age(s)
    BY <1>2, <1>4, StayingSlots DEF CloserLocks, CloserDone, Disconnects, Crash, Age
<1> QED BY <1>3, <1>4 DEF RuntimeStep

(* No path through runtime.page loses a context slot or releases it twice, *)
(* except the one a cancelled caller releases while it waits for the slot  *)
(* it gave back.                                                           *)
THEOREM SlotsAreConserved == PoolSpec => SlotsConserved
<1>1. ASSUME TypeInv, [PoolNext]_poolVars, NEW r \in Runtimes
      PROVE  \/ Slots(r)' = Slots(r)
             \/ /\ Slots(r)' = Slots(r) + 1
                /\ \E c \in On(r) : pc[c] = "requeued" /\ pc'[c] = "idle"
    <2>1. CASE UNCHANGED poolVars
        BY <2>1 DEF poolVars, Slots, Holding, On
    <2>2. ASSUME NEW c \in Callers, CallerStep(c)
          PROVE  \/ Slots(r)' = Slots(r)
                 \/ /\ Slots(r)' = Slots(r) + 1
                    /\ \E d \in On(r) : pc[d] = "requeued" /\ pc'[d] = "idle"
        BY <1>1, <2>2, SlotStepSlots, LockStepSlots, PageStepSlots DEF CallerStep
    <2>3. ASSUME NEW c \in Callers, NEW k \in Keys, GetPooled(c, k) \/ GetNew(c, k)
          PROVE  Slots(r)' = Slots(r)
        BY <1>1, <2>3, EntrySlots
    <2>4. ASSUME NEW s \in Runtimes, RuntimeStep(s)
          PROVE  Slots(r)' = Slots(r)
        BY <1>1, <2>4, RuntimeSlots
    <2>5. CASE Shutdown
        BY <2>5 DEF Shutdown, Slots, Holding, On
    <2> QED BY <1>1, <2>1, <2>2, <2>3, <2>4, <2>5 DEF PoolNext
<1>2. TypeInv /\ [PoolNext]_poolVars
        => [\A r \in Runtimes :
              \/ Slots(r)' = Slots(r)
              \/ /\ Slots(r)' = Slots(r) + 1
                 /\ \E c \in On(r) : pc[c] = "requeued" /\ pc'[c] = "idle"]_poolVars
    BY <1>1
<1> QED BY <1>2, PoolInvariant, PTL DEF PoolSpec, SlotsConserved, SafeInv

=============================================================================
