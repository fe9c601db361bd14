---------------------------- MODULE BrowserPool ----------------------------
(***************************************************************************)
(* The shared browser runtimes of one process: get_browser_runtime and its *)
(* eviction (acquisition/browser_pool*.py), and the life of a page on a    *)
(* runtime, from the context slot to the release of its capacity           *)
(* (browser_pool_page.py, browser_context_lifecycle.py,                    *)
(* browser_runtime_lifecycle.py).  All of it runs on one event loop, so an *)
(* action is what happens between two awaits that can suspend.             *)
(*                                                                         *)
(* A pool key (engine, or engine and proxy) is a member of Keys; a runtime *)
(* is the number of its creation.  Which idle entry is the oldest, and     *)
(* which have outlived their time to live, is left open.                   *)
(***************************************************************************)
EXTENDS Integers, FiniteSets

CONSTANTS
    Keys,           \* pool keys
    Callers,        \* tasks that fetch pages
    Capacity,       \* browser_runtime_context_capacity
    MaxEntries,     \* browser_runtime_pool_max_entries
    RecycleAfter,   \* browser_max_contexts_before_recycle
    MaxRuntimes,    \* bound: runtimes ever created
    MaxFaults       \* bound: crashes, failed launches and openings, cancellations

ASSUME BrowserPoolAssumption ==
    /\ IsFiniteSet(Callers)
    /\ Capacity \in Nat \ {0}
    /\ MaxEntries \in Nat \ {0}
    /\ RecycleAfter \in Nat \ {0}
    /\ MaxRuntimes \in Nat
    /\ MaxFaults \in Nat

VARIABLES
    pool,       \* the runtime pooled under a key, 0 for none
    made,       \* runtimes created so far
    browser,    \* _browser of a runtime: none, up, closing (connected still), dead
    created,    \* _total_contexts_created, up to RecycleAfter
    aged,       \* runtimes whose browser has outlived browser_max_lifetime_seconds
    free,       \* value of a runtime's semaphore
    deferred,   \* contexts of a runtime whose close outlived its time limit
    closer,     \* the background close of a popped runtime: none, waiting, closing
    held,       \* runtimes popped while a caller was using them
    pc,         \* where a caller is
    using,      \* the runtime a caller uses, 0 for none
    attempt,    \* attempt of open_context_page, 0 or 1
    poolFaults  \* faults so far

poolVars == <<pool, made, browser, created, aged, free, deferred, closer, held,
              pc, using, attempt, poolFaults>>

Runtimes == 1..MaxRuntimes

Phases == {"idle", "queued", "requeued", "starting", "renewing", "launching",
           "clearing", "opening", "disconnected", "recycling", "page", "closing"}

PoolTypeOK ==
    /\ pool \in [Keys -> 0..MaxRuntimes]
    /\ made \in 0..MaxRuntimes
    /\ browser \in [Runtimes -> {"none", "up", "closing", "dead"}]
    /\ created \in [Runtimes -> 0..RecycleAfter]
    /\ aged \subseteq Runtimes
    /\ free \in [Runtimes -> Nat]
    /\ deferred \in [Runtimes -> Nat]
    /\ closer \in [Runtimes -> {"none", "waiting", "closing"}]
    /\ held \subseteq Runtimes
    /\ pc \in [Callers -> Phases]
    /\ using \in [Callers -> 0..MaxRuntimes]
    /\ attempt \in [Callers -> {0, 1}]
    /\ poolFaults \in 0..MaxFaults
    /\ \A c \in Callers : pc[c] # "idle" => using[c] \in Runtimes

PoolInit ==
    /\ pool = [k \in Keys |-> 0]
    /\ made = 0
    /\ browser = [r \in Runtimes |-> "none"]
    /\ created = [r \in Runtimes |-> 0]
    /\ aged = {}
    /\ free = [r \in Runtimes |-> Capacity]
    /\ deferred = [r \in Runtimes |-> 0]
    /\ closer = [r \in Runtimes |-> "none"]
    /\ held = {}
    /\ pc = [c \in Callers |-> "idle"]
    /\ using = [c \in Callers |-> 0]
    /\ attempt = [c \in Callers |-> 0]
    /\ poolFaults = 0

----------------------------------------------------------------------------
(* What the counters and locks of a runtime say. *)

On(r) == {c \in Callers : using[c] = r}

Waiting(r) == {c \in On(r) : pc[c] \in {"queued", "requeued"}}

\* A caller counts in _active_contexts from the first return of ensure on.
IsActive(c) == pc[c] \in {"opening", "page", "closing"} \/ attempt[c] = 1

InContext(r) == {c \in On(r) : IsActive(c)}

Idle(r) == Waiting(r) = {} /\ InContext(r) = {} /\ deferred[r] = 0

NoneActive(r) == InContext(r) = {} /\ deferred[r] = 0

\* Callers that have taken a slot of the semaphore and not given it back.
Holding(r) == {c \in On(r) : pc[c] \notin {"idle", "queued", "requeued"}}

Slots(r) == free[r] + Cardinality(Holding(r)) + deferred[r]

\* The runtime lock is held while a browser is closed or launched.
LockHolders == {"renewing", "launching", "clearing", "recycling"}

LockNotTaken(r) == closer[r] # "closing"      \* mistake: callers do not lock
LockFree(r) ==
    /\ closer[r] # "closing"
    /\ \A c \in On(r) : pc[c] \notin LockHolders

ThresholdReached(r) == created[r] >= RecycleAfter

\* mistake: a runtime in use is recycled too.
ShouldRecycleInUse(r) ==
    \/ browser[r] = "dead"
    \/ browser[r] # "none" /\ (ThresholdReached(r) \/ r \in aged)

ShouldRecycle(r) ==
    \/ browser[r] = "dead"
    \/ /\ browser[r] # "none"
       /\ NoneActive(r)
       /\ ThresholdReached(r) \/ r \in aged

\* A close was requested of what is still running.
StartClose(r) ==
    browser' = [browser EXCEPT ![r] = IF @ = "up" THEN "closing" ELSE @]

Fault == poolFaults < MaxFaults /\ poolFaults' = poolFaults + 1

Goto(c, phase) == pc' = [pc EXCEPT ![c] = phase]

\* The caller leaves with its exception or its page done.
Leave(c) ==
    /\ Goto(c, "idle")
    /\ using' = [using EXCEPT ![c] = 0]
    /\ attempt' = [attempt EXCEPT ![c] = 0]

Release(r) == free' = [free EXCEPT ![r] = @ + 1]

----------------------------------------------------------------------------
(* get_browser_runtime, and its caller's entry into runtime.page: no await *)
(* in between can suspend, so the caller is counted as queued at once.     *)

\* The keys evict_idle_browser_runtimes_locked removes: the idle entries past
\* their time to live, then idle entries until one more fits.
Evicted(gone) ==
    LET pooled == {k \in Keys : pool[k] # 0}
        idle == {k \in pooled : Idle(pool[k])}
    IN  \E expired \in SUBSET idle :
            LET excess == Cardinality(pooled \ expired) - MaxEntries + 1
                rest == Cardinality(idle \ expired)
                more == IF excess <= 0 THEN 0 ELSE IF excess < rest THEN excess ELSE rest
            IN  \E extra \in SUBSET (idle \ expired) :
                    /\ Cardinality(extra) = more
                    /\ gone = expired \cup extra

\* mistake: the runtime is dropped, not closed.
RetireUnclosed(runtimes) ==
    /\ UNCHANGED closer
    /\ held' = held \cup {r \in runtimes : On(r) # {}}

\* Popped runtimes get a background task that closes them.
Retire(runtimes) ==
    /\ closer' = [r \in Runtimes |-> IF r \in runtimes THEN "waiting" ELSE closer[r]]
    /\ held' = held \cup {r \in runtimes : On(r) # {}}

Enter(c, r) ==
    /\ using' = [using EXCEPT ![c] = r]
    /\ Goto(c, "queued")
    /\ UNCHANGED <<browser, created, aged, free, deferred, attempt, poolFaults>>

GetPooled(c, k) ==
    /\ pc[c] = "idle"
    /\ pool[k] # 0
    /\ Enter(c, pool[k])
    /\ UNCHANGED <<pool, made, closer, held>>

GetNew(c, k) ==
    /\ pc[c] = "idle"
    /\ pool[k] = 0
    /\ made < MaxRuntimes
    /\ \E gone \in SUBSET Keys :
        /\ Evicted(gone)
        /\ pool' = [j \in Keys |-> IF j = k THEN made + 1
                                   ELSE IF j \in gone THEN 0 ELSE pool[j]]
        /\ Retire({pool[j] : j \in gone})
    /\ made' = made + 1
    /\ Enter(c, made + 1)

\* shutdown_browser_runtime empties the pool and closes what was in it.
Shutdown ==
    /\ \E k \in Keys : pool[k] # 0
    /\ pool' = [k \in Keys |-> 0]
    /\ Retire({pool[k] : k \in Keys} \ {0})
    /\ UNCHANGED <<made, browser, created, aged, free, deferred, pc, using, attempt,
                   poolFaults>>

----------------------------------------------------------------------------
(* acquire_context_slot, with yield_slot_until_recycle_window. *)

\* ensure_browser_runtime without the lock: a browser that is being closed may
\* still be connected.
Ensure(c, r) ==
    Goto(c, IF browser[r] # "none" /\ ~ShouldRecycle(r) THEN "opening" ELSE "starting")

\* At the threshold, and with no context open, the caller gives its slot back
\* and waits for one again, behind whoever is waiting.
TakeSlot(c) ==
    LET r == using[c] IN
    /\ pc[c] = "queued"
    /\ free[r] > 0
    /\ IF browser[r] # "none" /\ ThresholdReached(r) /\ NoneActive(r) /\ Waiting(r) # {c}
       THEN Goto(c, "requeued") /\ UNCHANGED free
       ELSE Ensure(c, r) /\ free' = [free EXCEPT ![r] = @ - 1]
    /\ UNCHANGED <<pool, made, browser, created, aged, deferred, closer, held, using,
                   attempt, poolFaults>>

RetakeSlot(c) ==
    LET r == using[c] IN
    /\ pc[c] = "requeued"
    /\ free[r] > 0
    /\ free' = [free EXCEPT ![r] = @ - 1]
    /\ Ensure(c, r)
    /\ UNCHANGED <<pool, made, browser, created, aged, deferred, closer, held, using,
                   attempt, poolFaults>>

\* mistake: the slot is released though it was not acquired.
SlotTimeoutReleases(c) ==
    /\ pc[c] \in {"queued", "requeued"}
    /\ Leave(c)
    /\ Release(using[c])
    /\ UNCHANGED <<pool, made, browser, created, aged, deferred, closer, held, poolFaults>>

\* The wait ends by its time limit, the slot is not held.
SlotTimeout(c) ==
    /\ pc[c] \in {"queued", "requeued"}
    /\ Leave(c)
    /\ UNCHANGED <<pool, made, browser, created, aged, free, deferred, closer, held,
                   poolFaults>>

\* The wait is cancelled.  slot_acquired is still set while the slot is
\* waited for again: it is released although it was given back.
SlotCancelled(c) ==
    /\ pc[c] \in {"queued", "requeued"}
    /\ Fault
    /\ IF pc[c] = "requeued" THEN Release(using[c]) ELSE UNCHANGED free
    /\ Leave(c)
    /\ UNCHANGED <<pool, made, browser, created, aged, deferred, closer, held>>

----------------------------------------------------------------------------
(* ensure_browser_runtime under the lock. *)

LockAndCheck(c) ==
    LET r == using[c] IN
    /\ pc[c] = "starting"
    /\ LockFree(r)
    /\ IF ShouldRecycle(r) THEN Goto(c, "renewing") /\ StartClose(r)
       ELSE /\ Goto(c, IF browser[r] = "none" THEN "launching" ELSE "opening")
            /\ UNCHANGED browser
    /\ UNCHANGED <<pool, made, created, aged, free, deferred, closer, held, using,
                   attempt, poolFaults>>

\* The old browser is closed, or its close goes on in the background.
Renewed(c) ==
    /\ pc[c] = "renewing"
    /\ Goto(c, "launching")
    /\ browser' = [browser EXCEPT ![using[c]] = "none"]
    /\ UNCHANGED <<pool, made, created, aged, free, deferred, closer, held, using,
                   attempt, poolFaults>>

Launch(c) ==
    LET r == using[c] IN
    /\ pc[c] = "launching"
    /\ Goto(c, "opening")
    /\ browser' = [browser EXCEPT ![r] = "up"]
    /\ created' = [created EXCEPT ![r] = 0]
    /\ aged' = aged \ {r}
    /\ UNCHANGED <<pool, made, free, deferred, closer, held, using, attempt, poolFaults>>

\* A launch that fails closes what it had started, under the lock ...
LaunchFails(c) ==
    /\ pc[c] = "launching"
    /\ Fault
    /\ Goto(c, "clearing")
    /\ UNCHANGED <<pool, made, browser, created, aged, free, deferred, closer, held, using,
                   attempt>>

\* ... and the slot is released on the way out, as it is when the launch or that
\* close is cancelled.
LaunchAborted(c) ==
    /\ pc[c] = "clearing" \/ (pc[c] = "launching" /\ poolFaults < MaxFaults)
    /\ poolFaults' = IF pc[c] = "launching" THEN poolFaults + 1 ELSE poolFaults
    /\ Leave(c)
    /\ Release(using[c])
    /\ UNCHANGED <<pool, made, browser, created, aged, deferred, closer, held>>

----------------------------------------------------------------------------
(* open_context_page: two attempts, the second after the runtime was       *)
(* recycled because the driver or the page was gone.                       *)

ContextMade(r) == [created EXCEPT ![r] = IF @ < RecycleAfter THEN @ + 1 ELSE @]

OpenPage(c) ==
    /\ pc[c] = "opening"
    /\ browser[using[c]] = "up"
    /\ Goto(c, "page")
    /\ created' = ContextMade(using[c])
    /\ UNCHANGED <<pool, made, browser, aged, free, deferred, closer, held, using,
                   attempt, poolFaults>>

\* The driver or the page is gone; with a browser that is up only the page is.
\* A context that was made counts, though its page could not be opened.
Disconnected(c) ==
    /\ pc[c] = "opening"
    /\ attempt[c] = 0
    /\ browser[using[c]] # "none"
    /\ IF browser[using[c]] = "up" THEN Fault ELSE UNCHANGED poolFaults
    /\ Goto(c, "disconnected")
    /\ attempt' = [attempt EXCEPT ![c] = 1]
    /\ created' \in {created, ContextMade(using[c])}
    /\ UNCHANGED <<pool, made, browser, aged, free, deferred, closer, held, using>>

\* Any other error, the second disconnect, no browser, or a cancellation.
OpenFails(c) ==
    /\ pc[c] \in {"opening", "disconnected", "starting"}
    /\ IF pc[c] # "opening" \/ browser[using[c]] = "up" THEN Fault ELSE UNCHANGED poolFaults
    /\ \/ UNCHANGED created
       \/ pc[c] = "opening" /\ created' = ContextMade(using[c])
    /\ Leave(c)
    /\ Release(using[c])
    /\ UNCHANGED <<pool, made, browser, aged, deferred, closer, held>>

\* recycle_after_driver_disconnect closes whatever browser the runtime has by
\* the time it gets the lock.
Recycle(c) ==
    LET r == using[c] IN
    /\ pc[c] = "disconnected"
    /\ LockFree(r)
    /\ Goto(c, "recycling")
    /\ StartClose(r)
    /\ UNCHANGED <<pool, made, created, aged, free, deferred, closer, held, using,
                   attempt, poolFaults>>

Recycled(c) ==
    /\ pc[c] = "recycling"
    /\ Goto(c, "starting")
    /\ browser' = [browser EXCEPT ![using[c]] = "none"]
    /\ UNCHANGED <<pool, made, created, aged, free, deferred, closer, held, using,
                   attempt, poolFaults>>

\* Cancelled while it closes: the close goes on in the background, and _browser
\* keeps its value, connected until then.
CloseCancelled(c) ==
    /\ pc[c] \in {"renewing", "recycling"}
    /\ Fault
    /\ Leave(c)
    /\ Release(using[c])
    /\ UNCHANGED <<pool, made, browser, created, aged, deferred, closer, held>>

----------------------------------------------------------------------------
(* runtime_page: the page is used, its context closed, the capacity released. *)

FinishPage(c) ==
    /\ pc[c] = "page"
    /\ Goto(c, "closing")
    /\ UNCHANGED <<pool, made, browser, created, aged, free, deferred, closer, held, using,
                   attempt, poolFaults>>

ContextClosed(c) ==
    /\ pc[c] = "closing"
    /\ Leave(c)
    /\ Release(using[c])
    /\ UNCHANGED <<pool, made, browser, created, aged, deferred, closer, held, poolFaults>>

\* The close outlives its time limit (or its caller): the capacity is
\* released by the close itself.
ContextCloseLate(c) ==
    LET r == using[c] IN
    /\ pc[c] = "closing"
    /\ Fault
    /\ Leave(c)
    /\ deferred' = [deferred EXCEPT ![r] = @ + 1]
    /\ UNCHANGED <<pool, made, browser, created, aged, free, closer, held>>

LateCloseDone(r) ==
    /\ deferred[r] > 0
    /\ deferred' = [deferred EXCEPT ![r] = @ - 1]
    /\ Release(r)
    /\ UNCHANGED <<pool, made, browser, created, aged, closer, held, pc, using, attempt,
                   poolFaults>>

----------------------------------------------------------------------------
(* The background close of a popped runtime, and the browser's own fate. *)

CloserLocks(r) ==
    /\ closer[r] = "waiting"
    /\ LockFree(r)
    /\ closer' = [closer EXCEPT ![r] = "closing"]
    /\ StartClose(r)
    /\ UNCHANGED <<pool, made, created, aged, free, deferred, held, pc, using, attempt,
                   poolFaults>>

CloserDone(r) ==
    /\ closer[r] = "closing"
    /\ closer' = [closer EXCEPT ![r] = "none"]
    /\ browser' = [browser EXCEPT ![r] = "none"]
    /\ UNCHANGED <<pool, made, created, aged, free, deferred, held, pc, using, attempt,
                   poolFaults>>

\* The close of the browser itself is over, whoever still waits for it.
Disconnects(r) ==
    /\ browser[r] = "closing"
    /\ browser' = [browser EXCEPT ![r] = "dead"]
    /\ UNCHANGED <<pool, made, created, aged, free, deferred, closer, held, pc, using,
                   attempt, poolFaults>>

Crash(r) ==
    /\ browser[r] = "up"
    /\ Fault
    /\ browser' = [browser EXCEPT ![r] = "dead"]
    /\ UNCHANGED <<pool, made, created, aged, free, deferred, closer, held, pc, using,
                   attempt>>

Age(r) ==
    /\ browser[r] = "up"
    /\ r \notin aged
    /\ aged' = aged \cup {r}
    /\ UNCHANGED <<pool, made, browser, created, free, deferred, closer, held, pc, using,
                   attempt, poolFaults>>

----------------------------------------------------------------------------

SlotStep(c) == TakeSlot(c) \/ RetakeSlot(c) \/ SlotTimeout(c) \/ SlotCancelled(c)

LockStep(c) ==
    LockAndCheck(c) \/ Renewed(c) \/ Launch(c) \/ LaunchFails(c) \/ LaunchAborted(c)
        \/ Recycle(c) \/ Recycled(c) \/ CloseCancelled(c)

PageStep(c) ==
    OpenPage(c) \/ Disconnected(c) \/ OpenFails(c) \/ FinishPage(c) \/ ContextClosed(c)
        \/ ContextCloseLate(c)

RuntimeStep(r) ==
    LateCloseDone(r) \/ CloserLocks(r) \/ CloserDone(r) \/ Disconnects(r) \/ Crash(r) \/ Age(r)

CallerStep(c) == SlotStep(c) \/ LockStep(c) \/ PageStep(c)

PoolNext ==
    \/ \E c \in Callers : CallerStep(c)
    \/ \E c \in Callers, k \in Keys : GetPooled(c, k) \/ GetNew(c, k)
    \/ \E r \in Runtimes : RuntimeStep(r)
    \/ Shutdown

PoolSpec == PoolInit /\ [][PoolNext]_poolVars

----------------------------------------------------------------------------
(* Properties. *)

(* No path through runtime.page loses a context slot, and none is released *)
(* twice, except the one a cancelled caller releases while it waits for    *)
(* the slot it gave back (acquire_context_slot).                           *)
SlotsConserved ==
    [][\A r \in Runtimes :
        \/ Slots(r)' = Slots(r)
        \/ /\ Slots(r)' = Slots(r) + 1
           /\ \E c \in On(r) : pc[c] = "requeued" /\ pc'[c] = "idle"]_poolVars

(* A browser is launched only where the runtime has none: no launch        *)
(* replaces a browser that nobody would close any more.                    *)
LaunchReplacesNothing ==
    /\ \A c \in Callers : pc[c] = "launching" => browser[using[c]] = "none"
    /\ \A r \in Runtimes : Cardinality({c \in On(r) : pc[c] \in LockHolders}) <= 1

(* The recycling that ensure does never takes a browser away from a        *)
(* caller that counts as active in it.                                     *)
RenewSparesContexts ==
    \A c \in Callers :
        pc[c] = "renewing" /\ browser[using[c]] = "closing" => NoneActive(using[c])

(* A runtime that was popped while nobody used it is closed for good: no   *)
(* browser is left on it once its background close is over.                *)
RetiredIsClosed ==
    \A r \in 1..made :
        \/ browser[r] = "none"
        \/ closer[r] # "none"
        \/ r \in held
        \/ \E k \in Keys : pool[k] = r

=============================================================================
