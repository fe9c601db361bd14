----------------------------- MODULE HostPacing -----------------------------
(***************************************************************************)
(* The pacing of fetches per host (acquisition/rate_limiter.py): a fetch   *)
(* claims the host's next slot in Redis, or in the process's own cache     *)
(* while Redis cannot be used, sleeps until the slot and fetches; a        *)
(* blocked fetch pushes the host's schedule out.                           *)
(*                                                                         *)
(* A schedule of one host is kept in several books: Redis and one cache    *)
(* per process.  The time to live of a key (pacing_host_cache_ttl_seconds) *)
(* is left out: it is longer than any backlog, so what expires in Redis or *)
(* is pruned from a cache is a time of the past, which binds nobody and    *)
(* which a trim would drop first.                                          *)
(***************************************************************************)
EXTENDS SharedRedis

CONSTANTS
    Hosts,
    Fetchers,       \* tasks that fetch
    Home,           \* the process of a task
    Interval,       \* acquire_host_min_interval_ms
    Protected,      \* protected_host_additional_interval_ms, at least Interval
    MaxHosts        \* pacing_host_cache_max_entries

ASSUME HostPacingAssumption ==
    /\ Home \in [Fetchers -> Processes]
    /\ Interval \in Nat \ {0}
    /\ Protected \in Nat /\ Protected >= Interval
    /\ MaxHosts \in Nat \ {0}

VARIABLES
    sharedSlot,   \* Redis: next allowed start of a host, 0 for no key
    localSlot,    \* _HOST_NEXT_ALLOWED_AT of a process, 0 for no entry
    fetch,        \* what a task does, for which host, from when, by which book
    clearing,     \* a reset of the pacing state is on its way to Redis
    last,         \* history: the last slot a book gave for a host, 0 for none
    blocked       \* history: when the last block was entered into a book

pacingVars == <<sharedSlot, localSlot, fetch, clearing, last, blocked>>

Resting == [at |-> "resting"]
Claims == [at : {"claiming"}, host : Hosts]
GrantedSlots == [at : {"sleeping", "fetching", "backing"}, host : Hosts, book : Books, start : Nat]

PacingTypeOK ==
    /\ RedisTypeOK
    /\ sharedSlot \in [Hosts -> Nat]
    /\ localSlot \in [Processes -> [Hosts -> Nat]]
    /\ fetch \in [Fetchers -> {Resting} \cup Claims \cup GrantedSlots]
    /\ clearing \in BOOLEAN
    /\ last \in [Books -> [Hosts -> Nat]]
    /\ blocked \in [Books -> [Hosts -> Nat]]
    /\ \A p \in Processes : Cardinality({h \in Hosts : localSlot[p][h] # 0}) <= MaxHosts

PacingInit ==
    /\ RedisInit
    /\ sharedSlot = [h \in Hosts |-> 0]
    /\ localSlot = [p \in Processes |-> [h \in Hosts |-> 0]]
    /\ fetch = [f \in Fetchers |-> Resting]
    /\ clearing = FALSE
    /\ last = [b \in Books |-> [h \in Hosts |-> 0]]
    /\ blocked = [b \in Books |-> [h \in Hosts |-> 0]]

----------------------------------------------------------------------------
(* The books. *)

\* What a book forgot about a host no longer binds it.
Recall(history, book, lost) ==
    [history EXCEPT ![book] = [h \in Hosts |-> IF h \in lost THEN 0 ELSE @[h]]]

\* The claim script: the slot starts at the schedule's end, which moves on.
SharedStart(h) == Later(now, sharedSlot[h])

\* mistake: the schedule is counted from now.
SharedClaimFromNow(h, interval) == sharedSlot' = [sharedSlot EXCEPT ![h] = now + interval]

SharedClaim(h, interval) ==
    sharedSlot' = [sharedSlot EXCEPT ![h] = SharedStart(h) + interval]

LocalStart(p, h) == Later(now, localSlot[p][h])

\* mistake: the cache is never trimmed.
TrimmedNever(cache, dropped) == dropped = {}

\* _trim_host_cache drops the earliest entries beyond the limit.
Trimmed(cache, dropped) ==
    LET kept == {h \in Hosts : cache[h] # 0} IN
    /\ dropped \subseteq kept
    /\ Cardinality(kept \ dropped) <= MaxHosts
    /\ dropped # {} => Cardinality(kept \ dropped) = MaxHosts
    /\ \A h \in dropped, k \in kept \ dropped : cache[h] <= cache[k]

\* Process p enters next for host h into its cache, which may push hosts out.
LocalEnter(p, h, next, dropped) ==
    LET cache == [localSlot[p] EXCEPT ![h] = next] IN
    /\ Trimmed(cache, dropped)
    /\ localSlot' = [localSlot EXCEPT ![p] =
                        [k \in Hosts |-> IF k \in dropped THEN 0 ELSE cache[k]]]

----------------------------------------------------------------------------
(* wait_for_host_slot *)

\* Task f gets a slot, and book drops the hosts lost.
Grant(f, h, book, start, lost) ==
    /\ fetch' = [fetch EXCEPT ![f] = [at |-> "sleeping", host |-> h, book |-> book,
                                      start |-> start]]
    /\ last' = Recall([last EXCEPT ![book][h] = start], book, lost)
    /\ blocked' = Recall(blocked, book, lost)

LocalGrant(f, h) ==
    LET p == Home[f] IN
    \E dropped \in SUBSET Hosts :
        /\ LocalEnter(p, h, LocalStart(p, h) + Interval, dropped)
        /\ Grant(f, h, p, LocalStart(p, h), dropped)

\* The breaker is open: the process's own cache gives the slot.
ClaimLocally(f, h) ==
    /\ fetch[f] = Resting
    /\ BreakerOpen(Home[f])
    /\ LocalGrant(f, h)
    /\ UNCHANGED <<redisVars, sharedSlot, clearing>>

AskRedis(f, h) ==
    /\ fetch[f] = Resting
    /\ ~BreakerOpen(Home[f])
    /\ fetch' = [fetch EXCEPT ![f] = [at |-> "claiming", host |-> h]]
    /\ UNCHANGED <<redisVars, sharedSlot, localSlot, clearing, last, blocked>>

RedisGrants(f) ==
    LET h == fetch[f].host IN
    /\ fetch[f].at = "claiming"
    /\ Answered
    /\ SharedClaim(h, Interval)
    /\ Grant(f, h, Redis, SharedStart(h), {})
    /\ UNCHANGED <<localSlot, clearing>>

\* The slot claimed in Redis, if it was, is used by nobody.
RedisFails(f) ==
    LET h == fetch[f].host IN
    /\ fetch[f].at = "claiming"
    /\ \/ NotCarriedOut(Home[f]) /\ UNCHANGED sharedSlot
       \/ ReplyLost(Home[f]) /\ SharedClaim(h, Interval)
    /\ LocalGrant(f, h)
    /\ UNCHANGED clearing

Wake(f) ==
    /\ fetch[f].at = "sleeping"
    /\ now >= fetch[f].start
    /\ fetch' = [fetch EXCEPT ![f].at = "fetching"]
    /\ UNCHANGED <<redisVars, sharedSlot, localSlot, clearing, last, blocked>>

----------------------------------------------------------------------------
(* record_fetch_outcome, apply_protected_host_backoff, reset_pacing_state *)

Done(f) == fetch' = [fetch EXCEPT ![f] = Resting]

FetchedWell(f) ==
    /\ fetch[f].at = "fetching"
    /\ Done(f)
    /\ UNCHANGED <<redisVars, sharedSlot, localSlot, clearing, last, blocked>>

Block(h, book, lost) ==
    /\ blocked' = Recall([blocked EXCEPT ![book][h] = now], book, lost)
    /\ last' = Recall(last, book, lost)

LocalBackoff(f) ==
    LET p == Home[f]
        h == fetch[f].host
    IN  \E dropped \in SUBSET Hosts :
            /\ LocalEnter(p, h, Later(localSlot[p][h], now + Protected), dropped)
            /\ Block(h, p, dropped)

Blocked(f) ==
    /\ fetch[f].at = "fetching"
    /\ \/ /\ BreakerOpen(Home[f])
          /\ LocalBackoff(f)
          /\ Done(f)
       \/ /\ ~BreakerOpen(Home[f])
          /\ fetch' = [fetch EXCEPT ![f].at = "backing"]
          /\ UNCHANGED <<localSlot, last, blocked>>
    /\ UNCHANGED <<redisVars, sharedSlot, clearing>>

\* mistake: the host gets its usual interval.
RedisBacksOffBriefly(f) ==
    LET h == fetch[f].host IN
    /\ fetch[f].at = "backing"
    /\ Answered
    /\ SharedClaim(h, Interval)
    /\ Block(h, Redis, {})
    /\ Done(f)
    /\ UNCHANGED <<localSlot, clearing>>

RedisBacksOff(f) ==
    LET h == fetch[f].host IN
    /\ fetch[f].at = "backing"
    /\ Answered
    /\ SharedClaim(h, Protected)
    /\ Block(h, Redis, {})
    /\ Done(f)
    /\ UNCHANGED <<localSlot, clearing>>

BackoffFails(f) ==
    LET h == fetch[f].host IN
    /\ fetch[f].at = "backing"
    /\ \/ NotCarriedOut(Home[f]) /\ UNCHANGED sharedSlot
       \/ ReplyLost(Home[f]) /\ SharedClaim(h, Protected)
    /\ LocalBackoff(f)
    /\ Done(f)
    /\ UNCHANGED clearing

Forget(book) ==
    /\ last' = Recall(last, book, Hosts)
    /\ blocked' = Recall(blocked, book, Hosts)

ResetLocal(p) ==
    /\ ~clearing
    /\ localSlot' = [localSlot EXCEPT ![p] = [h \in Hosts |-> 0]]
    /\ Forget(p)
    /\ clearing' = ~BreakerOpen(p)
    /\ UNCHANGED <<redisVars, sharedSlot, fetch>>

ResetShared(p) ==
    /\ clearing
    /\ clearing' = FALSE
    /\ \/ /\ Answered \/ ReplyLost(p)
          /\ sharedSlot' = [h \in Hosts |-> 0]
          /\ Forget(Redis)
       \/ /\ NotCarriedOut(p)
          /\ UNCHANGED <<sharedSlot, last, blocked>>
    /\ UNCHANGED <<localSlot, fetch>>

----------------------------------------------------------------------------

PacingNext ==
    \/ \E f \in Fetchers, h \in Hosts : ClaimLocally(f, h) \/ AskRedis(f, h)
    \/ \E f \in Fetchers : RedisGrants(f) \/ RedisFails(f) \/ Wake(f) \/ FetchedWell(f)
    \/ \E f \in Fetchers : Blocked(f) \/ RedisBacksOff(f) \/ BackoffFails(f)
    \/ \E p \in Processes : ResetLocal(p) \/ ResetShared(p)
    \/ RedisStep /\ UNCHANGED pacingVars

PacingSpec == PacingInit /\ [][PacingNext]_<<redisVars, pacingVars>>

----------------------------------------------------------------------------
(* Properties. *)

NewSlot(f) == fetch'[f].at = "sleeping" /\ fetch[f] # fetch'[f]

(* The slots that one book gives for a host are an interval apart, also    *)
(* when tasks of different processes claim them, unless the book lost the  *)
(* host in between (a trim of the cache, a reset).                         *)
SlotsAreSpaced ==
    [][\A f \in Fetchers : NewSlot(f) =>
        LET slot == fetch'[f] IN
        last[slot.book][slot.host] # 0 =>
            slot.start >= last[slot.book][slot.host] + Interval]_<<redisVars, pacingVars>>

(* Once a block was entered into a book, the book gives no slot of that    *)
(* host before the protected interval is over.                             *)
BlockedHostRests ==
    [][\A f \in Fetchers : NewSlot(f) =>
        LET slot == fetch'[f] IN
        blocked[slot.book][slot.host] # 0 =>
            slot.start >= blocked[slot.book][slot.host] + Protected]_<<redisVars, pacingVars>>

=============================================================================
