--------------------------- MODULE RequestWindow ---------------------------
(***************************************************************************)
(* The sliding-window limits of the API (core/rate_limit.py, used by the   *)
(* pre-authentication, login and per-client limits): a request is counted  *)
(* in Redis, or in the process's own buckets while Redis cannot be used.   *)
(* How long a refused client is told to wait is left out.                  *)
(***************************************************************************)
EXTENDS SharedRedis, Sequences, Functions

CONSTANTS
    Identifiers,   \* clients, or the one global identifier
    RequestSlots,  \* requests in flight at once
    Serves,        \* the process that serves a request slot
    Window,        \* window_seconds
    MaxRequests,   \* max_requests in a window
    MaxClients     \* max_clients: buckets kept by a process

ASSUME RequestWindowAssumption ==
    /\ Serves \in [RequestSlots -> Processes]
    /\ Window \in Nat \ {0}
    /\ MaxRequests \in Nat \ {0}
    /\ MaxClients \in Nat \ {0}

VARIABLES
    sharedHits,   \* Redis: the arrivals counted for an identifier
    buckets,      \* of a process: the identifiers with a bucket, next to go first
    hits,         \* the arrivals in a bucket
    asked,        \* the identifier whose request waits for Redis, None for none
    admitted      \* history: the arrivals admitted by a book, while the book counts

windowVars == <<sharedHits, buckets, hits, asked, admitted>>

None == "none"

\* A member of the sorted set in Redis, and a place in a bucket: a time and a token.
Arrivals == Nat \X Nat

WindowTypeOK ==
    /\ RedisTypeOK
    /\ sharedHits \in [Identifiers -> SUBSET Arrivals]
    /\ buckets \in [Processes -> Seq(Identifiers)]
    /\ hits \in [Processes -> [Identifiers -> SUBSET Arrivals]]
    /\ asked \in [RequestSlots -> Identifiers \cup {None}]
    /\ admitted \in [Books -> [Identifiers -> SUBSET Arrivals]]
    /\ \A p \in Processes :
        /\ IsInjective(buckets[p])
        /\ Len(buckets[p]) <= MaxClients

WindowInit ==
    /\ RedisInit
    /\ sharedHits = [i \in Identifiers |-> {}]
    /\ buckets = [p \in Processes |-> <<>>]
    /\ hits = [p \in Processes |-> [i \in Identifiers |-> {}]]
    /\ asked = [q \in RequestSlots |-> None]
    /\ admitted = [b \in Books |-> [i \in Identifiers |-> {}]]

----------------------------------------------------------------------------

\* The arrivals that are still inside the window.
Recent(S) == {a \in S : a[1] > now - Window}

\* An arrival now, with a token no arrival of S has.
Arrival(S) == CHOOSE a \in {now} \X (0..Cardinality(S)) : a \notin S

Admit(book, i, a) ==
    admitted' = [admitted EXCEPT ![book][i] = Recent(@) \cup {a}]

\* The script in Redis counts a request unless the window is full.
HasRoomForOneMore(i) == Cardinality(Recent(sharedHits[i])) <= MaxRequests   \* mistake
HasRoom(i) == Cardinality(Recent(sharedHits[i])) < MaxRequests
SharedArrival(i) == Arrival(sharedHits[i] \cup admitted[Redis][i])

SharedCount(i) ==
    sharedHits' = [sharedHits EXCEPT ![i] =
                      IF HasRoom(i) THEN Recent(@) \cup {SharedArrival(i)} ELSE Recent(@)]

\* The identifier's bucket becomes the newest, a new one if it has none.
Used(order, i) ==
    IF \A k \in 1..Len(order) : order[k] # i THEN Append(order, i)
    ELSE LET at == CHOOSE k \in 1..Len(order) : order[k] = i
         IN  [k \in 1..Len(order) |->
                 IF k < at THEN order[k] ELSE IF k < Len(order) THEN order[k + 1] ELSE i]

\* The same count in a bucket of process p; beyond max_clients the oldest buckets are
\* thrown away.
LocalCount(p, i) ==
    LET used == Used(buckets[p], i)
        seen == Recent(hits[p][i])
        room == Cardinality(seen) < MaxRequests
        a == Arrival(hits[p][i] \cup admitted[p][i])
        gone == IF room /\ Len(used) > MaxClients THEN {Head(used)} ELSE {}
    IN  /\ buckets' = [buckets EXCEPT ![p] = IF gone = {} THEN used ELSE Tail(used)]
        /\ hits' = [hits EXCEPT ![p] = [j \in Identifiers |->
                        IF j \in gone THEN {}
                        ELSE IF j # i THEN @[j]
                        ELSE IF room THEN seen \cup {a} ELSE seen]]
        /\ admitted' = [admitted EXCEPT ![p] = [j \in Identifiers |->
                        IF j \in gone THEN {}
                        ELSE IF j = i /\ room THEN Recent(@[j]) \cup {a} ELSE @[j]]]

----------------------------------------------------------------------------
(* consume_sliding_window_limit *)

CountLocally(q, i) ==
    /\ asked[q] = None
    /\ BreakerOpen(Serves[q])
    /\ LocalCount(Serves[q], i)
    /\ UNCHANGED <<redisVars, sharedHits, asked>>

AskWindow(q, i) ==
    /\ asked[q] = None
    /\ ~BreakerOpen(Serves[q])
    /\ asked' = [asked EXCEPT ![q] = i]
    /\ UNCHANGED <<redisVars, sharedHits, buckets, hits, admitted>>

WindowAnswers(q) ==
    LET i == asked[q] IN
    /\ i # None
    /\ Answered
    /\ SharedCount(i)
    /\ IF HasRoom(i) THEN Admit(Redis, i, SharedArrival(i)) ELSE UNCHANGED admitted
    /\ asked' = [asked EXCEPT ![q] = None]
    /\ UNCHANGED <<buckets, hits>>

\* The process counts the request itself, even if Redis counted it too.
WindowFails(q) ==
    LET i == asked[q] IN
    /\ i # None
    /\ \/ NotCarriedOut(Serves[q]) /\ UNCHANGED sharedHits
       \/ ReplyLost(Serves[q]) /\ SharedCount(i)
    /\ LocalCount(Serves[q], i)
    /\ asked' = [asked EXCEPT ![q] = None]

WindowNext ==
    \/ \E q \in RequestSlots, i \in Identifiers : CountLocally(q, i) \/ AskWindow(q, i)
    \/ \E q \in RequestSlots : WindowAnswers(q) \/ WindowFails(q)
    \/ RedisStep /\ UNCHANGED windowVars

WindowSpec == WindowInit /\ [][WindowNext]_<<redisVars, windowVars>>

----------------------------------------------------------------------------
(* Properties. *)

(* A book admits at most MaxRequests requests of an identifier in any      *)
(* window, so that all admit at most that for Redis and once more for each *)
(* process that had to count by itself; a process that threw the bucket    *)
(* away starts again.                                                      *)
AdmissionsBounded ==
    \A b \in Books, i \in Identifiers : Cardinality(Recent(admitted[b][i])) <= MaxRequests

=============================================================================
