------------------------- MODULE RedisLimitsProofs -------------------------
(* The limits kept in Redis, and by each process while Redis cannot be used: *)
(* the sliding windows of the API, for every number of processes, clients    *)
(* and requests in flight, every window and every limit; the pacing of a     *)
(* host, for every number of processes, hosts and tasks, every interval and  *)
(* every cooldown; and the circuit before an LLM provider, for every number  *)
(* of processes and calls, every threshold and every cooldown.               *)
EXTENDS HostPacing, RequestWindow, LlmCircuit, FiniteSetTheorems, TLAPS

----------------------------------------------------------------------------
(* Redis. *)

\* What a call to Redis leaves behind, however it ends.
LEMMA RedisCall ==
    ASSUME RedisTypeOK, NEW p \in Processes,
           Answered \/ NotCarriedOut(p) \/ ReplyLost(p) \/ UNCHANGED redisVars
    PROVE  RedisTypeOK' /\ now' = now
BY SharedRedisAssumption
   DEF RedisTypeOK, Answered, NotCarriedOut, ReplyLost, Disable, redisVars

LEMMA RedisMoves ==
    ASSUME RedisTypeOK, RedisStep
    PROVE  RedisTypeOK' /\ now' \in Nat /\ now <= now'
<1>1. CASE Tick
    BY <1>1 DEF RedisTypeOK, Tick
<1>2. CASE Outage
    <2>1. disturbances' \in 0..MaxDisturbances
        BY <1>2, SharedRedisAssumption DEF RedisTypeOK, Outage
    <2>2. redisUp' = FALSE /\ UNCHANGED <<now, disabledUntil>>
        BY <1>2 DEF Outage
    <2>3. now \in Nat /\ disabledUntil \in [Processes -> Nat] /\ now <= now
        BY DEF RedisTypeOK
    <2> QED BY <2>1, <2>2, <2>3 DEF RedisTypeOK
<1>3. CASE Recovery
    BY <1>3 DEF RedisTypeOK, Recovery
<1>4. ASSUME NEW p \in Processes, OthersDisable(p)
      PROVE  RedisTypeOK' /\ now' \in Nat /\ now <= now'
    <2>1. RedisTypeOK' /\ now' = now
        BY <1>4, RedisCall DEF OthersDisable
    <2> QED BY <2>1 DEF RedisTypeOK
<1> QED BY <1>1, <1>2, <1>3, <1>4 DEF RedisStep

----------------------------------------------------------------------------
(* The sliding windows. *)

wVars == <<redisVars, windowVars>>

\* The arrivals inside the window at time t.
Within(t, S) == {a \in S : a[1] > t - Window}

\* S counts the arrivals A of a book: it is within the limit, and has what was admitted.
Counted(t, S, A) ==
    /\ IsFiniteSet(S) /\ IsFiniteSet(A)
    /\ Cardinality(Within(t, S)) <= MaxRequests
    /\ Within(t, A) \subseteq S

HasBucket(p, i) == \E k \in 1..Len(buckets[p]) : buckets[p][k] = i

WindowInv ==
    /\ WindowTypeOK
    /\ \A p \in Processes, i \in Identifiers : hits[p][i] # {} => HasBucket(p, i)
    /\ \A i \in Identifiers : Counted(now, sharedHits[i], admitted[Redis][i])
    /\ \A p \in Processes, i \in Identifiers : Counted(now, hits[p][i], admitted[p][i])

LEMMA RecentIsWithin == \A S : Recent(S) = Within(now, S)
BY DEF Recent, Within

LEMMA WithinIsFinite ==
    ASSUME NEW t, NEW S, IsFiniteSet(S)
    PROVE  IsFiniteSet(Within(t, S)) /\ Cardinality(Within(t, S)) \in Nat
<1>1. Within(t, S) \in SUBSET S
    BY DEF Within
<1> QED BY <1>1, FS_Subset, FS_CardinalityType

\* The window moves on: it loses arrivals and gets none.
LEMMA WindowMoves ==
    ASSUME NEW t \in Nat, NEW u \in Nat, t <= u, NEW S \in SUBSET Arrivals, NEW A \in SUBSET Arrivals,
           Counted(t, S, A)
    PROVE  Counted(u, S, A)
<1>1. ASSUME NEW X \in SUBSET Arrivals PROVE Within(u, X) \in SUBSET Within(t, X)
    <2>1. ASSUME NEW a \in X, a[1] > u - Window PROVE a[1] > t - Window
        <3>1. a[1] \in Nat /\ Window \in Nat
            BY RequestWindowAssumption DEF Arrivals
        <3> QED BY <2>1, <3>1
    <2> QED BY <2>1 DEF Within
<1>2. Cardinality(Within(u, S)) <= Cardinality(Within(t, S))
    BY <1>1, WithinIsFinite, FS_Subset DEF Counted
<1>3. Cardinality(Within(u, S)) \in Nat /\ Cardinality(Within(t, S)) \in Nat
    BY WithinIsFinite DEF Counted
<1>4. Cardinality(Within(u, S)) <= MaxRequests
    BY <1>2, <1>3, RequestWindowAssumption DEF Counted
<1> QED BY <1>1, <1>4 DEF Counted

\* There is a token for one arrival more.
LEMMA ArrivalIsNew ==
    ASSUME NEW S, IsFiniteSet(S), now \in Nat
    PROVE  Arrival(S) \in Arrivals /\ Arrival(S)[1] = now /\ Arrival(S) \notin S
<1> DEFINE n == Cardinality(S)
           T == {now} \X (0..n)
<1>1. n \in Nat
    BY FS_CardinalityType
<1>2. IsFiniteSet(0..n) /\ Cardinality(0..n) = n + 1
    BY <1>1, FS_Interval
<1>3. IsFiniteSet({now}) /\ Cardinality({now}) = 1
    BY FS_Singleton
<1>4. Cardinality(T) = 1 * (n + 1)
    BY <1>2, <1>3, FS_Product
<1>5. \E a \in T : a \notin S
    <2> SUFFICES ASSUME T \in SUBSET S PROVE FALSE
        OBVIOUS
    <2>1. Cardinality(T) <= n
        BY FS_Subset
    <2> QED BY <1>1, <1>4, <2>1
<1>6. Arrival(S) \in T /\ Arrival(S) \notin S
    BY <1>5 DEF Arrival
<1> QED BY <1>1, <1>6 DEF Arrivals

\* Counting a request that finds room, admitted or, when the answer is lost, not; and the
\* clean-up when it finds none.
LEMMA Counting ==
    ASSUME NEW t \in Nat, NEW S \in SUBSET Arrivals, NEW A \in SUBSET Arrivals, Counted(t, S, A),
           NEW a, a[1] = t
    PROVE  /\ Counted(t, Within(t, S), A)
           /\ Cardinality(Within(t, S)) < MaxRequests =>
                /\ Counted(t, Within(t, S) \cup {a}, Within(t, A) \cup {a})
                /\ Counted(t, Within(t, S) \cup {a}, A)
<1> USE RequestWindowAssumption
<1> DEFINE W == Within(t, S)
<1>1. IsFiniteSet(W) /\ Cardinality(W) \in Nat /\ IsFiniteSet(Within(t, A))
    BY WithinIsFinite DEF Counted
<1>2. \A X : Within(t, Within(t, X)) = Within(t, X)
    BY DEF Within
<1>3. Within(t, A) \subseteq W
    BY DEF Counted, Within
<1>4. Counted(t, W, A)
    BY <1>1, <1>2, <1>3 DEF Counted
<1>5. ASSUME Cardinality(W) < MaxRequests
      PROVE  /\ Counted(t, W \cup {a}, Within(t, A) \cup {a})
             /\ Counted(t, W \cup {a}, A)
    <2>1. IsFiniteSet(W \cup {a}) /\ Cardinality(W \cup {a}) <= Cardinality(W) + 1
        <3>1. /\ IsFiniteSet(W \cup {a})
              /\ Cardinality(W \cup {a}) = IF a \in W THEN Cardinality(W) ELSE Cardinality(W) + 1
            BY <1>1, FS_AddElement
        <3> QED BY <1>1, <3>1
    <2>2. Cardinality(W \cup {a}) \in Nat
        BY <2>1, FS_CardinalityType
    <2>3. Within(t, W \cup {a}) = W \cup {a}
        <3>1. t > t - Window
            OBVIOUS
        <3> QED BY <3>1 DEF Within
    <2>4. Cardinality(W \cup {a}) <= MaxRequests
        BY <1>1, <1>5, <2>1, <2>2
    <2>5. Within(t, Within(t, A) \cup {a}) \subseteq W \cup {a} /\ Within(t, A) \subseteq W \cup {a}
        BY <1>3 DEF Within
    <2>6. IsFiniteSet(Within(t, A) \cup {a})
        BY <1>1, FS_AddElement
    <2> QED BY <2>1, <2>3, <2>4, <2>5, <2>6 DEF Counted
<1> QED BY <1>4, <1>5

\* The order of the buckets keeps one place for each identifier.
LEMMA UsedIsInOrder ==
    ASSUME NEW order \in Seq(Identifiers), IsInjective(order), NEW i \in Identifiers
    PROVE  LET used == Used(order, i)
           IN  /\ used \in Seq(Identifiers) /\ IsInjective(used) /\ Len(used) >= 1
               /\ Len(used) = IF \A k \in 1..Len(order) : order[k] # i THEN Len(order) + 1 ELSE Len(order)
               /\ \E k \in 1..Len(used) : used[k] = i
               /\ \A k \in 1..Len(order) : \E m \in 1..Len(used) : used[m] = order[k]
<1> DEFINE used == Used(order, i)
           n == Len(order)
<1>1. n \in Nat /\ order \in [1..n -> Identifiers]
      /\ \A k, m \in 1..n : order[k] = order[m] => k = m
    BY DEF IsInjective
<1>2. CASE \A k \in 1..n : order[k] # i
    <2>1. used = Append(order, i)
        BY <1>2 DEF Used
    <2>2. /\ used \in Seq(Identifiers) /\ Len(used) = n + 1 /\ DOMAIN used = 1..(n + 1)
          /\ used[n + 1] = i /\ \A k \in 1..n : used[k] = order[k]
        BY <1>1, <2>1
    <2> HIDE DEF used
    <2>3. \A k, m \in 1..(n + 1) : used[k] = used[m] => k = m
        BY <1>1, <1>2, <2>2
    <2>4. IsInjective(used)
        BY <2>2, <2>3 DEF IsInjective
    <2>5. \A k \in 1..n : k \in 1..(n + 1) /\ used[k] = order[k]
        BY <1>1, <2>2
    <2>6. n + 1 \in 1..(n + 1) /\ n + 1 >= 1
        BY <1>1
    <2> QED BY <1>2, <2>2, <2>4, <2>5, <2>6 DEF used
<1>3. CASE \E k \in 1..n : order[k] = i
    <2> DEFINE at == CHOOSE k \in 1..n : order[k] = i
    <2>1. at \in 1..n /\ order[at] = i
        BY <1>3
    <2>2. used = [k \in 1..n |-> IF k < at THEN order[k] ELSE IF k < n THEN order[k + 1] ELSE i]
        BY <1>3 DEF Used
    <2> HIDE DEF used, at
    <2>3. used \in [1..n -> Identifiers]
        BY <1>1, <2>1, <2>2
    <2>4. used \in Seq(Identifiers) /\ Len(used) = n /\ DOMAIN used = 1..n
        BY <1>1, <2>3
    <2>5. \A k \in 1..n : /\ k < at => used[k] = order[k]
                          /\ k >= at /\ k < n => used[k] = order[k + 1]
                          /\ k = n => used[k] = i
        BY <1>1, <2>1, <2>2
    <2>6. ASSUME NEW k \in 1..n, NEW m \in 1..n, used[k] = used[m], k < m
          PROVE  FALSE
        <3>1. CASE m < at
            BY <1>1, <2>1, <2>5, <2>6, <3>1
        <3>2. CASE m >= at /\ m < n
            <4>1. used[m] = order[m + 1]
                BY <2>5, <3>2
            <4>1a. m + 1 \in 1..n
                BY <1>1, <3>2
            <4>2. used[k] = order[k] \/ (k + 1 \in 1..n /\ used[k] = order[k + 1])
                BY <1>1, <2>1, <2>5, <2>6, <3>2
            <4> QED BY <1>1, <2>6, <4>1, <4>1a, <4>2
        <3>3. CASE m = n
            <4>1. used[m] = order[at]
                BY <2>1, <2>5, <3>3
            <4>2. CASE k < at
                BY <1>1, <2>1, <2>5, <2>6, <4>1, <4>2
            <4>3. CASE k >= at
                <5>1. used[k] = order[k + 1] /\ k + 1 \in 1..n
                    BY <1>1, <2>1, <2>5, <2>6, <3>3, <4>3
                <5> QED BY <1>1, <2>1, <2>6, <4>1, <4>3, <5>1
            <4> QED BY <2>1, <4>2, <4>3
        <3> QED BY <1>1, <2>1, <3>1, <3>2, <3>3
    <2>7. IsInjective(used)
        <3>1. ASSUME NEW k \in 1..n, NEW m \in 1..n, used[k] = used[m]
              PROVE  k = m
            BY <1>1, <2>6, <3>1
        <3> QED BY <2>4, <3>1 DEF IsInjective
    <2>8. n \in 1..n /\ used[n] = i /\ n >= 1
        BY <1>1, <2>1, <2>5
    <2>9. ASSUME NEW k \in 1..n PROVE \E m \in 1..n : used[m] = order[k]
        <3>1. CASE k < at
            BY <2>5, <3>1
        <3>2. CASE k = at
            BY <2>1, <2>8, <3>2
        <3>3. CASE k > at
            <4>1. k - 1 \in 1..n /\ k - 1 >= at /\ k - 1 < n /\ (k - 1) + 1 = k
                BY <1>1, <2>1, <3>3
            <4> QED BY <2>5, <4>1
        <3> QED BY <2>1, <3>1, <3>2, <3>3
    <2> QED BY <1>3, <2>4, <2>7, <2>8, <2>9 DEF used
<1> QED BY <1>2, <1>3

\* Throwing the oldest bucket away.
LEMMA TailIsInOrder ==
    ASSUME NEW order \in Seq(Identifiers), IsInjective(order), Len(order) >= 1
    PROVE  /\ Tail(order) \in Seq(Identifiers) /\ IsInjective(Tail(order))
           /\ Len(Tail(order)) = Len(order) - 1 /\ Head(order) = order[1]
           /\ \A k \in 1..Len(order) : k # 1 =>
                  \E m \in 1..Len(Tail(order)) : Tail(order)[m] = order[k]
<1> DEFINE n == Len(order)
           t == Tail(order)
<1>1. n \in Nat /\ n >= 1 /\ \A k, m \in 1..n : order[k] = order[m] => k = m
    BY DEF IsInjective
<1>2. /\ t \in Seq(Identifiers) /\ Len(t) = n - 1 /\ DOMAIN t = 1..(n - 1) /\ Head(order) = order[1]
      /\ \A k \in 1..(n - 1) : t[k] = order[k + 1]
    BY <1>1
<1> HIDE DEF t
<1>3. IsInjective(t)
    <2>1. ASSUME NEW k \in 1..(n - 1), NEW m \in 1..(n - 1), t[k] = t[m]
          PROVE  k = m
        <3>1. k + 1 \in 1..n /\ m + 1 \in 1..n /\ order[k + 1] = order[m + 1]
            BY <1>1, <1>2, <2>1
        <3> QED BY <1>1, <3>1
    <2> QED BY <1>2, <2>1 DEF IsInjective
<1>4. ASSUME NEW k \in 1..n, k # 1 PROVE \E m \in 1..(n - 1) : t[m] = order[k]
    <2>1. k - 1 \in 1..(n - 1) /\ (k - 1) + 1 = k
        BY <1>1, <1>4
    <2> QED BY <1>2, <2>1
<1> QED BY <1>2, <1>3, <1>4 DEF t

\* Counting in a bucket of p leaves every bucket counted, and max_clients of them.
LEMMA LocalCountKeeps ==
    ASSUME WindowInv, NEW p \in Processes, NEW i \in Identifiers, LocalCount(p, i)
    PROVE  /\ buckets' \in [Processes -> Seq(Identifiers)]
           /\ hits' \in [Processes -> [Identifiers -> SUBSET Arrivals]]
           /\ admitted' \in [Books -> [Identifiers -> SUBSET Arrivals]]
           /\ \A q \in Processes : IsInjective(buckets'[q]) /\ Len(buckets'[q]) <= MaxClients
           /\ \A q \in Processes, j \in Identifiers :
                  hits'[q][j] # {} => \E k \in 1..Len(buckets'[q]) : buckets'[q][k] = j
           /\ \A q \in Processes, j \in Identifiers : Counted(now, hits'[q][j], admitted'[q][j])
           /\ admitted'[Redis] = admitted[Redis]
<1> DEFINE order == buckets[p]
           used == Used(order, i)
           seen == Recent(hits[p][i])
           room == Cardinality(seen) < MaxRequests
           a == Arrival(hits[p][i] \cup admitted[p][i])
           gone == IF room /\ Len(used) > MaxClients THEN {Head(used)} ELSE {}
           left == IF gone = {} THEN used ELSE Tail(used)
           count == [j \in Identifiers |->
                        IF j \in gone THEN {}
                        ELSE IF j # i THEN hits[p][j]
                        ELSE IF room THEN seen \cup {a} ELSE seen]
           kept == [j \in Identifiers |->
                        IF j \in gone THEN {}
                        ELSE IF j = i /\ room THEN Recent(admitted[p][j]) \cup {a}
                        ELSE admitted[p][j]]
<1>1. /\ now \in Nat /\ p \in Books /\ Redis \in Books /\ p # Redis
      /\ buckets \in [Processes -> Seq(Identifiers)]
      /\ hits \in [Processes -> [Identifiers -> SUBSET Arrivals]]
      /\ admitted \in [Books -> [Identifiers -> SUBSET Arrivals]]
      /\ order \in Seq(Identifiers) /\ IsInjective(order) /\ Len(order) <= MaxClients
    BY SharedRedisAssumption DEF WindowInv, WindowTypeOK, RedisTypeOK, Books
<1>2. /\ buckets' = [buckets EXCEPT ![p] = left]
      /\ hits' = [hits EXCEPT ![p] = count]
      /\ admitted' = [admitted EXCEPT ![p] = kept]
    BY DEF LocalCount
<1>3. \A j \in Identifiers : /\ hits[p][j] \in SUBSET Arrivals /\ admitted[p][j] \in SUBSET Arrivals
                             /\ Counted(now, hits[p][j], admitted[p][j])
    BY <1>1 DEF WindowInv
<1>4. a \in Arrivals /\ a[1] = now
    <2>1. IsFiniteSet(hits[p][i] \cup admitted[p][i])
        BY <1>3, FS_Union DEF Counted
    <2> QED BY <1>1, <2>1, ArrivalIsNew
<1>5. /\ seen \in SUBSET Arrivals
      /\ Recent(admitted[p][i]) \in SUBSET Arrivals
      /\ Counted(now, seen, admitted[p][i])
      /\ room => Counted(now, seen \cup {a}, Recent(admitted[p][i]) \cup {a})
    <2>1. seen = Within(now, hits[p][i]) /\ Recent(admitted[p][i]) = Within(now, admitted[p][i])
        BY RecentIsWithin
    <2> HIDE DEF a
    <2>2. /\ Counted(now, Within(now, hits[p][i]), admitted[p][i])
          /\ Cardinality(Within(now, hits[p][i])) < MaxRequests =>
                Counted(now, Within(now, hits[p][i]) \cup {a}, Within(now, admitted[p][i]) \cup {a})
        BY <1>1, <1>3, <1>4, Counting
    <2>3. \A X \in SUBSET Arrivals : Within(now, X) \in SUBSET Arrivals
        BY DEF Within
    <2> QED BY <1>3, <2>1, <2>2, <2>3
<1>6. ~room => \E k \in 1..Len(order) : order[k] = i
    <2>1. ASSUME ~room PROVE hits[p][i] # {}
        <3>1. hits[p][i] = {} => seen = {}
            BY DEF Recent
        <3>2. Cardinality({}) = 0
            BY FS_EmptySet
        <3> QED BY <2>1, <3>1, <3>2, RequestWindowAssumption
    <2> QED BY <2>1 DEF WindowInv, HasBucket
<1>7. /\ used \in Seq(Identifiers) /\ IsInjective(used) /\ Len(used) >= 1
      /\ Len(used) = IF \A k \in 1..Len(order) : order[k] # i THEN Len(order) + 1 ELSE Len(order)
      /\ \E k \in 1..Len(used) : used[k] = i
      /\ \A k \in 1..Len(order) : \E m \in 1..Len(used) : used[m] = order[k]
    BY <1>1, UsedIsInOrder
<1> HIDE DEF used, a, seen, room, order
<1>8. /\ left \in Seq(Identifiers) /\ IsInjective(left) /\ Len(left) <= MaxClients
      /\ \A k \in 1..Len(used) : used[k] \notin gone => \E m \in 1..Len(left) : left[m] = used[k]
    <2>1. Len(order) \in Nat /\ Len(used) \in Nat /\ MaxClients \in Nat
        BY <1>1, <1>7, RequestWindowAssumption
    <2>2. CASE room /\ Len(used) > MaxClients
        <3>1. gone = {Head(used)} /\ left = Tail(used)
            BY <2>2
        <3>2. /\ Tail(used) \in Seq(Identifiers) /\ IsInjective(Tail(used))
              /\ Len(Tail(used)) = Len(used) - 1 /\ Head(used) = used[1]
              /\ \A k \in 1..Len(used) : k # 1 => \E m \in 1..Len(Tail(used)) : Tail(used)[m] = used[k]
            BY <1>7, TailIsInOrder
        <3>3. Len(Tail(used)) <= MaxClients
            BY <1>1, <1>7, <2>1, <3>2
        <3> HIDE DEF gone, left
        <3>4. \A k \in 1..Len(used) : used[k] \notin gone => k # 1
            BY <3>1, <3>2
        <3> QED BY <3>1, <3>2, <3>3, <3>4
    <2>3. CASE ~(room /\ Len(used) > MaxClients)
        <3>1. gone = {} /\ left = used
            BY <2>3
        <3>2. Len(used) <= MaxClients
            BY <1>1, <1>6, <1>7, <2>1, <2>3
        <3> HIDE DEF gone, left
        <3> QED BY <1>7, <3>1, <3>2
    <2> QED BY <2>2, <2>3
<1>9. ASSUME NEW j \in Identifiers
      PROVE  /\ count[j] \in SUBSET Arrivals /\ kept[j] \in SUBSET Arrivals
             /\ Counted(now, count[j], kept[j])
             /\ count[j] # {} => \E k \in 1..Len(left) : left[k] = j
    <2> HIDE DEF left
    <2>1. CASE j \in gone
        <3>1. count[j] = {} /\ kept[j] = {}
            BY <2>1
        <3>2. Counted(now, {}, {})
            <4>1. Within(now, {}) = {} /\ IsFiniteSet({}) /\ Cardinality({}) = 0
                BY FS_EmptySet DEF Within
            <4> QED BY <4>1, RequestWindowAssumption DEF Counted
        <3> HIDE DEF count, kept
        <3> QED BY <3>1, <3>2
    <2>2. CASE j \notin gone /\ j # i
        <3>1. count[j] = hits[p][j] /\ kept[j] = admitted[p][j]
            BY <2>2
        <3> HIDE DEF count, kept, gone
        <3>2. ASSUME count[j] # {} PROVE \E k \in 1..Len(left) : left[k] = j
            <4>1. \E k \in 1..Len(order) : order[k] = j
                BY <3>1, <3>2 DEF WindowInv, HasBucket, order
            <4> QED BY <1>7, <1>8, <2>2, <4>1
        <3> QED BY <1>3, <3>1, <3>2
    <2>3. CASE j \notin gone /\ j = i
        <3>1. /\ count[j] = IF room THEN seen \cup {a} ELSE seen
              /\ kept[j] = IF room THEN Recent(admitted[p][i]) \cup {a} ELSE admitted[p][i]
            BY <2>3
        <3> HIDE DEF count, kept, gone
        <3>2. \E k \in 1..Len(left) : left[k] = j
            BY <1>7, <1>8, <2>3
        <3>3. CASE room
            BY <1>4, <1>5, <3>1, <3>2, <3>3
        <3>4. CASE ~room
            BY <1>3, <1>5, <3>1, <3>2, <3>4
        <3> QED BY <3>3, <3>4
    <2> QED BY <2>1, <2>2, <2>3
<1>10. DOMAIN count = Identifiers /\ DOMAIN kept = Identifiers
       /\ count \in [Identifiers -> SUBSET Arrivals] /\ kept \in [Identifiers -> SUBSET Arrivals]
    BY <1>9
<1> HIDE DEF count, kept, left
<1>11. ASSUME NEW q \in Processes
       PROVE  /\ IsInjective(buckets'[q]) /\ Len(buckets'[q]) <= MaxClients
              /\ \A j \in Identifiers :
                    /\ hits'[q][j] # {} => \E k \in 1..Len(buckets'[q]) : buckets'[q][k] = j
                    /\ Counted(now, hits'[q][j], admitted'[q][j])
    <2>1. CASE q = p
        <3>1. buckets'[q] = left /\ hits'[q] = count /\ admitted'[q] = kept
            BY <1>1, <1>2, <2>1
        <3> QED BY <1>8, <1>9, <3>1
    <2>2. CASE q # p
        <3>1. buckets'[q] = buckets[q] /\ hits'[q] = hits[q] /\ admitted'[q] = admitted[q]
            BY <1>1, <1>2, <2>2 DEF Books
        <3> QED BY <3>1 DEF WindowInv, WindowTypeOK, HasBucket
    <2> QED BY <2>1, <2>2
<1>12. /\ buckets' \in [Processes -> Seq(Identifiers)]
       /\ hits' \in [Processes -> [Identifiers -> SUBSET Arrivals]]
       /\ admitted' \in [Books -> [Identifiers -> SUBSET Arrivals]]
       /\ admitted'[Redis] = admitted[Redis]
    BY <1>1, <1>2, <1>8, <1>10
<1> QED BY <1>11, <1>12

\* Counting in Redis, whether or not the count is heard of.
LEMMA SharedCountKeeps ==
    ASSUME WindowInv, NEW i \in Identifiers, SharedCount(i)
    PROVE  /\ sharedHits' \in [Identifiers -> SUBSET Arrivals]
           /\ \A j \in Identifiers : Counted(now, sharedHits'[j], admitted[Redis][j])
           /\ HasRoom(i) => Counted(now, sharedHits'[i],
                                    Recent(admitted[Redis][i]) \cup {SharedArrival(i)})
           /\ SharedArrival(i) \in Arrivals
<1> DEFINE a == SharedArrival(i)
           seen == Recent(sharedHits[i])
<1>1. /\ now \in Nat /\ Redis \in Books /\ sharedHits \in [Identifiers -> SUBSET Arrivals]
      /\ admitted \in [Books -> [Identifiers -> SUBSET Arrivals]]
    BY DEF WindowInv, WindowTypeOK, RedisTypeOK, Books
<1>2. \A j \in Identifiers : /\ sharedHits[j] \in SUBSET Arrivals
                             /\ admitted[Redis][j] \in SUBSET Arrivals
                             /\ Counted(now, sharedHits[j], admitted[Redis][j])
    BY <1>1 DEF WindowInv
<1>3. a \in Arrivals /\ a[1] = now
    <2>1. IsFiniteSet(sharedHits[i] \cup admitted[Redis][i])
        BY <1>2, FS_Union DEF Counted
    <2> QED BY <1>1, <2>1, ArrivalIsNew DEF SharedArrival
<1>4. sharedHits' = [sharedHits EXCEPT ![i] = IF HasRoom(i) THEN seen \cup {a} ELSE seen]
    BY DEF SharedCount
<1>5. HasRoom(i) <=> Cardinality(seen) < MaxRequests
    BY DEF HasRoom
<1> HIDE DEF a
<1>6. /\ seen \in SUBSET Arrivals
      /\ Counted(now, seen, admitted[Redis][i])
      /\ HasRoom(i) => /\ Counted(now, seen \cup {a}, Recent(admitted[Redis][i]) \cup {a})
                       /\ Counted(now, seen \cup {a}, admitted[Redis][i])
    <2>1. /\ seen = Within(now, sharedHits[i])
          /\ Recent(admitted[Redis][i]) = Within(now, admitted[Redis][i])
        BY RecentIsWithin
    <2>2. /\ Counted(now, Within(now, sharedHits[i]), admitted[Redis][i])
          /\ Cardinality(Within(now, sharedHits[i])) < MaxRequests =>
                /\ Counted(now, Within(now, sharedHits[i]) \cup {a},
                           Within(now, admitted[Redis][i]) \cup {a})
                /\ Counted(now, Within(now, sharedHits[i]) \cup {a}, admitted[Redis][i])
        BY <1>1, <1>2, <1>3, Counting
    <2>3. Within(now, sharedHits[i]) \in SUBSET Arrivals
        BY <1>2 DEF Within
    <2> QED BY <1>5, <2>1, <2>2, <2>3
<1> HIDE DEF seen
<1>7. sharedHits'[i] = IF HasRoom(i) THEN seen \cup {a} ELSE seen
    BY <1>1, <1>4
<1>8. ASSUME NEW j \in Identifiers PROVE Counted(now, sharedHits'[j], admitted[Redis][j])
    <2>1. CASE j = i
        BY <1>6, <1>7, <2>1
    <2>2. CASE j # i
        BY <1>1, <1>2, <1>4, <2>2
    <2> QED BY <2>1, <2>2
<1>9. sharedHits' \in [Identifiers -> SUBSET Arrivals]
    <2>1. (IF HasRoom(i) THEN seen \cup {a} ELSE seen) \in SUBSET Arrivals
        BY <1>3, <1>6
    <2> QED BY <1>1, <1>4, <2>1
<1>10. HasRoom(i) => Counted(now, sharedHits'[i], Recent(admitted[Redis][i]) \cup {a})
    BY <1>6, <1>7
<1> QED BY <1>3, <1>8, <1>9, <1>10 DEF a

LEMMA AskKeeps ==
    ASSUME WindowInv, NEW q \in RequestSlots, NEW i \in Identifiers, AskWindow(q, i)
    PROVE  WindowInv'
<1>1. UNCHANGED <<redisVars, sharedHits, buckets, hits, admitted>>
      /\ asked' \in [RequestSlots -> Identifiers \cup {None}]
    BY DEF WindowInv, WindowTypeOK, AskWindow
<1> QED BY <1>1 DEF WindowInv, WindowTypeOK, HasBucket, RedisTypeOK, redisVars

LEMMA CountLocallyKeeps ==
    ASSUME WindowInv, NEW q \in RequestSlots, NEW i \in Identifiers, CountLocally(q, i)
    PROVE  WindowInv'
<1>1. Serves[q] \in Processes
    BY RequestWindowAssumption
<1>2. LocalCount(Serves[q], i) /\ UNCHANGED <<redisVars, sharedHits, asked>>
    BY DEF CountLocally
<1>3. RedisTypeOK' /\ now' = now
    BY <1>2 DEF WindowInv, WindowTypeOK, RedisTypeOK, redisVars
<1> QED BY <1>1, <1>2, <1>3, LocalCountKeeps DEF WindowInv, WindowTypeOK, HasBucket

LEMMA WindowAnswersKeeps ==
    ASSUME WindowInv, NEW q \in RequestSlots, WindowAnswers(q)
    PROVE  WindowInv'
<1> DEFINE i == asked[q]
<1>1. i \in Identifiers /\ asked' \in [RequestSlots -> Identifiers \cup {None}]
    BY DEF WindowInv, WindowTypeOK, WindowAnswers
<1>2. SharedCount(i) /\ UNCHANGED <<redisVars, buckets, hits>>
    BY DEF WindowAnswers, Answered
<1>3. RedisTypeOK' /\ now' = now
    BY <1>2 DEF WindowInv, WindowTypeOK, RedisTypeOK, redisVars
<1>4. /\ sharedHits' \in [Identifiers -> SUBSET Arrivals]
      /\ \A j \in Identifiers : Counted(now, sharedHits'[j], admitted[Redis][j])
      /\ HasRoom(i) => Counted(now, sharedHits'[i],
                               Recent(admitted[Redis][i]) \cup {SharedArrival(i)})
      /\ SharedArrival(i) \in Arrivals
    BY <1>1, <1>2, SharedCountKeeps
<1>5. /\ Redis \in Books /\ Redis \notin Processes /\ Processes \subseteq Books
      /\ admitted \in [Books -> [Identifiers -> SUBSET Arrivals]]
    BY SharedRedisAssumption DEF WindowInv, WindowTypeOK, Books
<1>6. /\ admitted' \in [Books -> [Identifiers -> SUBSET Arrivals]]
      /\ \A j \in Identifiers : Counted(now, sharedHits'[j], admitted'[Redis][j])
      /\ \A p \in Processes : admitted'[p] = admitted[p]
    <2>1. CASE HasRoom(i)
        <3> DEFINE counted == Recent(admitted[Redis][i]) \cup {SharedArrival(i)}
        <3>1. admitted' = [admitted EXCEPT ![Redis][i] = counted]
            BY <2>1 DEF WindowAnswers, Admit
        <3>2. counted \in SUBSET Arrivals
            BY <1>1, <1>4, <1>5 DEF Recent
        <3>3. Counted(now, sharedHits'[i], counted)
            BY <1>4, <2>1
        <3> HIDE DEF counted, i
        <3>4. \A j \in Identifiers : admitted'[Redis][j] = IF j = i THEN counted
                                                           ELSE admitted[Redis][j]
            BY <1>1, <1>5, <3>1
        <3>5. ASSUME NEW j \in Identifiers
              PROVE  Counted(now, sharedHits'[j], admitted'[Redis][j])
            <4>1. CASE j = i
                BY <1>1, <3>3, <3>4, <4>1
            <4>2. CASE j # i
                BY <1>4, <3>4, <4>2
            <4> QED BY <4>1, <4>2
        <3>6. admitted' \in [Books -> [Identifiers -> SUBSET Arrivals]]
            BY <1>1, <1>5, <3>1, <3>2
        <3>7. \A p \in Processes : admitted'[p] = admitted[p]
            BY <1>5, <3>1
        <3> QED BY <3>5, <3>6, <3>7
    <2>2. CASE ~HasRoom(i)
        <3>1. admitted' = admitted
            BY <2>2 DEF WindowAnswers
        <3> QED BY <1>4, <1>5, <3>1
    <2> QED BY <2>1, <2>2
<1>7. \A p \in Processes, j \in Identifiers : Counted(now, hits'[p][j], admitted'[p][j])
    BY <1>2, <1>6 DEF WindowInv
<1> QED BY <1>1, <1>2, <1>3, <1>4, <1>6, <1>7 DEF WindowInv, WindowTypeOK, HasBucket

LEMMA WindowFailsKeeps ==
    ASSUME WindowInv, NEW q \in RequestSlots, WindowFails(q)
    PROVE  WindowInv'
<1> DEFINE i == asked[q]
<1>1. /\ i \in Identifiers /\ asked' \in [RequestSlots -> Identifiers \cup {None}]
      /\ Serves[q] \in Processes
    BY RequestWindowAssumption DEF WindowInv, WindowTypeOK, WindowFails
<1>2. /\ LocalCount(Serves[q], i)
      /\ \/ NotCarriedOut(Serves[q]) /\ UNCHANGED sharedHits
         \/ ReplyLost(Serves[q]) /\ SharedCount(i)
    BY DEF WindowFails
<1>3. RedisTypeOK' /\ now' = now
    BY <1>1, <1>2, RedisCall DEF WindowInv, WindowTypeOK
<1>4. /\ sharedHits' \in [Identifiers -> SUBSET Arrivals]
      /\ \A j \in Identifiers : Counted(now, sharedHits'[j], admitted[Redis][j])
    BY <1>1, <1>2, SharedCountKeeps DEF WindowInv, WindowTypeOK
<1> QED BY <1>1, <1>2, <1>3, <1>4, LocalCountKeeps DEF WindowInv, WindowTypeOK, HasBucket

\* The clock, the server and its other users.
LEMMA WindowRests ==
    ASSUME WindowInv, RedisTypeOK', now <= now', UNCHANGED windowVars
    PROVE  WindowInv'
<1>1. RedisTypeOK' /\ now \in Nat /\ now' \in Nat /\ now <= now'
    BY DEF WindowInv, WindowTypeOK, RedisTypeOK
<1>2. UNCHANGED <<sharedHits, buckets, hits, asked, admitted>>
    BY DEF windowVars
<1>3. \A i \in Identifiers : /\ sharedHits[i] \in SUBSET Arrivals
                             /\ admitted[Redis][i] \in SUBSET Arrivals
    BY DEF WindowInv, WindowTypeOK, Books
<1>4. \A p \in Processes, i \in Identifiers : /\ hits[p][i] \in SUBSET Arrivals
                                              /\ admitted[p][i] \in SUBSET Arrivals
    BY DEF WindowInv, WindowTypeOK, Books
<1>5. ASSUME NEW i \in Identifiers PROVE Counted(now', sharedHits[i], admitted[Redis][i])
    BY <1>1, <1>3, WindowMoves DEF WindowInv
<1>6. ASSUME NEW p \in Processes, NEW i \in Identifiers
      PROVE  Counted(now', hits[p][i], admitted[p][i])
    BY <1>1, <1>4, WindowMoves DEF WindowInv
<1> QED BY <1>1, <1>2, <1>5, <1>6 DEF WindowInv, WindowTypeOK, HasBucket

LEMMA WindowStart == WindowInit => WindowInv
<1> SUFFICES ASSUME WindowInit PROVE WindowInv
    OBVIOUS
<1>1. WindowTypeOK
    <2>1. RedisTypeOK
        BY SharedRedisAssumption DEF WindowInit, RedisInit, RedisTypeOK
    <2>2. <<>> \in Seq(Identifiers) /\ IsInjective(<<>>) /\ Len(<<>>) = 0
        BY DEF IsInjective
    <2> QED BY <2>1, <2>2, RequestWindowAssumption DEF WindowInit, WindowTypeOK
<1>2. Counted(now, {}, {})
    <2>1. Within(now, {}) = {} /\ IsFiniteSet({}) /\ Cardinality({}) = 0
        BY FS_EmptySet DEF Within
    <2> QED BY <2>1, RequestWindowAssumption DEF Counted
<1> QED BY <1>1, <1>2 DEF WindowInit, WindowInv, Books

LEMMA WindowStep ==
    ASSUME WindowInv, [WindowNext]_wVars
    PROVE  WindowInv'
<1>1. ASSUME NEW q \in RequestSlots, NEW i \in Identifiers, CountLocally(q, i)
      PROVE  WindowInv'
    BY <1>1, CountLocallyKeeps
<1>2. ASSUME NEW q \in RequestSlots, NEW i \in Identifiers, AskWindow(q, i)
      PROVE  WindowInv'
    BY <1>2, AskKeeps
<1>3. ASSUME NEW q \in RequestSlots, WindowAnswers(q)
      PROVE  WindowInv'
    BY <1>3, WindowAnswersKeeps
<1>4. ASSUME NEW q \in RequestSlots, WindowFails(q)
      PROVE  WindowInv'
    BY <1>4, WindowFailsKeeps
<1>5. CASE RedisStep /\ UNCHANGED windowVars
    BY <1>5, RedisMoves, WindowRests DEF WindowInv, WindowTypeOK
<1>6. CASE UNCHANGED wVars
    BY <1>6 DEF wVars, redisVars, windowVars, WindowInv, WindowTypeOK, RedisTypeOK, HasBucket
<1> QED BY <1>1, <1>2, <1>3, <1>4, <1>5, <1>6 DEF WindowNext

LEMMA WindowInvariant == WindowSpec => []WindowInv
<1>1. WindowInv /\ [WindowNext]_wVars => WindowInv'
    BY WindowStep
<1> QED BY <1>1, WindowStart, PTL DEF WindowSpec, wVars

(* The clock, the Redis books and the processes' own books always have their types, and   *)
(* a process keeps one place for each client and at most max_clients of them              *)
(* (core/rate_limit.py).                                                                  *)
THEOREM WindowTypeCorrect == WindowSpec => []WindowTypeOK
<1>1. WindowInv => WindowTypeOK
    BY DEF WindowInv
<1> QED BY <1>1, WindowInvariant, PTL

(* No book, that of Redis or that of a process, ever admits more than max_requests        *)
(* requests of a client in a window, whatever the interleaving of requests, outages,      *)
(* lost answers and buckets thrown away.                                                  *)
THEOREM NoBookAdmitsMore == WindowSpec => []AdmissionsBounded
<1>1. WindowInv => AdmissionsBounded
    <2> SUFFICES ASSUME WindowInv, NEW b \in Books, NEW i \in Identifiers
                 PROVE  Cardinality(Recent(admitted[b][i])) <= MaxRequests
        BY DEF AdmissionsBounded
    <2>1. PICK S : Counted(now, S, admitted[b][i])
        BY DEF WindowInv, Books
    <2>2. Recent(admitted[b][i]) \in SUBSET Within(now, S)
        BY <2>1, RecentIsWithin DEF Counted, Within
    <2>3. /\ IsFiniteSet(Within(now, S)) /\ Cardinality(Within(now, S)) \in Nat
          /\ Cardinality(Within(now, S)) <= MaxRequests
        BY <2>1, WithinIsFinite DEF Counted
    <2>4. Cardinality(Recent(admitted[b][i])) \in Nat
          /\ Cardinality(Recent(admitted[b][i])) <= Cardinality(Within(now, S))
        BY <2>2, <2>3, FS_Subset, FS_CardinalityType
    <2> QED BY <2>3, <2>4, RequestWindowAssumption
<1> QED BY <1>1, WindowInvariant, PTL

----------------------------------------------------------------------------
(* The pacing of the hosts. *)

USE SharedRedisAssumption, HostPacingAssumption
    DEF SharedRedisAssumption, HostPacingAssumption

pVars == <<redisVars, pacingVars>>

\* The schedule of host h in a book.
ScheduleIn(book, h) == IF book = Redis THEN sharedSlot[h] ELSE localSlot[book][h]

\* A book's schedule is past what the book remembers of the host.
ScheduleInv ==
    \A book \in Books, h \in Hosts :
        /\ last[book][h] # 0 => ScheduleIn(book, h) >= last[book][h] + Interval
        /\ blocked[book][h] # 0 => ScheduleIn(book, h) >= blocked[book][h] + Protected

PacingInv == PacingTypeOK /\ ScheduleInv

Histories == [Books -> [Hosts -> Nat]]

LEMMA BooksApart == Redis \in Books /\ Processes \subseteq Books /\ \A p \in Processes : p # Redis
BY DEF Books

LEMMA Forgetting ==
    ASSUME NEW history \in Histories, NEW book \in Books, NEW lost \in SUBSET Hosts
    PROVE  LET new == Recall(history, book, lost) IN
           /\ new \in Histories
           /\ \A b \in Books \ {book}, k \in Hosts : new[b][k] = history[b][k]
           /\ \A k \in Hosts : new[book][k] = IF k \in lost THEN 0 ELSE history[book][k]
BY DEF Recall, Histories

\* A book gives host h a slot, and drops the hosts lost: what Grant does to it.
Given(h, book, start, lost) ==
    /\ last' = Recall([last EXCEPT ![book][h] = start], book, lost)
    /\ blocked' = Recall(blocked, book, lost)

LEMMA Giving ==
    ASSUME last \in Histories, blocked \in Histories, NEW h \in Hosts, NEW book \in Books,
           NEW start \in Nat, NEW lost \in SUBSET Hosts, Given(h, book, start, lost)
    PROVE  /\ last' \in Histories /\ blocked' \in Histories
           /\ \A b \in Books \ {book}, k \in Hosts :
                  last'[b][k] = last[b][k] /\ blocked'[b][k] = blocked[b][k]
           /\ \A k \in Hosts \ {h} : /\ last'[book][k] = IF k \in lost THEN 0 ELSE last[book][k]
                                     /\ blocked'[book][k] = IF k \in lost THEN 0
                                                            ELSE blocked[book][k]
           /\ last'[book][h] = IF h \in lost THEN 0 ELSE start
           /\ blocked'[book][h] = IF h \in lost THEN 0 ELSE blocked[book][h]
<1> DEFINE put == [last EXCEPT ![book][h] = start]
<1>1. put \in Histories /\ put[book][h] = start
      /\ (\A b \in Books \ {book}, k \in Hosts : put[b][k] = last[b][k])
      /\ \A k \in Hosts \ {h} : put[book][k] = last[book][k]
    BY DEF Histories
<1>2. last' = Recall(put, book, lost) /\ blocked' = Recall(blocked, book, lost)
    BY DEF Given
<1> HIDE DEF put
<1>3. /\ last' \in Histories
      /\ \A b \in Books \ {book}, k \in Hosts : last'[b][k] = put[b][k]
      /\ \A k \in Hosts : last'[book][k] = IF k \in lost THEN 0 ELSE put[book][k]
    BY <1>1, <1>2, Forgetting
<1>4. /\ blocked' \in Histories
      /\ \A b \in Books \ {book}, k \in Hosts : blocked'[b][k] = blocked[b][k]
      /\ \A k \in Hosts : blocked'[book][k] = IF k \in lost THEN 0 ELSE blocked[book][k]
    BY <1>2, Forgetting
<1> QED BY <1>1, <1>3, <1>4

LEMMA Blocking ==
    ASSUME last \in Histories, blocked \in Histories, NEW h \in Hosts, NEW book \in Books,
           now \in Nat, NEW lost \in SUBSET Hosts, Block(h, book, lost)
    PROVE  /\ last' \in Histories /\ blocked' \in Histories
           /\ \A b \in Books \ {book}, k \in Hosts :
                  last'[b][k] = last[b][k] /\ blocked'[b][k] = blocked[b][k]
           /\ \A k \in Hosts \ {h} : /\ last'[book][k] = IF k \in lost THEN 0 ELSE last[book][k]
                                     /\ blocked'[book][k] = IF k \in lost THEN 0
                                                            ELSE blocked[book][k]
           /\ blocked'[book][h] = IF h \in lost THEN 0 ELSE now
           /\ last'[book][h] = IF h \in lost THEN 0 ELSE last[book][h]
<1> DEFINE put == [blocked EXCEPT ![book][h] = now]
<1>1. put \in Histories /\ put[book][h] = now
      /\ (\A b \in Books \ {book}, k \in Hosts : put[b][k] = blocked[b][k])
      /\ \A k \in Hosts \ {h} : put[book][k] = blocked[book][k]
    BY DEF Histories
<1>2. blocked' = Recall(put, book, lost) /\ last' = Recall(last, book, lost)
    BY DEF Block
<1> HIDE DEF put
<1>3. /\ blocked' \in Histories
      /\ \A b \in Books \ {book}, k \in Hosts : blocked'[b][k] = put[b][k]
      /\ \A k \in Hosts : blocked'[book][k] = IF k \in lost THEN 0 ELSE put[book][k]
    BY <1>1, <1>2, Forgetting
<1>4. /\ last' \in Histories
      /\ \A b \in Books \ {book}, k \in Hosts : last'[b][k] = last[b][k]
      /\ \A k \in Hosts : last'[book][k] = IF k \in lost THEN 0 ELSE last[book][k]
    BY <1>2, Forgetting
<1> QED BY <1>1, <1>3, <1>4

\* An entry into a process's cache binds the host, and drops the hosts it lists.
LEMMA Entering ==
    ASSUME PacingTypeOK, NEW p \in Processes, NEW h \in Hosts, NEW next \in Nat,
           NEW dropped \in SUBSET Hosts, LocalEnter(p, h, next, dropped)
    PROVE  /\ localSlot' \in [Processes -> [Hosts -> Nat]]
           /\ \A q \in Processes : Cardinality({k \in Hosts : localSlot'[q][k] # 0}) <= MaxHosts
           /\ \A q \in Processes \ {p}, k \in Hosts : localSlot'[q][k] = localSlot[q][k]
           /\ \A k \in Hosts \ {h} :
                  localSlot'[p][k] = IF k \in dropped THEN 0 ELSE localSlot[p][k]
           /\ localSlot'[p][h] = IF h \in dropped THEN 0 ELSE next
<1> DEFINE cache == [localSlot[p] EXCEPT ![h] = next]
           kept == {k \in Hosts : cache[k] # 0}
<1>1. localSlot \in [Processes -> [Hosts -> Nat]]
    BY DEF PacingTypeOK
<1>2. cache \in [Hosts -> Nat] /\ cache[h] = next /\ \A k \in Hosts \ {h} : cache[k] = localSlot[p][k]
    BY <1>1
<1>3. localSlot' = [localSlot EXCEPT ![p] = [k \in Hosts |-> IF k \in dropped THEN 0 ELSE cache[k]]]
    BY DEF LocalEnter
<1>4. Cardinality(kept \ dropped) <= MaxHosts
    BY DEF LocalEnter, Trimmed
<1> HIDE DEF cache
<1>5. localSlot' \in [Processes -> [Hosts -> Nat]]
      /\ (\A q \in Processes \ {p} : localSlot'[q] = localSlot[q])
      /\ \A k \in Hosts : localSlot'[p][k] = IF k \in dropped THEN 0 ELSE cache[k]
    BY <1>1, <1>2, <1>3
<1>6. {k \in Hosts : localSlot'[p][k] # 0} = kept \ dropped
    BY <1>5
<1>7. ASSUME NEW q \in Processes
      PROVE  Cardinality({k \in Hosts : localSlot'[q][k] # 0}) <= MaxHosts
    <2>1. CASE q = p
        BY <1>4, <1>6, <2>1
    <2>2. CASE q # p
        BY <1>5, <2>2 DEF PacingTypeOK
    <2> QED BY <2>1, <2>2
<1> QED BY <1>2, <1>5, <1>7

----------------------------------------------------------------------------

\* What the tasks do, apart from the books.
TasksOK == fetch \in [Fetchers -> {Resting} \cup Claims \cup GrantedSlots] /\ clearing \in BOOLEAN

\* What the books say.
BooksOK ==
    /\ sharedSlot \in [Hosts -> Nat]
    /\ localSlot \in [Processes -> [Hosts -> Nat]]
    /\ last \in Histories
    /\ blocked \in Histories
    /\ \A p \in Processes : Cardinality({h \in Hosts : localSlot[p][h] # 0}) <= MaxHosts

LEMMA TypeParts == PacingTypeOK <=> RedisTypeOK /\ TasksOK /\ BooksOK
BY DEF PacingTypeOK, TasksOK, BooksOK, Histories

LEMMA TaskKinds ==
    ASSUME TasksOK, NEW f \in Fetchers
    PROVE  /\ fetch[f].at = "claiming" => fetch[f].host \in Hosts
           /\ fetch[f].at \in {"sleeping", "fetching", "backing"} =>
                fetch[f] \in GrantedSlots /\ fetch[f].host \in Hosts
BY DEF TasksOK, Resting, Claims, GrantedSlots

\* Redis moves a host's schedule on from now or from where it stood.
LEMMA SharedMoves ==
    ASSUME BooksOK, now \in Nat, NEW h \in Hosts, NEW interval \in Nat,
           SharedClaim(h, interval)
    PROVE  /\ sharedSlot' \in [Hosts -> Nat]
           /\ \A k \in Hosts : sharedSlot'[k] >= sharedSlot[k]
           /\ sharedSlot'[h] >= now + interval
           /\ SharedStart(h) \in Nat
           /\ sharedSlot'[h] = SharedStart(h) + interval
           /\ SharedStart(h) >= sharedSlot[h]
<1>1. sharedSlot[h] \in Nat
    BY DEF BooksOK
<1>2. SharedStart(h) \in Nat /\ SharedStart(h) >= sharedSlot[h] /\ SharedStart(h) >= now
    BY <1>1 DEF SharedStart, Later
<1>3. sharedSlot' = [sharedSlot EXCEPT ![h] = SharedStart(h) + interval]
    BY DEF SharedClaim
<1> HIDE DEF SharedStart
<1>4. sharedSlot' \in [Hosts -> Nat] /\ sharedSlot'[h] = SharedStart(h) + interval
      /\ \A k \in Hosts \ {h} : sharedSlot'[k] = sharedSlot[k]
    BY <1>2, <1>3 DEF BooksOK
<1>5. ASSUME NEW k \in Hosts PROVE sharedSlot'[k] >= sharedSlot[k]
    <2>1. sharedSlot[k] \in Nat
        BY DEF BooksOK
    <2> QED BY <1>1, <1>2, <1>4, <2>1
<1> QED BY <1>2, <1>4, <1>5

\* A process enters a slot it gave, or a block, into its own cache.
LEMMA LocalBook ==
    ASSUME BooksOK, ScheduleInv, PacingTypeOK,
           NEW p \in Processes, NEW h \in Hosts, NEW next \in Nat, NEW t \in Nat,
           NEW dropped \in SUBSET Hosts, LocalEnter(p, h, next, dropped),
           next >= localSlot[p][h],
           sharedSlot' \in [Hosts -> Nat], \A k \in Hosts : sharedSlot'[k] >= sharedSlot[k],
           \/ Given(h, p, t, dropped) /\ next >= t + Interval
           \/ Block(h, p, dropped) /\ t = now /\ next >= t + Protected
    PROVE  BooksOK' /\ ScheduleInv'
<1>1. p \in Books /\ p # Redis /\ Redis \in Books
    BY BooksApart
<1>2. /\ localSlot' \in [Processes -> [Hosts -> Nat]]
      /\ \A q \in Processes : Cardinality({k \in Hosts : localSlot'[q][k] # 0}) <= MaxHosts
      /\ \A q \in Processes \ {p}, k \in Hosts : localSlot'[q][k] = localSlot[q][k]
      /\ \A k \in Hosts \ {h} : localSlot'[p][k] = IF k \in dropped THEN 0 ELSE localSlot[p][k]
      /\ localSlot'[p][h] = IF h \in dropped THEN 0 ELSE next
    BY Entering
<1>3. /\ last' \in Histories /\ blocked' \in Histories
      /\ \A b \in Books \ {p}, k \in Hosts : last'[b][k] = last[b][k] /\ blocked'[b][k] = blocked[b][k]
      /\ \A k \in Hosts \ {h} : /\ last'[p][k] = IF k \in dropped THEN 0 ELSE last[p][k]
                                /\ blocked'[p][k] = IF k \in dropped THEN 0 ELSE blocked[p][k]
      /\ h \in dropped => last'[p][h] = 0 /\ blocked'[p][h] = 0
      /\ h \notin dropped =>
            \/ last'[p][h] = t /\ blocked'[p][h] = blocked[p][h] /\ next >= t + Interval
            \/ last'[p][h] = last[p][h] /\ blocked'[p][h] = t /\ next >= t + Protected
    <2>0. last \in Histories /\ blocked \in Histories
        BY DEF BooksOK
    <2>1. CASE Given(h, p, t, dropped) /\ next >= t + Interval
        BY <1>1, <2>0, <2>1, Giving
    <2>2. CASE Block(h, p, dropped) /\ t = now /\ next >= t + Protected
        BY <1>1, <2>0, <2>2, Blocking
    <2> QED BY <2>1, <2>2
<1>4. BooksOK'
    BY <1>2, <1>3 DEF BooksOK
<1>5. ASSUME NEW b \in Books, NEW k \in Hosts
      PROVE  /\ last'[b][k] # 0 => ScheduleIn(b, k)' >= last'[b][k] + Interval
             /\ blocked'[b][k] # 0 => ScheduleIn(b, k)' >= blocked'[b][k] + Protected
    <2>0. last[b][k] \in Nat /\ blocked[b][k] \in Nat /\ sharedSlot[k] \in Nat
        BY DEF BooksOK, Histories
    <2>1. CASE b = Redis
        <3>1. last'[b][k] = last[b][k] /\ blocked'[b][k] = blocked[b][k]
            BY <1>1, <1>3, <2>1
        <3>2. sharedSlot'[k] >= sharedSlot[k] /\ sharedSlot'[k] \in Nat
            OBVIOUS
        <3>3. /\ last[b][k] # 0 => sharedSlot[k] >= last[b][k] + Interval
              /\ blocked[b][k] # 0 => sharedSlot[k] >= blocked[b][k] + Protected
            BY <2>1 DEF ScheduleInv, ScheduleIn
        <3> QED BY <2>0, <2>1, <3>1, <3>2, <3>3 DEF ScheduleIn
    <2>2. CASE b # Redis /\ b # p
        <3>1. last'[b][k] = last[b][k] /\ blocked'[b][k] = blocked[b][k]
            BY <1>3, <2>2
        <3>2. localSlot'[b][k] = localSlot[b][k]
            BY <1>2, <2>2 DEF Books
        <3> QED BY <2>2, <3>1, <3>2 DEF ScheduleInv, ScheduleIn
    <2>3. CASE b = p /\ k \in dropped
        <3>1. last'[b][k] = 0 /\ blocked'[b][k] = 0
            BY <1>3, <2>3
        <3> QED BY <3>1
    <2>4. CASE b = p /\ k \notin dropped /\ k # h
        <3>1. last'[b][k] = last[b][k] /\ blocked'[b][k] = blocked[b][k]
            BY <1>3, <2>4
        <3>2. localSlot'[b][k] = localSlot[b][k] /\ b # Redis
            BY <1>1, <1>2, <2>4
        <3> QED BY <3>1, <3>2 DEF ScheduleInv, ScheduleIn
    <2>5. CASE b = p /\ k = h /\ h \notin dropped
        <3>1. localSlot'[b][k] = next /\ b # Redis
            BY <1>1, <1>2, <2>5
        <3>2. /\ last[b][k] # 0 => next >= last[b][k] + Interval
              /\ blocked[b][k] # 0 => next >= blocked[b][k] + Protected
            <4>1. /\ last[b][k] # 0 => localSlot[p][h] >= last[b][k] + Interval
                  /\ blocked[b][k] # 0 => localSlot[p][h] >= blocked[b][k] + Protected
                BY <1>1, <2>5 DEF ScheduleInv, ScheduleIn
            <4>2. localSlot[p][h] \in Nat
                BY DEF BooksOK
            <4> QED BY <2>0, <4>1, <4>2
        <3>3. \/ last'[b][k] = t /\ blocked'[b][k] = blocked[b][k] /\ next >= t + Interval
              \/ last'[b][k] = last[b][k] /\ blocked'[b][k] = t /\ next >= t + Protected
            BY <1>3, <2>5
        <3> QED BY <3>1, <3>2, <3>3 DEF ScheduleIn
    <2> QED BY <2>1, <2>2, <2>3, <2>4, <2>5
<1> QED BY <1>4, <1>5 DEF ScheduleInv

\* Redis gives a slot, or enters a block, and moves the host's schedule past it.
LEMMA SharedBook ==
    ASSUME BooksOK, ScheduleInv, now \in Nat, UNCHANGED localSlot,
           NEW h \in Hosts, NEW interval \in Nat, SharedClaim(h, interval),
           \/ Given(h, Redis, SharedStart(h), {}) /\ interval >= Interval
           \/ Block(h, Redis, {}) /\ interval >= Protected
    PROVE  BooksOK' /\ ScheduleInv'
<1>1. Redis \in Books
    BY BooksApart
<1>2. last \in Histories /\ blocked \in Histories
    BY DEF BooksOK
<1>3. /\ sharedSlot' \in [Hosts -> Nat]
      /\ \A k \in Hosts : sharedSlot'[k] >= sharedSlot[k]
      /\ sharedSlot'[h] >= now + interval
      /\ SharedStart(h) \in Nat
      /\ sharedSlot'[h] = SharedStart(h) + interval
    BY SharedMoves
<1> HIDE DEF SharedStart
<1>4. /\ last' \in Histories /\ blocked' \in Histories
      /\ \A b \in Books, k \in Hosts : b # Redis \/ k # h =>
            last'[b][k] = last[b][k] /\ blocked'[b][k] = blocked[b][k]
      /\ \/ /\ last'[Redis][h] = SharedStart(h) /\ interval >= Interval
            /\ blocked'[Redis][h] = blocked[Redis][h]
         \/ /\ blocked'[Redis][h] = now /\ interval >= Protected
            /\ last'[Redis][h] = last[Redis][h]
    <2>0. {} \in SUBSET Hosts
        OBVIOUS
    <2>1. CASE Given(h, Redis, SharedStart(h), {}) /\ interval >= Interval
        BY <1>1, <1>2, <1>3, <2>0, <2>1, Giving
    <2>2. CASE Block(h, Redis, {}) /\ interval >= Protected
        BY <1>1, <1>2, <2>0, <2>2, Blocking
    <2> QED BY <2>1, <2>2
<1>5. BooksOK'
    BY <1>3, <1>4 DEF BooksOK
<1>6. ASSUME NEW b \in Books, NEW k \in Hosts
      PROVE  /\ last'[b][k] # 0 => ScheduleIn(b, k)' >= last'[b][k] + Interval
             /\ blocked'[b][k] # 0 => ScheduleIn(b, k)' >= blocked'[b][k] + Protected
    <2>1. last[b][k] \in Nat /\ blocked[b][k] \in Nat /\ sharedSlot[k] \in Nat
          /\ sharedSlot'[k] \in Nat /\ sharedSlot'[k] >= sharedSlot[k]
        BY <1>3 DEF BooksOK, Histories
    <2>2. /\ last[b][k] # 0 => ScheduleIn(b, k) >= last[b][k] + Interval
          /\ blocked[b][k] # 0 => ScheduleIn(b, k) >= blocked[b][k] + Protected
        BY DEF ScheduleInv
    <2>3. CASE b # Redis
        BY <1>4, <2>2, <2>3 DEF ScheduleIn
    <2>4. CASE b = Redis /\ k # h
        BY <1>4, <2>1, <2>2, <2>4 DEF ScheduleIn
    <2>5. CASE b = Redis /\ k = h
        BY <1>3, <1>4, <2>1, <2>2, <2>5 DEF ScheduleIn
    <2> QED BY <2>3, <2>4, <2>5
<1> QED BY <1>5, <1>6 DEF ScheduleInv

----------------------------------------------------------------------------
(* The actions. *)

LEMMA InvParts ==
    PacingInv <=> RedisTypeOK /\ TasksOK /\ BooksOK /\ ScheduleInv
BY TypeParts DEF PacingInv

LEMMA InvPartsNext ==
    RedisTypeOK' /\ TasksOK' /\ BooksOK' /\ ScheduleInv' => PacingInv'
BY TypeParts, PTL DEF PacingInv, PacingTypeOK, TasksOK, BooksOK, Histories

LEMMA LocalGranted ==
    ASSUME PacingInv, NEW f \in Fetchers, NEW h \in Hosts, LocalGrant(f, h),
           RedisTypeOK', UNCHANGED clearing,
           sharedSlot' \in [Hosts -> Nat], \A k \in Hosts : sharedSlot'[k] >= sharedSlot[k]
    PROVE  PacingInv'
<1> DEFINE p == Home[f]
           start == LocalStart(p, h)
<1>1. RedisTypeOK /\ TasksOK /\ BooksOK /\ ScheduleInv /\ PacingTypeOK
    BY InvParts DEF PacingInv
<1>2. p \in Processes /\ p \in Books
    BY BooksApart
<1>3. start \in Nat /\ start >= localSlot[p][h]
    BY <1>1, <1>2 DEF LocalStart, Later, BooksOK, RedisTypeOK
<1>4. PICK dropped \in SUBSET Hosts :
          /\ LocalEnter(p, h, start + Interval, dropped)
          /\ Grant(f, h, p, start, dropped)
    BY DEF LocalGrant
<1> HIDE DEF start, p
<1>5. start + Interval \in Nat /\ start + Interval >= localSlot[p][h]
      /\ start + Interval >= start + Interval
    BY <1>1, <1>2, <1>3 DEF BooksOK
<1>6. Given(h, p, start, dropped)
    BY <1>4 DEF Grant, Given
<1>7. BooksOK' /\ ScheduleInv'
    BY <1>1, <1>2, <1>3, <1>4, <1>5, <1>6, LocalBook
<1>8. TasksOK'
    BY <1>1, <1>2, <1>3, <1>4 DEF Grant, TasksOK, GrantedSlots
<1> QED BY <1>7, <1>8, InvPartsNext

\* A slot that is new is late enough for what its book remembers.
Late(g) ==
    NewSlot(g) =>
        LET slot == fetch'[g] IN
        /\ last[slot.book][slot.host] # 0 =>
                slot.start >= last[slot.book][slot.host] + Interval
        /\ blocked[slot.book][slot.host] # 0 =>
                slot.start >= blocked[slot.book][slot.host] + Protected

AllLate == \A g \in Fetchers : Late(g)

LEMMA LocalSlotIsLate ==
    ASSUME PacingInv, NEW f \in Fetchers, NEW h \in Hosts, LocalGrant(f, h)
    PROVE  AllLate
<1> DEFINE p == Home[f]
           start == LocalStart(p, h)
<1>1. RedisTypeOK /\ TasksOK /\ BooksOK /\ ScheduleInv
    BY InvParts
<1>2. p \in Processes /\ p \in Books /\ p # Redis
    BY BooksApart
<1>3. start \in Nat /\ start >= localSlot[p][h] /\ localSlot[p][h] \in Nat
    BY <1>1, <1>2 DEF LocalStart, Later, BooksOK, RedisTypeOK
<1>4. fetch' = [fetch EXCEPT ![f] = [at |-> "sleeping", host |-> h, book |-> p, start |-> start]]
    BY DEF LocalGrant, Grant
<1> HIDE DEF start, p
<1>5. /\ last[p][h] # 0 => localSlot[p][h] >= last[p][h] + Interval
      /\ blocked[p][h] # 0 => localSlot[p][h] >= blocked[p][h] + Protected
      /\ last[p][h] \in Nat /\ blocked[p][h] \in Nat
    BY <1>1, <1>2 DEF ScheduleInv, ScheduleIn, BooksOK, Histories
<1>6. /\ last[p][h] # 0 => start >= last[p][h] + Interval
      /\ blocked[p][h] # 0 => start >= blocked[p][h] + Protected
    BY <1>3, <1>5
<1>7. fetch'[f] = [at |-> "sleeping", host |-> h, book |-> p, start |-> start]
      /\ \A g \in Fetchers \ {f} : fetch'[g] = fetch[g]
    BY <1>1, <1>4 DEF TasksOK
<1> QED BY <1>6, <1>7 DEF AllLate, Late, NewSlot

LEMMA ClaimLocallyKeeps ==
    ASSUME PacingInv, NEW f \in Fetchers, NEW h \in Hosts, ClaimLocally(f, h)
    PROVE  PacingInv' /\ AllLate
<1>1. RedisTypeOK /\ BooksOK
    BY InvParts
<1>2. RedisTypeOK' /\ sharedSlot' = sharedSlot /\ UNCHANGED clearing /\ LocalGrant(f, h)
    BY <1>1 DEF ClaimLocally, RedisTypeOK, redisVars
<1>3. sharedSlot' \in [Hosts -> Nat] /\ \A k \in Hosts : sharedSlot'[k] >= sharedSlot[k]
    BY <1>1, <1>2 DEF BooksOK
<1> QED BY <1>2, <1>3, LocalGranted, LocalSlotIsLate

LEMMA RedisFailsKeeps ==
    ASSUME PacingInv, NEW f \in Fetchers, RedisFails(f)
    PROVE  PacingInv' /\ AllLate
<1> DEFINE h == fetch[f].host
<1>1. RedisTypeOK /\ TasksOK /\ BooksOK /\ now \in Nat /\ Home[f] \in Processes
    BY InvParts DEF RedisTypeOK
<1>2. h \in Hosts
    BY <1>1, TaskKinds DEF RedisFails
<1>3. LocalGrant(f, h) /\ UNCHANGED clearing
    BY DEF RedisFails
<1>4. RedisTypeOK'
    BY <1>1, RedisCall DEF RedisFails
<1>5. sharedSlot' = sharedSlot \/ SharedClaim(h, Interval)
    BY DEF RedisFails
<1> HIDE DEF h
<1>6. sharedSlot' \in [Hosts -> Nat] /\ \A k \in Hosts : sharedSlot'[k] >= sharedSlot[k]
    <2>1. CASE sharedSlot' = sharedSlot
        BY <1>1, <2>1 DEF BooksOK
    <2>2. CASE SharedClaim(h, Interval)
        BY <1>1, <1>2, <2>2, SharedMoves
    <2> QED BY <1>5, <2>1, <2>2
<1> QED BY <1>2, <1>3, <1>4, <1>6, LocalGranted, LocalSlotIsLate

LEMMA RedisGrantsKeeps ==
    ASSUME PacingInv, NEW f \in Fetchers, RedisGrants(f)
    PROVE  PacingInv' /\ AllLate
<1> DEFINE h == fetch[f].host
           start == SharedStart(h)
<1>1. RedisTypeOK /\ TasksOK /\ BooksOK /\ ScheduleInv /\ now \in Nat /\ Redis \in Books
    BY InvParts, BooksApart DEF RedisTypeOK
<1>2. h \in Hosts
    BY <1>1, TaskKinds DEF RedisGrants
<1>3. /\ SharedClaim(h, Interval) /\ Grant(f, h, Redis, start, {})
      /\ UNCHANGED <<localSlot, clearing>> /\ Answered
    BY DEF RedisGrants
<1>4. RedisTypeOK'
    BY <1>1, <1>3 DEF Answered, RedisTypeOK, redisVars
<1>5. Given(h, Redis, SharedStart(h), {})
    BY <1>3 DEF Grant, Given
<1> HIDE DEF h
<1>6. start \in Nat /\ start >= sharedSlot[h] /\ sharedSlot[h] \in Nat
    BY <1>1, <1>2, <1>3, SharedMoves DEF BooksOK
<1>7. BooksOK' /\ ScheduleInv'
    BY <1>1, <1>2, <1>3, <1>5, SharedBook
<1> HIDE DEF start
<1>8. fetch' = [fetch EXCEPT ![f] = [at |-> "sleeping", host |-> h, book |-> Redis,
                                     start |-> start]]
    BY <1>3 DEF Grant
<1>9. TasksOK'
    BY <1>1, <1>2, <1>3, <1>6, <1>8 DEF TasksOK, GrantedSlots
<1>10. /\ last[Redis][h] # 0 => sharedSlot[h] >= last[Redis][h] + Interval
       /\ blocked[Redis][h] # 0 => sharedSlot[h] >= blocked[Redis][h] + Protected
       /\ last[Redis][h] \in Nat /\ blocked[Redis][h] \in Nat
    BY <1>1, <1>2 DEF ScheduleInv, ScheduleIn, BooksOK, Histories
<1>11. /\ last[Redis][h] # 0 => start >= last[Redis][h] + Interval
       /\ blocked[Redis][h] # 0 => start >= blocked[Redis][h] + Protected
    BY <1>6, <1>10
<1>12. fetch'[f] = [at |-> "sleeping", host |-> h, book |-> Redis, start |-> start]
       /\ \A g \in Fetchers \ {f} : fetch'[g] = fetch[g]
    BY <1>1, <1>8 DEF TasksOK
<1>13. AllLate
    BY <1>11, <1>12 DEF AllLate, Late, NewSlot
<1> QED BY <1>4, <1>7, <1>9, <1>13, InvPartsNext

\* A task that goes anywhere else gets no slot.
LEMMA NoNewSlot ==
    ASSUME TasksOK, NEW f \in Fetchers, NEW x, x.at # "sleeping",
           fetch' = [fetch EXCEPT ![f] = x]
    PROVE  AllLate
BY DEF TasksOK, AllLate, Late, NewSlot

LEMMA SameBooks ==
    ASSUME BooksOK, ScheduleInv, UNCHANGED <<sharedSlot, localSlot, last, blocked>>
    PROVE  BooksOK' /\ ScheduleInv'
BY DEF BooksOK, ScheduleInv, ScheduleIn

LEMMA QuietStepKeeps ==
    ASSUME PacingInv, NEW f \in Fetchers, NEW h \in Hosts,
           AskRedis(f, h) \/ Wake(f) \/ FetchedWell(f)
    PROVE  PacingInv' /\ AllLate
<1>1. RedisTypeOK /\ TasksOK /\ BooksOK /\ ScheduleInv
    BY InvParts
<1>2. UNCHANGED redisVars /\ UNCHANGED <<sharedSlot, localSlot, clearing, last, blocked>>
    BY DEF AskRedis, Wake, FetchedWell
<1>3. RedisTypeOK' /\ BooksOK' /\ ScheduleInv'
    BY <1>1, <1>2, SameBooks DEF RedisTypeOK, redisVars
<1>4. CASE AskRedis(f, h)
    <2>1. fetch' = [fetch EXCEPT ![f] = [at |-> "claiming", host |-> h]]
        BY <1>4 DEF AskRedis
    <2>2. TasksOK'
        BY <1>1, <1>2, <2>1 DEF TasksOK, Claims
    <2> QED BY <1>1, <1>3, <2>1, <2>2, NoNewSlot, InvPartsNext
<1>5. CASE Wake(f)
    <2>1. fetch' = [fetch EXCEPT ![f] = [fetch[f] EXCEPT !.at = "fetching"]]
          /\ fetch[f] \in GrantedSlots
        BY <1>1, <1>5, TaskKinds DEF Wake
    <2>2. [fetch[f] EXCEPT !.at = "fetching"] \in GrantedSlots
          /\ [fetch[f] EXCEPT !.at = "fetching"].at = "fetching"
        BY <2>1 DEF GrantedSlots
    <2>3. TasksOK'
        BY <1>1, <1>2, <2>1, <2>2 DEF TasksOK
    <2> QED BY <1>1, <1>3, <2>1, <2>2, <2>3, NoNewSlot, InvPartsNext
<1>6. CASE FetchedWell(f)
    <2>1. fetch' = [fetch EXCEPT ![f] = Resting]
        BY <1>6 DEF FetchedWell, Done
    <2>2. TasksOK' /\ Resting.at # "sleeping"
        BY <1>1, <1>2, <2>1 DEF TasksOK, Resting
    <2> QED BY <1>1, <1>3, <2>1, <2>2, NoNewSlot, InvPartsNext
<1> QED BY <1>4, <1>5, <1>6

LEMMA LocalBackedOff ==
    ASSUME PacingInv, NEW f \in Fetchers, fetch[f].host \in Hosts, LocalBackoff(f),
           sharedSlot' \in [Hosts -> Nat], \A k \in Hosts : sharedSlot'[k] >= sharedSlot[k]
    PROVE  BooksOK' /\ ScheduleInv'
<1> DEFINE p == Home[f]
           h == fetch[f].host
           next == Later(localSlot[p][h], now + Protected)
<1>1. BooksOK /\ ScheduleInv /\ PacingTypeOK /\ now \in Nat
    BY InvParts DEF PacingInv, RedisTypeOK
<1>2. p \in Processes /\ localSlot[p][h] \in Nat
    BY <1>1 DEF BooksOK
<1>3. next \in Nat /\ next >= localSlot[p][h] /\ next >= now + Protected
    BY <1>1, <1>2 DEF Later
<1>4. PICK dropped \in SUBSET Hosts : LocalEnter(p, h, next, dropped) /\ Block(h, p, dropped)
    BY DEF LocalBackoff
<1> HIDE DEF p, h, next
<1>5. h \in Hosts
    BY DEF h
<1> QED BY <1>1, <1>2, <1>3, <1>4, <1>5, LocalBook

LEMMA TaskEnds ==
    ASSUME TasksOK, NEW f \in Fetchers, Done(f), UNCHANGED clearing
    PROVE  TasksOK' /\ AllLate
<1>1. fetch' = [fetch EXCEPT ![f] = Resting] /\ Resting.at # "sleeping"
    BY DEF Done, Resting
<1> QED BY <1>1, NoNewSlot DEF TasksOK

LEMMA BlockedKeeps ==
    ASSUME PacingInv, NEW f \in Fetchers, Blocked(f)
    PROVE  PacingInv' /\ AllLate
<1>1. RedisTypeOK /\ TasksOK /\ BooksOK /\ ScheduleInv
    BY InvParts
<1>2. UNCHANGED <<redisVars, sharedSlot, clearing>> /\ fetch[f] \in GrantedSlots
      /\ fetch[f].host \in Hosts
    BY <1>1, TaskKinds DEF Blocked
<1>3. RedisTypeOK' /\ sharedSlot' \in [Hosts -> Nat]
      /\ \A k \in Hosts : sharedSlot'[k] >= sharedSlot[k]
    BY <1>1, <1>2 DEF RedisTypeOK, redisVars, BooksOK
<1>4. CASE LocalBackoff(f) /\ Done(f)
    BY <1>1, <1>2, <1>3, <1>4, LocalBackedOff, TaskEnds, InvPartsNext
<1>5. CASE fetch' = [fetch EXCEPT ![f].at = "backing"] /\ UNCHANGED <<localSlot, last, blocked>>
    <2>1. fetch' = [fetch EXCEPT ![f] = [fetch[f] EXCEPT !.at = "backing"]]
        BY <1>5
    <2>2. [fetch[f] EXCEPT !.at = "backing"] \in GrantedSlots
          /\ [fetch[f] EXCEPT !.at = "backing"].at = "backing"
        BY <1>2 DEF GrantedSlots
    <2>3. TasksOK'
        BY <1>1, <1>2, <2>1, <2>2 DEF TasksOK
    <2>4. BooksOK' /\ ScheduleInv'
        BY <1>1, <1>2, <1>5, SameBooks
    <2> QED BY <1>1, <1>3, <2>1, <2>2, <2>3, <2>4, NoNewSlot, InvPartsNext
<1> QED BY <1>4, <1>5 DEF Blocked

LEMMA RedisBacksOffKeeps ==
    ASSUME PacingInv, NEW f \in Fetchers, RedisBacksOff(f)
    PROVE  PacingInv' /\ AllLate
<1> DEFINE h == fetch[f].host
<1>1. RedisTypeOK /\ TasksOK /\ BooksOK /\ ScheduleInv /\ now \in Nat
    BY InvParts DEF RedisTypeOK
<1>2. h \in Hosts
    BY <1>1, TaskKinds DEF RedisBacksOff
<1>3. /\ SharedClaim(h, Protected) /\ Block(h, Redis, {}) /\ Done(f)
      /\ UNCHANGED <<localSlot, clearing>> /\ Answered
    BY DEF RedisBacksOff
<1>4. RedisTypeOK'
    BY <1>1, <1>3 DEF Answered, RedisTypeOK, redisVars
<1> HIDE DEF h
<1>5. BooksOK' /\ ScheduleInv'
    BY <1>1, <1>2, <1>3, SharedBook
<1> QED BY <1>1, <1>3, <1>4, <1>5, TaskEnds, InvPartsNext

LEMMA BackoffFailsKeeps ==
    ASSUME PacingInv, NEW f \in Fetchers, BackoffFails(f)
    PROVE  PacingInv' /\ AllLate
<1> DEFINE h == fetch[f].host
<1>1. RedisTypeOK /\ TasksOK /\ BooksOK /\ now \in Nat /\ Home[f] \in Processes
    BY InvParts DEF RedisTypeOK
<1>2. h \in Hosts
    BY <1>1, TaskKinds DEF BackoffFails
<1>3. LocalBackoff(f) /\ Done(f) /\ UNCHANGED clearing
    BY DEF BackoffFails
<1>4. RedisTypeOK'
    BY <1>1, RedisCall DEF BackoffFails
<1>5. sharedSlot' = sharedSlot \/ SharedClaim(h, Protected)
    BY DEF BackoffFails
<1>6. sharedSlot' \in [Hosts -> Nat] /\ \A k \in Hosts : sharedSlot'[k] >= sharedSlot[k]
    <2>1. CASE sharedSlot' = sharedSlot
        BY <1>1, <2>1 DEF BooksOK
    <2>2. CASE SharedClaim(h, Protected)
        <3> HIDE DEF h
        <3> QED BY <1>1, <1>2, <2>2, SharedMoves
    <2> QED BY <1>5, <2>1, <2>2
<1> QED BY <1>1, <1>2, <1>3, <1>4, <1>6, LocalBackedOff, TaskEnds, InvPartsNext

\* A book that forgets everything may have any schedule.
LEMMA Forgotten ==
    ASSUME BooksOK, ScheduleInv, NEW book \in Books, Forget(book),
           sharedSlot' \in [Hosts -> Nat], localSlot' \in [Processes -> [Hosts -> Nat]],
           \A b \in Books \ {book}, k \in Hosts : ScheduleIn(b, k)' = ScheduleIn(b, k),
           \A p \in Processes : Cardinality({h \in Hosts : localSlot'[p][h] # 0}) <= MaxHosts
    PROVE  BooksOK' /\ ScheduleInv'
<1>1. last \in Histories /\ blocked \in Histories /\ Hosts \in SUBSET Hosts
    BY DEF BooksOK
<1>2. /\ last' \in Histories /\ blocked' \in Histories
      /\ \A b \in Books \ {book}, k \in Hosts :
            last'[b][k] = last[b][k] /\ blocked'[b][k] = blocked[b][k]
      /\ \A k \in Hosts : last'[book][k] = 0 /\ blocked'[book][k] = 0
    BY <1>1, Forgetting DEF Forget
<1>3. BooksOK'
    BY <1>2 DEF BooksOK
<1>4. ASSUME NEW b \in Books, NEW k \in Hosts
      PROVE  /\ last'[b][k] # 0 => ScheduleIn(b, k)' >= last'[b][k] + Interval
             /\ blocked'[b][k] # 0 => ScheduleIn(b, k)' >= blocked'[b][k] + Protected
    <2>1. CASE b = book
        BY <1>2, <2>1
    <2>2. CASE b # book
        <3>1. last'[b][k] = last[b][k] /\ blocked'[b][k] = blocked[b][k]
              /\ ScheduleIn(b, k)' = ScheduleIn(b, k)
            BY <1>2, <2>2
        <3> QED BY <3>1 DEF ScheduleInv
    <2> QED BY <2>1, <2>2
<1> QED BY <1>3, <1>4 DEF ScheduleInv

LEMMA SameTasks ==
    ASSUME TasksOK, UNCHANGED fetch, clearing' \in BOOLEAN
    PROVE  TasksOK' /\ AllLate
BY DEF TasksOK, AllLate, Late, NewSlot

LEMMA ResetLocalKeeps ==
    ASSUME PacingInv, NEW p \in Processes, ResetLocal(p)
    PROVE  PacingInv' /\ AllLate
<1>1. RedisTypeOK /\ TasksOK /\ BooksOK /\ ScheduleInv /\ p \in Books /\ p # Redis
    BY InvParts, BooksApart
<1>2. RedisTypeOK'
    BY <1>1 DEF ResetLocal, RedisTypeOK, redisVars
<1>3. sharedSlot' = sharedSlot /\ Forget(p) /\ UNCHANGED fetch
      /\ localSlot' = [localSlot EXCEPT ![p] = [h \in Hosts |-> 0]]
    BY DEF ResetLocal
<1>4. localSlot' \in [Processes -> [Hosts -> Nat]] /\ localSlot'[p] = [h \in Hosts |-> 0]
      /\ \A q \in Processes \ {p} : localSlot'[q] = localSlot[q]
    BY <1>1, <1>3 DEF BooksOK
<1>5. \A b \in Books \ {p}, k \in Hosts : ScheduleIn(b, k)' = ScheduleIn(b, k)
    BY <1>3, <1>4 DEF ScheduleIn, Books
<1>6. ASSUME NEW q \in Processes
      PROVE  Cardinality({h \in Hosts : localSlot'[q][h] # 0}) <= MaxHosts
    <2>1. CASE q = p
        <3>1. {h \in Hosts : localSlot'[q][h] # 0} = {}
            BY <1>4, <2>1
        <3> QED BY <3>1, FS_EmptySet
    <2>2. CASE q # p
        BY <1>1, <1>4, <2>2 DEF BooksOK
    <2> QED BY <2>1, <2>2
<1>7. BooksOK' /\ ScheduleInv'
    <2>1. sharedSlot' \in [Hosts -> Nat]
        BY <1>1, <1>3 DEF BooksOK
    <2> QED BY <1>1, <1>3, <1>4, <1>5, <1>6, <2>1, Forgotten
<1>8. clearing' \in BOOLEAN
    BY DEF ResetLocal, BreakerOpen
<1> QED BY <1>1, <1>2, <1>3, <1>7, <1>8, SameTasks, InvPartsNext

LEMMA ResetSharedKeeps ==
    ASSUME PacingInv, NEW p \in Processes, ResetShared(p)
    PROVE  PacingInv' /\ AllLate
<1>1. RedisTypeOK /\ TasksOK /\ BooksOK /\ ScheduleInv /\ Redis \in Books /\ now \in Nat
    BY InvParts, BooksApart DEF RedisTypeOK
<1>2. RedisTypeOK'
    BY <1>1, RedisCall DEF ResetShared
<1>3. UNCHANGED <<localSlot, fetch>> /\ clearing' = FALSE
    BY DEF ResetShared
<1>4. CASE sharedSlot' = [h \in Hosts |-> 0] /\ Forget(Redis)
    <2>1. \A b \in Books \ {Redis}, k \in Hosts : ScheduleIn(b, k)' = ScheduleIn(b, k)
        BY <1>3 DEF ScheduleIn
    <2>2. sharedSlot' \in [Hosts -> Nat] /\ localSlot' \in [Processes -> [Hosts -> Nat]]
          /\ \A q \in Processes : Cardinality({h \in Hosts : localSlot'[q][h] # 0}) <= MaxHosts
        BY <1>1, <1>3, <1>4 DEF BooksOK
    <2>3. BooksOK' /\ ScheduleInv'
        BY <1>1, <1>4, <2>1, <2>2, Forgotten
    <2> QED BY <1>1, <1>2, <1>3, <2>3, SameTasks, InvPartsNext
<1>5. CASE UNCHANGED <<sharedSlot, last, blocked>>
    BY <1>1, <1>2, <1>3, <1>5, SameBooks, SameTasks, InvPartsNext
<1> QED BY <1>4, <1>5 DEF ResetShared

\* The clock, the server and its other users.
LEMMA PacingRests ==
    ASSUME PacingInv, RedisTypeOK', UNCHANGED pacingVars
    PROVE  PacingInv' /\ AllLate
<1>1. RedisTypeOK /\ TasksOK /\ BooksOK /\ ScheduleInv
    BY InvParts
<1>2. BooksOK' /\ ScheduleInv'
    BY <1>1, SameBooks DEF pacingVars
<1>3. TasksOK' /\ AllLate
    BY <1>1, SameTasks DEF pacingVars, TasksOK
<1> QED BY <1>2, <1>3, InvPartsNext

----------------------------------------------------------------------------

LEMMA PacingStep ==
    ASSUME PacingInv, [PacingNext]_pVars
    PROVE  PacingInv' /\ AllLate
<1>1. ASSUME NEW f \in Fetchers, NEW h \in Hosts, ClaimLocally(f, h) \/ AskRedis(f, h)
      PROVE  PacingInv' /\ AllLate
    BY <1>1, ClaimLocallyKeeps, QuietStepKeeps
<1>2. ASSUME NEW f \in Fetchers, RedisGrants(f) \/ RedisFails(f) \/ Wake(f) \/ FetchedWell(f)
      PROVE  PacingInv' /\ AllLate
    <2>1. CASE RedisGrants(f) \/ RedisFails(f)
        BY <2>1, RedisGrantsKeeps, RedisFailsKeeps
    <2>2. CASE Wake(f) \/ FetchedWell(f)
        <3>1. fetch[f] \in GrantedSlots /\ fetch[f].host \in Hosts
            BY <2>2, InvParts, TaskKinds DEF Wake, FetchedWell
        <3> QED BY <2>2, <3>1, QuietStepKeeps
    <2> QED BY <1>2, <2>1, <2>2
<1>3. ASSUME NEW f \in Fetchers, Blocked(f) \/ RedisBacksOff(f) \/ BackoffFails(f)
      PROVE  PacingInv' /\ AllLate
    BY <1>3, BlockedKeeps, RedisBacksOffKeeps, BackoffFailsKeeps
<1>4. ASSUME NEW p \in Processes, ResetLocal(p) \/ ResetShared(p)
      PROVE  PacingInv' /\ AllLate
    BY <1>4, ResetLocalKeeps, ResetSharedKeeps
<1>5. CASE RedisStep /\ UNCHANGED pacingVars
    BY <1>5, RedisMoves, InvParts, PacingRests
<1>6. CASE UNCHANGED pVars
    <2>1. RedisTypeOK' /\ UNCHANGED pacingVars
        BY <1>6, InvParts DEF pVars, redisVars, RedisTypeOK
    <2> QED BY <2>1, PacingRests
<1> QED BY <1>1, <1>2, <1>3, <1>4, <1>5, <1>6 DEF PacingNext

LEMMA PacingStart == PacingInit => PacingInv
<1> SUFFICES ASSUME PacingInit PROVE PacingInv
    OBVIOUS
<1>1. RedisTypeOK
    BY DEF PacingInit, RedisInit, RedisTypeOK
<1>2. TasksOK
    BY DEF PacingInit, TasksOK
<1>3. ASSUME NEW p \in Processes
      PROVE  Cardinality({h \in Hosts : localSlot[p][h] # 0}) <= MaxHosts
    <2>1. {h \in Hosts : localSlot[p][h] # 0} = {}
        BY DEF PacingInit
    <2> QED BY <2>1, FS_EmptySet
<1>4. BooksOK
    BY <1>3 DEF PacingInit, BooksOK, Histories
<1>5. ScheduleInv
    BY DEF PacingInit, ScheduleInv
<1> QED BY <1>1, <1>2, <1>4, <1>5, InvParts

LEMMA PacingInvariant == PacingSpec => []PacingInv
<1>1. PacingInv /\ [PacingNext]_pVars => PacingInv'
    BY PacingStep
<1> QED BY <1>1, PacingStart, PTL DEF PacingSpec, pVars

(* Every variable keeps its type, and no cache of a process grows beyond    *)
(* pacing_host_cache_max_entries.                                           *)
THEOREM PacingTypeCorrect == PacingSpec => []PacingTypeOK
BY PacingInvariant, PTL DEF PacingInv

(* For any number of processes, tasks and hosts and any failures of Redis:  *)
(* the slots that one book gives for a host are Interval apart.             *)
THEOREM SpacedSlots == PacingSpec => SlotsAreSpaced
<1>1. PacingInv /\ [PacingNext]_pVars =>
        [\A f \in Fetchers : NewSlot(f) =>
            LET slot == fetch'[f] IN
            last[slot.book][slot.host] # 0 =>
                slot.start >= last[slot.book][slot.host] + Interval]_pVars
    BY PacingStep DEF AllLate, Late
<1> QED BY <1>1, PacingInvariant, PTL DEF PacingSpec, pVars, SlotsAreSpaced

(* Likewise, a book that knows of a block gives no slot of the host before  *)
(* the protected interval is over.                                          *)
THEOREM BlockedHostsRest == PacingSpec => BlockedHostRests
<1>1. PacingInv /\ [PacingNext]_pVars =>
        [\A f \in Fetchers : NewSlot(f) =>
            LET slot == fetch'[f] IN
            blocked[slot.book][slot.host] # 0 =>
                slot.start >= blocked[slot.book][slot.host] + Protected]_pVars
    BY PacingStep DEF AllLate, Late
<1> QED BY <1>1, PacingInvariant, PTL DEF PacingSpec, pVars, BlockedHostRests


----------------------------------------------------------------------------
(* The circuit. *)

cVars == <<redisVars, circuitVars>>

\* The clock runs from 1, and no failure was counted in the future.
ClockInv == now \in Nat \ {0} /\ failedAt \in 0..now

CircuitInv == CircuitTypeOK /\ ClockInv /\ FailuresOpen

USE SharedRedisAssumption, LlmCircuitAssumption
    DEF SharedRedisAssumption, LlmCircuitAssumption

\* The clock may move, and no failure was counted in the future.
LEMMA CircuitRests ==
    ASSUME CircuitInv, RedisTypeOK', now <= now', UNCHANGED circuitVars
    PROVE  CircuitInv'
<1>1. now' \in Nat /\ UNCHANGED failedAt
    BY DEF RedisTypeOK, circuitVars
<1>2. ClockInv'
    BY <1>1 DEF CircuitInv, ClockInv
<1> QED BY <1>2 DEF CircuitInv, CircuitTypeOK, FailuresOpen, circuitVars

\* The script in Redis opens the circuit, or finds it open, at the threshold.
LEMMA FailureIsCounted ==
    ASSUME CircuitInv, CountFailure, now' = now
    PROVE  /\ sharedFails' \in 0..MaxFailures /\ openUntil' \in Nat /\ overtaken' \in BOOLEAN
           /\ openUntil' # 0 => openUntil' <= failedAt' + RestTime
           /\ failedAt' \in 0..now
           /\ (sharedFails' >= Threshold /\ ~overtaken') => failedAt' < openUntil'
<1>1. /\ now \in Nat /\ failedAt \in Nat /\ failedAt <= now /\ openUntil \in Nat
      /\ sharedFails \in 0..MaxFailures /\ overtaken \in BOOLEAN
      /\ openUntil # 0 => openUntil <= failedAt + RestTime
    BY DEF CircuitInv, CircuitTypeOK, ClockInv
<1>2. failedAt' = now /\ sharedFails' = sharedFails + 1 /\ sharedFails < MaxFailures
    BY DEF CountFailure
<1>3. CASE sharedFails + 1 >= Threshold /\ now >= openUntil
    <2>1. openUntil' = now + RestTime /\ overtaken' = FALSE
        BY <1>3 DEF CountFailure
    <2>2. openUntil' \in Nat /\ failedAt' < openUntil' /\ openUntil' <= failedAt' + RestTime
        BY <1>1, <1>2, <2>1
    <2>3. sharedFails' \in 0..MaxFailures /\ failedAt' \in 0..now
        BY <1>1, <1>2
    <2> QED BY <2>1, <2>2, <2>3
<1>4. CASE ~(sharedFails + 1 >= Threshold /\ now >= openUntil)
    <2>1. openUntil' = openUntil /\ overtaken' = overtaken
        BY <1>4 DEF CountFailure
    <2>2. openUntil' # 0 => openUntil' <= failedAt' + RestTime
        BY <1>1, <1>2, <2>1
    <2>3. sharedFails' \in 0..MaxFailures /\ failedAt' \in 0..now
        BY <1>1, <1>2
    <2>4. sharedFails' >= Threshold => failedAt' < openUntil'
        BY <1>1, <1>2, <1>4, <2>1
    <2> QED BY <1>1, <2>1, <2>2, <2>3, <2>4
<1> QED BY <1>3, <1>4

LEMMA CheckKeeps ==
    ASSUME CircuitInv, NEW c \in LlmCalls,
           CheckCircuit(c) \/ CheckAnswered(c) \/ CheckFails(c)
    PROVE  CircuitInv'
<1>1. RunsIn[c] \in Processes
    OBVIOUS
<1>2. /\ UNCHANGED <<failures, openedAt, sharedFails, openUntil, failedAt, overtaken>>
      /\ RedisTypeOK' /\ now' = now
    BY <1>1, RedisCall DEF CircuitInv, CircuitTypeOK, CheckCircuit, CheckAnswered, CheckFails,
                           Verdict
<1>3. llmCall' \in [LlmCalls -> CallPhases] /\ localOpen' \in [LlmCalls -> BOOLEAN]
    BY DEF CircuitInv, CircuitTypeOK, CheckCircuit, CheckAnswered, CheckFails, Verdict,
           CallGoes, CallPhases, LocallyOpen
<1> QED BY <1>2, <1>3 DEF CircuitInv, CircuitTypeOK, ClockInv, FailuresOpen

LEMMA SuccessKeeps ==
    ASSUME CircuitInv, NEW c \in LlmCalls,
           Succeeds(c) \/ ResetFailures(c) \/ DeleteOpenKey(c) \/ RecordFails(c)
    PROVE  CircuitInv'
<1>1. RunsIn[c] \in Processes
    OBVIOUS
<1>2. UNCHANGED <<localOpen, failedAt>> /\ RedisTypeOK' /\ now' = now
    BY <1>1, RedisCall DEF CircuitInv, CircuitTypeOK, Succeeds, ResetFailures, DeleteOpenKey,
                           RecordFails
<1>3. llmCall' \in [LlmCalls -> CallPhases]
    BY DEF CircuitInv, CircuitTypeOK, Succeeds, ResetFailures, DeleteOpenKey, RecordFails,
           CallGoes, CallPhases
<1>4. /\ failures' \in [Processes -> 0..MaxFailures] /\ openedAt' \in [Processes -> Nat]
      /\ \A p \in Processes : failures'[p] >= Threshold => openedAt'[p] # 0
    <2>1. CASE Succeeds(c)
        BY <1>1, <2>1 DEF CircuitInv, CircuitTypeOK, FailuresOpen, Succeeds
    <2>2. CASE ResetFailures(c) \/ DeleteOpenKey(c) \/ RecordFails(c)
        BY <2>2 DEF CircuitInv, CircuitTypeOK, FailuresOpen, ResetFailures, DeleteOpenKey,
                    RecordFails
    <2> QED BY <2>1, <2>2
<1>5. /\ sharedFails' \in 0..MaxFailures /\ openUntil' \in Nat /\ overtaken' \in BOOLEAN
      /\ openUntil' # 0 => openUntil' <= failedAt + RestTime
      /\ (sharedFails' >= Threshold /\ ~overtaken') => failedAt < openUntil'
    <2>1. CASE Succeeds(c) \/ RecordFails(c)
        BY <2>1 DEF CircuitInv, CircuitTypeOK, FailuresOpen, Succeeds, RecordFails
    <2>2. CASE ResetFailures(c)
        <3>1. sharedFails' = 0 /\ overtaken' = FALSE /\ openUntil' = openUntil
            BY <2>2 DEF ResetFailures
        <3>2. 0 \in 0..MaxFailures /\ ~(0 >= Threshold)
            OBVIOUS
        <3> QED BY <3>1, <3>2 DEF CircuitInv, CircuitTypeOK
    <2>3. CASE DeleteOpenKey(c)
        BY <2>3 DEF CircuitInv, CircuitTypeOK, DeleteOpenKey
    <2> QED BY <2>1, <2>2, <2>3
<1> QED BY <1>2, <1>3, <1>4, <1>5 DEF CircuitInv, CircuitTypeOK, ClockInv, FailuresOpen

LEMMA FailureKeeps ==
    ASSUME CircuitInv, NEW c \in LlmCalls,
           Fails(c) \/ FailureCounted(c) \/ FailureReplyLost(c)
    PROVE  CircuitInv'
<1>1. RunsIn[c] \in Processes
    OBVIOUS
<1>2. UNCHANGED localOpen /\ RedisTypeOK' /\ now' = now
    BY <1>1, RedisCall DEF CircuitInv, CircuitTypeOK, Fails, FailureCounted, FailureReplyLost
<1>3. llmCall' \in [LlmCalls -> CallPhases]
    BY DEF CircuitInv, CircuitTypeOK, Fails, FailureCounted, FailureReplyLost, CallGoes,
           CallPhases
<1>4. CASE Fails(c)
    <2>1. /\ failures' \in [Processes -> 0..MaxFailures] /\ openedAt' \in [Processes -> Nat]
          /\ \A p \in Processes : failures'[p] >= Threshold => openedAt'[p] # 0
        <3>1. failures[RunsIn[c]] \in Nat /\ failures[RunsIn[c]] + 1 \in 0..MaxFailures
            BY <1>1, <1>4 DEF CircuitInv, CircuitTypeOK, Fails
        <3>2. failures' = [failures EXCEPT ![RunsIn[c]] = failures[RunsIn[c]] + 1]
            BY <1>4 DEF Fails
        <3>3. now \in Nat /\ now # 0 /\ openedAt \in [Processes -> Nat]
              /\ failures \in [Processes -> 0..MaxFailures]
            BY DEF CircuitInv, CircuitTypeOK, ClockInv
        <3>4. openedAt' = [openedAt EXCEPT ![RunsIn[c]] =
                  IF openedAt[RunsIn[c]] = 0 /\ failures[RunsIn[c]] + 1 >= Threshold
                  THEN now ELSE openedAt[RunsIn[c]]]
            BY <1>4 DEF Fails
        <3>5. failures' \in [Processes -> 0..MaxFailures] /\ openedAt' \in [Processes -> Nat]
            BY <1>1, <3>1, <3>2, <3>3, <3>4
        <3>6. ASSUME NEW p \in Processes, failures'[p] >= Threshold PROVE openedAt'[p] # 0
            BY <1>1, <3>1, <3>2, <3>3, <3>4, <3>6 DEF CircuitInv, FailuresOpen
        <3> QED BY <3>5, <3>6
    <2> QED BY <1>2, <1>3, <1>4, <2>1
            DEF CircuitInv, CircuitTypeOK, ClockInv, FailuresOpen, Fails
<1>5. CASE FailureCounted(c) \/ FailureReplyLost(c)
    <2>1. CountFailure /\ UNCHANGED <<failures, openedAt>>
        BY <1>5 DEF FailureCounted, FailureReplyLost
    <2> QED BY <1>2, <1>3, <2>1, FailureIsCounted
            DEF CircuitInv, CircuitTypeOK, ClockInv, FailuresOpen
<1> QED BY <1>4, <1>5

LEMMA CircuitStart == CircuitInit => CircuitInv
<1> SUFFICES ASSUME CircuitInit PROVE CircuitInv
    OBVIOUS
<1>1. 0 \in 0..MaxFailures /\ ~(0 >= Threshold) /\ 0 \in 0..MaxDisturbances
    OBVIOUS
<1>2. RedisTypeOK
    BY <1>1 DEF CircuitInit, RedisInit, RedisTypeOK
<1>3. CircuitTypeOK
    BY <1>1, <1>2 DEF CircuitInit, CircuitTypeOK, CallPhases
<1>4. ClockInv /\ FailuresOpen
    BY <1>1 DEF CircuitInit, RedisInit, ClockInv, FailuresOpen
<1> QED BY <1>3, <1>4 DEF CircuitInv

LEMMA CircuitStep ==
    ASSUME CircuitInv, [CircuitNext]_cVars
    PROVE  CircuitInv'
<1>1. ASSUME NEW c \in LlmCalls, CheckCircuit(c) \/ CheckAnswered(c) \/ CheckFails(c)
      PROVE  CircuitInv'
    BY <1>1, CheckKeeps
<1>2. ASSUME NEW c \in LlmCalls,
             Succeeds(c) \/ ResetFailures(c) \/ DeleteOpenKey(c) \/ RecordFails(c)
      PROVE  CircuitInv'
    BY <1>2, SuccessKeeps
<1>3. ASSUME NEW c \in LlmCalls, Fails(c) \/ FailureCounted(c) \/ FailureReplyLost(c)
      PROVE  CircuitInv'
    BY <1>3, FailureKeeps
<1>4. CASE RedisStep /\ UNCHANGED circuitVars
    BY <1>4, RedisMoves, CircuitRests DEF CircuitInv, CircuitTypeOK
<1>5. CASE UNCHANGED cVars
    BY <1>5 DEF CircuitInv, CircuitTypeOK, RedisTypeOK, ClockInv, FailuresOpen, cVars,
                redisVars, circuitVars
<1> QED BY <1>1, <1>2, <1>3, <1>4, <1>5 DEF CircuitNext

LEMMA CircuitInvariant == CircuitSpec => []CircuitInv
<1>1. CircuitInv /\ [CircuitNext]_cVars => CircuitInv'
    BY CircuitStep
<1> QED BY <1>1, CircuitStart, PTL DEF CircuitSpec, cVars

(* Every variable keeps its type, and a key in Redis never outlives the     *)
(* cooldown that began with the failure counted last.                       *)
THEOREM CircuitTypeCorrect == CircuitSpec => []CircuitTypeOK
BY CircuitInvariant, PTL DEF CircuitInv

(* Threshold failures in a row hold the shared circuit open for the rest    *)
(* of its cooldown, and have opened the process's own circuit, whatever     *)
(* calls, probes and failing commands come in between.                      *)
THEOREM FailuresOpenCircuit == CircuitSpec => []FailuresOpen
BY CircuitInvariant, PTL DEF CircuitInv

=============================================================================
