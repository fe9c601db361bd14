----------------------- MODULE RunEventStreamProofs -----------------------
(* The numbering of RunEventStream and what its page shows, for every set   *)
(* of sessions and every size of a snapshot and of the page.                *)
EXTENDS RunEventStream, FiniteSetTheorems, SequenceTheorems, TLAPS

\* An open transaction holds the numbers that follow the committed ones, and only
\* one session has any.
NumberingInv ==
    /\ sequence \in Nat
    /\ events = 1 .. sequence
    /\ pending \in [Writers -> SUBSET Nat]
    /\ \A w \in Writers : \E n \in Nat : pending[w] = (sequence + 1) .. (sequence + n)
    /\ \A v, w \in Writers : pending[v] # {} /\ pending[w] # {} => v = w

\* The numbers a transaction holds are counted by its events.
LEMMA Block ==
    ASSUME NEW s \in Nat, NEW n \in Nat
    PROVE  Cardinality((s + 1) .. (s + n)) = n
<1>1. s + 1 \in Int /\ s + n \in Int
    OBVIOUS
<1>2. Cardinality((s + 1) .. (s + n))
          = IF s + 1 > s + n THEN 0 ELSE (s + n) - (s + 1) + 1
    BY <1>1, FS_Interval
<1> QED BY <1>2

\* Where a session may record, the open numbers are its own.
LEMMA OwnNumbers ==
    ASSUME NumberingInv, NEW w \in Writers, MayRecord(w)
    PROVE  Uncommitted = pending[w]
BY DEF MayRecord, Uncommitted

LEMMA RecordNumbers ==
    ASSUME NumberingInv, NEW w \in Writers, Record(w)
    PROVE  NumberingInv'
<1>1. PICK n \in Nat : pending[w] = (sequence + 1) .. (sequence + n)
    BY DEF NumberingInv
<1>2. Cardinality(Uncommitted) = n /\ sequence \in Nat
    BY <1>1, Block, OwnNumbers DEF Record, NumberingInv
<1>3. pending' = [pending EXCEPT ![w] = pending[w] \cup {sequence + n + 1}]
    BY <1>2 DEF Record
<1>4. pending'[w] = (sequence + 1) .. (sequence + (n + 1)) /\ pending' \in [Writers -> SUBSET Nat]
    BY <1>1, <1>2, <1>3 DEF NumberingInv
<1>5. \A v \in Writers \ {w} : pending'[v] = {} /\ pending[v] = {}
    BY <1>3 DEF Record, MayRecord, NumberingInv
<1>6. \A v \in Writers : \E m \in Nat : pending'[v] = (sequence + 1) .. (sequence + m)
    <2>1. n + 1 \in Nat
        OBVIOUS
    <2>2. ASSUME NEW v \in Writers \ {w}
          PROVE  \E m \in Nat : pending'[v] = (sequence + 1) .. (sequence + m)
        BY <1>3 DEF NumberingInv
    <2> QED BY <1>4, <2>1, <2>2
<1> QED BY <1>4, <1>5, <1>6 DEF Record, NumberingInv

LEMMA CommitNumbers ==
    ASSUME NumberingInv, NEW w \in Writers, Commit(w)
    PROVE  NumberingInv'
<1>1. PICK n \in Nat : pending[w] = (sequence + 1) .. (sequence + n)
    BY DEF NumberingInv
<1>2. Cardinality(pending[w]) = n /\ sequence \in Nat
    BY <1>1, Block DEF NumberingInv
<1>3. sequence' = sequence + n /\ events' = 1 .. sequence'
    BY <1>1, <1>2 DEF Commit, NumberingInv
<1>4. pending' \in [Writers -> SUBSET Nat] /\ \A v \in Writers : pending'[v] = {}
    BY DEF Commit, MayRecord, NumberingInv
<1>5. {} = (sequence' + 1) .. (sequence' + 0) /\ sequence' \in Nat
    BY <1>2, <1>3
<1> QED BY <1>3, <1>4, <1>5 DEF NumberingInv

LEMMA RollbackNumbers ==
    ASSUME NumberingInv, NEW w \in Writers, Rollback(w)
    PROVE  NumberingInv'
<1>1. pending' \in [Writers -> SUBSET Nat] /\ pending'[w] = {}
      /\ \A v \in Writers \ {w} : pending'[v] = pending[v]
    BY DEF Rollback, NumberingInv
<1>2. {} = (sequence + 1) .. (sequence + 0) /\ sequence' = sequence /\ events' = events
    BY DEF Rollback, NumberingInv
<1> QED BY <1>1, <1>2 DEF NumberingInv

LEMMA Numbering == Spec => []NumberingInv
<1>1. Init => NumberingInv
    <2> SUFFICES ASSUME Init PROVE NumberingInv
        OBVIOUS
    <2>1. {} = 1 .. 0 /\ {} = (0 + 1) .. (0 + 0)
        OBVIOUS
    <2> QED BY <2>1 DEF Init, NumberingInv
<1>2. NumberingInv /\ [Next]_vars => NumberingInv'
    <2> SUFFICES ASSUME NumberingInv, [Next]_vars PROVE NumberingInv'
        OBVIOUS
    <2>1. CASE \E w \in Writers : Record(w) \/ Commit(w) \/ Rollback(w)
        BY <2>1, RecordNumbers, CommitNumbers, RollbackNumbers
    <2>2. CASE UNCHANGED <<sequence, events, pending>>
        BY <2>2 DEF NumberingInv
    <2>3. Handler \/ Screen \/ Connect \/ Break => UNCHANGED <<sequence, events, pending>>
        BY DEF Handler, Screen, ReadEvents, SendRows, Fetch, Receive, ReceiveClose, RunEnds,
               Sync, Connect, Break
    <2> QED BY <2>1, <2>2, <2>3 DEF Next, vars
<1> QED BY <1>1, <1>2, PTL DEF Spec

\* The committed events are numbered without a gap, whatever sessions record, commit
\* and roll back at the same time.
THEOREM NumbersAreComplete == Spec => []SequenceIsComplete
<1>1. NumberingInv => SequenceIsComplete
    BY DEF NumberingInv, SequenceIsComplete
<1> QED BY <1>1, Numbering, PTL

-----------------------------------------------------------------------------
(* The queries and the trims on intervals of sequence numbers. *)

\* What a query or a trim selects is part of what it selects from.
LEMMA Counted ==
    ASSUME NEW a \in Int, NEW b \in Int
    PROVE  /\ IsFiniteSet(a .. b) /\ Cardinality(a .. b) \in Nat
           /\ a <= b => Cardinality(a .. b) = b - a + 1
           /\ a > b => a .. b = {} /\ Cardinality(a .. b) = 0
<1>1. IsFiniteSet(a .. b) /\ Cardinality(a .. b) = IF a > b THEN 0 ELSE b - a + 1
    BY FS_Interval
<1> QED BY <1>1

\* The oldest rows after a cursor, where all numbers are taken.
LEMMA OldestAfter ==
    ASSUME NEW s \in Nat, NEW c \in Nat, c <= s, NEW n \in Nat \ {0}
    PROVE  \E r \in Nat : /\ Oldest(n, {e \in 1 .. s : e > c}) = (c + 1) .. (c + r)
                          /\ r <= n /\ c + r <= s /\ (r = n \/ c + r = s)
<1> DEFINE r == IF c + n <= s THEN n ELSE s - c
<1>1. r \in Nat /\ r <= n /\ c + r <= s /\ (r = n \/ c + r = s)
    OBVIOUS
<1>2. {e \in 1 .. s : e > c} = (c + 1) .. s
    OBVIOUS
<1>3. ASSUME NEW e \in (c + 1) .. s
      PROVE  Cardinality({f \in (c + 1) .. s : f < e}) = e - c - 1
    <2>1. {f \in (c + 1) .. s : f < e} = (c + 1) .. (e - 1)
        OBVIOUS
    <2>2. /\ c + 1 <= e - 1 => Cardinality((c + 1) .. (e - 1)) = (e - 1) - (c + 1) + 1
          /\ c + 1 > e - 1 => Cardinality((c + 1) .. (e - 1)) = 0
        BY Counted
    <2>3. Cardinality({f \in (c + 1) .. s : f < e}) = Cardinality((c + 1) .. (e - 1))
        BY <2>1, Zenon
    <2> QED BY <2>2, <2>3
<1>4. Oldest(n, (c + 1) .. s) = {e \in (c + 1) .. s : e - c - 1 < n}
    BY <1>3 DEF Oldest
<1>5. {e \in (c + 1) .. s : e - c - 1 < n} = (c + 1) .. (c + r)
    OBVIOUS
<1> QED BY <1>1, <1>2, <1>4, <1>5

\* The newest of an interval.
LEMMA NewestOf ==
    ASSUME NEW a \in Nat, NEW b \in Nat, NEW n \in Nat \ {0}
    PROVE  Newest(n, a .. b) = (IF b - n + 1 > a THEN b - n + 1 ELSE a) .. b
<1>1. ASSUME NEW e \in a .. b
      PROVE  Cardinality({f \in a .. b : f > e}) = b - e
    <2>1. {f \in a .. b : f > e} = (e + 1) .. b
        OBVIOUS
    <2>2. /\ e + 1 <= b => Cardinality((e + 1) .. b) = b - (e + 1) + 1
          /\ e + 1 > b => Cardinality((e + 1) .. b) = 0
        BY Counted
    <2>3. Cardinality({f \in a .. b : f > e}) = Cardinality((e + 1) .. b)
        BY <2>1, Zenon
    <2> QED BY <2>2, <2>3
<1>2. Newest(n, a .. b) = {e \in a .. b : b - e < n}
    BY <1>1 DEF Newest
<1>3. CASE b - n + 1 > a
    <2>1. {e \in a .. b : b - e < n} = (b - n + 1) .. b
        BY <1>3
    <2> QED BY <1>2, <1>3, <2>1
<1>4. CASE ~(b - n + 1 > a)
    <2>1. {e \in a .. b : b - e < n} = a .. b
        BY <1>4
    <2> QED BY <1>2, <1>4, <2>1
<1> QED BY <1>3, <1>4

LEMMA HighestOf ==
    ASSUME NEW a \in Nat, NEW b \in Nat, a <= b
    PROVE  Highest(a .. b) = b
<1>1. b \in (a .. b) \cup {0} /\ \A y \in (a .. b) \cup {0} : b >= y
    OBVIOUS
<1>2. \A x \in (a .. b) \cup {0} : (\A y \in (a .. b) \cup {0} : x >= y) => x = b
    BY <1>1
<1> QED BY <1>1, <1>2 DEF Highest, Max

\* Rows read in order go on the wire as consecutive numbers.
LEMMA InOrderOf ==
    ASSUME NEW c \in Nat, NEW r \in Nat
    PROVE  InOrder((c + 1) .. (c + r)) = [k \in 1 .. r |-> c + k]
<1> DEFINE S == (c + 1) .. (c + r)
<1>1. Cardinality(S) = r
    BY Block
<1>2. ASSUME NEW k \in 1 .. r
      PROVE  (CHOOSE e \in S : Cardinality({f \in S : f <= e}) = k) = c + k
    <2>1. ASSUME NEW e \in S PROVE Cardinality({f \in S : f <= e}) = e - c
        <3>1. {f \in S : f <= e} = (c + 1) .. e
            OBVIOUS
        <3>2. Cardinality((c + 1) .. e) = e - (c + 1) + 1
            BY Counted
        <3>3. Cardinality({f \in S : f <= e}) = Cardinality((c + 1) .. e)
            BY <3>1, Zenon
        <3> QED BY <3>2, <3>3
    <2>2. c + k \in S
        OBVIOUS
    <2> HIDE DEF S
    <2>3. S \subseteq Int
        BY DEF S
    <2>4. \A e \in S : Cardinality({f \in S : f <= e}) = k <=> e = c + k
        BY <2>1, <2>3
    <2> QED BY <2>2, <2>4
<1> QED BY <1>1, <1>2 DEF InOrder

-----------------------------------------------------------------------------
(* What the page has. *)

\* The REST answer is a prefix of the run's events ...
Fetched(q) == page.query = 1 .. q /\ q <= MaxLive /\ q <= sequence

\* ... and the socket's events a window that ends at the cursor: it continues the
\* answer, or the trim has left MaxLive of it.
Window(q, lo) ==
    /\ page.socket = lo .. page.cursor
    /\ lo <= page.cursor /\ page.cursor <= sequence
    /\ lo <= q + 1 \/ page.cursor = lo + MaxLive - 1

PageInv ==
    \E q \in Nat :
        /\ Fetched(q)
        /\ \/ page.socket = {} /\ page.cursor = q
           \/ \E lo \in Nat \ {0} : Window(q, lo)

\* What is under way continues the page's cursor without a gap, and the handler's
\* next rows continue what is under way.
InFlight ==
    \A i \in 1 .. Len(wire) :
        \/ wire[i] = page.cursor + i /\ wire[i] <= sequence
        \/ wire[i] = Closing /\ i = Len(wire) /\ stream.pc = "off"
ReadRows ==
    \E r \in Nat : /\ stream.rows = (stream.cursor + 1) .. (stream.cursor + r)
                   /\ r <= PageLimit /\ stream.cursor + r <= sequence
WireInv ==
    /\ page.connected => page.live
    /\ ~page.connected => stream.pc = "off" /\ wire = <<>>
    /\ InFlight
    /\ stream.pc # "send" => stream.rows = {}
    /\ stream.pc # "off" => stream.cursor = page.cursor + Len(wire) /\ stream.cursor <= sequence
    /\ stream.pc = "send" => ReadRows

Shapes ==
    /\ sequence \in 0 .. MaxEvents
    /\ pending \in [Writers -> SUBSET Seqs]
    /\ finalSeq \in 0 .. NotYet
    /\ stream \in Stream /\ wire \in Seq(Nat) /\ page \in Page
    /\ breaks \in 0 .. MaxBreaks

StreamInv == NumberingInv /\ Shapes /\ PageInv /\ WireInv

LEMMA StreamInit == Init => StreamInv
<1> SUFFICES ASSUME Init PROVE StreamInv
    OBVIOUS
<1> USE SizeAssumption
<1>1. NumberingInv
    <2>1. {} = 1 .. 0 /\ {} = (0 + 1) .. (0 + 0)
        OBVIOUS
    <2> QED BY <2>1 DEF Init, NumberingInv
<1>2. Shapes
    BY DEF Init, Shapes, NotYet, Seqs, Stream, NoStream, Page
<1>3. PageInv
    <2>1. {} = 1 .. 0
        OBVIOUS
    <2> QED BY <2>1 DEF Init, PageInv, Fetched
<1>4. WireInv
    BY DEF Init, WireInv, InFlight, NoStream
<1> QED BY <1>1, <1>2, <1>3, <1>4 DEF StreamInv

\* A write of the run leaves the page alone, and only adds events.
LEMMA WriterStep ==
    ASSUME StreamInv, NEW w \in Writers, Record(w) \/ Commit(w) \/ Rollback(w)
    PROVE  StreamInv'
<1> USE SizeAssumption
<1>1. NumberingInv'
    BY RecordNumbers, CommitNumbers, RollbackNumbers DEF StreamInv
<1>2. PICK n \in Nat : pending[w] = (sequence + 1) .. (sequence + n)
    BY DEF StreamInv, NumberingInv
<1>3. Cardinality(pending[w]) = n /\ sequence \in Nat /\ sequence <= MaxEvents
    BY <1>2, Block DEF StreamInv, NumberingInv, Shapes
<1>4. UNCHANGED <<stream, wire, page, breaks>>
    BY DEF Record, Commit, Rollback
<1>5. /\ sequence' \in 0 .. MaxEvents /\ sequence <= sequence'
      /\ pending' \in [Writers -> SUBSET Seqs] /\ finalSeq' \in 0 .. NotYet
    <2>1. CASE Record(w)
        <3>1. Uncommitted = pending[w]
            BY <2>1, OwnNumbers DEF Record, StreamInv
        <3>2. sequence + n + 1 \in Seqs
            BY <1>3, <2>1, <3>1 DEF Record, Seqs
        <3>3. pending' = [pending EXCEPT ![w] = pending[w] \cup {sequence + n + 1}]
            BY <1>3, <2>1, <3>1 DEF Record
        <3> QED BY <2>1, <3>2, <3>3 DEF Record, StreamInv, Shapes
    <2>2. CASE Commit(w)
        <3>1. pending[w] \subseteq Seqs
            BY DEF StreamInv, Shapes
        <3>2. sequence + n <= MaxEvents
            BY <1>2, <1>3, <3>1 DEF Seqs
        <3>3. sequence' = sequence + n /\ (finalSeq' = finalSeq \/ finalSeq' = sequence')
              /\ pending' = [pending EXCEPT ![w] = {}]
            BY <1>3, <2>2 DEF Commit
        <3> QED BY <1>3, <3>2, <3>3 DEF StreamInv, Shapes, NotYet
    <2>3. CASE Rollback(w)
        BY <2>3 DEF Rollback, StreamInv, Shapes
    <2> QED BY <2>1, <2>2, <2>3
<1>6. Shapes'
    BY <1>4, <1>5 DEF StreamInv, Shapes, NotYet
<1>7. PageInv'
    <2>1. sequence \in Nat /\ sequence' \in Nat /\ sequence <= sequence' /\ page' = page /\ page.cursor \in Nat
        BY <1>3, <1>4, <1>5 DEF StreamInv, Shapes, Page
    <2> QED BY <2>1 DEF StreamInv, PageInv, Fetched, Window
<1>8. WireInv'
    <2>1. sequence \in Nat /\ sequence' \in Nat /\ sequence <= sequence'
          /\ page' = page /\ stream' = stream /\ wire' = wire
          /\ page.cursor \in Nat /\ stream.cursor \in Nat /\ wire \in Seq(Nat)
        BY <1>3, <1>4, <1>5 DEF StreamInv, Shapes, Page, Stream
    <2>2. InFlight'
        <3>1. Len(wire) \in Nat /\ \A i \in 1 .. Len(wire) : wire[i] \in Nat
            BY <2>1
        <3> QED BY <2>1, <3>1 DEF StreamInv, WireInv, InFlight
    <2>3. ReadRows => ReadRows'
        BY <2>1 DEF ReadRows
    <2> QED BY <2>1, <2>2, <2>3 DEF StreamInv, WireInv
<1> QED BY <1>1, <1>6, <1>7, <1>8 DEF StreamInv

\* The facts about the records that every step of the stream uses.
LEMMA StreamTypes ==
    ASSUME StreamInv
    PROVE  /\ sequence \in Nat /\ sequence <= MaxEvents /\ MaxEvents \in Nat
           /\ PageLimit \in Nat \ {0} /\ MaxLive \in Nat \ {0}
           /\ page \in Page /\ page.cursor \in 0 .. MaxEvents
           /\ stream \in Stream /\ stream.cursor \in 0 .. MaxEvents
           /\ wire \in Seq(Nat) /\ Len(wire) \in Nat
BY SizeAssumption DEF StreamInv, Shapes, Page, Stream

LEMMA SameNumbers ==
    ASSUME StreamInv, UNCHANGED <<sequence, events, pending, finalSeq>>
    PROVE  /\ NumberingInv'
           /\ sequence' \in 0 .. MaxEvents /\ pending' \in [Writers -> SUBSET Seqs]
           /\ finalSeq' \in 0 .. NotYet
BY DEF StreamInv, NumberingInv, Shapes, NotYet

LEMMA ReadEventsStep ==
    ASSUME StreamInv, ReadEvents
    PROVE  StreamInv'
<1> USE StreamTypes
<1> DEFINE c == stream.cursor
<1>1. PICK r \in Nat : /\ Oldest(PageLimit, {e \in 1 .. sequence : e > c}) = (c + 1) .. (c + r)
                       /\ r <= PageLimit /\ c + r <= sequence
    <2>1. c \in Nat /\ c <= sequence
        BY DEF ReadEvents, StreamInv, WireInv
    <2> QED BY <2>1, OldestAfter
<1>2. stream' = [stream EXCEPT !.pc = "send", !.rows = (c + 1) .. (c + r)]
    BY <1>1 DEF ReadEvents, ListAfter, StreamInv, NumberingInv
<1>3. stream' \in Stream /\ stream'.pc = "send" /\ stream'.cursor = c
      /\ stream'.rows = (c + 1) .. (c + r)
    <2>1. (c + 1) .. (c + r) \subseteq Seqs
        BY <1>1 DEF Seqs
    <2> QED BY <1>2, <2>1 DEF Stream
<1>4. UNCHANGED <<sequence, events, pending, finalSeq, wire, page, breaks>> /\ stream.pc = "read"
    BY DEF ReadEvents
<1>5. Shapes'
    BY <1>3, <1>4, SameNumbers DEF StreamInv, Shapes
<1>6. PageInv'
    BY <1>4 DEF StreamInv, PageInv, Fetched, Window
<1>7. WireInv'
    <2>1. ReadRows'
        BY <1>1, <1>3, <1>4 DEF ReadRows
    <2>2. InFlight'
        BY <1>4 DEF StreamInv, WireInv, InFlight
    <2> QED BY <1>3, <1>4, <2>1, <2>2 DEF StreamInv, WireInv
<1> QED BY <1>4, <1>5, <1>6, <1>7, SameNumbers DEF StreamInv

LEMMA SendRowsStep ==
    ASSUME StreamInv, SendRows
    PROVE  StreamInv'
<1> USE StreamTypes
<1> DEFINE c == stream.cursor
<1>1. stream.pc = "send" /\ page.connected /\ page.live /\ c = page.cursor + Len(wire) /\ c \in Nat
      /\ UNCHANGED <<sequence, events, pending, finalSeq, page, breaks>>
    BY DEF SendRows, StreamInv, WireInv
<1>2. PICK r \in Nat : stream.rows = (c + 1) .. (c + r) /\ c + r <= sequence
    BY <1>1 DEF StreamInv, WireInv, ReadRows
<1>3. \A i \in 1 .. Len(wire) : wire[i] = page.cursor + i /\ wire[i] <= sequence
    BY <1>1 DEF StreamInv, WireInv, InFlight
<1>4. PageInv'
    BY <1>1 DEF StreamInv, PageInv, Fetched, Window
<1>5. CASE Terminal /\ stream.rows = {}
    <2>1. wire' = Append(wire, Closing) /\ stream' = NoStream
        BY <1>5 DEF SendRows
    <2>2. wire' \in Seq(Nat) /\ Len(wire') = Len(wire) + 1
          /\ wire'[Len(wire) + 1] = Closing /\ \A i \in 1 .. Len(wire) : wire'[i] = wire[i]
        BY <2>1 DEF Closing
    <2>3. stream' \in Stream /\ stream'.pc = "off" /\ stream'.rows = {}
        BY <2>1 DEF NoStream, Stream
    <2>4. InFlight'
        <3>1. ASSUME NEW i \in 1 .. Len(wire)
              PROVE  wire'[i] = page'.cursor + i /\ wire'[i] <= sequence'
            BY <1>1, <1>3, <2>2
        <3>2. \A i \in 1 .. Len(wire') : i \in 1 .. Len(wire) \/ i = Len(wire')
            BY <2>2
        <3>3. wire'[Len(wire')] = Closing
            BY <2>2
        <3> QED BY <2>3, <3>1, <3>2, <3>3 DEF InFlight
    <2>5. WireInv'
        BY <1>1, <2>3, <2>4 DEF WireInv
    <2>6. Shapes'
        BY <1>1, <2>2, <2>3, SameNumbers DEF StreamInv, Shapes
    <2> QED BY <1>1, <1>4, <2>5, <2>6, SameNumbers DEF StreamInv
<1>6. CASE ~(Terminal /\ stream.rows = {})
    <2>1. wire' = wire \o [k \in 1 .. r |-> c + k]
        BY <1>1, <1>2, <1>6, InOrderOf DEF SendRows
    <2>2. wire' \in Seq(Nat) /\ Len(wire') = Len(wire) + r
          /\ \A i \in 1 .. Len(wire') : wire'[i] = IF i <= Len(wire) THEN wire[i] ELSE c + (i - Len(wire))
        <3> DEFINE t == [k \in 1 .. r |-> c + k]
        <3>1. t \in Seq(Nat) /\ Len(t) = r
            BY <1>1
        <3>2. \A k \in 1 .. r : t[k] = c + k
            OBVIOUS
        <3> HIDE DEF t
        <3>3. /\ Len(wire \o t) = Len(wire) + Len(t)
              /\ \A i \in 1 .. Len(wire) + Len(t) :
                    (wire \o t)[i] = IF i <= Len(wire) THEN wire[i] ELSE t[i - Len(wire)]
              /\ wire \o t \in Seq(Nat)
            BY <3>1, ConcatProperties
        <3>4. wire' = wire \o t
            BY <2>1 DEF t
        <3> QED BY <3>1, <3>2, <3>3, <3>4
    <2>3. stream' = [pc |-> "read", rows |-> {}, cursor |-> c + r]
        <3>1. CASE r = 0
            <4>1. stream.rows = {}
                BY <1>1, <1>2, <3>1
            <4> QED BY <1>1, <1>6, <3>1, <4>1 DEF SendRows
        <3>2. CASE r # 0
            <4>1. c + 1 \in Nat /\ c + r \in Nat /\ c + 1 <= c + r
                BY <1>1, <3>2
            <4>2. Highest(stream.rows) = c + r
                BY <1>2, <4>1, HighestOf
            <4>3. stream.rows # {}
                BY <1>2, <4>1
            <4> QED BY <1>6, <4>2, <4>3 DEF SendRows
        <3> QED BY <3>1, <3>2
    <2>4. stream' \in Stream /\ stream'.pc = "read" /\ stream'.rows = {} /\ stream'.cursor = c + r
        BY <1>1, <1>2, <2>3 DEF Stream
    <2>5. InFlight'
        <3>1. ASSUME NEW i \in 1 .. Len(wire')
              PROVE  wire'[i] = page.cursor + i /\ wire'[i] <= sequence
            <4>1. CASE i <= Len(wire)
                <5>1. i \in 1 .. Len(wire)
                    BY <2>2, <4>1
                <5>2. wire'[i] = wire[i]
                    BY <2>2, <4>1
                <5> QED BY <1>3, <5>1, <5>2
            <4>2. CASE ~(i <= Len(wire))
                <5>1. wire'[i] = c + (i - Len(wire))
                    BY <2>2, <4>2
                <5>2. i <= Len(wire) + r
                    BY <2>2
                <5> QED BY <1>1, <1>2, <4>2, <5>1, <5>2 DEF Page
            <4> QED BY <4>1, <4>2
        <3> QED BY <1>1, <3>1 DEF InFlight
    <2>6. WireInv'
        BY <1>1, <1>2, <2>2, <2>4, <2>5 DEF WireInv
    <2>7. Shapes'
        BY <1>1, <2>2, <2>4, SameNumbers DEF StreamInv, Shapes
    <2> QED BY <1>1, <1>4, <2>6, <2>7, SameNumbers DEF StreamInv
<1> QED BY <1>5, <1>6

\* A REST answer, the first, a polled one or the last: a prefix at least as long as
\* the one before, which moves the cursor only while the socket has brought nothing.
LEMMA Answer ==
    ASSUME StreamInv
    PROVE  LET p == WithQuery(page, ListAfter(0, MaxLive))
           IN  /\ p \in Page /\ p.socket = page.socket
               /\ p.live = page.live /\ p.connected = page.connected /\ p.synced = page.synced
               /\ \E q \in Nat :
                     /\ p.query = 1 .. q /\ q <= MaxLive /\ q <= sequence
                     /\ \/ page.socket = {} /\ p.cursor = q
                        \/ p.cursor = page.cursor /\ \E lo \in Nat \ {0} : Window(q, lo)
<1> USE StreamTypes
<1> DEFINE p == WithQuery(page, ListAfter(0, MaxLive))
<1>1. PICK q \in Nat : ListAfter(0, MaxLive) = 1 .. q /\ q <= MaxLive /\ q <= sequence
                   /\ (q = MaxLive \/ q = sequence)
    <2>1. \E r \in Nat : /\ Oldest(MaxLive, {e \in 1 .. sequence : e > 0}) = (0 + 1) .. (0 + r)
                         /\ r <= MaxLive /\ 0 + r <= sequence /\ (r = MaxLive \/ 0 + r = sequence)
        <3>1. 0 \in Nat /\ 0 <= sequence
            OBVIOUS
        <3> QED BY <3>1, OldestAfter
    <2>2. ListAfter(0, MaxLive) = Oldest(MaxLive, {e \in 1 .. sequence : e > 0})
        BY DEF ListAfter, StreamInv, NumberingInv
    <2>3. PICK r \in Nat : /\ ListAfter(0, MaxLive) = (0 + 1) .. (0 + r)
                           /\ r <= MaxLive /\ 0 + r <= sequence /\ (r = MaxLive \/ 0 + r = sequence)
        BY <2>1, <2>2
    <2>4. (0 + 1) .. (0 + r) = 1 .. r /\ 0 + r = r
        OBVIOUS
    <2> QED BY <2>3, <2>4
<1> DEFINE a == [page EXCEPT !.query = 1 .. q, !.fetched = TRUE]
<1>2. a \in Page /\ q \in 0 .. MaxEvents
    <2>1. 1 .. q \subseteq Seqs /\ q \in 0 .. MaxEvents
        BY <1>1 DEF Seqs
    <2> QED BY <2>1 DEF Page
<1>3. p = [a EXCEPT !.cursor = CursorOf(a)]
    BY <1>1 DEF WithQuery
<1>4. CASE page.socket = {}
    <2>1. CursorOf(a) = Highest(Newest(MaxLive, 1 .. q))
        BY <1>2, <1>4 DEF CursorOf, Shown, Page
    <2>2. Newest(MaxLive, 1 .. q) = 1 .. q
        BY <1>1, NewestOf
    <2>3. Highest(1 .. q) = q
        <3>1. CASE q = 0
            <4>1. (1 .. q) \cup {0} = {0}
                BY <3>1
            <4> QED BY <3>1, <4>1 DEF Highest, Max
        <3>2. CASE q # 0
            BY <3>2, HighestOf
        <3> QED BY <3>1, <3>2
    <2>4. CursorOf(a) = q
        BY <2>1, <2>2, <2>3
    <2>5. p = [a EXCEPT !.cursor = q]
        BY <1>3, <2>4
    <2>6. p \in Page /\ p.cursor = q /\ p.query = 1 .. q /\ p.socket = page.socket
          /\ p.live = page.live /\ p.connected = page.connected /\ p.synced = page.synced
        BY <1>2, <2>5 DEF Page
    <2> QED BY <1>1, <1>4, <2>6
<1>5. CASE page.socket # {}
    <2>1. CursorOf(a) = page.cursor
        BY <1>2, <1>5 DEF CursorOf, Page
    <2>2. PICK k \in Nat, lo \in Nat \ {0} : Fetched(k) /\ Window(k, lo)
        BY <1>5 DEF StreamInv, PageInv
    <2>3. k <= q
        BY <1>1, <2>2 DEF Fetched
    <2>4. Window(q, lo)
        BY <2>2, <2>3 DEF Window
    <2>5. p = [a EXCEPT !.cursor = page.cursor]
        BY <1>3, <2>1
    <2>6. p \in Page /\ p.cursor = page.cursor /\ p.query = 1 .. q /\ p.socket = page.socket
          /\ p.live = page.live /\ p.connected = page.connected /\ p.synced = page.synced
        BY <1>2, <2>5 DEF Page
    <2> QED BY <1>1, <2>4, <2>6
<1> QED BY <1>4, <1>5

LEMMA AnswerStep ==
    ASSUME StreamInv, Fetch \/ Sync
    PROVE  StreamInv'
<1> USE StreamTypes
<1> DEFINE p == WithQuery(page, ListAfter(0, MaxLive))
<1>1. ~page.connected /\ UNCHANGED <<sequence, events, pending, finalSeq, stream, wire, breaks>>
    BY DEF Fetch, Sync, StreamInv, WireInv
<1>2. page' = p \/ page' = [p EXCEPT !.synced = TRUE]
    BY DEF Fetch, Sync, Synced
<1>3. /\ p \in Page /\ p.socket = page.socket
      /\ p.live = page.live /\ p.connected = page.connected
      /\ \E q \in Nat :
            /\ p.query = 1 .. q /\ q <= MaxLive /\ q <= sequence
            /\ \/ page.socket = {} /\ p.cursor = q
               \/ p.cursor = page.cursor /\ \E lo \in Nat \ {0} : Window(q, lo)
    BY Answer
<1> HIDE DEF p
<1>4. page' \in Page /\ page'.query = p.query /\ page'.socket = page.socket
      /\ page'.cursor = p.cursor /\ page'.live = page.live /\ page'.connected = page.connected
    BY <1>2, <1>3 DEF Page
<1>5. Shapes'
    BY <1>1, <1>4, SameNumbers DEF StreamInv, Shapes
<1>6. PageInv'
    <2>1. PICK q \in Nat :
            /\ p.query = 1 .. q /\ q <= MaxLive /\ q <= sequence
            /\ \/ page.socket = {} /\ p.cursor = q
               \/ p.cursor = page.cursor /\ \E lo \in Nat \ {0} : Window(q, lo)
        BY <1>3
    <2>2. Fetched(q)'
        BY <1>1, <1>4, <2>1 DEF Fetched
    <2>3. CASE page.socket = {} /\ p.cursor = q
        BY <1>4, <2>2, <2>3 DEF PageInv
    <2>4. CASE p.cursor = page.cursor /\ \E lo \in Nat \ {0} : Window(q, lo)
        <3>1. PICK lo \in Nat \ {0} : Window(q, lo)
            BY <2>4
        <3>2. Window(q, lo)'
            BY <1>1, <1>4, <2>4, <3>1 DEF Window
        <3> QED BY <2>2, <3>2 DEF PageInv
    <2> QED BY <2>1, <2>3, <2>4
<1>7. WireInv'
    BY <1>1, <1>4 DEF StreamInv, WireInv, InFlight
<1> QED BY <1>1, <1>5, <1>6, <1>7, SameNumbers DEF StreamInv

\* A socket opens, closes, breaks or is left: nothing the page has changes.
LEMMA SocketStep ==
    ASSUME StreamInv, Connect \/ ReceiveClose \/ Break \/ RunEnds
    PROVE  StreamInv'
<1> USE StreamTypes
<1>1. UNCHANGED <<sequence, events, pending, finalSeq>>
    BY DEF Connect, ReceiveClose, Break, RunEnds
<1>2. page' \in Page /\ page'.query = page.query /\ page'.socket = page.socket /\ page'.cursor = page.cursor
    BY DEF Connect, ReceiveClose, Break, RunEnds, Page
<1>3. PageInv'
    BY <1>1, <1>2 DEF StreamInv, PageInv, Fetched, Window
<1>4. breaks' \in 0 .. MaxBreaks
    BY SizeAssumption DEF Connect, ReceiveClose, Break, RunEnds, StreamInv, Shapes
<1>5. CASE Connect
    <2>1. stream' = [pc |-> "read", cursor |-> page.cursor, rows |-> {}] /\ wire' = <<>>
          /\ page'.connected /\ page'.live
        BY <1>5 DEF Connect, Page
    <2>2. stream' \in Stream /\ wire' \in Seq(Nat) /\ Len(wire') = 0
          /\ stream'.pc = "read" /\ stream'.rows = {} /\ stream'.cursor = page.cursor
        BY <2>1 DEF Stream
    <2>3. page.cursor <= sequence
        BY DEF StreamInv, PageInv, Fetched, Window
    <2>4. WireInv'
        BY <1>1, <1>2, <2>1, <2>2, <2>3 DEF WireInv, InFlight
    <2>5. Shapes'
        BY <1>1, <1>2, <1>4, <2>2, SameNumbers DEF StreamInv, Shapes
    <2> QED BY <1>1, <1>3, <2>4, <2>5, SameNumbers DEF StreamInv
<1>6. CASE ReceiveClose
    <2>1. wire # <<>> /\ wire[1] = 0 /\ 1 \in 1 .. Len(wire)
        BY <1>6 DEF ReceiveClose, Closing
    <2>2. Len(wire) = 1 /\ stream.pc = "off"
        <3>1. page.cursor + 1 # 0
            OBVIOUS
        <3> QED BY <2>1, <3>1 DEF StreamInv, WireInv, InFlight
    <2>3. wire' = <<>> /\ stream' = stream /\ ~page'.connected
        BY <1>6, <2>2 DEF ReceiveClose, Page
    <2>4. WireInv'
        BY <2>2, <2>3 DEF StreamInv, WireInv, InFlight
    <2>5. Shapes'
        BY <1>1, <1>2, <1>4, <2>3, SameNumbers DEF StreamInv, Shapes
    <2> QED BY <1>1, <1>3, <2>4, <2>5, SameNumbers DEF StreamInv
<1>7. CASE Break \/ RunEnds
    <2>1. wire' = <<>> /\ stream' = NoStream /\ ~page'.connected
        BY <1>7 DEF Break, RunEnds, Page
    <2>2. WireInv'
        BY <2>1 DEF WireInv, InFlight, NoStream
    <2>3. Shapes'
        BY <1>1, <1>2, <1>4, <2>1, SameNumbers DEF StreamInv, Shapes, NoStream, Stream
    <2> QED BY <1>1, <1>3, <2>2, <2>3, SameNumbers DEF StreamInv
<1> QED BY <1>5, <1>6, <1>7

LEMMA ReceiveStep ==
    ASSUME StreamInv, Receive
    PROVE  StreamInv'
<1> DEFINE c == page.cursor
<1>0. /\ c \in Nat /\ sequence \in Nat /\ sequence <= MaxEvents /\ MaxEvents \in Nat
      /\ MaxLive \in Nat \ {0} /\ page \in Page /\ wire \in Seq(Nat) /\ Len(wire) \in Nat
    BY StreamTypes
<1>1. UNCHANGED <<sequence, events, pending, finalSeq, stream, breaks>> /\ page.connected /\ page.live
    BY DEF Receive, StreamInv, WireInv
<1>2. Len(wire) > 0 /\ wire[1] = c + 1 /\ c + 1 <= sequence
    <2>1. wire # <<>> /\ wire[1] # Closing
        BY DEF Receive
    <2>2. 1 \in 1 .. Len(wire)
        BY <1>0, <2>1
    <2> QED BY <1>0, <2>1, <2>2 DEF StreamInv, WireInv, InFlight
<1>3. wire' \in Seq(Nat) /\ Len(wire') = Len(wire) - 1 /\ \A i \in 1 .. Len(wire') : wire'[i] = wire[i + 1]
    BY <1>0, <1>2 DEF Receive
<1>4. PICK q \in Nat : /\ Fetched(q)
                       /\ \/ page.socket = {} /\ c = q
                          \/ \E lo \in Nat \ {0} : Window(q, lo)
    BY DEF StreamInv, PageInv
<1>5. PICK k \in Nat \ {0} : /\ page.socket \cup {c + 1} = k .. (c + 1) /\ k <= c + 1
                             /\ k <= q + 1 \/ c = k + MaxLive - 1
    <2>1. CASE page.socket = {} /\ c = q
        <3>1. page.socket \cup {c + 1} = (c + 1) .. (c + 1) /\ c + 1 \in Nat \ {0}
            BY <1>0, <2>1
        <3>2. c + 1 <= c + 1 /\ c + 1 <= q + 1
            BY <1>0, <2>1
        <3> QED BY <3>1, <3>2
    <2>2. CASE \E lo \in Nat \ {0} : Window(q, lo)
        <3>1. PICK lo \in Nat \ {0} : Window(q, lo)
            BY <2>2
        <3>2. page.socket = lo .. c /\ lo <= c /\ (lo <= q + 1 \/ c = lo + MaxLive - 1)
            BY <3>1 DEF Window
        <3> HIDE DEF c
        <3>3. (lo .. c) \cup {c + 1} = lo .. (c + 1) /\ lo <= c + 1
            BY <1>0, <3>2
        <3> QED BY <3>2, <3>3
    <2> QED BY <1>4, <2>1, <2>2
<1>6. PICK m \in Nat \ {0} : /\ Newest(MaxLive, k .. (c + 1)) = m .. (c + 1)
                             /\ m <= c + 1 /\ (m <= q + 1 \/ c + 1 = m + MaxLive - 1)
    <2> DEFINE l == IF c + 1 - MaxLive + 1 > k THEN c + 1 - MaxLive + 1 ELSE k
    <2>1. l \in Nat \ {0} /\ l <= c + 1 /\ (l <= q + 1 \/ c + 1 = l + MaxLive - 1)
        BY <1>0, <1>5
    <2>2. c + 1 \in Nat /\ k \in Nat
        BY <1>0
    <2>3. Newest(MaxLive, k .. (c + 1)) = l .. (c + 1)
        <3> HIDE DEF c
        <3> QED BY <1>0, <2>2, NewestOf
    <2> HIDE DEF l
    <2> QED BY <2>1, <2>3
<1>8. page' = [page EXCEPT !.cursor = c + 1, !.socket = m .. (c + 1)]
    <2>1. Head(wire) = c + 1
        BY <1>0, <1>2
    <2>2. page' = [page EXCEPT !.cursor = Head(wire),
                               !.socket = Newest(MaxLive, page.socket \cup {Head(wire)})]
        BY DEF Receive
    <2>3. page.socket \cup {Head(wire)} = k .. (c + 1)
        BY <1>5, <2>1
    <2>4. Newest(MaxLive, page.socket \cup {Head(wire)}) = m .. (c + 1)
        BY <1>6, <2>3
    <2> QED BY <2>1, <2>2, <2>4
<1>9. /\ page' \in Page /\ page'.query = page.query /\ page'.socket = m .. (c + 1)
      /\ page'.cursor = c + 1 /\ page'.connected /\ page'.live
    <2>1. m .. (c + 1) \subseteq Seqs /\ c + 1 \in 0 .. MaxEvents
        BY <1>0, <1>2, <1>6 DEF Seqs
    <2> QED BY <1>0, <1>1, <1>8, <2>1 DEF Page
<1>10. PageInv'
    <2>1. Fetched(q)'
        BY <1>1, <1>4, <1>9 DEF Fetched
    <2>2. Window(q, m)'
        <3>1. /\ page'.socket = m .. page'.cursor /\ page'.cursor = c + 1
              /\ sequence' = sequence /\ MaxLive' = MaxLive
            BY <1>1, <1>9
        <3> QED BY <1>0, <1>2, <1>6, <3>1 DEF Window
    <2> QED BY <1>6, <2>1, <2>2 DEF PageInv
<1>11. InFlight'
    <2>1. ASSUME NEW i \in 1 .. Len(wire')
          PROVE  \/ wire'[i] = c + 1 + i /\ wire'[i] <= sequence
                 \/ wire'[i] = Closing /\ i = Len(wire') /\ stream.pc = "off"
        <3>1. i + 1 \in 1 .. Len(wire) /\ wire'[i] = wire[i + 1]
            BY <1>0, <1>2, <1>3
        <3>2. \/ wire[i + 1] = c + (i + 1) /\ wire[i + 1] <= sequence
              \/ wire[i + 1] = Closing /\ i + 1 = Len(wire) /\ stream.pc = "off"
            BY <3>1 DEF StreamInv, WireInv, InFlight
        <3>3. c + (i + 1) = c + 1 + i /\ (i + 1 = Len(wire) <=> i = Len(wire'))
            <4>1. i \in Int /\ Len(wire') = Len(wire) - 1 /\ Len(wire) \in Int
                BY <1>0, <1>3
            <4> HIDE DEF c
            <4> QED BY <1>0, <4>1
        <3> QED BY <3>1, <3>2, <3>3
    <2> QED BY <1>1, <1>9, <2>1 DEF InFlight
<1>12. WireInv'
    <2>1. stream.pc # "off" => stream.cursor = c + 1 + Len(wire')
        BY <1>0, <1>2, <1>3 DEF StreamInv, WireInv
    <2>2. ReadRows => ReadRows'
        BY <1>1 DEF ReadRows
    <2> QED BY <1>1, <1>9, <1>11, <2>1, <2>2 DEF StreamInv, WireInv
<1>13. Shapes'
    BY <1>1, <1>3, <1>9, SameNumbers DEF StreamInv, Shapes
<1> QED BY <1>1, <1>10, <1>12, <1>13, SameNumbers DEF StreamInv

LEMMA StreamIsSound == Spec => []StreamInv
<1>1. StreamInv /\ [Next]_vars => StreamInv'
    <2> SUFFICES ASSUME StreamInv, [Next]_vars PROVE StreamInv'
        OBVIOUS
    <2>1. CASE \E w \in Writers : Record(w) \/ Commit(w) \/ Rollback(w)
        BY <2>1, WriterStep
    <2>2. CASE Handler
        BY <2>2, ReadEventsStep, SendRowsStep DEF Handler
    <2>3. CASE Screen
        BY <2>3, AnswerStep, SocketStep, ReceiveStep DEF Screen
    <2>4. CASE Connect \/ Break
        BY <2>4, SocketStep
    <2>5. CASE UNCHANGED vars
        BY <2>5 DEF vars, StreamInv, NumberingInv, Shapes, PageInv, Fetched, Window, WireInv,
                    InFlight, ReadRows, NotYet
    <2> QED BY <2>1, <2>2, <2>3, <2>4, <2>5 DEF Next
<1> QED BY <1>1, StreamInit, PTL DEF Spec

-----------------------------------------------------------------------------

\* The snapshots, the REST answers and the trims keep to their limits, and the page
\* only holds numbers the run has given out, whatever the network does.
THEOREM StreamTypeCorrect == Spec => []TypeOK
<1>1. StreamInv => TypeOK
    <2> SUFFICES ASSUME StreamInv PROVE TypeOK
        OBVIOUS
    <2> USE StreamTypes
    <2>1. events \subseteq Seqs
        BY DEF StreamInv, NumberingInv, Seqs
    <2>2. Cardinality(stream.rows) <= PageLimit
        <3>1. CASE stream.pc = "send"
            <4>1. PICK r \in Nat : stream.rows = (stream.cursor + 1) .. (stream.cursor + r) /\ r <= PageLimit
                BY <3>1 DEF StreamInv, WireInv, ReadRows
            <4>2. stream.cursor \in Nat
                OBVIOUS
            <4> QED BY <4>1, <4>2, Block
        <3>2. CASE stream.pc # "send"
            <4>1. stream.rows = {}
                BY <3>2 DEF StreamInv, WireInv
            <4>2. Cardinality({}) = 0
                BY FS_EmptySet
            <4> QED BY <4>1, <4>2
        <3> QED BY <3>1, <3>2
    <2>3. Cardinality(page.query) <= MaxLive
        <3>1. PICK q \in Nat : Fetched(q)
            BY DEF StreamInv, PageInv
        <3>2. Cardinality((0 + 1) .. (0 + q)) = q
            BY Block
        <3>3. (0 + 1) .. (0 + q) = 1 .. q
            OBVIOUS
        <3> QED BY <3>1, <3>2, <3>3 DEF Fetched
    <2>4. wire \in Seq(Seqs \cup {Closing})
        <3>1. \A i \in 1 .. Len(wire) : wire[i] \in Seqs \cup {Closing}
            <4>1. ASSUME NEW i \in 1 .. Len(wire) PROVE wire[i] \in Seqs \cup {Closing}
                <5>1. CASE wire[i] = page.cursor + i /\ wire[i] <= sequence
                    <6>1. wire[i] >= 1 /\ wire[i] \in Nat
                        BY <5>1
                    <6> QED BY <5>1, <6>1 DEF Seqs
                <5>2. CASE wire[i] = Closing
                    BY <5>2
                <5> QED BY <5>1, <5>2 DEF StreamInv, WireInv, InFlight
            <4> QED BY <4>1
        <3>2. wire \in [1 .. Len(wire) -> Seqs \cup {Closing}]
            BY <3>1
        <3>3. [1 .. Len(wire) -> Seqs \cup {Closing}] \subseteq Seq(Seqs \cup {Closing})
            BY SeqDef
        <3> QED BY <3>2, <3>3
    <2> QED BY <2>1, <2>2, <2>3, <2>4 DEF StreamInv, Shapes, TypeOK
<1> QED BY <1>1, StreamIsSound, PTL

\* The newest of a set go on upwards without a gap.
LEMMA NewestUpwards ==
    ASSUME NEW S, IsFiniteSet(S), S \subseteq Nat, NEW n \in Nat,
           NEW f \in Newest(n, S), NEW e \in S, f < e
    PROVE  e \in Newest(n, S)
<1> DEFINE above(x) == {h \in S : h > x}
<1>1. f \in S /\ Cardinality(above(f)) < n
    BY DEF Newest
<1>2. above(e) \subseteq above(f)
    <2>1. ASSUME NEW h \in S, h > e PROVE h > f
        <3>1. h \in Nat /\ e \in Nat /\ f \in Nat
            BY <1>1
        <3> QED BY <2>1, <3>1
    <2> QED BY <2>1
<1>3. IsFiniteSet(above(f)) /\ IsFiniteSet(above(e))
    BY FS_Subset
<1>4. Cardinality(above(e)) <= Cardinality(above(f))
    BY <1>2, <1>3, FS_Subset
<1>5. Cardinality(above(e)) \in Nat /\ Cardinality(above(f)) \in Nat
    BY <1>3, FS_CardinalityType
<1> QED BY <1>1, <1>4, <1>5 DEF Newest

\* The page never shows two events and leaves out one between them, over broken
\* connections, REST answers at any moment and the trims to the newest MaxLive.
THEOREM PageHasNoHole == Spec => []NoHole
<1>1. StreamInv => NoHole
    <2> SUFFICES ASSUME StreamInv, NEW e \in events, NEW f \in Shown(page), NEW g \in Shown(page),
                        f < e, e < g
                 PROVE  e \in Shown(page)
        BY DEF NoHole
    <2> DEFINE U == page.query \cup page.socket
    <2> USE StreamTypes
    <2>1. e \in Nat /\ e >= 1
        BY DEF StreamInv, NumberingInv
    <2>2. PICK q \in Nat : /\ Fetched(q)
                           /\ \/ page.socket = {} /\ page.cursor = q
                              \/ \E lo \in Nat \ {0} : Window(q, lo)
        BY DEF StreamInv, PageInv
    <2>3. f \in U /\ g \in U /\ Shown(page) = Newest(MaxLive, U) /\ MaxLive \in Nat
        BY DEF Shown, Newest
    <2>4. IsFiniteSet(U) /\ U \subseteq Nat
        <3>1. page.query \subseteq 0 .. MaxEvents /\ page.socket \subseteq 0 .. MaxEvents
            BY DEF Page, Seqs
        <3>2. IsFiniteSet(0 .. MaxEvents)
            BY Counted
        <3>3. U \subseteq 0 .. MaxEvents
            BY <3>1
        <3> QED BY <3>2, <3>3, FS_Subset
    <2>5. e \in U
        <3>1. CASE page.socket = {}
            BY <2>1, <2>2, <2>3, <3>1 DEF Fetched
        <3>2. CASE page.socket # {}
            <4>1. PICK lo \in Nat \ {0} : Window(q, lo)
                BY <2>2, <3>2
            <4>2. page.query = 1 .. q /\ page.socket = lo .. page.cursor
                BY <2>2, <4>1 DEF Fetched, Window
            <4>3. CASE lo <= q + 1
                BY <2>1, <2>3, <4>2, <4>3
            <4>4. CASE page.cursor = lo + MaxLive - 1
                <5>1. f >= lo
                    <6> SUFFICES ASSUME f < lo PROVE FALSE
                        BY <2>3, <2>4
                    <6> DEFINE above == {h \in U : h > f}
                    <6>1. Cardinality(above) < MaxLive
                        BY <2>3 DEF Newest
                    <6>2. lo .. page.cursor \subseteq above
                        BY <2>3, <2>4, <4>2
                    <6>3. Cardinality(lo .. page.cursor) = MaxLive
                        <7>1. /\ lo \in Int /\ page.cursor \in Int /\ lo <= page.cursor
                              /\ page.cursor - lo + 1 = MaxLive
                            BY <4>4
                        <7>2. Cardinality(lo .. page.cursor) = page.cursor - lo + 1
                            BY <7>1, Counted
                        <7> QED BY <7>1, <7>2
                    <6>4. IsFiniteSet(above)
                        BY <2>4, FS_Subset
                    <6>5. Cardinality(lo .. page.cursor) <= Cardinality(above) /\ Cardinality(above) \in Nat
                        BY <6>2, <6>4, FS_Subset, FS_CardinalityType
                    <6> QED BY <6>1, <6>3, <6>5
                <5>2. q <= page.cursor
                    BY <2>2, <4>4 DEF Fetched
                <5> QED BY <2>1, <2>3, <4>2, <5>1, <5>2
            <4> QED BY <4>1, <4>3, <4>4 DEF Window
        <3> QED BY <3>1, <3>2
    <2>6. f \in Newest(MaxLive, U)
        BY <2>3
    <2> HIDE DEF U
    <2>7. e \in Newest(MaxLive, U)
        BY <2>3, <2>4, <2>5, <2>6, NewestUpwards
    <2> QED BY <2>3, <2>7
<1> QED BY <1>1, StreamIsSound, PTL
=============================================================================
