-------------------------- MODULE RunEventStream --------------------------
(***************************************************************************)
(* The Run Events of one run, from the transactions that record them to    *)
(* the page that shows them: the timeline (crawl/run_events.py), the       *)
(* WebSocket handler (api/crawls.py over crawl/run_event_stream.py) and    *)
(* the run screen of the frontend (use-run-event-stream.ts, shared.tsx,    *)
(* use-run-polling.ts, use-run-workspace.ts).                              *)
(*                                                                         *)
(* An event is its sequence number.  What a page shows is a set of them:   *)
(* it sorts by sequence.  A run that is deleted while it is watched, and   *)
(* requests that fail, are left out.                                       *)
(***************************************************************************)
EXTENDS Naturals, FiniteSets, Sequences, FiniteSetsExt

CONSTANTS
    Writers,    \* database sessions that record events of the run
    PageLimit,  \* rows one stream snapshot loads (500)
    MaxLive,    \* CRAWL_DEFAULTS.MAX_LIVE_EVENTS (2000)
    MaxEvents,  \* bound: sequence numbers in a behaviour
    MaxBreaks   \* bound: connections that break

ASSUME SizeAssumption ==
    /\ PageLimit \in Nat \ {0} /\ MaxLive \in Nat \ {0}
    /\ MaxEvents \in Nat /\ MaxBreaks \in Nat

VARIABLES
    sequence,   \* the row's run_event_sequence, as committed
    events,     \* committed run_events rows
    pending,    \* session -> the events of its open transaction
    finalSeq,   \* sequence when the terminal status was committed, or NotYet
    stream,     \* the handler of the page's socket
    wire,       \* messages under way from the handler to the page
    page,       \* the run screen
    breaks      \* broken connections so far

vars == <<sequence, events, pending, finalSeq, stream, wire, page, breaks>>

NotYet == MaxEvents + 1
Seqs == 1 .. MaxEvents
Terminal == finalSeq # NotYet

-----------------------------------------------------------------------------
(* State *)

\* rows is what the handler has read and not sent; closing is the close frame.
Stream == [pc: {"off", "read", "send"}, cursor: 0 .. MaxEvents, rows: SUBSET Seqs]
NoStream == [pc |-> "off", cursor |-> 0, rows |-> {}]
Closing == 0

\* query is the last REST answer, socket the socket's events; cursor 0 stands for
\* undefined; synced says that the refetch at the end of the run has been done.
Page == [query: SUBSET Seqs, socket: SUBSET Seqs, cursor: 0 .. MaxEvents,
         fetched: BOOLEAN, live: BOOLEAN, connected: BOOLEAN, synced: BOOLEAN]

TypeOK ==
    /\ sequence \in 0 .. MaxEvents
    /\ events \subseteq Seqs
    /\ pending \in [Writers -> SUBSET Seqs]
    /\ finalSeq \in 0 .. NotYet
    /\ stream \in Stream /\ Cardinality(stream.rows) <= PageLimit
    /\ wire \in Seq(Seqs \cup {Closing})
    /\ page \in Page /\ Cardinality(page.query) <= MaxLive
    /\ breaks \in 0 .. MaxBreaks

Init ==
    /\ sequence = 0 /\ events = {} /\ finalSeq = NotYet
    /\ pending = [w \in Writers |-> {}]
    /\ stream = NoStream /\ wire = <<>>
    /\ page = [query |-> {}, socket |-> {}, cursor |-> 0, fetched |-> FALSE,
               live |-> TRUE, connected |-> FALSE, synced |-> FALSE]
    /\ breaks = 0

Oldest(n, S) == {e \in S : Cardinality({f \in S : f < e}) < n}
Newest(n, S) == {e \in S : Cardinality({f \in S : f > e}) < n}
Highest(S) == Max(S \cup {0})

-----------------------------------------------------------------------------
(* The timeline *)

\* _insert's UPDATE holds the run's row until the transaction ends, so no session
\* gets a number while another's is uncommitted.
MayRecordUnlocked(w) == TRUE        \* mistake: a counter that takes no lock
MayRecord(w) == \A v \in Writers \ {w} : pending[v] = {}
Uncommitted == UNION {pending[w] : w \in Writers}

Record(w) ==
    /\ MayRecord(w)
    /\ sequence + Cardinality(Uncommitted) < MaxEvents
    /\ pending' = [pending EXCEPT ![w] =
                      @ \cup {sequence + Cardinality(Uncommitted) + 1}]
    /\ UNCHANGED <<sequence, events, finalSeq, stream, wire, page, breaks>>

\* The commit publishes the events, and with them a status written by the same
\* transaction. Events go on being recorded after a terminal status: a killed
\* run's executor finishes its URL.
Commit(w) ==
    /\ MayRecord(w)
    /\ sequence' = sequence + Cardinality(pending[w])
    /\ events' = events \cup pending[w]
    /\ pending' = [pending EXCEPT ![w] = {}]
    /\ \/ pending[w] # {} /\ UNCHANGED finalSeq
       \/ ~Terminal /\ finalSeq' = sequence'
    /\ UNCHANGED <<stream, wire, page, breaks>>

\* The numbers go back with the transaction: the counter is a column of the row.
Rollback(w) ==
    /\ pending[w] # {}
    /\ pending' = [pending EXCEPT ![w] = {}]
    /\ UNCHANGED <<sequence, events, finalSeq, stream, wire, page, breaks>>

-----------------------------------------------------------------------------
(* The WebSocket handler *)

\* mistakes: no LIMIT; the newest rows first.
ListAfterUnlimited(cursor, limit) == {e \in events : e > cursor}
ListAfterNewest(cursor, limit) == Newest(limit, {e \in events : e > cursor})
ListAfter(cursor, limit) == Oldest(limit, {e \in events : e > cursor})

\* load_run_event_stream_snapshot reads the events first ...
ReadEvents ==
    /\ stream.pc = "read"
    /\ stream' = [stream EXCEPT !.pc = "send", !.rows = ListAfter(stream.cursor, PageLimit)]
    /\ UNCHANGED <<sequence, events, pending, finalSeq, wire, page, breaks>>

\* ORDER BY sequence.
InOrder(S) == [k \in 1 .. Cardinality(S) |-> CHOOSE e \in S : Cardinality({f \in S : f <= e}) = k]

\* ... and the run in a session of its own; the rows are sent and, when there were
\* none and the run is terminal, the socket is closed ("Run completed").
SendRows ==
    /\ stream.pc = "send"
    /\ IF Terminal /\ stream.rows = {}
       THEN wire' = Append(wire, Closing) /\ stream' = NoStream
       ELSE /\ wire' = wire \o InOrder(stream.rows)
            /\ stream' = [pc |-> "read", rows |-> {},
                          cursor |-> IF stream.rows = {} THEN stream.cursor
                                     ELSE Highest(stream.rows)]
    /\ UNCHANGED <<sequence, events, pending, finalSeq, page, breaks>>

-----------------------------------------------------------------------------
(* The run screen *)

\* mergeRunEvents: by sequence, at most the newest MaxLive.
Shown(p) == Newest(MaxLive, p.query \cup p.socket)

\* The effect that follows every render.
CursorOf(p) == IF p.socket = {} THEN Highest(Shown(p)) ELSE p.cursor
WithQuery(p, S) == LET q == [p EXCEPT !.query = S, !.fetched = TRUE]
                   IN  [q EXCEPT !.cursor = CursorOf(q)]

\* The first fetch, the polling while no socket is open, and the refetch when one
\* has closed: always from the start of the run, whatever the page already has.
Fetch ==
    /\ page.live /\ ~page.connected
    /\ page' = WithQuery(page, ListAfter(0, MaxLive))
    /\ UNCHANGED <<sequence, events, pending, finalSeq, stream, wire, breaks>>

Connect ==
    /\ page.live /\ page.fetched /\ ~page.connected
    /\ stream' = [pc |-> "read", cursor |-> page.cursor, rows |-> {}]
    /\ wire' = <<>>
    /\ page' = [page EXCEPT !.connected = TRUE]
    /\ UNCHANGED <<sequence, events, pending, finalSeq, breaks>>

\* onmessage and the flush: the buffer between them is emptied whenever the socket
\* closes or the effect is cleaned up, so no message is lost in it.
Receive ==
    /\ page.connected /\ wire # <<>> /\ Head(wire) # Closing
    /\ wire' = Tail(wire)
    /\ page' = [page EXCEPT !.cursor = Head(wire),
                            !.socket = Newest(MaxLive, @ \cup {Head(wire)})]
    /\ UNCHANGED <<sequence, events, pending, finalSeq, stream, breaks>>

ReceiveClose ==
    /\ page.connected /\ wire # <<>> /\ Head(wire) = Closing
    /\ wire' = Tail(wire)
    /\ page' = [page EXCEPT !.connected = FALSE]
    /\ UNCHANGED <<sequence, events, pending, finalSeq, stream, breaks>>

\* What was under way is lost; the handler ends at its next send.
Break ==
    /\ page.connected /\ breaks < MaxBreaks
    /\ breaks' = breaks + 1
    /\ wire' = <<>> /\ stream' = NoStream
    /\ page' = [page EXCEPT !.connected = FALSE]
    /\ UNCHANGED <<sequence, events, pending, finalSeq>>

\* The run's own polling finds it terminal: live turns false, the effect's cleanup
\* closes the socket and what is still under way is ignored.
RunEnds ==
    /\ page.live /\ Terminal
    /\ page' = [page EXCEPT !.live = FALSE, !.connected = FALSE]
    /\ stream' = NoStream /\ wire' = <<>>
    /\ UNCHANGED <<sequence, events, pending, finalSeq, breaks>>

\* useTerminalSync refetches the events once.
SyncForgotten == [page EXCEPT !.synced = TRUE]      \* mistake
Synced == [WithQuery(page, ListAfter(0, MaxLive)) EXCEPT !.synced = TRUE]
Sync ==
    /\ ~page.live /\ ~page.synced
    /\ page' = Synced
    /\ UNCHANGED <<sequence, events, pending, finalSeq, stream, wire, breaks>>

-----------------------------------------------------------------------------

Handler == ReadEvents \/ SendRows
Screen == Fetch \/ Receive \/ ReceiveClose \/ RunEnds \/ Sync

Next ==
    \/ \E w \in Writers : Record(w) \/ Commit(w) \/ Rollback(w)
    \/ Handler \/ Screen \/ Connect \/ Break

Spec == Init /\ [][Next]_vars

\* The handler's loop, the page's timers and the network go on while they can.
FairSpec ==
    /\ Spec
    /\ WF_vars(ReadEvents) /\ WF_vars(SendRows)
    /\ WF_vars(Fetch) /\ WF_vars(Connect) /\ WF_vars(Receive \/ ReceiveClose)
    /\ WF_vars(RunEnds) /\ WF_vars(Sync)

-----------------------------------------------------------------------------
(* Properties *)

\* The committed events are numbered 1, 2, ... without a gap, whatever sessions
\* record, commit and roll back at the same time: no reader can have gone past a
\* number that is committed later (_insert's sequence).
SequenceIsComplete == events = 1 .. sequence

\* What the page shows never has a hole: it is a window of consecutive committed
\* events, over broken connections, REST answers and the two trims to MaxLive.
NoHole ==
    LET shown == Shown(page)
    IN  \A e \in events : (\E f, g \in shown : f < e /\ e < g) => e \in shown

\* Every event recorded up to the terminal status, among the first MaxLive of the
\* run, gets on the page, or the page is already past it: also when the handler
\* closes, or the page hears of the end, before the last events were sent.
Reached(e) == \E f \in Shown(page) : e <= f
LastEventsReached ==
    \A e \in 1 .. IF MaxLive < MaxEvents THEN MaxLive ELSE MaxEvents :
        (e \in events /\ e <= finalSeq) ~> Reached(e)
=============================================================================
