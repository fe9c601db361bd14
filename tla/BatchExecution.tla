-------------------------- MODULE BatchExecution --------------------------
(***************************************************************************)
(* The parallel URL loop of a run (crawl/batch_runtime.py,                 *)
(* _ParallelRunState): a pool of worker tasks takes the pending URLs from  *)
(* one iterator and puts their results on a bounded queue; execute, the    *)
(* consumer, records the results, looks at the run's row between them and  *)
(* stops the workers when the row or the record limit says so.             *)
(*                                                                         *)
(* All of it runs on one event loop, so what the code does between two     *)
(* awaits is one step here: a worker puts a result and takes its next URL  *)
(* in one step, execute finds the queue empty and cancels in one step.     *)
(* A cancellation lands at the worker's next resumption, and a browser     *)
(* attempt that is just being timed out swallows it                        *)
(* (acquisition/fetch/browser_attempt.py, the suppress around its          *)
(* cleanup): the worker then goes on with the URL.                         *)
(***************************************************************************)
EXTENDS Naturals, FiniteSets

CONSTANTS
    Workers,    \* the worker tasks, concurrency of them
    Total,      \* the number of pending items, taken in the order 1 .. Total
    QueueSize,  \* concurrency * parallel_result_queue_size_factor
    MaxFaults   \* bound: failures of the database and cancellations of execute

ASSUME PoolAssumption == IsFiniteSet(Workers) /\ Workers # {}
ASSUME SizeAssumption ==
    /\ Total \in Nat \ {0} /\ QueueSize \in Nat \ {0} /\ MaxFaults \in Nat

VARIABLES
    row,        \* the columns of the run's row that execute looks at
    worker,     \* worker -> where it is, the URL it holds, a cancellation due
    started,    \* items 1 .. started have been taken from work_iter
    queue,      \* the URLs whose results are on result_queue
    stop,       \* stop_event
    main,       \* where execute is, and the result it holds
    recorded,   \* the URLs whose verdict is in verdicts
    dropped,    \* the URLs whose result was lost to a TimeoutError
    enough,     \* record_count >= max_records
    outcome,    \* how execute ended
    faults      \* faults so far

vars == <<row, worker, started, queue, stop, main, recorded, dropped, enough,
          outcome, faults>>

NoUrl == 0
Urls == 1 .. Total

-----------------------------------------------------------------------------
(* The state *)

\* control is result_summary's control_request; owned says that queue_owner is
\* still this execution's token; "gone" is the deleted row.
Row == [status: {"running", "paused", "killed", "gone"},
        control: {"none", "pause", "kill"}, owned: BOOLEAN]

Ended == {"done", "failed", "cancelled"}
Worker == [pc: {"begin", "open", "crawl", "put"} \cup Ended,
           url: Urls \cup {NoUrl}, cancel: BOOLEAN]

\* then says what follows once the results on the queue are recorded (drain_results
\* has three callers), reason what made execute stop.
Reasons == {"none", "pause", "kill", "status", "limit"}
Main == [pc: {"head", "wait", "record", "check", "join", "apply", "abort", "end"},
         url: Urls \cup {NoUrl}, then: {"judge", "join", "leave"}, reason: Reasons]

Outcomes == {"none", "finished", "stopped", "raised"}

TypeOK ==
    /\ row \in Row
    /\ worker \in [Workers -> Worker]
    /\ started \in 0 .. Total
    /\ queue \subseteq Urls /\ Cardinality(queue) <= QueueSize
    /\ stop \in BOOLEAN
    /\ main \in Main
    /\ recorded \subseteq Urls /\ dropped \subseteq Urls
    /\ enough \in BOOLEAN
    /\ outcome \in Outcomes
    /\ faults \in 0 .. MaxFaults

Init ==
    /\ row = [status |-> "running", control |-> "none", owned |-> TRUE]
    /\ worker = [w \in Workers |-> [pc |-> "begin", url |-> NoUrl, cancel |-> FALSE]]
    /\ started = 0 /\ queue = {} /\ stop = FALSE
    /\ main = [pc |-> "head", url |-> NoUrl, then |-> "judge", reason |-> "none"]
    /\ recorded = {} /\ dropped = {}
    /\ enough \in BOOLEAN     \* what earlier executions persisted counts too
    /\ outcome = "none" /\ faults = 0

AllEnded == \A w \in Workers : worker[w].pc \in Ended
SomeFailed == \E w \in Workers : worker[w].pc = "failed"
Queued == queue # {}

Fault == faults < MaxFaults /\ faults' = faults + 1

-----------------------------------------------------------------------------
(* A worker *)

Runs(w, pc) == worker[w].pc = pc /\ ~worker[w].cancel
StepTo(w, pc) == worker' = [worker EXCEPT ![w].pc = pc]

\* The head of _worker's loop: the stop event, then next(work_iter).
NextItem(w) ==
    IF stop \/ started = Total
    THEN /\ worker' = [worker EXCEPT ![w].pc = "done", ![w].url = NoUrl]
         /\ UNCHANGED started
    ELSE /\ started' = started + 1
         /\ worker' = [worker EXCEPT ![w].pc = "open", ![w].url = started']

Begin(w) ==
    /\ Runs(w, "begin")
    /\ NextItem(w)
    /\ UNCHANGED <<row, queue, stop, main, recorded, dropped, enough, outcome, faults>>

\* The URL's own session reads the run: a run that is gone, or a database that
\* fails here, ends the worker with an exception.
Open(w) ==
    /\ Runs(w, "open")
    /\ \/ row.status # "gone" /\ StepTo(w, "crawl") /\ UNCHANGED faults
       \/ row.status = "gone" /\ StepTo(w, "failed") /\ UNCHANGED faults
       \/ Fault /\ StepTo(w, "failed")
    /\ UNCHANGED <<row, started, queue, stop, main, recorded, dropped, enough, outcome>>

\* process_single_url and the commit, or recover_url_failure, which keeps every
\* Exception from the worker: either way there is a result to put.
Crawl(w) ==
    /\ Runs(w, "crawl")
    /\ StepTo(w, "put")
    /\ UNCHANGED <<row, started, queue, stop, main, recorded, dropped, enough,
                   outcome, faults>>

NoLimit == TRUE      \* mistake: an unbounded queue
Room == Cardinality(queue) < QueueSize

Put(w) ==
    /\ Runs(w, "put") /\ Room
    /\ queue' = queue \cup {worker[w].url}
    /\ NextItem(w)
    /\ UNCHANGED <<row, stop, main, recorded, dropped, enough, outcome, faults>>

\* CancelledError passes every `except Exception` of the worker.
CancelLands(w) ==
    /\ worker[w].cancel /\ worker[w].pc \notin Ended
    /\ StepTo(w, "cancelled")
    /\ UNCHANGED <<row, started, queue, stop, main, recorded, dropped, enough,
                   outcome, faults>>

CancelSwallowed(w) ==
    /\ worker[w].cancel /\ worker[w].pc = "crawl"
    /\ worker' = [worker EXCEPT ![w].cancel = FALSE]
    /\ UNCHANGED <<row, started, queue, stop, main, recorded, dropped, enough,
                   outcome, faults>>

WorkerStep(w) ==
    Begin(w) \/ Open(w) \/ Crawl(w) \/ Put(w) \/ CancelLands(w) \/ CancelSwallowed(w)

-----------------------------------------------------------------------------
(* execute *)

At(pc) == main.pc = pc /\ outcome = "none"
GoTo(pc) == main' = [main EXCEPT !.pc = pc, !.url = NoUrl]
End(how) == outcome' = how /\ GoTo("end")

\* get and get_nowait: the queue is first in, first out, but no property depends
\* on the order in which results are recorded.
Take(then, reason) ==
    \E u \in queue :
        /\ queue' = queue \ {u}
        /\ main' = [pc |-> "record", url |-> u, then |-> then, reason |-> reason]

\* cancel_workers up to its gather.
CancelAll == worker' = [w \in Workers |->
                [worker[w] EXCEPT !.cancel = worker[w].pc \notin Ended]]

\* The `except BaseException` of execute, from any await inside the try.
Abort == stop' = TRUE /\ CancelAll /\ GoTo("abort") /\ UNCHANGED <<queue, outcome>>

\* raise_worker_error, then the checkpoint.
Judge == IF SomeFailed
         THEN Abort
         ELSE GoTo("check") /\ UNCHANGED <<worker, queue, stop, outcome>>

\* stop_and_join has returned.
Leave(reason) ==
    IF reason \in {"pause", "kill"}
    THEN /\ main' = [main EXCEPT !.pc = "apply", !.url = NoUrl, !.reason = reason]
         /\ UNCHANGED outcome
    ELSE End("stopped")

Join(reason) ==
    /\ stop' = TRUE /\ CancelAll
    /\ main' = [pc |-> "join", url |-> NoUrl, then |-> "leave", reason |-> reason]
    /\ UNCHANGED <<queue, outcome>>

\* drain_results and what its caller does after it: the results on the queue are
\* taken one by one, each recorded in a step of its own, with no look at the row
\* in between, and the last one runs straight into what follows.
Drain(then, reason) ==
    \/ /\ Queued /\ Take(then, reason)
       /\ stop' = (stop \/ then # "judge")
       /\ UNCHANGED <<worker, outcome>>
    \/ ~Queued /\ then = "judge" /\ Judge
    \/ ~Queued /\ then = "join" /\ Join(reason)
    \/ ~Queued /\ then = "leave" /\ Leave(reason) /\ UNCHANGED <<worker, queue, stop>>

\* mistakes: stop_and_join without the drain before the cancellation, or raising
\* the stop event only with the cancellation.
JoinUndrained(reason) == Join(reason)
JoinUnflagged(reason) ==
    IF Queued
    THEN Take("join", reason) /\ UNCHANGED <<worker, stop, outcome>>
    ELSE Join(reason)
StopAndJoin(reason) == Drain("join", reason)

\* mistakes: a loop that ends with its workers, whatever is still queued; one that
\* does not look at the workers' errors on its way out.
LoopOverEarly == AllEnded
LoopOver == AllEnded /\ ~Queued
ExitQuietly == End("finished")
Exit == IF SomeFailed THEN End("raised") ELSE End("finished")

\* The loop's condition, then wait_for(result_queue.get()).
Head ==
    /\ At("head")
    /\ \/ LoopOver /\ Exit /\ UNCHANGED queue
       \/ ~LoopOver /\ Queued /\ Take("judge", "none") /\ UNCHANGED outcome
       \/ ~LoopOver /\ ~Queued /\ GoTo("wait") /\ UNCHANGED <<queue, outcome>>
    /\ UNCHANGED <<row, worker, started, stop, recorded, dropped, enough, faults>>

Arrive ==
    /\ At("wait") /\ Queued /\ Take("judge", "none")
    /\ UNCHANGED <<row, worker, started, stop, recorded, dropped, enough, outcome, faults>>

\* The timer may win although a result has just arrived: it stays on the queue.
Tick ==
    /\ At("wait") /\ Judge
    /\ UNCHANGED <<row, started, recorded, dropped, enough, faults>>

\* _record_url_result; its lease renewal runs only when the commit gate is due. The
\* records counted may bring record_count to the limit.
Record ==
    /\ At("record")
    /\ recorded' = recorded \cup {main.url}
    /\ enough' \in {b \in BOOLEAN : enough => b}
    /\ Drain(main.then, main.reason)
    /\ UNCHANGED <<row, started, dropped, faults>>

\* RunClaimLostError, or an error of the database.
RecordFails ==
    /\ At("record")
    /\ \/ ~row.owned /\ UNCHANGED faults
       \/ Fault
    /\ Abort
    /\ UNCHANGED <<row, started, recorded, dropped, enough>>

\* A connection attempt of the database driver that times out raises the same
\* TimeoutError the loop takes for its tick: the result in hand is gone.
RecordTimesOut ==
    /\ At("record") /\ main.then = "judge"
    /\ Fault
    /\ dropped' = dropped \cup {main.url}
    /\ Judge
    /\ UNCHANGED <<row, started, recorded, enough>>

\* checkpoint_stops_run and stop_at_record_limit: one read of the row.
Check ==
    /\ At("check")
    /\ CASE row.control # "none" -> StopAndJoin(row.control)
         [] row.control = "none" /\ row.status # "running" -> StopAndJoin("status")
         [] row.control = "none" /\ row.status = "running" /\ enough -> StopAndJoin("limit")
         [] OTHER -> GoTo("head") /\ UNCHANGED <<worker, queue, stop, outcome>>
    /\ UNCHANGED <<row, started, recorded, dropped, enough, faults>>

CheckFails ==
    /\ At("check") /\ Fault /\ Abort
    /\ UNCHANGED <<row, started, recorded, dropped, enough>>

JoinedAtOnce == TRUE        \* mistake: cancel without awaiting the workers
Joined == AllEnded
LeaveAtOnce == Leave(main.reason) /\ UNCHANGED <<worker, queue, stop>>  \* mistake: no second drain
Flush == Drain("leave", main.reason)

\* gather has returned: a worker that swallowed its cancellation may have put its
\* result after the first drain.
JoinReturns ==
    /\ At("join") /\ Joined /\ Flush
    /\ UNCHANGED <<row, started, recorded, dropped, enough, faults>>

\* _apply_control_checkpoint: release the lease, read the row under the lock that
\* takes, write the status.
Target == IF main.reason = "pause" THEN "paused" ELSE "killed"
MayApply == row.owned /\ (row.status \in {"running", "paused"} \/ row.status = Target)

Applied == [status |-> Target, control |-> "none", owned |-> FALSE]

Apply ==
    /\ At("apply") /\ MayApply
    /\ row' = Applied
    /\ End("stopped")
    /\ UNCHANGED <<worker, started, queue, stop, recorded, dropped, enough, faults>>

ApplyFails ==
    /\ At("apply")
    /\ \/ ~MayApply /\ UNCHANGED faults
       \/ Fault
    /\ Abort
    /\ UNCHANGED <<row, started, recorded, dropped, enough>>

AbortReturns ==
    /\ At("abort") /\ Joined /\ End("raised")
    /\ UNCHANGED <<row, worker, started, queue, stop, recorded, dropped, enough, faults>>

\* The task that runs execute is cancelled (a kill, a sweep, a worker told to end):
\* CancelledError leaves whatever await it is at, and is a BaseException. A gather
\* passes it on to the workers and returns only when all have ended; a status may
\* have been committed by then.
ExecuteCancelled ==
    /\ outcome = "none" /\ main.pc \notin {"head", "end"}
    /\ Fault /\ Abort
    /\ row' \in {row} \cup (IF main.pc = "apply" /\ MayApply THEN {Applied} ELSE {})
    /\ UNCHANGED <<started, recorded, dropped, enough>>

MainStep ==
    Head \/ Arrive \/ Tick \/ Record \/ RecordFails \/ RecordTimesOut \/ Check
    \/ CheckFails \/ JoinReturns \/ Apply \/ ApplyFails \/ AbortReturns

-----------------------------------------------------------------------------
(* The row's other writers: requests, a newer execution, deletion *)

RowChanges(r) == /\ outcome = "none" /\ row' = r
                 /\ UNCHANGED <<worker, started, queue, stop, main, recorded, dropped,
                                enough, outcome, faults>>

Requested == \E c \in {"pause", "kill"} :
    /\ row.status = "running" /\ row.control = "none"
    /\ RowChanges([row EXCEPT !.control = c])

\* With Celery a pause or a kill writes the status itself.
StatusWritten == \E s \in {"paused", "killed"} :
    /\ row.status = "running"
    /\ RowChanges([row EXCEPT !.status = s])

\* A resumed run is dispatched again, under a new token, and claimed; once is enough
\* for this execution.
TakenOver ==
    /\ row.status \in {"running", "paused"} /\ row.owned
    /\ RowChanges([status |-> "running", control |-> "none", owned |-> FALSE])

Deleted ==
    /\ row.status = "killed"
    /\ RowChanges([row EXCEPT !.status = "gone", !.owned = FALSE])

RowStep == Requested \/ StatusWritten \/ TakenOver \/ Deleted

-----------------------------------------------------------------------------

Next == MainStep \/ ExecuteCancelled \/ RowStep \/ \E w \in Workers : WorkerStep(w)

Spec == Init /\ [][Next]_vars

\* The event loop runs every task that is ready; a URL ends by its deadline.
FairSpec == Spec /\ WF_vars(MainStep) /\ \A w \in Workers : WF_vars(WorkerStep(w))

-----------------------------------------------------------------------------
(* Properties *)

\* execute reports the end of the list only when every pending URL was recorded,
\* except those whose recording timed out (_ParallelRunState.execute, the loop's
\* condition and the last raise_worker_error).
FinishedCoversWork == outcome = "finished" => recorded \cup dropped = Urls

\* When execute has returned or raised, and before a pause or a kill is written to
\* the row, no worker of this execution is alive: nothing is saved for a run
\* that is already reported as stopped.
QuietAfterStop == outcome # "none" \/ main.pc = "apply" => AllEnded

\* A result that was put on the queue is never thrown away by an orderly stop: a
\* taken URL that is not recorded was in the hands of a worker that was cancelled
\* or failed.
InHand == {worker[w].url : w \in Workers}
NothingDiscarded ==
    outcome \in {"finished", "stopped"} =>
        /\ queue = {}
        /\ 1 .. started \subseteq recorded \cup dropped \cup InHand

\* Once the checkpoint or the limit has decided to stop, no further URL is taken,
\* however long the results take to record.
StoppedTakesNoUrl == [][main.reason # "none" => started' = started]_vars

\* execute ends, unless it is raising an error while the queue is full and a worker
\* that swallowed its cancellation waits for room: that path does not drain.
Wedged == /\ main.pc = "abort" /\ ~Room
          /\ \E w \in Workers : Runs(w, "put")
ExecuteEnds == <>(outcome # "none" \/ Wedged)

\* execute implements the contract its caller relies on.
UnderWay == IF outcome = "raised" THEN {}
            ELSE queue \cup ({main.url} \ {NoUrl})
                 \cup {worker[w].url : w \in {v \in Workers : worker[v].pc \in {"open", "crawl", "put"}}}
Contract == INSTANCE BatchContract WITH active <- UnderWay
KeepsContract == Contract!CSpec
=============================================================================
