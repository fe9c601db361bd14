--------------------------- MODULE RunLifecycle ---------------------------
(***************************************************************************)
(* The life of one crawl run: its crawl_runs row, the API requests that    *)
(* pause, resume, kill, delete, recover and dispatch it, the dispatcher    *)
(* and broker that start executions of it, and the executors themselves,   *)
(* which claim the row under a lease and walk the run's URLs.              *)
(*                                                                         *)
(* Every process reads the row into an ORM copy in one transaction and     *)
(* writes from that copy in a later one (expire_on_commit and autoflush    *)
(* are off, READ COMMITTED), so a read and the write that uses it are two  *)
(* actions unless the code holds the row's lock from before the read.      *)
(***************************************************************************)
EXTENDS Naturals, FiniteSets

CONSTANTS
    Executors,    \* worker slots: Celery worker containers, or asyncio tasks
    Clients,      \* API requests in flight at once
    Urls,         \* the run's resolved URL list
    Celery,       \* settings.celery_dispatch_enabled
    Stalls,       \* may an executor outlive its own lease?
    MaxRequests,  \* bound: operator requests in a behaviour
    MaxFaults,    \* bound: crashes, redeliveries and failed calls
    NoExec        \* "no tracked local task"

ASSUME ModeAssumption == Celery \in BOOLEAN /\ Stalls \in BOOLEAN
ASSUME BoundAssumption == MaxRequests \in Nat /\ MaxFaults \in Nat
ASSUME NoExecAssumption == NoExec \notin Executors

VARIABLES
    row,        \* the crawl_runs row
    saved,      \* URLs with a crawl_url_results row
    exec,       \* executor slot -> the execution it runs
    client,     \* request slot -> the request it serves
    queue,      \* task ids waiting at the broker
    revoked,    \* task ids revoked by a pause or a kill
    task,       \* _local_run_tasks[run_id]
    lastToken,  \* the last dispatch or manual token handed out
    requests,   \* operator requests so far
    faults,     \* faults so far
    strayed,    \* history: a cancelled execution has changed row or saved since
    abandoned   \* history: a request that cancelled the task left the row as it was,
                \* or an execution left the run to the holder of a live lease

history == <<strayed, abandoned>>
vars == <<row, saved, exec, client, queue, revoked, task, lastToken, requests, faults,
          history>>

-----------------------------------------------------------------------------
(* The row and its status machine *)

Terminal == {"completed", "killed", "failed", "proxy_exhausted"}
Claimable == {"pending", "running"}
Statuses == Terminal \cup Claimable \cup {"paused"}

\* _ALLOWED_TRANSITIONS; a status may also be written over itself. The variant is a
\* mistake: the end of a pausing loop taken for the end of the run.
AllowedPausedCompletes(s) ==
    CASE s = "pending" -> {"running", "killed"}
      [] s = "running" -> {"paused"} \cup Terminal
      [] s = "paused"  -> {"running", "killed", "completed"}
      [] OTHER         -> {}
Allowed(s) ==
    CASE s = "pending" -> {"running", "killed"}
      [] s = "running" -> {"paused"} \cup Terminal
      [] s = "paused"  -> {"running", "killed"}
      [] OTHER         -> {}

CanMove(s, t) == s = t \/ t \in Allowed(s)

NoToken == 0
Controls == {"none", "pause", "kill"}
Verdicts == {"none", "final", "error"}

\* token, control and verdict are keys of the one JSONB column result_summary;
\* status "gone" is the deleted row; heard says last_heartbeat_at is within
\* stalled_run_threshold_seconds.
Row == [status: Statuses \cup {"gone"}, token: Nat, control: Controls,
        verdict: Verdicts, owner: Nat,
        lease: {"none", "live", "expired"}, heard: BOOLEAN]

NewRow == [status |-> "pending", token |-> NoToken, control |-> "none",
           verdict |-> "none", owner |-> NoToken, lease |-> "none", heard |-> TRUE]

Gone == row.status = "gone"
Summary(r) == <<r.token, r.control, r.verdict>>

\* The columns of the row that an ORM copy is written back from.
Copy == [status: Statuses \cup {"gone"}, token: Nat, control: Controls, verdict: Verdicts]
Loaded(r) == [status |-> r.status, token |-> r.token, control |-> r.control,
              verdict |-> r.verdict]

\* A unit of work writes the columns it changed, and result_summary as a whole:
\* the row after committing new, which started as the copy loaded.
WriteSummary(r, copy) ==
    [r EXCEPT !.token = copy.token, !.control = copy.control, !.verdict = copy.verdict]
Flush(loaded, new) ==
    LET r == IF new.status = loaded.status THEN row
             ELSE [row EXCEPT !.status = new.status]
    IN  IF Summary(new) = Summary(loaded) THEN r ELSE WriteSummary(r, new)

\* claim_run's, renew_run_lease's and release_run_lease's conditional UPDATEs. The
\* two variants of claim_run's WHERE clause are mistakes the properties must see.
MayClaimIgnoringLease(tok) == row.status \in Claimable
MayClaimIgnoringStatus(tok) == ~Gone /\ (row.owner # tok \/ row.lease # "live")
MayClaim(tok) == /\ row.status \in Claimable
                 /\ row.owner # tok \/ row.lease # "live"
HoldsAlways(tok) == ~Gone   \* mistake: the WHERE on queue_owner is missing
Holds(tok) == ~Gone /\ row.owner = tok
Leased(r, tok) == [r EXCEPT !.owner = tok, !.lease = "live", !.heard = TRUE]
ReleasedOwnerKept(r) == [r EXCEPT !.lease = "none", !.heard = TRUE]   \* mistake
Released(r) == [r EXCEPT !.owner = NoToken, !.lease = "none", !.heard = TRUE]

-----------------------------------------------------------------------------
(* Processes *)

Looping == {"check", "apply", "stage", "url", "record"}
Failing == {"fail", "failwrite", "refail", "refailwrite"}
ExecPcs == {"idle", "load", "claim", "resolve", "merge", "seed", "final", "finish", "exit"}
               \cup Looping \cup Failing
ClientPcs == {"idle", "pause", "resume", "kill", "delete",
              "recoverclear", "recoverload", "recover",
              "refresh", "sweep", "sweepclear", "sweepcommit", "dispatch", "enqueue"}

\* copy is the ORM object of process_run's session, todo the pending items; gated
\* says the commit gate has fired once, limited that max_records was reached,
\* stopped that a checkpoint ended the loop, revived (history) that a resume has
\* committed since. cancel is what became of task.cancel() on a local task.
Cancels == {"no", "asked", "swallowed"}
Execution == [pc: ExecPcs, msg: Nat, tok: Nat, copy: Copy, todo: SUBSET Urls,
              gated: BOOLEAN, limited: BOOLEAN, stopped: BOOLEAN, revived: BOOLEAN,
              request: Controls, cancel: Cancels]
IdleExec == [pc |-> "idle", msg |-> NoToken, tok |-> NoToken, copy |-> Loaded(NewRow),
             todo |-> {}, gated |-> FALSE, limited |-> FALSE, stopped |-> FALSE,
             revived |-> FALSE, request |-> "none", cancel |-> "no"]
\* copy is the request's ORM object, seen the status the sweep's own SELECT saw.
Client == [pc: ClientPcs, copy: Copy, seen: Claimable]
IdleClient == [pc |-> "idle", copy |-> Loaded(NewRow), seen |-> "pending"]

\* The executions that have claimed the run and not yet given up on it.
Working == {"resolve", "merge", "seed", "final", "finish"} \cup Looping \cup Failing

\* An execution carries on as x. One that was asked to end does so at its next
\* await: of its next step only the commit that was on its way is left. (Until then
\* that commit keeps other writers of the row waiting, which is left out here: it
\* may come later than it could.)
Become(e, x) ==
    exec' = [exec EXCEPT ![e] = IF exec[e].cancel = "asked" THEN IdleExec ELSE x]
Goto(e, pc) == Become(e, [exec[e] EXCEPT !.pc = pc])
Reply(c) == client' = [client EXCEPT ![c] = IdleClient]
Fault == faults < MaxFaults /\ faults' = faults + 1

TypeOK ==
    /\ row \in Row
    /\ saved \subseteq Urls
    /\ exec \in [Executors -> Execution]
    /\ client \in [Clients -> Client]
    /\ queue \subseteq Nat
    /\ revoked \subseteq Nat
    /\ task \in Executors \cup {NoExec}
    /\ lastToken \in Nat
    /\ requests \in Nat
    /\ faults \in Nat
    /\ strayed \in BOOLEAN /\ abandoned \in BOOLEAN

\* The run has just been inserted; the request that created it dispatches it.
Init ==
    /\ row = NewRow
    /\ saved = {}
    /\ exec = [e \in Executors |-> IdleExec]
    /\ \E c \in Clients :
         client = [d \in Clients |-> IF d = c THEN [IdleClient EXCEPT !.pc = "refresh"]
                                              ELSE IdleClient]
    /\ queue = {} /\ revoked = {} /\ task = NoExec
    /\ lastToken = 0 /\ requests = 0 /\ faults = 0
    /\ strayed = FALSE /\ abandoned = FALSE

-----------------------------------------------------------------------------
(* API requests *)

\* clear_local_run_task: drop the task from the registry and ask it to end; nobody
\* waits until it has.
ForgottenOnly == exec   \* mistake: the task is dropped from the registry, not cancelled
Cancelled == IF task = NoExec THEN exec ELSE [exec EXCEPT ![task].cancel = "asked"]
CancelLocal == exec' = Cancelled /\ task' = NoExec

\* The request loads the run; _run_control_update works from this copy.
Permits(op) ==
    CASE op = "pause"  -> row.status = "running"
      [] op = "resume" -> row.status = "paused"
      [] op = "kill"   -> row.status \notin Terminal
      [] op = "delete" -> row.status \in Terminal

Request(c, op) ==
    /\ client[c].pc = "idle" /\ requests < MaxRequests
    /\ ~Gone /\ Permits(op)
    /\ client' = [client EXCEPT ![c] = [IdleClient EXCEPT !.pc = op, !.copy = Loaded(row)]]
    /\ requests' = requests + 1
    /\ UNCHANGED <<row, saved, exec, queue, revoked, task, lastToken, faults, history>>

\* A live local task is asked to pause at its next checkpoint; a dispatched one
\* is revoked and the row paused at once; with neither the request is refused.
\* Recording the event locks the row before the task is cancelled or revoked, and
\* until the commit: Pause and Kill are one step.
Pause(c) ==
    LET copy == client[c].copy IN
    /\ client[c].pc = "pause" /\ ~Gone
    /\ \/ /\ task # NoExec
          /\ row' = Flush(copy, [copy EXCEPT !.control = "pause"])
          /\ UNCHANGED revoked
       \/ /\ task = NoExec /\ copy.token # NoToken
          /\ row' = Flush(copy, [copy EXCEPT !.status = "paused", !.token = NoToken])
          /\ revoked' = revoked \cup {copy.token}
       \/ /\ task = NoExec /\ copy.token = NoToken
          /\ UNCHANGED <<row, revoked>>
    /\ Reply(c)
    /\ UNCHANGED <<saved, exec, queue, task, lastToken, requests, faults, history>>

Kill(c) ==
    LET copy == client[c].copy
        dead == [copy EXCEPT !.status = "killed", !.token = NoToken]
    IN
    /\ client[c].pc = "kill" /\ ~Gone
    /\ \/ /\ task # NoExec
          /\ row' = Flush(copy, [dead EXCEPT !.control = "kill"])
          /\ CancelLocal
          /\ UNCHANGED revoked
       \/ /\ task = NoExec
          /\ row' = Flush(copy, dead)
          /\ revoked' = revoked \cup ({copy.token} \ {NoToken})
          /\ UNCHANGED <<exec, task>>
    /\ Reply(c)
    /\ UNCHANGED <<saved, queue, lastToken, requests, faults, history>>

\* Commits RUNNING first; the same request then goes on to dispatch the run. An
\* execution that had been stopped meanwhile finds the run active again.
Resume(c) ==
    LET copy == client[c].copy IN
    /\ client[c].pc = "resume" /\ ~Gone
    /\ row' = Flush(copy, [copy EXCEPT !.status = "running", !.control = "none",
                                       !.token = NoToken])
    /\ client' = [client EXCEPT ![c] = [IdleClient EXCEPT !.pc = "refresh"]]
    /\ exec' = [e \in Executors |-> [exec[e] EXCEPT !.revived = @ \/ exec[e].stopped]]
    /\ UNCHANGED <<saved, queue, revoked, task, lastToken, requests, faults, history>>

Delete(c) ==
    /\ client[c].pc = "delete" /\ ~Gone
    /\ row' = [NewRow EXCEPT !.status = "gone"]
    /\ saved' = {}
    /\ Reply(c)
    /\ UNCHANGED <<exec, queue, revoked, task, lastToken, requests, faults, history>>

\* The task is cancelled or revoked before the commit: when the commit fails (the
\* run was deleted, or the database is unavailable) only the row is left as it was.
ControlFails(c) ==
    /\ client[c].pc \in {"pause", "kill"}
    /\ \/ Gone /\ UNCHANGED faults
       \/ ~Gone /\ Fault
    /\ \/ /\ task # NoExec
          /\ IF client[c].pc = "kill"
             THEN CancelLocal /\ abandoned' = TRUE
             ELSE UNCHANGED <<exec, task, abandoned>>
          /\ UNCHANGED revoked
       \/ /\ task = NoExec
          /\ revoked' = revoked \cup ({client[c].copy.token} \ {NoToken})
          /\ UNCHANGED <<exec, task, abandoned>>
    /\ Reply(c)
    /\ UNCHANGED <<row, saved, queue, lastToken, requests, strayed>>

\* Every later flush, load or refresh of a deleted row raises or finds nothing: the
\* request ends there. (A sweep cancels the task before it comes to the row, and a
\* Celery enqueue comes before the refresh that raises.)
ClientAborts(c) ==
    /\ Gone /\ client[c].pc \notin {"idle", "pause", "kill", "recoverclear", "sweepclear"}
    /\ ~(Celery /\ client[c].pc = "enqueue")
    /\ Reply(c)
    /\ UNCHANGED <<row, saved, exec, queue, revoked, task, lastToken, requests, faults, history>>

-----------------------------------------------------------------------------
(* Dispatch and the recovery of stale local runs that precedes it *)

Refresh(c) ==
    /\ client[c].pc = "refresh" /\ ~Gone
    /\ client' = [client EXCEPT ![c].pc = IF Celery THEN "dispatch" ELSE "sweep",
                                ![c].copy = Loaded(row)]
    /\ UNCHANGED <<row, saved, exec, queue, revoked, task, lastToken, requests, faults, history>>

\* _should_recover_stale_run
Stale == \/ row.status = "pending" /\ row.token # NoToken
         \/ row.status \in Claimable /\ ~row.heard

\* Mistake: the legacy status name, which normalize_status would have mapped.
RecoveredAsCancelled(copy, seen) == [copy EXCEPT !.status = "cancelled"]

\* _recover_stale_local_run: what it makes of its copy, when the sweep's own read
\* of the status saw seen.
Recovered(copy, seen) ==
    CASE copy.status \in Terminal -> [copy EXCEPT !.token = NoToken]
      [] copy.status = seen ->
           [copy EXCEPT !.status = IF seen = "pending" THEN "killed" ELSE "failed",
                        !.token = NoToken, !.verdict = "error"]
      [] OTHER -> copy

\* A recovery that leaves the row as it is, although it has cancelled the task: the
\* run is no longer in the status its SELECT saw.
Spares(c) == client[c].copy.status \notin Terminal \cup {client[c].seen}

\* The sweep at backend start, or before the dispatch of another run, finds this
\* run stale ...
RecoverSelect(c) ==
    /\ client[c].pc = "idle" /\ requests < MaxRequests
    /\ ~Celery /\ Stale
    /\ client' = [client EXCEPT ![c].pc = "recoverclear", ![c].seen = row.status]
    /\ requests' = requests + 1
    /\ UNCHANGED <<row, saved, exec, queue, revoked, task, lastToken, faults, history>>

\* ... cancels its task once it is through with the stale runs before it ...
RecoverClear(c) ==
    /\ client[c].pc = "recoverclear"
    /\ CancelLocal
    /\ client' = [client EXCEPT ![c].pc = "recoverload"]
    /\ UNCHANGED <<row, saved, queue, revoked, lastToken, requests, faults, history>>

\* ... loads it ...
RecoverLoad(c) ==
    /\ client[c].pc = "recoverload" /\ ~Gone
    /\ client' = [client EXCEPT ![c].pc = "recover", ![c].copy = Loaded(row)]
    /\ UNCHANGED <<row, saved, exec, queue, revoked, task, lastToken, requests, faults,
                   history>>

\* ... and commits its end in a later statement.
RecoverCommit(c) ==
    LET copy == client[c].copy IN
    /\ client[c].pc = "recover" /\ ~Gone
    /\ row' = Flush(copy, Recovered(copy, client[c].seen))
    /\ abandoned' = (abandoned \/ Spares(c))
    /\ Reply(c)
    /\ UNCHANGED <<saved, exec, queue, revoked, task, lastToken, requests, faults,
                   strayed>>

\* The sweep that precedes this run's own dispatch may see this run too ...
SweepSelect(c) ==
    /\ client[c].pc = "sweep" /\ ~Gone
    /\ client' = IF Stale
                 THEN [client EXCEPT ![c].pc = "sweepclear", ![c].seen = row.status]
                 ELSE [client EXCEPT ![c].pc = "dispatch"]
    /\ UNCHANGED <<row, saved, exec, queue, revoked, task, lastToken, requests, faults, history>>

SweepClear(c) ==
    /\ client[c].pc = "sweepclear"
    /\ CancelLocal
    /\ client' = [client EXCEPT ![c].pc = "sweepcommit"]
    /\ UNCHANGED <<row, saved, queue, revoked, lastToken, requests, faults, history>>

\* ... and works on the copy the request already holds.
SweepCommit(c) ==
    LET copy == client[c].copy
        new  == Recovered(copy, client[c].seen)
    IN
    /\ client[c].pc = "sweepcommit" /\ ~Gone
    /\ row' = Flush(copy, new)
    /\ abandoned' = (abandoned \/ Spares(c))
    /\ client' = [client EXCEPT ![c] = [IdleClient EXCEPT !.pc = "dispatch", !.copy = new]]
    /\ UNCHANGED <<saved, exec, queue, revoked, task, lastToken, requests, faults,
                   strayed>>

DispatchRefused(c) ==
    /\ client[c].pc = "dispatch" /\ ~Gone
    /\ client[c].copy.status \notin Claimable
    /\ Reply(c)
    /\ UNCHANGED <<row, saved, exec, queue, revoked, task, lastToken, requests, faults, history>>

\* Writes a fresh task id, and commits it before anything can run under it.
Dispatch(c) ==
    LET copy == client[c].copy
        new  == [copy EXCEPT !.token = lastToken + 1]
    IN
    /\ client[c].pc = "dispatch" /\ ~Gone
    /\ copy.status \in Claimable
    /\ lastToken' = lastToken + 1
    /\ row' = Flush(copy, new)
    /\ client' = [client EXCEPT ![c].pc = "enqueue", ![c].copy = new]
    /\ UNCHANGED <<saved, exec, queue, revoked, task, requests, faults, history>>

\* CeleryRunDispatcher: apply_async under the committed task id.
Enqueue(c) ==
    /\ Celery /\ client[c].pc = "enqueue"
    /\ queue' = queue \cup {client[c].copy.token}
    /\ Reply(c)
    /\ UNCHANGED <<row, saved, exec, revoked, task, lastToken, requests, faults, history>>

EnqueueFails(c) ==
    LET copy == client[c].copy IN
    /\ Celery /\ client[c].pc = "enqueue" /\ Fault
    /\ row' = IF Gone THEN row ELSE Flush(copy, [copy EXCEPT !.token = NoToken])
    /\ Reply(c)
    /\ UNCHANGED <<saved, exec, queue, revoked, task, lastToken, requests, history>>

\* LocalRunDispatcher: track_local_run_task cancels the task it replaces.
Launch(c, e) ==
    /\ ~Celery /\ client[c].pc = "enqueue" /\ ~Gone
    /\ exec[e].pc = "idle"
    /\ exec' = [Cancelled EXCEPT ![e] = [IdleExec EXCEPT !.pc = "load",
                                            !.msg = client[c].copy.token]]
    /\ task' = e
    /\ Reply(c)
    /\ UNCHANGED <<row, saved, queue, revoked, lastToken, requests, faults, history>>

\* A worker takes a task id off the broker, or drops one it knows is revoked.
Receive(e, m) ==
    /\ m \in queue /\ exec[e].pc = "idle"
    /\ queue' = queue \ {m}
    /\ exec' = [exec EXCEPT ![e] = [IdleExec EXCEPT !.pc = "load", !.msg = m]]
    /\ UNCHANGED <<row, saved, client, revoked, task, lastToken, requests, faults, history>>

Discard(m) ==
    /\ m \in queue \cap revoked
    /\ queue' = queue \ {m}
    /\ UNCHANGED <<row, saved, exec, client, revoked, task, lastToken, requests, faults, history>>

-----------------------------------------------------------------------------
(* One execution of process_run *)

\* Load, with populate_existing; nothing to do unless the run is active.
Load(e) ==
    /\ exec[e].pc = "load"
    /\ \/ /\ row.status \in Claimable
          /\ lastToken' = IF row.token = NoToken THEN lastToken + 1 ELSE lastToken
          /\ Become(e, [exec[e] EXCEPT !.pc = "claim", !.copy = Loaded(row),
                          !.tok = IF row.token = NoToken THEN lastToken + 1 ELSE row.token])
       \/ /\ row.status \notin Claimable
          /\ Goto(e, "exit")
          /\ UNCHANGED lastToken
    /\ UNCHANGED <<row, saved, client, queue, revoked, task, requests, faults>>

\* The conditional UPDATE locks the row, so PENDING -> RUNNING commits with it.
Claim(e) ==
    /\ exec[e].pc = "claim"
    /\ \/ /\ MayClaim(exec[e].tok)
          /\ row' = Leased(Flush(exec[e].copy, [exec[e].copy EXCEPT !.status = "running"]),
                           exec[e].tok)
          /\ Become(e, [exec[e] EXCEPT !.pc = "resolve", !.copy.status = "running"])
       \/ /\ ~MayClaim(exec[e].tok)
          /\ Goto(e, "exit")
          /\ UNCHANGED row
    /\ UNCHANGED <<saved, client, queue, revoked, task, lastToken, requests, faults>>

\* Skip the URLs that already have a result row ...
Resolve(e) ==
    /\ exec[e].pc = "resolve"
    /\ Become(e, [exec[e] EXCEPT !.pc = "merge", !.todo = Urls \ saved])
    /\ UNCHANGED <<row, saved, client, queue, revoked, task, lastToken, requests, faults>>

\* ... and refresh result_summary before the progress is merged into it.
Merge(e) ==
    /\ exec[e].pc = "merge"
    /\ Become(e, IF Gone THEN [exec[e] EXCEPT !.pc = "fail"]
                 ELSE [exec[e] EXCEPT !.pc = "seed", !.copy = WriteSummary(@, row)])
    /\ UNCHANGED <<row, saved, client, queue, revoked, task, lastToken, requests, faults>>

\* Where the loop goes once a URL is done: the next checkpoint or the end. The two
\* variants are mistakes: one leaves the last pending URL out, one never ends.
NextPcShort(x) == IF Cardinality(x.todo) <= 1 \/ x.limited THEN "final" ELSE "check"
NextPcEndless(x) == IF x.limited THEN "final" ELSE "check"
NextPc(x) == IF x.todo = {} \/ x.limited THEN "final" ELSE "check"

\* Publishes the seeded progress from the refreshed copy, in a later statement.
Seed(e) ==
    /\ exec[e].pc = "seed"
    /\ row' = IF Gone THEN row ELSE WriteSummary(row, exec[e].copy)
    /\ Goto(e, IF Gone THEN "fail" ELSE NextPc(exec[e]))
    /\ UNCHANGED <<saved, client, queue, revoked, task, lastToken, requests, faults>>

\* _run_control_checkpoint before each URL, in a transaction of its own.
Checkpoint(e) ==
    /\ exec[e].pc = "check"
    /\ Become(e, IF row.status \in Claimable
                 THEN [exec[e] EXCEPT !.pc = IF row.control = "none" THEN "stage" ELSE "apply",
                                      !.request = row.control]
                 ELSE [exec[e] EXCEPT !.pc = "final", !.stopped = TRUE])
    /\ UNCHANGED <<row, saved, client, queue, revoked, task, lastToken, requests, faults>>

\* _apply_control_checkpoint: the release locks the row before the refresh.
ApplyControl(e) ==
    LET target == IF exec[e].request = "pause" THEN "paused" ELSE "killed" IN
    /\ exec[e].pc = "apply"
    /\ \/ /\ Holds(exec[e].tok) /\ CanMove(row.status, target)
          /\ row' = [Released(row) EXCEPT !.status = target, !.control = "none"]
          /\ Become(e, [exec[e] EXCEPT !.pc = "final", !.stopped = TRUE])
       \/ /\ Holds(exec[e].tok) /\ ~CanMove(row.status, target)
          /\ Goto(e, "fail")
          /\ UNCHANGED row
       \/ /\ ~Holds(exec[e].tok)
          /\ Goto(e, "exit")
          /\ UNCHANGED row
    /\ UNCHANGED <<saved, client, queue, revoked, task, lastToken, requests, faults>>

\* set_stage: writes the whole summary from the copy, without refreshing it. For
\* the first URL the seeded progress says the same already and nothing is flushed.
SetStage(e) ==
    /\ exec[e].pc = "stage"
    /\ \/ /\ ~exec[e].gated
          /\ Goto(e, "url")
          /\ UNCHANGED row
       \/ /\ exec[e].gated /\ ~Gone
          /\ row' = WriteSummary(row, exec[e].copy)
          /\ Goto(e, "url")
       \/ /\ exec[e].gated /\ Gone
          /\ Goto(e, "fail")
          /\ UNCHANGED row
    /\ UNCHANGED <<saved, client, queue, revoked, task, lastToken, requests, faults>>

\* process_url_in_owned_session: commits a result row, or recovers a timeout or
\* an exception without one. limit is record_count >= max_records, records of
\* earlier executions included.
ProcessUrl(e) ==
    /\ exec[e].pc = "url"
    /\ \/ /\ Gone
          /\ Goto(e, "fail")
          /\ UNCHANGED saved
       \/ /\ ~Gone
          /\ \E u \in exec[e].todo, ok \in BOOLEAN, limit \in BOOLEAN :
               /\ saved' = IF ok THEN saved \cup {u} ELSE saved
               /\ Become(e, [exec[e] EXCEPT !.pc = "record", !.todo = @ \ {u},
                                            !.limited = limit])
    /\ UNCHANGED <<row, client, queue, revoked, task, lastToken, requests, faults>>

\* _record_url_result: when the commit gate is due (always for the first URL),
\* renew the lease (which locks the row), refresh the summary and publish;
\* otherwise only count.
RecordUrl(e) ==
    /\ exec[e].pc = "record"
    /\ \/ /\ exec[e].gated
          /\ Goto(e, NextPc(exec[e]))
          /\ UNCHANGED row
       \/ /\ Holds(exec[e].tok)
          /\ row' = Leased(row, exec[e].tok)
          /\ Become(e, [exec[e] EXCEPT !.pc = NextPc(exec[e]), !.gated = TRUE,
                                       !.copy = WriteSummary(@, row)])
       \/ /\ ~Holds(exec[e].tok)
          /\ Goto(e, "exit")
          /\ UNCHANGED row
    /\ UNCHANGED <<saved, client, queue, revoked, task, lastToken, requests, faults>>

\* _finalize_completed_run reads the status once more, then ...
FinalCheckpoint(e) ==
    /\ exec[e].pc = "final"
    /\ Goto(e, IF Gone \/ row.status \in Terminal THEN "exit" ELSE "finish")
    /\ UNCHANGED <<row, saved, client, queue, revoked, task, lastToken, requests, faults>>

\* ... releases the lease, refreshes and completes the run in one transaction.
Finish(e) ==
    /\ exec[e].pc = "finish"
    /\ \/ /\ Holds(exec[e].tok) /\ CanMove(row.status, "completed")
          /\ row' = [Released(row) EXCEPT !.status = "completed", !.verdict = "final"]
          /\ Goto(e, "exit")
       \/ /\ Holds(exec[e].tok) /\ ~CanMove(row.status, "completed")
          /\ Goto(e, "fail")
          /\ UNCHANGED row
       \/ /\ ~Holds(exec[e].tok)
          /\ Goto(e, "exit")
          /\ UNCHANGED row
    /\ UNCHANGED <<saved, client, queue, revoked, task, lastToken, requests, faults>>

\* A database error, or a completion event that could not be stored. While the
\* failure is being recorded it is tried once more in a session of its own, and
\* then the run is left as it is.
Breaks(e) ==
    /\ exec[e].pc \in Working /\ Fault
    /\ Goto(e, CASE exec[e].pc \in {"fail", "failwrite"} -> "refail"
                 [] exec[e].pc \in {"refail", "refailwrite"} -> "exit"
                 [] OTHER -> "fail")
    /\ UNCHANGED <<row, saved, client, queue, revoked, task, lastToken, requests, history>>

\* persist_failure_state: loads the row again, without a lock ...
FailLoad(e) ==
    /\ exec[e].pc \in {"fail", "refail"}
    /\ Become(e, IF Gone THEN [exec[e] EXCEPT !.pc = "exit"]
                 ELSE [exec[e] EXCEPT !.pc = IF @ = "fail" THEN "failwrite" ELSE "refailwrite",
                                      !.copy = Loaded(row)])
    /\ UNCHANGED <<row, saved, client, queue, revoked, task, lastToken, requests, faults>>

\* ... and writes FAILED from what it loaded, whoever owns the run by now. A
\* paused run has no move to FAILED: that error escapes process_run, and the local
\* task's own handler records the failure again.
FailWrite(e) ==
    LET copy == exec[e].copy
        failed == [copy EXCEPT !.verdict = "error"]
        legal == copy.status \in Terminal \/ CanMove(copy.status, "failed")
    IN
    /\ exec[e].pc \in {"failwrite", "refailwrite"}
    /\ row' = CASE Gone \/ ~legal            -> row
                [] copy.status \in Terminal -> WriteSummary(row, failed)
                [] OTHER -> WriteSummary([row EXCEPT !.status = "failed"], failed)
    /\ Goto(e, IF exec[e].pc = "failwrite" /\ ~Celery /\ ~legal THEN "refail" ELSE "exit")
    /\ UNCHANGED <<saved, client, queue, revoked, task, lastToken, requests, faults>>

\* A cancelled local task ends where it stands, with nothing sent ...
CancelLands(e) ==
    /\ exec[e].cancel = "asked" /\ exec[e].pc # "idle"
    /\ exec' = [exec EXCEPT ![e] = IdleExec]
    /\ UNCHANGED <<row, saved, client, queue, revoked, task, lastToken, requests, faults>>

\* ... unless the cancellation meets a browser attempt that waits for its own timed
\* out fetch and suppresses it: the execution goes on, and nothing tracks it.
CancelSwallowed(e) ==
    /\ exec[e].cancel = "asked" /\ exec[e].pc = "url"
    /\ exec' = [exec EXCEPT ![e].cancel = "swallowed"]
    /\ UNCHANGED <<row, saved, client, queue, revoked, task, lastToken, requests, faults>>

\* The task is done: acknowledged to the broker, or dropped from the registry.
Exit(e) ==
    /\ exec[e].pc = "exit"
    /\ exec' = [exec EXCEPT ![e] = IdleExec]
    /\ task' = IF task = e THEN NoExec ELSE task
    /\ UNCHANGED <<row, saved, client, queue, revoked, lastToken, requests, faults>>

-----------------------------------------------------------------------------
(* Time and faults *)

\* Time shows only where it is looked at: in an active run, the lease by a claim
\* and the heartbeat by local recovery. A lease outlasts two URL timeouts, so unless
\* Stalls it runs out only behind an execution that is no longer there.
ExpireLease ==
    /\ row.status \in Claimable /\ row.lease = "live"
    /\ Stalls \/ \A e \in Executors : exec[e].pc \in Working => exec[e].tok # row.owner
    /\ row' = [row EXCEPT !.lease = "expired"]
    /\ UNCHANGED <<saved, exec, client, queue, revoked, task, lastToken, requests, faults,
                   history>>

AgeHeartbeat ==
    /\ ~Celery /\ row.status \in Claimable /\ row.heard
    /\ row' = [row EXCEPT !.heard = FALSE]
    /\ UNCHANGED <<saved, exec, client, queue, revoked, task, lastToken, requests, faults,
                   history>>

\* A worker container stops: its unacknowledged message goes back to the broker.
WorkerLost(e) ==
    /\ Celery /\ exec[e].pc # "idle" /\ Fault
    /\ queue' = queue \cup {exec[e].msg}
    /\ exec' = [exec EXCEPT ![e] = IdleExec]
    /\ UNCHANGED <<row, saved, client, revoked, task, lastToken, requests, history>>

\* task_acks_late: past the visibility timeout, delivered again while it still runs.
Redeliver(e) ==
    /\ Celery /\ exec[e].pc # "idle" /\ Fault
    /\ queue' = queue \cup {exec[e].msg}
    /\ UNCHANGED <<row, saved, exec, client, revoked, task, lastToken, requests, history>>

\* revoke(terminate=True): SIGTERM cancels the run task wherever it is, if the
\* worker gets to read the command; the message is acknowledged or given back. (A
\* task that suppresses it inside a URL is one that was never terminated.)
Terminated(e) ==
    /\ Celery /\ exec[e].pc # "idle" /\ exec[e].msg \in revoked
    /\ exec' = [exec EXCEPT ![e] = IdleExec]
    /\ \/ UNCHANGED <<queue, faults>>
       \/ Fault /\ queue' = queue \cup {exec[e].msg}
    /\ UNCHANGED <<row, saved, client, revoked, task, lastToken, requests, history>>

\* The backend goes down: its requests end, and with local dispatch its tasks.
BackendCrash ==
    /\ Fault
    /\ client' = [c \in Clients |-> IdleClient]
    /\ exec' = IF Celery THEN exec ELSE [e \in Executors |-> IdleExec]
    /\ task' = NoExec
    /\ UNCHANGED <<row, saved, queue, revoked, lastToken, requests, history>>

-----------------------------------------------------------------------------
(* Specification *)

ClientStep(c) ==
    \/ Pause(c) \/ Resume(c) \/ Kill(c) \/ Delete(c) \/ ClientAborts(c)
    \/ RecoverClear(c) \/ RecoverLoad(c) \/ RecoverCommit(c)
    \/ Refresh(c) \/ SweepSelect(c) \/ SweepClear(c) \/ SweepCommit(c)
    \/ DispatchRefused(c) \/ Dispatch(c) \/ Enqueue(c)
    \/ \E e \in Executors : Launch(c, e)

ExecAction(e) ==
    \/ Load(e) \/ Claim(e) \/ Resolve(e) \/ Merge(e) \/ Seed(e) \/ Checkpoint(e)
    \/ ApplyControl(e) \/ SetStage(e) \/ ProcessUrl(e) \/ RecordUrl(e)
    \/ FinalCheckpoint(e) \/ Finish(e) \/ FailLoad(e) \/ FailWrite(e) \/ Exit(e)
    \/ CancelLands(e) \/ CancelSwallowed(e)

\* claim_run refused: process_run leaves the run to the owner it takes to be live.
Joins(e) == /\ exec[e].pc = "claim" /\ exec[e].cancel = "no"
            /\ row.status \in Claimable /\ ~MayClaim(exec[e].tok)

ExecStep(e) ==
    /\ ExecAction(e)
    /\ strayed' = (strayed \/ (exec[e].cancel # "no" /\ <<row, saved>>' # <<row, saved>>))
    /\ abandoned' = (abandoned \/ Joins(e))

Deliver == \E m \in queue : Discard(m) \/ \E e \in Executors : Receive(e, m)

Next ==
    \/ \E c \in Clients :
         \/ \E op \in {"pause", "resume", "kill", "delete"} : Request(c, op)
         \/ RecoverSelect(c)
         \/ ClientStep(c)
         \/ ControlFails(c) \/ EnqueueFails(c)
    \/ \E e \in Executors :
         ExecStep(e) \/ Breaks(e) \/ WorkerLost(e) \/ Redeliver(e) \/ Terminated(e)
    \/ Deliver
    \/ ExpireLease \/ AgeHeartbeat \/ BackendCrash

Spec == Init /\ [][Next]_vars

\* A request handler, a scheduled coroutine and the broker's delivery go on while
\* they can, and a lease runs out; requests and faults need never come.
Fairness ==
    /\ \A c \in Clients : WF_vars(ClientStep(c))
    /\ \A e \in Executors : WF_vars(ExecStep(e))
    /\ WF_vars(Deliver)
    /\ WF_vars(ExpireLease)

FairSpec == Spec /\ Fairness

-----------------------------------------------------------------------------
(* Properties *)

\* queue_owner and lease_expires_at are written by three separate UPDATE statements
\* (claim, renew, release) and by no other writer of the row: between any two
\* commits of anybody, a lease time is there exactly when an owner is.
LeaseHasOwner == ~Gone => (row.owner = NoToken <=> row.lease = "none")

\* With local dispatch the registry of one task per run is the only thing between
\* an operator's clicks and two executions of one run: whatever the order of
\* dispatches, recoveries, kills and completions, an execution that runs is either
\* the one _local_run_tasks tracks, so that pause and kill reach it, or one whose
\* task.cancel() has been called (and that may still swallow it).
SingleLocalExecution ==
    ~Celery => \A e \in Executors :
                 exec[e].pc # "idle" /\ exec[e].cancel = "no" => task = e

\* claim_run refuses a redelivery while the first delivery's lease is live: at most
\* one execution works under one dispatch token.
OneExecutionPerToken ==
    \A e, f \in Executors :
        /\ exec[e].pc \in Working /\ exec[f].pc \in Working
        /\ exec[e].tok = exec[f].tok
        => e = f

\* The pending items were computed from crawl_url_results when the execution began
\* (seed_progress_from_completed_entries): nobody else has saved one of them since,
\* so no URL with a result row is crawled again - as long as no execution writes
\* after its cancellation.
FreshWork ==
    ~strayed => \A e \in Executors :
                  exec[e].pc \in Looping /\ exec[e].cancel = "no"
                      => exec[e].todo \cap saved = {}

\* PAUSED is only written with the executor at a checkpoint or gone: nobody but a
\* task already cancelled is inside a URL of a paused run (local dispatch; with
\* Celery the row is paused at once and the executor notices later).
PausedIsQuiet ==
    ~Celery /\ ~strayed /\ row.status = "paused" =>
        \A e \in Executors :
            exec[e].cancel = "no" => exec[e].pc \notin {"stage", "url", "record"}

Completes == row.status # "completed" /\ row'.status = "completed"

\* _finalize_completed_run: a run completes only with every pending URL tried, or at
\* its record limit: no takeover, re-entry, sweep or swallowed cancellation turns
\* into a completion of the rest. The one way past it is an execution that a
\* checkpoint stopped, and that an operator's resume overtook before it finished.
CompletedCoversWork ==
    [][Completes => \E e \in Executors :
            /\ exec[e].pc = "finish"
            /\ \/ exec[e].todo = {} \/ exec[e].limited
               \/ (exec[e].stopped /\ exec[e].revived)]_vars

\* No transition leaves a terminal status (_ALLOWED_TRANSITIONS), although every
\* writer checks it on a copy that may be stale; the row can only be deleted.
TerminalStays == [][row.status \in Terminal => row'.status \in {row.status, "gone"}]_vars

\* "Reload the small summary column to avoid clobbering newer control requests"
\* (_record_url_result): an executor takes a control request off the row only by
\* applying it.
ControlRequestsPreserved ==
    [][\A e \in Executors :
            exec'[e] # exec[e] /\ row.control # "none" /\ row'.control = "none"
                => exec[e].pc = "apply"]_vars

\* recover_stale_local_runs ends a RUNNING run as "interrupted by backend restart or
\* process termination": it does so only if there was one.
OnlyInterruptedRunsFail ==
    [][\A c \in Clients :
            /\ client[c].pc \in {"sweepcommit", "recover"} /\ client'[c] # client[c]
            /\ row.status = "running" /\ row'.status = "failed"
            => faults > 0]_vars


\* A run somebody dispatched, or resumed, does not stay PENDING or RUNNING for
\* ever: it completes, fails, is killed, is paused or is deleted - unless a request
\* cancelled its task and then left its row alone, or an execution took the lease
\* of a cancelled one under the same token for that of a live owner, or a cancelled
\* execution wrote once more.
RunSettles ==
    row.status \in Claimable ~> row.status \notin Claimable \/ abandoned \/ strayed

\* "On re-entry (redelivery, crash recovery, resume) ... the run resumes": a run
\* that an execution has claimed does not stay RUNNING for ever, even if the
\* worker that executes it is lost and its message delivered again.
ClaimedRunSettles == row.status = "running" ~> row.status # "running"
=============================================================================
