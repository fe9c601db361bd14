---------------------------- MODULE JobDispatch ----------------------------
(***************************************************************************)
(* Data-enrichment jobs (enrichment/service.py): a request creates a job   *)
(* over crawl records and dispatches it to Celery, or to a task of the API *)
(* process; an execution sweeps orphaned jobs, claims its own by writing   *)
(* RUNNING, enriches record after record and writes the outcome            *)
(* (core/celery_app.py, tasks.py).                                         *)
(*                                                                         *)
(* No row is locked: what is read before an await is written after it.     *)
(* _fail_stuck_job, which reads and writes a job's products and records in *)
(* one transaction, is one step.  A job is dispatched once, so its task id *)
(* is a Boolean; deleted jobs and records are left out.                    *)
(***************************************************************************)
EXTENDS Integers, FiniteSets

CONSTANTS
    Jobs,          \* the jobs, each created by one request
    Records,       \* crawl records of an ecommerce-detail run, in their order
    Selected,      \* the records the request for a job asks for
    Executions,    \* executions at once, of workers and of the API process
    UseCelery,     \* settings.celery_dispatch_enabled
    MaxJobFaults,  \* bound: losses, redeliveries, errors of database and broker
    NoJob

ASSUME JobDispatchAssumption ==
    /\ Records \subseteq Nat
    /\ Selected \in [Jobs -> SUBSET Records]
    /\ UseCelery \in BOOLEAN
    /\ MaxJobFaults \in Nat
    /\ NoJob \notin Jobs

VARIABLES
    job,       \* the job's row
    product,   \* the one EnrichedProduct of a record
    record,    \* enrichment_status of a record
    request,   \* the request that creates and dispatches a job
    accepted,  \* the records it read as eligible
    queued,    \* messages for a job waiting at the broker
    taskState, \* state of its task in the result backend
    work,      \* what an execution does
    jobFaults, \* faults so far
    doubled,   \* history: jobs whose message was there twice
    misjudged, \* history: jobs failed while an execution of them was alive
    stolen,    \* history: records a job took while another was at work on them
    dropped    \* history: jobs whose execution raised in its own handler

rows == <<job, product, record>>
history == <<doubled, misjudged, stolen, dropped>>
jobVars == <<rows, request, accepted, queued, taskState, work, jobFaults, history>>

Skipped == {"pending", "running"}
Ended == {"enriched", "degraded", "failed"}

\* hasTask: the summary holds a task id; age: since the row was last written,
\* 1 and 2 past job_orphaned_after and job_orphaned_pending_after_seconds.
JobRows == [status : {"none"} \cup Skipped \cup Ended, hasTask : BOOLEAN, age : 0..2]

NoWork == [at |-> "free"]

Work == [at : {"sweeping", "entered", "loaded", "claimed", "enriching", "failing"},
         job : Jobs, celery : BOOLEAN, doomed : SUBSET Jobs, left : SUBSET Records,
         current : SUBSET Records, enriched : BOOLEAN, failed : BOOLEAN]

JobTypeOK ==
    /\ job \in [Jobs -> JobRows]
    /\ product \in [Records -> [job : Jobs \cup {NoJob},
                                status : {"none", "enriched", "failed"} \cup Skipped]]
    /\ record \in [Records -> {"unenriched", "enriched", "failed"} \cup Skipped]
    /\ request \in [Jobs -> {"none", "chosen", "created", "recorded", "fallback", "over"}]
    /\ accepted \in [Jobs -> SUBSET Records]
    /\ queued \in [Jobs -> Nat]
    /\ taskState \in [Jobs -> {"PENDING", "STARTED", "OVER"}]
    /\ work \in [Executions -> {NoWork} \cup Work]
    /\ \A w \in Executions : work[w] # NoWork =>
            work[w].left \cup work[w].current \subseteq Selected[work[w].job]
    /\ jobFaults \in 0..MaxJobFaults
    /\ doubled \subseteq Jobs
    /\ misjudged \subseteq Jobs
    /\ stolen \subseteq Records
    /\ dropped \subseteq Jobs

JobInit ==
    /\ job = [j \in Jobs |-> [status |-> "none", hasTask |-> FALSE, age |-> 0]]
    /\ product = [r \in Records |-> [job |-> NoJob, status |-> "none"]]
    /\ record = [r \in Records |-> "unenriched"]
    /\ request = [j \in Jobs |-> "none"]
    /\ accepted = [j \in Jobs |-> {}]
    /\ queued = [j \in Jobs |-> 0]
    /\ taskState = [j \in Jobs |-> "PENDING"]
    /\ work = [w \in Executions |-> NoWork]
    /\ jobFaults = 0
    /\ doubled = {}
    /\ misjudged = {}
    /\ stolen = {}
    /\ dropped = {}

JobFault == jobFaults < MaxJobFaults /\ jobFaults' = jobFaults + 1

Busy(w) == work[w] # NoWork

\* Executions that have claimed job j and not yet left it.
AtWork(j) ==
    {w \in Executions : Busy(w) /\ work[w].job = j /\ work[w].at \in {"claimed", "enriching"}}

Requested(j, phase) == request' = [request EXCEPT ![j] = phase]

----------------------------------------------------------------------------
(* create_data_enrichment_job and dispatch_data_enrichment_job *)

\* The records are read, and those already pending or running left out.
Choose(j) ==
    LET eligible == {r \in Selected[j] : record[r] \notin Skipped} IN
    /\ request[j] = "none"
    /\ eligible # {}
    /\ accepted' = [accepted EXCEPT ![j] = eligible]
    /\ Requested(j, "chosen")
    /\ UNCHANGED <<rows, queued, taskState, work, jobFaults, history>>

\* The upsert takes a record's product from whichever job has it.
Upserted(j, mine) ==
    [r \in Records |-> IF r \in mine THEN [job |-> j, status |-> "pending"] ELSE product[r]]

Create(j) ==
    LET mine == accepted[j] IN
    /\ request[j] = "chosen"
    /\ job' = [job EXCEPT ![j].status = "pending"]
    /\ product' = Upserted(j, mine)
    /\ record' = [r \in Records |-> IF r \in mine THEN "pending" ELSE record[r]]
    /\ stolen' = stolen \cup {r \in mine :
                     \/ record[r] \in Skipped
                     \/ \E w \in Executions : Busy(w) /\ r \in work[w].left \cup work[w].current}
    /\ accepted' = [accepted EXCEPT ![j] = {}]
    /\ Requested(j, IF UseCelery THEN "created" ELSE "fallback")
    /\ UNCHANGED <<queued, taskState, work, jobFaults, doubled, misjudged, dropped>>

RecordTaskId(j) ==
    /\ request[j] = "created"
    /\ job' = [job EXCEPT ![j].hasTask = TRUE]
    /\ Requested(j, "recorded")
    /\ UNCHANGED <<product, record, accepted, queued, taskState, work, jobFaults, history>>

\* mistake: the job is started in the process as well.
EnqueueAndStart(j) ==
    /\ request[j] = "recorded"
    /\ queued' = [queued EXCEPT ![j] = @ + 1]
    /\ Requested(j, "fallback")
    /\ UNCHANGED <<rows, accepted, taskState, work, jobFaults, history>>

Enqueue(j) ==
    /\ request[j] = "recorded"
    /\ queued' = [queued EXCEPT ![j] = @ + 1]
    /\ Requested(j, "over")
    /\ UNCHANGED <<rows, accepted, taskState, work, jobFaults, history>>

\* apply_async raises; the broker may have the message all the same.
EnqueueRaises(j, sent) ==
    /\ request[j] = "recorded"
    /\ JobFault
    /\ job' = [job EXCEPT ![j].hasTask = FALSE]
    /\ queued' = [queued EXCEPT ![j] = IF sent THEN @ + 1 ELSE @]
    /\ doubled' = IF sent THEN doubled \cup {j} ELSE doubled
    /\ Requested(j, "fallback")
    /\ UNCHANGED <<product, record, accepted, taskState, work, misjudged, stolen, dropped>>

----------------------------------------------------------------------------
(* recover_orphaned_data_enrichment_jobs, on entry of every execution *)

\* celery_task_is_gone, as seen by an execution of job own; without the result
\* backend only rows without a task id are judged.
Gone(j, own, celery, backend) ==
    IF ~job[j].hasTask THEN job[j].age >= 1
    ELSE /\ ~(celery /\ j = own)
         /\ backend
         /\ \/ taskState[j] = "OVER"
            \/ taskState[j] = "PENDING" /\ job[j].age = 2

Doomed(own, celery, backend) ==
    {j \in Jobs : job[j].status = "running" /\ Gone(j, own, celery, backend)}

\* mistake: the job fails without its products and records.
FailStuckAlone(failing) ==
    /\ job' = [j \in Jobs |-> IF j \in failing
                               THEN [job[j] EXCEPT !.status = "failed", !.age = 0]
                               ELSE job[j]]
    /\ UNCHANGED <<product, record>>

\* _fail_stuck_job of the jobs failing.
FailStuck(failing) ==
    LET open == {r \in Records : product[r].job \in failing /\ product[r].status \in Skipped}
    IN  /\ job' = [j \in Jobs |-> IF j \in failing
                                  THEN [job[j] EXCEPT !.status = "failed", !.age = 0]
                                  ELSE job[j]]
        /\ product' = [r \in Records |-> IF r \in open
                                         THEN [product[r] EXCEPT !.status = "failed"]
                                         ELSE product[r]]
        /\ record' = [r \in Records |-> IF r \in open /\ record[r] \in Skipped
                                        THEN "failed" ELSE record[r]]

Judged(failing) ==
    misjudged' = misjudged \cup {j \in failing : AtWork(j) # {}}

Entry(w, j, celery) ==
    \E backend \in BOOLEAN :
        work' = [work EXCEPT ![w] =
                    [at |-> "sweeping", job |-> j, celery |-> celery,
                     doomed |-> Doomed(j, celery, backend), left |-> {}, current |-> {},
                     enriched |-> FALSE, failed |-> FALSE]]

\* A worker takes a message; it acknowledges it at the end (task_acks_late).
TakeMessage(w, j) ==
    /\ ~Busy(w)
    /\ queued[j] > 0
    /\ queued' = [queued EXCEPT ![j] = @ - 1]
    /\ Entry(w, j, TRUE)
    /\ taskState' = [taskState EXCEPT ![j] = "STARTED"]
    /\ UNCHANGED <<rows, request, accepted, jobFaults, history>>

StartInProcess(w, j) ==
    /\ ~Busy(w)
    /\ request[j] = "fallback"
    /\ Requested(j, "over")
    /\ Entry(w, j, FALSE)
    /\ UNCHANGED <<rows, accepted, queued, taskState, jobFaults, history>>

Moves(w, at) == work' = [work EXCEPT ![w].at = at]

Sweep(w) ==
    /\ work[w].at = "sweeping"
    /\ FailStuck(work[w].doomed)
    /\ Judged(work[w].doomed)
    /\ Moves(w, "entered")
    /\ UNCHANGED <<request, accepted, queued, taskState, jobFaults, doubled, stolen, dropped>>

----------------------------------------------------------------------------
(* run_data_enrichment_job, run_job *)

Finishes(w) ==
    /\ work' = [work EXCEPT ![w] = NoWork]
    /\ taskState' = [taskState EXCEPT ![work[w].job] = IF work[w].celery THEN "OVER" ELSE @]

\* mistake: a job that is not pending is never touched.
LoadPendingOnly(w) ==
    LET j == work[w].job IN
    /\ work[w].at = "entered"
    /\ \/ job[j].status = "pending" /\ Moves(w, "loaded") /\ UNCHANGED taskState
       \/ job[j].status # "pending" /\ Finishes(w)
    /\ UNCHANGED <<rows, request, accepted, queued, jobFaults, history>>

\* RUNNING under the own task id is taken for the redelivery of an interrupted
\* execution.
Load(w) ==
    LET j == work[w].job IN
    /\ work[w].at = "entered"
    /\ \/ /\ job[j].status = "running" /\ work[w].celery /\ job[j].hasTask
          /\ Moves(w, "failing")
          /\ UNCHANGED taskState
       \/ /\ job[j].status = "pending"
          /\ Moves(w, "loaded")
          /\ UNCHANGED taskState
       \/ /\ job[j].status # "pending"
          /\ ~(job[j].status = "running" /\ work[w].celery /\ job[j].hasTask)
          /\ Finishes(w)
    /\ UNCHANGED <<rows, request, accepted, queued, jobFaults, history>>

\* mistake: the products are not filtered by their job.
ClaimEveryProduct(w) ==
    LET j == work[w].job IN
    /\ work[w].at = "loaded"
    /\ job' = [job EXCEPT ![j].status = "running", ![j].age = 0]
    /\ work' = [work EXCEPT ![w].at = "claimed",
                            ![w].left = {r \in Records : product[r].status = "pending"}]
    /\ UNCHANGED <<product, record, request, accepted, queued, taskState, jobFaults, history>>

Claim(w) ==
    LET j == work[w].job IN
    /\ work[w].at = "loaded"
    /\ job' = [job EXCEPT ![j].status = "running", ![j].age = 0]
    /\ work' = [work EXCEPT ![w].at = "claimed",
                            ![w].left = {r \in Records : product[r].job = j}]
    /\ UNCHANGED <<product, record, request, accepted, queued, taskState, jobFaults, history>>

StartRecord(w, r) ==
    /\ work[w].at = "claimed"
    /\ r \in work[w].left
    /\ \A s \in work[w].left : r <= s
    /\ product' = [product EXCEPT ![r].status = "running"]
    /\ record' = [record EXCEPT ![r] = "running"]
    /\ work' = [work EXCEPT ![w].at = "enriching", ![w].left = @ \ {r}, ![w].current = {r}]
    /\ UNCHANGED <<job, request, accepted, queued, taskState, jobFaults, history>>

FinishRecord(w, outcome) ==
    /\ work[w].at = "enriching"
    /\ product' = [r \in Records |-> IF r \in work[w].current
                                     THEN [product[r] EXCEPT !.status = outcome]
                                     ELSE product[r]]
    /\ record' = [r \in Records |-> IF r \in work[w].current THEN outcome ELSE record[r]]
    /\ work' = [work EXCEPT ![w].at = "claimed", ![w].current = {},
                            ![w].enriched = @ \/ outcome = "enriched",
                            ![w].failed = @ \/ outcome = "failed"]
    /\ UNCHANGED <<job, request, accepted, queued, taskState, jobFaults, history>>

\* mistake: one product is enough.
OutcomeOfAny(x) == IF x.enriched THEN "enriched" ELSE "failed"

\* _complete_job writes the outcome over whatever the row says by now.
Outcome(x) ==
    IF ~x.failed THEN "enriched" ELSE IF x.enriched THEN "degraded" ELSE "failed"

Complete(w) ==
    /\ work[w].at = "claimed"
    /\ work[w].left = {}
    /\ job' = [job EXCEPT ![work[w].job].status = Outcome(work[w]), ![work[w].job].age = 0]
    /\ Finishes(w)
    /\ UNCHANGED <<product, record, request, accepted, queued, jobFaults, history>>

Breaks(w) ==
    /\ work[w].at \in {"loaded", "claimed", "enriching"}
    /\ JobFault
    /\ work' = [work EXCEPT ![w].at = "failing", ![w].left = {}, ![w].current = {}]
    /\ UNCHANGED <<rows, request, accepted, queued, taskState, history>>

FailOwn(w) ==
    /\ work[w].at = "failing"
    /\ FailStuck({work[w].job})
    /\ Judged({work[w].job})
    /\ Finishes(w)
    /\ UNCHANGED <<request, accepted, queued, jobFaults, doubled, stolen, dropped>>

\* The database fails again, or already during the sweep: the task ends.
Raises(w) ==
    /\ work[w].at \in {"sweeping", "entered", "failing"}
    /\ JobFault
    /\ Finishes(w)
    /\ dropped' = dropped \cup {work[w].job}
    /\ UNCHANGED <<rows, request, accepted, queued, doubled, misjudged, stolen>>

----------------------------------------------------------------------------
(* The processes and the broker. *)

\* task_reject_on_worker_lost: the message goes back to the broker.
WorkerLost(w) ==
    /\ Busy(w)
    /\ work[w].celery
    /\ JobFault
    /\ work' = [work EXCEPT ![w] = NoWork]
    /\ queued' = [queued EXCEPT ![work[w].job] = @ + 1]
    /\ UNCHANGED <<rows, request, accepted, taskState, history>>

\* The visibility timeout ends before the execution does: it is not limited.
Redeliver(w) ==
    /\ Busy(w)
    /\ work[w].celery
    /\ JobFault
    /\ queued' = [queued EXCEPT ![work[w].job] = @ + 1]
    /\ doubled' = doubled \cup {work[w].job}
    /\ UNCHANGED <<rows, request, accepted, taskState, work, misjudged, stolen, dropped>>

\* The requests and the in-process tasks of the API process are gone.
ApiRestart ==
    /\ JobFault
    /\ request' = [j \in Jobs |-> IF request[j] = "none" THEN "none" ELSE "over"]
    /\ accepted' = [j \in Jobs |-> {}]
    /\ work' = [w \in Executions |-> IF Busy(w) /\ ~work[w].celery THEN NoWork ELSE work[w]]
    /\ UNCHANGED <<rows, queued, taskState, history>>

\* updated_at falls behind; a long execution does not write the row.
Ages(j) ==
    /\ job[j].status = "running"
    /\ job[j].age < 2
    /\ job' = [job EXCEPT ![j].age = @ + 1]
    /\ UNCHANGED <<product, record, request, accepted, queued, taskState, work, jobFaults,
                   history>>

----------------------------------------------------------------------------

RequestStep(j) ==
    \/ Create(j) \/ RecordTaskId(j) \/ Enqueue(j)
    \/ \E sent \in BOOLEAN : EnqueueRaises(j, sent)

WorkStep(w) ==
    \/ Sweep(w) \/ Load(w) \/ Claim(w) \/ Complete(w) \/ FailOwn(w)
    \/ \E r \in Records : StartRecord(w, r)
    \/ \E outcome \in {"enriched", "failed"} : FinishRecord(w, outcome)

JobNext ==
    \/ \E j \in Jobs : Choose(j) \/ RequestStep(j) \/ Ages(j)
    \/ \E w \in Executions, j \in Jobs : TakeMessage(w, j) \/ StartInProcess(w, j)
    \/ \E w \in Executions : WorkStep(w) \/ Breaks(w) \/ Raises(w) \/ WorkerLost(w) \/ Redeliver(w)
    \/ ApiRestart

JobSpec == JobInit /\ [][JobNext]_jobVars

\* Requests and executions go on; a free worker takes what is queued.
JobFairness ==
    /\ \A j \in Jobs : WF_jobVars(RequestStep(j))
    /\ \A w \in Executions : WF_jobVars(WorkStep(w))
    /\ \A j \in Jobs : SF_jobVars(\E w \in Executions : TakeMessage(w, j))
    /\ \A j \in Jobs : SF_jobVars(\E w \in Executions : StartInProcess(w, j))

JobFairSpec == JobSpec /\ JobFairness

----------------------------------------------------------------------------
(* Properties. *)

(* No two executions work on one job, unless its message was there twice:  *)
(* redelivered while the first was alive, or sent although apply_async     *)
(* raised.  The claim reads PENDING and writes RUNNING without a lock.     *)
OneExecution ==
    \A j \in Jobs \ doubled : Cardinality(AtWork(j)) <= 1

(* A job that has ended leaves none of its products pending or running,    *)
(* and none of their records, so that a later job can take them            *)
(* (_fail_stuck_job), whatever was lost on the way: except for a job that  *)
(* was failed while it was alive or that ran twice, and a record that two  *)
(* jobs took.                                                              *)
EndedReleases ==
    \A r \in Records :
        LET j == product[r].job IN
        (j # NoJob /\ j \notin misjudged \cup doubled /\ r \notin stolen
            /\ job[j].status \in Ended) =>
                product[r].status \notin Skipped /\ record[r] \notin Skipped

(* A job says ENRICHED only if all its products are, with the same         *)
(* exceptions.                                                             *)
EnrichedMeansAll ==
    \A r \in Records :
        LET j == product[r].job IN
        (j # NoJob /\ j \notin misjudged \cup doubled /\ r \notin stolen
            /\ job[j].status = "enriched") => product[r].status = "enriched"

(* A job whose task id is on its row and that the broker has comes to an   *)
(* end, also when workers are lost: the redelivery runs it or fails it.    *)
(* Only an execution that raised in its own error handler leaves it        *)
(* RUNNING, for the sweep of a later execution.                            *)
QueuedJobEnds ==
    \A j \in Jobs :
        (queued[j] > 0 /\ job[j].hasTask) ~> (job[j].status \in Ended \/ j \in dropped)

=============================================================================
