-------------------------- MODULE JobDispatchProofs --------------------------
(* The enrichment jobs, for every number of jobs, records, executions and    *)
(* faults: types, one execution at a time, and what an ended job leaves.     *)
EXTENDS JobDispatch, FiniteSetTheorems, TLAPS

USE JobDispatchAssumption DEF JobDispatchAssumption

----------------------------------------------------------------------------
(* Types. *)

ProductRows == [job : Jobs \cup {NoJob}, status : {"none", "enriched", "failed"} \cup Skipped]

\* A job takes only records its request asks for.
RowsOK ==
    /\ job \in [Jobs -> JobRows]
    /\ product \in [Records -> ProductRows]
    /\ record \in [Records -> {"unenriched", "enriched", "failed"} \cup Skipped]
    /\ \A r \in Records : product[r].job # NoJob => r \in Selected[product[r].job]

RequestsOK ==
    /\ request \in [Jobs -> {"none", "chosen", "created", "recorded", "fallback", "over"}]
    /\ accepted \in [Jobs -> SUBSET Records]
    /\ \A j \in Jobs : accepted[j] \subseteq Selected[j]

TasksOK ==
    /\ queued \in [Jobs -> Nat]
    /\ taskState \in [Jobs -> {"PENDING", "STARTED", "OVER"}]

\* What an execution may be doing.
WorkValue(x) ==
    \/ x = NoWork
    \/ /\ x \in Work
       /\ x.left \cup x.current \subseteq Selected[x.job]

WorkOK ==
    /\ work \in [Executions -> {NoWork} \cup Work]
    /\ \A w \in Executions : WorkValue(work[w])

HistoryOK ==
    /\ jobFaults \in 0..MaxJobFaults
    /\ doubled \subseteq Jobs
    /\ misjudged \subseteq Jobs
    /\ stolen \subseteq Records
    /\ dropped \subseteq Jobs

TypeInv == RowsOK /\ RequestsOK /\ TasksOK /\ WorkOK /\ HistoryOK

LEMMA TypesMeant == TypeInv => JobTypeOK
BY DEF TypeInv, RowsOK, RequestsOK, TasksOK, WorkOK, HistoryOK, JobTypeOK, ProductRows,
       WorkValue

LEMMA NotBusy == NoWork \notin Work /\ NoWork.at = "free"
BY DEF NoWork, Work

LEMMA BusyWork ==
    ASSUME WorkOK, NEW w \in Executions, work[w] # NoWork
    PROVE  work[w] \in Work /\ work[w].job \in Jobs
           /\ work[w].left \cup work[w].current \subseteq Selected[work[w].job]
BY DEF WorkOK, WorkValue, Work

LEMMA WorkingOK ==
    ASSUME WorkOK, NEW w \in Executions, NEW x, WorkValue(x), work' = [work EXCEPT ![w] = x]
    PROVE  WorkOK'
<1>1. x \in {NoWork} \cup Work
    BY DEF WorkValue
<1>2. work' \in [Executions -> {NoWork} \cup Work]
    BY <1>1 DEF WorkOK
<1>3. ASSUME NEW v \in Executions
      PROVE  WorkValue(work'[v])
    <2>1. work'[v] = x \/ work'[v] = work[v]
        BY DEF WorkOK
    <2>2. WorkValue(work[v])
        BY DEF WorkOK
    <2> QED BY <2>1, <2>2
<1> QED BY <1>2, <1>3 DEF WorkOK, WorkValue

\* An execution is where it was, or at a next place with other work in hand.
Working(w, at, left, current) ==
    /\ work[w] \in Work
    /\ work'[w] \in Work
    /\ work'[w].job = work[w].job
    /\ work'[w].celery = work[w].celery
    /\ work'[w].at = at
    /\ work'[w].left = left
    /\ work'[w].current = current
    /\ work' \in [Executions -> {NoWork} \cup Work]
    /\ \A v \in Executions \ {w} : work'[v] = work[v]

LEMMA AtBusy ==
    ASSUME WorkOK, NEW w \in Executions, work[w].at # "free"
    PROVE  work[w] \in Work
BY NotBusy DEF WorkOK

LEMMA MovesShape ==
    ASSUME WorkOK, NEW w \in Executions, work[w].at # "free",
           NEW at \in {"sweeping", "entered", "loaded", "claimed", "enriching", "failing"},
           Moves(w, at)
    PROVE  Working(w, at, work[w].left, work[w].current)
           /\ work'[w].enriched = work[w].enriched /\ work'[w].failed = work[w].failed
<1> DEFINE x == [work[w] EXCEPT !.at = at]
<1>1. work[w] \in Work
    BY AtBusy
<1>2. /\ x \in Work /\ x.job = work[w].job /\ x.celery = work[w].celery /\ x.at = at
      /\ x.left = work[w].left /\ x.current = work[w].current
      /\ x.enriched = work[w].enriched /\ x.failed = work[w].failed
    BY <1>1 DEF Work
<1>3. work' = [work EXCEPT ![w] = x]
    BY DEF Moves
<1> HIDE DEF x
<1>4. work'[w] = x /\ work' \in [Executions -> {NoWork} \cup Work]
      /\ \A v \in Executions \ {w} : work'[v] = work[v]
    BY <1>2, <1>3 DEF WorkOK
<1> QED BY <1>1, <1>2, <1>4 DEF Working

LEMMA ClaimShape ==
    ASSUME WorkOK, NEW w \in Executions, Claim(w)
    PROVE  Working(w, "claimed", {r \in Records : product[r].job = work[w].job}, work[w].current)
           /\ work'[w].enriched = work[w].enriched /\ work'[w].failed = work[w].failed
<1> DEFINE mine == {r \in Records : product[r].job = work[w].job}
<1>1. work[w] \in Work /\ mine \in SUBSET Records
    BY AtBusy DEF Claim
<1>2. work' = [work EXCEPT ![w].at = "claimed", ![w].left = mine]
    BY DEF Claim
<1> HIDE DEF mine
<1> DEFINE x == [work[w] EXCEPT !.at = "claimed"]
<1> DEFINE y == [x EXCEPT !.left = mine]
<1>3. /\ x \in Work /\ x.job = work[w].job /\ x.celery = work[w].celery /\ x.at = "claimed"
      /\ x.current = work[w].current
      /\ x.enriched = work[w].enriched /\ x.failed = work[w].failed
    BY <1>1 DEF Work
<1>4. /\ y \in Work /\ y.job = x.job /\ y.celery = x.celery /\ y.at = x.at
      /\ y.current = x.current /\ y.enriched = x.enriched /\ y.failed = x.failed /\ y.left = mine
    <2> HIDE DEF x
    <2> QED BY <1>1, <1>3 DEF Work
<1>5. work' = [[work EXCEPT ![w] = x] EXCEPT ![w] = y]
    BY <1>2 DEF WorkOK
<1> HIDE DEF x, y
<1>6. work'[w] = y /\ work' \in [Executions -> {NoWork} \cup Work]
      /\ \A v \in Executions \ {w} : work'[v] = work[v]
    BY <1>3, <1>4, <1>5 DEF WorkOK
<1> QED BY <1>1, <1>3, <1>4, <1>6 DEF Working, mine

LEMMA StartShape ==
    ASSUME WorkOK, NEW w \in Executions, NEW r \in Records, StartRecord(w, r)
    PROVE  Working(w, "enriching", work[w].left \ {r}, {r})
           /\ work'[w].enriched = work[w].enriched /\ work'[w].failed = work[w].failed
<1> DEFINE old == work[w]
           x == [old EXCEPT !.at = "enriching"]
           y == [x EXCEPT !.left = @ \ {r}]
           z == [y EXCEPT !.current = {r}]
<1>1. old \in Work
    BY AtBusy DEF StartRecord
<1>2. work' = [[[work EXCEPT ![w] = x] EXCEPT ![w] = y] EXCEPT ![w] = z]
    BY DEF StartRecord, WorkOK
<1>3. /\ x \in Work /\ x.job = old.job /\ x.celery = old.celery /\ x.at = "enriching"
      /\ x.left = old.left /\ x.enriched = old.enriched /\ x.failed = old.failed
    BY <1>1 DEF Work
<1>4. /\ y \in Work /\ y.job = old.job /\ y.celery = old.celery /\ y.at = "enriching"
      /\ y.left = old.left \ {r} /\ y.enriched = old.enriched /\ y.failed = old.failed
    <2> HIDE DEF x, old
    <2> QED BY <1>3 DEF Work
<1>5. /\ z \in Work /\ z.job = old.job /\ z.celery = old.celery /\ z.at = "enriching"
      /\ z.left = old.left \ {r} /\ z.current = {r}
      /\ z.enriched = old.enriched /\ z.failed = old.failed
    <2> HIDE DEF x, y, old
    <2> QED BY <1>4 DEF Work
<1>6. work'[w] = z /\ work' \in [Executions -> {NoWork} \cup Work]
      /\ \A v \in Executions \ {w} : work'[v] = work[v]
    <2> HIDE DEF x, y, z, old
    <2> QED BY <1>2, <1>5 DEF WorkOK
<1> HIDE DEF x, y, z
<1> QED BY <1>1, <1>5, <1>6 DEF Working

LEMMA BreaksShape ==
    ASSUME WorkOK, NEW w \in Executions, Breaks(w)
    PROVE  Working(w, "failing", {}, {})
<1> DEFINE old == work[w]
           x == [old EXCEPT !.at = "failing"]
           y == [x EXCEPT !.left = {}]
           z == [y EXCEPT !.current = {}]
<1>1. old \in Work
    BY AtBusy DEF Breaks
<1>2. work' = [[[work EXCEPT ![w] = x] EXCEPT ![w] = y] EXCEPT ![w] = z]
    BY DEF Breaks, WorkOK
<1>3. x \in Work /\ x.job = old.job /\ x.celery = old.celery /\ x.at = "failing"
    BY <1>1 DEF Work
<1>4. y \in Work /\ y.job = old.job /\ y.celery = old.celery /\ y.at = "failing" /\ y.left = {}
    <2> HIDE DEF x, old
    <2> QED BY <1>3 DEF Work
<1>5. z \in Work /\ z.job = old.job /\ z.celery = old.celery /\ z.at = "failing" /\ z.left = {}
      /\ z.current = {}
    <2> HIDE DEF x, y, old
    <2> QED BY <1>4 DEF Work
<1>6. work'[w] = z /\ work' \in [Executions -> {NoWork} \cup Work]
      /\ \A v \in Executions \ {w} : work'[v] = work[v]
    <2> HIDE DEF x, y, z, old
    <2> QED BY <1>2, <1>5 DEF WorkOK
<1> HIDE DEF x, y, z
<1> QED BY <1>1, <1>5, <1>6 DEF Working

LEMMA FinishShape ==
    ASSUME WorkOK, NEW w \in Executions, NEW outcome, FinishRecord(w, outcome)
    PROVE  Working(w, "claimed", work[w].left, {})
           /\ work'[w].enriched = (work[w].enriched \/ outcome = "enriched")
           /\ work'[w].failed = (work[w].failed \/ outcome = "failed")
<1> DEFINE old == work[w]
           x == [old EXCEPT !.at = "claimed"]
           y == [x EXCEPT !.current = {}]
           z == [y EXCEPT !.enriched = @ \/ outcome = "enriched"]
           u == [z EXCEPT !.failed = @ \/ outcome = "failed"]
<1>1. old \in Work
    BY AtBusy DEF FinishRecord
<1>2. work' = [[[[work EXCEPT ![w] = x] EXCEPT ![w] = y] EXCEPT ![w] = z] EXCEPT ![w] = u]
    BY DEF FinishRecord, WorkOK
<1>3. /\ x \in Work /\ x.job = old.job /\ x.celery = old.celery /\ x.at = "claimed"
      /\ x.left = old.left /\ x.enriched = old.enriched /\ x.failed = old.failed
    BY <1>1 DEF Work
<1>4. /\ y \in Work /\ y.job = old.job /\ y.celery = old.celery /\ y.at = "claimed"
      /\ y.left = old.left /\ y.current = {} /\ y.enriched = old.enriched /\ y.failed = old.failed
    <2> HIDE DEF x, old
    <2> QED BY <1>3 DEF Work
<1>5. /\ z \in Work /\ z.job = old.job /\ z.celery = old.celery /\ z.at = "claimed"
      /\ z.left = old.left /\ z.current = {} /\ z.failed = old.failed
      /\ z.enriched = (old.enriched \/ outcome = "enriched")
    <2> HIDE DEF x, y, old
    <2> QED BY <1>4 DEF Work
<1>6. /\ u \in Work /\ u.job = old.job /\ u.celery = old.celery /\ u.at = "claimed"
      /\ u.left = old.left /\ u.current = {} /\ u.enriched = z.enriched
      /\ u.failed = (old.failed \/ outcome = "failed")
    <2> HIDE DEF x, y, z, old
    <2> QED BY <1>5 DEF Work
<1>7. work'[w] = u /\ work' \in [Executions -> {NoWork} \cup Work]
      /\ \A v \in Executions \ {w} : work'[v] = work[v]
    <2> HIDE DEF x, y, z, u, old
    <2> QED BY <1>2, <1>6 DEF WorkOK
<1> HIDE DEF x, y, z, u
<1> QED BY <1>1, <1>5, <1>6, <1>7 DEF Working

LEMMA WorkingKeeps ==
    ASSUME WorkOK, NEW w \in Executions, NEW at, NEW left, NEW current,
           Working(w, at, left, current), left \cup current \subseteq Selected[work[w].job]
    PROVE  WorkOK'
<1>1. WorkValue(work'[w])
    BY DEF Working, WorkValue
<1>2. \A v \in Executions : WorkValue(work'[v])
    <2>1. ASSUME NEW v \in Executions, v # w
          PROVE  work'[v] = work[v] /\ WorkValue(work[v])
        BY <2>1 DEF Working, WorkOK
    <2> QED BY <1>1, <2>1
<1> QED BY <1>2 DEF WorkOK, WorkValue, Working

LEMMA FinishesShape ==
    ASSUME WorkOK, NEW w \in Executions, Finishes(w)
    PROVE  WorkOK' /\ work'[w] = NoWork /\ \A v \in Executions \ {w} : work'[v] = work[v]
<1>1. WorkValue(NoWork) /\ work' = [work EXCEPT ![w] = NoWork]
    BY DEF Finishes, WorkValue
<1> QED BY <1>1, WorkingOK DEF WorkOK

\* The row of one job is given a status, all others stay.
RowSet(j, s) == job'[j].status = s /\ \A k \in Jobs \ {j} : job'[k] = job[k]

LEMMA SettingRow ==
    ASSUME job \in [Jobs -> JobRows], NEW j \in Jobs, NEW s \in Skipped \cup Ended,
           job' = [job EXCEPT ![j].status = s, ![j].age = 0]
    PROVE  job' \in [Jobs -> JobRows] /\ RowSet(j, s)
<1> DEFINE x == [job[j] EXCEPT !.status = s]
           y == [x EXCEPT !.age = 0]
<1>1. x \in JobRows /\ x.status = s
    BY DEF JobRows, Skipped, Ended
<1>2. y \in JobRows /\ y.status = s
    <2> HIDE DEF x
    <2> QED BY <1>1 DEF JobRows
<1>3. job' = [[job EXCEPT ![j] = x] EXCEPT ![j] = y]
    OBVIOUS
<1> HIDE DEF x, y
<1> QED BY <1>1, <1>2, <1>3 DEF RowSet

LEMMA FailStuckTypes ==
    ASSUME RowsOK, NEW failing, FailStuck(failing)
    PROVE  RowsOK'
<1>1. ASSUME NEW j \in Jobs
      PROVE  [job[j] EXCEPT !.status = "failed", !.age = 0] \in JobRows
    <2> DEFINE x == [job[j] EXCEPT !.status = "failed"]
    <2>1. x \in JobRows
        BY DEF RowsOK, JobRows, Ended
    <2> HIDE DEF x
    <2>2. [x EXCEPT !.age = 0] \in JobRows
        BY <2>1 DEF JobRows
    <2> QED BY <2>2 DEF x
<1>2. job' \in [Jobs -> JobRows]
    <2>1. \A j \in Jobs : job[j] \in JobRows
        BY DEF RowsOK
    <2>2. job' = [j \in Jobs |-> IF j \in failing
                                 THEN [job[j] EXCEPT !.status = "failed", !.age = 0]
                                 ELSE job[j]]
        BY DEF FailStuck
    <2> QED BY <1>1, <2>1, <2>2
<1>3. ASSUME NEW r \in Records
      PROVE  [product[r] EXCEPT !.status = "failed"] \in ProductRows
             /\ [product[r] EXCEPT !.status = "failed"].job = product[r].job
    BY DEF RowsOK, ProductRows
<1>4. product' \in [Records -> ProductRows] /\ \A r \in Records : product'[r].job = product[r].job
    <2>1. \A r \in Records : product[r] \in ProductRows
        BY DEF RowsOK
    <2>2. product' \in [Records -> ProductRows]
        BY <1>3, <2>1 DEF FailStuck
    <2>3. ASSUME NEW r \in Records
          PROVE  product'[r].job = product[r].job
        <3>1. product'[r] = product[r] \/ product'[r] = [product[r] EXCEPT !.status = "failed"]
            BY DEF FailStuck
        <3> QED BY <1>3, <3>1
    <2> QED BY <2>2, <2>3
<1>5. record' \in [Records -> {"unenriched", "enriched", "failed"} \cup Skipped]
    BY DEF FailStuck, RowsOK
<1> QED BY <1>2, <1>4, <1>5 DEF RowsOK

LEMMA FaultTypes ==
    ASSUME HistoryOK, JobFault \/ UNCHANGED jobFaults
    PROVE  jobFaults' \in 0..MaxJobFaults
BY DEF HistoryOK, JobFault

\* The steps of a request, the message of a job included.
RequestNext(j) == Choose(j) \/ RequestStep(j) \/ Ages(j)

LEMMA RequestRows ==
    ASSUME RowsOK, RequestsOK, NEW j \in Jobs, RequestNext(j)
    PROVE  RowsOK'
<1>1. CASE Choose(j) \/ Enqueue(j)
    BY <1>1 DEF Choose, Enqueue, rows, RowsOK
<1>2. CASE Create(j)
    <2> DEFINE x == [job[j] EXCEPT !.status = "pending"]
    <2>1. x \in JobRows
        BY DEF RowsOK, JobRows, Skipped
    <2>2. job' = [job EXCEPT ![j] = x]
        BY <1>2 DEF Create
    <2> HIDE DEF x
    <2>3. job' \in [Jobs -> JobRows]
        BY <2>1, <2>2 DEF RowsOK
    <2>4. product' = [r \in Records |-> IF r \in accepted[j] THEN [job |-> j, status |-> "pending"]
                                        ELSE product[r]]
        BY <1>2 DEF Create, Upserted
    <2>5. product' \in [Records -> ProductRows]
        BY <2>4 DEF RowsOK, ProductRows, Skipped
    <2>6. ASSUME NEW r \in Records, product'[r].job # NoJob
          PROVE  r \in Selected[product'[r].job]
        <3>1. CASE r \in accepted[j]
            BY <2>4, <3>1 DEF RequestsOK
        <3>2. CASE r \notin accepted[j]
            BY <2>4, <2>6, <3>2 DEF RowsOK
        <3> QED BY <3>1, <3>2
    <2>7. record' \in [Records -> {"unenriched", "enriched", "failed"} \cup Skipped]
        BY <1>2 DEF Create, RowsOK, Skipped
    <2> QED BY <2>3, <2>5, <2>6, <2>7 DEF RowsOK
<1>3. CASE RecordTaskId(j) \/ (\E sent \in BOOLEAN : EnqueueRaises(j, sent)) \/ Ages(j)
    <2>1. PICK x \in JobRows : job' = [job EXCEPT ![j] = x]
        <3>1. CASE RecordTaskId(j)
            <4>1. [job[j] EXCEPT !.hasTask = TRUE] \in JobRows
                BY DEF RowsOK, JobRows
            <4> QED BY <3>1, <4>1 DEF RecordTaskId
        <3>2. CASE \E sent \in BOOLEAN : EnqueueRaises(j, sent)
            <4>1. [job[j] EXCEPT !.hasTask = FALSE] \in JobRows
                BY DEF RowsOK, JobRows
            <4> QED BY <3>2, <4>1 DEF EnqueueRaises
        <3>3. CASE Ages(j)
            <4>1. job[j] \in JobRows /\ job[j].age \in 0..2 /\ job[j].age < 2
                BY <3>3 DEF RowsOK, JobRows, Ages
            <4>2. job[j].age + 1 \in 0..2
                BY <4>1
            <4> DEFINE older == job[j].age + 1
            <4> HIDE DEF older
            <4>3. [job[j] EXCEPT !.age = older] \in JobRows
                BY <4>1, <4>2 DEF JobRows, older
            <4> QED BY <3>3, <4>3 DEF Ages, older
        <3> QED BY <1>3, <3>1, <3>2, <3>3
    <2>2. UNCHANGED <<product, record>>
        BY <1>3 DEF RecordTaskId, EnqueueRaises, Ages
    <2> QED BY <2>1, <2>2 DEF RowsOK
<1> QED BY <1>1, <1>2, <1>3 DEF RequestNext, RequestStep

LEMMA RequestTypes ==
    ASSUME TypeInv, NEW j \in Jobs, RequestNext(j)
    PROVE  TypeInv'
<1>1. RowsOK'
    BY RequestRows DEF TypeInv
<1>2. RequestsOK'
    <2>1. request' \in [Jobs -> {"none", "chosen", "created", "recorded", "fallback", "over"}]
        BY DEF TypeInv, RequestsOK, RequestNext, RequestStep, Choose, Create, RecordTaskId,
               Enqueue, EnqueueRaises, Ages, Requested
    <2>2. PICK some \in SUBSET Records : some \subseteq Selected[j]
                /\ (accepted' = accepted \/ accepted' = [accepted EXCEPT ![j] = some])
        BY DEF RequestNext, RequestStep, Choose, Create, RecordTaskId, Enqueue, EnqueueRaises, Ages
    <2>3. accepted' \in [Jobs -> SUBSET Records] /\ \A k \in Jobs : accepted'[k] \subseteq Selected[k]
        BY <2>2 DEF TypeInv, RequestsOK
    <2> QED BY <2>1, <2>3 DEF RequestsOK
<1>3. TasksOK'
    BY DEF TypeInv, TasksOK, RequestNext, RequestStep, Choose, Create, RecordTaskId,
           Enqueue, EnqueueRaises, Ages
<1>4. WorkOK'
    <2>1. work' = work
        BY DEF RequestNext, RequestStep, Choose, Create, RecordTaskId, Enqueue, EnqueueRaises, Ages
    <2> QED BY <2>1 DEF TypeInv, WorkOK, WorkValue
<1>5. HistoryOK'
    <2>1. jobFaults' \in 0..MaxJobFaults
        BY FaultTypes DEF TypeInv, RequestNext, RequestStep, Choose, Create, RecordTaskId, Enqueue,
                          EnqueueRaises, Ages
    <2>2. stolen' \subseteq Records
        <3>1. CASE Create(j)
            BY <3>1 DEF Create, TypeInv, HistoryOK, RequestsOK
        <3>2. CASE ~Create(j)
            BY <3>2 DEF TypeInv, HistoryOK, RequestNext, RequestStep, Choose, RecordTaskId, Enqueue,
                        EnqueueRaises, Ages, history
        <3> QED BY <3>1, <3>2
    <2>3. doubled' \subseteq Jobs /\ misjudged' \subseteq Jobs /\ dropped' \subseteq Jobs
        BY DEF TypeInv, HistoryOK, RequestNext, RequestStep, Choose, Create, RecordTaskId, Enqueue,
               EnqueueRaises, Ages, history
    <2> QED BY <2>1, <2>2, <2>3 DEF HistoryOK
<1> QED BY <1>1, <1>2, <1>3, <1>4, <1>5 DEF TypeInv

\* An execution begins, with what it finds doomed.
LEMMA EntryShape ==
    ASSUME WorkOK, NEW w \in Executions, NEW j \in Jobs, NEW celery \in BOOLEAN,
           Entry(w, j, celery)
    PROVE  /\ WorkOK' /\ work'[w] \in Work /\ work'[w].job = j /\ work'[w].at = "sweeping"
           /\ work'[w].left = {} /\ work'[w].current = {}
           /\ \A v \in Executions \ {w} : work'[v] = work[v]
<1>1. PICK doomed \in SUBSET Jobs :
        work' = [work EXCEPT ![w] =
                    [at |-> "sweeping", job |-> j, celery |-> celery, doomed |-> doomed,
                     left |-> {}, current |-> {}, enriched |-> FALSE, failed |-> FALSE]]
    BY DEF Entry, Doomed
<1> DEFINE x == [at |-> "sweeping", job |-> j, celery |-> celery, doomed |-> doomed,
                 left |-> {}, current |-> {}, enriched |-> FALSE, failed |-> FALSE]
<1>2. x \in Work /\ x.job = j /\ x.at = "sweeping" /\ x.left = {} /\ x.current = {}
    BY DEF Work
<1>3. WorkValue(x) /\ work' = [work EXCEPT ![w] = x]
    BY <1>1, <1>2 DEF WorkValue
<1> HIDE DEF x
<1>4. WorkOK'
    BY <1>3, WorkingOK
<1> QED BY <1>2, <1>3, <1>4 DEF WorkOK

LEMMA BeginTypes ==
    ASSUME TypeInv, NEW w \in Executions, NEW j \in Jobs,
           TakeMessage(w, j) \/ StartInProcess(w, j)
    PROVE  TypeInv'
<1>1. WorkOK'
    BY EntryShape DEF TypeInv, TakeMessage, StartInProcess
<1>2. TasksOK'
    <2>1. CASE TakeMessage(w, j)
        <3>1. queued' = [queued EXCEPT ![j] = @ - 1] /\ queued[j] > 0
              /\ taskState' = [taskState EXCEPT ![j] = "STARTED"]
            BY <2>1 DEF TakeMessage
        <3>2. queued[j] \in Nat /\ queued[j] - 1 \in Nat
            BY <3>1 DEF TypeInv, TasksOK
        <3> QED BY <3>1, <3>2 DEF TypeInv, TasksOK
    <2>2. CASE StartInProcess(w, j)
        BY <2>2 DEF StartInProcess, TypeInv, TasksOK
    <2> QED BY <2>1, <2>2
<1>3. RowsOK' /\ HistoryOK'
    BY DEF TypeInv, RowsOK, HistoryOK, TakeMessage, StartInProcess, rows, history
<1>4. RequestsOK'
    BY DEF TypeInv, RequestsOK, TakeMessage, StartInProcess, Requested
<1> QED BY <1>1, <1>2, <1>3, <1>4 DEF TypeInv

LEMMA FinishesTasks ==
    ASSUME TasksOK, NEW w \in Executions, Finishes(w), UNCHANGED queued
    PROVE  TasksOK'
BY DEF TasksOK, Finishes

\* The steps of an execution that leave the rows alone.
LEMMA LoadShape ==
    ASSUME WorkOK, NEW w \in Executions, Load(w)
    PROVE  \/ Moves(w, "failing") /\ UNCHANGED taskState
           \/ Moves(w, "loaded") /\ job[work[w].job].status = "pending" /\ UNCHANGED taskState
           \/ Finishes(w)
BY DEF Load

LEMMA HeldSelected ==
    ASSUME WorkOK, NEW w \in Executions, work[w].at # "free"
    PROVE  work[w].left \cup work[w].current \subseteq Selected[work[w].job]
           /\ work[w].job \in Jobs
BY AtBusy, BusyWork, NotBusy

LEMMA WorkWork ==
    ASSUME RowsOK, WorkOK, NEW w \in Executions, WorkStep(w) \/ Breaks(w) \/ Raises(w)
    PROVE  WorkOK'
<1>0. work[w].at # "free"
    BY DEF WorkStep, Sweep, Load, Claim, Complete, FailOwn, StartRecord, FinishRecord, Breaks, Raises
<1>1. CASE Sweep(w)
    BY <1>0, <1>1, MovesShape, HeldSelected, WorkingKeeps DEF Sweep
<1>2. CASE Load(w)
    <2>1. CASE Finishes(w)
        BY <2>1, FinishesShape
    <2>2. CASE Moves(w, "failing")
        BY <1>0, <2>2, MovesShape, HeldSelected, WorkingKeeps
    <2>3. CASE Moves(w, "loaded")
        BY <1>0, <2>3, MovesShape, HeldSelected, WorkingKeeps
    <2> QED BY <1>2, <2>1, <2>2, <2>3, LoadShape
<1>3. CASE Claim(w)
    <2> DEFINE mine == {r \in Records : product[r].job = work[w].job}
    <2>1. mine \subseteq Selected[work[w].job]
        <3>1. work[w].job # NoJob
            BY <1>0, HeldSelected
        <3> QED BY <3>1 DEF RowsOK
    <2>2. mine \cup work[w].current \subseteq Selected[work[w].job]
        BY <1>0, <2>1, HeldSelected
    <2>3. Working(w, "claimed", mine, work[w].current)
        BY <1>3, ClaimShape
    <2> QED BY <2>2, <2>3, WorkingKeeps
<1>4. CASE Complete(w) \/ FailOwn(w) \/ Raises(w)
    BY <1>4, FinishesShape DEF Complete, FailOwn, Raises
<1>5. ASSUME NEW r \in Records, StartRecord(w, r)
      PROVE  WorkOK'
    <2>1. (work[w].left \ {r}) \cup {r} \subseteq Selected[work[w].job]
        BY <1>0, <1>5, HeldSelected DEF StartRecord
    <2> QED BY <1>5, <2>1, StartShape, WorkingKeeps
<1>6. ASSUME NEW outcome \in {"enriched", "failed"}, FinishRecord(w, outcome)
      PROVE  WorkOK'
    <2>1. work[w].left \cup {} \subseteq Selected[work[w].job]
        BY <1>0, HeldSelected
    <2> QED BY <1>6, <2>1, FinishShape, WorkingKeeps
<1>7. CASE Breaks(w)
    BY <1>7, BreaksShape, WorkingKeeps
<1> QED BY <1>1, <1>2, <1>3, <1>4, <1>5, <1>6, <1>7 DEF WorkStep

LEMMA OutcomeEnded ==
    ASSUME NEW x PROVE Outcome(x) \in Ended
BY DEF Outcome, Ended

LEMMA WorkRows ==
    ASSUME RowsOK, WorkOK, NEW w \in Executions, WorkStep(w) \/ Breaks(w) \/ Raises(w)
    PROVE  RowsOK'
<1>1. CASE Sweep(w) \/ FailOwn(w)
    BY <1>1, FailStuckTypes DEF Sweep, FailOwn
<1>2. CASE Load(w) \/ Breaks(w) \/ Raises(w)
    BY <1>2 DEF Load, Breaks, Raises, rows, RowsOK
<1>3. CASE Claim(w)
    <2>1. work[w].job \in Jobs
        BY <1>3, HeldSelected DEF Claim
    <2>2. job' \in [Jobs -> JobRows]
        BY <1>3, <2>1, SettingRow DEF Claim, RowsOK, Skipped
    <2> QED BY <1>3, <2>2 DEF Claim, RowsOK
<1>4. CASE Complete(w)
    <2>1. work[w].job \in Jobs
        BY <1>4, HeldSelected DEF Complete
    <2>2. job' \in [Jobs -> JobRows]
        BY <1>4, <2>1, SettingRow, OutcomeEnded DEF Complete, RowsOK
    <2> QED BY <1>4, <2>2 DEF Complete, RowsOK
<1>5. ASSUME NEW r \in Records, StartRecord(w, r)
      PROVE  RowsOK'
    <2> DEFINE x == [product[r] EXCEPT !.status = "running"]
    <2>1. x \in ProductRows /\ x.job = product[r].job
        BY DEF RowsOK, ProductRows, Skipped
    <2>2. product' = [product EXCEPT ![r] = x]
        BY <1>5 DEF StartRecord
    <2> HIDE DEF x
    <2>3. product' \in [Records -> ProductRows]
        BY <2>1, <2>2 DEF RowsOK
    <2>4. \A s \in Records : product'[s].job = product[s].job
        BY <2>1, <2>2 DEF RowsOK
    <2>5. record' \in [Records -> {"unenriched", "enriched", "failed"} \cup Skipped]
        BY <1>5 DEF StartRecord, RowsOK, Skipped
    <2> QED BY <1>5, <2>3, <2>4, <2>5 DEF StartRecord, RowsOK
<1>6. ASSUME NEW outcome \in {"enriched", "failed"}, FinishRecord(w, outcome)
      PROVE  RowsOK'
    <2>1. ASSUME NEW r \in Records
          PROVE  [product[r] EXCEPT !.status = outcome] \in ProductRows
                 /\ [product[r] EXCEPT !.status = outcome].job = product[r].job
        BY DEF RowsOK, ProductRows
    <2>2. \A r \in Records : product[r] \in ProductRows
        BY DEF RowsOK
    <2>3. product' = [r \in Records |-> IF r \in work[w].current
                                        THEN [product[r] EXCEPT !.status = outcome]
                                        ELSE product[r]]
        BY <1>6 DEF FinishRecord
    <2>4. product' \in [Records -> ProductRows]
        BY <2>1, <2>2, <2>3
    <2>5. ASSUME NEW r \in Records PROVE product'[r].job = product[r].job
        <3>1. product'[r] = product[r] \/ product'[r] = [product[r] EXCEPT !.status = outcome]
            BY <2>3
        <3> QED BY <2>1, <3>1
    <2>6. record' \in [Records -> {"unenriched", "enriched", "failed"} \cup Skipped]
        BY <1>6 DEF FinishRecord, RowsOK, Skipped
    <2> QED BY <1>6, <2>4, <2>5, <2>6 DEF FinishRecord, RowsOK
<1> QED BY <1>1, <1>2, <1>3, <1>4, <1>5, <1>6 DEF WorkStep

LEMMA WorkTypes ==
    ASSUME TypeInv, NEW w \in Executions, WorkStep(w) \/ Breaks(w) \/ Raises(w)
    PROVE  TypeInv'
<1>1. RowsOK' /\ WorkOK'
    BY WorkWork, WorkRows DEF TypeInv
<1>2. RequestsOK'
    BY DEF TypeInv, RequestsOK, WorkStep, Sweep, Load, Claim, Complete, FailOwn, StartRecord,
           FinishRecord, Breaks, Raises
<1>3. TasksOK'
    <2>1. UNCHANGED queued
        BY DEF WorkStep, Sweep, Load, Claim, Complete, FailOwn, StartRecord, FinishRecord, Breaks,
               Raises
    <2>2. Finishes(w) \/ UNCHANGED taskState
        BY DEF WorkStep, Sweep, Load, Claim, Complete, FailOwn, StartRecord, FinishRecord, Breaks,
               Raises
    <2> QED BY <2>1, <2>2, FinishesTasks DEF TypeInv, TasksOK
<1>4. HistoryOK'
    <2>1. jobFaults' \in 0..MaxJobFaults
        BY FaultTypes DEF TypeInv, WorkStep, Sweep, Load, Claim, Complete, FailOwn, StartRecord,
                          FinishRecord, Breaks, Raises
    <2>2. doubled' = doubled /\ stolen' = stolen
        BY DEF WorkStep, Sweep, Load, Claim, Complete, FailOwn, StartRecord, FinishRecord, Breaks,
               Raises, history
    <2>3. misjudged' \subseteq Jobs
        <3>1. ASSUME NEW failing \in SUBSET Jobs, Judged(failing)
              PROVE  misjudged' \subseteq Jobs
            BY <3>1 DEF Judged, TypeInv, HistoryOK
        <3>2. CASE Sweep(w)
            <4>1. work[w].doomed \in SUBSET Jobs
                BY <3>2, AtBusy DEF Sweep, Work, TypeInv
            <4> QED BY <3>1, <3>2, <4>1 DEF Sweep
        <3>3. CASE FailOwn(w)
            <4>1. {work[w].job} \in SUBSET Jobs
                BY <3>3, HeldSelected DEF FailOwn, TypeInv
            <4> QED BY <3>1, <3>3, <4>1 DEF FailOwn
        <3>4. CASE ~Sweep(w) /\ ~FailOwn(w)
            BY <3>4 DEF TypeInv, HistoryOK, WorkStep, Load, Claim, Complete, StartRecord, FinishRecord,
                        Breaks, Raises, history
        <3> QED BY <3>2, <3>3, <3>4
    <2>4. dropped' \subseteq Jobs
        <3>1. CASE Raises(w)
            BY <3>1, HeldSelected DEF Raises, TypeInv, HistoryOK
        <3>2. CASE ~Raises(w)
            BY <3>2 DEF TypeInv, HistoryOK, WorkStep, Sweep, Load, Claim, Complete, FailOwn,
                        StartRecord, FinishRecord, Breaks, history
        <3> QED BY <3>1, <3>2
    <2> QED BY <2>1, <2>2, <2>3, <2>4 DEF TypeInv, HistoryOK
<1> QED BY <1>1, <1>2, <1>3, <1>4 DEF TypeInv

LEMMA ProcessTypes ==
    ASSUME TypeInv, (\E w \in Executions : WorkerLost(w) \/ Redeliver(w)) \/ ApiRestart
    PROVE  TypeInv'
<1>1. RowsOK' /\ TasksOK'
    <2>1. UNCHANGED <<rows, taskState>>
        BY DEF WorkerLost, Redeliver, ApiRestart
    <2>2. queued' \in [Jobs -> Nat]
        BY DEF TypeInv, TasksOK, WorkerLost, Redeliver, ApiRestart
    <2> QED BY <2>1, <2>2 DEF TypeInv, RowsOK, TasksOK, rows
<1>2. RequestsOK'
    BY DEF TypeInv, RequestsOK, WorkerLost, Redeliver, ApiRestart
<1>3. WorkOK'
    <2>1. WorkValue(NoWork)
        BY DEF WorkValue
    <2>2. CASE \E w \in Executions : WorkerLost(w)
        BY <2>1, <2>2, WorkingOK DEF WorkerLost, TypeInv
    <2>3. CASE \E w \in Executions : Redeliver(w)
        BY <2>3 DEF Redeliver, TypeInv, WorkOK, WorkValue
    <2>4. CASE ApiRestart
        <3>1. work' = [w \in Executions |-> IF Busy(w) /\ ~work[w].celery THEN NoWork ELSE work[w]]
            BY <2>4 DEF ApiRestart
        <3>2. \A w \in Executions : WorkValue(work[w])
            BY DEF TypeInv, WorkOK
        <3>3. ASSUME NEW w \in Executions PROVE WorkValue(work'[w])
            BY <2>1, <3>1, <3>2
        <3>4. work' \in [Executions -> {NoWork} \cup Work]
            BY <3>1 DEF TypeInv, WorkOK
        <3> QED BY <3>3, <3>4 DEF WorkOK, WorkValue
    <2> QED BY <2>2, <2>3, <2>4
<1>4. HistoryOK'
    <2>1. jobFaults' \in 0..MaxJobFaults
        BY FaultTypes DEF TypeInv, WorkerLost, Redeliver, ApiRestart
    <2>2. CASE ApiRestart \/ \E w \in Executions : WorkerLost(w)
        BY <2>1, <2>2 DEF TypeInv, HistoryOK, WorkerLost, ApiRestart, history
    <2>3. ASSUME NEW w \in Executions, Redeliver(w)
          PROVE  HistoryOK'
        BY <2>1, <2>3, BusyWork DEF TypeInv, HistoryOK, Redeliver, Busy
    <2> QED BY <2>2, <2>3
<1> QED BY <1>1, <1>2, <1>3, <1>4 DEF TypeInv

LEMMA TypesStart == JobInit => TypeInv
BY DEF JobInit, TypeInv, RowsOK, RequestsOK, TasksOK, WorkOK, HistoryOK, JobRows, ProductRows,
       WorkValue

LEMMA TypesKept == TypeInv /\ [JobNext]_jobVars => TypeInv'
<1> SUFFICES ASSUME TypeInv, [JobNext]_jobVars PROVE TypeInv'
    OBVIOUS
<1>1. CASE UNCHANGED jobVars
    BY <1>1 DEF jobVars, rows, history, TypeInv, RowsOK, RequestsOK, TasksOK, WorkOK, HistoryOK,
                WorkValue
<1>2. ASSUME NEW j \in Jobs, Choose(j) \/ RequestStep(j) \/ Ages(j)
      PROVE  TypeInv'
    BY <1>2, RequestTypes DEF RequestNext
<1>3. ASSUME NEW w \in Executions, NEW j \in Jobs, TakeMessage(w, j) \/ StartInProcess(w, j)
      PROVE  TypeInv'
    BY <1>3, BeginTypes
<1>4. ASSUME NEW w \in Executions, WorkStep(w) \/ Breaks(w) \/ Raises(w)
      PROVE  TypeInv'
    BY <1>4, WorkTypes
<1>5. CASE (\E w \in Executions : WorkerLost(w) \/ Redeliver(w)) \/ ApiRestart
    BY <1>5, ProcessTypes
<1> QED BY <1>1, <1>2, <1>3, <1>4, <1>5 DEF JobNext

(* Every variable keeps its type, and an execution works only on records    *)
(* that the request for its job asked for.                                  *)
THEOREM JobTypeCorrect == JobSpec => []JobTypeOK
BY TypesStart, TypesKept, TypesMeant, PTL DEF JobSpec

----------------------------------------------------------------------------
(* One execution of a job at a time. *)

\* A message of j and an execution of j exclude each other, neither exists
\* before the request is over, and there is only one of them.
Single(j) ==
    /\ queued[j] \in {0, 1}
    /\ queued[j] = 1 => request[j] = "over" /\ \A w \in Executions : Busy(w) => work[w].job # j
    /\ \A w \in Executions : Busy(w) /\ work[w].job = j => request[j] = "over"
    /\ \A v, w \in Executions :
            Busy(v) /\ Busy(w) /\ work[v].job = j /\ work[w].job = j => v = w

SingleInv == \A j \in Jobs \ doubled : Single(j)

\* No message and no execution begins.
Quiet ==
    /\ \A w \in Executions :
            work'[w] # NoWork => work[w] # NoWork /\ work'[w].job = work[w].job
    /\ queued' = queued
    /\ doubled \subseteq doubled'
    /\ \A j \in Jobs : request[j] = "over" => request'[j] = "over"

LEMMA QuietKeeps ==
    ASSUME SingleInv, Quiet
    PROVE  SingleInv'
<1> SUFFICES ASSUME NEW j \in Jobs, j \notin doubled' PROVE Single(j)'
    BY DEF SingleInv
<1>1. Single(j)
    BY DEF SingleInv, Quiet
<1> QED BY <1>1 DEF Single, Quiet, Busy

LEMMA RequestSingle ==
    ASSUME TypeInv, SingleInv, NEW j \in Jobs, RequestNext(j)
    PROVE  SingleInv'
<1>1. work' = work /\ doubled \subseteq doubled'
    BY DEF RequestNext, RequestStep, Choose, Create, RecordTaskId, Enqueue, EnqueueRaises, Ages,
           history
<1>2. CASE queued' = queued
    <2>1. Quiet
        BY <1>1, <1>2 DEF Quiet, TypeInv, RequestsOK, RequestNext, RequestStep, Choose, Create,
           RecordTaskId, Enqueue, EnqueueRaises, Ages, Requested
    <2> QED BY <2>1, QuietKeeps
<1>3. CASE Enqueue(j)
    <2> SUFFICES ASSUME NEW k \in Jobs, k \notin doubled' PROVE Single(k)'
        BY DEF SingleInv
    <2>1. Single(k)
        BY <1>1 DEF SingleInv
    <2>2. request'[k] = IF k = j THEN "over" ELSE request[k]
        BY <1>3 DEF Enqueue, Requested, TypeInv, RequestsOK
    <2>3. queued'[k] = IF k = j THEN queued[k] + 1 ELSE queued[k]
        BY <1>3 DEF Enqueue, TypeInv, TasksOK
    <2>4. request[j] # "over"
        BY <1>3 DEF Enqueue
    <2> QED BY <1>1, <2>1, <2>2, <2>3, <2>4 DEF Single, Busy
<1>4. ASSUME NEW sent \in BOOLEAN, EnqueueRaises(j, sent)
      PROVE  SingleInv'
    <2> SUFFICES ASSUME NEW k \in Jobs, k \notin doubled' PROVE Single(k)'
        BY DEF SingleInv
    <2>1. Single(k)
        BY <1>1 DEF SingleInv
    <2>2. k # j \/ ~sent
        BY <1>4 DEF EnqueueRaises
    <2>3. queued'[k] = queued[k]
        BY <1>4, <2>2 DEF EnqueueRaises, TypeInv, TasksOK
    <2>4. request[k] = "over" => request'[k] = "over"
        BY <1>4 DEF EnqueueRaises, Requested, TypeInv, RequestsOK
    <2> QED BY <1>1, <2>1, <2>3, <2>4 DEF Single, Busy
<1>5. queued' = queued \/ Enqueue(j) \/ \E sent \in BOOLEAN : EnqueueRaises(j, sent)
    BY DEF RequestNext, RequestStep, Choose, Create, RecordTaskId, Ages
<1> QED BY <1>2, <1>3, <1>4, <1>5

LEMMA BeginSingle ==
    ASSUME TypeInv, SingleInv, NEW w \in Executions, NEW j \in Jobs,
           TakeMessage(w, j) \/ StartInProcess(w, j)
    PROVE  SingleInv'
<1>1. doubled' = doubled /\ ~Busy(w)
    BY DEF TakeMessage, StartInProcess, history
<1>2. work'[w].job = j /\ \A v \in Executions \ {w} : work'[v] = work[v]
    BY EntryShape DEF TypeInv, TakeMessage, StartInProcess
<1> SUFFICES ASSUME NEW k \in Jobs, k \notin doubled PROVE Single(k)'
    BY <1>1 DEF SingleInv
<1>3. Single(k)
    BY DEF SingleInv
<1>4. CASE k # j
    <2>1. queued'[k] = queued[k] /\ request'[k] = request[k]
        BY <1>4 DEF TakeMessage, StartInProcess, Requested, TypeInv, TasksOK, RequestsOK
    <2> QED BY <1>2, <1>3, <1>4, <2>1 DEF Single, Busy
<1>5. CASE k = j
    <2>1. queued'[j] = 0 /\ request'[j] = "over"
        <3>1. CASE TakeMessage(w, j)
            BY <1>3, <1>5, <3>1 DEF Single, TakeMessage, TypeInv, TasksOK
        <3>2. CASE StartInProcess(w, j)
            BY <1>3, <1>5, <3>2 DEF Single, StartInProcess, Requested, TypeInv, RequestsOK
        <3> QED BY <3>1, <3>2
    <2>2. \A v \in Executions : Busy(v) => work[v].job # j
        <3>1. Single(j)
            BY <1>3, <1>5
        <3>2. queued[j] = 1 \/ request[j] = "fallback"
            <4>1. queued[j] > 0 \/ request[j] = "fallback"
                BY DEF TakeMessage, StartInProcess
            <4>2. queued[j] \in {0, 1}
                BY <3>1 DEF Single
            <4> QED BY <4>1, <4>2
        <3> QED BY <3>1, <3>2 DEF Single
    <2>3. Single(j)'
        BY <1>2, <2>1, <2>2 DEF Single, Busy
    <2> QED BY <1>5, <2>3
<1> QED BY <1>4, <1>5

LEMMA WorkQuiet ==
    ASSUME TypeInv, NEW w \in Executions, WorkStep(w) \/ Breaks(w) \/ Raises(w)
    PROVE  Quiet
<1>1. queued' = queued /\ doubled' = doubled /\ request' = request
    BY DEF WorkStep, Sweep, Load, Claim, Complete, FailOwn, StartRecord, FinishRecord, Breaks,
           Raises, history
<1>2. work[w].at # "free"
    BY DEF WorkStep, Sweep, Load, Claim, Complete, FailOwn, StartRecord, FinishRecord, Breaks, Raises
<1>3. work[w] # NoWork
    BY <1>2, NotBusy
<1>4. \/ work'[w] = NoWork /\ \A v \in Executions \ {w} : work'[v] = work[v]
      \/ \E at, left, current : Working(w, at, left, current)
    <2>1. CASE Sweep(w)
        BY <1>2, <2>1, MovesShape DEF Sweep, TypeInv
    <2>2. CASE Load(w)
        <3>1. CASE Moves(w, "failing")
            BY <1>2, <3>1, MovesShape DEF TypeInv
        <3>2. CASE Moves(w, "loaded")
            BY <1>2, <3>2, MovesShape DEF TypeInv
        <3>3. CASE Finishes(w)
            BY <3>3, FinishesShape DEF TypeInv
        <3> QED BY <2>2, <3>1, <3>2, <3>3, LoadShape DEF TypeInv
    <2>3. CASE Claim(w)
        BY <2>3, ClaimShape DEF TypeInv
    <2>4. CASE Complete(w) \/ FailOwn(w) \/ Raises(w)
        BY <2>4, FinishesShape DEF Complete, FailOwn, Raises, TypeInv
    <2>5. CASE \E r \in Records : StartRecord(w, r)
        BY <2>5, StartShape DEF TypeInv
    <2>6. CASE \E outcome \in {"enriched", "failed"} : FinishRecord(w, outcome)
        BY <2>6, FinishShape DEF TypeInv
    <2>7. CASE Breaks(w)
        BY <2>7, BreaksShape DEF TypeInv
    <2> QED BY <2>1, <2>2, <2>3, <2>4, <2>5, <2>6, <2>7 DEF WorkStep
<1> QED BY <1>1, <1>3, <1>4 DEF Quiet, Working

LEMMA ProcessSingle ==
    ASSUME TypeInv, SingleInv, (\E w \in Executions : WorkerLost(w) \/ Redeliver(w)) \/ ApiRestart
    PROVE  SingleInv'
<1>1. CASE ApiRestart
    <2>1. Quiet
        BY <1>1 DEF ApiRestart, Quiet, history
    <2> QED BY <2>1, QuietKeeps
<1>2. ASSUME NEW w \in Executions, Redeliver(w)
      PROVE  SingleInv'
    <2> SUFFICES ASSUME NEW k \in Jobs, k \notin doubled' PROVE Single(k)'
        BY DEF SingleInv
    <2>1. k \notin doubled /\ k # work[w].job
        BY <1>2 DEF Redeliver
    <2>2. queued'[k] = queued[k] /\ work' = work /\ request' = request
        BY <1>2, <2>1 DEF Redeliver, TypeInv, TasksOK
    <2>3. Single(k)
        BY <2>1 DEF SingleInv
    <2> QED BY <2>2, <2>3 DEF Single, Busy
<1>3. ASSUME NEW w \in Executions, WorkerLost(w)
      PROVE  SingleInv'
    <2> SUFFICES ASSUME NEW k \in Jobs, k \notin doubled' PROVE Single(k)'
        BY DEF SingleInv
    <2>1. k \notin doubled /\ request' = request
        BY <1>3 DEF WorkerLost, history
    <2>2. Single(k)
        BY <2>1 DEF SingleInv
    <2>3. work'[w] = NoWork /\ \A v \in Executions \ {w} : work'[v] = work[v]
        BY <1>3 DEF WorkerLost, TypeInv, WorkOK
    <2>4. queued'[k] = IF k = work[w].job THEN queued[k] + 1 ELSE queued[k]
        BY <1>3 DEF WorkerLost, TypeInv, TasksOK
    <2>5. Busy(w)
        BY <1>3 DEF WorkerLost
    <2> QED BY <2>1, <2>2, <2>3, <2>4, <2>5 DEF Single, Busy
<1> QED BY <1>1, <1>2, <1>3

LEMMA SingleKept == TypeInv /\ SingleInv /\ [JobNext]_jobVars => SingleInv'
<1> SUFFICES ASSUME TypeInv, SingleInv, [JobNext]_jobVars PROVE SingleInv'
    OBVIOUS
<1>1. CASE UNCHANGED jobVars
    BY <1>1 DEF jobVars, history, SingleInv, Single, Busy
<1>2. ASSUME NEW j \in Jobs, Choose(j) \/ RequestStep(j) \/ Ages(j)
      PROVE  SingleInv'
    BY <1>2, RequestSingle DEF RequestNext
<1>3. ASSUME NEW w \in Executions, NEW j \in Jobs, TakeMessage(w, j) \/ StartInProcess(w, j)
      PROVE  SingleInv'
    BY <1>3, BeginSingle
<1>4. ASSUME NEW w \in Executions, WorkStep(w) \/ Breaks(w) \/ Raises(w)
      PROVE  SingleInv'
    BY <1>4, WorkQuiet, QuietKeeps
<1>5. CASE (\E w \in Executions : WorkerLost(w) \/ Redeliver(w)) \/ ApiRestart
    BY <1>5, ProcessSingle
<1> QED BY <1>1, <1>2, <1>3, <1>4, <1>5 DEF JobNext

LEMMA SingleStart == JobInit => SingleInv
BY DEF JobInit, SingleInv, Single, Busy

(* The claim reads PENDING and writes RUNNING without a lock, and still no   *)
(* two executions work on one job whose message was never there twice.       *)
THEOREM OneExecutionPerJob == JobSpec => []OneExecution
<1>1. TypeInv /\ SingleInv => OneExecution
    <2> SUFFICES ASSUME SingleInv, NEW j \in Jobs \ doubled
                 PROVE  Cardinality(AtWork(j)) <= 1
        BY DEF OneExecution
    <2>1. \A v, w \in AtWork(j) : v = w
        BY DEF AtWork, SingleInv, Single
    <2>2. CASE AtWork(j) = {}
        BY <2>2, FS_EmptySet
    <2>3. CASE AtWork(j) # {}
        <3>1. PICK w \in AtWork(j) : TRUE
            BY <2>3
        <3>2. AtWork(j) = {w}
            BY <2>1, <3>1
        <3>3. Cardinality({w}) = 1
            BY FS_Singleton
        <3> QED BY <3>2, <3>3
    <2> QED BY <2>2, <2>3
<1> QED BY <1>1, TypesStart, TypesKept, SingleStart, SingleKept, PTL DEF JobSpec

----------------------------------------------------------------------------
(* What an ended job leaves behind. *)

Active(w) == work[w].at \in {"claimed", "enriching"}

Exempt == misjudged \cup doubled

\* Only an execution that has claimed its job has records in hand.
HandsInv ==
    \A w \in Executions : Busy(w) =>
        /\ work[w].at # "enriching" => work[w].current = {}
        /\ ~Active(w) => work[w].left = {}

\* The records in hand belong to the job.
HeldInv ==
    \A w \in Executions, r \in Records \ stolen :
        Busy(w) /\ r \in work[w].left \cup work[w].current => product[r].job = work[w].job

\* A job that is worked on says RUNNING.
RunningInv ==
    \A w \in Executions :
        Active(w) /\ work[w].job \notin Exempt => job[work[w].job].status = "running"

Settled(w, r) ==
    \/ product[r].status = "enriched"
    \/ product[r].status = "failed" /\ work[w].failed

\* The job's records that are no longer in hand have their outcome.
SettledInv ==
    \A w \in Executions, r \in Records \ stolen :
        /\ Active(w)
        /\ work[w].job \notin Exempt
        /\ product[r].job = work[w].job
        /\ r \notin work[w].left \cup work[w].current
        => Settled(w, r)

\* A record follows its product.
RecordInv ==
    \A r \in Records : product[r].status \notin Skipped => record[r] \notin Skipped

EndedInv ==
    \A r \in Records \ stolen, j \in Jobs \ Exempt :
        product[r].job = j /\ job[j].status \in Ended =>
            /\ product[r].status \notin Skipped
            /\ job[j].status = "enriched" => product[r].status = "enriched"

ReleaseInv == HandsInv /\ HeldInv /\ RunningInv /\ SettledInv /\ RecordInv /\ EndedInv

\* Every execution stays, leaves, or is at a place where nothing is in hand.
Rests ==
    \A w \in Executions :
        \/ work'[w] = work[w]
        \/ work'[w] = NoWork
        \/ /\ work'[w].at \notin {"claimed", "enriching"}
           /\ work'[w].left = {}
           /\ work'[w].current = {}

Grows == stolen \subseteq stolen' /\ misjudged \subseteq misjudged' /\ doubled \subseteq doubled'

LEMMA RestsKeepsHands ==
    ASSUME HandsInv, Rests
    PROVE  HandsInv' /\ \A w \in Executions : Active(w)' => work'[w] = work[w] /\ Active(w)
<1>1. ASSUME NEW w \in Executions, Active(w)'
      PROVE  work'[w] = work[w] /\ Active(w)
    BY <1>1, NotBusy DEF Rests, Active
<1>2. ASSUME NEW w \in Executions, Busy(w)'
      PROVE  /\ work'[w].at # "enriching" => work'[w].current = {}
             /\ ~Active(w)' => work'[w].left = {}
    BY <1>2 DEF Rests, HandsInv, Busy, Active
<1> QED BY <1>1, <1>2 DEF HandsInv

\* The rows stay but for task ids and ages.
LEMMA StillKeeps ==
    ASSUME ReleaseInv, Rests, Grows, UNCHANGED <<product, record>>,
           \A j \in Jobs : job'[j].status = job[j].status, TypeInv
    PROVE  ReleaseInv'
<1>1. HandsInv' /\ \A w \in Executions : Active(w)' => work'[w] = work[w] /\ Active(w)
    BY RestsKeepsHands DEF ReleaseInv
<1>2. HeldInv'
    <2> SUFFICES ASSUME NEW w \in Executions, NEW r \in Records, r \notin stolen', work'[w] # NoWork,
                        r \in work'[w].left \cup work'[w].current
                 PROVE  product'[r].job = work'[w].job
        BY DEF HeldInv, Busy
    <2>1. work'[w] = work[w]
        BY DEF Rests
    <2> QED BY <2>1 DEF ReleaseInv, HeldInv, Grows, Busy
<1>3. RunningInv'
    <2> SUFFICES ASSUME NEW w \in Executions, Active(w)', work'[w].job \notin Exempt'
                 PROVE  job'[work'[w].job].status = "running"
        BY DEF RunningInv
    <2>1. work'[w] = work[w] /\ Active(w)
        BY <1>1
    <2>2. work[w].job \in Jobs
        BY <2>1, HeldSelected, NotBusy DEF Active, TypeInv
    <2> QED BY <2>1, <2>2 DEF ReleaseInv, RunningInv, Grows, Exempt
<1>4. SettledInv'
    <2> SUFFICES ASSUME NEW w \in Executions, NEW r \in Records, r \notin stolen', Active(w)',
                        work'[w].job \notin Exempt', product'[r].job = work'[w].job,
                        r \notin work'[w].left \cup work'[w].current
                 PROVE  Settled(w, r)'
        BY DEF SettledInv
    <2>1. work'[w] = work[w] /\ Active(w)
        BY <1>1
    <2>2. Settled(w, r)
        BY <2>1 DEF ReleaseInv, SettledInv, Grows, Exempt
    <2> QED BY <2>1, <2>2 DEF Settled
<1>5. RecordInv'
    BY DEF ReleaseInv, RecordInv
<1>6. EndedInv'
    BY DEF ReleaseInv, EndedInv, Grows, Exempt
<1> QED BY <1>1, <1>2, <1>3, <1>4, <1>5, <1>6 DEF ReleaseInv

\* Jobs fail with what they have open; no execution goes on with records.
LEMMA FailingKeeps ==
    ASSUME TypeInv, ReleaseInv, Rests, UNCHANGED <<stolen, doubled>>,
           NEW failing \in SUBSET Jobs, FailStuck(failing), Judged(failing)
    PROVE  ReleaseInv'
<1>1. HandsInv' /\ \A w \in Executions : Active(w)' => work'[w] = work[w] /\ Active(w)
    BY RestsKeepsHands DEF ReleaseInv
<1>2. ASSUME NEW r \in Records
      PROVE  /\ product'[r].job = product[r].job
             /\ product[r].job \notin failing => product'[r] = product[r]
             /\ product[r].status \notin Skipped => product'[r] = product[r]
             /\ product[r].job \in failing => product'[r].status \notin Skipped
    <2>1. product[r] \in ProductRows
        BY DEF TypeInv, RowsOK
    <2> DEFINE x == [product[r] EXCEPT !.status = "failed"]
    <2>2. x.status = "failed" /\ x.job = product[r].job
        BY <2>1 DEF ProductRows
    <2>3. product'[r] = IF product[r].job \in failing /\ product[r].status \in Skipped
                        THEN x ELSE product[r]
        BY DEF FailStuck
    <2> HIDE DEF x
    <2> QED BY <2>2, <2>3 DEF Skipped
<1>3. ASSUME NEW j \in Jobs
      PROVE  IF j \in failing THEN job'[j].status = "failed" ELSE job'[j] = job[j]
    <2>1. job[j] \in JobRows
        BY DEF TypeInv, RowsOK
    <2> DEFINE x == [job[j] EXCEPT !.status = "failed", !.age = 0]
    <2>2. x.status = "failed"
        BY <2>1 DEF JobRows
    <2>3. job'[j] = IF j \in failing THEN x ELSE job[j]
        BY DEF FailStuck
    <2> HIDE DEF x
    <2> QED BY <2>2, <2>3
<1>4. misjudged \subseteq misjudged'
      /\ \A w \in Executions : Active(w) /\ work[w].job \in failing => work[w].job \in misjudged'
    <2>1. ASSUME NEW w \in Executions, Active(w), work[w].job \in failing
          PROVE  w \in AtWork(work[w].job)
        BY <2>1, NotBusy DEF Active, AtWork, Busy
    <2> QED BY <2>1 DEF Judged
<1>5. HeldInv'
    <2> SUFFICES ASSUME NEW w \in Executions, NEW r \in Records, r \notin stolen, work'[w] # NoWork,
                        r \in work'[w].left \cup work'[w].current
                 PROVE  product'[r].job = work'[w].job
        BY DEF HeldInv, Busy
    <2>1. work'[w] = work[w]
        BY DEF Rests
    <2> QED BY <1>2, <2>1 DEF ReleaseInv, HeldInv, Busy
<1>6. RunningInv'
    <2> SUFFICES ASSUME NEW w \in Executions, Active(w)', work'[w].job \notin Exempt'
                 PROVE  job'[work'[w].job].status = "running"
        BY DEF RunningInv
    <2>1. work'[w] = work[w] /\ Active(w)
        BY <1>1
    <2>2. work[w].job \in Jobs /\ work[w].job \notin failing /\ work[w].job \notin Exempt
        BY <1>4, <2>1, HeldSelected, NotBusy DEF Active, TypeInv, Exempt
    <2> QED BY <1>3, <2>1, <2>2 DEF ReleaseInv, RunningInv
<1>7. SettledInv'
    <2> SUFFICES ASSUME NEW w \in Executions, NEW r \in Records, r \notin stolen, Active(w)',
                        work'[w].job \notin Exempt', product'[r].job = work'[w].job,
                        r \notin work'[w].left \cup work'[w].current
                 PROVE  Settled(w, r)'
        BY DEF SettledInv
    <2>1. work'[w] = work[w] /\ Active(w)
        BY <1>1
    <2>2. work[w].job \notin failing /\ work[w].job \notin Exempt
        BY <1>4, <2>1 DEF Exempt
    <2>3. product'[r] = product[r]
        BY <1>2, <2>1, <2>2
    <2>4. Settled(w, r)
        BY <2>1, <2>2, <2>3 DEF ReleaseInv, SettledInv
    <2> QED BY <2>1, <2>3, <2>4 DEF Settled
<1>8. RecordInv'
    <2> SUFFICES ASSUME NEW r \in Records, product'[r].status \notin Skipped
                 PROVE  record'[r] \notin Skipped
        BY DEF RecordInv
    <2>1. CASE product[r].status \notin Skipped
        BY <2>1 DEF ReleaseInv, RecordInv, FailStuck
    <2>2. CASE product[r].status \in Skipped
        <3>1. product[r].job \in failing
            BY <1>2, <2>2
        <3> QED BY <2>2, <3>1 DEF FailStuck, Skipped
    <2> QED BY <2>1, <2>2
<1>9. EndedInv'
    <2> SUFFICES ASSUME NEW r \in Records, NEW j \in Jobs, r \notin stolen, j \notin Exempt',
                        product'[r].job = j, job'[j].status \in Ended
                 PROVE  /\ product'[r].status \notin Skipped
                        /\ job'[j].status = "enriched" => product'[r].status = "enriched"
        BY DEF EndedInv
    <2>1. j \notin Exempt /\ product[r].job = j
        BY <1>2, <1>4 DEF Exempt
    <2>2. CASE j \in failing
        BY <1>2, <1>3, <2>1, <2>2
    <2>3. CASE j \notin failing
        <3>1. job'[j] = job[j] /\ product'[r] = product[r]
            BY <1>2, <1>3, <2>1, <2>3
        <3> QED BY <2>1, <3>1 DEF ReleaseInv, EndedInv
    <2> QED BY <2>2, <2>3
<1> QED BY <1>1, <1>5, <1>6, <1>7, <1>8, <1>9 DEF ReleaseInv

LEMMA ActiveJob ==
    ASSUME TypeInv, NEW w \in Executions, Active(w)
    PROVE  Busy(w) /\ work[w].job \in Jobs /\ work[w] \in Work
BY AtBusy, HeldSelected, NotBusy DEF Active, TypeInv, Busy

\* A job whose request is not over is not worked on, unless it is doubled.
LEMMA NobodyBefore ==
    ASSUME TypeInv, SingleInv, NEW j \in Jobs, request[j] # "over", NEW w \in Executions, Active(w),
           work[w].job = j
    PROVE  j \in doubled
BY ActiveJob DEF SingleInv, Single

LEMMA CreateKeeps ==
    ASSUME TypeInv, SingleInv, ReleaseInv, NEW j \in Jobs, Create(j)
    PROVE  ReleaseInv'
<1>1. work' = work /\ UNCHANGED <<misjudged, doubled>> /\ stolen \subseteq stolen'
    BY DEF Create
<1>2. RowSet(j, "pending")
    <2> DEFINE x == [job[j] EXCEPT !.status = "pending"]
    <2>1. x.status = "pending"
        BY DEF TypeInv, RowsOK, JobRows
    <2>2. job' = [job EXCEPT ![j] = x]
        BY DEF Create
    <2> HIDE DEF x
    <2> QED BY <2>1, <2>2 DEF RowSet, TypeInv, RowsOK
<1>3. ASSUME NEW r \in Records
      PROVE  IF r \in accepted[j]
             THEN product'[r].job = j /\ product'[r].status = "pending" /\ record'[r] = "pending"
             ELSE product'[r] = product[r] /\ record'[r] = record[r]
    BY DEF Create, Upserted, TypeInv, RowsOK
<1>4. \A w \in Executions : Active(w) => work[w].job # j \/ j \in doubled
    BY NobodyBefore DEF Create
<1>5. HandsInv'
    BY <1>1 DEF ReleaseInv, HandsInv, Busy, Active
<1>6. HeldInv'
    <2> SUFFICES ASSUME NEW w \in Executions, NEW r \in Records, r \notin stolen', Busy(w),
                        r \in work[w].left \cup work[w].current
                 PROVE  product'[r].job = work[w].job
        BY <1>1 DEF HeldInv, Busy
    <2>1. r \notin accepted[j]
        BY DEF Create
    <2> QED BY <1>1, <1>3, <2>1 DEF ReleaseInv, HeldInv
<1>7. RunningInv'
    <2> SUFFICES ASSUME NEW w \in Executions, Active(w), work[w].job \notin Exempt
                 PROVE  job'[work[w].job].status = "running"
        BY <1>1 DEF RunningInv, Active, Exempt
    <2>1. work[w].job # j /\ work[w].job \in Jobs
        BY <1>4, ActiveJob DEF Exempt
    <2> QED BY <1>2, <2>1 DEF ReleaseInv, RunningInv, RowSet
<1>8. SettledInv'
    <2> SUFFICES ASSUME NEW w \in Executions, NEW r \in Records, r \notin stolen', Active(w),
                        work[w].job \notin Exempt, product'[r].job = work[w].job,
                        r \notin work[w].left \cup work[w].current
                 PROVE  Settled(w, r)'
        BY <1>1 DEF SettledInv, Active, Exempt
    <2>1. work[w].job # j
        BY <1>4 DEF Exempt
    <2>2. product'[r] = product[r]
        BY <1>3, <2>1
    <2>3. Settled(w, r)
        BY <1>1, <2>2 DEF ReleaseInv, SettledInv
    <2> QED BY <1>1, <2>2, <2>3 DEF Settled
<1>9. RecordInv'
    BY <1>3 DEF ReleaseInv, RecordInv, Skipped
<1>10. EndedInv'
    <2> SUFFICES ASSUME NEW r \in Records, NEW k \in Jobs, r \notin stolen', k \notin Exempt,
                        product'[r].job = k, job'[k].status \in Ended
                 PROVE  /\ product'[r].status \notin Skipped
                        /\ job'[k].status = "enriched" => product'[r].status = "enriched"
        BY <1>1 DEF EndedInv, Exempt
    <2>1. k # j /\ job'[k] = job[k]
        BY <1>2 DEF RowSet, Ended
    <2>2. product'[r] = product[r]
        BY <1>3, <2>1
    <2> QED BY <1>1, <2>1, <2>2 DEF ReleaseInv, EndedInv
<1> QED BY <1>5, <1>6, <1>7, <1>8, <1>9, <1>10 DEF ReleaseInv

LEMMA ClaimKeeps ==
    ASSUME TypeInv, ReleaseInv, NEW w \in Executions, Claim(w)
    PROVE  ReleaseInv'
<1> DEFINE mine == {r \in Records : product[r].job = work[w].job}
<1>1. UNCHANGED <<product, record, history>> /\ work[w].at = "loaded"
    BY DEF Claim
<1>2. work[w].job \in Jobs /\ work[w] # NoWork /\ work[w].current = {}
    BY <1>1, HeldSelected, NotBusy DEF TypeInv, ReleaseInv, HandsInv, Busy
<1>3. RowSet(work[w].job, "running")
    BY <1>2, SettingRow DEF Claim, TypeInv, RowsOK, Skipped
<1>4. Working(w, "claimed", mine, {})
    BY <1>2, ClaimShape DEF TypeInv
<1>5. /\ work'[w].at = "claimed" /\ work'[w].left = mine /\ work'[w].current = {}
      /\ work'[w].job = work[w].job /\ \A v \in Executions \ {w} : work'[v] = work[v]
    BY <1>4 DEF Working
<1>6. HandsInv'
    BY <1>5 DEF ReleaseInv, HandsInv, Busy, Active
<1>7. HeldInv'
    <2> SUFFICES ASSUME NEW v \in Executions, NEW r \in Records, r \notin stolen, work'[v] # NoWork,
                        r \in work'[v].left \cup work'[v].current
                 PROVE  product[r].job = work'[v].job
        BY <1>1 DEF HeldInv, Busy, history
    <2>1. CASE v = w
        BY <1>5, <2>1
    <2>2. CASE v # w
        BY <1>5, <2>2 DEF ReleaseInv, HeldInv, Busy
    <2> QED BY <2>1, <2>2
<1>8. RunningInv'
    <2> SUFFICES ASSUME NEW v \in Executions, Active(v)', work'[v].job \notin Exempt
                 PROVE  job'[work'[v].job].status = "running"
        BY <1>1 DEF RunningInv, Exempt, history
    <2>1. CASE work'[v].job = work[w].job
        BY <1>3, <2>1 DEF RowSet
    <2>2. CASE work'[v].job # work[w].job
        <3>1. work'[v] = work[v] /\ Active(v)
            BY <1>5, <2>2 DEF Active
        <3> QED BY <1>3, <2>2, <3>1, ActiveJob DEF ReleaseInv, RunningInv, RowSet
    <2> QED BY <2>1, <2>2
<1>9. SettledInv'
    <2> SUFFICES ASSUME NEW v \in Executions, NEW r \in Records, r \notin stolen, Active(v)',
                        work'[v].job \notin Exempt, product[r].job = work'[v].job,
                        r \notin work'[v].left \cup work'[v].current
                 PROVE  Settled(v, r)'
        BY <1>1 DEF SettledInv, Exempt, history
    <2>1. v # w
        BY <1>5
    <2>2. work'[v] = work[v] /\ Active(v)
        BY <1>5, <2>1 DEF Active
    <2>3. Settled(v, r)
        BY <2>2 DEF ReleaseInv, SettledInv
    <2> QED BY <1>1, <2>2, <2>3 DEF Settled
<1>10. RecordInv'
    BY <1>1 DEF ReleaseInv, RecordInv
<1>11. EndedInv'
    <2>1. \A k \in Jobs : job'[k].status \in Ended => job'[k] = job[k]
        BY <1>3 DEF RowSet, Ended
    <2> QED BY <1>1, <2>1 DEF ReleaseInv, EndedInv, Exempt, history
<1> QED BY <1>6, <1>7, <1>8, <1>9, <1>10, <1>11 DEF ReleaseInv

\* Of two executions with one job, that job is doubled.
LEMMA OnlyOne ==
    ASSUME TypeInv, SingleInv, NEW v \in Executions, NEW w \in Executions, Active(v), Busy(w),
           work[v].job = work[w].job, work[v].job \notin doubled
    PROVE  v = w
BY ActiveJob DEF SingleInv, Single

LEMMA StartKeeps ==
    ASSUME TypeInv, SingleInv, ReleaseInv, NEW w \in Executions, NEW s \in Records,
           StartRecord(w, s)
    PROVE  ReleaseInv'
<1>1. job' = job /\ UNCHANGED history /\ work[w].at = "claimed" /\ s \in work[w].left
    BY DEF StartRecord
<1>2. Busy(w) /\ Active(w) /\ work[w].current = {}
    BY <1>1, NotBusy DEF Active, ReleaseInv, HandsInv, Busy
<1>3. /\ work'[w].at = "enriching" /\ work'[w].left = work[w].left \ {s} /\ work'[w].current = {s}
      /\ work'[w].job = work[w].job /\ \A v \in Executions \ {w} : work'[v] = work[v]
      /\ work'[w].failed = work[w].failed
    BY StartShape DEF Working, TypeInv
<1>4. /\ product'[s].job = product[s].job /\ product'[s].status = "running" /\ record'[s] = "running"
      /\ \A r \in Records \ {s} : product'[r] = product[r] /\ record'[r] = record[r]
    <2> DEFINE x == [product[s] EXCEPT !.status = "running"]
    <2>1. x.status = "running" /\ x.job = product[s].job
        BY DEF TypeInv, RowsOK, ProductRows
    <2>2. product' = [product EXCEPT ![s] = x] /\ record' = [record EXCEPT ![s] = "running"]
        BY DEF StartRecord
    <2> HIDE DEF x
    <2> QED BY <2>1, <2>2 DEF TypeInv, RowsOK
<1>5. s \notin stolen => product[s].job = work[w].job
    BY <1>1, <1>2 DEF ReleaseInv, HeldInv
<1>6. HandsInv'
    BY <1>3 DEF ReleaseInv, HandsInv, Busy, Active
<1>7. HeldInv'
    <2> SUFFICES ASSUME NEW v \in Executions, NEW r \in Records, r \notin stolen, work'[v] # NoWork,
                        r \in work'[v].left \cup work'[v].current
                 PROVE  product[r].job = work'[v].job
        BY <1>1, <1>4 DEF HeldInv, Busy, history
    <2>1. CASE v = w
        BY <1>1, <1>2, <1>3, <1>5, <2>1 DEF ReleaseInv, HeldInv
    <2>2. CASE v # w
        BY <1>3, <2>2 DEF ReleaseInv, HeldInv, Busy
    <2> QED BY <2>1, <2>2
<1>8. \A v \in Executions : Active(v)' => Active(v) /\ work'[v].job = work[v].job
    BY <1>2, <1>3 DEF Active
<1>9. RunningInv'
    BY <1>1, <1>8 DEF ReleaseInv, RunningInv, Exempt, history
<1>10. SettledInv'
    <2> SUFFICES ASSUME NEW v \in Executions, NEW r \in Records, r \notin stolen, Active(v)',
                        work'[v].job \notin Exempt, product'[r].job = work'[v].job,
                        r \notin work'[v].left \cup work'[v].current
                 PROVE  Settled(v, r)'
        BY <1>1 DEF SettledInv, Exempt, history
    <2>1. r # s
        <3> SUFFICES ASSUME r = s PROVE FALSE
            OBVIOUS
        <3>1. v # w
            BY <1>3
        <3>2. work[v].job = work[w].job /\ Active(v)
            BY <1>4, <1>5, <1>8
        <3>3. work[v].job \notin doubled
            BY <1>8 DEF Exempt
        <3> QED BY <1>2, <3>1, <3>2, <3>3, OnlyOne
    <2>2. product'[r] = product[r] /\ product[r].job = work[v].job
        BY <1>4, <1>8, <2>1
    <2>3. r \notin work[v].left \cup work[v].current
        BY <1>2, <1>3, <2>1
    <2>4. Settled(v, r)
        BY <1>8, <2>2, <2>3 DEF ReleaseInv, SettledInv
    <2>5. work'[v].failed = work[v].failed
        BY <1>3
    <2> QED BY <2>2, <2>4, <2>5 DEF Settled
<1>11. RecordInv'
    BY <1>4 DEF ReleaseInv, RecordInv, Skipped
<1>12. EndedInv'
    <2> SUFFICES ASSUME NEW r \in Records, NEW j \in Jobs, r \notin stolen, j \notin Exempt,
                        product'[r].job = j, job[j].status \in Ended
                 PROVE  /\ product'[r].status \notin Skipped
                        /\ job[j].status = "enriched" => product'[r].status = "enriched"
        BY <1>1 DEF EndedInv, Exempt, history
    <2>1. r # s
        BY <1>2, <1>4, <1>5 DEF ReleaseInv, RunningInv, Ended
    <2>2. product'[r] = product[r]
        BY <1>4, <2>1
    <2>3. EndedInv
        BY DEF ReleaseInv
    <2> QED BY <2>2, <2>3 DEF EndedInv
<1> QED BY <1>6, <1>7, <1>9, <1>10, <1>11, <1>12 DEF ReleaseInv

LEMMA FinishKeeps ==
    ASSUME TypeInv, SingleInv, ReleaseInv, NEW w \in Executions,
           NEW outcome \in {"enriched", "failed"}, FinishRecord(w, outcome)
    PROVE  ReleaseInv'
<1>1. job' = job /\ UNCHANGED history /\ work[w].at = "enriching"
    BY DEF FinishRecord
<1>2. Busy(w) /\ Active(w)
    BY <1>1, NotBusy DEF Active, Busy
<1>3. /\ work'[w].at = "claimed" /\ work'[w].left = work[w].left /\ work'[w].current = {}
      /\ work'[w].job = work[w].job /\ \A v \in Executions \ {w} : work'[v] = work[v]
      /\ work[w].failed \/ outcome = "failed" => work'[w].failed
    BY FinishShape DEF Working, TypeInv
<1>4. ASSUME NEW r \in Records
      PROVE  /\ product'[r].job = product[r].job
             /\ IF r \in work[w].current THEN product'[r].status = outcome /\ record'[r] = outcome
                ELSE product'[r] = product[r] /\ record'[r] = record[r]
    <2> DEFINE x == [product[r] EXCEPT !.status = outcome]
    <2>1. x.status = outcome /\ x.job = product[r].job
        BY DEF TypeInv, RowsOK, ProductRows
    <2>2. /\ product'[r] = IF r \in work[w].current THEN x ELSE product[r]
          /\ record'[r] = IF r \in work[w].current THEN outcome ELSE record[r]
        BY DEF FinishRecord
    <2> HIDE DEF x
    <2> QED BY <2>1, <2>2
<1>5. \A r \in work[w].current \ stolen : r \in Records => product[r].job = work[w].job
    BY <1>2 DEF ReleaseInv, HeldInv
<1>6. HandsInv'
    BY <1>3 DEF ReleaseInv, HandsInv, Busy, Active
<1>7. HeldInv'
    <2> SUFFICES ASSUME NEW v \in Executions, NEW r \in Records, r \notin stolen, work'[v] # NoWork,
                        r \in work'[v].left \cup work'[v].current
                 PROVE  product[r].job = work'[v].job
        BY <1>1, <1>4 DEF HeldInv, Busy, history
    <2>1. CASE v = w
        BY <1>2, <1>3, <2>1 DEF ReleaseInv, HeldInv
    <2>2. CASE v # w
        BY <1>3, <2>2 DEF ReleaseInv, HeldInv, Busy
    <2> QED BY <2>1, <2>2
<1>8. \A v \in Executions : Active(v)' => Active(v) /\ work'[v].job = work[v].job
    BY <1>2, <1>3 DEF Active
<1>9. RunningInv'
    BY <1>1, <1>8 DEF ReleaseInv, RunningInv, Exempt, history
<1>10. SettledInv'
    <2> SUFFICES ASSUME NEW v \in Executions, NEW r \in Records, r \notin stolen, Active(v)',
                        work'[v].job \notin Exempt, product'[r].job = work'[v].job,
                        r \notin work'[v].left \cup work'[v].current
                 PROVE  Settled(v, r)'
        BY <1>1 DEF SettledInv, Exempt, history
    <2>1. CASE r \in work[w].current
        <3>1. work[v].job = work[w].job /\ Active(v)
            BY <1>4, <1>5, <1>8, <2>1
        <3>2. work[v].job \notin doubled
            BY <1>8 DEF Exempt
        <3>3. v = w
            BY <1>2, <3>1, <3>2, OnlyOne
        <3> QED BY <1>3, <1>4, <2>1, <3>3 DEF Settled
    <2>2. CASE r \notin work[w].current
        <3>1. product'[r] = product[r] /\ product[r].job = work[v].job
            BY <1>4, <1>8, <2>2
        <3>2. r \notin work[v].left \cup work[v].current
            BY <1>3, <2>2
        <3>3. Settled(v, r)
            BY <1>8, <3>1, <3>2 DEF ReleaseInv, SettledInv
        <3>4. work[v].failed => work'[v].failed
            BY <1>3
        <3> QED BY <3>1, <3>3, <3>4 DEF Settled
    <2> QED BY <2>1, <2>2
<1>11. RecordInv'
    BY <1>4 DEF ReleaseInv, RecordInv, Skipped
<1>12. EndedInv'
    <2> SUFFICES ASSUME NEW r \in Records, NEW j \in Jobs, r \notin stolen, j \notin Exempt,
                        product'[r].job = j, job[j].status \in Ended
                 PROVE  /\ product'[r].status \notin Skipped
                        /\ job[j].status = "enriched" => product'[r].status = "enriched"
        BY <1>1 DEF EndedInv, Exempt, history
    <2>1. r \notin work[w].current
        BY <1>2, <1>4, <1>5 DEF ReleaseInv, RunningInv, Ended
    <2>2. product'[r] = product[r]
        BY <1>4, <2>1
    <2>3. EndedInv
        BY DEF ReleaseInv
    <2> QED BY <2>2, <2>3 DEF EndedInv
<1> QED BY <1>6, <1>7, <1>9, <1>10, <1>11, <1>12 DEF ReleaseInv

LEMMA CompleteKeeps ==
    ASSUME TypeInv, SingleInv, ReleaseInv, NEW w \in Executions, Complete(w)
    PROVE  ReleaseInv'
<1> DEFINE j == work[w].job
<1>1. UNCHANGED <<product, record, history>> /\ work[w].at = "claimed" /\ work[w].left = {}
    BY DEF Complete
<1>2. Busy(w) /\ Active(w) /\ j \in Jobs /\ work[w].current = {}
    BY <1>1, ActiveJob DEF Active, ReleaseInv, HandsInv
<1>3. RowSet(j, Outcome(work[w]))
    BY <1>2, SettingRow, OutcomeEnded DEF Complete, TypeInv, RowsOK
<1>4. work'[w] = NoWork /\ \A v \in Executions \ {w} : work'[v] = work[v]
    BY FinishesShape DEF Complete, TypeInv
<1>5. Rests
    BY <1>4 DEF Rests
<1>6. HandsInv' /\ \A v \in Executions : Active(v)' => work'[v] = work[v] /\ Active(v)
    BY <1>5, RestsKeepsHands DEF ReleaseInv
<1>7. HeldInv'
    BY <1>1, <1>4 DEF ReleaseInv, HeldInv, Busy, history
<1>8. RunningInv'
    <2> SUFFICES ASSUME NEW v \in Executions, Active(v)', work'[v].job \notin Exempt
                 PROVE  job'[work'[v].job].status = "running"
        BY <1>1 DEF RunningInv, Exempt, history
    <2>1. v # w /\ work'[v] = work[v] /\ Active(v)
        BY <1>4, <1>6, NotBusy DEF Active
    <2>2. work[v].job # j
        BY <1>2, <2>1, OnlyOne DEF Exempt
    <2> QED BY <1>3, <2>1, <2>2, ActiveJob DEF ReleaseInv, RunningInv, RowSet
<1>9. SettledInv'
    <2> SUFFICES ASSUME NEW v \in Executions, NEW r \in Records, r \notin stolen, Active(v)',
                        work'[v].job \notin Exempt, product[r].job = work'[v].job,
                        r \notin work'[v].left \cup work'[v].current
                 PROVE  Settled(v, r)'
        BY <1>1 DEF SettledInv, Exempt, history
    <2>1. work'[v] = work[v] /\ Active(v)
        BY <1>6
    <2>2. Settled(v, r)
        BY <2>1 DEF ReleaseInv, SettledInv
    <2> QED BY <1>1, <2>1, <2>2 DEF Settled
<1>10. RecordInv'
    BY <1>1 DEF ReleaseInv, RecordInv
<1>11. EndedInv'
    <2> SUFFICES ASSUME NEW r \in Records, NEW k \in Jobs, r \notin stolen, k \notin Exempt,
                        product[r].job = k, job'[k].status \in Ended
                 PROVE  /\ product[r].status \notin Skipped
                        /\ job'[k].status = "enriched" => product[r].status = "enriched"
        BY <1>1 DEF EndedInv, Exempt, history
    <2>1. CASE k = j
        <3>1. Settled(w, r)
            BY <1>1, <1>2, <2>1 DEF ReleaseInv, SettledInv
        <3>2. job'[k].status = "enriched" => ~work[w].failed
            BY <1>3, <2>1 DEF RowSet, Outcome
        <3> QED BY <3>1, <3>2 DEF Settled, Skipped
    <2>2. CASE k # j
        <3>1. job'[k] = job[k]
            BY <1>3, <2>2 DEF RowSet
        <3> QED BY <3>1 DEF ReleaseInv, EndedInv
    <2> QED BY <2>1, <2>2
<1> QED BY <1>6, <1>7, <1>8, <1>9, <1>10, <1>11 DEF ReleaseInv

LEMMA RequestKeeps ==
    ASSUME TypeInv, SingleInv, ReleaseInv, NEW j \in Jobs, RequestNext(j)
    PROVE  ReleaseInv'
<1>1. CASE Create(j)
    BY <1>1, CreateKeeps
<1>2. CASE ~Create(j)
    <2>1. Rests /\ Grows /\ UNCHANGED <<product, record>>
        BY <1>2 DEF Rests, Grows, RequestNext, RequestStep, Choose, RecordTaskId, Enqueue,
                    EnqueueRaises, Ages, rows, history
    <2>2. \A k \in Jobs : job'[k].status = job[k].status
        <3>1. CASE Choose(j) \/ Enqueue(j)
            BY <3>1 DEF Choose, Enqueue, rows
        <3>2. ASSUME NEW x, x.status = job[j].status, job' = [job EXCEPT ![j] = x]
              PROVE  \A k \in Jobs : job'[k].status = job[k].status
            BY <3>2 DEF TypeInv, RowsOK
        <3>3. CASE RecordTaskId(j) \/ \E sent \in BOOLEAN : EnqueueRaises(j, sent)
            <4> DEFINE x(b) == [job[j] EXCEPT !.hasTask = b]
            <4>1. \A b \in BOOLEAN : x(b).status = job[j].status
                BY DEF TypeInv, RowsOK, JobRows
            <4>2. \E b \in BOOLEAN : job' = [job EXCEPT ![j] = x(b)]
                BY <3>3 DEF RecordTaskId, EnqueueRaises
            <4> HIDE DEF x
            <4> QED BY <3>2, <4>1, <4>2
        <3>4. CASE Ages(j)
            <4> DEFINE x == [job[j] EXCEPT !.age = @ + 1]
            <4>1. x.status = job[j].status
                BY DEF TypeInv, RowsOK, JobRows
            <4>2. job' = [job EXCEPT ![j] = x]
                BY <3>4 DEF Ages
            <4> HIDE DEF x
            <4> QED BY <3>2, <4>1, <4>2
        <3> QED BY <1>2, <3>1, <3>3, <3>4 DEF RequestNext, RequestStep
    <2> QED BY <2>1, <2>2, StillKeeps
<1> QED BY <1>1, <1>2

LEMMA BeginKeeps ==
    ASSUME TypeInv, ReleaseInv, NEW w \in Executions, NEW j \in Jobs,
           TakeMessage(w, j) \/ StartInProcess(w, j)
    PROVE  ReleaseInv'
<1>1. Rests
    BY EntryShape DEF TypeInv, TakeMessage, StartInProcess, Rests
<1>2. Grows /\ UNCHANGED <<job, product, record>>
    BY DEF Grows, TakeMessage, StartInProcess, rows, history
<1> QED BY <1>1, <1>2, StillKeeps

LEMMA EmptyHands ==
    ASSUME ReleaseInv, NEW w \in Executions, work[w].at \in {"sweeping", "entered", "loaded", "failing"}
    PROVE  work[w].left = {} /\ work[w].current = {}
BY NotBusy DEF ReleaseInv, HandsInv, Busy, Active

LEMMA WorkKeeps ==
    ASSUME TypeInv, SingleInv, ReleaseInv, NEW w \in Executions,
           WorkStep(w) \/ Breaks(w) \/ Raises(w)
    PROVE  ReleaseInv'
<1>1. CASE Sweep(w)
    <2>1. Working(w, "entered", {}, {}) /\ work[w].doomed \in SUBSET Jobs
        BY <1>1, MovesShape, EmptyHands, AtBusy DEF Sweep, TypeInv, Work
    <2>2. Rests
        BY <2>1 DEF Rests, Working
    <2> QED BY <1>1, <2>1, <2>2, FailingKeeps DEF Sweep
<1>2. CASE FailOwn(w)
    <2>1. Rests
        BY <1>2, FinishesShape DEF FailOwn, Rests, TypeInv
    <2>2. {work[w].job} \in SUBSET Jobs
        BY <1>2, HeldSelected DEF FailOwn, TypeInv
    <2> QED BY <1>2, <2>1, <2>2, FailingKeeps DEF FailOwn
<1>3. CASE Load(w) \/ Breaks(w) \/ Raises(w)
    <2>1. Rests
        <3>1. CASE Load(w)
            <4>1. ASSUME NEW at \in {"failing", "loaded"}, Moves(w, at)
                  PROVE  Working(w, at, {}, {})
                BY <3>1, <4>1, MovesShape, EmptyHands DEF Load, TypeInv
            <4>2. CASE \E at \in {"failing", "loaded"} : Moves(w, at)
                BY <4>1, <4>2 DEF Rests, Working
            <4>3. CASE Finishes(w)
                BY <4>3, FinishesShape DEF Rests, TypeInv
            <4> QED BY <3>1, <4>2, <4>3, LoadShape DEF TypeInv
        <3>2. CASE Breaks(w)
            BY <3>2, BreaksShape DEF TypeInv, Rests, Working
        <3>3. CASE Raises(w)
            BY <3>3, FinishesShape DEF Raises, Rests, TypeInv
        <3> QED BY <1>3, <3>1, <3>2, <3>3
    <2>2. Grows /\ UNCHANGED <<job, product, record>>
        BY <1>3 DEF Grows, Load, Breaks, Raises, rows, history
    <2> QED BY <2>1, <2>2, StillKeeps
<1>4. CASE Claim(w)
    BY <1>4, ClaimKeeps
<1>5. CASE Complete(w)
    BY <1>5, CompleteKeeps
<1>6. CASE \E r \in Records : StartRecord(w, r)
    BY <1>6, StartKeeps
<1>7. CASE \E outcome \in {"enriched", "failed"} : FinishRecord(w, outcome)
    BY <1>7, FinishKeeps
<1> QED BY <1>1, <1>2, <1>3, <1>4, <1>5, <1>6, <1>7 DEF WorkStep

LEMMA ProcessKeeps ==
    ASSUME TypeInv, ReleaseInv, (\E w \in Executions : WorkerLost(w) \/ Redeliver(w)) \/ ApiRestart
    PROVE  ReleaseInv'
<1>1. Rests
    BY DEF Rests, WorkerLost, Redeliver, ApiRestart, TypeInv, WorkOK
<1>2. Grows /\ UNCHANGED <<job, product, record>>
    BY DEF Grows, WorkerLost, Redeliver, ApiRestart, rows, history
<1> QED BY <1>1, <1>2, StillKeeps

LEMMA ReleaseStart == JobInit => ReleaseInv
BY DEF JobInit, ReleaseInv, HandsInv, HeldInv, RunningInv, SettledInv, RecordInv, EndedInv, Busy,
       Active, Ended, NoWork, Skipped

LEMMA ReleaseKept == TypeInv /\ SingleInv /\ ReleaseInv /\ [JobNext]_jobVars => ReleaseInv'
<1> SUFFICES ASSUME TypeInv, SingleInv, ReleaseInv, [JobNext]_jobVars PROVE ReleaseInv'
    OBVIOUS
<1>1. CASE UNCHANGED jobVars
    <2>1. Rests /\ Grows /\ UNCHANGED <<job, product, record>>
        BY <1>1 DEF jobVars, rows, history, Rests, Grows
    <2> QED BY <2>1, StillKeeps
<1>2. ASSUME NEW j \in Jobs, Choose(j) \/ RequestStep(j) \/ Ages(j)
      PROVE  ReleaseInv'
    BY <1>2, RequestKeeps DEF RequestNext
<1>3. ASSUME NEW w \in Executions, NEW j \in Jobs, TakeMessage(w, j) \/ StartInProcess(w, j)
      PROVE  ReleaseInv'
    BY <1>3, BeginKeeps
<1>4. ASSUME NEW w \in Executions, WorkStep(w) \/ Breaks(w) \/ Raises(w)
      PROVE  ReleaseInv'
    BY <1>4, WorkKeeps
<1>5. CASE (\E w \in Executions : WorkerLost(w) \/ Redeliver(w)) \/ ApiRestart
    BY <1>5, ProcessKeeps
<1> QED BY <1>1, <1>2, <1>3, <1>4, <1>5 DEF JobNext

LEMMA JobInvariant == JobSpec => [](TypeInv /\ SingleInv /\ ReleaseInv)
BY TypesStart, TypesKept, SingleStart, SingleKept, ReleaseStart, ReleaseKept, PTL DEF JobSpec

(* A job that has ended leaves no product and no record pending or running, *)
(* whatever was lost on the way, but for the named cases.                   *)
THEOREM EndedJobsRelease == JobSpec => []EndedReleases
<1>1. TypeInv /\ ReleaseInv => EndedReleases
    <2> SUFFICES ASSUME TypeInv, ReleaseInv, NEW r \in Records, NEW j, j = product[r].job,
                        j # NoJob, j \notin misjudged \cup doubled, r \notin stolen,
                        job[j].status \in Ended
                 PROVE  product[r].status \notin Skipped /\ record[r] \notin Skipped
        BY DEF EndedReleases
    <2>1. j \in Jobs
        BY DEF TypeInv, RowsOK, ProductRows
    <2>2. product[r].status \notin Skipped
        BY <2>1 DEF ReleaseInv, EndedInv, Exempt
    <2> QED BY <2>2 DEF ReleaseInv, RecordInv
<1> QED BY <1>1, JobInvariant, PTL

(* ENRICHED is written only over a job all of whose products are.           *)
THEOREM EnrichedIsComplete == JobSpec => []EnrichedMeansAll
<1>1. TypeInv /\ ReleaseInv => EnrichedMeansAll
    <2> SUFFICES ASSUME TypeInv, ReleaseInv, NEW r \in Records, NEW j, j = product[r].job,
                        j # NoJob, j \notin misjudged \cup doubled, r \notin stolen,
                        job[j].status = "enriched"
                 PROVE  product[r].status = "enriched"
        BY DEF EnrichedMeansAll
    <2>1. j \in Jobs
        BY DEF TypeInv, RowsOK, ProductRows
    <2> QED BY <2>1 DEF ReleaseInv, EndedInv, Exempt, Ended
<1> QED BY <1>1, JobInvariant, PTL

=============================================================================
