------------------------ MODULE RunLifecycleProofs ------------------------
(* What holds of RunLifecycle for every set of executors, requests and URLs. *)
EXTENDS RunLifecycle, TLAPS

-----------------------------------------------------------------------------
(* What the writers of the row make of it *)

\* The row a submission inserts.
LEMMA NewRowType == NewRow \in Row
BY DEF NewRow, Row, Statuses, Claimable, Terminal, Controls, Verdicts, NoToken

\* A load takes over the columns of the row that the copy is written back from.
LEMMA LoadedType ==
    ASSUME NEW r \in Row
    PROVE  /\ Loaded(r) \in Copy
           /\ Loaded(r).status = r.status /\ Loaded(r).token = r.token
           /\ Loaded(r).control = r.control
BY DEF Loaded, Copy, Row

\* Writing result_summary leaves the status and the lease columns alone.
LEMMA WriteSummaryType ==
    ASSUME NEW r \in Row, NEW copy \in Copy
    PROVE  /\ WriteSummary(r, copy) \in Row
           /\ WriteSummary(r, copy).status = r.status
           /\ WriteSummary(r, copy).owner = r.owner
           /\ WriteSummary(r, copy).lease = r.lease
           /\ WriteSummary(r, copy).token = copy.token
           /\ WriteSummary(r, copy).control = copy.control
BY DEF WriteSummary, Row, Copy

\* Refreshing result_summary leaves the status of the copy alone.
LEMMA RefreshType ==
    ASSUME NEW copy \in Copy, NEW r \in Row
    PROVE  /\ WriteSummary(copy, r) \in Copy
           /\ WriteSummary(copy, r).status = copy.status
           /\ WriteSummary(copy, r).token = r.token
           /\ WriteSummary(copy, r).control = r.control
BY DEF WriteSummary, Row, Copy

\* A unit of work writes the status only if its own copy changed it, and never the
\* lease.
LEMMA FlushType ==
    ASSUME row \in Row, NEW loaded \in Copy, NEW new \in Copy
    PROVE  /\ Flush(loaded, new) \in Row
           /\ Flush(loaded, new).status \in {row.status, new.status}
           /\ loaded.status = new.status => Flush(loaded, new).status = row.status
           /\ Flush(loaded, new).owner = row.owner
           /\ Flush(loaded, new).lease = row.lease
<1> DEFINE r == IF new.status = loaded.status THEN row
                ELSE [row EXCEPT !.status = new.status]
<1>1. /\ r \in Row
      /\ r.status \in {row.status, new.status}
      /\ loaded.status = new.status => r.status = row.status
      /\ r.owner = row.owner
      /\ r.lease = row.lease
    BY DEF Row, Copy
<1>2. Flush(loaded, new) = IF Summary(new) = Summary(loaded) THEN r ELSE WriteSummary(r, new)
    BY DEF Flush
<1> HIDE DEF r
<1> QED BY <1>1, <1>2, WriteSummaryType

\* The claim, renewal and release UPDATEs touch the lease columns only.
LEMMA LeaseType ==
    ASSUME NEW r \in Row, NEW tok \in Nat
    PROVE  /\ Leased(r, tok) \in Row /\ Leased(r, tok).status = r.status
           /\ Leased(r, tok).owner = tok /\ Leased(r, tok).lease = "live"
           /\ Released(r) \in Row /\ Released(r).status = r.status
           /\ Released(r).owner = NoToken /\ Released(r).lease = "none"
BY DEF Leased, Released, Row, NoToken

\* Recovery leaves the status, or ends the run as killed or failed.
LEMMA RecoveredRowType ==
    ASSUME NEW copy \in Copy, NEW seen
    PROVE  /\ Recovered(copy, seen) \in Copy
           /\ Recovered(copy, seen).status \in {copy.status, "killed", "failed"}
<1>1. copy.status \in Terminal \/ (copy.status \notin Terminal /\ copy.status = seen)
      \/ (copy.status \notin Terminal /\ copy.status # seen)
    OBVIOUS
<1>2. /\ [copy EXCEPT !.token = NoToken] \in Copy
      /\ [copy EXCEPT !.token = NoToken].status = copy.status
    BY DEF Copy, NoToken
<1>3. ASSUME NEW s \in {"killed", "failed"}
      PROVE  LET new == [copy EXCEPT !.status = s, !.token = NoToken, !.verdict = "error"]
             IN  new \in Copy /\ new.status = s
    BY DEF Copy, NoToken, Statuses, Terminal, Verdicts
<1> QED BY <1>1, <1>2, <1>3 DEF Recovered

\* The values a slot is reset to.
LEMMA IdleType ==
    /\ IdleExec \in Execution /\ IdleExec.pc = "idle" /\ IdleExec.cancel = "no"
    /\ IdleExec.stopped = FALSE
    /\ IdleClient \in Client /\ IdleClient.pc = "idle"
    /\ [NewRow EXCEPT !.status = "gone"] \in Row
<1>1. [NewRow EXCEPT !.status = "gone"] \in Row /\ Loaded(NewRow) \in Copy
    BY NewRowType, LoadedType DEF Row
<1> QED BY <1>1
        DEF IdleExec, IdleClient, Execution, ExecPcs, Client, ClientPcs, Controls, Cancels,
            NoToken, Claimable

\* A delivery or a launch starts an execution with nothing but its message.
LEMMA StartedType ==
    ASSUME NEW m \in Nat
    PROVE  LET x == [IdleExec EXCEPT !.pc = "load", !.msg = m]
           IN  /\ x \in Execution /\ x.pc = "load" /\ x.msg = m /\ x.cancel = "no"
               /\ x.stopped = FALSE
BY IdleType DEF Execution, ExecPcs

\* clear_local_run_task asks the tracked task to end, and no other.
LEMMA CancelledType ==
    ASSUME TypeOK
    PROVE  /\ Cancelled \in [Executors -> Execution]
           /\ \A e \in Executors :
                Cancelled[e] = IF e = task THEN [exec[e] EXCEPT !.cancel = "asked"] ELSE exec[e]
<1>1. \A e \in Executors : [exec[e] EXCEPT !.cancel = "asked"] \in Execution
    BY DEF TypeOK, Execution, Cancels
<1> QED BY <1>1, NoExecAssumption DEF Cancelled, TypeOK

\* A step of an execution makes it x, or the end of a cancelled one.
LEMMA BecomeType ==
    ASSUME exec \in [Executors -> Execution], NEW e \in Executors, NEW x, Become(e, x)
    PROVE  /\ exec'[e] = x \/ exec'[e] = IdleExec
           /\ \A f \in Executors \ {e} : exec'[f] = exec[f]
           /\ x \in Execution => exec' \in [Executors -> Execution]
BY IdleType DEF Become

\* Going on elsewhere in the code changes nothing else.
LEMMA GotoType ==
    ASSUME exec \in [Executors -> Execution], NEW e \in Executors, NEW pc, Goto(e, pc)
    PROVE  /\ \/ exec'[e] = IdleExec
              \/ /\ exec'[e].pc = pc /\ exec'[e].msg = exec[e].msg
                 /\ exec'[e].tok = exec[e].tok /\ exec'[e].copy = exec[e].copy
                 /\ exec'[e].todo = exec[e].todo /\ exec'[e].limited = exec[e].limited
                 /\ exec'[e].stopped = exec[e].stopped /\ exec'[e].revived = exec[e].revived
                 /\ exec'[e].cancel = exec[e].cancel
           /\ \A f \in Executors \ {e} : exec'[f] = exec[f]
           /\ pc \in ExecPcs => exec' \in [Executors -> Execution]
<1> DEFINE x == [exec[e] EXCEPT !.pc = pc]
<1>1. Become(e, x)
    BY DEF Goto
<1>2. /\ x.pc = pc /\ x.msg = exec[e].msg /\ x.tok = exec[e].tok /\ x.copy = exec[e].copy
      /\ x.todo = exec[e].todo /\ x.limited = exec[e].limited
      /\ x.stopped = exec[e].stopped /\ x.revived = exec[e].revived
      /\ x.cancel = exec[e].cancel
      /\ pc \in ExecPcs => x \in Execution
    BY DEF Execution
<1> HIDE DEF x
<1> QED BY <1>1, <1>2, BecomeType

-----------------------------------------------------------------------------
(* Type correctness *)

RequestStep(c) ==
    \/ \E op \in {"pause", "resume", "kill", "delete"} : Request(c, op)
    \/ RecoverSelect(c) \/ ClientStep(c) \/ ControlFails(c) \/ EnqueueFails(c)

ExecutionStep(e) ==
    ExecStep(e) \/ Breaks(e) \/ WorkerLost(e) \/ Redeliver(e) \/ Terminated(e)

\* TypeOK, without the two history variables.
StateOK ==
    /\ row \in Row
    /\ saved \subseteq Urls
    /\ exec \in [Executors -> Execution]
    /\ client \in [Clients -> Client]
    /\ queue \subseteq Nat
    /\ revoked \subseteq Nat
    /\ task \in Executors \cup {NoExec}
    /\ lastToken \in Nat
    /\ requests \in Nat
    /\ faults \in Nat

\* The history variables are Booleans, and what has once strayed stays so.
LEMMA HistoryTypes ==
    ASSUME TypeOK, Next
    PROVE  /\ strayed' \in BOOLEAN /\ abandoned' \in BOOLEAN
           /\ strayed => strayed'
<1>1. strayed \in BOOLEAN /\ abandoned \in BOOLEAN
    BY DEF TypeOK
<1>2. ASSUME NEW c \in Clients, RequestStep(c)
      PROVE  strayed' = strayed /\ abandoned' \in BOOLEAN
    BY <1>1, <1>2 DEF RequestStep, ClientStep, Request, RecoverSelect, ControlFails,
        EnqueueFails, Pause, Resume, Kill, Delete, ClientAborts, Refresh, RecoverClear,
        RecoverLoad, RecoverCommit, SweepSelect, SweepClear, SweepCommit, DispatchRefused,
        Dispatch, Enqueue, Launch, history
<1>3. ASSUME NEW e \in Executors, ExecutionStep(e)
      PROVE  strayed' \in BOOLEAN /\ abandoned' \in BOOLEAN /\ (strayed => strayed')
  <2>1. CASE ExecStep(e)
      BY <1>1, <2>1 DEF ExecStep
  <2>2. CASE Breaks(e) \/ WorkerLost(e) \/ Redeliver(e) \/ Terminated(e)
      BY <1>1, <2>2 DEF Breaks, WorkerLost, Redeliver, Terminated, history
  <2> QED BY <1>3, <2>1, <2>2 DEF ExecutionStep
<1>4. CASE Deliver \/ ExpireLease \/ AgeHeartbeat \/ BackendCrash
    BY <1>1, <1>4 DEF Deliver, Receive, Discard, ExpireLease, AgeHeartbeat, BackendCrash, history
<1> QED BY <1>1, <1>2, <1>3, <1>4 DEF Next, RequestStep, ExecutionStep

\* The step of every request keeps the types.
LEMMA RequestTypes ==
    ASSUME TypeOK, NEW c \in Clients, RequestStep(c)
    PROVE  StateOK'
<1> USE CancelledType, IdleType
<1>1. /\ client[c] \in Client /\ client[c].copy \in Copy /\ client[c].pc \in ClientPcs
      /\ client[c].copy.token \in Nat /\ client[c].seen \in Claimable
      /\ Loaded(row) \in Copy /\ StateOK
    BY LoadedType DEF TypeOK, StateOK, Client, Copy
<1>2. \A d \in Client : [client EXCEPT ![c] = d] \in [Clients -> Client]
    BY DEF TypeOK
<1>3. ASSUME NEW pc \in ClientPcs, NEW copy \in Copy
      PROVE  /\ [IdleClient EXCEPT !.pc = pc, !.copy = copy] \in Client
             /\ [IdleClient EXCEPT !.pc = pc] \in Client
             /\ [client EXCEPT ![c].pc = pc] \in [Clients -> Client]
             /\ [client EXCEPT ![c].pc = pc, ![c].copy = copy] \in [Clients -> Client]
             /\ \A s \in Claimable :
                  [client EXCEPT ![c].pc = pc, ![c].seen = s] \in [Clients -> Client]
    BY DEF Client, TypeOK
<1>4. ASSUME NEW op \in {"pause", "resume", "kill", "delete"}, Request(c, op)
      PROVE  StateOK'
  <2>1. [IdleClient EXCEPT !.pc = op, !.copy = Loaded(row)] \in Client
      BY <1>1, <1>3 DEF ClientPcs
  <2> QED BY <1>1, <1>2, <2>1, <1>4 DEF Request, StateOK
<1>5. CASE Pause(c)
  <2> DEFINE copy == client[c].copy
  <2>1. /\ [copy EXCEPT !.control = "pause"] \in Copy
        /\ [copy EXCEPT !.status = "paused", !.token = NoToken] \in Copy
      BY <1>1 DEF Copy, Controls, Statuses, NoToken
  <2>2. row' \in Row
      BY <1>1, <2>1, <1>5, FlushType DEF Pause, StateOK
  <2>3. revoked' \subseteq Nat
      BY <1>1, <1>5 DEF Pause, StateOK
  <2> QED BY <1>1, <1>2, <2>2, <2>3, <1>5 DEF Pause, Reply, StateOK
<1>6. CASE Kill(c)
  <2> DEFINE dead == [client[c].copy EXCEPT !.status = "killed", !.token = NoToken]
  <2>1. dead \in Copy /\ [dead EXCEPT !.control = "kill"] \in Copy
      BY <1>1 DEF Copy, Controls, Statuses, Terminal, NoToken
  <2>2. row' \in Row
      BY <1>1, <2>1, <1>6, FlushType DEF Kill, StateOK
  <2>3. revoked' \subseteq Nat
      BY <1>1, <1>6 DEF Kill, StateOK
  <2> QED BY <1>1, <1>2, <2>2, <2>3, <1>6 DEF Kill, CancelLocal, Reply, StateOK
<1>7. CASE Resume(c)
  <2>1. [client[c].copy EXCEPT !.status = "running", !.control = "none",
                               !.token = NoToken] \in Copy
      BY <1>1 DEF Copy, Controls, Statuses, Claimable, NoToken
  <2>2. row' \in Row
      BY <1>1, <2>1, <1>7, FlushType DEF Resume, StateOK
  <2>3. [IdleClient EXCEPT !.pc = "refresh"] \in Client
      BY <1>1, <1>3 DEF ClientPcs
  <2>4. \A e \in Executors :
          [exec[e] EXCEPT !.revived = exec[e].revived \/ exec[e].stopped] \in Execution
      BY <1>1 DEF StateOK, Execution
  <2> QED BY <1>1, <1>2, <2>2, <2>3, <2>4, <1>7 DEF Resume, StateOK
<1>8. CASE Delete(c)
    BY <1>1, <1>2, <1>8 DEF Delete, Reply, StateOK
<1>9. CASE ControlFails(c)
    BY <1>1, <1>2, <1>9 DEF ControlFails, CancelLocal, Fault, Reply, StateOK
<1>10. CASE ClientAborts(c) \/ DispatchRefused(c) \/ Enqueue(c)
    BY <1>1, <1>2, <1>10 DEF ClientAborts, DispatchRefused, Enqueue, Reply, StateOK
<1>11. CASE Refresh(c) \/ RecoverLoad(c)
  <2> DEFINE pc == IF RecoverLoad(c) THEN "recover" ELSE IF Celery THEN "dispatch" ELSE "sweep"
  <2>1. pc \in ClientPcs
      BY DEF ClientPcs
  <2>2. client' = [client EXCEPT ![c].pc = pc, ![c].copy = Loaded(row)]
      BY <1>11 DEF Refresh, RecoverLoad
  <2> HIDE DEF pc
  <2>3. client' \in [Clients -> Client]
      BY <1>1, <1>3, <2>1, <2>2
  <2> QED BY <1>1, <2>3, <1>11 DEF Refresh, RecoverLoad, StateOK
<1>12. CASE RecoverSelect(c) \/ SweepSelect(c)
  <2>1. /\ {"recoverclear", "sweepclear", "dispatch"} \subseteq ClientPcs
        /\ Stale => row.status \in Claimable
      BY DEF ClientPcs, Stale, Claimable
  <2>2. \/ Stale /\ \E pc \in ClientPcs :
                 client' = [client EXCEPT ![c].pc = pc, ![c].seen = row.status]
        \/ client' = [client EXCEPT ![c].pc = "dispatch"]
      BY <2>1, <1>12 DEF RecoverSelect, SweepSelect
  <2>3. CASE Stale /\ \E pc \in ClientPcs :
                 client' = [client EXCEPT ![c].pc = pc, ![c].seen = row.status]
    <3>1. PICK pc \in ClientPcs : client' = [client EXCEPT ![c].pc = pc, ![c].seen = row.status]
        BY <2>3
    <3>2. row.status \in Claimable
        BY <2>1, <2>3
    <3>3. client' \in [Clients -> Client]
        BY <1>1, <1>3, <3>1, <3>2
    <3> QED BY <1>1, <3>3, <1>12 DEF RecoverSelect, SweepSelect, StateOK
  <2>4. CASE client' = [client EXCEPT ![c].pc = "dispatch"]
    <3>1. client' \in [Clients -> Client]
        BY <1>1, <1>3, <2>1, <2>4
    <3> QED BY <1>1, <3>1, <1>12 DEF RecoverSelect, SweepSelect, StateOK
  <2> QED BY <2>2, <2>3, <2>4
<1>13. CASE RecoverClear(c) \/ SweepClear(c)
  <2>1. {"recoverload", "sweepcommit"} \subseteq ClientPcs
      BY DEF ClientPcs
  <2>2. client' \in [Clients -> Client]
      BY <1>1, <1>3, <2>1, <1>13 DEF RecoverClear, SweepClear
  <2> QED BY <1>1, <2>2, <1>13 DEF RecoverClear, SweepClear, CancelLocal, StateOK
<1>14. CASE RecoverCommit(c) \/ SweepCommit(c)
  <2> DEFINE new == Recovered(client[c].copy, client[c].seen)
  <2>1. new \in Copy
      BY <1>1, RecoveredRowType
  <2>2. row' = Flush(client[c].copy, new)
      BY <1>14 DEF RecoverCommit, SweepCommit
  <2>3. client' = [client EXCEPT ![c] = IdleClient]
        \/ client' = [client EXCEPT ![c] = [IdleClient EXCEPT !.pc = "dispatch", !.copy = new]]
      BY <1>14 DEF RecoverCommit, SweepCommit, Reply
  <2> HIDE DEF new
  <2>4. row' \in Row
      BY <1>1, <2>1, <2>2, FlushType DEF StateOK
  <2>5. "dispatch" \in ClientPcs
      BY DEF ClientPcs
  <2>6. [IdleClient EXCEPT !.pc = "dispatch", !.copy = new] \in Client
      BY <1>3, <2>1, <2>5
  <2>7. client' \in [Clients -> Client]
      BY <1>2, <2>3, <2>6
  <2> QED BY <1>1, <2>4, <2>7, <1>14 DEF RecoverCommit, SweepCommit, StateOK
<1>15. CASE Dispatch(c)
  <2> DEFINE new == [client[c].copy EXCEPT !.token = lastToken + 1]
  <2>1. new \in Copy /\ "enqueue" \in ClientPcs /\ lastToken + 1 \in Nat
      BY <1>1 DEF Copy, StateOK, ClientPcs
  <2>2. /\ row' = Flush(client[c].copy, new)
        /\ client' = [client EXCEPT ![c].pc = "enqueue", ![c].copy = new]
      BY <1>15 DEF Dispatch
  <2> HIDE DEF new
  <2>3. row' \in Row /\ client' \in [Clients -> Client]
      BY <1>1, <1>3, <2>1, <2>2, FlushType DEF StateOK
  <2> QED BY <1>1, <2>1, <2>3, <1>15 DEF Dispatch, StateOK
<1>16. CASE EnqueueFails(c)
  <2>1. [client[c].copy EXCEPT !.token = NoToken] \in Copy
      BY <1>1 DEF Copy, NoToken
  <2>2. row' \in Row
      BY <1>1, <2>1, <1>16, FlushType DEF EnqueueFails, StateOK
  <2> QED BY <1>1, <1>2, <2>2, <1>16 DEF EnqueueFails, Fault, Reply, StateOK
<1>17. ASSUME NEW e \in Executors, Launch(c, e)
       PROVE  StateOK'
  <2>1. [IdleExec EXCEPT !.pc = "load", !.msg = client[c].copy.token] \in Execution
      BY <1>1, StartedType
  <2>2. exec' \in [Executors -> Execution]
      BY <2>1, <1>17 DEF Launch
  <2> QED BY <1>1, <1>2, <2>2, <1>17 DEF Launch, Reply, StateOK
<1> QED BY <1>4, <1>5, <1>6, <1>7, <1>8, <1>9, <1>10, <1>11, <1>12, <1>13, <1>14, <1>15,
           <1>16, <1>17 DEF RequestStep, ClientStep

\* So does every step of an execution.
LEMMA ExecutionTypes ==
    ASSUME TypeOK, NEW e \in Executors, ExecutionStep(e)
    PROVE  StateOK'
<1> USE IdleType
<1>1. /\ exec[e] \in Execution /\ exec[e].copy \in Copy /\ exec[e].tok \in Nat
      /\ exec[e].msg \in Nat /\ exec[e].pc \in ExecPcs
      /\ row \in Row /\ row.token \in Nat /\ row.control \in Controls
      /\ Released(row) \in Row /\ Loaded(row) \in Copy
      /\ exec \in [Executors -> Execution] /\ StateOK
    BY LeaseType, LoadedType DEF TypeOK, StateOK, Execution, Row
<1>2. ASSUME NEW x \in Execution, Become(e, x)
      PROVE  exec' \in [Executors -> Execution]
    BY <1>1, <1>2, BecomeType
<1>3. ASSUME NEW pc \in ExecPcs, Goto(e, pc)
      PROVE  exec' \in [Executors -> Execution]
    BY <1>1, <1>3, GotoType
<1>4. /\ NextPc(exec[e]) \in ExecPcs
      /\ {"claim", "resolve", "merge", "seed", "final", "finish", "exit"} \cup Looping \cup Failing
            \subseteq ExecPcs
    BY DEF NextPc, ExecPcs, Looping
<1>5. /\ {"check", "apply", "stage", "url", "record"} \subseteq ExecPcs
      /\ {"fail", "failwrite", "refail", "refailwrite"} \subseteq ExecPcs
    BY DEF ExecPcs, Looping, Failing
<1>6. CASE Load(e)
  <2> DEFINE tok == IF row.token = NoToken THEN lastToken + 1 ELSE row.token
             x == [exec[e] EXCEPT !.pc = "claim", !.copy = Loaded(row), !.tok = tok]
  <2>1. tok \in Nat /\ lastToken + 1 \in Nat
      BY <1>1 DEF StateOK
  <2>2. x \in Execution
    <3> HIDE DEF tok
    <3> QED BY <1>1, <1>4, <2>1 DEF Execution
  <2>3. Become(e, x) \/ Goto(e, "exit")
      BY <1>6 DEF Load
  <2> HIDE DEF x
  <2>4. exec' \in [Executors -> Execution]
      BY <1>2, <1>3, <1>4, <2>2, <2>3
  <2> QED BY <1>1, <1>6, <2>1, <2>4 DEF Load, StateOK
<1>7. CASE Claim(e)
  <2> DEFINE run == [exec[e].copy EXCEPT !.status = "running"]
             flushed == Flush(exec[e].copy, run)
             x == [exec[e] EXCEPT !.pc = "resolve", !.copy.status = "running"]
  <2>1. run \in Copy
      BY <1>1 DEF Copy, Statuses, Claimable
  <2>2. flushed \in Row
      BY <1>1, <2>1, FlushType
  <2>3. row' = row \/ row' = Leased(flushed, exec[e].tok)
      BY <1>7 DEF Claim
  <2>4. row' \in Row
    <3> HIDE DEF flushed
    <3> QED BY <1>1, <2>2, <2>3, LeaseType
  <2>5. x = [exec[e] EXCEPT !.pc = "resolve", !.copy = run]
      BY <1>1 DEF Execution
  <2>6. x \in Execution
    <3> HIDE DEF run, x
    <3> QED BY <1>1, <1>4, <2>1, <2>5 DEF Execution
  <2>7. Become(e, x) \/ Goto(e, "exit")
      BY <1>7 DEF Claim
  <2> HIDE DEF x
  <2>8. exec' \in [Executors -> Execution]
      BY <1>2, <1>3, <1>4, <2>6, <2>7
  <2> QED BY <1>1, <1>7, <2>4, <2>8 DEF Claim, StateOK
<1>8. CASE Resolve(e)
  <2>1. [exec[e] EXCEPT !.pc = "merge", !.todo = Urls \ saved] \in Execution
      BY <1>1, <1>4 DEF Execution
  <2>2. exec' \in [Executors -> Execution]
      BY <1>2, <1>8, <2>1 DEF Resolve
  <2> QED BY <1>1, <1>8, <2>2 DEF Resolve, StateOK
<1>9. CASE Merge(e)
  <2>1. WriteSummary(exec[e].copy, row) \in Copy
      BY <1>1, RefreshType
  <2> DEFINE x == IF Gone THEN [exec[e] EXCEPT !.pc = "fail"]
                  ELSE [exec[e] EXCEPT !.pc = "seed", !.copy = WriteSummary(exec[e].copy, row)]
  <2>2. x \in Execution
      BY <1>1, <1>4, <1>5, <2>1 DEF Execution
  <2>3. Become(e, x)
      BY <1>1, <1>9 DEF Merge
  <2> HIDE DEF x
  <2> QED BY <1>1, <1>2, <1>9, <2>2, <2>3 DEF Merge, StateOK
<1>10. CASE Seed(e)
  <2>1. exec' \in [Executors -> Execution]
      BY <1>3, <1>4, <1>5, <1>10 DEF Seed
  <2>2. row' \in Row
      BY <1>1, <1>10, WriteSummaryType DEF Seed
  <2> QED BY <1>1, <1>10, <2>1, <2>2 DEF Seed, StateOK
<1>11. CASE Checkpoint(e)
  <2> DEFINE x == IF row.status \in Claimable
                  THEN [exec[e] EXCEPT
                          !.pc = IF row.control = "none" THEN "stage" ELSE "apply",
                          !.request = row.control]
                  ELSE [exec[e] EXCEPT !.pc = "final", !.stopped = TRUE]
  <2>1. x \in Execution
      BY <1>1, <1>4, <1>5 DEF Execution
  <2>2. Become(e, x)
      BY <1>11 DEF Checkpoint
  <2> HIDE DEF x
  <2> QED BY <1>1, <1>2, <1>11, <2>1, <2>2 DEF Checkpoint, StateOK
<1>12. CASE ApplyControl(e)
  <2>1. \A t \in {"paused", "killed"} :
          [Released(row) EXCEPT !.status = t, !.control = "none"] \in Row
      BY <1>1 DEF Row, Statuses, Terminal, Controls
  <2>2. row' \in Row
      BY <1>1, <1>12, <2>1 DEF ApplyControl
  <2>3. [exec[e] EXCEPT !.pc = "final", !.stopped = TRUE] \in Execution
      BY <1>1, <1>4 DEF Execution
  <2>4. exec' \in [Executors -> Execution]
      BY <1>2, <1>3, <1>4, <1>5, <1>12, <2>3 DEF ApplyControl
  <2> QED BY <1>1, <1>12, <2>2, <2>4 DEF ApplyControl, StateOK
<1>13. CASE SetStage(e)
  <2>1. row' \in Row
      BY <1>1, <1>13, WriteSummaryType DEF SetStage
  <2>2. exec' \in [Executors -> Execution]
      BY <1>3, <1>5, <1>13 DEF SetStage
  <2> QED BY <1>1, <1>13, <2>1, <2>2 DEF SetStage, StateOK
<1>14. CASE ProcessUrl(e)
  <2>1. CASE Gone
    <3>1. Goto(e, "fail") /\ saved' = saved
        BY <1>14, <2>1 DEF ProcessUrl
    <3> QED BY <1>1, <1>3, <1>5, <1>14, <3>1 DEF ProcessUrl, StateOK
  <2>2. CASE ~Gone
    <3>1. PICK u \in exec[e].todo, ok \in BOOLEAN, limit \in BOOLEAN :
            /\ saved' = IF ok THEN saved \cup {u} ELSE saved
            /\ Become(e, [exec[e] EXCEPT !.pc = "record", !.todo = @ \ {u}, !.limited = limit])
        BY <1>14, <2>2 DEF ProcessUrl
    <3>2. u \in Urls
        BY <1>1 DEF Execution
    <3>3. [exec[e] EXCEPT !.pc = "record", !.todo = exec[e].todo \ {u}, !.limited = limit]
            \in Execution
        BY <1>1, <1>5 DEF Execution
    <3>4. exec' \in [Executors -> Execution]
        BY <1>2, <3>1, <3>3
    <3> QED BY <1>1, <1>14, <3>1, <3>2, <3>4 DEF ProcessUrl, StateOK
  <2> QED BY <2>1, <2>2
<1>15. CASE RecordUrl(e)
  <2> DEFINE x == [exec[e] EXCEPT !.pc = NextPc(exec[e]), !.gated = TRUE,
                                  !.copy = WriteSummary(exec[e].copy, row)]
  <2>1. row' \in Row
    <3>1. Leased(row, exec[e].tok) \in Row
        BY <1>1, LeaseType
    <3> QED BY <1>1, <1>15, <3>1 DEF RecordUrl
  <2>2. WriteSummary(exec[e].copy, row) \in Copy
      BY <1>1, RefreshType
  <2>3. x \in Execution
      BY <1>1, <1>4, <2>2 DEF Execution
  <2>4. Goto(e, NextPc(exec[e])) \/ Goto(e, "exit") \/ Become(e, x)
      BY <1>1, <1>15 DEF RecordUrl
  <2> HIDE DEF x
  <2>5. exec' \in [Executors -> Execution]
      BY <1>2, <1>3, <1>4, <2>3, <2>4
  <2> QED BY <1>1, <1>15, <2>1, <2>5 DEF RecordUrl, StateOK
<1>16. CASE FinalCheckpoint(e)
    BY <1>1, <1>3, <1>4, <1>16 DEF FinalCheckpoint, StateOK
<1>17. CASE Finish(e)
  <2>1. [Released(row) EXCEPT !.status = "completed", !.verdict = "final"] \in Row
      BY <1>1 DEF Row, Statuses, Terminal, Verdicts
  <2>2. row' \in Row
      BY <1>1, <1>17, <2>1 DEF Finish
  <2>3. exec' \in [Executors -> Execution]
      BY <1>3, <1>4, <1>5, <1>17 DEF Finish
  <2> QED BY <1>1, <1>17, <2>2, <2>3 DEF Finish, StateOK
<1>18. CASE FailLoad(e)
  <2> DEFINE next == IF exec[e].pc = "fail" THEN "failwrite" ELSE "refailwrite"
             x == IF Gone THEN [exec[e] EXCEPT !.pc = "exit"]
                  ELSE [exec[e] EXCEPT !.pc = next, !.copy = Loaded(row)]
  <2>1. x \in Execution
      BY <1>1, <1>4, <1>5 DEF Execution
  <2>2. Become(e, x)
      BY <1>1, <1>18 DEF FailLoad
  <2> HIDE DEF x
  <2> QED BY <1>1, <1>2, <1>18, <2>1, <2>2 DEF FailLoad, StateOK
<1>19. CASE FailWrite(e)
  <2> DEFINE failed == [exec[e].copy EXCEPT !.verdict = "error"]
  <2>1. failed \in Copy /\ [row EXCEPT !.status = "failed"] \in Row
      BY <1>1 DEF Copy, Row, Statuses, Terminal, Verdicts
  <2>2. row' \in {row, WriteSummary(row, failed),
                  WriteSummary([row EXCEPT !.status = "failed"], failed)}
      BY <1>19 DEF FailWrite
  <2>3. row' \in Row
      BY <1>1, <2>1, <2>2, WriteSummaryType
  <2>4. exec' \in [Executors -> Execution]
      BY <1>3, <1>4, <1>5, <1>19 DEF FailWrite
  <2> QED BY <1>1, <1>19, <2>3, <2>4 DEF FailWrite, StateOK
<1>20. CASE Exit(e)
    BY <1>1, <1>20 DEF Exit, StateOK
<1>21. CASE CancelLands(e) \/ CancelSwallowed(e)
  <2>1. [exec[e] EXCEPT !.cancel = "swallowed"] \in Execution
      BY <1>1 DEF Execution, Cancels
  <2>2. exec' \in [Executors -> Execution]
      BY <1>1, <1>21, <2>1 DEF CancelLands, CancelSwallowed
  <2> QED BY <1>1, <1>21, <2>2 DEF CancelLands, CancelSwallowed, StateOK
<1>22. CASE Breaks(e)
  <2>1. exec' \in [Executors -> Execution]
      BY <1>3, <1>4, <1>5, <1>22 DEF Breaks
  <2> QED BY <1>1, <1>22, <2>1 DEF Breaks, Fault, StateOK
<1>23. CASE WorkerLost(e) \/ Redeliver(e)
    BY <1>1, <1>23 DEF WorkerLost, Redeliver, Fault, StateOK
<1>24. CASE Terminated(e)
    BY <1>1, <1>24 DEF Terminated, Fault, StateOK
<1> QED BY <1>6, <1>7, <1>8, <1>9, <1>10, <1>11, <1>12, <1>13, <1>14, <1>15, <1>16, <1>17,
           <1>18, <1>19, <1>20, <1>21, <1>22, <1>23, <1>24
        DEF ExecutionStep, ExecStep, ExecAction

\* And every delivery, expiry and crash.
LEMMA EnvironmentTypes ==
    ASSUME TypeOK, Deliver \/ ExpireLease \/ AgeHeartbeat \/ BackendCrash
    PROVE  StateOK'
<1> USE IdleType
<1>1. StateOK
    BY DEF TypeOK, StateOK
<1>2. ASSUME NEW m \in queue, Discard(m)
      PROVE  StateOK'
    BY <1>1, <1>2 DEF Discard, StateOK
<1>3. ASSUME NEW m \in queue, NEW e \in Executors, Receive(e, m)
      PROVE  StateOK'
  <2>1. [IdleExec EXCEPT !.pc = "load", !.msg = m] \in Execution
      BY <1>1, StartedType DEF StateOK
  <2> QED BY <1>1, <1>3, <2>1 DEF Receive, StateOK
<1>4. CASE ExpireLease \/ AgeHeartbeat
  <2>1. [row EXCEPT !.lease = "expired"] \in Row /\ [row EXCEPT !.heard = FALSE] \in Row
      BY <1>1 DEF StateOK, Row
  <2> QED BY <1>1, <1>4, <2>1 DEF ExpireLease, AgeHeartbeat, StateOK
<1>5. CASE BackendCrash
    BY <1>1, <1>5 DEF BackendCrash, Fault, StateOK
<1> QED BY <1>2, <1>3, <1>4, <1>5 DEF Deliver

\* Every value the row, the processes and the broker ever hold has its type.
THEOREM TypeCorrect == Spec => []TypeOK
<1>1. Init => TypeOK
  <2> SUFFICES ASSUME Init PROVE TypeOK
      OBVIOUS
  <2>1. [IdleClient EXCEPT !.pc = "refresh"] \in Client
      BY IdleType DEF Client, ClientPcs
  <2> QED BY <2>1, NewRowType, IdleType DEF Init, TypeOK
<1>2. TypeOK /\ [Next]_vars => TypeOK'
  <2> SUFFICES ASSUME TypeOK, [Next]_vars PROVE TypeOK'
      OBVIOUS
  <2>1. CASE UNCHANGED vars
      BY <2>1 DEF vars, history, TypeOK
  <2>2. CASE Next
    <3>1. StateOK'
        BY <2>2, RequestTypes, ExecutionTypes, EnvironmentTypes
           DEF Next, RequestStep, ExecutionStep
    <3> QED BY <2>2, <3>1, HistoryTypes DEF StateOK, TypeOK
  <2> QED BY <2>1, <2>2
<1> QED BY <1>1, <1>2, PTL DEF Spec

-----------------------------------------------------------------------------
(* What a step may do to the row, and to the executions *)

\* No request completes a run, none takes or gives up a claim, only a resume makes a
\* run active, and none pauses the row while a local task is tracked.
LEMMA RequestWrites ==
    ASSUME TypeOK, NEW c \in Clients, RequestStep(c)
    PROVE  /\ \/ row'.owner = row.owner /\ row'.lease = row.lease
              \/ row'.owner = NoToken /\ row'.lease = "none"
           /\ \/ row'.status = row.status
              \/ row'.status = "running" /\ Resume(c)
              \/ row'.status \in {"killed", "failed", "gone"}
              \/ row'.status = "paused" /\ task = NoExec
<1>1. row \in Row /\ client[c].copy \in Copy
    BY DEF TypeOK, Client
<1>2. ASSUME NEW new \in Copy, row' = Flush(client[c].copy, new)
      PROVE  /\ row'.owner = row.owner /\ row'.lease = row.lease
             /\ row'.status \in {row.status, new.status}
             /\ new.status = client[c].copy.status => row'.status = row.status
    BY <1>1, <1>2, FlushType
<1>3. CASE row' = row
    BY <1>3
<1>4. CASE Pause(c)
  <2> DEFINE asked == [client[c].copy EXCEPT !.control = "pause"]
             paused == [client[c].copy EXCEPT !.status = "paused", !.token = NoToken]
  <2>1. /\ asked \in Copy /\ asked.status = client[c].copy.status
        /\ paused \in Copy /\ paused.status = "paused"
      BY <1>1 DEF Copy, Controls, Statuses, NoToken
  <2>2. \/ row' = Flush(client[c].copy, asked)
        \/ task = NoExec /\ row' = Flush(client[c].copy, paused)
        \/ row' = row
      BY <1>4 DEF Pause
  <2> HIDE DEF asked, paused
  <2> QED BY <1>2, <2>1, <2>2
<1>5. CASE Kill(c)
  <2> DEFINE dead == [client[c].copy EXCEPT !.status = "killed", !.token = NoToken]
             marked == [dead EXCEPT !.control = "kill"]
  <2>1. dead \in Copy /\ dead.status = "killed" /\ marked \in Copy /\ marked.status = "killed"
      BY <1>1 DEF Copy, Controls, Statuses, Terminal, NoToken
  <2>2. row' = Flush(client[c].copy, dead) \/ row' = Flush(client[c].copy, marked)
      BY <1>5 DEF Kill
  <2> HIDE DEF dead, marked
  <2> QED BY <1>2, <2>1, <2>2
<1>6. CASE Resume(c)
  <2> DEFINE new == [client[c].copy EXCEPT !.status = "running", !.control = "none",
                                           !.token = NoToken]
  <2>1. new \in Copy /\ new.status = "running"
      BY <1>1 DEF Copy, Controls, Statuses, Claimable, NoToken
  <2>2. row' = Flush(client[c].copy, new)
      BY <1>6 DEF Resume
  <2> HIDE DEF new
  <2> QED BY <1>2, <1>6, <2>1, <2>2
<1>7. CASE Delete(c)
    BY <1>7 DEF Delete, NewRow
<1>8. CASE RecoverCommit(c) \/ SweepCommit(c)
  <2>1. row' = Flush(client[c].copy, Recovered(client[c].copy, client[c].seen))
      BY <1>8 DEF RecoverCommit, SweepCommit
  <2> QED BY <1>1, <1>2, <2>1, RecoveredRowType
<1>9. CASE Dispatch(c) \/ EnqueueFails(c)
  <2> DEFINE With(t) == [client[c].copy EXCEPT !.token = t]
  <2>1. ASSUME NEW t \in Nat
        PROVE  With(t) \in Copy /\ With(t).status = client[c].copy.status
      BY <1>1 DEF Copy
  <2>2. \/ row' = row
        \/ row' = Flush(client[c].copy, With(lastToken + 1))
        \/ row' = Flush(client[c].copy, With(NoToken))
      BY <1>9 DEF Dispatch, EnqueueFails
  <2>3. lastToken + 1 \in Nat /\ NoToken \in Nat
      BY DEF TypeOK, NoToken
  <2> HIDE DEF With
  <2> QED BY <1>2, <2>1, <2>2, <2>3
<1>10. CASE \/ \E op \in {"pause", "resume", "kill", "delete"} : Request(c, op)
            \/ RecoverSelect(c) \/ RecoverClear(c) \/ RecoverLoad(c) \/ SweepSelect(c)
            \/ SweepClear(c) \/ ControlFails(c) \/ ClientAborts(c) \/ Refresh(c)
            \/ DispatchRefused(c) \/ Enqueue(c) \/ \E e \in Executors : Launch(c, e)
    BY <1>3, <1>10 DEF Request, RecoverSelect, RecoverClear, RecoverLoad, SweepSelect,
                       SweepClear, ControlFails, ClientAborts, Refresh, DispatchRefused,
                       Enqueue, Launch
<1> QED BY <1>4, <1>5, <1>6, <1>7, <1>8, <1>9, <1>10 DEF RequestStep, ClientStep

\* A request leaves every execution alone, asks the tracked one to end, marks the
\* stopped ones, or starts one in place of the tracked one.
LEMMA RequestExecutions ==
    ASSUME NEW c \in Clients, RequestStep(c)
    PROVE  \/ exec' = exec /\ task' = task
           \/ exec' = Cancelled /\ task' = NoExec
           \/ Resume(c)
           \/ \E e \in Executors : Launch(c, e)
BY DEF RequestStep, ClientStep, Request, RecoverSelect, RecoverClear, RecoverLoad,
       ControlFails, EnqueueFails, Pause, Kill, Delete, ClientAborts, Refresh,
       RecoverCommit, SweepSelect, SweepClear, SweepCommit, DispatchRefused, Dispatch,
       Enqueue, CancelLocal

\* What an execution holds, but for what others do to it.
SameWork(x, y) ==
    /\ x.pc = y.pc /\ x.msg = y.msg /\ x.tok = y.tok /\ x.copy = y.copy /\ x.todo = y.todo
    /\ x.limited = y.limited /\ x.stopped = y.stopped

\* An execution that somebody else's step leaves in the middle of its work keeps it,
\* and is no less cancelled or overtaken by a resume than before.
LEMMA OthersLeaveWork ==
    ASSUME TypeOK,
           (\E c \in Clients : RequestStep(c)) \/ Deliver \/ ExpireLease \/ AgeHeartbeat
               \/ BackendCrash
    PROVE  \A e \in Executors :
              \/ /\ SameWork(exec'[e], exec[e])
                 /\ exec'[e].cancel = "no" => exec[e].cancel = "no"
                 /\ exec[e].revived => exec'[e].revived
              \/ exec'[e].pc \in {"idle", "load"} /\ ~exec'[e].stopped
<1> SUFFICES ASSUME NEW e \in Executors
             PROVE  \/ /\ SameWork(exec'[e], exec[e])
                       /\ exec'[e].cancel = "no" => exec[e].cancel = "no"
                       /\ exec[e].revived => exec'[e].revived
                    \/ exec'[e].pc \in {"idle", "load"} /\ ~exec'[e].stopped
    OBVIOUS
<1>1. /\ exec \in [Executors -> Execution] /\ exec[e] \in Execution /\ queue \subseteq Nat
      /\ Cancelled \in [Executors -> Execution]
      /\ Cancelled[e] = exec[e] \/ Cancelled[e] = [exec[e] EXCEPT !.cancel = "asked"]
    BY CancelledType DEF TypeOK
<1>2. CASE exec'[e] = exec[e]
    BY <1>2 DEF SameWork
<1>3. CASE exec'[e] = Cancelled[e]
  <2>1. CASE Cancelled[e] = exec[e]
      BY <1>2, <1>3, <2>1
  <2>2. CASE Cancelled[e] = [exec[e] EXCEPT !.cancel = "asked"]
      BY <1>1, <1>3, <2>2 DEF SameWork, Execution
  <2> QED BY <1>1, <2>1, <2>2
<1>4. ASSUME NEW m \in Nat, exec'[e] = [IdleExec EXCEPT !.pc = "load", !.msg = m]
      PROVE  exec'[e].pc \in {"idle", "load"} /\ ~exec'[e].stopped
    BY <1>4, StartedType
<1>5. ASSUME NEW c \in Clients, RequestStep(c)
      PROVE  \/ exec'[e] = exec[e] \/ exec'[e] = Cancelled[e] \/ Resume(c)
             \/ \E m \in Nat : exec'[e] = [IdleExec EXCEPT !.pc = "load", !.msg = m]
  <2>1. ASSUME NEW f \in Executors, Launch(c, f)
        PROVE  \/ exec'[e] = Cancelled[e]
               \/ \E m \in Nat : exec'[e] = [IdleExec EXCEPT !.pc = "load", !.msg = m]
    <3>1. client[c].copy.token \in Nat
        BY DEF TypeOK, Client, Copy
    <3> QED BY <1>1, <2>1, <3>1 DEF Launch
  <2> QED BY <1>5, <2>1, RequestExecutions
<1>6. ASSUME NEW c \in Clients, Resume(c)
      PROVE  /\ SameWork(exec'[e], exec[e])
             /\ exec'[e].cancel = "no" => exec[e].cancel = "no"
             /\ exec[e].revived => exec'[e].revived
  <2>1. exec'[e] = [exec[e] EXCEPT !.revived = exec[e].revived \/ exec[e].stopped]
      BY <1>6 DEF Resume
  <2> QED BY <1>1, <2>1 DEF SameWork, Execution
<1>7. CASE Deliver
  <2>1. \/ exec'[e] = exec[e]
        \/ \E m \in Nat : exec'[e] = [IdleExec EXCEPT !.pc = "load", !.msg = m]
      BY <1>1, <1>7 DEF Deliver, Receive, Discard
  <2> QED BY <1>2, <1>4, <2>1
<1>8. CASE BackendCrash
  <2>1. exec'[e] = exec[e] \/ exec'[e] = IdleExec
      BY <1>8 DEF BackendCrash
  <2> QED BY <1>2, <2>1, IdleType
<1>9. CASE ExpireLease \/ AgeHeartbeat
    BY <1>2, <1>9 DEF ExpireLease, AgeHeartbeat
<1> QED BY <1>2, <1>3, <1>4, <1>5, <1>6, <1>7, <1>8, <1>9

\* An execution takes a claim under its own token, makes the run RUNNING only while it
\* is active, and completes it only as the owner of the claim.
LEMMA ExecutionWrites ==
    ASSUME TypeOK, NEW e \in Executors, ExecutionStep(e)
    PROVE  /\ \/ row'.owner = row.owner /\ row'.lease = row.lease
              \/ /\ exec[e].pc \in {"claim", "record"}
                 /\ row'.owner = exec[e].tok /\ row'.lease = "live"
              \/ row'.owner = NoToken /\ row'.lease = "none"
           /\ \/ row'.status = row.status
              \/ row'.status = "running" /\ row.status \in Claimable
              \/ row'.status \in {"paused", "killed", "failed"}
              \/ /\ row'.status = "completed" /\ exec[e].pc = "finish"
                 /\ row.owner = exec[e].tok /\ CanMove(row.status, "completed")
<1>1. /\ exec \in [Executors -> Execution]
      /\ exec[e].copy \in Copy /\ exec[e].tok \in Nat /\ row \in Row
    BY DEF TypeOK, Execution
<1>2. CASE row' = row
    BY <1>2
<1>3. ASSUME NEW copy \in Copy, row' = WriteSummary(row, copy)
      PROVE  row'.owner = row.owner /\ row'.lease = row.lease /\ row'.status = row.status
    BY <1>1, <1>3, WriteSummaryType
<1>4. CASE Claim(e)
  <2> DEFINE run == [exec[e].copy EXCEPT !.status = "running"]
             flushed == Flush(exec[e].copy, run)
  <2>1. run \in Copy /\ run.status = "running"
      BY <1>1 DEF Copy, Statuses, Claimable
  <2>2. flushed \in Row /\ flushed.status \in {row.status, run.status}
      BY <1>1, <2>1, FlushType
  <2>3. row' = row \/ (/\ row' = Leased(flushed, exec[e].tok) /\ exec[e].pc = "claim"
                       /\ row.status \in Claimable)
      BY <1>4 DEF Claim, MayClaim
  <2>4. ASSUME row' = Leased(flushed, exec[e].tok)
        PROVE  /\ row'.owner = exec[e].tok /\ row'.lease = "live"
               /\ row'.status \in {row.status, "running"}
    <3> HIDE DEF flushed, run
    <3> QED BY <1>1, <2>1, <2>2, <2>4, LeaseType
  <2> QED BY <2>3, <2>4
<1>5. CASE Seed(e)
    BY <1>1, <1>3, <1>5 DEF Seed
<1>6. CASE ApplyControl(e)
  <2>1. ASSUME NEW t \in {"paused", "killed"},
               row' = [Released(row) EXCEPT !.status = t, !.control = "none"]
        PROVE  row'.status = t /\ row'.owner = NoToken /\ row'.lease = "none"
      BY <1>1, <2>1, LeaseType DEF Row
  <2> QED BY <2>1, <1>6 DEF ApplyControl
<1>7. CASE SetStage(e)
    BY <1>1, <1>3, <1>7 DEF SetStage
<1>8. CASE RecordUrl(e)
  <2>1. /\ Leased(row, exec[e].tok).status = row.status
        /\ Leased(row, exec[e].tok).owner = exec[e].tok
        /\ Leased(row, exec[e].tok).lease = "live"
      BY <1>1, LeaseType
  <2>2. row' = row \/ (row' = Leased(row, exec[e].tok) /\ exec[e].pc = "record")
      BY <1>8 DEF RecordUrl
  <2> QED BY <2>1, <2>2
<1>9. CASE Finish(e)
  <2>1. ASSUME row' = [Released(row) EXCEPT !.status = "completed", !.verdict = "final"]
        PROVE  row'.status = "completed" /\ row'.owner = NoToken /\ row'.lease = "none"
      BY <1>1, <2>1, LeaseType DEF Row
  <2>2. row' = row \/ (/\ row' = [Released(row) EXCEPT !.status = "completed",
                                                       !.verdict = "final"]
                       /\ exec[e].pc = "finish" /\ row.owner = exec[e].tok
                       /\ CanMove(row.status, "completed"))
      BY <1>9 DEF Finish, Holds
  <2> QED BY <2>1, <2>2
<1>10. CASE FailWrite(e)
  <2> DEFINE failed == [exec[e].copy EXCEPT !.verdict = "error"]
             failedRow == [row EXCEPT !.status = "failed"]
  <2>1. /\ failed \in Copy /\ failedRow \in Row /\ failedRow.status = "failed"
        /\ failedRow.owner = row.owner /\ failedRow.lease = row.lease
      BY <1>1 DEF Copy, Row, Statuses, Terminal, Verdicts
  <2>2. row' \in {row, WriteSummary(row, failed), WriteSummary(failedRow, failed)}
      BY <1>10 DEF FailWrite
  <2> HIDE DEF failed, failedRow
  <2> QED BY <1>1, <1>3, <2>1, <2>2, WriteSummaryType
<1>11. CASE \/ Load(e) \/ Resolve(e) \/ Merge(e) \/ Checkpoint(e) \/ ProcessUrl(e)
            \/ FinalCheckpoint(e) \/ FailLoad(e) \/ Exit(e) \/ CancelLands(e)
            \/ CancelSwallowed(e) \/ Breaks(e) \/ WorkerLost(e) \/ Redeliver(e)
            \/ Terminated(e)
    BY <1>2, <1>11 DEF Load, Resolve, Merge, Checkpoint, ProcessUrl, FinalCheckpoint,
                       FailLoad, Exit, CancelLands, CancelSwallowed, Breaks, WorkerLost,
                       Redeliver, Terminated
<1> QED BY <1>4, <1>5, <1>6, <1>7, <1>8, <1>9, <1>10, <1>11
        DEF ExecutionStep, ExecStep, ExecAction

\* An execution moves only itself, does not start itself, cannot take back that it
\* was cancelled, and leaves the registry only when it is over.
LEMMA ExecutionMoves ==
    ASSUME TypeOK, NEW e \in Executors, ExecutionStep(e)
    PROVE  /\ \A f \in Executors \ {e} : exec'[f] = exec[f]
           /\ exec[e].pc # "idle"
           /\ exec'[e].pc = "idle" \/ (exec'[e].cancel = "no" <=> exec[e].cancel = "no")
           /\ task' = task \/ (exec'[e].pc = "idle" /\ task = e)
           /\ ~Celery => queue' = queue
           /\ client' = client /\ requests' = requests /\ revoked' = revoked
           /\ saved' = saved \/ exec[e].pc = "url"
<1>1. /\ exec \in [Executors -> Execution] /\ exec[e] \in Execution
      /\ IdleExec.pc = "idle" /\ IdleExec \in Execution
    BY IdleType DEF TypeOK
<1>2. \A f \in Executors \ {e} : exec'[f] = exec[f]
    BY <1>1 DEF ExecutionStep, ExecStep, ExecAction, Load, Claim, Resolve, Merge, Seed,
        Checkpoint, ApplyControl, SetStage, ProcessUrl, RecordUrl, FinalCheckpoint, Finish,
        FailLoad, FailWrite, Exit, CancelLands, CancelSwallowed, Breaks, WorkerLost,
        Redeliver, Terminated, Goto, Become
<1>3. exec[e].pc # "idle"
    BY DEF ExecutionStep, ExecStep, ExecAction, Load, Claim, Resolve, Merge, Seed,
        Checkpoint, ApplyControl, SetStage, ProcessUrl, RecordUrl, FinalCheckpoint, Finish,
        FailLoad, FailWrite, Exit, CancelLands, CancelSwallowed, Breaks, WorkerLost,
        Redeliver, Terminated, Working, Looping, Failing
<1>4. task' = task \/ (exec'[e].pc = "idle" /\ task = e)
    BY <1>1 DEF ExecutionStep, ExecStep, ExecAction, Load, Claim, Resolve, Merge, Seed,
        Checkpoint, ApplyControl, SetStage, ProcessUrl, RecordUrl, FinalCheckpoint, Finish,
        FailLoad, FailWrite, Exit, CancelLands, CancelSwallowed, Breaks, WorkerLost,
        Redeliver, Terminated
<1>5. /\ ~Celery => queue' = queue
      /\ client' = client /\ requests' = requests /\ revoked' = revoked
      /\ saved' = saved \/ exec[e].pc = "url"
    BY DEF ExecutionStep, ExecStep, ExecAction, Load, Claim, Resolve, Merge, Seed,
        Checkpoint, ApplyControl, SetStage, ProcessUrl, RecordUrl, FinalCheckpoint, Finish,
        FailLoad, FailWrite, Exit, CancelLands, CancelSwallowed, Breaks, WorkerLost,
        Redeliver, Terminated
<1>6. exec'[e].pc = "idle" \/ (exec'[e].cancel = "no" <=> exec[e].cancel = "no")
  <2>1. ASSUME NEW x, Become(e, x), x.cancel = exec[e].cancel
        PROVE  exec'[e].pc = "idle" \/ exec'[e].cancel = exec[e].cancel
      BY <1>1, <2>1, BecomeType
  <2>2. ASSUME NEW pc, Goto(e, pc)
        PROVE  exec'[e].pc = "idle" \/ exec'[e].cancel = exec[e].cancel
      BY <1>1, <2>2, GotoType
  <2>3. CASE Load(e) \/ Claim(e) \/ Resolve(e) \/ Merge(e)
      BY <1>1, <2>1, <2>2, <2>3 DEF Load, Claim, Resolve, Merge, Execution
  <2>4. CASE Checkpoint(e) \/ ApplyControl(e) \/ ProcessUrl(e) \/ RecordUrl(e) \/ FailLoad(e)
      BY <1>1, <2>1, <2>2, <2>4
         DEF Checkpoint, ApplyControl, ProcessUrl, RecordUrl, FailLoad, Execution
  <2>5. CASE \/ Seed(e) \/ SetStage(e) \/ FinalCheckpoint(e) \/ Finish(e) \/ FailWrite(e)
             \/ Breaks(e)
      BY <2>2, <2>5 DEF Seed, SetStage, FinalCheckpoint, Finish, FailWrite, Breaks
  <2>6. CASE \/ Exit(e) \/ CancelLands(e) \/ CancelSwallowed(e) \/ WorkerLost(e)
             \/ Redeliver(e) \/ Terminated(e)
      BY <1>1, <2>6 DEF Exit, CancelLands, CancelSwallowed, WorkerLost, Redeliver,
                        Terminated, Execution
  <2> QED BY <2>3, <2>4, <2>5, <2>6 DEF ExecutionStep, ExecStep, ExecAction
<1> QED BY <1>2, <1>3, <1>4, <1>5, <1>6

\* Only a cancelled execution that changes the row or the results has strayed.
LEMMA Straying ==
    ASSUME NEW e \in Executors, ExecutionStep(e), exec[e].cancel # "no", ~strayed'
    PROVE  row' = row /\ saved' = saved
<1>1. CASE ExecStep(e)
    BY <1>1 DEF ExecStep
<1>2. CASE Breaks(e) \/ WorkerLost(e) \/ Redeliver(e) \/ Terminated(e)
    BY <1>2 DEF Breaks, WorkerLost, Redeliver, Terminated
<1> QED BY <1>1, <1>2 DEF ExecutionStep

-----------------------------------------------------------------------------
(* The lease *)

Claimant == {"claim"} \cup Working

\* An execution that claims or works has a token, and keeps it.
HasToken == \A e \in Executors : exec[e].pc \in Claimant => exec[e].tok # NoToken

OwnerInv == HasToken /\ (row.owner = NoToken <=> row.lease = "none")

\* Load gives an execution its token; no later step changes it.
LEMMA TokenKept ==
    ASSUME TypeOK, NEW e \in Executors, ExecutionStep(e), exec'[e].pc \in Claimant
    PROVE  \/ exec[e].pc \in Claimant /\ exec'[e].tok = exec[e].tok
           \/ exec'[e].tok # NoToken
<1>1. exec \in [Executors -> Execution] /\ exec[e] \in Execution /\ IdleExec.pc = "idle"
    BY IdleType DEF TypeOK
<1>2. "idle" \notin Claimant /\ "exit" \notin Claimant
    BY DEF Claimant, Working, Looping, Failing
<1>3. exec'[e] # IdleExec
    BY <1>1, <1>2
<1>4. ASSUME NEW x, Become(e, x)
      PROVE  exec'[e] = x
    BY <1>1, <1>3, <1>4, BecomeType
<1>5. ASSUME NEW pc, Goto(e, pc)
      PROVE  exec'[e].pc = pc /\ exec'[e].tok = exec[e].tok
    BY <1>1, <1>3, <1>5, GotoType
<1>6. CASE Load(e)
  <2> DEFINE tok == IF row.token = NoToken THEN lastToken + 1 ELSE row.token
             x == [exec[e] EXCEPT !.pc = "claim", !.copy = Loaded(row), !.tok = tok]
  <2>1. x.tok = tok /\ tok # NoToken
      BY <1>1 DEF Execution, TypeOK, NoToken
  <2>2. Become(e, x) \/ Goto(e, "exit")
      BY <1>6 DEF Load
  <2> HIDE DEF x
  <2>3. exec'[e] = x
      BY <1>2, <1>4, <1>5, <2>2
  <2> QED BY <2>1, <2>3
<1>7. CASE Exit(e) \/ CancelLands(e) \/ WorkerLost(e) \/ Terminated(e)
    BY <1>1, <1>3, <1>7 DEF Exit, CancelLands, WorkerLost, Terminated
<1>8. CASE Redeliver(e) \/ CancelSwallowed(e)
    BY <1>1, <1>8 DEF Redeliver, CancelSwallowed, Execution
<1>9. CASE \/ Claim(e) \/ Resolve(e) \/ Merge(e) \/ Seed(e) \/ Checkpoint(e) \/ ApplyControl(e)
           \/ SetStage(e) \/ RecordUrl(e) \/ FinalCheckpoint(e) \/ Finish(e)
           \/ FailLoad(e) \/ FailWrite(e) \/ Breaks(e) \/ ProcessUrl(e)
  <2>1. exec[e].pc \in Claimant
      BY <1>9 DEF Claim, Resolve, Merge, Seed, Checkpoint, ApplyControl, SetStage, RecordUrl,
                  FinalCheckpoint, Finish, FailLoad, FailWrite, Breaks, ProcessUrl, Claimant,
                  Working, Looping, Failing
  <2>2. CASE \/ Claim(e) \/ Resolve(e) \/ Merge(e) \/ Checkpoint(e) \/ ApplyControl(e)
             \/ ProcessUrl(e) \/ RecordUrl(e) \/ FailLoad(e)
    <3>1. exec'[e].tok = exec[e].tok
        BY <1>1, <1>4, <1>5, <2>2 DEF Claim, Resolve, Merge, Checkpoint, ApplyControl,
           ProcessUrl, RecordUrl, FailLoad, Execution
    <3> QED BY <2>1, <3>1
  <2>3. CASE \/ Seed(e) \/ SetStage(e) \/ FinalCheckpoint(e) \/ Finish(e) \/ FailWrite(e)
             \/ Breaks(e)
    <3>1. exec'[e].tok = exec[e].tok
        BY <1>5, <2>3 DEF Seed, SetStage, FinalCheckpoint, Finish, FailWrite, Breaks
    <3> QED BY <2>1, <3>1
  <2> QED BY <1>9, <2>2, <2>3
<1> QED BY <1>6, <1>7, <1>8, <1>9 DEF ExecutionStep, ExecStep, ExecAction

\* Whoever claims has a token, and takes and gives up the lease with the ownership.
LEMMA OwnerInvHolds == Spec => []OwnerInv
<1>1. Init => OwnerInv
    BY DEF Init, OwnerInv, HasToken, NewRow, IdleExec, Claimant, Working, Looping, Failing
<1>2. TypeOK /\ OwnerInv /\ [Next]_vars => OwnerInv'
  <2> SUFFICES ASSUME TypeOK, OwnerInv, [Next]_vars PROVE OwnerInv'
      OBVIOUS
  <2>1. "idle" \notin Claimant /\ "load" \notin Claimant
      BY DEF Claimant, Working, Looping, Failing
  <2>2. ASSUME \A e \in Executors : \/ SameWork(exec'[e], exec[e])
                                    \/ exec'[e].pc \in {"idle", "load"}
        PROVE  HasToken'
      BY <2>1, <2>2 DEF SameWork, OwnerInv, HasToken
  <2>3. ASSUME NEW c \in Clients, RequestStep(c)
        PROVE  OwnerInv'
    <3>1. row'.owner = NoToken <=> row'.lease = "none"
        BY <2>3, RequestWrites DEF OwnerInv
    <3> QED BY <2>2, <2>3, <3>1, OthersLeaveWork DEF OwnerInv
  <2>4. ASSUME NEW e \in Executors, ExecutionStep(e)
        PROVE  OwnerInv'
    <3>1. exec[e].pc \in {"claim", "record"} => exec[e].tok # NoToken
        BY DEF OwnerInv, HasToken, Claimant, Working, Looping
    <3>2. row'.owner = NoToken <=> row'.lease = "none"
        BY <2>4, <3>1, ExecutionWrites DEF OwnerInv
    <3>3. HasToken'
        BY <2>4, ExecutionMoves, TokenKept DEF OwnerInv, HasToken
    <3> QED BY <3>2, <3>3 DEF OwnerInv
  <2>5. CASE Deliver \/ ExpireLease \/ AgeHeartbeat \/ BackendCrash
    <3>1. row \in Row
        BY DEF TypeOK
    <3>2. row'.owner = NoToken <=> row'.lease = "none"
        BY <2>5, <3>1 DEF Deliver, Receive, Discard, BackendCrash, ExpireLease, AgeHeartbeat,
                          OwnerInv, Row
    <3>3. HasToken'
        BY <2>2, <2>5, OthersLeaveWork
    <3> QED BY <3>2, <3>3 DEF OwnerInv
  <2>6. CASE UNCHANGED vars
      BY <2>6 DEF vars, OwnerInv, HasToken
  <2> QED BY <2>3, <2>4, <2>5, <2>6 DEF Next, RequestStep, ExecutionStep
<1> QED BY <1>1, <1>2, TypeCorrect, PTL DEF Spec

\* Between any two commits the row has a lease time exactly when it has an owner.
THEOREM LeaseOwnership == Spec => []LeaseHasOwner
<1>1. OwnerInv => LeaseHasOwner
    BY DEF OwnerInv, LeaseHasOwner
<1> QED BY <1>1, OwnerInvHolds, PTL

-----------------------------------------------------------------------------
(* Local dispatch: the tracked task and the cancelled ones *)

\* Nothing is ever queued, so only Launch starts an execution; the registry holds
\* every one that nobody has cancelled.
LocalInv ==
    ~Celery => /\ queue = {}
               /\ \A e \in Executors : exec[e].pc # "idle" /\ exec[e].cancel = "no" => task = e

\* Whatever the requests, recoveries and executions do, local dispatch queues
\* nothing and tracks what it has not cancelled.
LEMMA LocalInvHolds == Spec => []LocalInv
<1>1. Init => LocalInv
    BY DEF Init, LocalInv, IdleExec
<1>2. TypeOK /\ LocalInv /\ [Next]_vars => LocalInv'
  <2> DEFINE Tracked(e) == exec[e].pc # "idle" /\ exec[e].cancel = "no" => task = e
  <2> SUFFICES ASSUME TypeOK, LocalInv, [Next]_vars, ~Celery
               PROVE  queue' = {} /\ \A e \in Executors : Tracked(e)'
      BY DEF LocalInv
  <2>1. /\ exec \in [Executors -> Execution] /\ IdleExec.pc = "idle"
        /\ Cancelled \in [Executors -> Execution]
        /\ \A e \in Executors :
              Cancelled[e] = IF e = task THEN [exec[e] EXCEPT !.cancel = "asked"] ELSE exec[e]
      BY IdleType, CancelledType DEF TypeOK
  <2>2. queue = {} /\ \A e \in Executors : Tracked(e)
      BY DEF LocalInv
  <2>3. \A e \in Executors : Cancelled[e].pc = "idle" \/ Cancelled[e].cancel # "no"
      BY <2>1, <2>2 DEF Execution
  <2>4. ASSUME NEW c \in Clients, RequestStep(c)
        PROVE  queue' = {} /\ \A e \in Executors : Tracked(e)'
    <3>1. queue' = queue
        BY <2>4 DEF RequestStep, ClientStep, Request, RecoverSelect, RecoverClear, RecoverLoad,
                    RecoverCommit, ControlFails, EnqueueFails, Pause, Resume, Kill, Delete,
                    ClientAborts, Refresh, SweepSelect, SweepClear, SweepCommit,
                    DispatchRefused, Dispatch, Enqueue, Launch
    <3>2. CASE exec' = exec /\ task' = task
        BY <2>2, <3>1, <3>2
    <3>3. CASE exec' = Cancelled /\ task' = NoExec
        BY <2>2, <2>3, <3>1, <3>3
    <3>4. CASE Resume(c)
      <4>1. \A e \in Executors : exec'[e].pc = exec[e].pc /\ exec'[e].cancel = exec[e].cancel
          BY <2>1, <3>4 DEF Resume, Execution
      <4>2. task' = task
          BY <3>4 DEF Resume
      <4> QED BY <2>2, <3>1, <4>1, <4>2
    <3>5. ASSUME NEW f \in Executors, Launch(c, f)
          PROVE  queue' = {} /\ \A e \in Executors : Tracked(e)'
      <4>1. task' = f /\ \A e \in Executors \ {f} : exec'[e] = Cancelled[e]
          BY <2>1, <3>5 DEF Launch
      <4> QED BY <2>2, <2>3, <3>1, <4>1
    <3> QED BY <2>4, <3>2, <3>3, <3>4, <3>5, RequestExecutions
  <2>5. ASSUME NEW f \in Executors, ExecutionStep(f)
        PROVE  queue' = {} /\ \A e \in Executors : Tracked(e)'
    <3>1. queue' = {}
        BY <2>2, <2>5, ExecutionMoves
    <3>2. ASSUME NEW e \in Executors, exec'[e].pc # "idle", exec'[e].cancel = "no"
          PROVE  task' = e
      <4>1. exec[e].pc # "idle" /\ exec[e].cancel = "no"
          BY <2>5, <3>2, ExecutionMoves
      <4>2. task = e
          BY <2>2, <4>1
      <4> QED BY <2>5, <3>2, <4>2, ExecutionMoves
    <3> QED BY <3>1, <3>2
  <2>6. CASE Deliver \/ ExpireLease \/ AgeHeartbeat
      BY <2>2, <2>6 DEF Deliver, ExpireLease, AgeHeartbeat
  <2>7. CASE BackendCrash
      BY <2>1, <2>2, <2>7 DEF BackendCrash
  <2>8. CASE UNCHANGED vars
      BY <2>2, <2>8 DEF vars
  <2> QED BY <2>4, <2>5, <2>6, <2>7, <2>8 DEF Next, RequestStep, ExecutionStep
<1> QED BY <1>1, <1>2, TypeCorrect, PTL DEF Spec

\* With local dispatch an execution that runs is the one _local_run_tasks tracks, or
\* has been cancelled.
THEOREM OneTrackedTask == Spec => []SingleLocalExecution
<1>1. LocalInv => SingleLocalExecution
    BY DEF LocalInv, SingleLocalExecution
<1> QED BY <1>1, LocalInvHolds, PTL

InUrl == {"stage", "url", "record"}

\* Only a checkpoint that read an active run lets an execution into a URL, and
\* inside one it leaves the status alone.
LEMMA UrlSteps ==
    ASSUME TypeOK, NEW e \in Executors, ExecutionStep(e), exec'[e].pc \in InUrl
    PROVE  /\ row'.status = row.status
           /\ row.status \in Claimable \/ exec[e].pc \in InUrl
<1>1. /\ exec \in [Executors -> Execution] /\ exec[e] \in Execution /\ IdleExec.pc = "idle"
      /\ row \in Row /\ exec[e].copy \in Copy
    BY IdleType DEF TypeOK, Execution
<1>2. exec'[e] # IdleExec
    BY <1>1 DEF InUrl
<1>3. ASSUME NEW x, Become(e, x)
      PROVE  exec'[e] = x
    BY <1>1, <1>2, <1>3, BecomeType
<1>4. ASSUME NEW pc, Goto(e, pc)
      PROVE  exec'[e].pc = pc
    BY <1>1, <1>2, <1>4, GotoType
<1>5. NextPc(exec[e]) \in {"check", "final"}
    BY DEF NextPc
<1>6. CASE Checkpoint(e)
  <2>1. row.status \notin Claimable => exec'[e].pc = "final"
      BY <1>1, <1>3, <1>6 DEF Checkpoint, Execution
  <2> QED BY <1>6, <2>1 DEF Checkpoint, InUrl
<1>7. CASE SetStage(e)
    BY <1>1, <1>7, WriteSummaryType DEF SetStage, InUrl
<1>8. CASE ProcessUrl(e) \/ Redeliver(e)
    BY <1>8 DEF ProcessUrl, Redeliver, InUrl
<1>9. CASE CancelSwallowed(e)
    BY <1>9 DEF CancelSwallowed, InUrl
<1>10. CASE RecordUrl(e)
  <2>1. exec'[e].pc \in {"check", "final", "exit"}
      BY <1>1, <1>3, <1>4, <1>5, <1>10 DEF RecordUrl, Execution
  <2> QED BY <2>1 DEF InUrl
<1>11. CASE Exit(e) \/ CancelLands(e) \/ WorkerLost(e) \/ Terminated(e)
    BY <1>1, <1>11 DEF Exit, CancelLands, WorkerLost, Terminated, InUrl
<1>12. CASE Seed(e) \/ FinalCheckpoint(e) \/ Finish(e) \/ FailWrite(e) \/ Breaks(e)
    BY <1>4, <1>5, <1>12 DEF Seed, FinalCheckpoint, Finish, FailWrite, Breaks, InUrl
<1>13. CASE Load(e) \/ Claim(e) \/ Resolve(e) \/ Merge(e) \/ ApplyControl(e) \/ FailLoad(e)
    BY <1>1, <1>3, <1>4, <1>13
       DEF Load, Claim, Resolve, Merge, ApplyControl, FailLoad, Execution, InUrl
<1> QED BY <1>6, <1>7, <1>8, <1>9, <1>10, <1>11, <1>12, <1>13
        DEF ExecutionStep, ExecStep, ExecAction

\* With local dispatch a paused run has nobody inside a URL but cancelled executions,
\* as long as none of those has written.
THEOREM PausedRunIsQuiet == Spec => []PausedIsQuiet
<1> DEFINE Quiet == \A e \in Executors : exec[e].cancel = "no" => exec[e].pc \notin InUrl
<1>1. Init => PausedIsQuiet
    BY DEF Init, PausedIsQuiet, NewRow
<1>2. TypeOK /\ LocalInv /\ PausedIsQuiet /\ [Next]_vars => PausedIsQuiet'
  <2> SUFFICES ASSUME TypeOK, LocalInv, PausedIsQuiet, [Next]_vars,
                      ~Celery, ~strayed', row'.status = "paused"
               PROVE  Quiet'
      BY DEF PausedIsQuiet, InUrl
  <2>1. "idle" \notin InUrl /\ "load" \notin InUrl
      BY DEF InUrl
  <2>2. /\ queue = {}
        /\ \A e \in Executors : exec[e].pc # "idle" /\ exec[e].cancel = "no" => task = e
      BY DEF LocalInv
  <2>3. ~strayed
      BY HistoryTypes DEF vars, history
  <2>4. row.status = "paused" => Quiet
      BY <2>3 DEF PausedIsQuiet, InUrl
  <2>5. ASSUME Quiet, \/ \E c \in Clients : RequestStep(c)
                      \/ Deliver \/ ExpireLease \/ AgeHeartbeat \/ BackendCrash
        PROVE  Quiet'
      BY <2>1, <2>5, OthersLeaveWork DEF SameWork
  <2>6. ASSUME NEW c \in Clients, RequestStep(c)
        PROVE  Quiet'
    <3>1. row.status = "paused" \/ task = NoExec
        BY <2>6, RequestWrites
    <3>2. Quiet
        BY <2>1, <2>2, <2>4, <3>1, NoExecAssumption
    <3> QED BY <2>5, <2>6, <3>2
  <2>7. ASSUME NEW f \in Executors, ExecutionStep(f)
        PROVE  Quiet'
    <3>1. /\ exec[f].pc # "idle"
          /\ \A e \in Executors \ {f} : exec'[e] = exec[e]
          /\ exec'[f].pc = "idle" \/ (exec'[f].cancel = "no" <=> exec[f].cancel = "no")
        BY <2>7, ExecutionMoves
    <3>2. CASE exec[f].cancel = "no"
      <4>1. \A e \in Executors \ {f} : exec'[e].cancel = "no" => exec'[e].pc = "idle"
          BY <2>2, <3>1, <3>2
      <4>2. exec'[f].pc \notin InUrl
          BY <2>4, <2>7, <3>2, UrlSteps DEF Claimable
      <4> QED BY <2>1, <4>1, <4>2
    <3>3. CASE exec[f].cancel # "no"
      <4>1. Quiet
          BY <2>4, <2>7, <3>3, Straying
      <4> QED BY <2>1, <3>1, <3>3, <4>1
    <3> QED BY <3>2, <3>3
  <2>8. CASE Deliver \/ ExpireLease \/ AgeHeartbeat \/ BackendCrash
    <3>1. row'.status = row.status
        BY <2>8 DEF Deliver, Receive, Discard, ExpireLease, AgeHeartbeat, BackendCrash,
                    TypeOK, Row
    <3> QED BY <2>4, <2>5, <2>8, <3>1
  <2>9. CASE UNCHANGED vars
      BY <2>4, <2>9 DEF vars
  <2> QED BY <2>6, <2>7, <2>8, <2>9 DEF Next, RequestStep, ExecutionStep
<1> QED BY <1>1, <1>2, TypeCorrect, LocalInvHolds, PTL DEF Spec

-----------------------------------------------------------------------------
(* The pending items *)

\* From the moment its pending items are computed until the loop ends.
WithItems == {"merge", "seed"} \cup Looping

\* An execution alone in the loop takes an item off its list before its result row
\* is there for others to see.
LEMMA ItemSteps ==
    ASSUME TypeOK, NEW e \in Executors, ExecutionStep(e), exec'[e].pc \in WithItems,
           exec[e].pc \in WithItems => exec[e].todo \cap saved = {}
    PROVE  exec'[e].todo \cap saved' = {}
<1>1. /\ exec \in [Executors -> Execution] /\ exec[e] \in Execution /\ IdleExec.pc = "idle"
    BY IdleType DEF TypeOK
<1>2. "idle" \notin WithItems /\ "exit" \notin WithItems /\ "fail" \notin WithItems
    BY DEF WithItems, Looping
<1>3. exec'[e] # IdleExec
    BY <1>1, <1>2
<1>4. ASSUME NEW x, Become(e, x)
      PROVE  exec'[e] = x
    BY <1>1, <1>3, <1>4, BecomeType
<1>5. ASSUME NEW pc, Goto(e, pc)
      PROVE  exec'[e].pc = pc /\ exec'[e].todo = exec[e].todo
    BY <1>1, <1>3, <1>5, GotoType
<1>6. CASE Resolve(e)
  <2>1. exec'[e].todo = Urls \ saved
      BY <1>1, <1>4, <1>6 DEF Resolve, Execution
  <2> QED BY <1>6, <2>1 DEF Resolve
<1>7. CASE ProcessUrl(e)
  <2>1. PICK u \in exec[e].todo, ok \in BOOLEAN, limit \in BOOLEAN :
          /\ saved' = IF ok THEN saved \cup {u} ELSE saved
          /\ Become(e, [exec[e] EXCEPT !.pc = "record", !.todo = @ \ {u}, !.limited = limit])
      BY <1>2, <1>5, <1>7 DEF ProcessUrl
  <2>2. exec'[e].todo = exec[e].todo \ {u}
      BY <1>1, <1>4, <2>1 DEF Execution
  <2>3. exec[e].todo \cap saved = {}
      BY <1>7 DEF ProcessUrl, WithItems, Looping
  <2> QED BY <2>1, <2>2, <2>3
<1>8. CASE Redeliver(e)
    BY <1>8 DEF Redeliver
<1>9. CASE CancelSwallowed(e)
  <2>1. exec'[e].todo = exec[e].todo /\ saved' = saved /\ exec[e].pc = "url"
      BY <1>1, <1>9 DEF CancelSwallowed, Execution
  <2> QED BY <2>1 DEF WithItems, Looping
<1>10. CASE Exit(e) \/ CancelLands(e) \/ WorkerLost(e) \/ Terminated(e)
    BY <1>1, <1>3, <1>10 DEF Exit, CancelLands, WorkerLost, Terminated
<1>11. CASE \/ Merge(e) \/ Seed(e) \/ Checkpoint(e) \/ ApplyControl(e) \/ SetStage(e)
            \/ RecordUrl(e)
  <2>1. exec[e].pc \in WithItems /\ saved' = saved
      BY <1>11 DEF Merge, Seed, Checkpoint, ApplyControl, SetStage, RecordUrl, WithItems,
                   Looping
  <2>2. exec'[e].todo = exec[e].todo
    <3>1. CASE Seed(e) \/ SetStage(e)
        BY <1>5, <3>1 DEF Seed, SetStage
    <3>2. CASE Merge(e) \/ Checkpoint(e) \/ ApplyControl(e) \/ RecordUrl(e)
        BY <1>1, <1>4, <1>5, <3>2 DEF Merge, Checkpoint, ApplyControl, RecordUrl, Execution
    <3> QED BY <1>11, <3>1, <3>2
  <2> QED BY <2>1, <2>2
<1>12. CASE \/ Load(e) \/ Claim(e) \/ FinalCheckpoint(e) \/ Finish(e) \/ FailLoad(e)
            \/ FailWrite(e) \/ Breaks(e)
  <2>1. CASE Load(e) \/ Claim(e) \/ FailLoad(e)
    <3>1. exec'[e].pc \in {"claim", "resolve", "exit", "failwrite", "refailwrite"}
        BY <1>1, <1>4, <1>5, <2>1 DEF Load, Claim, FailLoad, Execution
    <3> QED BY <3>1 DEF WithItems, Looping
  <2>2. CASE FinalCheckpoint(e) \/ Finish(e) \/ FailWrite(e) \/ Breaks(e)
    <3>1. exec'[e].pc \in {"finish", "exit", "fail", "refail"}
        BY <1>5, <2>2 DEF FinalCheckpoint, Finish, FailWrite, Breaks
    <3> QED BY <3>1 DEF WithItems, Looping
  <2> QED BY <1>12, <2>1, <2>2
<1> QED BY <1>6, <1>7, <1>8, <1>9, <1>10, <1>11, <1>12 DEF ExecutionStep, ExecStep, ExecAction

FreshItems(e) == exec[e].pc \in WithItems => exec[e].todo \cap saved = {}

\* With local dispatch no URL that has a result row is crawled again, whatever the
\* operators do, as long as no cancelled execution has written.
THEOREM LocalFreshWork == Spec => [](~Celery => FreshWork)
<1> DEFINE Fresh == \A e \in Executors : exec[e].cancel = "no" => FreshItems(e)
           Inv == ~Celery /\ ~strayed => Fresh
<1>1. Init => Inv
    BY DEF Init, FreshItems, IdleExec, WithItems, Looping
<1>2. TypeOK /\ LocalInv /\ Inv /\ [Next]_vars => Inv'
  <2> SUFFICES ASSUME TypeOK, LocalInv, Inv, [Next]_vars, ~Celery, ~strayed'
               PROVE  Fresh'
      OBVIOUS
  <2>1. "idle" \notin WithItems /\ "load" \notin WithItems
      BY DEF WithItems, Looping
  <2>2. \A e \in Executors : exec[e].pc # "idle" /\ exec[e].cancel = "no" => task = e
      BY DEF LocalInv
  <2>3. ~strayed
      BY HistoryTypes DEF vars, history
  <2>4. Fresh
      BY <2>3
  <2>5. ASSUME \/ \E c \in Clients : RequestStep(c)
               \/ Deliver \/ ExpireLease \/ AgeHeartbeat \/ BackendCrash
        PROVE  Fresh'
    <3>1. saved' \subseteq saved
        BY <2>5 DEF RequestStep, ClientStep, Request, RecoverSelect, RecoverClear, RecoverLoad,
            RecoverCommit, ControlFails, EnqueueFails, Pause, Resume, Kill, Delete,
            ClientAborts, Refresh, SweepSelect, SweepClear, SweepCommit, DispatchRefused,
            Dispatch, Enqueue, Launch, Deliver, Receive, Discard, ExpireLease, AgeHeartbeat,
            BackendCrash
    <3> QED BY <2>1, <2>4, <2>5, <3>1, OthersLeaveWork DEF SameWork, FreshItems
  <2>6. ASSUME NEW f \in Executors, ExecutionStep(f)
        PROVE  Fresh'
    <3>1. /\ exec[f].pc # "idle"
          /\ \A e \in Executors \ {f} : exec'[e] = exec[e]
          /\ exec'[f].pc = "idle" \/ (exec'[f].cancel = "no" <=> exec[f].cancel = "no")
        BY <2>6, ExecutionMoves
    <3>2. CASE exec[f].cancel = "no"
      <4>1. \A e \in Executors \ {f} : exec'[e].cancel = "no" => exec'[e].pc = "idle"
          BY <2>2, <3>1, <3>2
      <4>2. exec'[f].pc \in WithItems => exec'[f].todo \cap saved' = {}
          BY <2>4, <2>6, <3>2, ItemSteps DEF FreshItems
      <4> QED BY <2>1, <4>1, <4>2 DEF FreshItems
    <3>3. CASE exec[f].cancel # "no"
      <4>1. saved' = saved
          BY <2>6, <3>3, Straying
      <4> QED BY <2>1, <2>4, <3>1, <3>3, <4>1 DEF FreshItems
    <3> QED BY <3>2, <3>3
  <2>7. CASE UNCHANGED vars
      BY <2>4, <2>7 DEF vars, FreshItems
  <2> QED BY <2>5, <2>6, <2>7 DEF Next, RequestStep, ExecutionStep
<1>3. Inv => (~Celery => FreshWork)
    BY DEF FreshItems, FreshWork, WithItems
<1> QED BY <1>1, <1>2, <1>3, TypeCorrect, LocalInvHolds, PTL DEF Spec

-----------------------------------------------------------------------------
(* Completion and the pending items *)

\* The loop ends with nothing left, at the limit, or because a checkpoint stopped it.
LoopOver(x) == x.pc \in {"final", "finish"} => x.todo = {} \/ x.limited \/ x.stopped

\* Nobody but a resume makes a run active again that was not when an execution was
\* stopped.
StoppedInactive(x) == x.stopped => x.revived \/ row.status \notin Claimable

CoverInv == \A e \in Executors : LoopOver(exec[e]) /\ StoppedInactive(exec[e])

\* A step of an execution ends its loop only for one of those reasons, and stops it
\* only where the row is not active, or no longer.
LEMMA CoverSteps ==
    ASSUME TypeOK, NEW e \in Executors, ExecutionStep(e), LoopOver(exec[e])
    PROVE  /\ LoopOver(exec[e])'
           /\ \/ exec'[e].stopped = exec[e].stopped /\ exec'[e].revived = exec[e].revived
              \/ ~exec'[e].stopped
              \/ row'.status \notin Claimable
<1> DEFINE Same == exec'[e].stopped = exec[e].stopped /\ exec'[e].revived = exec[e].revived
           Good == /\ LoopOver(exec[e])'
                   /\ Same \/ ~exec'[e].stopped \/ row'.status \notin Claimable
<1>1. /\ exec \in [Executors -> Execution] /\ exec[e] \in Execution /\ row \in Row
      /\ IdleExec.pc = "idle" /\ ~IdleExec.stopped
    BY IdleType DEF TypeOK
<1>2. CASE exec'[e] = IdleExec
    BY <1>1, <1>2 DEF LoopOver
<1>3. ASSUME NEW x, Become(e, x), x.stopped = exec[e].stopped, x.revived = exec[e].revived,
             x.pc \notin {"final", "finish"}
      PROVE  Good
  <2>1. exec'[e] = x \/ exec'[e] = IdleExec
      BY <1>1, <1>3, BecomeType
  <2> QED BY <1>2, <1>3, <2>1 DEF LoopOver
<1>4. ASSUME NEW pc, Goto(e, pc),
             pc \in {"final", "finish"} => exec[e].todo = {} \/ exec[e].limited \/ exec[e].stopped
      PROVE  Good
  <2>1. CASE exec'[e] # IdleExec
    <3>1. /\ Same /\ exec'[e].pc = pc /\ exec'[e].todo = exec[e].todo
          /\ exec'[e].limited = exec[e].limited
        BY <1>1, <1>4, <2>1, GotoType
    <3> QED BY <1>4, <3>1 DEF LoopOver
  <2> QED BY <1>2, <2>1
<1>5. ASSUME Become(e, [exec[e] EXCEPT !.pc = "final", !.stopped = TRUE]),
             row'.status \notin Claimable
      PROVE  Good
  <2>1. exec'[e] = [exec[e] EXCEPT !.pc = "final", !.stopped = TRUE] \/ exec'[e] = IdleExec
      BY <1>1, <1>5, BecomeType
  <2>2. CASE exec'[e] = [exec[e] EXCEPT !.pc = "final", !.stopped = TRUE]
    <3>1. exec'[e].stopped
        BY <1>1, <2>2 DEF Execution
    <3> QED BY <1>5, <3>1 DEF LoopOver
  <2> QED BY <1>2, <2>1, <2>2
<1>6. NextPc(exec[e]) = "final" => exec[e].todo = {} \/ exec[e].limited
    BY DEF NextPc
<1>7. NextPc(exec[e]) \in {"check", "final"}
    BY DEF NextPc
<1>8. CASE Load(e) \/ Claim(e) \/ Resolve(e) \/ Merge(e) \/ FailLoad(e)
  <2>1. CASE Load(e)
    <3> DEFINE tok == IF row.token = NoToken THEN lastToken + 1 ELSE row.token
               x == [exec[e] EXCEPT !.pc = "claim", !.copy = Loaded(row), !.tok = tok]
    <3>1. /\ x.stopped = exec[e].stopped /\ x.revived = exec[e].revived
          /\ x.pc \notin {"final", "finish"}
        BY <1>1 DEF Execution
    <3>2. Become(e, x) \/ Goto(e, "exit")
        BY <1>1, <2>1 DEF Load
    <3> HIDE DEF x
    <3> QED BY <1>3, <1>4, <3>1, <3>2
  <2>2. CASE Claim(e)
    <3> DEFINE x == [exec[e] EXCEPT !.pc = "resolve", !.copy.status = "running"]
    <3>1. /\ x.stopped = exec[e].stopped /\ x.revived = exec[e].revived
          /\ x.pc \notin {"final", "finish"}
        BY <1>1 DEF Execution
    <3>2. Become(e, x) \/ Goto(e, "exit")
        BY <1>1, <2>2 DEF Claim
    <3> HIDE DEF x
    <3> QED BY <1>3, <1>4, <3>1, <3>2
  <2>3. CASE Resolve(e)
    <3> DEFINE x == [exec[e] EXCEPT !.pc = "merge", !.todo = Urls \ saved]
    <3>1. /\ x.stopped = exec[e].stopped /\ x.revived = exec[e].revived
          /\ x.pc \notin {"final", "finish"}
        BY <1>1 DEF Execution
    <3>2. Become(e, x)
        BY <1>1, <2>3 DEF Resolve
    <3> HIDE DEF x
    <3> QED BY <1>3, <1>4, <3>1, <3>2
  <2>4. CASE Merge(e)
    <3> DEFINE x == IF Gone THEN [exec[e] EXCEPT !.pc = "fail"]
                    ELSE [exec[e] EXCEPT !.pc = "seed",
                                         !.copy = WriteSummary(exec[e].copy, row)]
    <3>1. /\ x.stopped = exec[e].stopped /\ x.revived = exec[e].revived
          /\ x.pc \notin {"final", "finish"}
        BY <1>1 DEF Execution
    <3>2. Become(e, x)
        BY <1>1, <2>4 DEF Merge
    <3> HIDE DEF x
    <3> QED BY <1>3, <1>4, <3>1, <3>2
  <2>5. CASE FailLoad(e)
    <3> DEFINE x == IF Gone THEN [exec[e] EXCEPT !.pc = "exit"]
                    ELSE [exec[e] EXCEPT
                            !.pc = IF exec[e].pc = "fail" THEN "failwrite" ELSE "refailwrite",
                            !.copy = Loaded(row)]
    <3>1. /\ x.stopped = exec[e].stopped /\ x.revived = exec[e].revived
          /\ x.pc \notin {"final", "finish"}
        BY <1>1 DEF Execution
    <3>2. Become(e, x)
        BY <1>1, <2>5 DEF FailLoad
    <3> HIDE DEF x
    <3> QED BY <1>3, <1>4, <3>1, <3>2
  <2> QED BY <1>8, <2>1, <2>2, <2>3, <2>4, <2>5
<1>9. CASE Seed(e) \/ SetStage(e) \/ Finish(e) \/ FailWrite(e) \/ Breaks(e)
    BY <1>4, <1>6, <1>7, <1>9 DEF Seed, SetStage, Finish, FailWrite, Breaks
<1>10. CASE Checkpoint(e)
  <2>1. CASE row.status \in Claimable
    <3> DEFINE x == [exec[e] EXCEPT !.pc = IF row.control = "none" THEN "stage" ELSE "apply",
                                    !.request = row.control]
    <3>1. /\ x.stopped = exec[e].stopped /\ x.revived = exec[e].revived
          /\ x.pc \notin {"final", "finish"}
        BY <1>1 DEF Execution
    <3>2. Become(e, x)
        BY <1>10, <2>1 DEF Checkpoint
    <3> HIDE DEF x
    <3> QED BY <1>3, <3>1, <3>2
  <2>2. CASE row.status \notin Claimable
      BY <1>5, <1>10, <2>2 DEF Checkpoint
  <2> QED BY <2>1, <2>2
<1>11. CASE ApplyControl(e)
  <2>1. \A t \in {"paused", "killed"} :
          [Released(row) EXCEPT !.status = t, !.control = "none"].status \notin Claimable
      BY <1>1, LeaseType DEF Row, Claimable, TypeOK, Released
  <2>2. \/ Goto(e, "fail") \/ Goto(e, "exit")
        \/ /\ Become(e, [exec[e] EXCEPT !.pc = "final", !.stopped = TRUE])
           /\ row'.status \notin Claimable
      BY <1>11, <2>1 DEF ApplyControl
  <2> QED BY <1>4, <1>5, <2>2
<1>12. CASE ProcessUrl(e)
  <2>1. CASE Goto(e, "fail")
      BY <1>4, <2>1
  <2>2. CASE ~Goto(e, "fail")
    <3>1. PICK u \in exec[e].todo, limit \in BOOLEAN :
            Become(e, [exec[e] EXCEPT !.pc = "record", !.todo = @ \ {u}, !.limited = limit])
        BY <1>12, <2>2 DEF ProcessUrl
    <3> DEFINE x == [exec[e] EXCEPT !.pc = "record", !.todo = exec[e].todo \ {u},
                                    !.limited = limit]
    <3>2. /\ x.stopped = exec[e].stopped /\ x.revived = exec[e].revived
          /\ x.pc \notin {"final", "finish"}
        BY <1>1 DEF Execution
    <3>3. Become(e, x)
        BY <3>1
    <3> HIDE DEF x
    <3> QED BY <1>3, <3>2, <3>3
  <2> QED BY <2>1, <2>2
<1>13. CASE RecordUrl(e)
  <2> DEFINE x == [exec[e] EXCEPT !.pc = NextPc(exec[e]), !.gated = TRUE,
                                  !.copy = WriteSummary(exec[e].copy, row)]
  <2>1. /\ x.stopped = exec[e].stopped /\ x.revived = exec[e].revived
        /\ x.todo = exec[e].todo /\ x.limited = exec[e].limited /\ x.pc = NextPc(exec[e])
      BY <1>1 DEF Execution
  <2>2. Goto(e, NextPc(exec[e])) \/ Goto(e, "exit") \/ Become(e, x)
      BY <1>1, <1>13 DEF RecordUrl
  <2> HIDE DEF x
  <2>3. ASSUME Become(e, x)
        PROVE  Good
    <3>1. exec'[e] = x \/ exec'[e] = IdleExec
        BY <1>1, <2>3, BecomeType
    <3>2. CASE exec'[e] = x
        BY <1>6, <1>7, <2>1, <3>2 DEF LoopOver
    <3> QED BY <1>2, <3>1, <3>2
  <2> QED BY <1>4, <1>6, <1>7, <2>2, <2>3
<1>14. CASE FinalCheckpoint(e)
  <2>1. exec[e].todo = {} \/ exec[e].limited \/ exec[e].stopped
      BY <1>14 DEF FinalCheckpoint, LoopOver
  <2> QED BY <1>4, <1>14, <2>1 DEF FinalCheckpoint
<1>15. CASE Exit(e) \/ CancelLands(e) \/ WorkerLost(e) \/ Terminated(e)
    BY <1>1, <1>2, <1>15 DEF Exit, CancelLands, WorkerLost, Terminated
<1>16. CASE Redeliver(e)
    BY <1>16 DEF Redeliver, LoopOver
<1>17. CASE CancelSwallowed(e)
  <2>1. Same /\ exec'[e].pc = "url"
      BY <1>1, <1>17 DEF CancelSwallowed, Execution
  <2> QED BY <2>1 DEF LoopOver
<1> QED BY <1>8, <1>9, <1>10, <1>11, <1>12, <1>13, <1>14, <1>15, <1>16, <1>17
        DEF ExecutionStep, ExecStep, ExecAction

\* A completion is the work of one execution, over a run that is still active.
LEMMA CompletionIsFinish ==
    ASSUME TypeOK, Next, Completes
    PROVE  \E e \in Executors : exec[e].pc = "finish" /\ row.status \in Claimable
<1>1. row.status # "completed" /\ row'.status = "completed" /\ row \in Row
    BY DEF Completes, TypeOK
<1>2. \A c \in Clients : ~RequestStep(c)
    BY <1>1, RequestWrites
<1>3. ~(Deliver \/ ExpireLease \/ AgeHeartbeat \/ BackendCrash)
    BY <1>1 DEF Deliver, Receive, Discard, ExpireLease, AgeHeartbeat, BackendCrash, Row
<1>4. PICK e \in Executors : ExecutionStep(e)
    BY <1>2, <1>3 DEF Next, RequestStep, ExecutionStep
<1>5. exec[e].pc = "finish" /\ CanMove(row.status, "completed")
    BY <1>1, <1>4, ExecutionWrites
<1> QED BY <1>1, <1>5 DEF CanMove, Allowed, Claimable

\* Whoever dispatches, claims, pauses, sweeps, crashes or redelivers, and under both
\* dispatchers, a run completes only with every pending URL tried, at its record limit,
\* or where a resume overtook the execution that a checkpoint had stopped.
THEOREM CompletionCovers == Spec => CompletedCoversWork
<1> DEFINE Covered == Completes => \E e \in Executors :
              /\ exec[e].pc = "finish"
              /\ \/ exec[e].todo = {} \/ exec[e].limited
                 \/ (exec[e].stopped /\ exec[e].revived)
<1>1. Init => CoverInv
    BY DEF Init, CoverInv, LoopOver, StoppedInactive, IdleExec
<1>2. TypeOK /\ CoverInv /\ [Next]_vars => CoverInv'
  <2> SUFFICES ASSUME TypeOK, CoverInv, [Next]_vars PROVE CoverInv'
      OBVIOUS
  <2>1. ASSUME \A e \in Executors :
                 \/ SameWork(exec'[e], exec[e]) /\ (exec[e].revived => exec'[e].revived)
                 \/ exec'[e].pc \in {"idle", "load"} /\ ~exec'[e].stopped,
               row'.status \in Claimable => row.status \in Claimable
        PROVE  CoverInv'
      BY <2>1 DEF SameWork, CoverInv, LoopOver, StoppedInactive
  <2>2. ASSUME NEW c \in Clients, RequestStep(c)
        PROVE  CoverInv'
    <3>1. CASE Resume(c)
      <4>1. \A e \in Executors : exec'[e] = [exec[e] EXCEPT
                 !.revived = exec[e].revived \/ exec[e].stopped]
          BY <3>1 DEF Resume
      <4>2. \A e \in Executors : exec'[e].stopped => exec'[e].revived
          BY <4>1 DEF TypeOK, Execution
      <4>3. \A e \in Executors : SameWork(exec'[e], exec[e])
          BY <4>1 DEF TypeOK, Execution, SameWork
      <4> QED BY <4>2, <4>3 DEF SameWork, CoverInv, LoopOver, StoppedInactive
    <3>2. CASE ~Resume(c)
      <4>1. row'.status \in Claimable => row.status \in Claimable
          BY <2>2, <3>2, RequestWrites DEF Claimable
      <4> QED BY <2>1, <2>2, <4>1, OthersLeaveWork
    <3> QED BY <3>1, <3>2
  <2>3. ASSUME NEW e \in Executors, ExecutionStep(e)
        PROVE  CoverInv'
    <3>1. row'.status \in Claimable => row.status \in Claimable
        BY <2>3, ExecutionWrites DEF Claimable
    <3>2. \A f \in Executors \ {e} : exec'[f] = exec[f]
        BY <2>3, ExecutionMoves
    <3>3. LoopOver(exec[e])' /\ StoppedInactive(exec[e])'
        BY <2>3, <3>1, CoverSteps DEF CoverInv, StoppedInactive
    <3> QED BY <3>1, <3>2, <3>3 DEF CoverInv, LoopOver, StoppedInactive
  <2>4. CASE Deliver \/ ExpireLease \/ AgeHeartbeat \/ BackendCrash
    <3>1. row'.status = row.status
        BY <2>4 DEF Deliver, Receive, Discard, ExpireLease, AgeHeartbeat, BackendCrash,
                    TypeOK, Row
    <3> QED BY <2>1, <2>4, <3>1, OthersLeaveWork
  <2>5. CASE UNCHANGED vars
      BY <2>5 DEF vars, CoverInv, LoopOver, StoppedInactive
  <2> QED BY <2>2, <2>3, <2>4, <2>5 DEF Next, RequestStep, ExecutionStep
<1>3. TypeOK /\ CoverInv /\ [Next]_vars => [Covered]_vars
  <2> SUFFICES ASSUME TypeOK, CoverInv, Next, Completes PROVE Covered
      BY DEF vars, Completes
  <2>1. PICK e \in Executors : exec[e].pc = "finish" /\ row.status \in Claimable
      BY CompletionIsFinish
  <2> QED BY <2>1 DEF CoverInv, LoopOver, StoppedInactive
<1> QED BY <1>1, <1>2, <1>3, TypeCorrect, PTL DEF Spec, CompletedCoversWork

-----------------------------------------------------------------------------
(* A Celery run nobody touches after its dispatch: its task may be delivered any *)
(* number of times, to any number of workers, any of which may be lost anywhere. *)

\* No operator request, and no execution that outlives its own lease.
Unattended == Celery /\ ~Stalls /\ MaxRequests = 0

-----------------------------------------------------------------------------
(* Its inductive invariant *)

AllFresh == \A e \in Executors : FreshItems(e)

\* Until its only request has enqueued the task, nothing runs.
DispatchOnce ==
    /\ requests = 0 /\ revoked = {}
    /\ \A c \in Clients : client[c].pc \in {"idle", "refresh", "dispatch", "enqueue"}
    /\ \A c, d \in Clients : client[c].pc # "idle" /\ client[d].pc # "idle" => c = d
    /\ \A c \in Clients : client[c].pc # "idle" =>
          /\ queue = {} /\ \A e \in Executors : exec[e].pc = "idle"
          /\ row.lease = "none"
          /\ client[c].pc \in {"refresh", "dispatch"} => lastToken = 0
          /\ client[c].pc \in {"dispatch", "enqueue"} => client[c].copy = Loaded(row)
          /\ client[c].pc = "enqueue" => row.token = 1

\* Every message and every claim is under the one token, and no writer of the
\* summary has another one to write.
OneToken ==
    /\ queue \subseteq {1}
    /\ row.status \in {"pending", "running", "completed", "failed"}
    /\ row.control = "none"
    /\ queue # {} \/ (\E e \in Executors : exec[e].pc # "idle") => row.token = 1
    /\ \A e \in Executors : exec[e].pc # "idle" => exec[e].msg = 1

Worker(x) ==
    /\ x.pc \in Claimant => x.tok = 1 /\ x.copy.token = 1 /\ x.copy.control = "none"
    /\ x.pc # "apply"
    /\ x.pc \in {"failwrite", "refailwrite"} => x.copy.status = "running"

\* Whoever works owns the row's live lease, so nobody else can.
OneWorker ==
    /\ \A e \in Executors : Worker(exec[e])
    /\ \A e \in Executors :
          exec[e].pc = "claim" /\ exec[e].copy.status = "running" => row.status # "pending"
    /\ \A e \in Executors : exec[e].pc \in Working =>
          row.status = "running" /\ row.owner = 1 /\ row.lease = "live"
    /\ \A e, f \in Executors : exec[e].pc \in Working /\ exec[f].pc \in Working => e = f

UnattendedInv == DispatchOnce /\ OneToken /\ OneWorker /\ AllFresh

-----------------------------------------------------------------------------
(* Every step preserves it *)

\* The request that created the run hands out the token and enqueues it.
LEMMA UnattendedRequest ==
    ASSUME Unattended, TypeOK, UnattendedInv, NEW c \in Clients, RequestStep(c)
    PROVE  UnattendedInv'
<1>1. /\ client \in [Clients -> Client] /\ row \in Row
      /\ IdleClient.pc = "idle" /\ lastToken \in Nat
    BY IdleType DEF TypeOK
<1>2. /\ client[c].pc \in {"idle", "refresh", "dispatch", "enqueue"} /\ ~Gone
      /\ requests = 0
    BY DEF UnattendedInv, DispatchOnce, OneToken, Gone
<1>3. \/ Refresh(c) \/ DispatchRefused(c) \/ Dispatch(c) \/ Enqueue(c) \/ EnqueueFails(c)
    BY <1>2 DEF RequestStep, ClientStep, Request, RecoverSelect, RecoverClear, RecoverLoad,
                RecoverCommit, ControlFails, Pause, Resume, Kill, Delete, ClientAborts,
                SweepSelect, SweepClear, SweepCommit, Launch, Unattended
<1>4. /\ client[c].pc # "idle" /\ queue = {} /\ \A e \in Executors : exec[e].pc = "idle"
      /\ \A d \in Clients \ {c} : client[d].pc = "idle"
      /\ exec' = exec /\ saved' = saved /\ requests' = requests /\ revoked' = revoked
    BY <1>3 DEF UnattendedInv, DispatchOnce, Refresh, DispatchRefused, Dispatch, Enqueue,
                EnqueueFails
<1>5. AllFresh'
    BY <1>4 DEF UnattendedInv, AllFresh, FreshItems
<1>6. OneWorker'
    BY <1>4 DEF UnattendedInv, OneWorker, Working, Looping, Failing
<1>7. CASE Refresh(c)
  <2>1. /\ client'[c].pc = "dispatch" /\ client'[c].copy = Loaded(row)
        /\ \A d \in Clients \ {c} : client'[d] = client[d]
      BY <1>1, <1>7 DEF Refresh, Unattended, Client
  <2>2. DispatchOnce'
      BY <1>1, <1>4, <1>7, <2>1 DEF Refresh, UnattendedInv, DispatchOnce
  <2>3. OneToken'
      BY <1>7 DEF Refresh, UnattendedInv, OneToken
  <2> QED BY <1>5, <1>6, <2>2, <2>3 DEF UnattendedInv
<1>8. CASE DispatchRefused(c)
  <2>1. DispatchOnce'
      BY <1>1, <1>4, <1>8 DEF DispatchRefused, Reply, UnattendedInv, DispatchOnce
  <2>2. OneToken'
      BY <1>8 DEF DispatchRefused, UnattendedInv, OneToken
  <2> QED BY <1>5, <1>6, <2>1, <2>2 DEF UnattendedInv
<1>9. CASE Dispatch(c)
  <2> DEFINE new == [row EXCEPT !.token = 1]
  <2>1. client[c].copy = Loaded(row) /\ lastToken = 0
      BY <1>4, <1>9 DEF Dispatch, UnattendedInv, DispatchOnce
  <2>2. /\ new \in Row /\ new.status = row.status /\ new.token = 1
        /\ new.control = row.control /\ new.lease = row.lease
        /\ Loaded(new) = [Loaded(row) EXCEPT !.token = 1]
      BY <1>1 DEF Row, Loaded
  <2>3. /\ row' = Flush(Loaded(row), [Loaded(row) EXCEPT !.token = 1])
        /\ client' = [client EXCEPT ![c].pc = "enqueue",
                                    ![c].copy = [Loaded(row) EXCEPT !.token = 1]]
        /\ queue' = queue
      BY <1>9, <2>1 DEF Dispatch
  <2>4. row' = new
      BY <1>1, <2>3 DEF Flush, Summary, WriteSummary, Loaded, Row
  <2>5. /\ client'[c].pc = "enqueue" /\ client'[c].copy = Loaded(new)
        /\ \A d \in Clients \ {c} : client'[d] = client[d]
      BY <1>1, <2>2, <2>3 DEF Client
  <2> HIDE DEF new
  <2>6. DispatchOnce'
    <3>1. row.lease = "none" /\ row'.token = 1 /\ row'.lease = "none"
        BY <1>4, <2>2, <2>4 DEF UnattendedInv, DispatchOnce
    <3>2. /\ requests' = 0 /\ revoked' = {} /\ queue' = {}
          /\ \A e \in Executors : exec'[e].pc = "idle"
        BY <1>2, <1>4, <2>3 DEF UnattendedInv, DispatchOnce
    <3>3. \A d \in Clients \ {c} : client'[d].pc = "idle"
        BY <1>4, <2>5
    <3>4. client'[c].pc = "enqueue" /\ client'[c].copy = Loaded(row')
        BY <2>4, <2>5
    <3> QED BY <3>1, <3>2, <3>3, <3>4 DEF DispatchOnce
  <2>7. OneToken'
      BY <1>4, <2>2, <2>3, <2>4 DEF UnattendedInv, OneToken
  <2> QED BY <1>5, <1>6, <2>6, <2>7 DEF UnattendedInv
<1>10. CASE Enqueue(c)
  <2>1. client[c].copy.token = 1 /\ row.token = 1
      BY <1>1, <1>4, <1>10, LoadedType DEF Enqueue, UnattendedInv, DispatchOnce
  <2>2. DispatchOnce'
      BY <1>1, <1>4, <1>10 DEF Enqueue, Reply, UnattendedInv, DispatchOnce
  <2>3. OneToken'
      BY <1>4, <1>10, <2>1 DEF Enqueue, UnattendedInv, OneToken
  <2> QED BY <1>5, <1>6, <2>2, <2>3 DEF UnattendedInv
<1>11. CASE EnqueueFails(c)
  <2>1. client[c].copy = Loaded(row)
      BY <1>4, <1>11 DEF EnqueueFails, UnattendedInv, DispatchOnce
  <2>2. row' = Flush(Loaded(row), [Loaded(row) EXCEPT !.token = NoToken]) /\ queue' = queue
      BY <1>2, <1>11, <2>1 DEF EnqueueFails
  <2>3. row'.status = row.status /\ row'.control = row.control
      BY <1>1, <2>2 DEF Flush, Summary, WriteSummary, Loaded, Row, NoToken
  <2>4. DispatchOnce'
      BY <1>1, <1>4, <1>11 DEF EnqueueFails, Reply, UnattendedInv, DispatchOnce
  <2>5. OneToken'
      BY <1>4, <2>2, <2>3 DEF UnattendedInv, OneToken
  <2> QED BY <1>5, <1>6, <2>4, <2>5 DEF UnattendedInv
<1> QED BY <1>3, <1>7, <1>8, <1>9, <1>10, <1>11

\* What the step of one execution makes of the row and of itself.
KeepsClaim(e) ==
    /\ row'.status = row.status /\ row'.owner = row.owner /\ row'.lease = row.lease
    /\ exec'[e].pc \in Working => exec[e].pc \in Working
TakesClaim(e) ==
    /\ MayClaim(1)
    /\ row'.status = "running" /\ row'.owner = 1 /\ row'.lease = "live"
EndsRun(e) ==
    /\ exec[e].pc \in Working /\ exec'[e].pc \notin Working
    /\ row'.status \in {"completed", "failed"}

\* A working execution keeps its claim until it ends the run; another one can only
\* take a claim that nobody working holds.
LEMMA UnattendedWork ==
    ASSUME Unattended, TypeOK, UnattendedInv, NEW e \in Executors, ExecutionStep(e)
    PROVE  /\ KeepsClaim(e) \/ TakesClaim(e) \/ EndsRun(e)
           /\ row'.token = 1 /\ row'.control = "none"
           /\ exec'[e].pc # "idle" => exec'[e].msg = 1
           /\ Worker(exec'[e])
           /\ exec'[e].pc = "claim" /\ exec'[e].copy.status = "running" => row'.status # "pending"
<1> DEFINE Row1 == row'.token = 1 /\ row'.control = "none"
           Exec1 == (exec'[e].pc # "idle" => exec'[e].msg = 1) /\ Worker(exec'[e])
<1>1. /\ exec \in [Executors -> Execution] /\ exec[e] \in Execution
      /\ exec[e].copy \in Copy /\ row \in Row
      /\ IdleExec.pc = "idle" /\ IdleExec \in Execution
    BY IdleType DEF TypeOK, Execution
<1>2. /\ exec[e].pc # "idle"
      /\ row.token = 1 /\ row.control = "none" /\ ~Gone /\ exec[e].msg = 1 /\ revoked = {}
    BY ExecutionMoves DEF UnattendedInv, DispatchOnce, OneToken, Gone
<1>3. /\ Worker(exec[e])
      /\ exec[e].pc \in Working => row.status = "running" /\ row.owner = 1 /\ row.lease = "live"
      /\ exec[e].pc = "claim" /\ exec[e].copy.status = "running" => row.status # "pending"
    BY DEF UnattendedInv, OneWorker
<1>4. /\ \A p \in Working : p \in Claimant /\ p \notin {"idle", "load", "claim", "exit"}
      /\ "idle" \notin Claimant /\ "load" \notin Claimant /\ "exit" \notin Claimant
      /\ "claim" \in Claimant
    BY DEF Claimant, Working, Looping, Failing
<1>5. NextPc(exec[e]) \in {"check", "final"}
    BY DEF NextPc
<1>6. /\ {"check", "stage", "url", "record", "fail", "failwrite", "refail", "refailwrite",
          "resolve", "merge", "seed", "final", "finish"} \subseteq Working
    BY DEF Working, Looping, Failing
<1>7. /\ WriteSummary(exec[e].copy, row) \in Copy
      /\ WriteSummary(exec[e].copy, row).token = 1
      /\ WriteSummary(exec[e].copy, row).control = "none"
      /\ Loaded(row) \in Copy /\ Loaded(row).status = row.status
      /\ Loaded(row).token = 1 /\ Loaded(row).control = "none"
    BY <1>1, <1>2, RefreshType, LoadedType
<1>8. ASSUME exec'[e] = IdleExec
      PROVE  Exec1 /\ exec'[e].pc = "idle"
    BY <1>1, <1>4, <1>8 DEF Worker
<1>9. ASSUME NEW p, Goto(e, p), exec[e].pc \in Claimant,
             p \in (Working \ {"apply", "failwrite", "refailwrite"}) \cup {"exit"}
      PROVE  Exec1 /\ exec'[e].pc \in {p, "idle"}
  <2>1. CASE exec'[e] # IdleExec
    <3>1. /\ exec'[e].pc = p /\ exec'[e].msg = exec[e].msg /\ exec'[e].tok = exec[e].tok
          /\ exec'[e].copy = exec[e].copy
        BY <1>1, <1>9, <2>1, GotoType
    <3> QED BY <1>2, <1>3, <1>9, <3>1 DEF Worker
  <2> QED BY <1>8, <2>1
<1>10. ASSUME NEW x, Become(e, x), x.msg = 1, Worker(x)
       PROVE  Exec1 /\ exec'[e] \in {x, IdleExec}
    BY <1>1, <1>8, <1>10, BecomeType
<1>11. ASSUME exec[e].pc \in Claimant, row' = WriteSummary(row, exec[e].copy)
       PROVE  /\ Row1 /\ row'.status = row.status /\ row'.owner = row.owner
              /\ row'.lease = row.lease
  <2>1. exec[e].copy.token = 1 /\ exec[e].copy.control = "none"
      BY <1>3, <1>11 DEF Worker
  <2> QED BY <1>1, <1>11, <2>1, WriteSummaryType
<1>12. CASE Load(e)
  <2> DEFINE x == [exec[e] EXCEPT !.pc = "claim", !.copy = Loaded(row), !.tok = 1]
  <2>1. Become(e, x) \/ Goto(e, "exit")
      BY <1>2, <1>12 DEF Load, NoToken
  <2>2. row' = row
      BY <1>12 DEF Load
  <2>3. x.pc = "claim" /\ x.msg = 1 /\ x.tok = 1 /\ x.copy = Loaded(row)
      BY <1>1, <1>2 DEF Execution
  <2>4. Worker(x)
      BY <1>7, <2>3 DEF Worker
  <2> HIDE DEF x
  <2>5. ASSUME Become(e, x)
        PROVE  /\ Exec1 /\ exec'[e].pc \in {"claim", "idle"}
               /\ exec'[e].pc = "claim" => exec'[e].copy = Loaded(row)
      BY <1>1, <1>10, <2>3, <2>4, <2>5
  <2>6. ASSUME Goto(e, "exit")
        PROVE  Exec1 /\ exec'[e].pc \in {"exit", "idle"}
    <3>1. (exec'[e].pc = "exit" /\ exec'[e].msg = exec[e].msg) \/ exec'[e] = IdleExec
        BY <1>1, <2>6, GotoType
    <3> QED BY <1>2, <1>4, <1>8, <3>1 DEF Worker
  <2>7. KeepsClaim(e)
      BY <1>4, <2>1, <2>2, <2>5, <2>6 DEF KeepsClaim
  <2>8. row'.status # "pending" \/ exec'[e].copy.status # "running" \/ exec'[e].pc # "claim"
      BY <1>7, <2>1, <2>2, <2>5, <2>6
  <2> QED BY <1>2, <2>1, <2>2, <2>5, <2>6, <2>7, <2>8
<1>13. CASE Claim(e)
  <2>1. exec[e].pc = "claim" /\ exec[e].tok = 1 /\ exec[e].copy.token = 1
        /\ exec[e].copy.control = "none"
      BY <1>3, <1>4, <1>13 DEF Claim, Worker
  <2>2. CASE MayClaim(1)
    <3> DEFINE run == [exec[e].copy EXCEPT !.status = "running"]
               x == [exec[e] EXCEPT !.pc = "resolve", !.copy.status = "running"]
               flushed == Flush(exec[e].copy, run)
    <3>1. run \in Copy /\ run.status = "running" /\ Summary(run) = Summary(exec[e].copy)
        BY <1>1 DEF Copy, Statuses, Claimable, Summary
    <3>2. row' = Leased(flushed, 1) /\ Become(e, x)
        BY <1>13, <2>1, <2>2 DEF Claim
    <3>3. flushed = IF run.status = exec[e].copy.status THEN row
                    ELSE [row EXCEPT !.status = run.status]
        BY <3>1 DEF Flush
    <3>4. /\ flushed \in Row /\ flushed.token = 1
          /\ flushed.control = "none" /\ flushed.status = "running"
      <4>1. row.status \in {"pending", "running"}
          BY <2>2 DEF MayClaim, Claimable
      <4>2. CASE exec[e].copy.status = "running"
          BY <1>1, <1>2, <1>3, <2>1, <3>1, <3>3, <4>1, <4>2
      <4>3. CASE exec[e].copy.status # "running"
          BY <1>1, <1>2, <3>1, <3>3, <4>3 DEF Row, Statuses, Claimable
      <4> QED BY <4>2, <4>3
    <3>5. Row1 /\ row'.status = "running" /\ row'.owner = 1 /\ row'.lease = "live"
      <4> HIDE DEF flushed
      <4> QED BY <3>2, <3>4 DEF Leased, Row
    <3>6. /\ x.pc = "resolve" /\ x.msg = 1 /\ x.tok = 1 /\ x.copy.token = 1
          /\ x.copy.control = "none"
        BY <1>1, <1>2, <2>1 DEF Execution, Copy
    <3>7. Worker(x)
        BY <3>6 DEF Worker
    <3> HIDE DEF x
    <3>8. Exec1 /\ exec'[e].pc # "claim"
        BY <1>1, <1>10, <3>2, <3>6, <3>7
    <3> QED BY <2>2, <3>5, <3>8 DEF TakesClaim
  <2>3. CASE ~MayClaim(1)
    <3>1. Goto(e, "exit") /\ row' = row
        BY <1>13, <2>1, <2>3 DEF Claim
    <3>2. Exec1 /\ exec'[e].pc \in {"exit", "idle"}
        BY <1>4, <1>9, <2>1, <3>1
    <3> QED BY <1>2, <1>4, <3>1, <3>2 DEF KeepsClaim
  <2> QED BY <2>2, <2>3
<1>14. CASE Resolve(e)
  <2> DEFINE x == [exec[e] EXCEPT !.pc = "merge", !.todo = Urls \ saved]
  <2>1. Become(e, x) /\ exec[e].pc \in Working /\ row' = row
      BY <1>6, <1>14 DEF Resolve
  <2>2. x.pc = "merge" /\ x.msg = 1 /\ x.tok = exec[e].tok /\ x.copy = exec[e].copy
      BY <1>1, <1>2 DEF Execution
  <2>3. Worker(x)
      BY <1>3, <1>4, <2>1, <2>2 DEF Worker
  <2> HIDE DEF x
  <2>4. Exec1 /\ exec'[e].pc # "claim"
      BY <1>1, <1>10, <2>1, <2>2, <2>3
  <2> QED BY <1>2, <2>1, <2>4 DEF KeepsClaim
<1>15. CASE Merge(e)
  <2> DEFINE x == [exec[e] EXCEPT !.pc = "seed", !.copy = WriteSummary(exec[e].copy, row)]
  <2>1. Become(e, x) /\ exec[e].pc \in Working /\ row' = row
      BY <1>2, <1>6, <1>15 DEF Merge
  <2>2. /\ x.pc = "seed" /\ x.msg = 1 /\ x.tok = exec[e].tok
        /\ x.copy = WriteSummary(exec[e].copy, row)
      BY <1>1, <1>2 DEF Execution
  <2>3. Worker(x)
      BY <1>3, <1>4, <1>7, <2>1, <2>2 DEF Worker
  <2> HIDE DEF x
  <2>4. Exec1 /\ exec'[e].pc # "claim"
      BY <1>1, <1>10, <2>1, <2>2, <2>3
  <2> QED BY <1>2, <2>1, <2>4 DEF KeepsClaim
<1>16. CASE Seed(e)
  <2>1. exec[e].pc \in Working /\ row' = WriteSummary(row, exec[e].copy)
        /\ Goto(e, NextPc(exec[e]))
      BY <1>2, <1>6, <1>16 DEF Seed
  <2>2. Row1 /\ row'.status = row.status /\ row'.owner = row.owner /\ row'.lease = row.lease
      BY <1>4, <1>11, <2>1
  <2>3. Exec1 /\ exec'[e].pc # "claim"
      BY <1>4, <1>5, <1>6, <1>9, <2>1
  <2> QED BY <2>1, <2>2, <2>3 DEF KeepsClaim
<1>17. CASE Checkpoint(e)
  <2> DEFINE x == [exec[e] EXCEPT !.pc = "stage", !.request = row.control]
  <2>1. Become(e, x) /\ exec[e].pc \in Working /\ row' = row
      BY <1>2, <1>3, <1>6, <1>17 DEF Checkpoint, Claimable
  <2>2. x.pc = "stage" /\ x.msg = 1 /\ x.tok = exec[e].tok /\ x.copy = exec[e].copy
      BY <1>1, <1>2 DEF Execution
  <2>3. Worker(x)
      BY <1>3, <1>4, <2>1, <2>2 DEF Worker
  <2> HIDE DEF x
  <2>4. Exec1 /\ exec'[e].pc # "claim"
      BY <1>1, <1>10, <2>1, <2>2, <2>3
  <2> QED BY <1>2, <2>1, <2>4 DEF KeepsClaim
<1>18. CASE ApplyControl(e)
    BY <1>3, <1>18 DEF ApplyControl, Worker
<1>19. CASE SetStage(e)
  <2>1. /\ exec[e].pc \in Working /\ Goto(e, "url")
        /\ row' = row \/ row' = WriteSummary(row, exec[e].copy)
      BY <1>2, <1>6, <1>19 DEF SetStage
  <2>2. Exec1 /\ exec'[e].pc # "claim"
      BY <1>4, <1>6, <1>9, <2>1
  <2>3. Row1 /\ row'.status = row.status /\ row'.owner = row.owner /\ row'.lease = row.lease
      BY <1>2, <1>4, <1>11, <2>1
  <2> QED BY <2>1, <2>2, <2>3 DEF KeepsClaim
<1>20. CASE ProcessUrl(e)
  <2>1. PICK u \in exec[e].todo, limit \in BOOLEAN :
          Become(e, [exec[e] EXCEPT !.pc = "record", !.todo = @ \ {u}, !.limited = limit])
      BY <1>2, <1>20 DEF ProcessUrl
  <2> DEFINE x == [exec[e] EXCEPT !.pc = "record", !.todo = exec[e].todo \ {u},
                                  !.limited = limit]
  <2>2. Become(e, x) /\ exec[e].pc \in Working /\ row' = row
      BY <1>6, <1>20, <2>1 DEF ProcessUrl
  <2>3. x.pc = "record" /\ x.msg = 1 /\ x.tok = exec[e].tok /\ x.copy = exec[e].copy
      BY <1>1, <1>2 DEF Execution
  <2>4. Worker(x)
      BY <1>3, <1>4, <2>2, <2>3 DEF Worker
  <2> HIDE DEF x
  <2>5. Exec1 /\ exec'[e].pc # "claim"
      BY <1>1, <1>10, <2>2, <2>3, <2>4
  <2> QED BY <1>2, <2>2, <2>5 DEF KeepsClaim
<1>21. CASE RecordUrl(e)
  <2> DEFINE x == [exec[e] EXCEPT !.pc = NextPc(exec[e]), !.gated = TRUE,
                                  !.copy = WriteSummary(exec[e].copy, row)]
  <2>1. exec[e].pc \in Working /\ exec[e].tok = 1 /\ Holds(1)
      BY <1>2, <1>3, <1>4, <1>6, <1>21 DEF RecordUrl, Worker, Holds
  <2>2. row' = row \/ row' = [row EXCEPT !.owner = 1, !.lease = "live", !.heard = TRUE]
      BY <1>21, <2>1 DEF RecordUrl, Leased
  <2>3. Row1 /\ row'.status = row.status /\ row'.owner = row.owner /\ row'.lease = row.lease
      BY <1>1, <1>2, <1>3, <2>1, <2>2 DEF Row
  <2>4. Goto(e, NextPc(exec[e])) \/ Become(e, x)
      BY <1>1, <1>21, <2>1 DEF RecordUrl
  <2>5. /\ x.pc = NextPc(exec[e]) /\ x.msg = 1 /\ x.tok = exec[e].tok
        /\ x.copy = WriteSummary(exec[e].copy, row)
      BY <1>1, <1>2 DEF Execution
  <2>6. Worker(x)
      BY <1>5, <1>7, <2>1, <2>5 DEF Worker
  <2> HIDE DEF x
  <2>7. CASE Become(e, x)
    <3>1. Exec1 /\ exec'[e].pc # "claim"
        BY <1>1, <1>5, <1>10, <2>5, <2>6, <2>7
    <3> QED BY <2>1, <2>3, <3>1 DEF KeepsClaim
  <2>8. CASE Goto(e, NextPc(exec[e]))
    <3>1. Exec1 /\ exec'[e].pc # "claim"
        BY <1>4, <1>5, <1>6, <1>9, <2>1, <2>8
    <3> QED BY <2>1, <2>3, <3>1 DEF KeepsClaim
  <2> QED BY <2>4, <2>7, <2>8
<1>22. CASE FinalCheckpoint(e)
  <2>1. exec[e].pc \in Working /\ Goto(e, "finish") /\ row' = row
      BY <1>2, <1>3, <1>6, <1>22 DEF FinalCheckpoint, Terminal
  <2>2. Exec1 /\ exec'[e].pc # "claim"
      BY <1>4, <1>6, <1>9, <2>1
  <2> QED BY <1>2, <2>1, <2>2 DEF KeepsClaim
<1>23. CASE Finish(e)
  <2>1. exec[e].pc \in Working /\ exec[e].tok = 1 /\ Holds(1) /\ row.status = "running"
      BY <1>2, <1>3, <1>4, <1>6, <1>23 DEF Finish, Worker, Holds
  <2>2. CanMove(row.status, "completed")
      BY <2>1 DEF CanMove, Allowed, Terminal
  <2>3. /\ row' = [Released(row) EXCEPT !.status = "completed", !.verdict = "final"]
        /\ Goto(e, "exit")
      BY <1>23, <2>1, <2>2 DEF Finish
  <2>4. Released(row) \in Row /\ Released(row).token = 1 /\ Released(row).control = "none"
      BY <1>1, <1>2 DEF Released, Row, NoToken
  <2>5. Row1 /\ row'.status = "completed"
      BY <2>3, <2>4 DEF Row
  <2>6. Exec1 /\ exec'[e].pc \in {"exit", "idle"}
      BY <1>4, <1>9, <2>1, <2>3
  <2> QED BY <1>4, <2>1, <2>5, <2>6 DEF EndsRun
<1>24. CASE FailLoad(e)
  <2> DEFINE x == [exec[e] EXCEPT
                     !.pc = IF exec[e].pc = "fail" THEN "failwrite" ELSE "refailwrite",
                     !.copy = Loaded(row)]
  <2>1. Become(e, x) /\ exec[e].pc \in Working /\ row' = row
      BY <1>1, <1>2, <1>6, <1>24 DEF FailLoad
  <2>2. /\ x.pc \in {"failwrite", "refailwrite"} /\ x.msg = 1 /\ x.tok = exec[e].tok
        /\ x.copy = Loaded(row)
      BY <1>1, <1>2 DEF Execution
  <2>3. Worker(x)
      BY <1>3, <1>4, <1>7, <2>1, <2>2 DEF Worker
  <2> HIDE DEF x
  <2>4. Exec1 /\ exec'[e].pc # "claim"
      BY <1>1, <1>10, <2>1, <2>2, <2>3
  <2> QED BY <1>2, <2>1, <2>4 DEF KeepsClaim
<1>25. CASE FailWrite(e)
  <2> DEFINE failed == [exec[e].copy EXCEPT !.verdict = "error"]
             failedRow == [row EXCEPT !.status = "failed"]
  <2>1. /\ exec[e].pc \in Working /\ exec[e].copy.status = "running"
        /\ exec[e].copy.token = 1 /\ exec[e].copy.control = "none"
      BY <1>3, <1>4, <1>6, <1>25 DEF FailWrite, Worker
  <2>2. /\ "running" \notin Terminal /\ CanMove("running", "failed")
      BY DEF Terminal, CanMove, Allowed
  <2>3. row' = WriteSummary(failedRow, failed)
      BY <1>2, <1>25, <2>1, <2>2 DEF FailWrite
  <2>4. Goto(e, "exit")
      BY <1>25, <2>1, <2>2 DEF FailWrite
  <2>5. Row1 /\ row'.status = "failed"
      BY <1>1, <2>1, <2>3 DEF WriteSummary, Row, Copy
  <2>6. Exec1 /\ exec'[e].pc \in {"exit", "idle"}
      BY <1>4, <1>9, <2>1, <2>4
  <2> QED BY <1>4, <2>1, <2>5, <2>6 DEF EndsRun
<1>26. CASE Breaks(e)
  <2>1. exec[e].pc \in Working /\ row' = row
      BY <1>26 DEF Breaks
  <2>2. PICK p \in {"fail", "refail", "exit"} : Goto(e, p)
      BY <1>26 DEF Breaks
  <2>3. Exec1 /\ exec'[e].pc # "claim"
      BY <1>4, <1>6, <1>9, <2>1, <2>2
  <2> QED BY <1>2, <2>1, <2>3 DEF KeepsClaim
<1>27. CASE Exit(e) \/ CancelLands(e) \/ WorkerLost(e)
  <2>1. exec'[e] = IdleExec /\ row' = row
      BY <1>1, <1>27 DEF Exit, CancelLands, WorkerLost
  <2> QED BY <1>1, <1>2, <1>4, <2>1 DEF KeepsClaim, Worker
<1>28. CASE Redeliver(e)
    BY <1>2, <1>3, <1>28 DEF Redeliver, KeepsClaim
<1>29. CASE CancelSwallowed(e)
  <2>1. /\ exec'[e].pc = "url" /\ exec[e].pc = "url" /\ exec'[e].msg = exec[e].msg
        /\ exec'[e].tok = exec[e].tok /\ exec'[e].copy = exec[e].copy /\ row' = row
      BY <1>1, <1>29 DEF CancelSwallowed, Execution
  <2> QED BY <1>2, <1>3, <2>1 DEF KeepsClaim, Worker
<1>30. ~Terminated(e)
    BY <1>2 DEF Terminated
<1> QED BY <1>12, <1>13, <1>14, <1>15, <1>16, <1>17, <1>18, <1>19, <1>20, <1>21, <1>22,
           <1>23, <1>24, <1>25, <1>26, <1>27, <1>28, <1>29, <1>30
        DEF ExecutionStep, ExecStep, ExecAction

\* So no execution disturbs another.
LEMMA UnattendedExecution ==
    ASSUME Unattended, TypeOK, UnattendedInv, NEW e \in Executors, ExecutionStep(e)
    PROVE  UnattendedInv'
<1>1. /\ KeepsClaim(e) \/ TakesClaim(e) \/ EndsRun(e)
      /\ row'.token = 1 /\ row'.control = "none"
      /\ exec'[e].pc # "idle" => exec'[e].msg = 1
      /\ Worker(exec'[e])
      /\ exec'[e].pc = "claim" /\ exec'[e].copy.status = "running" => row'.status # "pending"
    BY UnattendedWork
<1>2. /\ exec[e].pc # "idle" /\ exec[e].msg = 1
      /\ \A f \in Executors \ {e} : exec'[f] = exec[f]
    BY ExecutionMoves DEF UnattendedInv, OneToken
<1>3. DispatchOnce'
  <2>1. \A c \in Clients : client[c].pc = "idle"
      BY <1>2 DEF UnattendedInv, DispatchOnce
  <2>2. client' = client /\ requests' = requests /\ revoked' = revoked
      BY DEF ExecutionStep, ExecStep, ExecAction, Load, Claim, Resolve, Merge, Seed, Checkpoint,
          ApplyControl, SetStage, ProcessUrl, RecordUrl, FinalCheckpoint, Finish, FailLoad,
          FailWrite, Exit, CancelLands, CancelSwallowed, Breaks, WorkerLost, Redeliver,
          Terminated
  <2> QED BY <2>1, <2>2 DEF UnattendedInv, DispatchOnce
<1>4. OneToken'
  <2>1. queue' \in {queue, queue \cup {1}}
      BY <1>2 DEF ExecutionStep, ExecStep, ExecAction, Load, Claim, Resolve, Merge, Seed, Checkpoint,
          ApplyControl, SetStage, ProcessUrl, RecordUrl, FinalCheckpoint, Finish, FailLoad,
          FailWrite, Exit, CancelLands, CancelSwallowed, Breaks, WorkerLost, Redeliver,
          Terminated
  <2>2. row'.status \in {"pending", "running", "completed", "failed"}
      BY <1>1 DEF KeepsClaim, TakesClaim, EndsRun, UnattendedInv, OneToken
  <2>3. \A f \in Executors : exec'[f].pc # "idle" => exec'[f].msg = 1
      BY <1>1, <1>2 DEF UnattendedInv, OneToken
  <2> QED BY <1>1, <2>1, <2>2, <2>3 DEF UnattendedInv, OneToken
<1>5. OneWorker'
  <2>1. \A f \in Executors : Worker(exec'[f])
      BY <1>1, <1>2 DEF UnattendedInv, OneWorker
  <2>2. ASSUME NEW f \in Executors, exec'[f].pc = "claim", exec'[f].copy.status = "running"
        PROVE  row'.status # "pending"
    <3>1. CASE f = e
        BY <1>1, <2>2, <3>1
    <3>2. CASE f # e
        BY <1>1, <1>2, <2>2, <3>2 DEF KeepsClaim, TakesClaim, EndsRun, UnattendedInv, OneWorker
    <3> QED BY <3>1, <3>2
  <2>3. ASSUME NEW f \in Executors, exec'[f].pc \in Working
        PROVE  row'.status = "running" /\ row'.owner = 1 /\ row'.lease = "live"
    <3>1. CASE KeepsClaim(e)
        BY <1>2, <2>3, <3>1 DEF KeepsClaim, UnattendedInv, OneWorker
    <3>2. CASE TakesClaim(e)
        BY <3>2 DEF TakesClaim
    <3>3. CASE EndsRun(e)
        BY <1>2, <2>3, <3>3 DEF EndsRun, UnattendedInv, OneWorker
    <3> QED BY <1>1, <3>1, <3>2, <3>3
  <2>4. ASSUME NEW f \in Executors, NEW g \in Executors,
               exec'[f].pc \in Working, exec'[g].pc \in Working
        PROVE  f = g
    <3>1. CASE KeepsClaim(e)
        BY <1>2, <2>4, <3>1 DEF KeepsClaim, UnattendedInv, OneWorker
    <3>2. CASE TakesClaim(e)
      <4>1. \A h \in Executors : exec[h].pc \notin Working
          BY <3>2 DEF TakesClaim, MayClaim, UnattendedInv, OneWorker
      <4> QED BY <1>2, <2>4, <4>1
    <3>3. CASE EndsRun(e)
        BY <1>2, <2>4, <3>3 DEF EndsRun, UnattendedInv, OneWorker
    <3> QED BY <1>1, <3>1, <3>2, <3>3
  <2> QED BY <2>1, <2>2, <2>3, <2>4 DEF OneWorker
<1>6. AllFresh'
  <2>1. exec'[e].pc \in WithItems => exec'[e].todo \cap saved' = {}
      BY ItemSteps DEF UnattendedInv, AllFresh, FreshItems
  <2>2. \A p \in WithItems : p \in Working
      BY DEF WithItems, Working
  <2>3. saved' = saved \/ exec[e].pc = "url"
      BY DEF ExecutionStep, ExecStep, ExecAction, Load, Claim, Resolve, Merge, Seed, Checkpoint,
          ApplyControl, SetStage, ProcessUrl, RecordUrl, FinalCheckpoint, Finish, FailLoad,
          FailWrite, Exit, CancelLands, CancelSwallowed, Breaks, WorkerLost, Redeliver,
          Terminated
  <2>4. ASSUME NEW f \in Executors \ {e}, exec'[f].pc \in WithItems
        PROVE  exec'[f].todo \cap saved' = {}
    <3>1. exec[f].pc \in Working /\ exec'[f] = exec[f]
        BY <1>2, <2>2, <2>4
    <3>2. exec[e].pc # "url"
        BY <3>1 DEF UnattendedInv, OneWorker, Working, Looping
    <3> QED BY <2>3, <2>4, <3>1, <3>2 DEF UnattendedInv, AllFresh, FreshItems
  <2> QED BY <2>1, <2>4 DEF AllFresh, FreshItems
<1> QED BY <1>3, <1>4, <1>5, <1>6 DEF UnattendedInv

\* Deliveries, expiring leases and a backend crash.
LEMMA UnattendedEnvironment ==
    ASSUME Unattended, TypeOK, UnattendedInv,
           Deliver \/ ExpireLease \/ AgeHeartbeat \/ BackendCrash
    PROVE  UnattendedInv'
<1>1. /\ exec \in [Executors -> Execution] /\ row \in Row
      /\ IdleExec.pc = "idle" /\ IdleExec \in Execution /\ IdleClient.pc = "idle"
    BY IdleType DEF TypeOK
<1>2. "idle" \notin Working /\ "load" \notin Working /\ "idle" \notin WithItems
      /\ "load" \notin WithItems /\ "load" \notin Claimant
    BY DEF Working, Looping, Failing, WithItems, Claimant
<1>3. ASSUME NEW m \in queue, NEW f \in Executors, Receive(f, m)
      PROVE  UnattendedInv'
  <2>1. /\ m = 1 /\ row.token = 1 /\ \A c \in Clients : client[c].pc = "idle"
        /\ queue' \subseteq queue
      BY <1>3 DEF Receive, UnattendedInv, OneToken, DispatchOnce
  <2>2. exec' = [exec EXCEPT ![f] = [IdleExec EXCEPT !.pc = "load", !.msg = 1]]
        /\ row' = row /\ saved' = saved /\ client' = client /\ requests' = requests
        /\ revoked' = revoked /\ lastToken' = lastToken
      BY <1>3, <2>1 DEF Receive
  <2>3. /\ exec'[f].pc = "load" /\ exec'[f].msg = 1
        /\ \A e \in Executors \ {f} : exec'[e] = exec[e]
      BY <1>1, <2>2 DEF Execution
  <2>4. DispatchOnce'
      BY <2>1, <2>2 DEF UnattendedInv, DispatchOnce
  <2>5. OneToken'
      BY <2>1, <2>2, <2>3 DEF UnattendedInv, OneToken
  <2>6. OneWorker'
      BY <1>2, <2>2, <2>3 DEF UnattendedInv, OneWorker, Worker
  <2>7. AllFresh'
      BY <1>2, <2>2, <2>3 DEF UnattendedInv, AllFresh, FreshItems
  <2> QED BY <2>4, <2>5, <2>6, <2>7 DEF UnattendedInv
<1>4. \A m \in queue : ~Discard(m)
    BY DEF Discard, UnattendedInv, DispatchOnce
<1>5. CASE ExpireLease
  <2>1. row.lease = "live" /\ \A e \in Executors : exec[e].pc \in Working => exec[e].tok # row.owner
      BY <1>5 DEF ExpireLease, Unattended
  <2>2. \A e \in Executors : exec[e].pc \notin Working
      BY <2>1 DEF UnattendedInv, OneWorker, Worker, Claimant
  <2>3. /\ row'.status = row.status /\ row'.token = row.token /\ row'.control = row.control
        /\ exec' = exec /\ saved' = saved /\ client' = client /\ requests' = requests
        /\ revoked' = revoked /\ lastToken' = lastToken /\ queue' = queue
      BY <1>1, <1>5 DEF ExpireLease, Row
  <2>4. DispatchOnce'
      BY <2>1, <2>3 DEF UnattendedInv, DispatchOnce
  <2>5. OneToken'
      BY <2>3 DEF UnattendedInv, OneToken
  <2>6. OneWorker'
      BY <2>2, <2>3 DEF UnattendedInv, OneWorker
  <2>7. AllFresh'
      BY <2>3 DEF UnattendedInv, AllFresh, FreshItems
  <2> QED BY <2>4, <2>5, <2>6, <2>7 DEF UnattendedInv
<1>6. ~AgeHeartbeat
    BY DEF AgeHeartbeat, Unattended
<1>7. CASE BackendCrash
    BY <1>1, <1>7 DEF BackendCrash, Unattended, UnattendedInv, DispatchOnce, OneToken,
                      OneWorker, AllFresh, FreshItems
<1> QED BY <1>3, <1>4, <1>5, <1>6, <1>7 DEF Deliver

\* The invariant, of every behaviour without operator requests.
LEMMA UnattendedInvHolds ==
    ASSUME Unattended
    PROVE  Spec => []UnattendedInv
<1>1. Init => UnattendedInv
  <2> SUFFICES ASSUME Init PROVE UnattendedInv
      OBVIOUS
  <2>1. /\ row = NewRow /\ saved = {} /\ exec = [e \in Executors |-> IdleExec]
        /\ queue = {} /\ revoked = {} /\ lastToken = 0 /\ requests = 0
      BY DEF Init
  <2>2. PICK c \in Clients :
          client = [d \in Clients |-> IF d = c THEN [IdleClient EXCEPT !.pc = "refresh"]
                                               ELSE IdleClient]
      BY DEF Init
  <2>3. \A d \in Clients : client[d].pc = IF d = c THEN "refresh" ELSE "idle"
      BY <2>2, IdleType DEF Client
  <2>4. DispatchOnce
      BY <2>1, <2>3, IdleType DEF DispatchOnce, NewRow
  <2>5. OneToken
      BY <2>1, IdleType DEF OneToken, NewRow
  <2>6. OneWorker /\ AllFresh
      BY <2>1, IdleType DEF OneWorker, Worker, AllFresh, FreshItems, Claimant, Working, WithItems,
                            Looping, Failing
  <2> QED BY <2>4, <2>5, <2>6 DEF UnattendedInv
<1>2. TypeOK /\ UnattendedInv /\ [Next]_vars => UnattendedInv'
  <2> SUFFICES ASSUME TypeOK, UnattendedInv, [Next]_vars PROVE UnattendedInv'
      OBVIOUS
  <2>1. CASE UNCHANGED vars
      BY <2>1 DEF vars, UnattendedInv, DispatchOnce, OneToken, OneWorker, AllFresh, FreshItems
  <2>2. CASE Next
      BY <2>2, UnattendedRequest, UnattendedExecution, UnattendedEnvironment
         DEF Next, RequestStep, ExecutionStep
  <2> QED BY <2>1, <2>2
<1> QED BY <1>1, <1>2, TypeCorrect, PTL DEF Spec

-----------------------------------------------------------------------------
(* What it gives *)

\* However often the task is delivered, one execution at a time works under its
\* token: claim_run refuses the others.
THEOREM RedeliveryRunsOnce ==
    ASSUME Unattended
    PROVE  Spec => []OneExecutionPerToken
<1>1. UnattendedInv => OneExecutionPerToken
    BY DEF UnattendedInv, OneWorker, OneExecutionPerToken
<1> QED BY <1>1, UnattendedInvHolds, PTL

\* A takeover after a lost worker computes its items from the result rows, and
\* nobody saves one of them behind its back.
THEOREM RedeliveryFreshWork ==
    ASSUME Unattended
    PROVE  Spec => []FreshWork
<1>1. UnattendedInv => FreshWork
    BY DEF UnattendedInv, AllFresh, FreshItems, FreshWork, WithItems
<1> QED BY <1>1, UnattendedInvHolds, PTL

\* No delivery, late or repeated, reopens or overwrites a run that has ended.
THEOREM RedeliveryTerminalStays ==
    ASSUME Unattended
    PROVE  Spec => TerminalStays
<1> DEFINE Stays == row.status \in Terminal => row'.status \in {row.status, "gone"}
<1>1. TypeOK /\ UnattendedInv /\ [Next]_vars => [Stays]_vars
  <2> SUFFICES ASSUME TypeOK, UnattendedInv, Next, row.status \in Terminal
               PROVE  row'.status = row.status
      OBVIOUS
  <2>1. row \in Row
      BY DEF TypeOK
  <2>2. ASSUME NEW c \in Clients, RequestStep(c)
        PROVE  row'.status = row.status
    <3>1. \/ Refresh(c) \/ DispatchRefused(c) \/ Enqueue(c) \/ Dispatch(c) \/ EnqueueFails(c)
        BY <2>2 DEF UnattendedInv, DispatchOnce, OneToken, Gone, RequestStep, ClientStep,
            Request, RecoverSelect, RecoverClear, RecoverLoad, RecoverCommit, ControlFails,
            Pause, Resume, Kill, Delete, ClientAborts, SweepSelect, SweepClear, SweepCommit,
            Launch, Unattended
    <3>2. ASSUME NEW t, row' = Flush(Loaded(row), [Loaded(row) EXCEPT !.token = t])
          PROVE  row'.status = row.status
        BY <2>1, <3>2 DEF Flush, WriteSummary, Loaded, Row
    <3>3. Dispatch(c) \/ EnqueueFails(c) => client[c].copy = Loaded(row)
        BY DEF Dispatch, EnqueueFails, UnattendedInv, DispatchOnce
    <3> QED BY <3>1, <3>2, <3>3 DEF Refresh, DispatchRefused, Enqueue, Dispatch, EnqueueFails
  <2>3. ASSUME NEW e \in Executors, ExecutionStep(e)
        PROVE  row'.status = row.status
    <3>1. exec[e].pc \notin Working
        BY DEF UnattendedInv, OneWorker, Terminal
    <3> QED BY <2>3, <3>1, UnattendedWork
            DEF KeepsClaim, TakesClaim, EndsRun, MayClaim, Claimable, Terminal
  <2>4. CASE Deliver \/ ExpireLease \/ AgeHeartbeat \/ BackendCrash
      BY <2>1, <2>4 DEF Deliver, Receive, Discard, ExpireLease, AgeHeartbeat, BackendCrash, Row
  <2> QED BY <2>2, <2>3, <2>4 DEF Next, RequestStep, ExecutionStep
<1> QED BY <1>1, TypeCorrect, UnattendedInvHolds, PTL DEF Spec, TerminalStays
=============================================================================
