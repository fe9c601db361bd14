----------------------- MODULE BatchExecutionProofs -----------------------
(* What holds of BatchExecution for every set of workers, number of URLs and *)
(* size of the queue.                                                       *)
EXTENDS BatchExecution, FiniteSetTheorems, TLAPS

-----------------------------------------------------------------------------
(* The inductive invariant *)

Busy == {"open", "crawl", "put"}

\* What a worker holds is one of the URLs taken; a worker that ran to its end holds
\* nothing and ended for one of the two reasons of the loop's head.
HandsInv == \A w \in Workers :
    /\ worker[w].pc \in Busy => worker[w].url \in 1 .. started
    /\ worker[w].pc \in {"begin", "done"} => worker[w].url = NoUrl
    /\ worker[w].pc = "done" => stop \/ started = Total

\* As long as execute judges what arrives, nothing has been stopped or cancelled;
\* past that point the stop event is set.
Judging == \/ main.pc \in {"head", "wait", "check"}
           \/ main.pc = "record" /\ main.then = "judge"
Untouched == ~stop /\ \A w \in Workers : ~worker[w].cancel /\ worker[w].pc # "cancelled"
StopInv ==
    /\ Judging => Untouched
    /\ ~Judging /\ main.pc # "end" => stop
    /\ main.reason # "none" => stop

\* No URL that was taken is lost but by an error.
PlacedInv ==
    main.pc # "abort" /\ outcome # "raised" =>
        1 .. started \subseteq recorded \cup dropped \cup queue \cup {main.url} \cup InHand

EndInv ==
    /\ main.url # NoUrl <=> main.pc = "record"
    /\ main.pc = "end" <=> outcome # "none"
    /\ \/ main.pc \in {"apply", "end"}
       \/ main.pc = "record" /\ main.then = "leave"
       => AllEnded
    /\ main.pc = "apply" \/ outcome \in {"finished", "stopped"} => queue = {}

IInv == TypeOK /\ HandsInv /\ StopInv /\ PlacedInv /\ EndInv /\ FinishedCoversWork

-----------------------------------------------------------------------------
(* The queue *)

\* Taking a result leaves a queue within its size.
LEMMA QueueShrinks ==
    ASSUME TypeOK, NEW u
    PROVE  /\ queue \ {u} \subseteq Urls
           /\ Cardinality(queue \ {u}) <= QueueSize
<1>1. IsFiniteSet(Urls)
    BY FS_Interval, SizeAssumption DEF Urls
<1>2. IsFiniteSet(queue)
    BY <1>1, FS_Subset DEF TypeOK
<1>3. /\ Cardinality(queue \ {u}) <= Cardinality(queue)
      /\ Cardinality(queue) \in Nat /\ Cardinality(queue \ {u}) \in Nat
    BY <1>2, FS_Subset, FS_CardinalityType, FS_RemoveElement
<1> QED BY <1>3, SizeAssumption DEF TypeOK

\* Putting one where there is room does too.
LEMMA QueueGrows ==
    ASSUME TypeOK, Room, NEW u \in Urls
    PROVE  /\ queue \cup {u} \subseteq Urls
           /\ Cardinality(queue \cup {u}) <= QueueSize
<1>1. IsFiniteSet(Urls)
    BY FS_Interval, SizeAssumption DEF Urls
<1>2. IsFiniteSet(queue)
    BY <1>1, FS_Subset DEF TypeOK
<1>3. Cardinality(queue) \in Nat
    BY <1>2, FS_CardinalityType
<1>4. Cardinality(queue \cup {u}) \in {Cardinality(queue), Cardinality(queue) + 1}
    BY <1>2, FS_AddElement
<1> QED BY <1>3, <1>4, SizeAssumption DEF TypeOK, Room

-----------------------------------------------------------------------------
(* The steps of execute *)

\* What a step of execute leaves alone while it chooses its next move.
Around ==
    /\ row' \in Row /\ started' = started
    /\ recorded \subseteq recorded' /\ recorded' \subseteq Urls
    /\ dropped \subseteq dropped' /\ dropped' \subseteq Urls
    /\ enough' \in BOOLEAN /\ faults' \in 0 .. MaxFaults

\* The result in hand, if any, has been recorded or dropped.
Accounted == main.url \in {NoUrl} \cup recorded' \cup dropped'

\* Cancelling changes neither where the workers are nor what they hold.
LEMMA CancelAllEffect ==
    ASSUME TypeOK, CancelAll
    PROVE  /\ worker' \in [Workers -> Worker]
           /\ \A w \in Workers : worker'[w].pc = worker[w].pc /\ worker'[w].url = worker[w].url
           /\ InHand' = InHand
           /\ AllEnded' = AllEnded
<1>1. \A w \in Workers : worker[w] \in Worker
    BY DEF TypeOK
<1>2. \A w \in Workers :
        worker'[w] = [worker[w] EXCEPT !.cancel = worker[w].pc \notin Ended]
    BY DEF CancelAll
<1>3. \A w \in Workers : /\ worker'[w] \in Worker
                         /\ worker'[w].pc = worker[w].pc /\ worker'[w].url = worker[w].url
    BY <1>1, <1>2 DEF Worker
<1>4. worker' \in [Workers -> Worker]
    BY <1>3 DEF CancelAll
<1>5. InHand' = InHand
    BY <1>3 DEF InHand
<1>6. AllEnded' = AllEnded
    BY <1>3 DEF AllEnded
<1> QED BY <1>3, <1>4, <1>5, <1>6

\* An error sets the stop event and cancels; what was in hand may be lost.
LEMMA AbortKeeps ==
    ASSUME IInv, outcome = "none", Around, Abort
    PROVE  IInv'
<1> USE DEF IInv
<1>1. /\ stop' = TRUE /\ CancelAll /\ queue' = queue /\ outcome' = outcome
      /\ main' = [main EXCEPT !.pc = "abort", !.url = NoUrl]
    BY DEF Abort, GoTo
<1>2. /\ main' \in Main /\ main'.pc = "abort" /\ main'.url = NoUrl
      /\ main'.reason = main.reason
    BY <1>1 DEF TypeOK, Main, NoUrl
<1>3. TypeOK'
    BY <1>1, <1>2, CancelAllEffect DEF TypeOK, Around
<1>4. HandsInv'
    BY <1>1, CancelAllEffect DEF HandsInv, Around
<1>5. StopInv' /\ PlacedInv'
    BY <1>1, <1>2 DEF StopInv, PlacedInv, Judging
<1>6. EndInv' /\ FinishedCoversWork'
    BY <1>1, <1>2 DEF EndInv, FinishedCoversWork
<1> QED BY <1>3, <1>4, <1>5, <1>6

\* Judging what arrived either raises a worker's error or goes on to the checkpoint.
LEMMA JudgeKeeps ==
    ASSUME IInv, outcome = "none", Around, Accounted, Untouched, main.pc # "abort", Judge
    PROVE  IInv'
<1>1. CASE SomeFailed
    BY <1>1, AbortKeeps DEF Judge
<1>2. CASE ~SomeFailed
    <2> USE DEF IInv
    <2>1. /\ worker' = worker /\ queue' = queue /\ stop' = stop /\ outcome' = outcome
          /\ main' = [main EXCEPT !.pc = "check", !.url = NoUrl]
        BY <1>2 DEF Judge, GoTo
    <2>2. /\ main' \in Main /\ main'.pc = "check" /\ main'.url = NoUrl
          /\ main'.reason = main.reason
        BY <2>1 DEF TypeOK, Main, NoUrl
    <2>3. TypeOK'
        BY <2>1, <2>2 DEF TypeOK, Around
    <2>4. HandsInv'
        BY <2>1 DEF HandsInv, Around
    <2>5. StopInv'
        BY <2>1, <2>2 DEF StopInv, Judging, Untouched
    <2>6. PlacedInv'
        BY <2>1, <2>2 DEF PlacedInv, Around, Accounted, InHand
    <2>7. EndInv' /\ FinishedCoversWork'
        BY <2>1, <2>2 DEF EndInv, FinishedCoversWork
    <2> QED BY <2>3, <2>4, <2>5, <2>6, <2>7
<1> QED BY <1>1, <1>2

\* Taking the next result: before the decision to stop nothing is stopped, after it
\* the stop event is set.
LEMMA TakeKeeps ==
    ASSUME IInv, outcome = "none", Around, Accounted, main.pc # "abort",
           NEW then \in {"judge", "join", "leave"}, NEW reason \in Reasons,
           Take(then, reason), UNCHANGED <<worker, outcome>>,
           stop' \in BOOLEAN, stop => stop', stop' <=> then # "judge",
           then = "judge" => Untouched, reason # "none" => stop',
           then = "leave" => AllEnded
    PROVE  IInv'
<1> USE DEF IInv
<1> PICK u \in queue :
        /\ queue' = queue \ {u}
        /\ main' = [pc |-> "record", url |-> u, then |-> then, reason |-> reason]
    BY DEF Take
<1>1. u \in Urls /\ u # NoUrl
    BY DEF TypeOK, Urls, NoUrl
<1>2. TypeOK'
    BY <1>1, QueueShrinks DEF TypeOK, Around, Main
<1>3. HandsInv'
    BY DEF HandsInv, Around
<1>4. StopInv'
    BY DEF StopInv, Judging, Untouched
<1>5. PlacedInv'
    <2>1. NoUrl \notin 1 .. started
        BY DEF NoUrl, TypeOK
    <2> QED BY <2>1 DEF PlacedInv, Around, Accounted, InHand
<1>6. EndInv' /\ FinishedCoversWork'
    BY <1>1 DEF EndInv, FinishedCoversWork, AllEnded
<1> QED BY <1>2, <1>3, <1>4, <1>5, <1>6

\* The cancellation of an orderly stop.
LEMMA JoinKeeps ==
    ASSUME IInv, outcome = "none", Around, Accounted, main.pc # "abort",
           NEW reason \in Reasons, Join(reason)
    PROVE  IInv'
<1> USE DEF IInv
<1>1. /\ stop' = TRUE /\ CancelAll /\ queue' = queue /\ outcome' = outcome
      /\ main' = [pc |-> "join", url |-> NoUrl, then |-> "leave", reason |-> reason]
    BY DEF Join
<1>2. TypeOK'
    BY <1>1, CancelAllEffect DEF TypeOK, Around, Main, NoUrl
<1>3. HandsInv'
    BY <1>1, CancelAllEffect DEF HandsInv, Around
<1>4. StopInv'
    BY <1>1 DEF StopInv, Judging
<1>5. PlacedInv'
    BY <1>1, CancelAllEffect DEF PlacedInv, Around, Accounted
<1>6. EndInv' /\ FinishedCoversWork'
    BY <1>1 DEF EndInv, FinishedCoversWork
<1> QED BY <1>2, <1>3, <1>4, <1>5, <1>6

\* The return from an orderly stop, with every worker ended and every result taken.
LEMMA LeaveKeeps ==
    ASSUME IInv, outcome = "none", Around, Accounted, main.pc # "abort",
           NEW reason \in Reasons, Leave(reason), UNCHANGED <<worker, queue, stop>>,
           ~Queued, AllEnded, stop
    PROVE  IInv'
<1> USE DEF IInv
<1>1. HandsInv' /\ AllEnded' /\ InHand' = InHand /\ queue' = {}
    BY DEF HandsInv, Around, AllEnded, InHand, Queued
<1>2. CASE reason \in {"pause", "kill"}
    <2>1. /\ outcome' = outcome
          /\ main' = [main EXCEPT !.pc = "apply", !.url = NoUrl, !.reason = reason]
        BY <1>2 DEF Leave
    <2>2. main' \in Main /\ main'.pc = "apply" /\ main'.url = NoUrl
        BY <2>1 DEF TypeOK, Main, NoUrl
    <2>3. TypeOK'
        BY <2>1, <2>2 DEF TypeOK, Around
    <2>4. StopInv' /\ EndInv' /\ FinishedCoversWork'
        BY <1>1, <2>1, <2>2 DEF StopInv, Judging, EndInv, FinishedCoversWork
    <2>5. PlacedInv'
        BY <1>1, <2>1, <2>2 DEF PlacedInv, Around, Accounted
    <2> QED BY <1>1, <2>3, <2>4, <2>5
<1>3. CASE reason \notin {"pause", "kill"}
    <2>1. outcome' = "stopped" /\ main' = [main EXCEPT !.pc = "end", !.url = NoUrl]
        BY <1>3 DEF Leave, End, GoTo
    <2>2. main' \in Main /\ main'.pc = "end" /\ main'.url = NoUrl
        BY <2>1 DEF TypeOK, Main, NoUrl
    <2>3. TypeOK'
        BY <2>1, <2>2 DEF TypeOK, Around, Outcomes
    <2>4. StopInv' /\ EndInv' /\ FinishedCoversWork'
        BY <1>1, <2>1, <2>2 DEF StopInv, Judging, EndInv, FinishedCoversWork
    <2>5. PlacedInv'
        BY <1>1, <2>1, <2>2 DEF PlacedInv, Around, Accounted
    <2> QED BY <1>1, <2>3, <2>4, <2>5
<1> QED BY <1>2, <1>3

\* Draining the queue, whatever follows it.
LEMMA DrainKeeps ==
    ASSUME IInv, outcome = "none", Around, Accounted, main.pc # "abort",
           NEW then \in {"judge", "join", "leave"}, NEW reason \in Reasons,
           Drain(then, reason),
           then = "judge" => Untouched /\ reason = "none",
           then = "leave" => AllEnded /\ stop
    PROVE  IInv'
<1>1. CASE /\ Queued /\ Take(then, reason)
           /\ stop' = (stop \/ then # "judge")
           /\ UNCHANGED <<worker, outcome>>
    BY <1>1, TakeKeeps DEF IInv, TypeOK, Untouched
<1>2. CASE ~Queued /\ then = "judge" /\ Judge
    BY <1>2, JudgeKeeps
<1>3. CASE ~Queued /\ then = "join" /\ Join(reason)
    BY <1>3, JoinKeeps
<1>4. CASE ~Queued /\ then = "leave" /\ Leave(reason) /\ UNCHANGED <<worker, queue, stop>>
    BY <1>4, LeaveKeeps
<1> QED BY <1>1, <1>2, <1>3, <1>4 DEF Drain

\* Where execute may look at the loop's condition with all workers ended and none of
\* them failed, the whole list has been taken and recorded.
LEMMA LoopOverCovers ==
    ASSUME IInv, At("head"), LoopOver, ~SomeFailed
    PROVE  recorded \cup dropped = Urls
<1> USE DEF IInv
<1>1. Untouched /\ queue = {} /\ main.url = NoUrl
    BY DEF StopInv, Judging, EndInv, At, LoopOver, Queued
<1>2. \A w \in Workers : worker[w].pc = "done"
    BY <1>1 DEF LoopOver, AllEnded, Ended, SomeFailed, Untouched
<1>3. started = Total /\ \A w \in Workers : worker[w].url = NoUrl
    BY <1>1, <1>2, PoolAssumption DEF HandsInv, Untouched
<1>4. 1 .. Total \subseteq recorded \cup dropped \cup {NoUrl}
    BY <1>1, <1>3 DEF PlacedInv, InHand, At
<1>5. NoUrl \notin 1 .. Total
    BY SizeAssumption DEF NoUrl
<1> QED BY <1>4, <1>5 DEF TypeOK, Urls

\* Outside "record" execute holds no result.
LEMMA NothingHeld ==
    ASSUME IInv, main.pc # "record"
    PROVE  Accounted
BY DEF IInv, EndInv, Accounted

\* Steps that leave all but execute's own place alone.
LEMMA StaysAround ==
    ASSUME IInv, UNCHANGED <<row, started, recorded, dropped, enough>>,
           UNCHANGED faults \/ Fault
    PROVE  Around
<1>1. faults' \in 0 .. MaxFaults
    BY SizeAssumption DEF IInv, TypeOK, Fault
<1> QED BY <1>1 DEF IInv, TypeOK, Around

LEMMA HeadKeeps ==
    ASSUME IInv, Head
    PROVE  IInv'
<1>1. /\ main.pc = "head" /\ outcome = "none"
      /\ UNCHANGED <<row, worker, started, stop, recorded, dropped, enough, faults>>
    BY DEF Head, At
<1>2. Around /\ Accounted /\ Untouched
    BY <1>1, StaysAround, NothingHeld DEF IInv, StopInv, Judging
<1>3. CASE ~LoopOver /\ Queued /\ Take("judge", "none") /\ UNCHANGED outcome
    <2>1. stop' = FALSE /\ stop' \in BOOLEAN
        BY <1>1, <1>2 DEF IInv, TypeOK, Untouched
    <2> QED BY <1>1, <1>2, <1>3, <2>1, TakeKeeps DEF Untouched, Reasons
<1>4. CASE ~LoopOver /\ ~Queued /\ GoTo("wait") /\ UNCHANGED <<queue, outcome>>
    <2>1. main' = [main EXCEPT !.pc = "wait", !.url = NoUrl]
        BY <1>4 DEF GoTo
    <2>2. /\ main' \in Main /\ main'.pc = "wait" /\ main'.url = NoUrl
          /\ main'.reason = main.reason
        BY <2>1 DEF IInv, TypeOK, Main, NoUrl
    <2>3. TypeOK'
        BY <1>1, <1>4, <2>2 DEF IInv, TypeOK
    <2>4. HandsInv' /\ StopInv' /\ EndInv' /\ FinishedCoversWork'
        BY <1>1, <1>4, <2>2 DEF IInv, HandsInv, StopInv, Judging, Untouched, EndInv,
                                FinishedCoversWork
    <2>5. PlacedInv'
        BY <1>1, <1>2, <1>4, <2>2 DEF IInv, PlacedInv, Accounted, InHand
    <2> QED BY <2>3, <2>4, <2>5 DEF IInv
<1>5. CASE LoopOver /\ Exit /\ UNCHANGED queue
    <2>1. /\ outcome' = IF SomeFailed THEN "raised" ELSE "finished"
          /\ main' = [main EXCEPT !.pc = "end", !.url = NoUrl]
        BY <1>5 DEF Exit, End, GoTo
    <2>2. /\ main' \in Main /\ main'.pc = "end" /\ main'.url = NoUrl
          /\ main'.reason = main.reason
        BY <2>1 DEF IInv, TypeOK, Main, NoUrl
    <2>3. TypeOK'
        BY <1>1, <1>5, <2>1, <2>2 DEF IInv, TypeOK, Outcomes
    <2>4. HandsInv' /\ StopInv'
        BY <1>1, <2>2 DEF IInv, HandsInv, StopInv, Judging, Untouched
    <2>5. EndInv'
        BY <1>1, <1>5, <2>1, <2>2 DEF EndInv, LoopOver, AllEnded, Queued
    <2>6. PlacedInv' /\ FinishedCoversWork'
        <3>1. CASE SomeFailed
            BY <2>1, <3>1 DEF PlacedInv, FinishedCoversWork
        <3>2. CASE ~SomeFailed
            <4>1. recorded \cup dropped = Urls
                BY <1>1, <1>5, <3>2, LoopOverCovers DEF At
            <4>2. 1 .. started \subseteq Urls
                BY SizeAssumption DEF IInv, TypeOK, Urls
            <4> QED BY <1>1, <4>1, <4>2 DEF PlacedInv, FinishedCoversWork, Urls
        <3> QED BY <3>1, <3>2
    <2> QED BY <2>3, <2>4, <2>5, <2>6 DEF IInv
<1> QED BY <1>3, <1>4, <1>5 DEF Head

LEMMA RecordKeeps ==
    ASSUME IInv, Record
    PROVE  IInv'
<1>1. main.pc = "record" /\ outcome = "none" /\ Drain(main.then, main.reason)
    BY DEF Record, At
<1>2. main.url \in Urls /\ main.then \in {"judge", "join", "leave"} /\ main.reason \in Reasons
    BY <1>1 DEF IInv, EndInv, TypeOK, Main
<1>3. Around /\ Accounted
    BY <1>2 DEF Record, Around, Accounted, IInv, TypeOK
<1>4. main.then = "judge" => Untouched /\ main.reason = "none"
    BY <1>1 DEF IInv, StopInv, Judging, Untouched
<1>5. main.then = "leave" => AllEnded /\ stop
    BY <1>1 DEF IInv, StopInv, Judging, EndInv
<1> QED BY <1>1, <1>2, <1>3, <1>4, <1>5, DrainKeeps

LEMMA CheckKeeps ==
    ASSUME IInv, Check
    PROVE  IInv'
<1>1. /\ main.pc = "check" /\ outcome = "none"
      /\ UNCHANGED <<row, started, recorded, dropped, enough, faults>>
    BY DEF Check, At
<1>2. Around /\ Accounted /\ Untouched /\ main.url = NoUrl
    BY <1>1, StaysAround, NothingHeld DEF IInv, StopInv, Judging, EndInv
<1>3. ASSUME NEW reason \in Reasons, StopAndJoin(reason)
      PROVE  IInv'
    BY <1>1, <1>2, <1>3, DrainKeeps DEF StopAndJoin
<1>4. CASE GoTo("head") /\ UNCHANGED <<worker, queue, stop, outcome>>
    <2>1. main' = [main EXCEPT !.pc = "head", !.url = NoUrl]
        BY <1>4 DEF GoTo
    <2>2. /\ main' \in Main /\ main'.pc = "head" /\ main'.url = NoUrl
          /\ main'.reason = main.reason
        BY <2>1 DEF IInv, TypeOK, Main, NoUrl
    <2>3. TypeOK'
        BY <1>1, <1>4, <2>2 DEF IInv, TypeOK
    <2>4. HandsInv' /\ StopInv' /\ EndInv' /\ FinishedCoversWork'
        BY <1>1, <1>4, <2>2 DEF IInv, HandsInv, StopInv, Judging, Untouched, EndInv,
                                FinishedCoversWork
    <2>5. PlacedInv'
        BY <1>1, <1>2, <1>4, <2>2 DEF IInv, PlacedInv, InHand
    <2> QED BY <2>3, <2>4, <2>5 DEF IInv
<1>5. row.control \in Reasons /\ "status" \in Reasons /\ "limit" \in Reasons
    BY DEF IInv, TypeOK, Row, Reasons
<1>6. \/ StopAndJoin(row.control) \/ StopAndJoin("status") \/ StopAndJoin("limit")
      \/ GoTo("head") /\ UNCHANGED <<worker, queue, stop, outcome>>
    BY DEF Check
<1> QED BY <1>3, <1>4, <1>5, <1>6

\* The end of execute with every worker ended, after an error or a checkpoint.
LEMMA EndKeeps ==
    ASSUME IInv, AllEnded, UNCHANGED <<worker, started, queue, stop, recorded, dropped,
                                       enough, faults>>,
           row' \in Row, NEW how \in {"stopped", "raised"}, End(how),
           how = "stopped" => main.pc = "apply"
    PROVE  IInv'
<1>1. outcome' = how /\ main' = [main EXCEPT !.pc = "end", !.url = NoUrl]
    BY DEF End, GoTo
<1>2. /\ main' \in Main /\ main'.pc = "end" /\ main'.url = NoUrl
      /\ main'.reason = main.reason
    BY <1>1 DEF IInv, TypeOK, Main, NoUrl
<1>3. TypeOK'
    BY <1>1, <1>2 DEF IInv, TypeOK, Outcomes
<1>4. HandsInv' /\ StopInv'
    BY <1>2 DEF IInv, HandsInv, StopInv, Judging
<1>5. EndInv' /\ FinishedCoversWork'
    BY <1>1, <1>2 DEF IInv, EndInv, FinishedCoversWork, AllEnded
<1>6. PlacedInv'
    BY <1>1, <1>2 DEF IInv, PlacedInv, EndInv, InHand
<1> QED BY <1>3, <1>4, <1>5, <1>6 DEF IInv

\* Every step of execute.
LEMMA MainStepKeeps ==
    ASSUME IInv, MainStep
    PROVE  IInv'
<1>1. CASE Head
    BY <1>1, HeadKeeps
<1>2. CASE Arrive
    <2>1. /\ main.pc = "wait" /\ outcome = "none" /\ Take("judge", "none")
          /\ UNCHANGED <<row, worker, started, stop, recorded, dropped, enough, outcome, faults>>
        BY <1>2 DEF Arrive, At
    <2>2. Around /\ Accounted /\ Untouched
        BY <2>1, StaysAround, NothingHeld DEF IInv, StopInv, Judging
    <2>3. stop' = FALSE /\ stop' \in BOOLEAN
        BY <2>1, <2>2 DEF IInv, TypeOK, Untouched
    <2> QED BY <2>1, <2>2, <2>3, TakeKeeps DEF Untouched, Reasons
<1>3. CASE Tick
    <2>1. /\ main.pc = "wait" /\ outcome = "none" /\ Judge
          /\ UNCHANGED <<row, started, recorded, dropped, enough, faults>>
        BY <1>3 DEF Tick, At
    <2>2. Around /\ Accounted /\ Untouched
        BY <2>1, StaysAround, NothingHeld DEF IInv, StopInv, Judging
    <2> QED BY <2>1, <2>2, JudgeKeeps
<1>4. CASE Record
    BY <1>4, RecordKeeps
<1>5. CASE RecordFails
    BY <1>5, StaysAround, AbortKeeps DEF RecordFails, At
<1>6. CASE RecordTimesOut
    <2>1. /\ main.pc = "record" /\ main.then = "judge" /\ outcome = "none" /\ Judge /\ Fault
          /\ dropped' = dropped \cup {main.url}
          /\ UNCHANGED <<row, started, recorded, enough>>
        BY <1>6 DEF RecordTimesOut, At
    <2>2. main.url \in Urls /\ Untouched
        BY <2>1 DEF IInv, EndInv, TypeOK, Main, StopInv, Judging
    <2>3. faults' \in 0 .. MaxFaults
        BY <2>1, SizeAssumption DEF IInv, TypeOK, Fault
    <2>4. Around /\ Accounted
        BY <2>1, <2>2, <2>3 DEF Around, Accounted, IInv, TypeOK
    <2> QED BY <2>1, <2>2, <2>4, JudgeKeeps
<1>7. CASE Check
    BY <1>7, CheckKeeps
<1>8. CASE CheckFails
    BY <1>8, StaysAround, AbortKeeps DEF CheckFails, At
<1>9. CASE JoinReturns
    <2>1. /\ main.pc = "join" /\ outcome = "none" /\ AllEnded /\ Drain("leave", main.reason)
          /\ UNCHANGED <<row, started, recorded, dropped, enough, faults>>
        BY <1>9 DEF JoinReturns, At, Joined, Flush
    <2>2. Around /\ Accounted /\ stop /\ main.reason \in Reasons
        BY <2>1, StaysAround, NothingHeld DEF IInv, StopInv, Judging, TypeOK, Main
    <2> QED BY <2>1, <2>2, DrainKeeps
<1>10. CASE Apply
    <2>1. /\ main.pc = "apply" /\ End("stopped") /\ AllEnded
          /\ row' = [status |-> Target, control |-> "none", owned |-> FALSE]
          /\ UNCHANGED <<worker, started, queue, stop, recorded, dropped, enough, faults>>
        BY <1>10 DEF Apply, Applied, At, IInv, EndInv
    <2>2. row' \in Row
        BY <2>1 DEF Row, Target
    <2> QED BY <2>1, <2>2, EndKeeps
<1>11. CASE ApplyFails
    BY <1>11, StaysAround, AbortKeeps DEF ApplyFails, At
<1>12. CASE AbortReturns
    BY <1>12, EndKeeps DEF AbortReturns, At, Joined, IInv, TypeOK
<1> QED BY <1>1, <1>2, <1>3, <1>4, <1>5, <1>6, <1>7, <1>8, <1>9, <1>10, <1>11, <1>12
        DEF MainStep

-----------------------------------------------------------------------------
(* The steps of a worker *)

\* What every step of a worker does: it moves that worker alone, loses no URL, and a
\* URL it takes is in its hands.
WorkerMoves(w) ==
    /\ UNCHANGED <<row, stop, main, recorded, dropped, enough, outcome>>
    /\ faults' \in 0 .. MaxFaults
    /\ worker' \in [Workers -> Worker]
    /\ \A v \in Workers \ {w} : worker'[v] = worker[v]
    /\ ~worker[w].cancel => ~worker'[w].cancel /\ worker'[w].pc # "cancelled"
    /\ started' \in 0 .. Total /\ started <= started'
    /\ 1 .. started' \subseteq (1 .. started) \cup {worker'[w].url}
    /\ worker'[w].pc \in Busy => worker'[w].url \in 1 .. started'
    /\ worker'[w].pc \in {"begin", "done"} => worker'[w].url = NoUrl
    /\ worker'[w].pc = "done" => stop \/ started' = Total
    /\ queue \subseteq queue' /\ queue' \subseteq Urls /\ Cardinality(queue') <= QueueSize
    /\ worker[w].url \in queue' \cup {NoUrl, worker'[w].url}

LEMMA WorkerMovesKeeps ==
    ASSUME IInv, NEW w \in Workers, worker[w].pc \notin Ended, WorkerMoves(w)
    PROVE  IInv'
<1>1. outcome = "none" /\ ~AllEnded
    BY DEF AllEnded, IInv, EndInv
<1>2. TypeOK'
    BY DEF WorkerMoves, IInv, TypeOK
<1>3. HandsInv'
    <2> SUFFICES ASSUME NEW v \in Workers
                 PROVE  /\ worker'[v].pc \in Busy => worker'[v].url \in 1 .. started'
                        /\ worker'[v].pc \in {"begin", "done"} => worker'[v].url = NoUrl
                        /\ worker'[v].pc = "done" => stop \/ started' = Total
        BY DEF HandsInv, WorkerMoves
    <2>1. CASE v = w
        BY <2>1 DEF WorkerMoves
    <2>2. CASE v # w
        <3>1. worker'[v] = worker[v] /\ started \in Nat /\ started' \in 0 .. Total /\ started <= started'
            BY <2>2 DEF WorkerMoves, IInv, TypeOK
        <3> QED BY <3>1, SizeAssumption DEF IInv, HandsInv
    <2> QED BY <2>1, <2>2
<1>4. StopInv'
    <2>1. Untouched => Untouched'
        BY DEF Untouched, WorkerMoves
    <2> QED BY <2>1 DEF IInv, StopInv, Judging, WorkerMoves
<1>5. PlacedInv'
    <2> SUFFICES ASSUME main.pc # "abort"
                 PROVE  1 .. started' \subseteq
                            recorded \cup dropped \cup queue' \cup {main.url} \cup InHand'
        BY DEF PlacedInv, WorkerMoves
    <2>1. 1 .. started \subseteq recorded \cup dropped \cup queue \cup {main.url} \cup InHand
        BY <1>1 DEF IInv, PlacedInv
    <2>2. InHand \subseteq InHand' \cup {worker[w].url}
        BY DEF InHand, WorkerMoves
    <2>3. worker'[w].url \in InHand'
        BY DEF InHand
    <2>4. NoUrl \notin 1 .. started
        BY DEF NoUrl
    <2> QED BY <2>1, <2>2, <2>3, <2>4 DEF WorkerMoves
<1>6. EndInv' /\ FinishedCoversWork'
    BY <1>1 DEF IInv, EndInv, FinishedCoversWork, WorkerMoves
<1> QED BY <1>2, <1>3, <1>4, <1>5, <1>6 DEF IInv

\* The head of the loop takes the next URL, or ends the worker.
LEMMA NextItemEffect ==
    ASSUME IInv, NEW w \in Workers, ~worker[w].cancel, NextItem(w)
    PROVE  /\ worker' \in [Workers -> Worker]
           /\ \A v \in Workers \ {w} : worker'[v] = worker[v]
           /\ ~worker'[w].cancel /\ worker'[w].pc # "cancelled"
           /\ started' \in 0 .. Total /\ started <= started'
           /\ 1 .. started' \subseteq (1 .. started) \cup {worker'[w].url}
           /\ worker'[w].pc \in Busy => worker'[w].url \in 1 .. started'
           /\ worker'[w].pc \in {"begin", "done"} => worker'[w].url = NoUrl
           /\ worker'[w].pc = "done" => stop \/ started' = Total
<1>1. started \in Nat /\ started <= Total /\ Total \in Nat /\ worker[w] \in Worker
    BY SizeAssumption DEF IInv, TypeOK
<1>2. CASE stop \/ started = Total
    <2>1. worker' = [worker EXCEPT ![w] = [worker[w] EXCEPT !.pc = "done", !.url = NoUrl]]
          /\ started' = started
        BY <1>2 DEF NextItem, IInv, TypeOK
    <2>2. [worker[w] EXCEPT !.pc = "done", !.url = NoUrl] \in Worker
        BY <1>1 DEF Worker, Ended
    <2> QED BY <1>1, <1>2, <2>1, <2>2 DEF IInv, TypeOK, Worker, Busy
<1>3. CASE ~(stop \/ started = Total)
    <2>1. worker' = [worker EXCEPT ![w] = [worker[w] EXCEPT !.pc = "open", !.url = started']]
          /\ started' = started + 1
        BY <1>3 DEF NextItem, IInv, TypeOK
    <2>2. started' \in Urls /\ started' \in 1 .. started'
        BY <1>1, <1>3, <2>1 DEF Urls
    <2>3. [worker[w] EXCEPT !.pc = "open", !.url = started'] \in Worker
        BY <1>1, <2>2 DEF Worker
    <2> QED BY <1>1, <1>3, <2>1, <2>2, <2>3 DEF IInv, TypeOK, Worker, Busy, Urls
<1> QED BY <1>2, <1>3

\* A worker that only moves on, or ends with its URL in hand.
LEMMA StepToMoves ==
    ASSUME IInv, NEW w \in Workers, NEW pc \in Busy \cup {"failed", "cancelled"},
           StepTo(w, pc), worker[w].pc \notin Ended,
           pc = "cancelled" => worker[w].cancel,
           pc \in Busy => worker[w].pc \in Busy,
           UNCHANGED <<row, started, queue, stop, main, recorded, dropped, enough, outcome>>,
           UNCHANGED faults \/ Fault
    PROVE  WorkerMoves(w)
<1>1. worker[w] \in Worker /\ started \in Nat /\ started <= Total
    BY SizeAssumption DEF IInv, TypeOK
<1>2. worker' = [worker EXCEPT ![w] = [worker[w] EXCEPT !.pc = pc]]
    BY DEF StepTo, IInv, TypeOK
<1>3. [worker[w] EXCEPT !.pc = pc] \in Worker
    BY <1>1 DEF Worker, Busy, Ended
<1>4. /\ worker' \in [Workers -> Worker]
      /\ \A v \in Workers \ {w} : worker'[v] = worker[v]
      /\ worker'[w].pc = pc /\ worker'[w].url = worker[w].url
      /\ worker'[w].cancel = worker[w].cancel
    BY <1>1, <1>2, <1>3 DEF IInv, TypeOK, Worker
<1>5. faults' \in 0 .. MaxFaults
    BY SizeAssumption DEF IInv, TypeOK, Fault
<1>6. worker[w].pc \in Busy => worker[w].url \in 1 .. started
    BY DEF IInv, HandsInv
<1> QED BY <1>1, <1>4, <1>5, <1>6 DEF WorkerMoves, IInv, TypeOK, Busy

\* Every step of a worker.
LEMMA WorkerStepMoves ==
    ASSUME IInv, NEW w \in Workers, WorkerStep(w)
    PROVE  WorkerMoves(w) /\ worker[w].pc \notin Ended
<1>1. CASE Begin(w)
    <2>1. worker[w].url = NoUrl
        BY <1>1 DEF Begin, Runs, IInv, HandsInv
    <2>2. ~worker[w].cancel /\ worker[w].pc \notin Ended /\ NextItem(w)
        BY <1>1 DEF Begin, Runs, Ended
    <2> QED BY <1>1, <2>1, <2>2, NextItemEffect DEF Begin, WorkerMoves, IInv, TypeOK
<1>2. CASE Open(w)
    BY <1>2, StepToMoves DEF Open, Runs, Ended, Busy
<1>3. CASE Crawl(w)
    BY <1>3, StepToMoves DEF Crawl, Runs, Ended, Busy
<1>4. CASE Put(w)
    <2>1. worker[w].url \in Urls
        BY <1>4, SizeAssumption DEF Put, Runs, IInv, HandsInv, Busy, TypeOK, Urls
    <2>2. ~worker[w].cancel /\ worker[w].pc \notin Ended /\ NextItem(w)
        BY <1>4 DEF Put, Runs, Ended
    <2>3. queue' = queue \cup {worker[w].url} /\ Room
        BY <1>4 DEF Put
    <2>4. queue' \subseteq Urls /\ Cardinality(queue') <= QueueSize
        BY <2>1, <2>3, QueueGrows DEF IInv
    <2> QED BY <1>4, <2>2, <2>3, <2>4, NextItemEffect DEF Put, WorkerMoves, IInv, TypeOK
<1>5. CASE CancelLands(w)
    BY <1>5, StepToMoves DEF CancelLands, Busy
<1>6. CASE CancelSwallowed(w)
    <2>1. worker[w] \in Worker /\ started \in Nat /\ started <= Total
        BY SizeAssumption DEF IInv, TypeOK
    <2>2. worker' = [worker EXCEPT ![w] = [worker[w] EXCEPT !.cancel = FALSE]]
        BY <1>6 DEF CancelSwallowed, IInv, TypeOK
    <2>3. /\ worker' \in [Workers -> Worker]
          /\ \A v \in Workers \ {w} : worker'[v] = worker[v]
          /\ worker'[w].pc = "crawl" /\ worker'[w].url = worker[w].url
        BY <1>6, <2>1, <2>2 DEF CancelSwallowed, IInv, TypeOK, Worker
    <2>4. worker[w].url \in 1 .. started
        BY <1>6 DEF CancelSwallowed, IInv, HandsInv, Busy
    <2> QED BY <1>6, <2>1, <2>3, <2>4 DEF CancelSwallowed, WorkerMoves, IInv, TypeOK, Ended
<1> QED BY <1>1, <1>2, <1>3, <1>4, <1>5, <1>6 DEF WorkerStep

-----------------------------------------------------------------------------
(* The invariant and what follows from it *)

LEMMA InitHolds == Init => IInv
<1> SUFFICES ASSUME Init PROVE IInv
    OBVIOUS
<1>1. Cardinality({}) = 0
    BY FS_EmptySet
<1>2. TypeOK
    <2>1. row \in Row
        BY DEF Init, Row
    <2>2. worker \in [Workers -> Worker]
        BY DEF Init, Worker, NoUrl
    <2>3. main \in Main
        BY DEF Init, Main, Reasons, NoUrl
    <2>4. started \in 0 .. Total /\ faults \in 0 .. MaxFaults /\ 0 <= QueueSize
        BY SizeAssumption DEF Init
    <2>5. recorded \subseteq Urls /\ dropped \subseteq Urls /\ queue \subseteq Urls /\ queue = {}
        BY DEF Init
    <2> QED BY <1>1, <2>1, <2>2, <2>3, <2>4, <2>5 DEF Init, TypeOK, Outcomes
<1>3. HandsInv /\ StopInv /\ PlacedInv
    BY DEF Init, HandsInv, Busy, StopInv, Judging, Untouched, PlacedInv, NoUrl
<1>4. EndInv /\ FinishedCoversWork
    BY DEF Init, EndInv, FinishedCoversWork, NoUrl
<1> QED BY <1>2, <1>3, <1>4 DEF IInv

\* The row's other writers touch the row alone.
LEMMA RowStepKeeps ==
    ASSUME IInv, RowStep
    PROVE  IInv' /\ UNCHANGED <<worker, started, queue, main, outcome>>
<1>1. row' \in Row /\ UNCHANGED <<worker, started, queue, stop, main, recorded, dropped,
                                  enough, outcome, faults>>
    <2>1. row \in Row
        BY DEF IInv, TypeOK
    <2>2. CASE Requested
        BY <2>1, <2>2 DEF Requested, RowChanges, Row
    <2>3. CASE StatusWritten
        BY <2>1, <2>3 DEF StatusWritten, RowChanges, Row
    <2>4. CASE TakenOver
        BY <2>4 DEF TakenOver, RowChanges, Row
    <2>5. CASE Deleted
        BY <2>1, <2>5 DEF Deleted, RowChanges, Row
    <2> QED BY <2>2, <2>3, <2>4, <2>5 DEF RowStep
<1>2. TypeOK'
    BY <1>1 DEF IInv, TypeOK
<1>3. HandsInv' /\ StopInv' /\ EndInv' /\ FinishedCoversWork'
    BY <1>1 DEF IInv, HandsInv, StopInv, Judging, Untouched, EndInv, AllEnded,
                FinishedCoversWork
<1>4. PlacedInv'
    BY <1>1 DEF IInv, PlacedInv, InHand
<1> QED BY <1>1, <1>2, <1>3, <1>4 DEF IInv

\* A step of execute that does not end it: a result is taken from the queue, or the
\* one in hand is settled.
Proceeds ==
    /\ \A w \in Workers : worker'[w].pc = worker[w].pc /\ worker'[w].url = worker[w].url
    /\ queue' \subseteq queue /\ main'.url \in queue \cup {main.url, NoUrl}
    /\ outcome' = outcome

LEMMA AbortProceeds ==
    ASSUME IInv, Abort
    PROVE  Proceeds
BY CancelAllEffect DEF IInv, TypeOK, Main, Abort, GoTo, Proceeds

\* A cancellation of execute is one more error it meets.
LEMMA CancellationKeeps ==
    ASSUME IInv, ExecuteCancelled
    PROVE  /\ IInv'
           /\ outcome = "none" /\ started' = started /\ Proceeds
<1>1. /\ outcome = "none" /\ Fault /\ Abort
      /\ UNCHANGED <<started, recorded, dropped, enough>>
    BY DEF ExecuteCancelled
<1>2. row' \in Row
    <2>1. row \in Row
        BY DEF IInv, TypeOK
    <2>2. row' = row \/ row' = Applied
        BY DEF ExecuteCancelled
    <2>3. Applied \in Row
        BY DEF Applied, Target, Row
    <2> QED BY <2>1, <2>2, <2>3
<1>3. faults' \in 0 .. MaxFaults
    BY <1>1, SizeAssumption DEF IInv, TypeOK, Fault
<1>4. Around
    BY <1>1, <1>2, <1>3 DEF IInv, TypeOK, Around
<1> QED BY <1>1, <1>4, AbortKeeps, AbortProceeds

LEMMA StutterKeeps ==
    ASSUME IInv, UNCHANGED vars
    PROVE  IInv'
<1>1. TypeOK' /\ HandsInv' /\ StopInv' /\ EndInv' /\ FinishedCoversWork'
    BY DEF vars, IInv, TypeOK, HandsInv, StopInv, Judging, Untouched, EndInv, AllEnded,
           FinishedCoversWork
<1>2. PlacedInv'
    BY DEF vars, IInv, PlacedInv, InHand
<1> QED BY <1>1, <1>2 DEF IInv

\* Every step of the system preserves the invariant.
LEMMA NextKeeps == IInv /\ [Next]_vars => IInv'
<1> SUFFICES ASSUME IInv, [Next]_vars PROVE IInv'
    OBVIOUS
<1>1. CASE MainStep
    BY <1>1, MainStepKeeps
<1>2. CASE RowStep
    BY <1>2, RowStepKeeps
<1>3. CASE \E w \in Workers : WorkerStep(w)
    BY <1>3, WorkerStepMoves, WorkerMovesKeeps
<1>4. CASE UNCHANGED vars
    BY <1>4, StutterKeeps
<1>5. CASE ExecuteCancelled
    BY <1>5, CancellationKeeps
<1> QED BY <1>1, <1>2, <1>3, <1>4, <1>5 DEF Next

LEMMA Invariance == Spec => []IInv
<1>1. Init => IInv
    BY InitHolds
<1>2. IInv /\ [Next]_vars => IInv'
    BY NextKeeps
<1> QED BY <1>1, <1>2, PTL DEF Spec

\* Every variable keeps its type, and the queue its size.
THEOREM TypeCorrect == Spec => []TypeOK
<1>1. IInv => TypeOK
    BY DEF IInv
<1> QED BY <1>1, Invariance, PTL

\* When execute has ended, and before it writes a pause or a kill, no worker is alive.
THEOREM Quiet == Spec => []QuietAfterStop
<1>1. IInv => QuietAfterStop
    BY DEF IInv, EndInv, QuietAfterStop
<1> QED BY <1>1, Invariance, PTL

\* An execution that reports the end of the list has recorded it, but for results
\* whose recording timed out.
THEOREM FinishedRunIsCovered == Spec => []FinishedCoversWork
<1>1. IInv => FinishedCoversWork
    BY DEF IInv
<1> QED BY <1>1, Invariance, PTL

\* An orderly end throws no result away.
THEOREM NoResultDiscarded == Spec => []NothingDiscarded
<1>1. IInv => NothingDiscarded
    <2> SUFFICES ASSUME IInv, outcome \in {"finished", "stopped"}
                 PROVE  /\ queue = {}
                        /\ 1 .. started \subseteq recorded \cup dropped \cup InHand
        BY DEF NothingDiscarded
    <2>1. queue = {} /\ main.url = NoUrl /\ main.pc = "end"
        BY DEF IInv, EndInv
    <2>2. NoUrl \notin 1 .. started
        BY DEF NoUrl
    <2> QED BY <2>1, <2>2 DEF IInv, PlacedInv
<1> QED BY <1>1, Invariance, PTL

\* Once execute has decided to stop, no worker takes another URL.
THEOREM StopIsFinal == Spec => StoppedTakesNoUrl
<1>1. IInv /\ [Next]_vars => [main.reason # "none" => started' = started]_vars
    <2> SUFFICES ASSUME IInv, Next, main.reason # "none" PROVE started' = started
        OBVIOUS
    <2>1. stop
        BY DEF IInv, StopInv
    <2>2. CASE MainStep
        BY <2>2 DEF MainStep, Head, Arrive, Tick, Record, RecordFails, RecordTimesOut, Check,
                    CheckFails, JoinReturns, Apply, ApplyFails, AbortReturns
    <2>3. CASE RowStep
        BY <2>3, RowStepKeeps
    <2>4. CASE \E w \in Workers : WorkerStep(w)
        BY <2>1, <2>4 DEF WorkerStep, Begin, Open, Crawl, Put, NextItem, CancelLands,
                          CancelSwallowed
    <2>5. CASE ExecuteCancelled
        BY <2>5 DEF ExecuteCancelled
    <2> QED BY <2>2, <2>3, <2>4, <2>5 DEF Next
<1> QED BY <1>1, Invariance, PTL DEF Spec, StoppedTakesNoUrl

-----------------------------------------------------------------------------
(* execute implements BatchContract *)

HeldUrls == {worker[w].url : w \in {v \in Workers : worker[v].pc \in Busy}}

LEMMA UnderWayIs ==
    /\ UnderWay = IF outcome = "raised" THEN {}
                  ELSE queue \cup ({main.url} \ {NoUrl}) \cup HeldUrls
    /\ UnderWay' = IF outcome' = "raised" THEN {}
                   ELSE queue' \cup ({main.url'} \ {NoUrl}) \cup HeldUrls'
BY DEF UnderWay, HeldUrls, Busy

LEMMA ProceedsSettles ==
    ASSUME outcome = "none", Proceeds, started' = started
    PROVE  Contract!Settle
<1>1. HeldUrls' = HeldUrls
    BY DEF HeldUrls, Proceeds
<1>2. UnderWay' \subseteq UnderWay
    BY <1>1, UnderWayIs DEF Proceeds
<1> QED BY <1>2 DEF Contract!Settle, Proceeds

LEMMA JudgeProceeds ==
    ASSUME IInv, Judge
    PROVE  Proceeds
BY AbortProceeds DEF IInv, TypeOK, Main, Judge, GoTo, Proceeds

\* Draining the queue settles what is in hand, or ends an orderly stop.
LEMMA DrainProceeds ==
    ASSUME IInv, NEW then, NEW reason, Drain(then, reason), then = "leave" => AllEnded
    PROVE  Proceeds \/ (outcome' = "stopped" /\ ~Queued /\ AllEnded)
<1>1. CASE Queued /\ Take(then, reason) /\ UNCHANGED <<worker, outcome>>
    BY <1>1 DEF Take, Proceeds
<1>2. CASE Judge
    BY <1>2, JudgeProceeds
<1>3. CASE Join(reason)
    BY <1>3, CancelAllEffect DEF IInv, Join, Proceeds
<1>4. CASE ~Queued /\ then = "leave" /\ Leave(reason) /\ UNCHANGED <<worker, queue, stop>>
    BY <1>4 DEF IInv, TypeOK, Main, Leave, End, GoTo, Proceeds
<1> QED BY <1>1, <1>2, <1>3, <1>4 DEF Drain

\* After the end nothing is under way.
LEMMA EndedIsIdle == IInv /\ outcome # "none" => UnderWay = {}
<1> SUFFICES ASSUME IInv, outcome # "none" PROVE UnderWay = {}
    OBVIOUS
<1>1. AllEnded /\ main.url = NoUrl /\ (outcome = "raised" \/ queue = {})
    BY DEF IInv, EndInv, TypeOK, Outcomes
<1>2. HeldUrls = {}
    BY <1>1 DEF AllEnded, HeldUrls, Busy, Ended
<1> QED BY <1>1, <1>2, UnderWayIs

\* Where execute holds at most one result and no worker is busy, so does the contract.
LEMMA IdleButOne ==
    ASSUME IInv, AllEnded, ~Queued
    PROVE  \E u \in 1 .. Total : UnderWay \subseteq {u}
<1>1. HeldUrls = {}
    BY DEF AllEnded, HeldUrls, Busy, Ended
<1>2. UnderWay \subseteq {main.url} \ {NoUrl}
    BY <1>1, UnderWayIs DEF Queued
<1>3. main.url \in Urls \cup {NoUrl} /\ 1 \in 1 .. Total
    BY SizeAssumption DEF IInv, TypeOK, Main
<1> QED BY <1>2, <1>3 DEF Urls

LEMMA MainStepRefines ==
    ASSUME IInv, IInv', MainStep
    PROVE  Contract!CNext
<1> USE DEF Contract!CNext
<1>0. (IInv /\ outcome # "none" => UnderWay = {})'
    BY EndedIsIdle, PTL
<1>1. outcome = "none" /\ started' = started
    BY DEF MainStep, Head, Arrive, Tick, Record, RecordFails, RecordTimesOut, Check,
           CheckFails, JoinReturns, Apply, ApplyFails, AbortReturns, At
<1>2. ASSUME Proceeds PROVE Contract!CNext
    BY <1>1, <1>2, ProceedsSettles
<1>3. ASSUME outcome' = "stopped", ~Queued, AllEnded PROVE Contract!CNext
    BY <1>0, <1>1, <1>3, IdleButOne DEF Contract!Stop
<1>4. ASSUME outcome' = "raised" PROVE Contract!CNext
    BY <1>0, <1>1, <1>4 DEF Contract!Raise
<1>5. CASE Head
    <2>1. CASE LoopOver /\ Exit
        <3>1. CASE SomeFailed
            BY <1>4, <2>1, <3>1 DEF Exit, End
        <3>2. CASE ~SomeFailed
            <4>1. outcome' = "finished" /\ ~Queued /\ AllEnded /\ main.pc = "head"
                BY <1>5, <2>1, <3>2 DEF Head, At, Exit, End, LoopOver
            <4>2. UnderWay = {}
                <5>1. HeldUrls = {} /\ main.url = NoUrl
                    BY <4>1 DEF AllEnded, HeldUrls, Busy, Ended, IInv, EndInv
                <5> QED BY <4>1, <5>1, UnderWayIs DEF Queued
            <4>3. started = Total
                <5>1. Untouched /\ \A w \in Workers : worker[w].pc = "done"
                    BY <3>2, <4>1 DEF IInv, StopInv, Judging, Untouched, AllEnded, Ended,
                                      SomeFailed
                <5> QED BY <5>1, PoolAssumption DEF IInv, HandsInv, Untouched
            <4>4. UnderWay' = UnderWay
                BY <1>0, <4>1, <4>2
            <4> QED BY <1>1, <4>1, <4>2, <4>3, <4>4 DEF Contract!Finish
        <3> QED BY <3>1, <3>2
    <2>2. CASE Take("judge", "none") /\ UNCHANGED outcome
        BY <1>2, <1>5, <2>2 DEF Head, Take, Proceeds
    <2>3. CASE GoTo("wait") /\ UNCHANGED <<queue, outcome>>
        BY <1>2, <1>5, <2>3 DEF Head, GoTo, Proceeds, IInv, TypeOK, Main
    <2> QED BY <1>5, <2>1, <2>2, <2>3 DEF Head
<1>6. CASE Arrive
    BY <1>2, <1>6 DEF Arrive, Take, Proceeds
<1>7. CASE Tick \/ RecordTimesOut
    BY <1>2, <1>7, JudgeProceeds DEF Tick, RecordTimesOut
<1>8. CASE Record
    <2>1. Drain(main.then, main.reason) /\ (main.then = "leave" => AllEnded)
        BY <1>8 DEF Record, At, IInv, EndInv
    <2> QED BY <1>2, <1>3, <2>1, DrainProceeds
<1>9. CASE RecordFails \/ CheckFails \/ ApplyFails
    BY <1>2, <1>9, AbortProceeds DEF RecordFails, CheckFails, ApplyFails
<1>10. CASE Check
    <2>1. ASSUME NEW reason, StopAndJoin(reason) PROVE Contract!CNext
        <3>1. Proceeds \/ (outcome' = "stopped" /\ ~Queued /\ AllEnded)
            BY <2>1, DrainProceeds DEF StopAndJoin
        <3> QED BY <1>2, <1>3, <3>1
    <2>2. CASE GoTo("head") /\ UNCHANGED <<worker, queue, stop, outcome>>
        BY <1>2, <2>2 DEF GoTo, Proceeds, IInv, TypeOK, Main
    <2> QED BY <1>10, <2>1, <2>2 DEF Check
<1>11. CASE JoinReturns
    <2>1. Drain("leave", main.reason) /\ AllEnded
        BY <1>11 DEF JoinReturns, Joined, Flush
    <2> QED BY <1>2, <1>3, <2>1, DrainProceeds
<1>12. CASE Apply
    BY <1>3, <1>12 DEF Apply, At, End, IInv, EndInv, Queued
<1>13. CASE AbortReturns
    BY <1>4, <1>13 DEF AbortReturns, End
<1> QED BY <1>5, <1>6, <1>7, <1>8, <1>9, <1>10, <1>11, <1>12, <1>13 DEF MainStep

LEMMA WorkerStepRefines ==
    ASSUME IInv, NEW w \in Workers, WorkerStep(w)
    PROVE  Contract!CNext
<1> DEFINE others == {worker[v].url : v \in {u \in Workers \ {w} : worker[u].pc \in Busy}}
           own(s) == IF s.pc \in Busy THEN {s.url} ELSE {}
<1>1. /\ outcome = "none"
      /\ WorkerMoves(w)
    BY WorkerStepMoves DEF IInv, EndInv, AllEnded
<1>2. others' = others
    BY <1>1 DEF WorkerMoves
<1>3. HeldUrls = others \cup own(worker[w]) /\ HeldUrls' = others \cup own(worker'[w])
    <2>1. HeldUrls = others \cup own(worker[w])
        BY DEF HeldUrls
    <2>2. HeldUrls' = others' \cup own(worker'[w])
        BY DEF HeldUrls
    <2> QED BY <1>2, <2>1, <2>2
<1>4. /\ UnderWay = queue \cup ({main.url} \ {NoUrl}) \cup others \cup own(worker[w])
      /\ UnderWay' = queue' \cup ({main.url} \ {NoUrl}) \cup others \cup own(worker'[w])
      /\ outcome' = outcome
    BY <1>1, <1>3, UnderWayIs DEF WorkerMoves
<1> HIDE DEF others
<1>5. ASSUME started' = started, queue' \subseteq queue \cup own(worker[w]),
             own(worker'[w]) \subseteq own(worker[w])
      PROVE  Contract!CNext
    BY <1>1, <1>4, <1>5 DEF Contract!CNext, Contract!Settle
<1>6. worker[w] \in Worker /\ worker \in [Workers -> Worker]
    BY DEF IInv, TypeOK
<1>7. ASSUME NextItem(w), queue' = queue \cup own(worker[w]) PROVE Contract!CNext
    <2>1. CASE stop \/ started = Total
        <3>1. started' = started /\ worker'[w].pc = "done"
            BY <1>6, <1>7, <2>1 DEF NextItem, Worker
        <3> QED BY <1>5, <1>7, <3>1 DEF Busy
    <2>2. CASE ~(stop \/ started = Total)
        <3>1. started' = started + 1 /\ worker'[w].pc = "open" /\ worker'[w].url = started'
            BY <1>6, <1>7, <2>2 DEF NextItem, Worker
        <3>2. started < Total
            BY <2>2, SizeAssumption DEF IInv, TypeOK
        <3>3. UnderWay' = UnderWay \cup {started'}
            BY <1>4, <1>7, <3>1 DEF Busy
        <3> QED BY <1>1, <1>4, <3>1, <3>2, <3>3 DEF Contract!CNext, Contract!Start
    <2> QED BY <2>1, <2>2
<1>8. ASSUME NEW pc, StepTo(w, pc), worker[w].pc \in Busy \/ pc \notin Busy,
             UNCHANGED <<started, queue>>
      PROVE  Contract!CNext
    <2>1. worker'[w].pc = pc /\ worker'[w].url = worker[w].url
        BY <1>6, <1>8 DEF StepTo, Worker
    <2> QED BY <1>5, <1>8, <2>1
<1>9. CASE Begin(w)
    BY <1>7, <1>9 DEF Begin, Runs, Busy
<1>10. CASE Open(w)
    BY <1>8, <1>10 DEF Open, Runs, Busy
<1>11. CASE Crawl(w)
    BY <1>8, <1>11 DEF Crawl, Runs, Busy
<1>12. CASE Put(w)
    BY <1>7, <1>12 DEF Put, Runs, Busy
<1>13. CASE CancelLands(w)
    BY <1>8, <1>13 DEF CancelLands, Busy
<1>14. CASE CancelSwallowed(w)
    <2>1. worker'[w].pc = worker[w].pc /\ worker'[w].url = worker[w].url
        BY <1>6, <1>14 DEF CancelSwallowed, Worker
    <2> QED BY <1>5, <1>14, <2>1 DEF CancelSwallowed
<1> QED BY <1>9, <1>10, <1>11, <1>12, <1>13, <1>14 DEF WorkerStep

\* execute implements the contract: every step of the pool, the consumer and the row
\* is a step of the contract or changes nothing the contract speaks of.
THEOREM ImplementsContract == Spec => KeepsContract
<1>1. Init => Contract!CInit
    BY UnderWayIs DEF Init, Contract!CInit, HeldUrls, Busy, NoUrl
<1>2. IInv /\ IInv' /\ [Next]_vars => [Contract!CNext]_(Contract!cvars)
    <2> SUFFICES ASSUME IInv, IInv', [Next]_vars
                 PROVE  Contract!CNext \/ UNCHANGED Contract!cvars
        OBVIOUS
    <2>1. ASSUME UNCHANGED <<worker, started, queue, main, outcome>>
          PROVE  UNCHANGED Contract!cvars
        BY <2>1 DEF Contract!cvars, UnderWay
    <2>2. CASE MainStep
        BY <2>2, MainStepRefines
    <2>3. CASE RowStep
        BY <2>1, <2>3, RowStepKeeps
    <2>4. CASE \E w \in Workers : WorkerStep(w)
        BY <2>4, WorkerStepRefines
    <2>5. CASE UNCHANGED vars
        BY <2>1, <2>5 DEF vars
    <2>6. CASE ExecuteCancelled
        BY <2>6, CancellationKeeps, ProceedsSettles DEF Contract!CNext
    <2> QED BY <2>2, <2>3, <2>4, <2>5, <2>6 DEF Next
<1> QED BY <1>1, <1>2, Invariance, PTL DEF Spec, KeepsContract, Contract!CSpec

=============================================================================
