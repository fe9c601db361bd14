------------------------ MODULE RecipeLearningProofs ------------------------
(* The recipe of a scope, for every number of pages and every threshold:    *)
(* one model call at a time, and a suspension by exactly that many drifts   *)
(* in a row.                                                                *)
EXTENDS RecipeLearning, FiniteSetTheorems, TLAPS

\* What page p has written and not committed; the rows of the scope are written
\* under their lock, and a drift is noted only in a run that has the recipe.
Uncommitted(x) == x.count # {} \/ x.suspends \/ x.bars \/ x.saw # "nothing"

PageInv(p) ==
    LET x == page[p]
    IN  /\ Uncommitted(x) \/ x.at = "noted" => locker = p
        /\ locker = p => x.at \in {"noted", "resetting", "recorded"}
        /\ x.at = "noted" => x.saw = "drift"
        /\ x.suspends => x.at = "noted"
        /\ x.bars => x.at \in {"resetting", "recorded"} /\ x.saw = "nothing"
        /\ x.at = "resetting" /\ locker = p => x.bars
        /\ x.at \notin {"noted", "recorded"} => x.saw = "nothing"
        /\ x.saw = "nothing" => x.count = {}
        /\ x.saw = "drift" => x.frozen

\* A run has the recipe only once it was active, and it is lost with its template.
ScopeInv ==
    /\ template = "none" => recipe = "none"
    /\ (\E p \in Pages : page[p].frozen) => recipe = "active" \/ template = "suspended"

\* One page compiles, under a marker that nobody may claim over.
CompileInv ==
    /\ \A p \in Pages : page[p].at = "compiling" => recipe = "provisional" /\ marker = "fresh"
    /\ \A p, q \in Pages : page[p].at = "compiling" /\ page[q].at = "compiling" => p = q

\* A drift waits under the lock, counted one up from what is committed, and it suspends
\* the recipe where the threshold is reached.
PendingDrift(p) ==
    LET x == page[p]
    IN  x.saw = "drift" =>
            /\ template = "active" /\ recipe = "active"
            /\ x.suspends => counter + 1 >= DriftThreshold
            /\ ~swallowed => /\ x.count = {OneMore(counter)}
                             /\ x.suspends \/ owned \/ counter + 1 < DriftThreshold

\* A success waits under the lock to reset the counter.
PendingReset(p) ==
    LET x == page[p]
    IN  x.saw = "success" => /\ template = "active" /\ recipe = "active"
                             /\ x.count = {0} \/ (x.count = {} /\ counter = 0)

\* The committed counter is the number of drifts in a row while the template is in use.
CounterInv ==
    /\ template # "suspended" /\ ~swallowed => counter = missed
    /\ recipe = "active" /\ ~owned /\ ~swallowed => missed < DriftThreshold

LearningInv ==
    /\ LearningTypeOK
    /\ \A p \in Pages : PageInv(p) /\ PendingDrift(p) /\ PendingReset(p)
    /\ ScopeInv /\ CompileInv /\ CounterInv

\* The invariant of one page, and what the scope keeps while others work.
Fine(p) == PageInv(p) /\ PendingDrift(p) /\ PendingReset(p)

LEMMA OnePage ==
    ASSUME LearningTypeOK, NEW p \in Pages, NEW x \in PageStates,
           page' = [page EXCEPT ![p] = x]
    PROVE  /\ page' \in [Pages -> PageStates] /\ page'[p] = x
           /\ \A q \in Pages \ {p} : page'[q] = page[q]
BY DEF LearningTypeOK

LEMMA LearningInit1 == LearningInit => LearningInv
<1> SUFFICES ASSUME LearningInit PROVE LearningInv
    OBVIOUS
<1> USE RecipeLearningAssumption
<1>1. LearningTypeOK
    <2>1. [at |-> "idle", frozen |-> FALSE, count |-> {}, suspends |-> FALSE,
           bars |-> FALSE, sib |-> {}, saw |-> "nothing"] \in PageStates
        BY DEF PageStates, Stages
    <2>2. 0 \in 0 .. DriftThreshold
        OBVIOUS
    <2> QED BY <2>1, <2>2 DEF LearningInit, LearningTypeOK
<1>2. \A p \in Pages : page[p] = [at |-> "idle", frozen |-> FALSE, count |-> {},
                                   suspends |-> FALSE, bars |-> FALSE, sib |-> {},
                                   saw |-> "nothing"]
    BY DEF LearningInit
<1>3. \A p \in Pages : PageInv(p) /\ PendingDrift(p) /\ PendingReset(p)
    BY <1>2 DEF LearningInit, PageInv, Uncommitted, PendingDrift, PendingReset
<1>4. ScopeInv /\ CompileInv /\ CounterInv
    BY <1>2 DEF LearningInit, ScopeInv, CompileInv, CounterInv
<1> QED BY <1>1, <1>3, <1>4 DEF LearningInv

\* A page goes on without writing: it is not compiling, and has the recipe only if it is
\* released to it.
LEMMA Move ==
    ASSUME LearningInv, NEW p \in Pages, NEW x \in PageStates,
           page' = [page EXCEPT ![p] = x],
           page[p].at \notin {"noted", "resetting", "recorded"},
           x.at \notin {"noted", "recorded", "compiling"},
           x.count = page[p].count, x.suspends = page[p].suspends, x.bars = page[p].bars,
           x.saw = page[p].saw,
           x.frozen => page[p].frozen \/ Released,
           UNCHANGED <<template, recipe, marker, counter, sibling, owned, locker, missed,
                       swallowed>>
    PROVE  LearningInv'
<1>1. /\ page' \in [Pages -> PageStates] /\ page'[p] = x
      /\ \A q \in Pages \ {p} : page'[q] = page[q]
    BY OnePage DEF LearningInv
<1>2. LearningTypeOK'
    BY <1>1 DEF LearningInv, LearningTypeOK
<1>3. /\ page[p].saw = "nothing" /\ page[p].count = {} /\ ~page[p].suspends
      /\ ~page[p].bars /\ locker # p
    BY DEF LearningInv, PageInv
<1>4. Fine(p)'
    BY <1>1, <1>3 DEF LearningInv, Fine, PageInv, Uncommitted, PendingDrift, PendingReset
<1>5. \A q \in Pages \ {p} : Fine(q)'
    BY <1>1 DEF LearningInv, Fine, PageInv, Uncommitted, PendingDrift, PendingReset
<1>6. ScopeInv' /\ CompileInv' /\ CounterInv'
    BY <1>1 DEF LearningInv, ScopeInv, CompileInv, CounterInv, Released
<1> QED BY <1>2, <1>4, <1>5, <1>6 DEF LearningInv, Fine

LEMMA MoveStep ==
    ASSUME LearningInv, NEW p \in Pages,
           \/ StartRun(p) \/ Extract(p) \/ NotLearned(p) \/ ClaimTimesOut(p)
           \/ CompiledNothing(p) \/ (ClaimRecipe(p) /\ ~Claimable)
           \/ (NoteDrift(p) /\ template # "active")
    PROVE  LearningInv'
<1>1. page \in [Pages -> PageStates] /\ page[p] \in PageStates
    BY DEF LearningInv, LearningTypeOK
<1>2. CASE StartRun(p)
    <2> DEFINE x == [page[p] EXCEPT !.frozen = Released]
    <2>1. x \in PageStates /\ page' = [page EXCEPT ![p] = x]
        BY <1>1, <1>2 DEF StartRun, PageStates, Released
    <2>2. /\ x.at = "idle" /\ x.count = page[p].count /\ x.suspends = page[p].suspends
          /\ x.bars = page[p].bars /\ x.saw = page[p].saw /\ x.frozen = Released
          /\ page[p].at = "idle"
        BY <1>1, <1>2 DEF StartRun, PageStates
    <2> HIDE DEF x
    <2> QED BY <1>2, <2>1, <2>2, Move DEF StartRun
<1>3. CASE ~StartRun(p)
    <2>1. PICK at \in Stages :
              Proceeds(p, at) /\ at \notin {"noted", "recorded", "compiling"}
        BY <1>3 DEF Extract, NotLearned, ClaimTimesOut, CompiledNothing, ClaimRecipe, NoteDrift, Stages
    <2> DEFINE x == [page[p] EXCEPT !.at = at]
    <2>2. x \in PageStates /\ page' = [page EXCEPT ![p] = x]
        BY <1>1, <2>1 DEF Proceeds, PageStates
    <2>3. /\ x.at = at /\ x.count = page[p].count /\ x.suspends = page[p].suspends
          /\ x.bars = page[p].bars /\ x.saw = page[p].saw /\ x.frozen = page[p].frozen
        BY <1>1 DEF PageStates
    <2>4. page[p].at \notin {"noted", "resetting", "recorded"}
        BY <1>3 DEF Extract, NotLearned, ClaimTimesOut, CompiledNothing, ClaimRecipe, NoteDrift
    <2>5. UNCHANGED <<template, recipe, marker, counter, sibling, owned, locker, missed, swallowed>>
        BY <1>3 DEF Extract, NotLearned, ClaimTimesOut, CompiledNothing, ClaimRecipe, NoteDrift
    <2> HIDE DEF x
    <2> QED BY <2>1, <2>2, <2>3, <2>4, <2>5, Move
<1> QED BY <1>2, <1>3

\* While the recipe is not active and may be claimed or compiled, no page that has it
\* waits to write under a template in use.
LEMMA NothingPending ==
    ASSUME LearningInv, recipe # "active", NEW q \in Pages
    PROVE  /\ page[q].saw = "nothing" /\ ~page[q].suspends /\ page[q].at # "noted"
           /\ page[q].frozen => template = "suspended"
BY DEF LearningInv, LearningTypeOK, PageStates, PageInv, PendingDrift, PendingReset, ScopeInv

LEMMA ClaimStep ==
    ASSUME LearningInv, NEW p \in Pages, ClaimRecipe(p), Claimable
    PROVE  LearningInv'
<1> DEFINE x == [page[p] EXCEPT !.at = "compiling"]
<1>1. page \in [Pages -> PageStates] /\ page[p] \in PageStates
    BY DEF LearningInv, LearningTypeOK
<1>2. /\ page' = [page EXCEPT ![p] = x] /\ recipe' = "provisional" /\ marker' = "fresh"
      /\ template' = IF template = "none" THEN "active" ELSE template
      /\ UNCHANGED <<counter, sibling, owned, locker, missed, swallowed>>
      /\ page[p].at = "empty" /\ ~page[p].frozen /\ recipe # "active" /\ marker # "fresh"
    BY <1>1 DEF ClaimRecipe, Claimable, Proceeds, PageStates
<1>3. /\ x \in PageStates /\ x.at = "compiling" /\ x.frozen = page[p].frozen /\ x.count = page[p].count
      /\ x.suspends = page[p].suspends /\ x.bars = page[p].bars /\ x.saw = page[p].saw
    BY <1>1 DEF PageStates, Stages
<1> HIDE DEF x
<1>4. /\ page' \in [Pages -> PageStates] /\ page'[p] = x
      /\ \A q \in Pages \ {p} : page'[q] = page[q]
    BY <1>2, <1>3, OnePage DEF LearningInv
<1>5. LearningTypeOK'
    BY <1>2, <1>4 DEF LearningInv, LearningTypeOK
<1>6. /\ page[p].saw = "nothing" /\ page[p].count = {} /\ ~page[p].suspends
      /\ ~page[p].bars /\ locker # p
    BY <1>2 DEF LearningInv, PageInv
<1>7. Fine(p)'
    BY <1>2, <1>3, <1>4, <1>6 DEF Fine, PageInv, Uncommitted, PendingDrift, PendingReset
<1>8. ASSUME NEW q \in Pages \ {p} PROVE Fine(q)'
    <2>1. page'[q] = page[q] /\ page[q].saw = "nothing"
        BY <1>2, <1>4, NothingPending
    <2> QED BY <1>2, <2>1 DEF LearningInv, Fine, PageInv, Uncommitted, PendingDrift, PendingReset
<1>9. ScopeInv'
    <2>1. \A q \in Pages : page'[q].frozen => template = "suspended"
        BY <1>2, <1>3, <1>4, NothingPending
    <2> QED BY <1>2, <2>1 DEF ScopeInv
<1>10. CompileInv'
    BY <1>2, <1>4 DEF LearningInv, CompileInv
<1>11. CounterInv'
    BY <1>2 DEF LearningInv, CounterInv
<1> QED BY <1>5, <1>7, <1>8, <1>9, <1>10, <1>11 DEF LearningInv, Fine

LEMMA CompiledStep ==
    ASSUME LearningInv, NEW p \in Pages, Compiled(p)
    PROVE  LearningInv'
<1> DEFINE x == [page[p] EXCEPT !.at = "recording"]
<1>1. page \in [Pages -> PageStates] /\ page[p] \in PageStates
    BY DEF LearningInv, LearningTypeOK
<1>2. /\ page' = [page EXCEPT ![p] = x] /\ recipe' = "active" /\ marker' = "none"
      /\ counter' = 0 /\ missed' = 0 /\ swallowed' = FALSE
      /\ UNCHANGED <<template, sibling, owned, locker>> /\ page[p].at = "compiling"
    BY <1>1 DEF Compiled, Proceeds, PageStates
<1>3. /\ x \in PageStates /\ x.at = "recording" /\ x.frozen = page[p].frozen /\ x.count = page[p].count
      /\ x.suspends = page[p].suspends /\ x.bars = page[p].bars /\ x.saw = page[p].saw
    BY <1>1 DEF PageStates, Stages
<1> HIDE DEF x
<1>4. /\ page' \in [Pages -> PageStates] /\ page'[p] = x
      /\ \A q \in Pages \ {p} : page'[q] = page[q]
    BY <1>2, <1>3, OnePage DEF LearningInv
<1>5. LearningTypeOK'
    <2>1. 0 \in 0 .. DriftThreshold
        BY RecipeLearningAssumption
    <2> QED BY <1>2, <1>4, <2>1 DEF LearningInv, LearningTypeOK
<1>6. recipe # "active" /\ \A q \in Pages \ {p} : page[q].at # "compiling"
    BY <1>2 DEF LearningInv, CompileInv
<1>7. /\ page[p].saw = "nothing" /\ page[p].count = {} /\ ~page[p].suspends
      /\ ~page[p].bars /\ locker # p
    BY <1>2 DEF LearningInv, PageInv
<1>8. Fine(p)'
    BY <1>2, <1>3, <1>4, <1>7 DEF Fine, PageInv, Uncommitted, PendingDrift, PendingReset
<1>9. ASSUME NEW q \in Pages \ {p} PROVE Fine(q)'
    <2>1. page'[q] = page[q] /\ page[q].saw = "nothing"
        BY <1>2, <1>4, <1>6, NothingPending
    <2> QED BY <1>2, <2>1 DEF LearningInv, Fine, PageInv, Uncommitted, PendingDrift, PendingReset
<1>10. template # "none"
    BY <1>2 DEF LearningInv, CompileInv, ScopeInv
<1>11. ScopeInv' /\ CompileInv'
    BY <1>2, <1>3, <1>4, <1>6, <1>10 DEF ScopeInv, CompileInv
<1>12. CounterInv'
    BY <1>2, RecipeLearningAssumption DEF CounterInv
<1> QED BY <1>5, <1>8, <1>9, <1>11, <1>12 DEF LearningInv, Fine

LEMMA ScopeStep ==
    ASSUME LearningInv, AttemptAges \/ OperatorOwns
    PROVE  LearningInv'
<1>1. UNCHANGED <<template, recipe, counter, sibling, locker, page, missed, swallowed>>
      /\ (owned => owned')
    BY DEF AttemptAges, OperatorOwns
<1>2. LearningTypeOK'
    BY <1>1 DEF LearningInv, LearningTypeOK, AttemptAges, OperatorOwns
<1>3. \A q \in Pages : Fine(q)'
    BY <1>1 DEF LearningInv, Fine, PageInv, Uncommitted, PendingDrift, PendingReset
<1>4. ScopeInv' /\ CounterInv'
    BY <1>1 DEF LearningInv, ScopeInv, CounterInv
<1>5. CompileInv'
    BY <1>1 DEF LearningInv, CompileInv, AttemptAges, OperatorOwns
<1> QED BY <1>2, <1>3, <1>4, <1>5 DEF LearningInv, Fine

\* A page that takes the locks finds nothing of the scope waiting to be committed.
LEMMA Unlocked ==
    ASSUME LearningInv, locker = Nobody, NEW q \in Pages
    PROVE  ~Uncommitted(page[q]) /\ page[q].at # "noted"
BY RecipeLearningAssumption DEF LearningInv, PageInv

LEMMA NoteDriftStep ==
    ASSUME LearningInv, NEW p \in Pages, NoteDrift(p), template = "active"
    PROVE  LearningInv'
<1> DEFINE x == [page[p] EXCEPT
                    !.at = "noted",
                    !.count = IF sibling = "active" \/ recipe # "active" THEN {}
                              ELSE {OneMore(counter)},
                    !.suspends = /\ sibling # "active" /\ recipe = "active"
                                 /\ counter + 1 >= DriftThreshold
                                 /\ ~owned,
                    !.saw = "drift"]
<1> USE RecipeLearningAssumption
<1>1. /\ page \in [Pages -> PageStates] /\ page[p] \in PageStates /\ counter \in 0 .. DriftThreshold
      /\ swallowed \in BOOLEAN /\ owned \in BOOLEAN
    BY DEF LearningInv, LearningTypeOK
<1>2. /\ page' = [page EXCEPT ![p] = x] /\ locker' = p
      /\ swallowed' = (swallowed \/ sibling = "active")
      /\ UNCHANGED <<template, recipe, marker, counter, sibling, owned, missed>>
      /\ page[p].at = "empty" /\ page[p].frozen /\ RowsFree(p)
    BY <1>1 DEF NoteDrift, PageStates
<1>3. recipe = "active"
    BY <1>2 DEF LearningInv, ScopeInv
<1>4. OneMore(counter) \in 0 .. DriftThreshold
    BY <1>1 DEF OneMore
<1>5. /\ x \in PageStates /\ x.at = "noted" /\ x.frozen = page[p].frozen /\ x.saw = "drift"
      /\ x.count = IF sibling = "active" THEN {} ELSE {OneMore(counter)}
      /\ x.suspends <=> sibling # "active" /\ counter + 1 >= DriftThreshold /\ ~owned
      /\ x.bars = page[p].bars
    BY <1>1, <1>3, <1>4 DEF PageStates, Stages
<1> HIDE DEF x
<1>6. /\ page' \in [Pages -> PageStates] /\ page'[p] = x
      /\ \A q \in Pages \ {p} : page'[q] = page[q]
    BY <1>2, <1>5, OnePage DEF LearningInv
<1>7. locker = Nobody /\ ~page[p].bars
    BY <1>2 DEF LearningInv, PageInv, RowsFree
<1>8. LearningTypeOK'
    BY <1>2, <1>6 DEF LearningInv, LearningTypeOK
<1>9. Fine(p)'
    <2>1. PageInv(p)'
        BY <1>2, <1>5, <1>6, <1>7 DEF PageInv, Uncommitted
    <2>2. PendingDrift(p)'
        <3>1. x.suspends => counter + 1 >= DriftThreshold
            BY <1>5
        <3>2. ASSUME ~swallowed'
              PROVE  /\ x.count = {OneMore(counter)}
                     /\ x.suspends \/ owned \/ counter + 1 < DriftThreshold
            <4>1. sibling # "active"
                BY <1>2, <3>2
            <4>2. counter + 1 >= DriftThreshold \/ counter + 1 < DriftThreshold
                BY <1>1
            <4>3. x.count = {OneMore(counter)}
                BY <1>5, <4>1
            <4> QED BY <1>5, <4>1, <4>2, <4>3
        <3>3. OneMore(counter)' = OneMore(counter)
            BY <1>2 DEF OneMore
        <3> QED BY <1>2, <1>3, <1>6, <3>1, <3>2, <3>3 DEF PendingDrift
    <2>3. PendingReset(p)'
        BY <1>5, <1>6 DEF PendingReset
    <2> QED BY <2>1, <2>2, <2>3 DEF Fine
<1>10. ASSUME NEW q \in Pages \ {p} PROVE Fine(q)'
    <2>1. ~Uncommitted(page[q]) /\ page[q].at # "noted"
        BY <1>7, Unlocked
    <2>2. PageInv(q) /\ locker' # q
        BY <1>2, <1>7 DEF LearningInv
    <2> QED BY <1>2, <1>6, <2>1, <2>2 DEF Fine, PageInv, Uncommitted, PendingDrift, PendingReset
<1>11. ScopeInv' /\ CompileInv'
    BY <1>2, <1>3, <1>5, <1>6 DEF LearningInv, ScopeInv, CompileInv
<1>12. CounterInv'
    BY <1>2 DEF LearningInv, CounterInv
<1> QED BY <1>8, <1>9, <1>10, <1>11, <1>12 DEF LearningInv, Fine

\* Pages that wrote nothing of the scope are not disturbed by whoever takes its locks or
\* leaves them.
LEMMA OthersStay ==
    ASSUME LearningInv, NEW p \in Pages, \A q \in Pages \ {p} : page'[q] = page[q],
           UNCHANGED <<template, recipe, counter, owned>>,
           swallowed => swallowed', swallowed \in BOOLEAN,
           \/ locker' = locker
           \/ locker = Nobody /\ locker' = p
           \/ locker = p /\ locker' = Nobody
    PROVE  \A q \in Pages \ {p} : Fine(q)'
<1> USE RecipeLearningAssumption
<1>1. OneMore(counter)' = OneMore(counter)
    BY DEF OneMore
<1>2. ASSUME NEW q \in Pages \ {p}
      PROVE  Fine(q)'
    <2>1. page'[q] = page[q] /\ PageInv(q) /\ PendingDrift(q) /\ PendingReset(q)
        BY DEF LearningInv
    <2>2. locker' = q <=> locker = q
        OBVIOUS
    <2>3. PageInv(q)'
        BY <2>1, <2>2 DEF PageInv, Uncommitted
    <2>4. PendingDrift(q)' /\ PendingReset(q)'
        BY <1>1, <2>1 DEF PendingDrift, PendingReset
    <2> QED BY <2>3, <2>4 DEF Fine
<1> QED BY <1>2

\* A page records: what it does of the scope's rows it does under their lock.
LEMMA Records ==
    ASSUME LearningInv, NEW p \in Pages, NEW x \in PageStates,
           page' = [page EXCEPT ![p] = x], x.at # "compiling", x.frozen = page[p].frozen,
           UNCHANGED <<template, recipe, marker, counter, owned, missed>>,
           swallowed => swallowed', swallowed' \in BOOLEAN, sibling' = sibling,
           \/ locker' = locker
           \/ locker = Nobody /\ locker' = p
           \/ locker = p /\ locker' = Nobody,
           Fine(p)'
    PROVE  LearningInv'
<1>1. /\ page' \in [Pages -> PageStates] /\ page'[p] = x
      /\ \A q \in Pages \ {p} : page'[q] = page[q]
    BY OnePage DEF LearningInv
<1>2. LearningTypeOK'
    BY <1>1 DEF LearningInv, LearningTypeOK
<1>3. \A q \in Pages \ {p} : Fine(q)'
    BY <1>1, OthersStay DEF LearningInv, LearningTypeOK
<1>4. ScopeInv' /\ CompileInv' /\ CounterInv'
    BY <1>1 DEF LearningInv, LearningTypeOK, ScopeInv, CompileInv, CounterInv
<1> QED BY <1>2, <1>3, <1>4 DEF LearningInv, Fine

LEMMA RecordPageStep ==
    ASSUME LearningInv, NEW p \in Pages, RecordPage(p)
    PROVE  LearningInv'
<1> DEFINE left == IF sibling = "none" THEN "active" ELSE sibling
<1> DEFINE x == [page[p] EXCEPT !.at = Onwards(page[p].at), !.sib = {left}]
<1>1. page[p] \in PageStates /\ left \in {"active", "suspended"} /\ swallowed \in BOOLEAN
    BY DEF LearningInv, LearningTypeOK
<1>2. /\ UNCHANGED <<template, recipe, marker, counter, sibling, owned, locker, missed, swallowed>>
      /\ page[p].at \in {"recording", "filled", "noted", "replayed", "matched"} /\ ~page[p].suspends
      /\ page' = [page EXCEPT ![p] = x]
    BY <1>1 DEF RecordPage, LearningInv, PageInv, PageStates
<1>3. Onwards(page[p].at) \in {"sampled", "resetting", "recorded"}
      /\ (page[p].at = "noted" => Onwards(page[p].at) = "recorded")
    BY DEF Onwards
<1>4. /\ x \in PageStates /\ x.at = Onwards(page[p].at) /\ x.frozen = page[p].frozen
      /\ x.saw = page[p].saw /\ x.count = page[p].count /\ x.suspends = page[p].suspends
      /\ x.bars = page[p].bars
    BY <1>1, <1>3 DEF PageStates, Stages
<1> HIDE DEF x
<1>5. page'[p] = x
    BY <1>2, <1>4, OnePage DEF LearningInv
<1>6. OneMore(counter)' = OneMore(counter)
    BY <1>2 DEF OneMore
<1>7. PageInv(p) /\ PendingDrift(p) /\ PendingReset(p)
    BY DEF LearningInv
<1>8. PageInv(p)'
    BY <1>2, <1>3, <1>4, <1>5, <1>7 DEF PageInv, Uncommitted
<1>9. PendingDrift(p)' /\ PendingReset(p)'
    BY <1>2, <1>4, <1>5, <1>6, <1>7 DEF PendingDrift, PendingReset
<1> QED BY <1>1, <1>2, <1>3, <1>4, <1>8, <1>9, Records DEF Fine

LEMMA SentinelStep ==
    ASSUME LearningInv, NEW p \in Pages, Sentinel(p)
    PROVE  LearningInv'
<1>1. page[p] \in PageStates /\ swallowed \in BOOLEAN
    BY DEF LearningInv, LearningTypeOK
<1>2. /\ UNCHANGED <<template, recipe, marker, counter, sibling, owned, missed, swallowed>>
      /\ page[p].at = "sampled"
    BY DEF Sentinel
<1>3. /\ page[p].saw = "nothing" /\ page[p].count = {} /\ ~page[p].suspends
      /\ ~page[p].bars /\ locker # p
    BY <1>2 DEF LearningInv, PageInv
<1>4. PICK bars \in BOOLEAN, sib \in SUBSET {"active", "suspended"} :
        /\ page' = [page EXCEPT ![p] = [page[p] EXCEPT !.at = "resetting", !.bars = bars,
                                                      !.sib = sib]]
        /\ IF bars THEN RowsFree(p) /\ locker' = p ELSE locker' = locker
    <2> DEFINE Now(b, s) == [page[p] EXCEPT !.at = "resetting", !.bars = b, !.sib = s]
    <2>1. page[p].sib \in SUBSET {"active", "suspended"} /\ page[p].bars = FALSE
        BY <1>1, <1>3 DEF PageStates
    <2>2. CASE Proceeds(p, "resetting") /\ UNCHANGED locker
        <3>1. [page[p] EXCEPT !.at = "resetting"] = Now(FALSE, page[p].sib)
            BY <1>1, <2>1 DEF PageStates
        <3>2. page' = [page EXCEPT ![p] = Now(FALSE, page[p].sib)]
            BY <2>2, <3>1 DEF Proceeds
        <3> QED BY <2>1, <2>2, <3>2
    <2>3. CASE /\ page' = [page EXCEPT ![p].at = "resetting", ![p].sib = {"suspended"}]
               /\ UNCHANGED locker
        <3>1. [page[p] EXCEPT !.at = "resetting", !.sib = {"suspended"}] = Now(FALSE, {"suspended"})
            BY <1>1, <2>1 DEF PageStates
        <3>2. page' = [page EXCEPT ![p] = [page[p] EXCEPT !.at = "resetting", !.sib = {"suspended"}]]
            BY <1>1, <2>3
        <3>3. {"suspended"} \in SUBSET {"active", "suspended"}
            OBVIOUS
        <3>4. page' = [page EXCEPT ![p] = Now(FALSE, {"suspended"})]
            BY <3>1, <3>2
        <3> QED BY <2>3, <3>3, <3>4
    <2>4. CASE /\ page' = [page EXCEPT ![p].at = "resetting", ![p].bars = TRUE]
               /\ RowsFree(p) /\ locker' = p
        <3>1. [page[p] EXCEPT !.at = "resetting", !.bars = TRUE] = Now(TRUE, page[p].sib)
            BY <1>1, <2>1 DEF PageStates
        <3>2. page' = [page EXCEPT ![p] = [page[p] EXCEPT !.at = "resetting", !.bars = TRUE]]
            BY <1>1, <2>4
        <3> QED BY <2>1, <2>4, <3>1, <3>2
    <2> QED BY <2>2, <2>3, <2>4 DEF Sentinel
<1> DEFINE x == [page[p] EXCEPT !.at = "resetting", !.bars = bars, !.sib = sib]
<1>5. /\ x \in PageStates /\ x.at = "resetting" /\ x.frozen = page[p].frozen
      /\ x.saw = "nothing" /\ x.count = {} /\ ~x.suspends /\ x.bars = bars
      /\ page' = [page EXCEPT ![p] = x]
    BY <1>1, <1>3, <1>4 DEF PageStates, Stages
<1> HIDE DEF x
<1>6. locker' = locker \/ (locker = Nobody /\ locker' = p)
    BY <1>3, <1>4 DEF RowsFree
<1>7. page'[p] = x
    BY <1>5, OnePage DEF LearningInv
<1>8. Fine(p)'
    BY <1>3, <1>4, <1>5, <1>7 DEF Fine, PageInv, Uncommitted, PendingDrift, PendingReset
<1> QED BY <1>1, <1>2, <1>5, <1>6, <1>8, Records

LEMMA ResetDriftStep ==
    ASSUME LearningInv, NEW p \in Pages, ResetDrift(p)
    PROVE  LearningInv'
<1> USE RecipeLearningAssumption
<1>1. page[p] \in PageStates /\ swallowed \in BOOLEAN /\ 0 \in 0 .. DriftThreshold
    BY DEF LearningInv, LearningTypeOK
<1>2. /\ UNCHANGED <<template, recipe, marker, counter, sibling, owned, missed, swallowed>>
      /\ page[p].at = "resetting"
    BY DEF ResetDrift
<1>3. /\ page[p].saw = "nothing" /\ page[p].count = {} /\ ~page[p].suspends
      /\ (page[p].bars <=> locker = p)
    BY <1>2 DEF LearningInv, PageInv, Uncommitted
<1>4. CASE template = "active" /\ ~page[p].bars
    <2> DEFINE x == [page[p] EXCEPT
                        !.at = "recorded",
                        !.count = IF recipe = "active" /\ counter # 0 THEN {0} ELSE {},
                        !.saw = IF recipe = "active" THEN "success" ELSE "nothing"]
    <2>1. page' = [page EXCEPT ![p] = x] /\ locker' = p /\ locker = Nobody
        <3>1. /\ locker' = p /\ RowsFree(p)
              /\ page' = [page EXCEPT
                    ![p].at = "recorded",
                    ![p].count = IF recipe = "active" /\ counter # 0 THEN {0} ELSE {},
                    ![p].saw = IF recipe = "active" THEN "success" ELSE "nothing"]
            BY <1>4 DEF ResetDrift
        <3>2. page' = [page EXCEPT ![p] = x]
            BY <3>1 DEF LearningInv, LearningTypeOK
        <3> QED BY <1>3, <1>4, <3>1, <3>2 DEF RowsFree
    <2>2. /\ x \in PageStates /\ x.at = "recorded" /\ x.frozen = page[p].frozen
          /\ x.saw = (IF recipe = "active" THEN "success" ELSE "nothing")
          /\ x.count = (IF recipe = "active" /\ counter # 0 THEN {0} ELSE {})
          /\ ~x.suspends /\ ~x.bars
        BY <1>1, <1>3, <1>4 DEF PageStates, Stages
    <2> HIDE DEF x
    <2>3. page'[p] = x
        BY <2>1, <2>2, OnePage DEF LearningInv
    <2>4. Fine(p)'
        BY <1>2, <1>4, <2>1, <2>2, <2>3 DEF Fine, PageInv, Uncommitted, PendingDrift, PendingReset
    <2> QED BY <1>1, <1>2, <2>1, <2>2, <2>4, Records
<1>5. CASE ~(template = "active" /\ ~page[p].bars)
    <2> DEFINE x == [page[p] EXCEPT !.at = "recorded"]
    <2>1. page' = [page EXCEPT ![p] = x] /\ locker' = locker
        BY <1>1, <1>5 DEF ResetDrift, Proceeds, PageStates
    <2>2. /\ x \in PageStates /\ x.at = "recorded" /\ x.frozen = page[p].frozen
          /\ x.saw = "nothing" /\ x.count = {} /\ ~x.suspends /\ x.bars = page[p].bars
        BY <1>1, <1>3 DEF PageStates, Stages
    <2> HIDE DEF x
    <2>3. page'[p] = x
        BY <2>1, <2>2, OnePage DEF LearningInv
    <2>4. Fine(p)'
        BY <1>3, <2>1, <2>2, <2>3 DEF Fine, PageInv, Uncommitted, PendingDrift, PendingReset
    <2> QED BY <1>1, <1>2, <2>1, <2>2, <2>4, Records
<1> QED BY <1>4, <1>5

LEMMA RecordingFailsStep ==
    ASSUME LearningInv, NEW p \in Pages, RecordingFails(p)
    PROVE  LearningInv'
<1> DEFINE x == [page[p] EXCEPT !.at = "recorded", !.bars = FALSE, !.sib = {}]
<1>1. page[p] \in PageStates /\ swallowed \in BOOLEAN
    BY DEF LearningInv, LearningTypeOK
<1>2. /\ UNCHANGED <<template, recipe, marker, counter, sibling, owned, missed>>
      /\ page[p].at \in {"recording", "filled", "replayed", "matched", "sampled", "resetting"}
           \/ (page[p].at = "noted" /\ ~page[p].suspends)
      /\ page' = [page EXCEPT ![p] = x]
      /\ locker' = (IF page[p].bars THEN Nobody ELSE locker)
      /\ swallowed' \in BOOLEAN /\ (swallowed => swallowed')
    <2>1. page' = [page EXCEPT ![p].at = "recorded", ![p].bars = FALSE, ![p].sib = {}]
        BY DEF RecordingFails
    <2>2. page' = [page EXCEPT ![p] = x]
        BY <2>1 DEF LearningInv, LearningTypeOK
    <2>3. swallowed' \in BOOLEAN /\ (swallowed => swallowed')
        <3> DEFINE error == template = "active" /\ page[p].at \in Resets
        <3>1. swallowed' = (swallowed \/ error)
            BY DEF RecordingFails
        <3>2. (swallowed \/ error) \in BOOLEAN /\ (swallowed => (swallowed \/ error))
            OBVIOUS
        <3> QED BY <3>1, <3>2
    <2> QED BY <2>2, <2>3 DEF RecordingFails, Resets
<1>3. /\ x \in PageStates /\ x.at = "recorded" /\ x.frozen = page[p].frozen
      /\ x.saw = page[p].saw /\ x.count = page[p].count /\ x.suspends = page[p].suspends
      /\ ~x.bars
    BY <1>1 DEF PageStates, Stages
<1> HIDE DEF x
<1>4. page'[p] = x
    BY <1>2, <1>3, OnePage DEF LearningInv
<1>5. PageInv(p) /\ PendingDrift(p) /\ PendingReset(p)
    BY DEF LearningInv
<1>6. ~x.suspends /\ (page[p].bars => locker = p /\ x.saw = "nothing")
    BY <1>2, <1>3, <1>5 DEF PageInv, Uncommitted
<1>7. locker' = locker \/ (locker = p /\ locker' = Nobody)
    BY <1>2, <1>6
<1>8. OneMore(counter)' = OneMore(counter)
    BY <1>2 DEF OneMore
<1>9. PageInv(p)'
    <2>1. CASE page[p].bars
        <3>1. locker' # p
            BY <1>2, <2>1, RecipeLearningAssumption
        <3>2. x.count = {} /\ x.saw = "nothing"
            BY <1>3, <1>5, <1>6, <2>1 DEF PageInv
        <3> QED BY <1>3, <1>4, <1>6, <3>1, <3>2 DEF PageInv, Uncommitted
    <2>2. CASE ~page[p].bars
        BY <1>2, <1>3, <1>4, <1>5, <1>6, <2>2 DEF PageInv, Uncommitted
    <2> QED BY <2>1, <2>2
<1>10. PendingDrift(p)' /\ PendingReset(p)'
    BY <1>2, <1>3, <1>4, <1>5, <1>8 DEF PendingDrift, PendingReset
<1> QED BY <1>1, <1>2, <1>3, <1>7, <1>9, <1>10, Records DEF Fine

LEMMA RestIsIn ==
    ASSUME LearningInv, NEW p \in Pages, NEW at \in Stages, at \in {"idle", "recording"},
           Cleared(p, at)
    PROVE  /\ page' \in [Pages -> PageStates]
           /\ \A q \in Pages \ {p} : page'[q] = page[q]
           /\ page'[p].at = at /\ page'[p].frozen = page[p].frozen /\ page'[p].count = {}
           /\ ~page'[p].suspends /\ ~page'[p].bars /\ page'[p].saw = "nothing"
<1> DEFINE x == [at |-> at, frozen |-> page[p].frozen, count |-> {}, suspends |-> FALSE,
                 bars |-> FALSE, sib |-> {}, saw |-> "nothing"]
<1>1. x \in PageStates /\ page' = [page EXCEPT ![p] = x]
    BY DEF Cleared, LearningInv, LearningTypeOK, PageStates
<1>2. /\ page' \in [Pages -> PageStates] /\ page'[p] = x
      /\ \A q \in Pages \ {p} : page'[q] = page[q]
    BY <1>1, OnePage DEF LearningInv
<1> QED BY <1>2

LEMMA PageFailsStep ==
    ASSUME LearningInv, NEW p \in Pages, PageFails(p)
    PROVE  LearningInv'
<1> USE RecipeLearningAssumption
<1>1. /\ UNCHANGED <<template, recipe, marker, counter, sibling, owned, missed, swallowed>>
      /\ locker' = (IF locker = p THEN Nobody ELSE locker) /\ Cleared(p, "idle") /\ "idle" \in Stages
    BY DEF PageFails, Stages
<1>2. /\ page' \in [Pages -> PageStates]
      /\ \A q \in Pages \ {p} : page'[q] = page[q]
      /\ page'[p].at = "idle" /\ page'[p].frozen = page[p].frozen /\ page'[p].count = {}
      /\ ~page'[p].suspends /\ ~page'[p].bars /\ page'[p].saw = "nothing"
    BY <1>1, RestIsIn
<1>3. LearningTypeOK'
    BY <1>1, <1>2 DEF LearningInv, LearningTypeOK
<1>4. locker' # p
    BY <1>1
<1>5. Fine(p)'
    BY <1>1, <1>2, <1>4 DEF Fine, PageInv, Uncommitted, PendingDrift, PendingReset
<1>6. ASSUME NEW q \in Pages \ {p} PROVE Fine(q)'
    <2>1. OneMore(counter)' = OneMore(counter) /\ page'[q] = page[q]
        BY <1>1, <1>2 DEF OneMore
    <2>2. (locker = q => locker' = q) /\ (locker' = q => locker = q)
        BY <1>1
    <2>3. PageInv(q) /\ PendingDrift(q) /\ PendingReset(q)
        BY DEF LearningInv
    <2>4. PageInv(q)'
        BY <2>1, <2>2, <2>3 DEF PageInv, Uncommitted
    <2>5. PendingDrift(q)'
        BY <1>1, <2>1, <2>3 DEF PendingDrift
    <2>6. PendingReset(q)'
        BY <1>1, <2>1, <2>2, <2>3 DEF PendingReset
    <2> QED BY <2>4, <2>5, <2>6 DEF Fine
<1>7. ScopeInv' /\ CompileInv' /\ CounterInv'
    BY <1>1, <1>2 DEF LearningInv, ScopeInv, CompileInv, CounterInv
<1> QED BY <1>3, <1>5, <1>6, <1>7 DEF LearningInv, Fine

\* What a commit of a page makes visible: a suspension and the last of DriftThreshold drifts
\* come together, and only the page with the lock changes the recipe's rows.
LEMMA CommitWrites ==
    ASSUME LearningInv, NEW p \in Pages, page[p].at \in {"noted", "recorded"}, Written(p),
           UNCHANGED <<marker, owned, swallowed>>
    PROVE  /\ locker # p => UNCHANGED <<counter, recipe, template, locker, missed>>
           /\ locker = p => locker' = Nobody
           /\ ~page[p].suspends => recipe' = recipe /\ template' \in {template, "suspended"}
           /\ page[p].suspends => /\ recipe' = "suspended" /\ template' = "suspended"
                                  /\ recipe = "active" /\ template = "active"
                                  /\ ~swallowed => missed' = DriftThreshold
           /\ counter' \in 0 .. DriftThreshold /\ missed' \in 0 .. DriftThreshold
           /\ sibling' \in {"none", "active", "suspended"}
           /\ CounterInv'
<1> USE RecipeLearningAssumption
<1> DEFINE x == page[p]
<1>1. /\ counter \in 0 .. DriftThreshold /\ missed \in 0 .. DriftThreshold /\ x \in PageStates
      /\ x.count \subseteq 0 .. DriftThreshold /\ x.sib \subseteq {"active", "suspended"}
      /\ x.saw \in {"nothing", "drift", "success"} /\ x.suspends \in BOOLEAN
      /\ x.bars \in BOOLEAN /\ template \in {"none", "active", "suspended"}
      /\ sibling \in {"none", "active", "suspended"}
    BY DEF LearningInv, LearningTypeOK, PageStates
<1>2. /\ counter' = (IF x.count = {} THEN counter ELSE CHOOSE n \in x.count : TRUE)
      /\ missed' = (IF x.saw = "drift" THEN OneMore(missed) ELSE IF x.saw = "success" THEN 0 ELSE missed)
      /\ recipe' = (IF x.suspends THEN "suspended" ELSE recipe)
      /\ template' = (IF x.suspends \/ x.bars THEN "suspended" ELSE template)
      /\ sibling' = (IF x.sib = {} THEN sibling ELSE CHOOSE s \in x.sib : TRUE)
      /\ locker' = (IF locker = p THEN Nobody ELSE locker)
      /\ owned' = owned /\ swallowed' = swallowed
    BY DEF Written
<1>3. PageInv(p) /\ PendingDrift(p) /\ PendingReset(p) /\ ScopeInv /\ CounterInv
    BY DEF LearningInv
<1>4. /\ counter' \in 0 .. DriftThreshold /\ missed' \in 0 .. DriftThreshold
      /\ sibling' \in {"none", "active", "suspended"}
    BY <1>1, <1>2 DEF OneMore
<1>5. x.suspends => x.saw = "drift" /\ recipe = "active" /\ template = "active" /\ counter + 1 >= DriftThreshold
    BY <1>3 DEF PageInv, PendingDrift
<1>6. x.suspends /\ ~swallowed => missed' = DriftThreshold
    <2>1. x.suspends /\ ~swallowed => counter = missed
        BY <1>3, <1>5 DEF CounterInv
    <2> QED BY <1>1, <1>2, <1>5, <2>1 DEF OneMore
<1>7. CounterInv'
    <2>1. CASE x.saw = "drift"
        <3>1. template = "active" /\ recipe = "active"
            BY <1>3, <2>1 DEF PendingDrift
        <3>2. CASE x.suspends
            BY <1>2, <3>2 DEF CounterInv
        <3>3. CASE ~x.suspends /\ ~swallowed
            <4>1. counter = missed /\ x.count = {OneMore(counter)} /\ (owned \/ counter + 1 < DriftThreshold)
                BY <1>3, <2>1, <3>1, <3>3 DEF PendingDrift, CounterInv
            <4>2. counter' = OneMore(counter) /\ missed' = OneMore(counter)
                BY <1>2, <2>1, <4>1
            <4>3. owned' \/ missed' < DriftThreshold
                BY <1>1, <1>2, <4>1, <4>2 DEF OneMore
            <4> QED BY <1>2, <3>1, <3>3, <4>2, <4>3 DEF CounterInv
        <3>4. CASE ~x.suspends /\ swallowed
            BY <1>2, <3>1, <3>4 DEF CounterInv
        <3> QED BY <3>2, <3>3, <3>4
    <2>2. CASE x.saw = "success"
        <3>1. ~x.suspends /\ missed' = 0 /\ template = "active"
            BY <1>2, <1>3, <1>5, <2>2 DEF PendingReset
        <3>2. counter' = 0
            BY <1>2, <1>3, <2>2 DEF PendingReset
        <3> QED BY <3>1, <3>2 DEF CounterInv
    <2>3. CASE x.saw = "nothing"
        <3>1. ~x.suspends /\ x.count = {}
            BY <1>3, <1>5, <2>3 DEF PageInv
        <3> QED BY <1>2, <1>3, <2>3, <3>1 DEF CounterInv
    <2> QED BY <1>1, <2>1, <2>2, <2>3
<1>8. locker # p => ~x.suspends /\ ~x.bars /\ x.count = {} /\ x.saw = "nothing"
    BY <1>3 DEF PageInv, Uncommitted
<1> QED BY <1>1, <1>2, <1>4, <1>5, <1>6, <1>7, <1>8

LEMMA CommitStep ==
    ASSUME LearningInv, NEW p \in Pages, CommitDrift(p) \/ CommitPage(p)
    PROVE  LearningInv'
<1> USE RecipeLearningAssumption
<1>1. PICK at \in {"recording", "idle"} : Cleared(p, at)
    BY DEF CommitDrift, CommitPage
<1>2. /\ page[p].at \in {"noted", "recorded"} /\ Written(p)
      /\ UNCHANGED <<marker, owned, swallowed>>
    BY DEF CommitDrift, CommitPage
<1>3. /\ page' \in [Pages -> PageStates]
      /\ \A q \in Pages \ {p} : page'[q] = page[q]
      /\ page'[p].at = at /\ page'[p].frozen = page[p].frozen /\ page'[p].count = {}
      /\ ~page'[p].suspends /\ ~page'[p].bars /\ page'[p].saw = "nothing"
    <2>1. at \in Stages
        BY DEF Stages
    <2> QED BY <1>1, <2>1, RestIsIn
<1>4. /\ locker # p => UNCHANGED <<counter, recipe, template, locker, missed>>
      /\ locker = p => locker' = Nobody
      /\ ~page[p].suspends => recipe' = recipe /\ template' \in {template, "suspended"}
      /\ page[p].suspends => recipe' = "suspended" /\ template' = "suspended" /\ recipe = "active"
      /\ counter' \in 0 .. DriftThreshold /\ missed' \in 0 .. DriftThreshold
      /\ sibling' \in {"none", "active", "suspended"}
      /\ CounterInv'
    BY <1>2, CommitWrites
<1>5. LearningTypeOK'
    BY <1>2, <1>3, <1>4 DEF LearningInv, LearningTypeOK
<1>6. locker' # p
    BY <1>4
<1>7. Fine(p)'
    BY <1>3, <1>6 DEF Fine, PageInv, Uncommitted, PendingDrift, PendingReset
<1>8. ASSUME NEW q \in Pages \ {p} PROVE Fine(q)'
    <2>1. page'[q] = page[q] /\ PageInv(q) /\ PendingDrift(q) /\ PendingReset(q)
        BY <1>3 DEF LearningInv
    <2>2. CASE locker = p
        <3>1. ~Uncommitted(page[q]) /\ page[q].at # "noted" /\ locker' # q
            BY <1>4, <2>1, <2>2 DEF PageInv
        <3>2. PageInv(q)'
            BY <2>1, <2>2, <3>1 DEF PageInv, Uncommitted
        <3>3. PendingDrift(q)' /\ PendingReset(q)'
            BY <2>1, <3>1 DEF PendingDrift, PendingReset, Uncommitted
        <3> QED BY <3>2, <3>3 DEF Fine
    <2>3. CASE locker # p
        <3>1. UNCHANGED <<counter, recipe, template, locker, owned, swallowed>>
            BY <1>2, <1>4, <2>3
        <3>2. OneMore(counter)' = OneMore(counter)
            BY <3>1 DEF OneMore
        <3> QED BY <2>1, <3>1, <3>2 DEF Fine, PageInv, Uncommitted, PendingDrift, PendingReset
    <2> QED BY <2>2, <2>3
<1>9. ScopeInv'
    <2>1. \A q \in Pages : page'[q].frozen = page[q].frozen
        BY <1>3
    <2> QED BY <1>4, <2>1 DEF LearningInv, ScopeInv
<1>10. CompileInv'
    <2>1. \A q \in Pages : page'[q].at = "compiling" => page[q].at = "compiling"
        BY <1>3
    <2>2. (\E q \in Pages : page[q].at = "compiling") => recipe' = recipe /\ marker' = marker
        BY <1>2, <1>4 DEF LearningInv, CompileInv
    <2> QED BY <2>1, <2>2 DEF LearningInv, CompileInv
<1> QED BY <1>4, <1>5, <1>7, <1>8, <1>9, <1>10 DEF LearningInv, Fine

LEMMA LearningIsSound == LearningSpec => []LearningInv
<1>1. LearningInv /\ [LearningNext]_learningVars => LearningInv'
    <2> SUFFICES ASSUME LearningInv, [LearningNext]_learningVars PROVE LearningInv'
        OBVIOUS
    <2>1. ASSUME NEW p \in Pages, StartRun(p) \/ Extract(p) \/ PageFails(p)
          PROVE  LearningInv'
        BY <2>1, MoveStep, PageFailsStep
    <2>2. ASSUME NEW p \in Pages, LearnStep(p)
          PROVE  LearningInv'
        BY <2>2, MoveStep, ClaimStep, CompiledStep DEF LearnStep
    <2>3. ASSUME NEW p \in Pages, DriftStep(p)
          PROVE  LearningInv'
        BY <2>3, MoveStep, NoteDriftStep, CommitStep DEF DriftStep
    <2>4. ASSUME NEW p \in Pages, RecordStep(p)
          PROVE  LearningInv'
        BY <2>4, RecordPageStep, SentinelStep, ResetDriftStep, RecordingFailsStep, CommitStep
           DEF RecordStep
    <2>5. CASE AttemptAges \/ OperatorOwns
        BY <2>5, ScopeStep
    <2>6. CASE UNCHANGED learningVars
        <3>1. OneMore(counter)' = OneMore(counter)
            BY <2>6 DEF learningVars, OneMore
        <3> QED BY <2>6, <3>1 DEF learningVars, LearningInv, LearningTypeOK, PageInv, Uncommitted,
                   PendingDrift, PendingReset, ScopeInv, CompileInv, CounterInv
    <2> QED BY <2>1, <2>2, <2>3, <2>4, <2>5, <2>6 DEF LearningNext
<1> QED BY <1>1, LearningInit1, PTL DEF LearningSpec

----------------------------------------------------------------------------

\* Every variable keeps its type; a page's uncommitted fields too.
THEOREM LearningTypeCorrect == LearningSpec => []LearningTypeOK
<1>1. LearningInv => LearningTypeOK
    BY DEF LearningInv
<1> QED BY <1>1, LearningIsSound, PTL

\* However many pages find nothing at once, one of them calls the model, and none while the
\* recipe is there.
THEOREM ModelIsCalledOnce == LearningSpec => []OneCompile
<1>1. LearningInv => OneCompile
    <2> SUFFICES ASSUME LearningInv PROVE OneCompile
        OBVIOUS
    <2> DEFINE C == {p \in Pages : page[p].at = "compiling"}
    <2>1. Cardinality(C) <= 1
        <3>1. CASE C = {}
            BY <3>1, FS_EmptySet
        <3>2. CASE C # {}
            <4>1. PICK p \in C : TRUE
                BY <3>2
            <4>2. C = {p}
                BY <4>1 DEF LearningInv, CompileInv
            <4>3. Cardinality({p}) = 1
                BY FS_Singleton
            <4> QED BY <4>2, <4>3
        <3> QED BY <3>1, <3>2
    <2>2. (\E p \in Pages : page[p].at = "compiling") => recipe = "provisional"
        BY DEF LearningInv, CompileInv
    <2> QED BY <2>1, <2>2 DEF OneCompile
<1> QED BY <1>1, LearningIsSound, PTL

\* DriftThreshold drifts in a row leave no active recipe behind, drifts of pages at once
\* included, unless an operator owns the template or an ambiguous route dropped an error.
THEOREM DriftsInARowSuspend == LearningSpec => []DriftSuspends
<1>1. LearningInv => DriftSuspends
    BY DEF LearningInv, CounterInv, DriftSuspends
<1> QED BY <1>1, LearningIsSound, PTL

\* An active recipe is left only by a suspension, by a commit that completes
\* DriftThreshold drifts in a row.
THEOREM LearnedRecipeIsKept == LearningSpec => LearnedIsKept
<1>1. LearningInv /\ [LearningNext]_learningVars
        => [(recipe = "active" /\ recipe' # "active")
             => (recipe' = "suspended" /\ (missed' = DriftThreshold \/ swallowed))]_learningVars
    <2> SUFFICES ASSUME LearningInv, LearningNext, recipe = "active", recipe' # "active"
                 PROVE  recipe' = "suspended" /\ (missed' = DriftThreshold \/ swallowed)
        BY DEF learningVars
    <2>1. \E p \in Pages : CommitDrift(p) \/ CommitPage(p)
        BY DEF LearningNext, LearnStep, DriftStep, RecordStep, StartRun, Extract, PageFails, NotLearned,
               ClaimRecipe, Claimable, ClaimTimesOut, Compiled, CompiledNothing, NoteDrift,
               RecordPage, Sentinel, ResetDrift, RecordingFails, AttemptAges, OperatorOwns
    <2>2. PICK p \in Pages : /\ page[p].at \in {"noted", "recorded"} /\ Written(p)
                             /\ UNCHANGED <<marker, owned, swallowed>>
        BY <2>1 DEF CommitDrift, CommitPage
    <2> QED BY <2>2, CommitWrites
<1> QED BY <1>1, LearningIsSound, PTL DEF LearningSpec, LearnedIsKept
=============================================================================
