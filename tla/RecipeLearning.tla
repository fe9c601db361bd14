--------------------------- MODULE RecipeLearning ---------------------------
(***************************************************************************)
(* The executable recipe of one scope (domain, surface, route): pages      *)
(* whose extraction finds nothing have it compiled once by a model call,   *)
(* later runs replay it, and replays that find nothing suspend it          *)
(* (crawl/pipeline/learn_once.py, persistence/extraction_memory.py).       *)
(*                                                                         *)
(* Every recorded page also leaves a template of its own structure with    *)
(* the same route; one such template, the sibling, stands for them.  What  *)
(* a transaction writes is seen by others when it commits: until then it   *)
(* is in the page's fields count, suspends, bars and sib.  Confidences,    *)
(* which are all alike, and the purge of the whole memory are left out.    *)
(***************************************************************************)
EXTENDS Naturals, FiniteSets

CONSTANTS
    Pages,           \* tasks that process a page of the route, each in a run
    DriftThreshold,  \* CASCADE_RECIPE_STALE_FAILURE_THRESHOLD
    Nobody

ASSUME RecipeLearningAssumption ==
    /\ IsFiniteSet(Pages)
    /\ DriftThreshold \in Nat \ {0}
    /\ Nobody \notin Pages

VARIABLES
    template,   \* status of the scope's template
    recipe,     \* status of its executable recipe
    marker,     \* the learn-attempt marker in the recipe's payload
    counter,    \* _stale_after_failures.failure_count, up to DriftThreshold
    sibling,    \* status of the other template of the route
    owned,      \* an operator owns the template
    locker,     \* the page whose transaction has the scope's rows locked
    page,       \* what a task does
    missed,     \* history: drifts since the last success, up to DriftThreshold
    swallowed   \* history: a drift or a success was not counted, its error dropped

learningVars == <<template, recipe, marker, counter, sibling, owned, locker, page,
                  missed, swallowed>>

Stages == {"idle", "empty", "filled", "replayed", "matched", "compiling", "noted",
           "recording", "sampled", "resetting", "recorded"}

\* frozen: the release of the page's run has the recipe; bars: a sentinel
\* suspends the template; saw is history.
PageStates == [at : Stages, frozen : BOOLEAN, count : SUBSET (0..DriftThreshold),
               suspends : BOOLEAN, bars : BOOLEAN, sib : SUBSET {"active", "suspended"},
               saw : {"nothing", "drift", "success"}]

LearningTypeOK ==
    /\ template \in {"none", "active", "suspended"}
    /\ recipe \in {"none", "provisional", "active", "suspended"}
    /\ marker \in {"none", "fresh", "stale"}
    /\ counter \in 0..DriftThreshold
    /\ sibling \in {"none", "active", "suspended"}
    /\ owned \in BOOLEAN
    /\ locker \in Pages \cup {Nobody}
    /\ page \in [Pages -> PageStates]
    /\ missed \in 0..DriftThreshold
    /\ swallowed \in BOOLEAN

LearningInit ==
    /\ template = "none"
    /\ recipe = "none"
    /\ marker = "none"
    /\ counter = 0
    /\ sibling = "none"
    /\ owned = FALSE
    /\ locker = Nobody
    /\ page = [p \in Pages |-> [at |-> "idle", frozen |-> FALSE, count |-> {},
                                suspends |-> FALSE, bars |-> FALSE, sib |-> {},
                                saw |-> "nothing"]]
    /\ missed = 0
    /\ swallowed = FALSE

----------------------------------------------------------------------------

RowsAlwaysFree(p) == TRUE              \* mistake: rows are read without FOR UPDATE
RowsFree(p) == locker \in {Nobody, p}

Proceeds(p, at) == page' = [page EXCEPT ![p].at = at]

\* The other template is not being written by another page.
SiblingFree(p) == \A q \in Pages \ {p} : page[q].sib = {}

OneMore(n) == IF n < DriftThreshold THEN n + 1 ELSE n

\* build_release_payload, frozen when a run is created.
Released == template = "active" /\ recipe = "active"

StartRun(p) ==
    /\ page[p].at = "idle"
    /\ page' = [page EXCEPT ![p].frozen = Released]
    /\ UNCHANGED <<template, recipe, marker, counter, sibling, owned, locker, missed,
                   swallowed>>

\* Extraction finds nothing, or records: by the deterministic tiers, by the
\* selector rules of a template in the run's release (css_recipe), which count
\* as the recipe tier too, or by the recipe of the release.
Extract(p) ==
    /\ page[p].at = "idle"
    /\ \/ Proceeds(p, "empty")
       \/ Proceeds(p, "filled")
       \/ Proceeds(p, "matched")
       \/ page[p].frozen /\ Proceeds(p, "replayed")
    /\ UNCHANGED <<template, recipe, marker, counter, sibling, owned, locker, missed,
                   swallowed>>

----------------------------------------------------------------------------
(* learn_recipe_after_extraction *)

\* The run does not use a model, or the capture was not rendered.
NotLearned(p) ==
    /\ page[p].at = "empty"
    /\ ~page[p].frozen
    /\ Proceeds(p, "recording")
    /\ UNCHANGED <<template, recipe, marker, counter, sibling, owned, locker, missed,
                   swallowed>>

\* mistakes: the marker of another attempt is not looked at; nor is the status.
ClaimableUnlessActive == recipe # "active"
ClaimableUnlessFresh == marker # "fresh"

Claimable == recipe # "active" /\ marker # "fresh"

\* The marker is committed, and the locks gone, before the model is called.
ClaimRecipe(p) ==
    /\ page[p].at = "empty"
    /\ ~page[p].frozen
    /\ RowsFree(p)
    /\ IF Claimable
       THEN /\ template' = IF template = "none" THEN "active" ELSE template
            /\ recipe' = "provisional"
            /\ marker' = "fresh"
            /\ Proceeds(p, "compiling")
       ELSE /\ Proceeds(p, "recording")
            /\ UNCHANGED <<template, recipe, marker>>
    /\ UNCHANGED <<counter, sibling, owned, locker, missed, swallowed>>

ClaimTimesOut(p) ==
    /\ page[p].at = "empty"
    /\ ~page[p].frozen
    /\ ~RowsFree(p)
    /\ Proceeds(p, "recording")
    /\ UNCHANGED <<template, recipe, marker, counter, sibling, owned, locker, missed,
                   swallowed>>

\* persist_learned_recipe writes the recipe over marker and counter; it leaves
\* the template's status alone.
Compiled(p) ==
    /\ page[p].at = "compiling"
    /\ RowsFree(p)
    /\ recipe' = "active"
    /\ marker' = "none"
    /\ counter' = 0
    /\ missed' = 0
    /\ swallowed' = FALSE
    /\ Proceeds(p, "recording")
    /\ UNCHANGED <<template, sibling, owned, locker>>

\* No grounded recipe, or its rows stay locked for too long.
CompiledNothing(p) ==
    /\ page[p].at = "compiling"
    /\ Proceeds(p, "recording")
    /\ UNCHANGED <<template, recipe, marker, counter, sibling, owned, locker, missed,
                   swallowed>>

\* A page ends by its deadline, before the marker has run out.
AttemptAges ==
    /\ marker = "fresh"
    /\ \A p \in Pages : page[p].at # "compiling"
    /\ marker' = "stale"
    /\ UNCHANGED <<template, recipe, counter, sibling, owned, locker, page, missed,
                   swallowed>>

----------------------------------------------------------------------------
(* note_recipe_drift_failure.  With two active templates of the route the  *)
(* row cannot be told: the query raises, and the caller drops the error.   *)

NoteDrift(p) ==
    /\ page[p].at = "empty"
    /\ page[p].frozen
    /\ RowsFree(p)
    /\ sibling = "active" => SiblingFree(p)
    /\ IF template = "active" THEN
            /\ locker' = p
            /\ swallowed' = (swallowed \/ sibling = "active")
            /\ page' = [page EXCEPT
                    ![p].at = "noted",
                    ![p].count = IF sibling = "active" \/ recipe # "active" THEN {}
                                 ELSE {OneMore(counter)},
                    ![p].suspends = /\ sibling # "active" /\ recipe = "active"
                                    /\ counter + 1 >= DriftThreshold
                                    /\ ~owned,
                    ![p].saw = "drift"]
       ELSE Proceeds(p, "recording") /\ UNCHANGED <<locker, swallowed>>
    /\ UNCHANGED <<template, recipe, marker, counter, sibling, owned, missed>>

\* What page p has written becomes visible, its locks go.
Written(p) ==
    LET x == page[p] IN
    /\ counter' = IF x.count = {} THEN counter ELSE CHOOSE n \in x.count : TRUE
    /\ missed' = IF x.saw = "drift" THEN OneMore(missed)
                 ELSE IF x.saw = "success" THEN 0 ELSE missed
    /\ recipe' = IF x.suspends THEN "suspended" ELSE recipe
    /\ template' = IF x.suspends \/ x.bars THEN "suspended" ELSE template
    /\ sibling' = IF x.sib = {} THEN sibling ELSE CHOOSE s \in x.sib : TRUE
    /\ locker' = IF locker = p THEN Nobody ELSE locker

Cleared(p, at) ==
    page' = [page EXCEPT ![p] = [at |-> at, frozen |-> @.frozen, count |-> {},
                                 suspends |-> FALSE, bars |-> FALSE, sib |-> {},
                                 saw |-> "nothing"]]

\* A suspension is committed at once, anything else when the stage changes.
CommitDrift(p) ==
    /\ page[p].at = "noted"
    /\ Written(p)
    /\ Cleared(p, "recording")
    /\ UNCHANGED <<marker, owned, swallowed>>

----------------------------------------------------------------------------
(* _record_extraction_memory, in one savepoint: the page's template, what a *)
(* sentinel found of a page matched by selector rules, and, for the recipe *)
(* tier, the reset of the counter.                                         *)

\* Without an error a page of the recipe tier goes on.
Onwards(at) ==
    CASE at = "matched"  -> "sampled"
      [] at = "replayed" -> "resetting"
      [] OTHER           -> "recorded"

\* Before the reset of a page of the recipe tier.
Resets == {"replayed", "matched", "sampled", "resetting"}

RecordPage(p) ==
    /\ \/ page[p].at \in {"recording", "filled", "replayed", "matched"}
       \/ page[p].at = "noted" /\ ~page[p].suspends
    /\ SiblingFree(p)
    /\ page' = [page EXCEPT ![p].at = Onwards(page[p].at),
                            ![p].sib = {IF sibling = "none" THEN "active" ELSE sibling}]
    /\ UNCHANGED <<template, recipe, marker, counter, sibling, owned, locker, missed,
                   swallowed>>

\* Confirmed critical drift suspends the template that had the rules: the first
\* of the route in the release, which may be the scope's own.
Sentinel(p) ==
    /\ page[p].at = "sampled"
    /\ \/ Proceeds(p, "resetting") /\ UNCHANGED locker
       \/ /\ page' = [page EXCEPT ![p].at = "resetting", ![p].sib = {"suspended"}]
          /\ UNCHANGED locker
       \/ /\ template = "active"
          /\ RowsFree(p)
          /\ locker' = p
          /\ page' = [page EXCEPT ![p].at = "resetting", ![p].bars = TRUE]
    /\ UNCHANGED <<template, recipe, marker, counter, sibling, owned, missed, swallowed>>

\* No active template of the route, or one without such a recipe, is left alone.
ResetDrift(p) ==
    /\ page[p].at = "resetting"
    /\ page[p].sib = {"suspended"} \/ template # "active" \/ page[p].bars
    /\ IF template = "active" /\ ~page[p].bars
       THEN /\ RowsFree(p)
            /\ locker' = p
            /\ page' = [page EXCEPT
                    ![p].at = "recorded",
                    ![p].count = IF recipe = "active" /\ counter # 0 THEN {0} ELSE {},
                    ![p].saw = IF recipe = "active" THEN "success" ELSE "nothing"]
       ELSE Proceeds(p, "recorded") /\ UNCHANGED locker
    /\ UNCHANGED <<template, recipe, marker, counter, sibling, owned, missed, swallowed>>

\* An error, as that of two active templates, rolls the savepoint back and is
\* dropped.  What the page noted before stays.
RecordingFails(p) ==
    /\ \/ page[p].at \in {"recording", "filled"} \cup Resets
       \/ page[p].at = "noted" /\ ~page[p].suspends
    /\ page' = [page EXCEPT ![p].at = "recorded", ![p].bars = FALSE, ![p].sib = {}]
    /\ locker' = IF page[p].bars THEN Nobody ELSE locker
    /\ swallowed' = (swallowed \/ (template = "active" /\ page[p].at \in Resets))
    /\ UNCHANGED <<template, recipe, marker, counter, sibling, owned, missed>>

CommitPage(p) ==
    /\ page[p].at = "recorded"
    /\ Written(p)
    /\ Cleared(p, "idle")
    /\ UNCHANGED <<marker, owned, swallowed>>

\* An error, the deadline, a stop or the loss of the worker: rolled back.
PageFails(p) ==
    /\ page[p].at # "idle"
    /\ Cleared(p, "idle")
    /\ locker' = IF locker = p THEN Nobody ELSE locker
    /\ UNCHANGED <<template, recipe, marker, counter, sibling, owned, missed, swallowed>>

OperatorOwns ==
    /\ template # "none"
    /\ ~owned
    /\ owned' = TRUE
    /\ UNCHANGED <<template, recipe, marker, counter, sibling, locker, page, missed,
                   swallowed>>

----------------------------------------------------------------------------

LearnStep(p) ==
    NotLearned(p) \/ ClaimRecipe(p) \/ ClaimTimesOut(p) \/ Compiled(p) \/ CompiledNothing(p)

DriftStep(p) == NoteDrift(p) \/ CommitDrift(p)

RecordStep(p) ==
    RecordPage(p) \/ Sentinel(p) \/ ResetDrift(p) \/ RecordingFails(p) \/ CommitPage(p)

LearningNext ==
    \/ \E p \in Pages : StartRun(p) \/ Extract(p) \/ PageFails(p)
    \/ \E p \in Pages : LearnStep(p) \/ DriftStep(p) \/ RecordStep(p)
    \/ AttemptAges \/ OperatorOwns

LearningSpec == LearningInit /\ [][LearningNext]_learningVars

----------------------------------------------------------------------------
(* Properties. *)

(* The model is called by one page at a time, and by none while the recipe *)
(* is there: however many pages found nothing, and whether the call before *)
(* gave a recipe or not (claim_learn_once_template).                       *)
OneCompile ==
    /\ Cardinality({p \in Pages : page[p].at = "compiling"}) <= 1
    /\ (\E p \in Pages : page[p].at = "compiling") => recipe = "provisional"

(* A learned recipe is lost to nothing but DriftThreshold drifts in a row: *)
(* a page of a run that does not know it cannot claim it back to           *)
(* provisional, and scattered drifts do not add up (reset_recipe_drift),   *)
(* unless an error, as that of an ambiguous route, kept a success from     *)
(* being counted (_locked_active_executable_recipe).                       *)
LearnedIsKept ==
    [][(recipe = "active" /\ recipe' # "active")
        => (recipe' = "suspended" /\ (missed' = DriftThreshold \/ swallowed))]_learningVars

(* That many drifts in a row do suspend it, drifts of pages at once        *)
(* included, with the same exception, and unless an operator owns it.      *)
DriftSuspends ==
    (recipe = "active" /\ ~owned /\ ~swallowed) => missed < DriftThreshold

=============================================================================
