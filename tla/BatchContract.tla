--------------------------- MODULE BatchContract ---------------------------
(***************************************************************************)
(* What _ParallelRunState.execute promises the run that calls it, with no  *)
(* word about workers, queue or checkpoints: the pending URLs are started  *)
(* in order, and a started URL is under way until it is settled (recorded, *)
(* or given up with the worker that held it).  execute ends once: as       *)
(* "finished" only when every URL was started and none is under way, as    *)
(* "stopped" only when all that were under way are settled, and as         *)
(* "raised" by giving up whatever was under way.                           *)
(***************************************************************************)
EXTENDS Naturals

CONSTANT Total      \* the number of pending URLs, a natural number

VARIABLES
    started,    \* URLs 1 .. started have been handed to a worker
    active,     \* the started URLs that are not settled
    outcome     \* how execute ended, "none" before that

cvars == <<started, active, outcome>>

CInit == started = 0 /\ active = {} /\ outcome = "none"

Start == /\ outcome = "none" /\ started < Total
         /\ started' = started + 1
         /\ active' = active \cup {started'}
         /\ UNCHANGED outcome

Settle == /\ outcome = "none"
          /\ active' \subseteq active
          /\ UNCHANGED <<started, outcome>>

Finish == /\ outcome = "none" /\ started = Total /\ active = {}
          /\ outcome' = "finished"
          /\ UNCHANGED <<started, active>>

\* The step that settles the last URL under way may be the one that stops.
Stop == /\ outcome = "none" /\ active' = {}
        /\ \E u \in 1 .. Total : active \subseteq {u}
        /\ outcome' = "stopped"
        /\ UNCHANGED started

Raise == /\ outcome = "none" /\ active' = {}
         /\ outcome' = "raised"
         /\ UNCHANGED started

CNext == Start \/ Settle \/ Finish \/ Stop \/ Raise

CSpec == CInit /\ [][CNext]_cvars
=============================================================================
