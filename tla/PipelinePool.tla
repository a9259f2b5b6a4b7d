---------------------------- MODULE PipelinePool ----------------------------
(***************************************************************************)
(* What the scheduler promises of the pipelines it runs: there is a limit  *)
(* to their number, each runs once and not after it has been told to stop, *)
(* and the pool closes in order.  First none is let in any more, then each *)
(* of those that are left is told to stop, then all of them are awaited.   *)
(***************************************************************************)
EXTENDS Integers, FiniteSets

CONSTANTS
    Runs,   \* the pipelines there may be
    Limit   \* how many of them may run at a time

VARIABLES
    live,   \* those that run
    ended,  \* those that have run
    told,   \* those that were told to stop
    phase   \* how far the pool is closed

vars == <<live, ended, told, phase>>

Init == live = {} /\ ended = {} /\ told = {} /\ phase = "open"

Start(r) ==
    /\ phase = "open" /\ Cardinality(live) < Limit
    /\ r \notin live \cup ended \cup told
    /\ live' = live \cup {r}
    /\ UNCHANGED <<ended, told, phase>>

Tell(r) ==
    /\ phase \in {"open", "closing"}
    /\ r \in live \cup ended
    /\ told' = told \cup {r}
    /\ UNCHANGED <<live, ended, phase>>

Finish(r) ==
    /\ r \in live
    /\ live' = live \ {r} /\ ended' = ended \cup {r}
    /\ UNCHANGED <<told, phase>>

Close ==
    /\ phase = "open" /\ phase' = "closing"
    /\ UNCHANGED <<live, ended, told>>

Await ==
    /\ phase = "closing" /\ live \subseteq told
    /\ phase' = "waiting"
    /\ UNCHANGED <<live, ended, told>>

Leave ==
    /\ phase = "waiting" /\ live = {}
    /\ phase' = "down"
    /\ UNCHANGED <<live, ended, told>>

Next ==
    \/ \E r \in Runs : Start(r) \/ Tell(r) \/ Finish(r)
    \/ Close \/ Await \/ Leave

Spec == Init /\ [][Next]_vars
=============================================================================
