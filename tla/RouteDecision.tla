---------------------------- MODULE RouteDecision ----------------------------
(***************************************************************************)
(* What a routing decision promises to the runtime that executes it,       *)
(* however it was reached: it is made once, the capabilities that are to   *)
(* run are at most `budget` many and no two of them are rivals, none is    *)
(* both to run and to be stopped, and only what is active is stopped.      *)
(***************************************************************************)
EXTENDS Naturals, FiniteSets

CONSTANT Caps        \* the capabilities

VARIABLES made,      \* is there a decision?
          running,   \* the capabilities it activates or keeps
          stopped,   \* the capabilities it deactivates
          rivals,    \* rivals[c]: the conflicts c declares
          active,    \* the capabilities that were active
          budget     \* config.router.maxActivations

vars == <<made, running, stopped, rivals, active, budget>>

Init == ~made /\ running = {} /\ stopped = {}

(* The catalog and the configuration are read before the decision is made. *)
Read == /\ ~made /\ ~made'
        /\ UNCHANGED <<running, stopped>>

Decide == /\ ~made /\ made'
          /\ running' \in SUBSET Caps
          /\ stopped' \in SUBSET active'
          /\ Cardinality(running') <= budget'
          /\ running' \cap stopped' = {}
          /\ \A c, d \in running' : c # d => d \notin rivals'[c]

Next == Read \/ Decide

Spec == Init /\ [][Next]_vars
=============================================================================
