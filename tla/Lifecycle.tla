------------------------------ MODULE Lifecycle ------------------------------
(***************************************************************************)
(* The capability lifecycle of core/lifecycle.ts: the states, the table of *)
(* legal moves, and the two ways the program turns "bring this capability  *)
(* from state `from` to state `to`" into the one state it stores: the      *)
(* router's (Runtime.transitionState) and the command line's               *)
(* (transitionState of cli/commands/state.ts).                             *)
(***************************************************************************)
EXTENDS Integers, Sequences

States == {"DISCOVERED", "INSTALLED", "AVAILABLE", "ENABLED", "CANDIDATE",
           "ACTIVE", "SUSPENDED", "BLOCKED", "FAILED", "DISABLED", "OUTDATED"}

(* The states a row of the `installed` table is left in: the others are       *)
(* passed through on a walk, or never reached.                               *)
Resting == {"INSTALLED", "ENABLED", "DISABLED", "ACTIVE"}

(* The table, as permittedTargets gives it: where a move from a state leads. *)
Permitted(from) ==
    CASE from = "DISCOVERED" -> {"INSTALLED", "AVAILABLE"}
      [] from = "INSTALLED"  -> {"AVAILABLE", "FAILED", "DISABLED", "OUTDATED"}
      [] from = "AVAILABLE"  -> {"ENABLED", "DISABLED", "INSTALLED"}
      [] from = "ENABLED"    -> {"CANDIDATE", "DISABLED", "ACTIVE", "BLOCKED",
                                 "OUTDATED", "INSTALLED", "SUSPENDED"}
      [] from = "CANDIDATE"  -> {"ACTIVE", "ENABLED"}
      [] from = "ACTIVE"     -> {"ENABLED", "SUSPENDED", "FAILED", "BLOCKED",
                                 "OUTDATED", "INSTALLED", "DISABLED"}
      [] from = "SUSPENDED"  -> {"ACTIVE", "ENABLED", "BLOCKED"}
      [] from = "BLOCKED"    -> {"ENABLED"}
      [] from = "FAILED"     -> {"ENABLED", "DISABLED"}
      [] from = "DISABLED"   -> {"ENABLED", "AVAILABLE"}
      [] from = "OUTDATED"   -> {"ENABLED", "DISABLED", "FAILED"}

CanTransition(from, to) == to \in Permitted(from)

-----------------------------------------------------------------------------
(* Both callers fall back to walking one chain of states when the table has *)
(* no direct move.  Position is indexOf: 0 for a state off the chain.        *)

Chain == <<"INSTALLED", "AVAILABLE", "ENABLED", "ACTIVE">>

Position(s) == CASE s = "INSTALLED" -> 1
                 [] s = "AVAILABLE" -> 2
                 [] s = "ENABLED"   -> 3
                 [] s = "ACTIVE"    -> 4
                 [] OTHER           -> 0

(* One round of the loop, for the link that ends at position k: taken when   *)
(* k lies beyond the start and not beyond the end of the walk, and legal.    *)
Hop(s, k, start, end) ==
    IF start < k /\ k <= end /\ CanTransition(s, Chain[k]) THEN Chain[k] ELSE s

(* A fault: the walk stops after its first link.                             *)
WalkOneLink(start, end) == Hop(Chain[start], start + 1, start, end)

(* The loop from `start` to `end`, unrolled over the three links of Chain.   *)
(* The command line's loop stops at the first illegal link and the router's  *)
(* goes on; every link of Chain is in the table, so the two loops agree.     *)
Walk(start, end) ==
    Hop(Hop(Hop(Chain[start], 2, start, end), 3, start, end), 4, start, end)

(* A state off the chain starts the walk at its beginning.                   *)
WalkStart(s) == IF Position(s) = 0 THEN 1 ELSE Position(s)

(* What the router stores.                                                   *)
RuntimeTarget(from, to) ==
    IF CanTransition(from, to) THEN to ELSE Walk(WalkStart(from), Position(to))

(* What the command line stores: a target that is not ahead on the chain is  *)
(* stored as it is.                                                          *)
CliTarget(from, to) ==
    IF CanTransition(from, to) \/ Position(to) <= WalkStart(from)
      THEN to
      ELSE Walk(WalkStart(from), Position(to))
=============================================================================
