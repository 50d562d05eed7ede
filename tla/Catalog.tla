------------------------------- MODULE Catalog -------------------------------
(***************************************************************************)
(* What the algorithms over the capability catalog share: the ids, their   *)
(* order, and closures of relations among them.                            *)
(*                                                                         *)
(* Capability ids are natural numbers, so that `<` is localeCompare on     *)
(* ids; a relation declared in the manifests (dependencies, conflicts,     *)
(* capabilities, ...) is a function from an id to the set of ids it names. *)
(***************************************************************************)
EXTENDS Integers, FiniteSets

CONSTANT Ids   \* every id that occurs, in the catalog or only in a reference

ASSUME IdsAssumption == Ids \subseteq Nat /\ IsFiniteSet(Ids)

Relation == [Ids -> SUBSET Ids]

None == -1    \* stands for an absent id or number

Elems(s) == {s[i] : i \in DOMAIN s}

(* The id sort() puts first.                                               *)
Least(S) == CHOOSE i \in S : \A j \in S : i <= j

(* Everything reachable from S in the relation, S included.                *)
Reach(rel, S) ==
    LET step[n \in 0 .. Cardinality(Ids)] ==
          IF n = 0 THEN S ELSE step[n-1] \cup UNION {rel[i] : i \in step[n-1]}
    IN  step[Cardinality(Ids)]

(* i lies on a cycle of the relation.                                      *)
OnCycle(rel, i) == i \in Reach(rel, rel[i])
=============================================================================
