---------------------------- MODULE CapabilityGraph ----------------------------
(***************************************************************************)
(* src/graph/graph.ts: the relationship graph over the capabilities, built *)
(* by adding one manifest at a time.  Every relation is kept in one map    *)
(* or two, one of them reversed, and each query walks one of the maps; the *)
(* two directions of a relation agree only if add keeps them in step.      *)
(*                                                                         *)
(* The maps hold lists without duplicates and the queries sort, so here    *)
(* they are relations; compatibleWith names tags, not capabilities, and is *)
(* left out with edges(), which lists what the maps hold.                  *)
(***************************************************************************)
EXTENDS Catalog

CONSTANT Declarations   \* the manifests that may be added

Declaration == [id : Ids, requires : SUBSET Ids, optional : SUBSET Ids,
                conflicts : SUBSET Ids, enhances : SUBSET Ids, replaces : SUBSET Ids]

ASSUME GraphAssumption == Declarations \subseteq Declaration

VARIABLES present,           \* graph.nodes
          needs, mayUse,     \* requires and optionalRequires
          neededBy,          \* requiredBy
          against,           \* conflicts
          improves, improvedBy, \* enhances and enhancedBy
          supersedes, supersededBy  \* replaces and replacedBy

graphVars == <<present, needs, mayUse, neededBy, against, improves, improvedBy,
               supersedes, supersededBy>>

Empty == [i \in Ids |-> {}]

GraphInit ==
    /\ present = {} /\ needs = Empty /\ mayUse = Empty /\ neededBy = Empty
    /\ against = Empty /\ improves = Empty /\ improvedBy = Empty
    /\ supersedes = Empty /\ supersededBy = Empty

(* targets are added to c's own list ...                                    *)
Forward(map, c, targets) == [map EXCEPT ![c] = @ \cup targets]

(* ... and c to the list of each of them.                                   *)
Backward(map, c, targets) ==
    [i \in Ids |-> IF i \in targets THEN map[i] \cup {c} ELSE map[i]]

(* A fault: a requirement of itself is entered on one side only.            *)
AddOneSided(d) ==
    /\ IF d.id \in present THEN UNCHANGED graphVars
       ELSE /\ present' = present \cup {d.id}
            /\ needs' = Forward(needs, d.id, d.requires)
            /\ mayUse' = Forward(mayUse, d.id, d.optional)
            /\ neededBy' = Backward(neededBy, d.id, d.requires \ {d.id})
            /\ against' = Backward(Forward(against, d.id, d.conflicts), d.id, d.conflicts)
            /\ improves' = Forward(improves, d.id, d.enhances)
            /\ improvedBy' = Backward(improvedBy, d.id, d.enhances)
            /\ supersedes' = Forward(supersedes, d.id, d.replaces)
            /\ supersededBy' = Backward(supersededBy, d.id, d.replaces)

(* add: the first manifest with an id counts.                               *)
Add(d) ==
    /\ IF d.id \in present THEN UNCHANGED graphVars
       ELSE /\ present' = present \cup {d.id}
            /\ needs' = Forward(needs, d.id, d.requires)
            /\ mayUse' = Forward(mayUse, d.id, d.optional)
            /\ neededBy' = Backward(neededBy, d.id, (d.requires \cup d.optional) \ {d.id})
            /\ against' = Backward(Forward(against, d.id, d.conflicts), d.id, d.conflicts)
            /\ improves' = Forward(improves, d.id, d.enhances)
            /\ improvedBy' = Backward(improvedBy, d.id, d.enhances)
            /\ supersedes' = Forward(supersedes, d.id, d.replaces)
            /\ supersededBy' = Backward(supersededBy, d.id, d.replaces)

GraphNext == \E d \in Declarations : Add(d)

GraphSpec == GraphInit /\ [][GraphNext]_graphVars

-----------------------------------------------------------------------------
(* dependenciesOf: only a step from a capability to itself is left out.     *)
DependenciesOf(c, withOptional) ==
    LET next == [i \in Ids |-> (IF withOptional THEN needs[i] \cup mayUse[i]
                                ELSE needs[i]) \ {i}]
    IN  IF c \in present THEN Reach(next, next[c]) ELSE {}

DependentsOf(c) == Reach(neededBy, neededBy[c])

ConflictingWith(c) == against[c] \cup {i \in Ids \ {c} : c \in against[i]}

EnhancersOf(c) == improvedBy[c]
ReplacementsFor(c) == supersededBy[c]

(* cluster: breadth first along what is needed, may be used or is improved, *)
(* at most maxDepth steps away.                                             *)
Cluster(c, maxDepth) ==
    LET next(i) == needs[i] \cup mayUse[i] \cup improves[i]
        visited[n \in 0 .. maxDepth] ==
          IF n = 0 THEN {c} ELSE visited[n - 1] \cup UNION {next(i) : i \in visited[n - 1]}
    IN  IF c \in present THEN visited[maxDepth] \ {c} ELSE {}

(* validate: what each relation names, ...                                  *)
Edges == [requires  |-> [i \in Ids |-> needs[i] \cup mayUse[i]],
          conflicts |-> against, enhances |-> improves, replaces |-> supersedes]

(* ... the self references and unknown ids in it, a rival that is required, *)
(* and cycles, of which optional requirements are no part.                  *)
SelfReferences == {r \in DOMAIN Edges : \E i \in present : i \in Edges[r][i]}
UnknownReferences == {r \in DOMAIN Edges : \E i \in present : ~(Edges[r][i] \subseteq present)}
RequiredRivals == {i \in present : against[i] \cap Edges.requires[i] # {}}
Cyclic == \E i \in present : OnCycle(needs, i) \/ OnCycle(supersedes, i)

NoProblems == SelfReferences = {} /\ UnknownReferences = {} /\ RequiredRivals = {}
              /\ ~Cyclic

-----------------------------------------------------------------------------
GraphTypeOK ==
    /\ present \in SUBSET Ids
    /\ \A m \in {needs, mayUse, neededBy, against, improves, improvedBy,
                  supersedes, supersededBy} : m \in Relation

(* Whatever the order the manifests arrive in, the two directions of each   *)
(* relation tell the same: what c depends on, however far, is what has c    *)
(* among its dependents, a conflict is known to both sides whoever declared *)
(* it, and a cluster that is not cut off holds those from which c is found  *)
(* by going back.  And when validate finds nothing wrong, all that a          *)
(* capability needs, however far, is there, and it is not the capability    *)
(* itself (graph.ts:50-87, 112-160, 186-247).                               *)
ViewsAgree ==
    /\ \A c, d \in present : c # d =>
         /\ d \in DependenciesOf(c, TRUE) <=> c \in DependentsOf(d)
         /\ d \in ConflictingWith(c) <=> c \in ConflictingWith(d)
         /\ d \in improves[c] <=> c \in EnhancersOf(d)
         /\ d \in supersedes[c] <=> c \in ReplacementsFor(d)
         /\ d \in Cluster(c, Cardinality(Ids)) <=>
              LET back == [i \in Ids |-> neededBy[i] \cup EnhancersOf(i)]
              IN  c \in Reach(back, back[d])
    /\ NoProblems => \A c \in present :
                        DependenciesOf(c, FALSE) \subseteq present \ {c}
=============================================================================
