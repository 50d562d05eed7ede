------------------------------ MODULE PlanGraph ------------------------------
(***************************************************************************)
(* src/plan: composePlan expands the capabilities a plan starts from into  *)
(* a graph (buildPlanDag), looks for cycles (detectCycles), validates the  *)
(* graph and linearizes it into steps.  The two depth-first traversals are *)
(* recursive functions in the code and machines with an explicit stack     *)
(* here, one call or one child per step.                                   *)
(*                                                                         *)
(* The tree of children that the CLI renders, labels and the order of the  *)
(* reported issues are left out; `requires` links are a set of pairs.      *)
(***************************************************************************)
EXTENDS Catalog, Sequences

CONSTANTS Compositions,  \* the registries and roots composePlan may be given
          MaxDepth       \* how deep expand goes (32 in the code)

ASSUME PlanAssumption ==
    /\ MaxDepth \in Nat
    /\ \A p \in Compositions :
         /\ DOMAIN p = {"registry", "children", "conflicts", "roots", "exclude"}
         /\ p.registry \subseteq Ids /\ p.exclude \subseteq Ids
         /\ p.children \in [Ids -> Seq(Ids)] /\ p.conflicts \in Relation
         /\ p.roots \in Seq(Ids)

VARIABLES
    work,      \* "idle", "roots", "inspect", "composed"
    input,     \* the registry, the compositions it declares, and the roots
    toStart,   \* the roots not started yet
    stack,     \* the calls under way: [id, kids still to visit]
    nodes,     \* the ids of the nodes in the order they were created
    status,    \* status[c] of the node of c, "none" when there is no node
    depth,     \* depth[c] of the node of c
    links,     \* the `requires` links
    finished,  \* detectCycles: `done`
    looped     \* the member sets of the cycles found

planVars == <<work, input, toStart, stack, nodes, status, depth, links,
              finished, looped>>

(* The members of S by what f gives them, equals in id order: sort() is     *)
(* stable.                                                                  *)
SortedBy(S, f) ==
    LET rank[i \in S] == Cardinality({j \in S : f[j] < f[i] \/ (f[j] = f[i] /\ j <= i)})
    IN  [n \in 1 .. Cardinality(S) |-> CHOOSE i \in S : rank[i] = n]

(* An empty list of roots stands for the whole registry, in id order.       *)
Sorted(S) == SortedBy(S, [i \in S |-> 0])

PlanInit ==
    /\ work = "idle" /\ input = <<>>
    /\ toStart = <<>> /\ stack = <<>> /\ nodes = <<>>
    /\ status = [c \in Ids |-> "none"] /\ depth = [c \in Ids |-> 0]
    /\ links = {} /\ finished = {} /\ looped = {}

Compose ==
    /\ work = "idle"
    /\ \E p \in Compositions :
         /\ input' = p
         /\ toStart' = IF p.roots = <<>> THEN Sorted(p.registry) ELSE p.roots
    /\ work' = "roots"
    /\ UNCHANGED <<stack, nodes, status, depth, links, finished, looped>>

Exists(c) == status[c] \notin {"none", "missing"}      \* created.has(c)

AddNode(c, s, d) ==
    /\ nodes' = Append(nodes, c)
    /\ status' = [status EXCEPT ![c] = s]
    /\ depth' = [depth EXCEPT ![c] = d]

Frame(c) == [id |-> c, kids |-> input.children[c]]

(* The next root: unknown ones get a node of their own, ...                 *)
StartRoot ==
    /\ work = "roots" /\ stack = <<>> /\ toStart # <<>>
    /\ LET c == Head(toStart) IN
         /\ toStart' = Tail(toStart)
         /\ CASE c \notin input.registry ->
                   AddNode(c, "missing", 1) /\ UNCHANGED stack
              [] Exists(c) -> UNCHANGED <<nodes, status, depth, stack>>
              [] OTHER -> /\ AddNode(c, "pending", 1)
                          /\ stack' = IF MaxDepth < 2 THEN <<>> ELSE <<Frame(c)>>
    /\ UNCHANGED <<work, input, links, finished, looped>>

(* `visited`: the root, and the callers of the call under way.              *)
Visited == {stack[1].id} \cup {stack[i].id : i \in 1 .. Len(stack) - 1}

(* expand, one child of the capability on top of the stack.                 *)
ExpandChild ==
    /\ work = "roots" /\ stack # <<>> /\ stack[Len(stack)].kids # <<>>
    /\ LET n == Len(stack)
           c == stack[n].id
           k == Head(stack[n].kids)
           rest == [stack EXCEPT ![n].kids = Tail(@)]
           link == links' = links \cup {<<c, k>>}
       IN
       CASE Exists(k) /\ k \in Visited /\ k \notin input.exclude ->
              link /\ stack' = rest /\ UNCHANGED <<nodes, status, depth>>
         [] Exists(k) /\ ~(k \in Visited /\ k \notin input.exclude) ->
              stack' = rest /\ UNCHANGED <<links, nodes, status, depth>>
         [] ~Exists(k) /\ k \notin input.registry ->
              link /\ AddNode(k, "missing", n + 1) /\ stack' = rest
         [] ~Exists(k) /\ k \in input.registry /\ k \in input.exclude ->
              link /\ AddNode(k, "skipped", n + 1) /\ stack' = rest
         [] OTHER ->
              /\ link /\ AddNode(k, "pending", n + 1)
              /\ stack' = IF n + 2 > MaxDepth THEN rest ELSE Append(rest, Frame(k))
    /\ UNCHANGED <<work, input, toStart, finished, looped>>

Return ==
    /\ work \in {"roots", "inspect"} /\ stack # <<>> /\ stack[Len(stack)].kids = <<>>
    /\ stack' = SubSeq(stack, 1, Len(stack) - 1)
    /\ finished' = IF work = "inspect" THEN finished \cup {stack[Len(stack)].id}
                   ELSE finished
    /\ UNCHANGED <<work, input, toStart, nodes, status, depth, links, looped>>

(* detectCycles visits the nodes in the order they were created, and what    *)
(* they require in id order.                                                *)
InspectStart ==
    /\ work = "roots" /\ stack = <<>> /\ toStart = <<>>
    /\ toStart' = nodes
    /\ work' = "inspect"
    /\ UNCHANGED <<input, stack, nodes, status, depth, links, finished, looped>>

Required(c) == {k \in Ids : <<c, k>> \in links}

Enter(c) == Append(stack, [id |-> c, kids |-> Sorted(Required(c))])

VisitNode ==
    /\ work = "inspect" /\ stack = <<>> /\ toStart # <<>>
    /\ toStart' = Tail(toStart)
    /\ stack' = IF Head(toStart) \in finished THEN <<>> ELSE Enter(Head(toStart))
    /\ UNCHANGED <<work, input, nodes, status, depth, links, finished, looped>>

(* A node that is being visited closes a cycle.                             *)
VisitRequired ==
    /\ work = "inspect" /\ stack # <<>> /\ stack[Len(stack)].kids # <<>>
    /\ LET n == Len(stack)
           k == Head(stack[n].kids)
           rest == [stack EXCEPT ![n].kids = Tail(@)]
           open == {i \in 1 .. n : stack[i].id = k}
       IN  /\ looped' = IF open = {} THEN looped
                      ELSE looped \cup {{stack[i].id : i \in Least(open) .. n}}
           /\ stack' = IF k \in finished \/ open # {} THEN rest
                       ELSE Append(rest, [id |-> k, kids |-> Sorted(Required(k))])
    /\ UNCHANGED <<work, input, toStart, nodes, status, depth, links, finished>>

-----------------------------------------------------------------------------
(* validatePlan.  A declared conflict counts if its target is known, in the *)
(* plan or not, unless one cycle holds both.                                *)
Node == Elems(nodes)

Unsatisfied == {l \in links : l[2] \notin input.registry}

Clashes ==
    {l \in (Node \cap input.registry) \X input.registry :
        /\ l[2] \in input.conflicts[l[1]]
        /\ ~ \E m \in looped : l[1] \in m /\ l[2] \in m}

Valid == looped = {} /\ Unsatisfied = {} /\ Clashes = {}

(* classifyStatuses                                                         *)
Classified(c) ==
    IF status[c] \in {"none", "missing", "skipped"} THEN status[c]
    ELSE IF c \in UNION looped THEN "skipped"
    ELSE IF \E l \in Clashes : c \in {l[1], l[2]} THEN "conflict"
    ELSE "satisfied"

Classify ==
    /\ work = "inspect" /\ stack = <<>> /\ toStart = <<>>
    /\ status' = [c \in Ids |-> Classified(c)]
    /\ work' = "composed"
    /\ UNCHANGED <<input, toStart, stack, nodes, depth, links, finished, looped>>

(* linearize: Kahn's algorithm from the dependents, and reversed; what lies *)
(* on a cycle or behind one is never placed.  `ready` is kept sorted.       *)
Linear ==
    LET Free(p) == {c \in Node \ Elems(p) :
                      \A d \in Node : <<d, c>> \in links => d \in Elems(p)}
        next == [p \in Seq(Ids) |-> IF Free(p) = {} THEN p ELSE Append(p, Least(Free(p)))]
        place[n \in 0 .. Cardinality(Node)] == IF n = 0 THEN <<>> ELSE next[place[n-1]]
        p == place[Cardinality(Node)]
    IN  [i \in 1 .. Len(p) |-> p[Len(p) + 1 - i]]

(* A fault: what is excluded or missing has a step, too.                    *)
StepsUnfiltered == Linear

Steps ==
    LET all == Linear
        kept[i \in 0 .. Len(all)] ==
          IF i = 0 THEN <<>>
          ELSE IF status[all[i]] \in {"skipped", "missing"} THEN kept[i-1]
          ELSE Append(kept[i-1], all[i])
    IN  kept[Len(all)]

PlanStep == StartRoot \/ ExpandChild \/ Return \/ InspectStart
            \/ VisitNode \/ VisitRequired \/ Classify

PlanNext == Compose \/ PlanStep

PlanSpec == PlanInit /\ [][PlanNext]_planVars

-----------------------------------------------------------------------------
PlanTypeOK ==
    /\ work \in {"idle", "roots", "inspect", "composed"}
    /\ toStart \in Seq(Ids) /\ nodes \in Seq(Ids)
    /\ \A i \in DOMAIN stack : stack[i].id \in Ids /\ stack[i].kids \in Seq(Ids)
    /\ status \in [Ids -> {"none", "missing", "pending", "skipped", "conflict", "satisfied"}]
    /\ depth \in [Ids -> 0 .. MaxDepth + 1]
    /\ links \in SUBSET (Ids \X Ids)
    /\ finished \in SUBSET Ids /\ looped \in SUBSET SUBSET Ids

(* What the plan is made of, when nothing was cut off for its depth: what   *)
(* the roots reach through the children of capabilities that are known and  *)
(* not excluded.                                                            *)
Roots == Elems(IF input.roots = <<>> THEN Sorted(input.registry) ELSE input.roots)

Opened == [c \in Ids |-> IF c \in input.registry \ input.exclude
                         THEN Elems(input.children[c]) ELSE {}]
Whole == Reach(Opened, Roots)

Uncut == \A c \in Ids : depth[c] < MaxDepth

Composed == work = "composed" /\ Uncut /\ Roots \cap input.exclude = {}

(* No cycle of two or more capabilities escapes: although a capability that *)
(* is already a node gets no link, every cyclic composition is reported.    *)
(* And a plan declared valid has exactly one step for everything the roots  *)
(* reach and was not excluded; all of it is known, and no two steps are in  *)
(* conflict (graph.ts:53-66, 137-227, plan/index.ts:8-29).                  *)
CompositionsAreSound ==
    /\ Composed =>
         LET others == [c \in Ids |-> Opened[c] \ {c}] IN
         (\E c \in Whole : OnCycle(others, c)) => looped # {}
    /\ (Composed /\ Valid /\ Roots \subseteq input.registry) =>
         /\ Elems(Steps) = Whole \ input.exclude
         /\ Len(Steps) = Cardinality(Whole \ input.exclude)
         /\ Whole \subseteq input.registry
         /\ \A c, d \in Elems(Steps) : d \notin input.conflicts[c]

(* linearize "Returns dependencies before dependents" (graph.ts:246), and a *)
(* workflow prints "Composition valid — execution order above is            *)
(* dependency-safe." (workflow.ts:116).                                     *)
ValidPlanIsOrdered ==
    (Composed /\ Valid) =>
      \A i, j \in DOMAIN Steps :
        (Steps[j] \in Elems(input.children[Steps[i]]) /\ Steps[i] # Steps[j]) => j < i
=============================================================================
