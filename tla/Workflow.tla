-------------------------------- MODULE Workflow --------------------------------
(***************************************************************************)
(* src/workflow/planner.ts and src/task/decompose.ts: a task becomes       *)
(* subtasks, each is routed, and the capabilities that were chosen are     *)
(* composed into one plan (PlanGraph) from which the steps take their      *)
(* dependencies.                                                           *)
(*                                                                         *)
(* The texts are left out: a stage of a recipe is the operation and its    *)
(* number, and what the router (Router) finds best for a subtask is part   *)
(* of the task.                                                            *)
(***************************************************************************)
EXTENDS PlanGraph

CONSTANTS Tasks,      \* tasks over a registry: their parts, operations and routes
          Threshold   \* router.threshold

(* OPERATION_PRIORITY, with the number of stages of their RECIPES.          *)
Recipes == <<<<"security-review", 5>>, <<"deployment", 4>>, <<"migration", 3>>,
             <<"testing", 3>>, <<"debugging", 4>>, <<"refactoring", 3>>,
             <<"configuration", 3>>, <<"documentation", 3>>, <<"design", 3>>,
             <<"review", 3>>, <<"implementation", 4>>>>
Operations == {Recipes[i][1] : i \in DOMAIN Recipes}

ASSUME WorkflowAssumption ==
    /\ Threshold \in Nat
    /\ \A t \in Tasks :
         /\ t.parts \in Nat /\ t.operations \subseteq Operations
         /\ \A i \in DOMAIN t.best : t.best[i].score \in Nat /\ t.best[i].id \in t.registry
         /\ t.registry \subseteq Ids /\ t.children \in [Ids -> Seq(Ids)]
         /\ t.conflicts \in Relation

VARIABLES flow,       \* "idle", "routing", "composing" or "planned"
          task,
          subtasks,   \* decomposeTask's
          steps       \* the steps so far, [subtask, capability, dependencies]

workflowVars == <<planVars, flow, task, subtasks, steps>>

WorkflowInit == PlanInit /\ flow = "idle" /\ task = <<>> /\ subtasks = <<>> /\ steps = <<>>

(* stagesFor: the recipes of the first two operations, or three stages for  *)
(* a task without any.  No two recipes share a stage, and two have never    *)
(* more than ten.                                                           *)
Stages(recipe) == [i \in 1 .. recipe[2] |-> <<recipe[1], i>>]

StagesFor(operations) ==
    LET ops == Sorted({i \in DOMAIN Recipes : Recipes[i][1] \in operations}) IN
    CASE Len(ops) = 0 -> Stages(<<"any", 3>>)
      [] Len(ops) = 1 -> Stages(Recipes[ops[1]])
      [] OTHER -> Stages(Recipes[ops[1]]) \o Stages(Recipes[ops[2]])

(* An explicit sequence is kept; one part is no sequence.                   *)
DecomposeTask ==
    /\ flow = "idle" /\ flow' = "routing"
    /\ \E t \in Tasks :
         /\ task' = t
         /\ subtasks' = IF t.parts >= 2 THEN Stages(<<"part", t.parts>>)
                        ELSE StagesFor(t.operations)
    /\ UNCHANGED <<planVars, steps>>

Chosen(i) ==
    IF i \in DOMAIN task.best /\ task.best[i].score >= Threshold
    THEN task.best[i].id ELSE None

RouteSubtask ==
    /\ flow = "routing" /\ Len(steps) < Len(subtasks)
    /\ LET i == Len(steps) + 1 IN
         steps' = Append(steps, [subtask |-> subtasks[i], capability |-> Chosen(i),
                                 dependencies |-> <<>>])
    /\ UNCHANGED <<planVars, flow, task, subtasks>>

Routed == {steps[i].capability : i \in DOMAIN steps} \ {None}

(* The roots are the chosen capabilities, each once, the first one first.   *)
FirstUses ==
    LET first == {i \in DOMAIN steps : /\ steps[i].capability # None
                                       /\ \A j \in 1 .. i - 1 :
                                            steps[j].capability # steps[i].capability}
        order == Sorted(first)
    IN  [n \in DOMAIN order |-> steps[order[n]].capability]

ComposeChosen ==
    /\ flow = "routing" /\ Len(steps) = Len(subtasks)
    /\ IF Routed = {} THEN flow' = "planned" /\ UNCHANGED planVars
       ELSE /\ flow' = "composing"
            /\ input' = [registry |-> task.registry, children |-> task.children,
                         conflicts |-> task.conflicts, roots |-> FirstUses, exclude |-> {}]
            /\ toStart' = FirstUses /\ work' = "roots"
            /\ UNCHANGED <<stack, nodes, status, depth, links, finished, looped>>
    /\ UNCHANGED <<task, subtasks, steps>>

ComposeOn == flow = "composing" /\ PlanStep /\ UNCHANGED <<flow, task, subtasks, steps>>

(* A fault: they are taken as they are declared.                            *)
ComposedOfAsDeclared(c, plan) == task.children[c]

(* A step depends on what its capability is composed of and the plan has,   *)
(* in the plan's order.                                                     *)
ComposedOf(c, plan) ==
    LET kids == task.children[c]
        has == {i \in DOMAIN kids : kids[i] \in Elems(plan)}
        position == [i \in has |-> CHOOSE p \in DOMAIN plan : plan[p] = kids[i]]
        order == SortedBy(has, position)
    IN  [n \in DOMAIN order |-> kids[order[n]]]

Depend ==
    /\ flow = "composing" /\ work = "composed" /\ flow' = "planned"
    /\ \E plan \in {Steps} :
         steps' = [i \in DOMAIN steps |->
                     IF steps[i].capability = None THEN steps[i]
                     ELSE [steps[i] EXCEPT !.dependencies =
                             ComposedOf(steps[i].capability, plan)]]
    /\ UNCHANGED <<planVars, task, subtasks>>

WorkflowStep == RouteSubtask \/ ComposeChosen \/ ComposeOn \/ Depend
WorkflowNext == DecomposeTask \/ WorkflowStep

WorkflowSpec == WorkflowInit /\ [][WorkflowNext]_workflowVars

-----------------------------------------------------------------------------
(* A workflow misses nothing of its task: it has a step for every subtask,  *)
(* in their order, of every operation as far as the two recipes go; nothing *)
(* is in it that was not chosen above the threshold or is part of what was; *)
(* and of a plan that validates every step names all its capability is      *)
(* composed of, each with a place in the plan (planner.ts:48-96,            *)
(* decompose.ts:65-119).                                                    *)
WorkflowIsWhole ==
    flow = "planned" =>
      /\ [i \in DOMAIN steps |-> steps[i].subtask] = subtasks
      /\ IF task.parts >= 2 THEN Len(steps) = task.parts
         ELSE /\ Len(steps) \in 3 .. 10
              /\ Cardinality(task.operations \cap {subtasks[i][1] : i \in DOMAIN subtasks})
                   = IF Cardinality(task.operations) > 2 THEN 2
                     ELSE Cardinality(task.operations)
      /\ \A i \in DOMAIN steps : steps[i].capability # None =>
           \E b \in Elems(task.best) : b.id = steps[i].capability /\ b.score >= Threshold
      /\ work = "composed" <=> Routed # {}
      /\ (work = "composed" /\ Uncut) =>
           /\ Elems(Steps) \subseteq Reach(Opened, Routed)
           /\ Valid => \A i \in DOMAIN steps : steps[i].capability # None =>
                LET c == steps[i].capability IN
                /\ c \in Elems(Steps)
                /\ Elems(steps[i].dependencies) = Elems(task.children[c])
                /\ \A m, n \in DOMAIN steps[i].dependencies : m < n =>
                     \E p, q \in DOMAIN Steps :
                       /\ p <= q
                       /\ Steps[p] = steps[i].dependencies[m]
                       /\ Steps[q] = steps[i].dependencies[n]
=============================================================================
