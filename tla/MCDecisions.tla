------------------------------ MODULE MCDecisions ------------------------------
(***************************************************************************)
(* The algorithms over the catalog, on small catalogs, and the server that  *)
(* offers them to a client.  They share no state: a behaviour runs one of   *)
(* them, on any of its inputs, and the others stay where they start, so     *)
(* that the states of a run are the sum of theirs and not the product.      *)
(***************************************************************************)
EXTENDS Router, Dependencies, Fallbacks, CapabilityGraph, Workflow, Versions,
        Retrieval, CommandLine, McpServer

VARIABLE running  \* the algorithm this behaviour runs

others == <<routerVars, dependencyVars, fallbackVars, workflowVars, graphVars,
            versionVars, retrievalVars, commandVars, serverVars>>
mcVars == <<running, others>>

Algorithms == {"route", "dependencies", "fallback", "plan", "graph", "workflow",
               "versions", "retrieve", "command", "server"}

MCInit ==
    /\ running \in Algorithms
    /\ RouterInit /\ DependencyInit /\ FallbackInit /\ WorkflowInit /\ GraphInit
    /\ VersionInit /\ RetrievalInit /\ CommandInit /\ ServerInit

Route == running = "route" /\ RouterNext
           /\ UNCHANGED <<running, dependencyVars, fallbackVars, workflowVars, graphVars,
                          versionVars, retrievalVars, commandVars, serverVars>>
Depended == running = "dependencies" /\ DependencyNext
           /\ UNCHANGED <<running, routerVars, fallbackVars, workflowVars, graphVars,
                          versionVars, retrievalVars, commandVars, serverVars>>
FallBack == running = "fallback" /\ FallbackNext
           /\ UNCHANGED <<running, routerVars, dependencyVars, workflowVars, graphVars,
                          versionVars, retrievalVars, commandVars, serverVars>>
Composing == /\ \/ running = "plan" /\ PlanNext /\ UNCHANGED <<flow, task, subtasks, steps>>
                \/ running = "workflow" /\ WorkflowNext
             /\ UNCHANGED <<running, routerVars, dependencyVars, fallbackVars, graphVars,
                            versionVars, retrievalVars, commandVars, serverVars>>
Graph == running = "graph" /\ GraphNext
           /\ UNCHANGED <<running, routerVars, dependencyVars, fallbackVars, workflowVars,
                          versionVars, retrievalVars, commandVars, serverVars>>
Versioned == running = "versions" /\ VersionNext
           /\ UNCHANGED <<running, routerVars, dependencyVars, fallbackVars, workflowVars,
                          graphVars, retrievalVars, commandVars, serverVars>>
Retrieving == running = "retrieve" /\ RetrievalNext
           /\ UNCHANGED <<running, routerVars, dependencyVars, fallbackVars, workflowVars,
                          graphVars, versionVars, commandVars, serverVars>>
Commanded == running = "command" /\ CommandNext
           /\ UNCHANGED <<running, routerVars, dependencyVars, fallbackVars, workflowVars,
                          graphVars, versionVars, retrievalVars, serverVars>>
Serving == running = "server" /\ ServerNext
           /\ UNCHANGED <<running, routerVars, dependencyVars, fallbackVars, workflowVars,
                          graphVars, versionVars, retrievalVars, commandVars>>

MCNext == Route \/ Depended \/ FallBack \/ Composing \/ Graph
          \/ Versioned \/ Retrieving \/ Commanded \/ Serving

(* The algorithms are synchronous: once called they run on.  The event loop *)
(* runs something of the server as long as anything is due, which is less   *)
(* than McpServer assumes of each handler.                                  *)
RunOn == \/ RouterStep /\ Route
         \/ Resolve /\ Depended
         \/ FallbackStep /\ FallBack
         \/ (PlanStep \/ WorkflowStep) /\ Composing
         \/ UpdateStep /\ Versioned
         \/ RetrievalStep /\ Retrieving
         \/ ParseStep /\ Commanded
         \/ ((\E n \in Messages : Attend(n)) \/ Closed \/ AwaitAll) /\ Serving

MCSpec == MCInit /\ [][MCNext]_mcVars /\ WF_mcVars(RunOn)

(* When the algorithm of this behaviour is under way, and when at its end.  *)
Called == \/ stage # "idle" \/ phase = "expand" \/ walk = "walking" \/ work = "roots"
          \/ flow = "routing" \/ updating = "listed" \/ retrieving = "sparse"
          \/ doing = "parsing"

Ended == \/ running = "route"        /\ stage = "planned"
         \/ running = "dependencies" /\ phase = "done"
         \/ running = "fallback"     /\ walk = "none"
         \/ running = "plan"         /\ work = "composed"
         \/ running = "workflow"     /\ flow = "planned"
         \/ running = "versions"     /\ updating = "done"
         \/ running = "retrieve"     /\ retrieving \in {"answered", "thrown"}
         \/ running = "command"      /\ doing \in {"ended", "refused"}

(* Every loop ends, on cyclic requirements, fallbacks and compositions too:  *)
(* a route reaches its plan, a resolution its order, a walk a fallback or   *)
(* none, however often the fallbacks fail in turn, a composition its steps, *)
(* a workflow its plan, an update its end though the registry changes       *)
(* meanwhile, a retrieval its answer and a command line its exit code.      *)
LoopsEnd == Called ~> Ended

-----------------------------------------------------------------------------
(* Catalogs of three capabilities; 4 is known to nobody.                    *)
Caps3 == {1, 2, 3}

OnThree(f, default) == [i \in Ids |-> IF i \in Caps3 THEN f[i] ELSE default]

Plain == [conflicts |-> {}, risk |-> "low", blocked |-> FALSE, permissions |-> {},
          measured |-> [m \in Measures |-> None], supports |-> {},
          near |-> None, similarity |-> 0]
Absent == [Plain EXCEPT !.blocked = TRUE]

Conflicts3 == {<<{2}, {3}, {}>>, <<{}, {1, 3}, {}>>, <<{2}, {3}, {1}>>}
Risks3 == {<<"low", "low", "low">>, <<"medium", "low", "high">>}

MCManifests ==
    {OnThree([i \in Caps3 |-> [Plain EXCEPT !.conflicts = c[i], !.risk = r[i],
                                            !.near = n[i], !.similarity = 600,
                                            !.permissions = IF i = 2 THEN {"network.read"} ELSE {},
                                            !.measured = [m \in Measures |-> i]]],
             Absent) : c \in Conflicts3, r \in Risks3, n \in {<<2, 3, 2>>}}

Bare == [constrained |-> FALSE, noNetwork |-> FALSE,
         limit |-> [m \in Measures |-> None], boundary |-> {}, mustSupport |-> {},
         required |-> {}, threshold |-> 40, max |-> 2, always |-> {}, never |-> {},
         avoid |-> {}, distinctiveness |-> TRUE, semantic |-> FALSE]

MCRequests ==
    {Bare,
     [Bare EXCEPT !.max = 1, !.always = {3}],
     [Bare EXCEPT !.never = {1}, !.avoid = {2}, !.always = {1, 2}],
     [Bare EXCEPT !.constrained = TRUE, !.required = {2, 3}, !.noNetwork = TRUE],
     [Bare EXCEPT !.constrained = TRUE, !.limit["cost"] = 2, !.semantic = TRUE],
     [Bare EXCEPT !.max = 0, !.semantic = TRUE, !.distinctiveness = FALSE]}

MCQuestions ==
    {[known |-> Caps3, requires |-> OnThree(r, {}), optional |-> OnThree(o, {}), ids |-> a] :
        r \in [Caps3 -> (SUBSET Caps3) \cup {{4}, {3, 4}}], o \in {<<{}, {4}, {3}>>},
        a \in {{1, 3, 4}}}

MCFailures ==
    {[failed |-> 1, declared |-> OnThree(d, <<>>), candidates |-> c, unavailable |-> u] :
        d \in [Caps3 -> {<<>>, <<1>>, <<2, 3>>, <<3, 1>>, <<2, 2, 1>>, <<4, 1, 2>>}],
        c \in {{}, {1, 2, 3}}, u \in {{}, {2}}}

MCCompositions ==
    {[registry |-> Caps3, children |-> OnThree(k, <<>>), conflicts |-> OnThree(c, {}),
      roots |-> r, exclude |-> e] :
        k \in [Caps3 -> {<<>>, <<1>>, <<3>>, <<4>>, <<1, 2>>, <<3, 2>>}],
        c \in {<<{}, {}, {}>>, <<{}, {3}, {}>>}, r \in {<<1>>, <<>>}, e \in {{}, {2}}}

MCDeclarations ==
    {[id |-> i, requires |-> r, optional |-> o, conflicts |-> c, enhances |-> o,
      replaces |-> c] :
        i \in Caps3, r \in {{}, {1}, {3}, {2, 4}}, o \in {{}, {2}}, c \in {{}, {1}}}

-----------------------------------------------------------------------------
(* Workflows: explicit, without an operation, and of one, two and three.    *)
Best(c, s) == [id |-> c, score |-> s]
MCChildren == {<<x, y, z, <<>>>> : x \in {<<>>, <<2>>, <<3, 2>>}, y \in {<<>>, <<3>>, <<4>>},
                                   z \in {<<>>, <<1, 2>>, <<3>>}}
MCTasks ==
    {[parts |-> p[1], operations |-> p[2], best |-> b, registry |-> Caps3,
      children |-> k, conflicts |-> c] :
        p \in {<<3, {"review"}>>, <<1, {}>>, <<0, {"design"}>>,
               <<0, {"security-review", "testing", "implementation"}>>},
        b \in {<<>>, <<Best(1, 40), Best(2, 90), Best(1, 60)>>,
               <<Best(3, 41), Best(2, 39), Best(3, 80)>>},
        k \in MCChildren, c \in {OnThree(<<{}, {}, {}>>, {}), OnThree(<<{}, {3}, {}>>, {})}}

-----------------------------------------------------------------------------
(* Versions at the places the operators tell apart.                         *)
Version(a, b, c, p, place) ==
    [sem |-> [major |-> a, minor |-> b, patch |-> c, prerelease |-> p], place |-> place]
NoVersion == [sem |-> Invalid, place |-> 11]

MCTexts == {Version(0, 0, 3, None, 1), Version(0, 2, 0, None, 2), Version(0, 2, 1, 1, 3),
            Version(1, 0, 0, None, 4), Version(1, 0, 0, 0, 5), Version(1, 0, 0, 1, 6),
            Version(1, 2, 0, None, 7), Version(1, 2, 3, None, 8), Version(2, 0, 0, 0, 9),
            Version(2, 0, 0, None, 10), NoVersion}

MCRanges ==
    {{{}}} \cup {{{[op |-> o, target |-> t.sem]}} : o \in Operators, t \in MCTexts}
    \cup {{{[op |-> ">=", target |-> t.sem], [op |-> "<", target |-> u.sem]},
           {[op |-> "=", target |-> Version(0, 2, 0, None, 2).sem]}} :
             t, u \in {x \in MCTexts : x.place > 3}}

MCSituations ==
    LET few == {t \in MCTexts : t.place \in {2, 4, 6, 11}} IN
    {[rows |-> <<a, Version(1, 0, 0, 1, 6)>>, registry |-> r] :
        a \in few, r \in {<<b>> : b \in few} \cup {<<b, c>> : b \in few, c \in few}}

-----------------------------------------------------------------------------
(* Queries over three capabilities, and rows of a fourth that is gone.      *)
Row(c, s, x) == [capability |-> c, section |-> s, cosine |-> x]
Query == [records |-> Caps3, topK |-> 2, requested |-> Sources, bm25 |-> [c \in Ids |-> 0],
          lexical |-> OnThree(<<0, 1, 2>>, 1), rows |-> <<>>, empty |-> FALSE,
          enabled |-> TRUE, key |-> FALSE, rerank |-> FALSE, provider |-> "openai"]
MCRows == {<<>>, <<Row(4, 1, 3), Row(2, 2, 2), Row(2, 3, 2), Row(1, 4, -2)>>,
           <<Row(3, 1, 1), Row(1, 2, 1), Row(4, 3, 5)>>,
           <<Row(1, 1, 4), Row(2, 2, 3), Row(3, 3, 2), Row(4, 4, 1)>>}
MCScale == 61 * 62 * 63 * 64
MCQueries ==
    {[Query EXCEPT !.bm25 = b, !.rows = r, !.topK = k, !.key = o, !.rerank = x] :
        b \in {OnThree(f, 0) : f \in [Caps3 -> 0 .. 2]}, r \in MCRows, k \in 1 .. 3,
        o \in {FALSE}, x \in BOOLEAN}
    \cup {[Query EXCEPT !.rows = r, !.key = TRUE, !.topK = k] : r \in MCRows, k \in {0, 2}}
    \cup {[Query EXCEPT !.records = {}], [Query EXCEPT !.empty = TRUE],
          [Query EXCEPT !.requested = {"sparse"}, !.bm25[2] = 1],
          [Query EXCEPT !.enabled = FALSE]}

-----------------------------------------------------------------------------
(* Command lines over two commands that share an alias.                     *)
Flag(type, short) == [type |-> type, short |-> short]
MCRegistered ==
    <<[names |-> {"go", "g"}, required |-> FALSE,
       flags |-> [n |-> Flag("number", "n"), s |-> Flag("string", "s"),
                  b |-> Flag("boolean", "b")]],
      [names |-> {"run", "g"}, required |-> TRUE, flags |-> [n |-> Flag("boolean", "n")]]>>

Word(t) == [kind |-> "word", text |-> t]
Long(n, v) == [kind |-> "long", name |-> n, value |-> v]
Short(n) == [kind |-> "short", name |-> n]
Only(k) == [kind |-> k]

AnyToken == {Word("12"), Word("go"), Only("end"), Only("json"), Long("n", Unset),
             Long("n", "go"), Long("s", Unset), Long("s", "false"), Long("b", "false"),
             Long("x", Unset), Short("n"), Short("b"), Short("x"), Short("5")}
SomeToken == {Word("12"), Only("end"), Long("n", Unset), Long("s", "12"), Short("s"),
              Short("5")}

MCLines ==
    {<<>>} \cup {<<t>> \o r : t \in {Word("go"), Word("g"), Word("run"), Word("12"),
                                    Only("help"), Long("b", Unset)},
                             r \in UNION {[1 .. k -> AnyToken] : k \in 0 .. 2}}
    \cup {<<Word("go")>> \o r : r \in [1 .. 4 -> SomeToken]}

-----------------------------------------------------------------------------
(* Two lines at once, two context providers of which the second never       *)
(* returns.                                                                 *)
MCMessages == {1, 2}
MCHanging == {2}
=============================================================================
