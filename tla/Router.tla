-------------------------------- MODULE Router --------------------------------
(***************************************************************************)
(* Router.route (src/router/index.ts): the candidates that satisfy the     *)
(* hard constraints are scored, diluted by their neighbours, boosted by    *)
(* the semantic matcher, rid of conflicts, and planned.  The loops over    *)
(* the ranking are steps, one candidate each, because they read scores     *)
(* and exclusions that earlier iterations have changed in place.           *)
(*                                                                         *)
(* A score is any number of 0..100: the weighted factors it is made of     *)
(* are left out.  The LLM re-ranker has no transport and returns null.     *)
(***************************************************************************)
EXTENDS Catalog, FiniteSetsExt

CONSTANTS Manifests,   \* the catalogs a route may find, as functions on Ids
          Requests,    \* what the command line and the configuration ask for
          Scores,      \* the scores capabilities may get
          Boosts       \* what the semantic matcher may add to a score

Measures == {"cost", "latency", "latencyMs"}
RiskLevels == {"low", "medium", "high", "critical"}
Kinds == {"filesystem.read", "filesystem.write", "network.read", "network.write",
          "process.execute", "shell.execute", "git.write", "environment.read",
          "credentials", "hooks", "mcp"}

Manifest ==
    [conflicts : SUBSET Ids, risk : RiskLevels, blocked : BOOLEAN,
     permissions : SUBSET Kinds, measured : [Measures -> Nat \cup {None}],
     supports : SUBSET STRING,
     near : Ids \cup {None}, similarity : 0 .. 1000]   \* in thousandths

Request ==
    [constrained : BOOLEAN, noNetwork : BOOLEAN, limit : [Measures -> Nat \cup {None}],
     boundary : SUBSET Kinds, mustSupport : SUBSET STRING, required : SUBSET Ids,
     threshold : 0 .. 100, max : Nat, always : SUBSET Ids, never : SUBSET Ids,
     avoid : SUBSET Ids, distinctiveness : BOOLEAN, semantic : BOOLEAN]

ASSUME RouterAssumption ==
    /\ \A m \in Manifests : m \in [Ids -> Manifest]
    /\ Requests \subseteq Request
    /\ Scores \subseteq 0 .. 100 /\ Boosts \subseteq 0 .. 25

VARIABLES
    stage,      \* how far the pipeline is
    manifests,  \* the catalog, and ...
    request,    \* ... the request of this route
    ranking,    \* the candidates
    score,      \* score[c]: the score of candidate c by now
    todo,       \* the candidates the loop under way has not reached
    diluted,    \* the candidates that carry a `neighbor` signal
    excluded,   \* resolveConflicts: the candidates dropped
    active,     \* the capabilities whose row is ACTIVE or CANDIDATE
    plan        \* plan[c]: the action planned for candidate c

routerVars == <<stage, manifests, request, ranking, score, todo, diluted,
                excluded, active, plan>>

-----------------------------------------------------------------------------
(* evaluateConstraints: any violation rejects the candidate.  A limit that  *)
(* is not set, or a measure that is not declared, rejects nothing, and nor  *)
(* does an empty boundary.                                                  *)
Allowed(c, m, r) ==
    ~r.constrained \/
       /\ r.noNetwork => m[c].permissions \cap {"network.read", "network.write"} = {}
       /\ \A x \in Measures : r.limit[x] = None \/ m[c].measured[x] = None
                              \/ m[c].measured[x] <= r.limit[x]
       /\ r.boundary = {} \/ m[c].permissions \subseteq r.boundary
       /\ r.mustSupport \subseteq m[c].supports

(* The order of the ranking: by score, then by id.                          *)
Before(c, d) == score[c] > score[d] \/ (score[c] = score[d] /\ c < d)

Top(S) == CHOOSE c \in S : \A d \in S \ {c} : Before(c, d)

(* requiredCapabilities are an `always` list for this route only.           *)
Forced == request.always \cup (IF request.constrained THEN request.required ELSE {})

RouterInit ==
    /\ stage = "idle"
    /\ manifests = <<>> /\ request = <<>>
    /\ ranking = {} /\ todo = {} /\ diluted = {} /\ excluded = {} /\ active = {}
    /\ score = [c \in Ids |-> 0]
    /\ plan = <<>>

(* The catalog and the request are read; rank filters, scores and sorts the *)
(* candidates.                                                              *)
Rank ==
    /\ stage = "idle"
    /\ \E m \in Manifests, r \in Requests :
         /\ manifests' = m /\ request' = r
         /\ ranking' = {c \in Ids : Allowed(c, m, r) /\ ~m[c].blocked}
         /\ todo' = IF r.distinctiveness /\ Cardinality(ranking') > 1
                    THEN ranking' ELSE {}
    /\ \E s \in [ranking' -> Scores] :
          score' = [c \in Ids |-> IF c \in ranking' THEN s[c] ELSE 0]
    /\ stage' = "dilute"
    /\ UNCHANGED <<diluted, excluded, active, plan>>

(* The neighbour outranks c by the scores as they are now.                  *)
Outranked(c) == manifests[c].near \in ranking /\ score[manifests[c].near] > score[c]

(* Math.round(score * (1 - 0.35 * similarity))                              *)
DilutedScore(c) ==
    (score[c] * (100000 - 35 * manifests[c].similarity) + 50000) \div 100000

(* dilute, one candidate, in the order of the ranking.                      *)
DiluteOne ==
    /\ stage = "dilute" /\ todo # {}
    /\ LET c == Top(todo) IN
         /\ todo' = todo \ {c}
         /\ IF Outranked(c) /\ DilutedScore(c) < score[c]
            THEN /\ score' = [score EXCEPT ![c] = DilutedScore(c)]
                 /\ diluted' = diluted \cup {c}
            ELSE UNCHANGED <<score, diluted>>
    /\ UNCHANGED <<stage, manifests, request, ranking, excluded, active, plan>>

(* The semantic matcher only ever adds, up to 100.                          *)
SemanticPass ==
    /\ stage = "dilute" /\ todo = {}
    /\ IF request.semantic
       THEN \E b \in [ranking -> Boosts] :
              score' = [c \in Ids |-> IF c \in ranking
                                      THEN Min({100, score[c] + b[c]}) ELSE 0]
       ELSE UNCHANGED score
    /\ todo' = ranking
    /\ stage' = "conflicts"
    /\ UNCHANGED <<manifests, request, ranking, diluted, excluded, active, plan>>

-----------------------------------------------------------------------------
(* resolveConflicts.  Risk levels are compared as strings.                  *)
Alphabetical == [critical |-> 1, high |-> 2, low |-> 3, medium |-> 4]

(* A fault: the weaker candidate wins.                                      *)
Weaker(o, c) == score[o] < score[c]

Stronger(o, c) ==
    \/ score[o] > score[c]
    \/ /\ score[o] = score[c]
       /\ Alphabetical[manifests[c].risk] > Alphabetical[manifests[o].risk]

(* A fault: only the opponents that come later are looked at.               *)
OpponentsAhead(c) == (manifests[c].conflicts \cap todo) \ (excluded \cup {c})

Opponents(c) == (manifests[c].conflicts \cap ranking) \ (excluded \cup {c})

(* A candidate that is still in drops the opponents it is not weaker than,  *)
(* and is dropped by a stronger one, whatever the order they are named in.  *)
ResolveOne ==
    /\ stage = "conflicts" /\ todo # {}
    /\ LET c == Top(todo)
           winners == {o \in Opponents(c) : Stronger(o, c)}
       IN  /\ todo' = todo \ {c}
           /\ excluded' = IF c \in excluded THEN excluded
                          ELSE excluded \cup (Opponents(c) \ winners)
                                        \cup {x \in {c} : winners # {}}
    /\ UNCHANGED <<stage, manifests, request, ranking, score, diluted, active, plan>>

-----------------------------------------------------------------------------
(* buildPlan.  `prefer` reorders the activated ones only, and the plan is   *)
(* sorted again afterwards.                                                 *)
Kept == ranking \ excluded

Selected ==
    {c \in Kept : /\ c \notin request.never
                  /\ c \notin request.avoid \/ c \in Forced
                  /\ score[c] >= request.threshold \/ c \in Forced}
      \cup (Kept \cap Forced)

Activated ==
    {c \in Selected : Cardinality({d \in Selected : Before(d, c)}) < request.max}

ActionFor(c, act) ==
    IF c \in Activated THEN IF c \in act THEN "keep" ELSE "activate"
                       ELSE IF c \in act THEN "deactivate" ELSE "keep-inactive"

BuildPlan ==
    /\ stage = "conflicts" /\ todo = {}
    /\ \E act \in SUBSET Ids :
         /\ active' = act
         /\ plan' = [c \in Kept \ request.never |-> ActionFor(c, act)]
    /\ stage' = "planned"
    /\ UNCHANGED <<manifests, request, ranking, score, todo, diluted, excluded>>

RouterStep == DiluteOne \/ SemanticPass \/ ResolveOne \/ BuildPlan

RouterNext == Rank \/ RouterStep

RouterSpec == RouterInit /\ [][RouterNext]_routerVars

-----------------------------------------------------------------------------
RouterTypeOK ==
    /\ stage \in {"idle", "dilute", "conflicts", "planned"}
    /\ stage # "idle" => manifests \in [Ids -> Manifest] /\ request \in Request
    /\ ranking \in SUBSET Ids /\ todo \in SUBSET ranking
    /\ diluted \in SUBSET ranking /\ excluded \in SUBSET ranking
    /\ score \in [Ids -> 0 .. 100]
    /\ active \in SUBSET Ids
    /\ stage = "planned" => DOMAIN plan = Kept \ request.never

Running == {c \in DOMAIN plan : plan[c] \in {"activate", "keep"}}
Stopped == {c \in DOMAIN plan : plan[c] = "deactivate"}

(* Nobody is dropped for a weaker rival: whoever resolveConflicts excluded  *)
(* has a rival among the candidates with at least its score.                *)
LosersHaveRivals ==
    stage \in {"conflicts", "planned"} =>
      \A c \in excluded : \E o \in ranking \ {c} :
        /\ score[o] >= score[c]
        /\ o \in manifests[c].conflicts \/ c \in manifests[o].conflicts

(* The scores change while dilute walks the ranking, and still whoever pays *)
(* for a neighbour ends behind that neighbour (index.ts:153-171).           *)
DilutedStaysBehind ==
    stage = "dilute" =>
        \A c \in diluted : score[c] < score[manifests[c].near]

(* So every candidate that lost its place lost it to one it can point to.   *)
RankingIsExplained == LosersHaveRivals /\ DilutedStaysBehind

(* The pipeline makes the decisions RouteDecision allows, and no others.    *)
Decision == INSTANCE RouteDecision
              WITH Caps <- Ids, made <- stage = "planned",
                   running <- Running, stopped <- Stopped,
                   rivals <- [c \in Ids |-> IF stage = "idle" THEN {}
                                            ELSE manifests[c].conflicts],
                   active <- active,
                   budget <- IF stage = "idle" THEN 0 ELSE request.max

RouterImplementsDecision == Decision!Spec
=============================================================================
