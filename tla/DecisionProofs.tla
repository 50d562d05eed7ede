---------------------------- MODULE DecisionProofs -----------------------------
(***************************************************************************)
(* Proofs about the algorithms over the catalog, for any catalog.          *)
(*                                                                         *)
(* The pipeline implements RouteDecision for any request.  The inductive   *)
(* invariant says that a candidate resolveConflicts has passed is dropped  *)
(* or has had all of its opponents dropped, so that no two rivals are left *)
(* when it is through; the budget is a matter of counting: a candidate's   *)
(* rank is the number of those before it, ranks differ, and only the ranks *)
(* below the budget are activated.                                         *)
(***************************************************************************)
EXTENDS Router, Fallbacks, CapabilityGraph, Dependencies, Versions, Retrieval,
        CommandLine, Induction, FiniteSetTheorems, TLAPS

(* What resolveConflicts has achieved for the candidates it has passed.     *)
Settled(c) == c \in excluded \/ (manifests[c].conflicts \cap ranking) \ {c} \subseteq excluded

RouterInv ==
    /\ stage \in {"idle", "dilute", "conflicts", "planned"}
    /\ stage # "idle" => manifests \in [Ids -> Manifest] /\ request \in Request
    /\ ranking \in SUBSET Ids
    /\ score \in [Ids -> 0 .. 100]
    /\ stage # "planned" => plan = <<>>
    /\ stage = "conflicts" => \A c \in ranking \ todo : Settled(c)

-----------------------------------------------------------------------------
LEMMA BeforeOrders ==
  ASSUME score \in [Ids -> 0 .. 100], NEW c \in Ids, NEW d \in Ids
  PROVE  /\ ~Before(c, c)
         /\ c # d => Before(c, d) \/ Before(d, c)
         /\ \A e \in Ids : Before(c, d) /\ Before(d, e) => Before(c, e)
<1>1. c \in Int /\ d \in Int /\ \A e \in Ids : e \in Int /\ score[e] \in Int
  BY IdsAssumption
<1> QED BY <1>1 DEF Before

(* Whoever is before c has a smaller rank.                                  *)
Ahead(c) == {d \in Selected : Before(d, c)}

LEMMA RanksDiffer ==
  ASSUME score \in [Ids -> 0 .. 100], Selected \subseteq Ids,
         NEW c \in Selected, NEW d \in Selected, Before(c, d)
  PROVE  /\ Cardinality(Ahead(c)) \in Nat /\ Cardinality(Ahead(d)) \in Nat
         /\ Cardinality(Ahead(c)) < Cardinality(Ahead(d))
<1>1. Ahead(c) \subseteq Ahead(d)
  BY BeforeOrders DEF Ahead
<1>2. c \in Ahead(d) /\ c \notin Ahead(c)
  BY BeforeOrders DEF Ahead
<1>3. IsFiniteSet(Ahead(c)) /\ IsFiniteSet(Ahead(d))
  BY IdsAssumption, FS_Subset DEF Ahead
<1> QED BY <1>1, <1>2, <1>3, FS_Subset, FS_CardinalityType

LEMMA RoomSize ==
  ASSUME NEW n \in Nat
  PROVE  IsFiniteSet(0 .. n - 1) /\ Cardinality(0 .. n - 1) = n
<1>1. 0 \in Int /\ n - 1 \in Int
  OBVIOUS
<1>2. /\ IsFiniteSet(0 .. n - 1)
      /\ Cardinality(0 .. n - 1) = IF 0 > n - 1 THEN 0 ELSE n - 1 - 0 + 1
  BY <1>1, FS_Interval
<1> QED BY <1>2

LEMMA ActivatedFits ==
  ASSUME score \in [Ids -> 0 .. 100], Selected \subseteq Ids, request.max \in Nat
  PROVE  IsFiniteSet(Activated) /\ Cardinality(Activated) <= request.max
<1> DEFINE rank == [c \in Activated |-> Cardinality(Ahead(c))]
           room == 0 .. request.max - 1
<1>1. IsFiniteSet(Activated) /\ Activated \subseteq Selected
  BY IdsAssumption, FS_Subset DEF Activated
<1>2. ASSUME NEW c \in Activated PROVE rank[c] \in room
  <2>1. IsFiniteSet(Ahead(c))
    BY IdsAssumption, FS_Subset DEF Ahead
  <2>2. Cardinality(Ahead(c)) < request.max
    BY <1>2 DEF Activated, Ahead
  <2> QED BY <2>1, <2>2, FS_CardinalityType
<1>3. ASSUME NEW c \in Activated, NEW d \in Activated, c # d PROVE rank[c] # rank[d]
  <2>1. Before(c, d) \/ Before(d, c)
    BY <1>1, <1>3, BeforeOrders
  <2> QED BY <1>1, <2>1, RanksDiffer
<1>4. rank \in Injection(Activated, room)
  <2> HIDE DEF rank, room
  <2>1. rank \in [Activated -> room]
    BY <1>2 DEF rank
  <2> QED BY <1>3, <2>1 DEF Injection, IsInjective
<1>5. IsFiniteSet(room) /\ Cardinality(room) = request.max
  BY RoomSize
<1> QED BY <1>1, <1>4, <1>5, FS_Injection

-----------------------------------------------------------------------------
LEMMA RouterInitInv == RouterInit => RouterInv
  BY DEF RouterInit, RouterInv

LEMMA RankInv == ASSUME RouterInv, Rank PROVE RouterInv'
<1>1. PICK m \in Manifests, r \in Requests :
         manifests' = m /\ request' = r
         /\ ranking' = {c \in Ids : Allowed(c, m, r) /\ ~m[c].blocked}
  BY DEF Rank
<1>2. manifests' \in [Ids -> Manifest] /\ request' \in Request /\ ranking' \in SUBSET Ids
  BY <1>1, RouterAssumption
<1>3. PICK s \in [ranking' -> Scores] :
         score' = [c \in Ids |-> IF c \in ranking' THEN s[c] ELSE 0]
  BY DEF Rank
<1>4. score' \in [Ids -> 0 .. 100]
  <2>1. \A c \in ranking' : s[c] \in 0 .. 100
    BY <1>3, RouterAssumption
  <2> QED BY <1>3, <2>1
<1>5. stage = "idle" /\ stage' = "dilute" /\ plan' = plan
  BY DEF Rank
<1> QED BY <1>2, <1>4, <1>5 DEF RouterInv

LEMMA DilutedIsScore ==
  ASSUME NEW c \in Ids, manifests \in [Ids -> Manifest], score \in [Ids -> 0 .. 100],
         DilutedScore(c) < score[c]
  PROVE  DilutedScore(c) \in 0 .. 100
<1> DEFINE rest == 100000 - 35 * manifests[c].similarity
<1>1. manifests[c].similarity \in 0 .. 1000
  BY DEF Manifest
<1>2. rest \in Nat /\ score[c] \in Nat /\ score[c] <= 100
  <2> DEFINE s == manifests[c].similarity
  <2>1. s \in Nat /\ s <= 1000
    BY <1>1, SMTT(30)
  <2>2. 100000 - 35 * s \in Nat
    <3> HIDE DEF s
    <3> QED BY <2>1, SMT
  <2>3. score[c] \in 0 .. 100
    OBVIOUS
  <2> QED BY <2>2, <2>3
<1>3. score[c] * rest \in Nat
  <2> HIDE DEF rest
  <2> QED BY <1>2
<1>4. \A n \in Nat : (n + 50000) \div 100000 \in Nat
  OBVIOUS
<1>5. DilutedScore(c) \in Nat
  BY <1>3, <1>4 DEF DilutedScore
<1> QED BY <1>2, <1>5

LEMMA DiluteInv == ASSUME RouterInv, DiluteOne PROVE RouterInv'
<1>1. /\ stage = "dilute" /\ stage' = stage /\ manifests' = manifests
      /\ request' = request /\ ranking' = ranking /\ plan' = plan
  BY DEF DiluteOne
<1>2. score' \in [Ids -> 0 .. 100]
  <2>1. CASE score' = score
    BY <2>1 DEF RouterInv
  <2>2. ASSUME NEW c, DilutedScore(c) < score[c],
               score' = [score EXCEPT ![c] = DilutedScore(c)]
        PROVE  score' \in [Ids -> 0 .. 100]
    <3>1. CASE c \in Ids
      BY <1>1, <2>2, <3>1, DilutedIsScore DEF RouterInv
    <3>2. CASE c \notin Ids
      BY <2>2, <3>2 DEF RouterInv
    <3> QED BY <3>1, <3>2
  <2> QED BY <2>1, <2>2 DEF DiluteOne
<1> QED BY <1>1, <1>2 DEF RouterInv

LEMMA SemanticInv == ASSUME RouterInv, SemanticPass PROVE RouterInv'
<1>1. /\ stage = "dilute" /\ stage' = "conflicts" /\ manifests' = manifests
      /\ request' = request /\ ranking' = ranking /\ plan' = plan /\ todo' = ranking
  BY DEF SemanticPass
<1>2. score' \in [Ids -> 0 .. 100]
  <2>1. CASE request.semantic
    <3>1. PICK b \in [ranking -> Boosts] :
             score' = [c \in Ids |-> IF c \in ranking THEN Min({100, score[c] + b[c]}) ELSE 0]
      BY <2>1 DEF SemanticPass
    <3>2. ASSUME NEW x \in 0 .. 100, NEW y \in 0 .. 25 PROVE Min({100, x + y}) \in 0 .. 100
      <4>1. CASE x + y <= 100
        BY <4>1 DEF Min
      <4>2. CASE x + y > 100
        BY <4>2 DEF Min
      <4> QED BY <4>1, <4>2
    <3>3. ASSUME NEW c \in ranking PROVE c \in Ids /\ score[c] \in 0 .. 100 /\ b[c] \in 0 .. 25
      BY RouterAssumption DEF RouterInv
    <3>4. ASSUME NEW c \in Ids
          PROVE  (IF c \in ranking THEN Min({100, score[c] + b[c]}) ELSE 0) \in 0 .. 100
      <4>1. CASE c \in ranking
        <5>1. PICK x \in 0 .. 100, y \in 0 .. 25 : x = score[c] /\ y = b[c]
          BY <3>3, <4>1
        <5>2. Min({100, score[c] + b[c]}) \in 0 .. 100
          BY <3>2, <5>1, Zenon
        <5> QED BY <4>1, <5>2
      <4>2. CASE c \notin ranking
        BY <4>2
      <4> QED BY <4>1, <4>2
    <3> QED BY <3>1, <3>4
  <2>2. CASE ~request.semantic
    BY <2>2 DEF SemanticPass, RouterInv
  <2> QED BY <2>1, <2>2
<1> QED BY <1>1, <1>2 DEF RouterInv

LEMMA ResolveInv == ASSUME RouterInv, ResolveOne PROVE RouterInv'
<1>0. PICK c : c = Top(todo)
  OBVIOUS
<1>1. PICK winners \in SUBSET Opponents(c) :
        excluded' = IF c \in excluded THEN excluded
                    ELSE excluded \cup (Opponents(c) \ winners)
                                  \cup {x \in {c} : winners # {}}
  <2>1. {o \in Opponents(c) : Stronger(o, c)} \in SUBSET Opponents(c)
    OBVIOUS
  <2> QED BY <1>0, <2>1 DEF ResolveOne
<1>2. /\ stage = "conflicts" /\ stage' = stage /\ manifests' = manifests
      /\ request' = request /\ ranking' = ranking /\ plan' = plan /\ score' = score
      /\ todo' = todo \ {c}
  BY <1>0 DEF ResolveOne
<1>3. excluded \subseteq excluded'
  BY <1>1
<1>4. Settled(c)'
  <2>1. CASE c \in excluded \/ winners # {}
    <3>1. c \in excluded'
      BY <1>1, <2>1
    <3> QED BY <3>1 DEF Settled
  <2>2. CASE c \notin excluded /\ winners = {}
    <3>1. excluded' = excluded \cup Opponents(c)
      BY <1>1, <2>2
    <3> QED BY <1>2, <3>1 DEF Settled, Opponents
  <2> QED BY <2>1, <2>2
<1>5. ASSUME NEW d \in ranking \ todo PROVE Settled(d)'
  BY <1>2, <1>3 DEF RouterInv, Settled
<1>6. \A d \in ranking' \ todo' : Settled(d)'
  BY <1>2, <1>4, <1>5
<1> QED BY <1>2, <1>6 DEF RouterInv

LEMMA PlanInv == ASSUME RouterInv, BuildPlan PROVE RouterInv'
  BY DEF RouterInv, BuildPlan

LEMMA RouterStepInv == RouterInv /\ [RouterNext]_routerVars => RouterInv'
<1> SUFFICES ASSUME RouterInv, [RouterNext]_routerVars PROVE RouterInv'
  OBVIOUS
<1>1. CASE RouterNext
  BY <1>1, RankInv, DiluteInv, SemanticInv, ResolveInv, PlanInv DEF RouterNext, RouterStep
<1>2. CASE UNCHANGED routerVars
  BY <1>2 DEF routerVars, RouterInv, Settled
<1> QED BY <1>1, <1>2

LEMMA RouterAlwaysInv == RouterSpec => []RouterInv
  BY RouterInitInv, RouterStepInv, PTL DEF RouterSpec

-----------------------------------------------------------------------------
LEMMA ReadsOnly ==
  ASSUME RouterInv, stage # "planned", stage' # "planned", plan' = plan
  PROVE  Decision!Read
  BY DEF Decision!Read, Running, Stopped

LEMMA Decides == ASSUME RouterInv, BuildPlan PROVE Decision!Decide
<1>1. PICK act \in SUBSET Ids :
         active' = act /\ plan' = [c \in Kept \ request.never |-> ActionFor(c, act)]
  BY DEF BuildPlan
<1>2. /\ stage = "conflicts" /\ todo = {} /\ stage' = "planned"
      /\ manifests' = manifests /\ request' = request
  BY DEF BuildPlan
<1>3. Running' \subseteq Activated /\ Running' \subseteq Kept
  BY <1>1 DEF Running, ActionFor
<1>4. Stopped' \subseteq active' /\ Running' \cap Stopped' = {}
  BY <1>1 DEF Running, Stopped, ActionFor
<1>5. Kept \subseteq Ids /\ Selected \subseteq Ids
  BY DEF RouterInv, Kept, Selected
<1>6. request.max \in Nat
  BY <1>2 DEF RouterInv, Request
<1>7. Cardinality(Running') <= request.max
  <2>1. IsFiniteSet(Activated) /\ Cardinality(Activated) <= request.max
    BY <1>5, <1>6, ActivatedFits DEF RouterInv
  <2>2. IsFiniteSet(Running') /\ Cardinality(Running') <= Cardinality(Activated)
    BY <1>3, <2>1, FS_Subset
  <2> QED BY <1>6, <2>1, <2>2, FS_CardinalityType
<1>8. ASSUME NEW c \in Running', NEW d \in Running', c # d
      PROVE  d \notin manifests[c].conflicts
  <2>1. c \in ranking /\ c \notin excluded /\ d \in ranking /\ d \notin excluded
    BY <1>3 DEF Kept
  <2>2. Settled(c)
    BY <1>2, <2>1 DEF RouterInv
  <2> QED BY <1>8, <2>1, <2>2 DEF Settled
<1>9. \A c \in Running' : c \in Ids
  BY <1>3, <1>5
<1> QED
  BY <1>2, <1>3, <1>4, <1>5, <1>7, <1>8, <1>9
  DEF Decision!Decide, Decision!Cardinality, Cardinality

(* The pipeline makes only decisions RouteDecision allows: one, within the  *)
(* budget, without rivals, and stopping only what is active (Router.route,  *)
(* resolveConflicts, buildPlan).                                            *)
THEOREM RouterRefinesDecision == RouterSpec => RouterImplementsDecision
<1>1. RouterInit => Decision!Init
  BY DEF RouterInit, Decision!Init, Running, Stopped
<1>2. RouterInv /\ [RouterNext]_routerVars => [Decision!Next]_(Decision!vars)
  <2> SUFFICES ASSUME RouterInv, [RouterNext]_routerVars
               PROVE  [Decision!Next]_(Decision!vars)
    OBVIOUS
  <2>1. CASE Rank \/ DiluteOne \/ SemanticPass \/ ResolveOne
    <3>1. stage # "planned" /\ stage' # "planned" /\ plan' = plan
      BY <2>1 DEF Rank, DiluteOne, SemanticPass, ResolveOne
    <3> QED BY <3>1, ReadsOnly DEF Decision!Next
  <2>2. CASE BuildPlan
    BY <2>2, Decides DEF Decision!Next
  <2>3. CASE UNCHANGED routerVars
    BY <2>3 DEF routerVars, Decision!vars, Running, Stopped
  <2> QED BY <2>1, <2>2, <2>3 DEF RouterNext, RouterStep
<1> QED
  BY <1>1, <1>2, RouterAlwaysInv, PTL DEF RouterSpec, RouterImplementsDecision, Decision!Spec
-----------------------------------------------------------------------------
(* Top(S) is well defined: S has a best score, and a least id with it.      *)
LEMMA TopIsBest ==
  ASSUME score \in [Ids -> 0 .. 100], NEW S, S \subseteq Ids, S # {}
  PROVE  Top(S) \in S /\ \A d \in S \ {Top(S)} : Before(Top(S), d)
<1> DEFINE gaps == {100 - score[c] : c \in S}
<1>1. \A c \in S : c \in Nat /\ score[c] \in 0 .. 100
  BY IdsAssumption
<1>2. PICK g \in gaps : \A h \in gaps : g <= h
  <2>1. gaps \subseteq Nat /\ gaps # {}
    BY <1>1
  <2> HIDE DEF gaps
  <2> QED BY <2>1, LeastNatural
<1> DEFINE best == {c \in S : 100 - score[c] = g}
<1>3. PICK c \in best : \A d \in best : c <= d
  <2>1. best \subseteq Nat /\ best # {}
    BY <1>1
  <2> HIDE DEF best
  <2> QED BY <2>1, LeastNatural
<1>4. ASSUME NEW d \in S \ {c} PROVE Before(c, d)
  <2>1. 100 - score[c] = g /\ 100 - score[c] <= 100 - score[d]
    BY <1>2, <1>3
  <2>2. score[d] = score[c] => c <= d
    BY <1>3, <2>1
  <2> QED BY <1>1, <1>3, <2>1, <2>2 DEF Before
<1> QED BY <1>3, <1>4 DEF Top

-----------------------------------------------------------------------------
HasRival(c) == \E o \in ranking \ {c} :
    /\ score[o] >= score[c]
    /\ o \in manifests[c].conflicts \/ c \in manifests[o].conflicts

(* Nothing is excluded before resolveConflicts, and then only by a rival.   *)
RivalsInv ==
    /\ RouterInv
    /\ todo \subseteq ranking /\ excluded \subseteq ranking
    /\ stage \in {"idle", "dilute"} => excluded = {}
    /\ \A c \in excluded : HasRival(c)

LEMMA ResolveKeepsRivals == ASSUME RivalsInv, ResolveOne PROVE RivalsInv'
<1> DEFINE c == Top(todo)
           winners == {o \in Opponents(c) : Stronger(o, c)}
<1>1. /\ stage = "conflicts" /\ stage' = stage /\ manifests' = manifests
      /\ ranking' = ranking /\ score' = score /\ todo' = todo \ {c} /\ todo # {}
      /\ excluded' = IF c \in excluded THEN excluded
                     ELSE excluded \cup (Opponents(c) \ winners)
                                   \cup {x \in {c} : winners # {}}
  BY DEF ResolveOne
<1>2. c \in ranking /\ c \in Ids /\ todo \subseteq Ids
  <2>1. todo \subseteq Ids
    BY DEF RivalsInv, RouterInv
  <2> QED BY <1>1, <2>1, TopIsBest DEF RivalsInv, RouterInv
<1>3. ASSUME NEW o \in Opponents(c)
      PROVE  o \in ranking /\ o # c /\ o \in manifests[c].conflicts
             /\ score[o] \in Int /\ score[c] \in Int
  <2>1. o \in ranking /\ o # c /\ o \in manifests[c].conflicts
    BY DEF Opponents
  <2>2. ranking \subseteq Ids /\ score \in [Ids -> 0 .. 100]
    BY DEF RivalsInv, RouterInv
  <2> HIDE DEF c
  <2> QED BY <1>2, <2>1, <2>2
<1>4. ASSUME NEW o \in Opponents(c) \ winners PROVE HasRival(o)
  <2>1. score[c] >= score[o]
    BY <1>3 DEF Stronger
  <2> QED BY <1>2, <1>3, <2>1 DEF HasRival
<1>5. ASSUME winners # {} PROVE HasRival(c)
  <2>1. PICK o \in winners : TRUE
    BY <1>5
  <2>2. score[o] >= score[c]
    BY <1>3 DEF Stronger
  <2> QED BY <1>3, <2>1, <2>2 DEF HasRival
<1> HIDE DEF c, winners
<1>6. \A x \in excluded' : HasRival(x)
  BY <1>1, <1>4, <1>5 DEF RivalsInv
<1>7. \A x \in excluded' : HasRival(x)'
  BY <1>1, <1>6 DEF HasRival
<1>8. excluded' \subseteq ranking'
  BY <1>1, <1>2, <1>3 DEF RivalsInv
<1>9. RouterInv'
  BY RouterStepInv DEF RivalsInv, RouterNext, RouterStep
<1> QED BY <1>1, <1>7, <1>8, <1>9 DEF RivalsInv

LEMMA RivalsStep == RivalsInv /\ [RouterNext]_routerVars => RivalsInv'
<1> SUFFICES ASSUME RivalsInv, [RouterNext]_routerVars PROVE RivalsInv'
  OBVIOUS
<1>1. RouterInv'
  BY RouterStepInv DEF RivalsInv
<1>2. CASE Rank
  BY <1>1, <1>2 DEF Rank, RivalsInv
<1>3. CASE DiluteOne
  BY <1>1, <1>3 DEF DiluteOne, RivalsInv
<1>4. CASE SemanticPass
  BY <1>1, <1>4 DEF SemanticPass, RivalsInv
<1>5. CASE ResolveOne
  BY <1>5, ResolveKeepsRivals
<1>6. CASE BuildPlan
  BY <1>1, <1>6 DEF BuildPlan, RivalsInv, HasRival
<1>7. CASE UNCHANGED routerVars
  BY <1>1, <1>7 DEF routerVars, RivalsInv, HasRival
<1> QED BY <1>2, <1>3, <1>4, <1>5, <1>6, <1>7 DEF RouterNext, RouterStep

(* resolveConflicts drops nobody for a weaker rival: whoever is excluded    *)
(* has a rival among the candidates with at least its score.                *)
THEOREM LosersLostToRivals == RouterSpec => []LosersHaveRivals
<1>1. RouterInit => RivalsInv
  BY RouterInitInv DEF RouterInit, RivalsInv
<1>2. RivalsInv => LosersHaveRivals
  BY DEF RivalsInv, HasRival, LosersHaveRivals
<1> QED BY <1>1, <1>2, RivalsStep, PTL DEF RouterSpec

-----------------------------------------------------------------------------
(* The neighbour a candidate was diluted for has been passed already, so    *)
(* its score changes no more.                                               *)
DilutionInv ==
    /\ RouterInv
    /\ stage \in {"idle", "dilute"} => diluted \cap todo = {}
    /\ stage = "idle" => diluted = {}
    /\ stage = "dilute" =>
         /\ todo \subseteq ranking /\ diluted \subseteq ranking
         /\ \A c \in diluted : /\ manifests[c].near \in ranking \ todo
                               /\ score[c] < score[manifests[c].near]

LEMMA DiluteKeepsBehind == ASSUME DilutionInv, DiluteOne PROVE DilutionInv'
<1> DEFINE c == Top(todo)
           near(x) == manifests[x].near
<1>1. /\ stage = "dilute" /\ stage' = stage /\ manifests' = manifests
      /\ ranking' = ranking /\ todo' = todo \ {c} /\ todo # {}
  BY DEF DiluteOne
<1>2. /\ todo \subseteq ranking /\ diluted \subseteq ranking /\ ranking \subseteq Ids
      /\ diluted \cap todo = {} /\ score \in [Ids -> 0 .. 100]
      /\ \A x \in diluted : near(x) \in ranking \ todo /\ score[x] < score[near(x)]
  BY <1>1 DEF DilutionInv, RouterInv
<1>3. c \in todo /\ c \in Ids /\ \A d \in todo \ {c} : Before(c, d)
  <2>1. todo \subseteq Ids
    BY <1>2
  <2> QED BY <1>1, <1>2, <2>1, TopIsBest
<1>4. RouterInv'
  BY RouterStepInv DEF DilutionInv, RouterNext, RouterStep
<1>5. CASE UNCHANGED <<score, diluted>>
  BY <1>1, <1>2, <1>4, <1>5 DEF DilutionInv
<1>6. CASE /\ Outranked(c) /\ DilutedScore(c) < score[c]
           /\ score' = [score EXCEPT ![c] = DilutedScore(c)]
           /\ diluted' = diluted \cup {c}
  <2>1. near(c) \in ranking /\ score[near(c)] > score[c]
    BY <1>6 DEF Outranked
  <2>2. near(c) \notin todo /\ near(c) # c
    <3>1. score[c] \in Int /\ score[near(c)] \in Int
      BY <1>2, <1>3, <2>1
    <3>2. \A d \in todo \ {c} : score[c] >= score[d]
      BY <1>2, <1>3 DEF Before
    <3> QED BY <2>1, <3>1, <3>2
  <2>3. DilutedScore(c) \in 0 .. 100
    BY <1>1, <1>2, <1>3, <1>6, DilutedIsScore DEF DilutionInv, RouterInv
  <2>4. ASSUME NEW x \in diluted'
        PROVE  /\ near(x) \in ranking \ todo'
               /\ score'[x] < score'[near(x)]
    <3>1. CASE x = c
      <4>1. score'[c] = DilutedScore(c) /\ score'[near(c)] = score[near(c)]
        BY <1>2, <1>3, <1>6, <2>1, <2>2
      <4>2. score[c] \in Int /\ score[near(c)] \in Int
        BY <1>2, <1>3, <2>1
      <4> QED BY <1>1, <1>6, <2>1, <2>2, <2>3, <3>1, <4>1, <4>2
    <3>2. CASE x # c
      <4>1. x \in diluted /\ near(x) # c
        BY <1>2, <1>3, <1>6, <3>2
      <4>2. score'[x] = score[x] /\ score'[near(x)] = score[near(x)]
        BY <1>2, <1>6, <3>2, <4>1
      <4> QED BY <1>1, <1>2, <4>1, <4>2
    <3> QED BY <3>1, <3>2
  <2> HIDE DEF c
  <2> QED BY <1>1, <1>2, <1>3, <1>4, <1>6, <2>4 DEF DilutionInv
<1> QED BY <1>5, <1>6 DEF DiluteOne

LEMMA DilutionStep == DilutionInv /\ [RouterNext]_routerVars => DilutionInv'
<1> SUFFICES ASSUME DilutionInv, [RouterNext]_routerVars PROVE DilutionInv'
  OBVIOUS
<1>1. RouterInv'
  BY RouterStepInv DEF DilutionInv
<1>2. CASE Rank
  BY <1>1, <1>2 DEF Rank, DilutionInv
<1>3. CASE DiluteOne
  BY <1>3, DiluteKeepsBehind
<1>4. CASE SemanticPass \/ ResolveOne \/ BuildPlan
  BY <1>1, <1>4 DEF SemanticPass, ResolveOne, BuildPlan, DilutionInv
<1>5. CASE UNCHANGED routerVars
  BY <1>1, <1>5 DEF routerVars, DilutionInv
<1> QED BY <1>2, <1>3, <1>4, <1>5 DEF RouterNext, RouterStep

(* Whoever was diluted for a neighbour scores less than that neighbour when *)
(* dilute is through with it, and until it has ended (index.ts:150-168).    *)
THEOREM DilutedAreBehind == RouterSpec => []DilutedStaysBehind
<1>1. RouterInit => DilutionInv
  BY RouterInitInv DEF RouterInit, DilutionInv
<1>2. DilutionInv => DilutedStaysBehind
  BY DEF DilutionInv, DilutedStaysBehind
<1> QED BY <1>1, <1>2, DilutionStep, PTL DEF RouterSpec

(* Whatever the catalog, the request and the scores are, a candidate that   *)
(* is excluded or diluted has lost to one that is no weaker.                *)
THEOREM RankingExplained == RouterSpec => []RankingIsExplained
BY LosersLostToRivals, DilutedAreBehind, PTL DEF RankingIsExplained
-----------------------------------------------------------------------------
(* The fallbacks, for any declared chains.                                  *)
(* resolveFallbackChains yields a chain of ids.                             *)
LEMMA ChainTyped ==
  ASSUME NEW c, NEW raw \in Seq(Ids)
  PROVE  ChainOf(c, raw) \in Seq(Ids)
<1> DEFINE Follow(s, x) == IF x \in Elems(s) \cup {c} THEN s ELSE Append(s, x)
           F == [t \in Seq(Ids) \X (1 .. Len(raw)) |-> Follow(t[1], raw[t[2]])]
           chain[i \in 0 .. Len(raw)] ==
             IF i = 0 THEN <<>>
             ELSE IF raw[i] \in Elems(chain[i-1]) \cup {c} THEN chain[i-1]
             ELSE Append(chain[i-1], raw[i])
           Body(f) == [i \in 0 .. Len(raw) |->
                        IF i = 0 THEN <<>>
                        ELSE IF raw[i] \in Elems(f[i-1]) \cup {c} THEN f[i-1]
                        ELSE Append(f[i-1], raw[i])]
<1>1. ChainOf(c, raw) = chain[Len(raw)]
  BY DEF ChainOf
<1>2. /\ Len(raw) \in Nat /\ \A i \in 1 .. Len(raw) : raw[i] \in Ids
      /\ 0 \in 0 .. Len(raw) /\ \A i \in 1 .. Len(raw) : i \in 0 .. Len(raw) /\ i # 0
      /\ \A i \in 1 .. Len(raw) : i - 1 \in 0 .. Len(raw)
      /\ \A i \in 0 .. Len(raw) : i # 0 => i \in 1 .. Len(raw)
  OBVIOUS
<1>3. \A s \in Seq(Ids), x \in Ids : Follow(s, x) \in Seq(Ids)
  OBVIOUS
<1>4. <<>> \in Seq(Ids)
  OBVIOUS
<1>5. PICK f \in Recursive(Len(raw), Seq(Ids), <<>>, F) : TRUE
  <2>1. F \in StepFunctions(Len(raw), Seq(Ids))
    <3> HIDE DEF Follow
    <3> QED BY <1>2, <1>3 DEF StepFunctions
  <2> HIDE DEF F
  <2> QED BY <1>2, <1>4, <2>1, RecursiveExists
<1>6. /\ f \in [0 .. Len(raw) -> Seq(Ids)] /\ f[0] = <<>>
      /\ \A i \in 1 .. Len(raw) : f[i] = F[<<f[i-1], i>>]
  <2> HIDE DEF F
  <2> QED BY <1>5 DEF Recursive
<1>7. ASSUME NEW i \in 1 .. Len(raw) PROVE f[i] = Follow(f[i-1], raw[i])
  <2>1. <<f[i-1], i>> \in Seq(Ids) \X (1 .. Len(raw))
    BY <1>2, <1>6
  <2>2. F[<<f[i-1], i>>] = Follow(f[i-1], raw[i])
    <3> HIDE DEF Follow
    <3> QED BY <2>1
  <2> QED BY <1>6, <2>2
<1>8. f = Body(f)
  BY <1>2, <1>6, <1>7
<1>9. chain = Body(chain)
  BY <1>8
<1>10. /\ chain[0] = <<>>
       /\ \A i \in 1 .. Len(raw) : chain[i] = Follow(chain[i-1], raw[i])
  <2> HIDE DEF chain
  <2> QED BY <1>2, <1>9, Zenon
<1> HIDE DEF chain, Follow
<1>11. \A i \in 0 .. Len(raw) : chain[i] \in Seq(Ids)
  <2>1. ASSUME NEW i \in 1 .. Len(raw), chain[i-1] \in Seq(Ids)
        PROVE  chain[i] \in Seq(Ids)
    BY <1>2, <1>3, <1>10, <2>1
  <2> QED BY <1>2, <1>4, <1>10, <2>1, RecursiveTyped
<1> QED BY <1>1, <1>2, <1>11

(* What the walk has established at each of its states.                     *)
FallbackInv ==
    /\ walk \in {"idle", "walking", "chosen", "none"}
    /\ at \in Nat \ {0} /\ attempted \subseteq Ids /\ choice \in Ids \cup {None}
    /\ failed \notin attempted
    /\ walk = "idle" => attempted = {} /\ at = 1
    /\ walk # "idle" => failure \in Failures /\ failed \in Ids
    /\ walk = "walking" => \A j \in 1 .. at - 1 : ~Usable(Chain[j])
    /\ walk = "chosen" => /\ at \in DOMAIN Chain /\ at <= StepCap
                          /\ Chain[at] = choice /\ Usable(choice)
                          /\ \A j \in 1 .. at - 1 : ~Usable(Chain[j])
    /\ walk = "none" => \A i \in DOMAIN Chain : i <= StepCap => ~Usable(Chain[i])

LEMMA ChainOfIds ==
  ASSUME FallbackInv, walk # "idle"
  PROVE  /\ Chain \in Seq(Ids) /\ Len(Chain) \in Nat /\ DOMAIN Chain = 1 .. Len(Chain)
         /\ \A i \in 1 .. Len(Chain) : i <= MaxSteps <=> i <= StepCap
<1>1. failure.declared[failed] \in Seq(Ids)
  BY FallbackAssumption DEF FallbackInv
<1>2. Chain \in Seq(Ids)
  BY <1>1, ChainTyped DEF Chain
<1> HIDE DEF Chain
<1>3. Len(Chain) \in Nat /\ DOMAIN Chain = 1 .. Len(Chain)
  BY <1>2
<1> QED BY <1>2, <1>3, FallbackAssumption DEF MaxSteps

LEMMA FallbackInitInv == FallbackInit => FallbackInv
BY IdsAssumption DEF FallbackInit, FallbackInv, None

LEMMA FailInv == FallbackInv /\ Fail => FallbackInv'
BY FallbackAssumption DEF FallbackInv, Fail

LEMMA LookInv == FallbackInv /\ Look => FallbackInv'
<1> SUFFICES ASSUME FallbackInv, Look PROVE FallbackInv'
  OBVIOUS
<1>1. /\ Chain' = Chain /\ UNCHANGED <<failure, failed, attempted>>
      /\ walk = "walking" /\ at <= Len(Chain) /\ at <= MaxSteps
  BY DEF Look, Chain
<1>2. /\ Chain[at] \in Ids /\ at \in DOMAIN Chain /\ at <= StepCap
      /\ Len(Chain) \in Nat /\ at \in Nat \ {0}
  BY <1>1, ChainOfIds DEF FallbackInv
<1>3. \A c : Usable(c)' <=> Usable(c)
  BY <1>1 DEF Usable
<1>4. CASE Usable(Chain[at])
  BY <1>1, <1>2, <1>3, <1>4 DEF FallbackInv, Look
<1>5. CASE ~Usable(Chain[at])
  BY <1>1, <1>2, <1>3, <1>5 DEF FallbackInv, Look
<1> QED BY <1>4, <1>5

LEMMA GiveUpInv == FallbackInv /\ GiveUp => FallbackInv'
<1> SUFFICES ASSUME FallbackInv, GiveUp PROVE FallbackInv'
  OBVIOUS
<1>1. /\ Chain' = Chain /\ UNCHANGED <<failure, failed, attempted, at>>
      /\ walk = "walking" /\ walk' = "none" /\ choice' = None
      /\ at > Len(Chain) \/ at > MaxSteps
  BY DEF GiveUp, Chain
<1>2. \A c : Usable(c)' <=> Usable(c)
  BY <1>1 DEF Usable
<1>3. /\ Len(Chain) \in Nat /\ DOMAIN Chain = 1 .. Len(Chain) /\ at \in Nat
      /\ \A i \in 1 .. Len(Chain) : i <= MaxSteps <=> i <= StepCap
  BY <1>1, ChainOfIds DEF FallbackInv
<1>4. MaxSteps \in Int /\ StepCap \in Int
  BY <1>3, FallbackAssumption DEF MaxSteps
<1>5. ASSUME NEW i \in DOMAIN Chain, i <= StepCap PROVE i \in 1 .. at - 1
  BY <1>1, <1>3, <1>4, <1>5
<1> QED BY <1>1, <1>2, <1>5 DEF FallbackInv

LEMMA FailAgainInv == FallbackInv /\ FailAgain => FallbackInv'
<1> SUFFICES ASSUME FallbackInv, FailAgain PROVE FallbackInv'
  OBVIOUS
<1>1. /\ walk = "chosen" /\ walk' = "walking" /\ attempted' = attempted \cup {failed}
      /\ failed' = choice /\ at' = 1 /\ UNCHANGED <<failure, choice>>
  BY DEF FailAgain
<1>2. choice \in Ids /\ choice \notin attempted \cup {failed}
  BY <1>1, ChainOfIds DEF FallbackInv, Usable
<1> QED BY <1>1, <1>2 DEF FallbackInv

LEMMA FallbackStepInv == FallbackInv /\ [FallbackNext]_fallbackVars => FallbackInv'
<1>1. FallbackInv /\ UNCHANGED fallbackVars => FallbackInv'
  BY DEF FallbackInv, fallbackVars, Usable, Chain
<1> QED
  BY <1>1, FailInv, LookInv, GiveUpInv, FailAgainInv DEF FallbackNext, FallbackStep

(* However the declared chains loop, no capability is tried a second time,  *)
(* and the first usable member within the steps allowed is the one chosen   *)
(* (fallback.ts).                                                           *)
THEOREM FallbacksAreUntried == FallbackSpec => []FirstUntried
<1>1. FallbackSpec => []FallbackInv
  BY FallbackInitInv, FallbackStepInv, PTL DEF FallbackSpec
<1>2. FallbackInv => FirstUntried
  <2> SUFFICES ASSUME FallbackInv PROVE FirstUntried
    OBVIOUS
  <2>1. CASE walk = "chosen"
    <3>1. at \in DOMAIN Chain /\ choice \notin attempted \cup {failed}
      BY <2>1 DEF FallbackInv, Usable
    <3> QED BY <2>1, <3>1 DEF FallbackInv, FirstUntried
  <2> QED BY <2>1 DEF FallbackInv, FirstUntried
<1> QED BY <1>1, <1>2, PTL
-----------------------------------------------------------------------------
(* Closures.  What a relation reaches is found in as many rounds as there   *)
(* are ids, since a round that adds nothing is the last that could.         *)
Expands(rel, X) == X \cup UNION {rel[i] : i \in X}
ClosedUnder(rel, X) == \A i \in X : rel[i] \subseteq X
IsClosure(rel, S, X) ==
    /\ X \in SUBSET Ids /\ S \subseteq X /\ ClosedUnder(rel, X)
    /\ \A T : S \subseteq T /\ (\A i \in T \cap Ids : rel[i] \subseteq T) => X \subseteq T

LEMMA Saturates ==
  ASSUME NEW rel \in Relation, NEW S \in SUBSET Ids, NEW f, f[0] = S,
         \A n \in 1 .. Cardinality(Ids) : f[n] = Expands(rel, f[n-1])
  PROVE  IsClosure(rel, S, f[Cardinality(Ids)])
<1> DEFINE N == Cardinality(Ids)
<1>1. N \in Nat /\ IsFiniteSet(Ids)
  BY IdsAssumption, FS_CardinalityType
<1>2. \A i \in Ids : rel[i] \in SUBSET Ids
  BY DEF Relation
<1> HIDE DEF N
<1>a. \A n \in 1 .. N : f[n] = Expands(rel, f[n-1])
  BY DEF N
<1>3. ASSUME NEW T, S \subseteq T, \A i \in T \cap Ids : rel[i] \subseteq T
      PROVE  \A n \in 0 .. N : f[n] \in {X \in SUBSET Ids : S \subseteq X /\ X \subseteq T}
  <2> DEFINE Sub == {X \in SUBSET Ids : S \subseteq X /\ X \subseteq T}
  <2>1. f[0] \in Sub
    BY <1>3
  <2>2. ASSUME NEW n \in 1 .. N, f[n-1] \in Sub PROVE f[n] \in Sub
    <3>1. f[n] = Expands(rel, f[n-1])
      BY <1>a
    <3>2. \A i \in f[n-1] : rel[i] \subseteq Ids /\ rel[i] \subseteq T
      BY <1>2, <1>3, <2>2
    <3> QED BY <2>2, <3>1, <3>2 DEF Expands
  <2> HIDE DEF Sub
  <2>3. \A n \in 0 .. N : f[n] \in Sub
    BY <1>1, <2>1, <2>2, RecursiveTyped
  <2> QED BY <2>3 DEF Sub
<1>4. \A n \in 0 .. N : f[n] \in SUBSET Ids /\ S \subseteq f[n]
  BY <1>2, <1>3
<1>5. 0 \in 0 .. N /\ N \in 0 .. N
  BY <1>1
<1>6. \A n \in 0 .. N : IsFiniteSet(f[n]) /\ Cardinality(f[n]) \in Nat /\ Cardinality(f[n]) <= N
  BY <1>1, <1>4, FS_Subset, FS_CardinalityType DEF N
<1> DEFINE Good == {n \in 0 .. N : ClosedUnder(rel, f[n]) \/ Cardinality(f[n]) >= n + 1}
<1>7. 0 \in Good
  <2>1. CASE S = {}
    BY <1>5, <2>1 DEF ClosedUnder
  <2>2. CASE S # {}
    <3>1. Cardinality(f[0]) # 0
      BY <1>5, <1>6, <2>2, FS_EmptySet
    <3> QED BY <1>5, <1>6, <3>1
  <2> QED BY <2>1, <2>2
<1>8. ASSUME NEW n \in 0 .. N - 1, n \in Good PROVE n + 1 \in Good
  <2>1. n \in 0 .. N /\ n + 1 \in 1 .. N /\ n + 1 \in 0 .. N /\ (n + 1) - 1 = n /\ n \in Nat
    BY <1>1
  <2>2. f[n + 1] = Expands(rel, f[n])
    BY <1>a, <2>1
  <2>3. CASE ClosedUnder(rel, f[n])
    <3>1. f[n + 1] = f[n]
      BY <2>2, <2>3 DEF Expands, ClosedUnder
    <3> QED BY <2>1, <2>3, <3>1
  <2>4. CASE ~ClosedUnder(rel, f[n])
    <3>1. f[n] \subseteq f[n + 1] /\ f[n] # f[n + 1]
      BY <2>2, <2>4 DEF Expands, ClosedUnder
    <3>2. Cardinality(f[n]) >= n + 1
      BY <1>8, <2>4
    <3>3. Cardinality(f[n]) <= Cardinality(f[n + 1]) /\ Cardinality(f[n]) # Cardinality(f[n + 1])
      BY <1>6, <2>1, <3>1, FS_Subset
    <3>4. Cardinality(f[n + 1]) >= (n + 1) + 1
      BY <1>6, <2>1, <3>2, <3>3
    <3> QED BY <2>1, <3>4
  <2> QED BY <2>3, <2>4
<1>9. N \in Good
  <2> HIDE DEF Good
  <2> QED BY <1>1, <1>5, <1>7, <1>8, UpTo
<1>10. ClosedUnder(rel, f[N])
  BY <1>1, <1>5, <1>6, <1>9
<1> QED BY <1>3, <1>4, <1>5, <1>10 DEF N, IsClosure

(* The rounds of a closure, as a recursive function.                        *)
LEMMA Rounds ==
  ASSUME NEW rel \in Relation, NEW S \in SUBSET Ids
  PROVE  \E f \in [0 .. Cardinality(Ids) -> SUBSET Ids] :
           f[0] = S /\ \A n \in 1 .. Cardinality(Ids) : f[n] = Expands(rel, f[n-1])
<1> DEFINE N == Cardinality(Ids)
           F == [t \in (SUBSET Ids) \X (1 .. N) |-> Expands(rel, t[1])]
<1>1. N \in Nat
  BY IdsAssumption, FS_CardinalityType
<1>2. \A i \in Ids : rel[i] \in SUBSET Ids
  BY DEF Relation
<1>3. \A X \in SUBSET Ids : Expands(rel, X) \in SUBSET Ids
  BY <1>2 DEF Expands
<1> HIDE DEF N
<1>4. F \in StepFunctions(N, SUBSET Ids)
  BY <1>3 DEF StepFunctions
<1>5. \A X \in SUBSET Ids, n \in 1 .. N : F[<<X, n>>] = Expands(rel, X)
  OBVIOUS
<1> HIDE DEF F
<1>6. PICK f \in Recursive(N, SUBSET Ids, S, F) : TRUE
  BY <1>1, <1>4, RecursiveExists
<1>7. /\ f \in [0 .. N -> SUBSET Ids] /\ f[0] = S
      /\ \A n \in 1 .. N : f[n] = F[<<f[n-1], n>>]
  BY <1>6 DEF Recursive
<1>8. ASSUME NEW n \in 1 .. N PROVE f[n] = Expands(rel, f[n-1])
  <2>1. n - 1 \in 0 .. N
    BY <1>1
  <2> QED BY <1>5, <1>7, <2>1
<1> QED BY <1>7, <1>8 DEF N

LEMMA ReachIsClosure ==
  ASSUME NEW rel \in Relation, NEW S \in SUBSET Ids
  PROVE  IsClosure(rel, S, Reach(rel, S))
<1> DEFINE N == Cardinality(Ids)
           step[n \in 0 .. N] == IF n = 0 THEN S ELSE step[n-1] \cup UNION {rel[i] : i \in step[n-1]}
           Body(f) == [n \in 0 .. N |-> IF n = 0 THEN S ELSE f[n-1] \cup UNION {rel[i] : i \in f[n-1]}]
<1>1. Reach(rel, S) = step[N]
  BY DEF Reach
<1>2. N \in Nat
  BY IdsAssumption, FS_CardinalityType
<1>3. PICK f \in [0 .. N -> SUBSET Ids] :
        f[0] = S /\ \A n \in 1 .. N : f[n] = Expands(rel, f[n-1])
  BY Rounds
<1> HIDE DEF N
<1>4. /\ \A n \in 0 .. N : n # 0 => n \in 1 .. N
      /\ \A n \in 1 .. N : n # 0 /\ n \in 0 .. N
      /\ 0 \in 0 .. N
  BY <1>2
<1>5. f = Body(f)
  BY <1>3, <1>4 DEF Expands
<1>6. step = Body(step)
  BY <1>5
<1>7. step[0] = S /\ \A n \in 1 .. N : step[n] = Expands(rel, step[n-1])
  <2> HIDE DEF step
  <2> QED BY <1>4, <1>6, Zenon DEF Expands
<1> HIDE DEF step
<1>8. \A n \in 1 .. Cardinality(Ids) : step[n] = Expands(rel, step[n-1])
  BY <1>7 DEF N
<1>9. IsClosure(rel, S, step[Cardinality(Ids)])
  BY <1>7, <1>8, Saturates
<1> QED BY <1>1, <1>9 DEF N

(* Who is reached along a relation finds its way back along the converse.   *)
LEMMA WayBack ==
  ASSUME NEW next \in Relation, NEW back \in Relation,
         \A x, y \in Ids : x # y /\ y \in next[x] => x \in back[y],
         NEW c \in Ids, NEW d \in Ids, c # d,
         NEW S, S = next[c] \/ S = {c}, NEW X, IsClosure(next, S, X), d \in X,
         NEW Y, IsClosure(back, back[d], Y)
  PROVE  c \in Y
<1> SUFFICES ASSUME c \notin Y PROVE FALSE
  OBVIOUS
<1> DEFINE T == Ids \ (Y \cup {d})
<1>1. \A i \in Ids : next[i] \in SUBSET Ids
  BY DEF Relation
<1>2. ASSUME NEW x \in T PROVE next[x] \subseteq T
  BY <1>1, <1>2 DEF IsClosure, ClosedUnder
<1>3. c \in T
  OBVIOUS
<1>4. S \subseteq T
  BY <1>2, <1>3
<1> HIDE DEF T
<1>5. X \subseteq T
  BY <1>2, <1>4 DEF IsClosure
<1> QED BY <1>5 DEF T

(* The graph.  The maps of two directions are converses, but that           *)
(* neededBy leaves out what needs itself.                                   *)
GraphInv ==
    /\ present \subseteq Ids
    /\ needs \in Relation /\ mayUse \in Relation /\ neededBy \in Relation
    /\ against \in Relation /\ improves \in Relation /\ improvedBy \in Relation
    /\ supersedes \in Relation /\ supersededBy \in Relation
    /\ \A c \in Ids \ present : needs[c] = {} /\ mayUse[c] = {} /\ improves[c] = {}
                                /\ supersedes[c] = {}
    /\ \A c, d \in Ids :
         /\ d \in neededBy[c] <=> (c # d /\ c \in needs[d] \cup mayUse[d])
         /\ d \in improvedBy[c] <=> c \in improves[d]
         /\ d \in supersededBy[c] <=> c \in supersedes[d]

LEMMA GraphInitInv == GraphInit => GraphInv
BY DEF GraphInit, GraphInv, Empty, Relation

LEMMA MapsGrow ==
  ASSUME NEW m \in Relation, NEW c \in Ids, NEW S \in SUBSET Ids
  PROVE  /\ Forward(m, c, S) \in Relation /\ Backward(m, c, S) \in Relation
         /\ \A i \in Ids : Forward(m, c, S)[i] = IF i = c THEN m[i] \cup S ELSE m[i]
         /\ \A i \in Ids : Backward(m, c, S)[i] = IF i \in S THEN m[i] \cup {c} ELSE m[i]
BY DEF Relation, Forward, Backward

LEMMA AddInv == ASSUME GraphInv, NEW d \in Declarations, Add(d) PROVE GraphInv'
<1>1. /\ d.id \in Ids /\ d.requires \in SUBSET Ids /\ d.optional \in SUBSET Ids
      /\ d.conflicts \in SUBSET Ids /\ d.enhances \in SUBSET Ids /\ d.replaces \in SUBSET Ids
      /\ (d.requires \cup d.optional) \ {d.id} \in SUBSET Ids
  BY GraphAssumption DEF Declaration
<1>2. CASE d.id \in present
  BY <1>2 DEF Add, graphVars, GraphInv
<1>3. CASE d.id \notin present
  <2> DEFINE others == (d.requires \cup d.optional) \ {d.id}
  <2>1. /\ present' = present \cup {d.id}
        /\ needs' = Forward(needs, d.id, d.requires)
        /\ mayUse' = Forward(mayUse, d.id, d.optional)
        /\ neededBy' = Backward(neededBy, d.id, others)
        /\ against' = Backward(Forward(against, d.id, d.conflicts), d.id, d.conflicts)
        /\ improves' = Forward(improves, d.id, d.enhances)
        /\ improvedBy' = Backward(improvedBy, d.id, d.enhances)
        /\ supersedes' = Forward(supersedes, d.id, d.replaces)
        /\ supersededBy' = Backward(supersededBy, d.id, d.replaces)
    BY <1>3 DEF Add
  <2>2. /\ needs' \in Relation /\ mayUse' \in Relation /\ neededBy' \in Relation
        /\ improves' \in Relation /\ improvedBy' \in Relation
        /\ supersedes' \in Relation /\ supersededBy' \in Relation
    BY <1>1, <2>1, MapsGrow DEF GraphInv
  <2>3. against' \in Relation
    <3>1. Forward(against, d.id, d.conflicts) \in Relation
      BY <1>1, MapsGrow DEF GraphInv
    <3> QED BY <1>1, <2>1, <3>1, MapsGrow
  <2> HIDE DEF others
  <2>a. others \in SUBSET Ids /\ others = (d.requires \cup d.optional) \ {d.id}
    BY <1>1 DEF others
  <2>m. \A m \in Relation, S \in SUBSET Ids, i \in Ids :
          /\ Forward(m, d.id, S)[i] = IF i = d.id THEN m[i] \cup S ELSE m[i]
          /\ Backward(m, d.id, S)[i] = IF i \in S THEN m[i] \cup {d.id} ELSE m[i]
    BY <1>1 DEF Forward, Backward, Relation
  <2>t. /\ needs \in Relation /\ mayUse \in Relation /\ neededBy \in Relation
        /\ improves \in Relation /\ improvedBy \in Relation
        /\ supersedes \in Relation /\ supersededBy \in Relation
    BY DEF GraphInv
  <2>4. /\ \A i \in Ids : needs'[i] = IF i = d.id THEN needs[i] \cup d.requires ELSE needs[i]
        /\ \A i \in Ids : mayUse'[i] = IF i = d.id THEN mayUse[i] \cup d.optional ELSE mayUse[i]
        /\ \A i \in Ids : neededBy'[i] = IF i \in others THEN neededBy[i] \cup {d.id} ELSE neededBy[i]
    <3>1. \A i \in Ids : needs'[i] = IF i = d.id THEN needs[i] \cup d.requires ELSE needs[i]
      BY <1>1, <2>1, <2>t DEF Forward, Backward, Relation
    <3>2. \A i \in Ids : mayUse'[i] = IF i = d.id THEN mayUse[i] \cup d.optional ELSE mayUse[i]
      BY <1>1, <2>1, <2>t DEF Forward, Backward, Relation
    <3>3. \A i \in Ids : neededBy'[i] = IF i \in others THEN neededBy[i] \cup {d.id} ELSE neededBy[i]
      BY <1>1, <2>1, <2>a, <2>t DEF Backward, Relation
    <3> QED BY <3>1, <3>2, <3>3
  <2>5. /\ \A i \in Ids : improves'[i] = IF i = d.id THEN improves[i] \cup d.enhances ELSE improves[i]
        /\ \A i \in Ids : improvedBy'[i] = IF i \in d.enhances THEN improvedBy[i] \cup {d.id}
                                              ELSE improvedBy[i]
        /\ \A i \in Ids : supersedes'[i] = IF i = d.id THEN supersedes[i] \cup d.replaces
                                              ELSE supersedes[i]
        /\ \A i \in Ids : supersededBy'[i] = IF i \in d.replaces THEN supersededBy[i] \cup {d.id}
                                                ELSE supersededBy[i]
    <3>1. \A i \in Ids : improves'[i] = IF i = d.id THEN improves[i] \cup d.enhances ELSE improves[i]
      BY <1>1, <2>1, <2>t DEF Forward, Backward, Relation
    <3>2. \A i \in Ids : improvedBy'[i] = IF i \in d.enhances THEN improvedBy[i] \cup {d.id}
                                            ELSE improvedBy[i]
      BY <1>1, <2>1, <2>t DEF Forward, Backward, Relation
    <3>3. \A i \in Ids : supersedes'[i] = IF i = d.id THEN supersedes[i] \cup d.replaces
                                            ELSE supersedes[i]
      BY <1>1, <2>1, <2>t DEF Forward, Backward, Relation
    <3>4. \A i \in Ids : supersededBy'[i] = IF i \in d.replaces THEN supersededBy[i] \cup {d.id}
                                              ELSE supersededBy[i]
      BY <1>1, <2>1, <2>t DEF Forward, Backward, Relation
    <3> QED BY <3>1, <3>2, <3>3, <3>4
  <2>6. \A c \in Ids \ present' : needs'[c] = {} /\ mayUse'[c] = {} /\ improves'[c] = {}
                                  /\ supersedes'[c] = {}
    <3>1. \A c \in Ids \ present' : c \in Ids \ present /\ c # d.id
      BY <2>1
    <3>2. \A c \in Ids \ present : needs[c] = {} /\ mayUse[c] = {} /\ improves[c] = {}
                                     /\ supersedes[c] = {}
      BY DEF GraphInv
    <3> QED BY <2>4, <2>5, <3>1, <3>2
  <2>7. ASSUME NEW c \in Ids, NEW e \in Ids
        PROVE  e \in neededBy'[c] <=> (c # e /\ c \in needs'[e] \cup mayUse'[e])
    <3>1. e \in neededBy[c] <=> (c # e /\ c \in needs[e] \cup mayUse[e])
      BY DEF GraphInv
    <3>2. CASE e = d.id
      <4>1. needs[e] = {} /\ mayUse[e] = {}
        BY <1>1, <1>3, <3>2 DEF GraphInv
      <4>2. needs'[e] = d.requires /\ mayUse'[e] = d.optional
        BY <2>4, <3>2, <4>1
      <4> QED BY <2>4, <2>a, <3>1, <3>2, <4>1, <4>2
    <3>3. CASE e # d.id
      <4>1. needs'[e] = needs[e] /\ mayUse'[e] = mayUse[e]
        BY <2>4, <3>3
      <4>2. e \in neededBy'[c] <=> e \in neededBy[c]
        <5>1. neededBy'[c] = neededBy[c] \cup {d.id} \/ neededBy'[c] = neededBy[c]
          BY <2>4
        <5> QED BY <3>3, <5>1
      <4> QED BY <3>1, <4>1, <4>2
    <3> QED BY <3>2, <3>3
  <2>8. ASSUME NEW c \in Ids, NEW e \in Ids
        PROVE  /\ e \in improvedBy'[c] <=> c \in improves'[e]
               /\ e \in supersededBy'[c] <=> c \in supersedes'[e]
    <3>1. /\ e \in improvedBy[c] <=> c \in improves[e]
          /\ e \in supersededBy[c] <=> c \in supersedes[e]
      BY DEF GraphInv
    <3>2. CASE e = d.id
      <4>1. /\ improves'[e] = improves[e] \cup d.enhances
            /\ supersedes'[e] = supersedes[e] \cup d.replaces
        BY <2>5, <3>2
      <4>2. e \in improvedBy'[c] <=> c \in d.enhances \/ e \in improvedBy[c]
        <5>1. improvedBy'[c] = IF c \in d.enhances THEN improvedBy[c] \cup {e} ELSE improvedBy[c]
          BY <2>5, <3>2
        <5> QED BY <5>1
      <4>3. e \in supersededBy'[c] <=> c \in d.replaces \/ e \in supersededBy[c]
        <5>1. supersededBy'[c] = IF c \in d.replaces THEN supersededBy[c] \cup {e} ELSE supersededBy[c]
          BY <2>5, <3>2
        <5> QED BY <5>1
      <4> QED BY <3>1, <4>1, <4>2, <4>3
    <3>3. CASE e # d.id
      <4>1. improves'[e] = improves[e] /\ supersedes'[e] = supersedes[e]
        BY <2>5, <3>3
      <4>2. e \in improvedBy'[c] <=> e \in improvedBy[c]
        <5>1. improvedBy'[c] = improvedBy[c] \cup {d.id} \/ improvedBy'[c] = improvedBy[c]
          BY <2>5
        <5> QED BY <3>3, <5>1
      <4>3. e \in supersededBy'[c] <=> e \in supersededBy[c]
        <5>1. supersededBy'[c] = supersededBy[c] \cup {d.id} \/ supersededBy'[c] = supersededBy[c]
          BY <2>5
        <5> QED BY <3>3, <5>1
      <4> QED BY <3>1, <4>1, <4>2, <4>3
    <3> QED BY <3>2, <3>3
  <2>9. present' \subseteq Ids
    BY <1>1, <2>1 DEF GraphInv
  <2> QED BY <2>2, <2>3, <2>6, <2>7, <2>8, <2>9 DEF GraphInv
<1> QED BY <1>2, <1>3

LEMMA ClusterIsClosure ==
  ASSUME GraphInv, NEW c \in present, NEW rel \in Relation,
         rel = [i \in Ids |-> needs[i] \cup mayUse[i] \cup improves[i]]
  PROVE  \E X : IsClosure(rel, {c}, X) /\ Cluster(c, Cardinality(Ids)) = X \ {c}
<1> DEFINE N == Cardinality(Ids)
           next(i) == needs[i] \cup mayUse[i] \cup improves[i]
           visited[n \in 0 .. N] ==
             IF n = 0 THEN {c} ELSE visited[n - 1] \cup UNION {next(i) : i \in visited[n - 1]}
           Body(f) == [n \in 0 .. N |->
                        IF n = 0 THEN {c} ELSE f[n - 1] \cup UNION {next(i) : i \in f[n - 1]}]
<1>1. Cluster(c, N) = visited[N] \ {c}
  BY DEF Cluster
<1>2. N \in Nat /\ {c} \in SUBSET Ids
  BY IdsAssumption, FS_CardinalityType DEF GraphInv
<1>3. PICK f \in [0 .. N -> SUBSET Ids] :
        f[0] = {c} /\ \A n \in 1 .. N : f[n] = Expands(rel, f[n-1])
  BY <1>2, Rounds
<1> HIDE DEF N
<1>4. /\ \A n \in 0 .. N : n # 0 => n \in 1 .. N
      /\ \A n \in 1 .. N : n # 0 /\ n \in 0 .. N /\ n - 1 \in 0 .. N
      /\ 0 \in 0 .. N
  BY <1>2
<1>5. \A X \in SUBSET Ids : X \cup UNION {next(i) : i \in X} = Expands(rel, X)
  BY DEF Expands
<1> HIDE DEF next
<1>6. f = Body(f)
  BY <1>3, <1>4, <1>5
<1>7. visited = Body(visited)
  BY <1>6
<1>8. /\ visited[0] = {c}
      /\ \A n \in 1 .. N : visited[n] = visited[n - 1] \cup UNION {next(i) : i \in visited[n - 1]}
  <2> HIDE DEF visited
  <2> QED BY <1>4, <1>7, Zenon
<1> HIDE DEF visited
<1>9. \A n \in 0 .. N : visited[n] \in SUBSET Ids
  <2> DEFINE Sub == SUBSET Ids
  <2>1. ASSUME NEW n \in 1 .. N, visited[n-1] \in Sub PROVE visited[n] \in Sub
    <3>1. visited[n] = Expands(rel, visited[n-1])
      BY <1>5, <1>8, <2>1
    <3> QED BY <2>1, <3>1 DEF Expands, Relation
  <2>2. visited[0] \in Sub
    BY <1>2, <1>8
  <2> HIDE DEF Sub
  <2>3. \A n \in 0 .. N : visited[n] \in Sub
    BY <1>2, <2>1, <2>2, RecursiveTyped
  <2> QED BY <2>3 DEF Sub
<1>10. \A n \in 1 .. Cardinality(Ids) : visited[n] = Expands(rel, visited[n-1])
  BY <1>4, <1>5, <1>8, <1>9 DEF N
<1>11. IsClosure(rel, {c}, visited[Cardinality(Ids)])
  BY <1>2, <1>8, <1>10, Saturates
<1> QED BY <1>1, <1>11 DEF N

(* The queries, as closures.                                                *)
Both(i) == (needs[i] \cup mayUse[i]) \ {i}

LEMMA QueriesAgree ==
  ASSUME GraphInv, NEW c \in present, NEW d \in present, c # d
  PROVE  d \in DependenciesOf(c, TRUE) <=> c \in DependentsOf(d)
<1> DEFINE next == [i \in Ids |-> Both(i)]
<1>1. c \in Ids /\ d \in Ids
  BY DEF GraphInv
<1>2. next \in Relation /\ neededBy \in Relation
  BY DEF GraphInv, Relation, Both
<1>3. next[c] \in SUBSET Ids /\ neededBy[d] \in SUBSET Ids
  BY <1>1, <1>2 DEF Relation
<1>4. DependenciesOf(c, TRUE) = Reach(next, next[c])
  BY DEF DependenciesOf, Both
<1>5. \A x, y \in Ids : x # y => (y \in next[x] <=> x \in neededBy[y])
  BY DEF GraphInv, Both
<1> HIDE DEF next
<1>6. /\ IsClosure(next, next[c], Reach(next, next[c]))
      /\ IsClosure(neededBy, neededBy[d], Reach(neededBy, neededBy[d]))
  BY <1>2, <1>3, ReachIsClosure
<1>7. d \in Reach(next, next[c]) => c \in Reach(neededBy, neededBy[d])
  BY <1>1, <1>2, <1>5, <1>6, WayBack
<1>8. c \in Reach(neededBy, neededBy[d]) => d \in Reach(next, next[c])
  BY <1>1, <1>2, <1>5, <1>6, WayBack
<1> QED BY <1>4, <1>7, <1>8 DEF DependentsOf

LEMMA ClustersAgree ==
  ASSUME GraphInv, NEW c \in present, NEW d \in present, c # d
  PROVE  d \in Cluster(c, Cardinality(Ids)) <=>
           LET back == [i \in Ids |-> neededBy[i] \cup EnhancersOf(i)]
           IN  c \in Reach(back, back[d])
<1> DEFINE next == [i \in Ids |-> needs[i] \cup mayUse[i] \cup improves[i]]
           back == [i \in Ids |-> neededBy[i] \cup EnhancersOf(i)]
<1>1. c \in Ids /\ d \in Ids
  BY DEF GraphInv
<1>2. next \in Relation /\ back \in Relation
  BY DEF GraphInv, Relation, EnhancersOf
<1>3. next[c] \in SUBSET Ids /\ back[d] \in SUBSET Ids /\ {c} \in SUBSET Ids
  BY <1>1, <1>2 DEF Relation
<1>4. \A x, y \in Ids : x # y => (y \in next[x] <=> x \in back[y])
  BY DEF GraphInv, EnhancersOf
<1>5. PICK X : IsClosure(next, {c}, X) /\ Cluster(c, Cardinality(Ids)) = X \ {c}
  BY <1>2, ClusterIsClosure
<1> HIDE DEF next, back
<1>6. /\ IsClosure(next, next[c], Reach(next, next[c]))
      /\ IsClosure(back, back[d], Reach(back, back[d]))
  BY <1>2, <1>3, ReachIsClosure
<1>7. d \in X => c \in Reach(back, back[d])
  BY <1>1, <1>2, <1>4, <1>5, <1>6, WayBack
<1>8. c \in Reach(back, back[d]) => d \in Reach(next, next[c])
  BY <1>1, <1>2, <1>4, <1>6, WayBack
<1>9. Reach(next, next[c]) \subseteq X
  <2>1. c \in X /\ ClosedUnder(next, X)
    BY <1>5 DEF IsClosure
  <2>2. next[c] \subseteq X /\ \A i \in X \cap Ids : next[i] \subseteq X
    BY <2>1 DEF ClosedUnder
  <2> QED BY <1>6, <2>2 DEF IsClosure
<1>10. d \in Cluster(c, Cardinality(Ids)) <=> c \in Reach(back, back[d])
  BY <1>5, <1>7, <1>8, <1>9
<1> QED BY <1>10 DEF back

LEMMA ProblemFree ==
  ASSUME GraphInv, NoProblems, NEW c \in present
  PROVE  DependenciesOf(c, FALSE) \subseteq present \ {c}
<1> DEFINE next == [i \in Ids |-> needs[i] \ {i}]
<1>1. c \in Ids /\ present \subseteq Ids
  BY DEF GraphInv
<1>2. needs \in Relation
  BY DEF GraphInv
<1>3. \A i \in present : needs[i] \subseteq present /\ i \notin needs[i]
  <2>1. ASSUME NEW i \in present
        PROVE  Edges["requires"][i] \subseteq present /\ i \notin Edges["requires"][i]
    <3>1. "requires" \in DOMAIN Edges
      BY DEF Edges
    <3> QED BY <2>1, <3>1 DEF NoProblems, SelfReferences, UnknownReferences
  <2>2. \A i \in present : Edges["requires"][i] = needs[i] \cup mayUse[i]
    BY <1>1 DEF Edges
  <2> QED BY <2>1, <2>2
<1>4. \A i \in Ids : next[i] = needs[i]
  BY <1>3 DEF GraphInv
<1>5. next = needs
  BY <1>2, <1>4 DEF Relation
<1>6. DependenciesOf(c, FALSE) = Reach(next, next[c])
  BY DEF DependenciesOf
<1> HIDE DEF next
<1>7. needs[c] \in SUBSET Ids
  BY <1>1, <1>2 DEF Relation
<1>8. IsClosure(needs, needs[c], Reach(needs, needs[c]))
  BY <1>2, <1>7, ReachIsClosure
<1>9. Reach(needs, needs[c]) \subseteq present
  BY <1>3, <1>8 DEF IsClosure
<1>10. c \notin Reach(needs, needs[c])
  BY DEF NoProblems, Cyclic, OnCycle
<1> QED BY <1>5, <1>6, <1>9, <1>10

(* Whatever the manifests declare and in whatever order they arrive, the    *)
(* two directions of every relation tell the same, and a graph that         *)
(* validates needs nothing that is not there (graph.ts).                    *)
THEOREM GraphViewsAgree == GraphSpec => []ViewsAgree
<1>1. GraphInv => ViewsAgree
  <2> SUFFICES ASSUME GraphInv PROVE ViewsAgree
    OBVIOUS
  <2>1. ASSUME NEW c \in present, NEW d \in present, c # d
        PROVE  /\ d \in ConflictingWith(c) <=> c \in ConflictingWith(d)
               /\ d \in improves[c] <=> c \in EnhancersOf(d)
               /\ d \in supersedes[c] <=> c \in ReplacementsFor(d)
    <3>1. c \in Ids /\ d \in Ids
      BY DEF GraphInv
    <3> QED BY <2>1, <3>1 DEF GraphInv, ConflictingWith, EnhancersOf, ReplacementsFor
  <2> QED BY <2>1, QueriesAgree, ClustersAgree, ProblemFree DEF ViewsAgree
<1>2. GraphInv /\ [GraphNext]_graphVars => GraphInv'
  <2>1. GraphInv /\ UNCHANGED graphVars => GraphInv'
    BY DEF graphVars, GraphInv
  <2> QED BY <2>1, AddInv DEF GraphNext
<1> QED BY <1>1, <1>2, GraphInitInv, PTL DEF GraphSpec

-----------------------------------------------------------------------------
(* The resolver, for any requirements.  Where everything in L needs         *)
(* something in L, everything in L comes upon a cycle.                      *)
LEMMA StuckIsTangled ==
  ASSUME NEW rel \in Relation, NEW L \in SUBSET Ids,
         \A x \in L : rel[x] \cap L # {}, NEW c \in L
  PROVE  \E d \in Reach(rel, {c}) : OnCycle(rel, d)
<1> DEFINE R(x) == Reach(rel, {x})
           Sizes == {Cardinality(R(x)) : x \in L \cap R(c)}
<1>1. /\ \A x \in Ids : rel[x] \in SUBSET Ids /\ {x} \in SUBSET Ids
      /\ IsFiniteSet(Ids)
  BY IdsAssumption DEF Relation
<1>2. \A x \in Ids : IsClosure(rel, {x}, R(x)) /\ IsClosure(rel, rel[x], Reach(rel, rel[x]))
  BY <1>1, ReachIsClosure
<1> HIDE DEF R
<1>3. \A x \in Ids : x \in R(x) /\ R(x) \in SUBSET Ids
  BY <1>2 DEF IsClosure
<1>4. \A x \in Ids : IsFiniteSet(R(x)) /\ Cardinality(R(x)) \in Nat
  BY <1>1, <1>3, FS_Subset, FS_CardinalityType
<1>5. Sizes \subseteq Nat /\ Sizes # {}
  BY <1>3, <1>4
<1>6. PICK n \in Sizes : \A k \in Sizes : n <= k
  BY <1>5, LeastNatural
<1>7. PICK x \in L \cap R(c) : n = Cardinality(R(x))
  BY <1>6
<1>8. PICK y \in rel[x] : y \in L
  BY <1>7
<1>9. x \in Ids /\ y \in Ids /\ c \in Ids /\ x \in R(c)
  BY <1>7, <1>8
<1>10. \A a, b \in Ids : b \in R(a) => R(b) \subseteq R(a)
  <2> SUFFICES ASSUME NEW a \in Ids, NEW b \in Ids, b \in R(a) PROVE R(b) \subseteq R(a)
    OBVIOUS
  <2>1. {b} \subseteq R(a) /\ \A i \in R(a) \cap Ids : rel[i] \subseteq R(a)
    BY <1>2 DEF IsClosure, ClosedUnder
  <2> QED BY <1>2, <2>1 DEF IsClosure
<1>11. y \in R(x)
  BY <1>2, <1>3, <1>8, <1>9 DEF IsClosure, ClosedUnder
<1>12. y \in R(c) /\ R(y) \subseteq R(x)
  BY <1>9, <1>10, <1>11
<1>13. Cardinality(R(y)) \in Sizes
  BY <1>8, <1>12
<1>14. R(y) = R(x)
  <2>1. Cardinality(R(x)) <= Cardinality(R(y))
    BY <1>6, <1>7, <1>13
  <2>2. Cardinality(R(y)) <= Cardinality(R(x)) /\ (Cardinality(R(x)) = Cardinality(R(y)) => R(x) = R(y))
    BY <1>4, <1>9, <1>12, FS_Subset
  <2> QED BY <1>4, <1>9, <2>1, <2>2
<1>15. R(y) \subseteq Reach(rel, rel[x])
  <2>1. {y} \subseteq Reach(rel, rel[x])
        /\ \A i \in Reach(rel, rel[x]) \cap Ids : rel[i] \subseteq Reach(rel, rel[x])
    BY <1>2, <1>8, <1>9 DEF IsClosure, ClosedUnder
  <2> QED BY <1>2, <1>9, <2>1 DEF IsClosure
<1>16. OnCycle(rel, x)
  BY <1>3, <1>9, <1>14, <1>15 DEF OnCycle
<1> QED BY <1>7, <1>16 DEF R

(* A walk of n steps along the relation.                                    *)
Walk(rel, n, p) == p \in [1 .. n -> Ids] /\ \A i \in 1 .. n - 1 : p[i+1] \in rel[p[i]]

(* Who is on a cycle has a walk back to itself, and the shortest one visits *)
(* nobody twice.                                                            *)
LEMMA WalkRound ==
  ASSUME NEW rel \in Relation, NEW c \in Ids, OnCycle(rel, c)
  PROVE  \E n \in Nat \ {0} : \E p : Walk(rel, n, p) /\ p[1] = c /\ c \in rel[p[n]]
<1> DEFINE T == {x \in Ids : \E n \in Nat \ {0} : \E p :
                               Walk(rel, n, p) /\ p[1] = c /\ x \in rel[p[n]]}
<1>1. \A x \in Ids : rel[x] \in SUBSET Ids
  BY DEF Relation
<1>2. rel[c] \subseteq T
  <2> DEFINE p == [i \in 1 .. 1 |-> c]
  <2>1. Walk(rel, 1, p) /\ p[1] = c
    BY DEF Walk
  <2> HIDE DEF p
  <2> QED BY <1>1, <2>1
<1>3. ASSUME NEW x \in T PROVE rel[x] \subseteq T
  <2>1. PICK n \in Nat \ {0} : \E p : Walk(rel, n, p) /\ p[1] = c /\ x \in rel[p[n]]
    BY <1>3
  <2>2. PICK p : Walk(rel, n, p) /\ p[1] = c /\ x \in rel[p[n]]
    BY <2>1
  <2> DEFINE q == [i \in 1 .. n + 1 |-> IF i = n + 1 THEN x ELSE p[i]]
  <2>3. /\ \A i \in 1 .. n : i \in 1 .. n + 1 /\ i # n + 1 /\ q[i] = p[i]
        /\ q[n + 1] = x
    OBVIOUS
  <2>4. q \in [1 .. n + 1 -> Ids]
    BY <1>3, <2>2 DEF Walk
  <2>5. ASSUME NEW i \in 1 .. n PROVE q[i+1] \in rel[q[i]]
    <3>1. CASE i = n
      BY <2>2, <2>3, <3>1
    <3>2. CASE i # n
      <4>1. i \in 1 .. n - 1 /\ i + 1 \in 1 .. n
        BY <3>2
      <4> QED BY <2>2, <2>3, <4>1 DEF Walk
    <3> QED BY <3>1, <3>2
  <2>6. q[1] = c
    <3>1. 1 \in 1 .. n
      BY <2>1
    <3> QED BY <2>2, <2>3, <3>1
  <2> HIDE DEF q
  <2>7. (n + 1) - 1 = n /\ n + 1 \in Nat \ {0}
    BY <2>1
  <2>8. Walk(rel, n + 1, q) /\ q[1] = c /\ q[n + 1] = x
    BY <2>3, <2>4, <2>5, <2>6, <2>7 DEF Walk
  <2> QED BY <1>1, <2>7, <2>8
<1> HIDE DEF T
<1>4. IsClosure(rel, rel[c], Reach(rel, rel[c]))
  BY <1>1, ReachIsClosure
<1>5. c \in T
  BY <1>2, <1>3, <1>4 DEF IsClosure, OnCycle
<1> QED BY <1>5 DEF T

LEMMA SimpleRound ==
  ASSUME NEW rel \in Relation, NEW c \in Ids, OnCycle(rel, c)
  PROVE  \E n \in Nat \ {0} : \E p :
           /\ Walk(rel, n, p) /\ p[1] = c /\ c \in rel[p[n]]
           /\ \A i, j \in 1 .. n : i # j => p[i] # p[j]
<1> DEFINE Lengths == {n \in Nat \ {0} : \E p : Walk(rel, n, p) /\ p[1] = c /\ c \in rel[p[n]]}
<1>1. Lengths \subseteq Nat /\ Lengths # {}
  BY WalkRound
<1>2. PICK n \in Lengths : \A k \in Lengths : n <= k
  BY <1>1, LeastNatural
<1>3. PICK p : Walk(rel, n, p) /\ p[1] = c /\ c \in rel[p[n]]
  BY <1>2
<1>4. n \in Nat \ {0}
  BY <1>2
<1>5. ASSUME NEW i \in 1 .. n, NEW j \in 1 .. n, i < j, p[i] = p[j] PROVE FALSE
  <2> DEFINE m == n - (j - i)
             q == [k \in 1 .. m |-> IF k <= i THEN p[k] ELSE p[k + (j - i)]]
  <2>1. m \in Nat \ {0} /\ m < n /\ i <= m /\ 1 \in 1 .. m /\ m \in 1 .. m
    BY <1>4, <1>5
  <2>2. \A k \in 1 .. m : IF k <= i THEN k \in 1 .. n ELSE k + (j - i) \in 1 .. n
    BY <1>4, <1>5
  <2>3. q \in [1 .. m -> Ids]
    BY <1>3, <2>2 DEF Walk
  <2>4. q[1] = c
    BY <1>3, <1>5, <2>1
  <2>5. ASSUME NEW k \in 1 .. m - 1 PROVE q[k+1] \in rel[q[k]]
    <3>1. k \in 1 .. m /\ k + 1 \in 1 .. m
      BY <2>1
    <3>2. CASE k < i
      <4>1. q[k] = p[k] /\ q[k+1] = p[k+1] /\ k \in 1 .. n - 1
        BY <1>5, <3>1, <3>2
      <4> QED BY <1>3, <4>1 DEF Walk
    <3>3. CASE k = i
      <4>1. q[k] = p[j] /\ q[k+1] = p[j+1] /\ j \in 1 .. n - 1
        <5>1. k + 1 + (j - i) = j + 1 /\ ~(k + 1 <= i) /\ j <= n - 1
          BY <1>4, <1>5, <2>1, <3>1, <3>3
        <5> QED BY <1>5, <3>1, <3>3, <5>1
      <4> QED BY <1>3, <4>1 DEF Walk
    <3>4. CASE k > i
      <4> DEFINE l == k + (j - i)
      <4>1. q[k] = p[l] /\ q[k+1] = p[l+1] /\ l \in 1 .. n - 1
        <5>1. k + 1 + (j - i) = l + 1 /\ ~(k + 1 <= i) /\ ~(k <= i) /\ l \in 1 .. n - 1
          BY <1>4, <1>5, <2>1, <3>1, <3>4
        <5> QED BY <3>1, <5>1
      <4> HIDE DEF l
      <4> QED BY <1>3, <4>1 DEF Walk
    <3> QED BY <3>2, <3>3, <3>4
  <2>6. c \in rel[q[m]]
    <3>1. CASE m = i
      <4>1. q[m] = p[i] /\ j = n
        BY <1>4, <1>5, <2>1, <3>1
      <4> QED BY <1>3, <1>5, <4>1
    <3>2. CASE m # i
      <4>1. ~(m <= i) /\ m + (j - i) = n
        BY <1>4, <1>5, <2>1, <3>2
      <4> QED BY <1>3, <2>1, <4>1
    <3> QED BY <3>1, <3>2
  <2> HIDE DEF q
  <2>7. Walk(rel, m, q)
    BY <2>3, <2>5 DEF Walk
  <2>8. m \in Lengths
    BY <2>1, <2>4, <2>6, <2>7
  <2> QED BY <1>2, <1>4, <2>1, <2>8
<1>6. \A i, j \in 1 .. n : i # j => p[i] # p[j]
  BY <1>4, <1>5
<1> QED BY <1>3, <1>4, <1>6

(* Along a cycle everybody comes back to itself.                            *)
LEMMA Upward ==
  ASSUME NEW n \in Nat, NEW K, NEW k \in 1 .. n, k \in K,
         \A l \in k .. n - 1 : l \in K => l + 1 \in K
  PROVE  k .. n \subseteq K
<1> DEFINE Bad == (k .. n) \ K
<1> SUFFICES ASSUME Bad # {} PROVE FALSE
  OBVIOUS
<1>1. Bad \subseteq Nat
  OBVIOUS
<1>2. PICK b \in Bad : \A l \in Bad : b <= l
  BY <1>1, LeastNatural
<1>3. b # k /\ b - 1 \in k .. n - 1 /\ b - 1 \notin Bad /\ b - 1 + 1 = b
  BY <1>2
<1> QED BY <1>2, <1>3

LEMMA SmallRemainder ==
  ASSUME NEW n \in Nat \ {0}, NEW k \in Nat, k >= 1, k < n
  PROVE  k % n = k
OBVIOUS

LEMMA CycleMembers ==
  ASSUME NEW rel \in Relation, NEW n \in Nat \ {0}, NEW p \in [1 .. n -> Ids],
         \A i \in 1 .. n : p[(i % n) + 1] \in rel[p[i]], NEW i \in 1 .. n
  PROVE  OnCycle(rel, p[i])
<1> DEFINE R == Reach(rel, rel[p[i]])
           K == {k \in 1 .. n : p[k] \in R}
<1>1. p[i] \in Ids /\ rel[p[i]] \in SUBSET Ids
  BY DEF Relation
<1>2. IsClosure(rel, rel[p[i]], R)
  BY <1>1, ReachIsClosure
<1> HIDE DEF R
<1>3. rel[p[i]] \subseteq R /\ \A k \in K : rel[p[k]] \subseteq R
  BY <1>2 DEF IsClosure, ClosedUnder
<1>4. \A k \in 1 .. n - 1 : (k % n) + 1 = k + 1
  <2>1. \A k \in 1 .. n - 1 : k \in Nat /\ k >= 1 /\ k < n
    OBVIOUS
  <2> QED BY <2>1, SmallRemainder
<1>5. (n % n) + 1 = 1
  <2>1. n % n = 0
    OBVIOUS
  <2> QED BY <2>1
<1>6. \A k \in 1 .. n - 1 : p[k] \in R \/ k = i => k + 1 \in K
  <2> SUFFICES ASSUME NEW k \in 1 .. n - 1, p[k] \in R \/ k = i PROVE k + 1 \in K
    OBVIOUS
  <2>1. k \in 1 .. n /\ k + 1 \in 1 .. n
    OBVIOUS
  <2>2. p[k + 1] \in rel[p[k]]
    BY <1>4, <2>1
  <2> QED BY <1>3, <2>1, <2>2
<1>7. p[n] \in R \/ n = i => 1 \in K
  <2>1. p[1] \in rel[p[n]] /\ 1 \in 1 .. n /\ n \in 1 .. n
    BY <1>5
  <2> QED BY <1>3, <2>1
<1>8. ASSUME NEW k \in K PROVE k .. n \subseteq K
  <2>1. \A l \in k .. n - 1 : l \in K => l + 1 \in K
    BY <1>6
  <2>2. n \in Nat /\ k \in 1 .. n
    OBVIOUS
  <2> HIDE DEF K
  <2> QED BY <1>8, <2>1, <2>2, Upward
<1>9. 1 \in K
  <2>1. CASE i = n
    BY <1>7, <2>1
  <2>2. CASE i # n
    <3>1. i \in 1 .. n - 1 /\ n \in (i + 1) .. n
      BY <2>2
    <3>2. i + 1 \in K
      BY <1>6, <3>1
    <3>3. n \in K
      BY <1>8, <3>1, <3>2
    <3> QED BY <1>7, <3>3
  <2> QED BY <2>1, <2>2
<1>10. i \in K
  BY <1>8, <1>9
<1> QED BY <1>10 DEF OnCycle, R

(* Lists in which nothing occurs twice, and in which whatever is needed     *)
(* comes before.                                                            *)
Distinct(s) ==
    /\ \A i, j \in DOMAIN s : s[i] = s[j] => i = j
    /\ Cardinality(Elems(s)) = Len(s)
NeedsBefore(rel, s, j) == rel[s[j]] \subseteq {s[i] : i \in 1 .. j - 1}
TangledIn(rel, c) == \E d \in Reach(rel, {c}) : OnCycle(rel, d)

LEMMA Appended ==
  ASSUME NEW s \in Seq(Ids), Distinct(s), NEW c \in Ids, c \notin Elems(s)
  PROVE  /\ Append(s, c) \in Seq(Ids) /\ Distinct(Append(s, c))
         /\ Elems(Append(s, c)) = Elems(s) \cup {c}
         /\ DOMAIN Append(s, c) = 1 .. Len(s) + 1 /\ DOMAIN s = 1 .. Len(s)
         /\ Append(s, c)[Len(s) + 1] = c
         /\ \A j \in DOMAIN s : Append(s, c)[j] = s[j]
<1> DEFINE t == Append(s, c)
<1>1. /\ t \in Seq(Ids) /\ DOMAIN t = 1 .. Len(s) + 1 /\ DOMAIN s = 1 .. Len(s)
      /\ Len(t) = Len(s) + 1 /\ Len(s) \in Nat
      /\ t[Len(s) + 1] = c /\ \A j \in 1 .. Len(s) : t[j] = s[j]
  OBVIOUS
<1> HIDE DEF t
<1>2. Elems(t) = Elems(s) \cup {c}
  <2>1. \A j \in 1 .. Len(s) + 1 : j \in 1 .. Len(s) \/ j = Len(s) + 1
    BY <1>1
  <2>2. \A j \in 1 .. Len(s) : j \in 1 .. Len(s) + 1
    BY <1>1
  <2>3. Len(s) + 1 \in 1 .. Len(s) + 1
    BY <1>1
  <2> QED BY <1>1, <2>1, <2>2, <2>3 DEF Elems
<1>3. \A i, j \in DOMAIN t : t[i] = t[j] => i = j
  <2> SUFFICES ASSUME NEW i \in DOMAIN t, NEW j \in DOMAIN t, t[i] = t[j] PROVE i = j
    OBVIOUS
  <2>1. \A k \in 1 .. Len(s) : s[k] # c
    BY <1>1 DEF Elems
  <2>2. (i \in 1 .. Len(s) \/ i = Len(s) + 1) /\ (j \in 1 .. Len(s) \/ j = Len(s) + 1)
    BY <1>1
  <2>3. \A k, l \in 1 .. Len(s) : s[k] = s[l] => k = l
    BY <1>1 DEF Distinct
  <2> QED BY <1>1, <2>1, <2>2, <2>3
<1>4. Cardinality(Elems(t)) = Len(t)
  <2>1. Elems(s) \subseteq Ids
    BY <1>1 DEF Elems
  <2>2. IsFiniteSet(Elems(s))
    BY <2>1, IdsAssumption, FS_Subset
  <2>3. Cardinality(Elems(s) \cup {c}) = Cardinality(Elems(s)) + 1
    BY <2>2, FS_AddElement, Zenon
  <2> QED BY <1>1, <1>2, <2>3 DEF Distinct
<1> QED BY <1>1, <1>2, <1>3, <1>4 DEF t, Distinct

LEMMA AppendedBefore ==
  ASSUME NEW rel \in Relation, NEW s \in Seq(Ids), Distinct(s), NEW c \in Ids, c \notin Elems(s)
  PROVE  /\ \A j \in DOMAIN s : NeedsBefore(rel, s, j) => NeedsBefore(rel, Append(s, c), j)
         /\ rel[c] \subseteq Elems(s) => NeedsBefore(rel, Append(s, c), Len(s) + 1)
<1> DEFINE t == Append(s, c)
<1>1. /\ DOMAIN s = 1 .. Len(s) /\ Len(s) \in Nat /\ t[Len(s) + 1] = c
      /\ \A j \in 1 .. Len(s) : t[j] = s[j]
  BY Appended
<1> HIDE DEF t
<1>2. ASSUME NEW j \in 1 .. Len(s) PROVE {t[i] : i \in 1 .. j - 1} = {s[i] : i \in 1 .. j - 1}
  <2>1. \A i \in 1 .. j - 1 : t[i] = s[i]
    BY <1>1
  <2> QED BY <2>1
<1>3. {t[i] : i \in 1 .. (Len(s) + 1) - 1} = Elems(s)
  <2>1. (Len(s) + 1) - 1 = Len(s)
    BY <1>1
  <2> QED BY <1>1, <2>1 DEF Elems
<1>4. \A j \in DOMAIN s : NeedsBefore(rel, s, j) => NeedsBefore(rel, t, j)
  BY <1>1, <1>2 DEF NeedsBefore
<1>5. rel[c] \subseteq Elems(s) => NeedsBefore(rel, t, Len(s) + 1)
  BY <1>1, <1>3 DEF NeedsBefore
<1> QED BY <1>4, <1>5 DEF t

(* Nobody who is placed when all it needs is placed lies on a cycle.        *)
LEMMA PlacedOffCycles ==
  ASSUME NEW rel \in Relation, NEW s \in Seq(Ids), Distinct(s),
         \A j \in DOMAIN s : NeedsBefore(rel, s, j), NEW c \in Elems(s)
  PROVE  ~OnCycle(rel, c)
<1>1. PICK j \in DOMAIN s : c = s[j]
  BY DEF Elems
<1> DEFINE B == {s[i] : i \in 1 .. j - 1}
<1>2. DOMAIN s = 1 .. Len(s) /\ Len(s) \in Nat /\ \A i \in 1 .. Len(s) : s[i] \in Ids
  OBVIOUS
<1>3. c \in Ids /\ rel[c] \in SUBSET Ids /\ rel[c] \subseteq B
  BY <1>1, <1>2 DEF Relation, NeedsBefore
<1>4. ASSUME NEW x \in B PROVE rel[x] \subseteq B
  <2>1. PICK i \in 1 .. j - 1 : x = s[i]
    OBVIOUS
  <2>2. i \in DOMAIN s /\ \A k \in 1 .. i - 1 : k \in 1 .. j - 1
    BY <1>1, <1>2, <2>1
  <2>3. rel[x] \subseteq {s[k] : k \in 1 .. i - 1}
    BY <2>1, <2>2 DEF NeedsBefore
  <2> QED BY <2>2, <2>3
<1>5. c \notin B
  <2> SUFFICES ASSUME NEW i \in 1 .. j - 1, s[i] = c PROVE FALSE
    OBVIOUS
  <2>1. i \in DOMAIN s /\ i # j
    BY <1>1, <1>2
  <2> QED BY <1>1, <2>1 DEF Distinct
<1> HIDE DEF B
<1>6. Reach(rel, rel[c]) \subseteq B
  BY <1>3, <1>4, ReachIsClosure DEF IsClosure
<1> QED BY <1>5, <1>6 DEF OnCycle

(* What each loop of the resolver has established.                          *)
DependencyTyped ==
    /\ phase \in {"idle", "expand", "sort", "cycles", "rest", "done"}
    /\ known \in SUBSET Ids /\ requires \in Relation /\ optional \in Relation
    /\ closure \in SUBSET known /\ pending \in SUBSET closure
    /\ left \in SUBSET closure
    /\ phase \in {"idle", "expand"} => order = <<>> /\ cycles = {}
    /\ phase # "expand" => pending = {}
    /\ phase = "idle" => closure = {}

Collected ==
    /\ requested \subseteq closure
    /\ \A S \in SUBSET known :
         (requested \subseteq S /\ \A c \in S : requires[c] \cap known \subseteq S)
           => closure \subseteq S
    /\ \A c \in closure \ pending : requires[c] \cap known \subseteq closure
    /\ \A d \in Ids : missing[d] = {c \in closure \ pending : d \in requires[c] \ known}

Placed ==
    /\ order \in Seq(Ids) /\ Distinct(order) /\ Elems(order) \subseteq closure
    /\ phase \in {"sort", "cycles"} =>
         \A j \in DOMAIN order : NeedsBefore(ProperNeeds, order, j)
    /\ phase = "sort" => \A c \in closure : waits[c] = ProperNeeds[c] \ Elems(order)
    /\ phase = "sort" => ready = {c \in closure \ Elems(order) : ProperNeeds[c] \subseteq Elems(order)}
    /\ phase \in {"cycles"} =>
         \A c \in closure \ Elems(order) : ~(ProperNeeds[c] \subseteq Elems(order))
    /\ phase \in {"rest", "done"} =>
         \A j \in DOMAIN order :
            TangledIn(ProperNeeds, order[j]) \/ NeedsBefore(ProperNeeds, order, j)
    /\ phase = "rest" => /\ left = closure \ Elems(order)
                         /\ \A c \in left : TangledIn(ProperNeeds, c)
    /\ phase = "done" => Elems(order) = closure

Reported ==
    /\ \A c \in UNION cycles : OnCycle(requires, c)
    /\ phase = "cycles" =>
         \A c \in closure : OnCycle(ProperNeeds, c) => c \in left \/ c \in UNION cycles
    /\ phase \in {"rest", "done"} =>
         \A c \in closure : OnCycle(ProperNeeds, c) => c \in UNION cycles

DependencyInv == DependencyTyped /\ Collected /\ Placed /\ Reported

LEMMA NeedsAreRelation ==
  ASSUME DependencyTyped
  PROVE  /\ ProperNeeds \in Relation
         /\ \A c \in closure : ProperNeeds[c] = Needs(c)
         /\ \A c \in Ids : ProperNeeds[c] \subseteq closure
         /\ \A c \in Ids \ closure : ProperNeeds[c] = {}
         /\ \A c \in Ids : ProperNeeds[c] \subseteq requires[c]
         /\ closure \subseteq Ids
BY DEF DependencyTyped, ProperNeeds, Needs, Relation

(* What happens after the closure is known leaves the needs alone.          *)
LEMMA NeedsStay ==
  ASSUME UNCHANGED <<closure, requires>>
  PROVE  ProperNeeds' = ProperNeeds
BY DEF ProperNeeds, Needs

LEMMA DependencyInitInv == DependencyInit => DependencyInv
<1> SUFFICES ASSUME DependencyInit PROVE DependencyInv
  OBVIOUS
<1>1. DependencyTyped
  BY DEF DependencyInit, DependencyTyped, Relation
<1>2. Collected
  BY DEF DependencyInit, Collected
<1>3. Placed
  <2>1. order = <<>> /\ phase = "idle"
    BY DEF DependencyInit
  <2>2. Elems(<<>>) = {} /\ Len(<<>>) = 0 /\ DOMAIN <<>> = {} /\ <<>> \in Seq(Ids)
    BY DEF Elems
  <2>3. Cardinality({}) = 0
    BY FS_EmptySet
  <2> QED BY <2>1, <2>2, <2>3 DEF Placed, Distinct
<1>4. Reported
  BY DEF DependencyInit, Reported
<1> QED BY <1>1, <1>2, <1>3, <1>4 DEF DependencyInv

(* Until it is known, nothing is placed or reported.                        *)
LEMMA NothingPlaced ==
  ASSUME order' = <<>>, cycles' = {}, phase' = "expand"
  PROVE  Placed' /\ Reported'
<1>2. Elems(<<>>) = {} /\ Len(<<>>) = 0 /\ DOMAIN <<>> = {} /\ <<>> \in Seq(Ids)
  BY DEF Elems
<1>3. Cardinality({}) = 0
  BY FS_EmptySet
<1> QED BY <1>2, <1>3 DEF Placed, Distinct, Reported

LEMMA AskInv == ASSUME DependencyInv, Ask PROVE DependencyInv'
<1>1. PICK q \in Questions :
        /\ known' = q.known /\ requires' = q.requires /\ optional' = q.optional
        /\ requested' = q.ids \cap q.known
  BY DEF Ask
<1>2. /\ q.known \in SUBSET Ids /\ q.requires \in Relation /\ q.optional \in Relation
      /\ q.ids \in SUBSET Ids
  BY DependencyAssumption
<1>3. /\ phase = "idle" /\ phase' = "expand" /\ closure' = requested' /\ pending' = requested'
      /\ UNCHANGED <<missing, order, left, cycles>>
  BY DEF Ask
<1>4. closure \subseteq known /\ left \subseteq closure /\ pending = {} /\ order = <<>> /\ cycles = {}
  BY <1>3 DEF DependencyInv, DependencyTyped
<1>5. left = {} /\ closure = {} /\ \A d \in Ids : missing[d] = {}
  BY <1>3 DEF DependencyInv, DependencyTyped, Collected
<1>6. DependencyTyped'
  BY <1>1, <1>2, <1>3, <1>4, <1>5 DEF DependencyTyped
<1>7. Collected'
  BY <1>1, <1>2, <1>3, <1>5 DEF Collected
<1> QED BY <1>3, <1>4, <1>6, <1>7, NothingPlaced DEF DependencyInv

LEMMA ExpandInv == ASSUME DependencyInv, Expand PROVE DependencyInv'
<1>1. PICK c \in pending :
        /\ closure' = closure \cup ((requires[c] \cap known) \ closure)
        /\ pending' = (pending \ {c}) \cup ((requires[c] \cap known) \ closure)
        /\ missing' = [d \in Ids |-> IF d \in requires[c] \ known
                                     THEN missing[d] \cup {c} ELSE missing[d]]
  BY DEF Expand
<1>2. /\ phase = "expand" /\ phase' = "expand"
      /\ UNCHANGED <<order, left, cycles, known, requires, optional, requested>>
  BY DEF Expand, inputs
<1>3. c \in closure /\ c \in Ids /\ c \in known
  BY DEF DependencyInv, DependencyTyped
<1>4. DependencyTyped'
  BY <1>1, <1>2, <1>3 DEF DependencyInv, DependencyTyped
<1>5. closure' \ pending' = (closure \ pending) \cup {c}
  BY <1>1, <1>3 DEF DependencyInv, DependencyTyped
<1>6. Collected'
  <2>1. \A S \in SUBSET known :
          (requested \subseteq S /\ \A x \in S : requires[x] \cap known \subseteq S)
            => closure' \subseteq S
    BY <1>1, <1>3 DEF DependencyInv, Collected
  <2>2. \A x \in closure' \ pending' : requires[x] \cap known \subseteq closure'
    BY <1>1, <1>5 DEF DependencyInv, Collected
  <2>3. \A d \in Ids : missing'[d] = {x \in closure' \ pending' : d \in requires[x] \ known}
    <3>1. \A d \in Ids : missing[d] = {x \in closure \ pending : d \in requires[x] \ known}
      BY DEF DependencyInv, Collected
    <3>2. \A d \in Ids : missing'[d] = IF d \in requires[c] \ known THEN missing[d] \cup {c}
                                       ELSE missing[d]
      BY <1>1
    <3> QED BY <1>5, <3>1, <3>2
  <2>4. requested \subseteq closure'
    BY <1>1 DEF DependencyInv, Collected
  <2> QED BY <1>2, <2>1, <2>2, <2>3, <2>4 DEF Collected
<1>7. order' = <<>> /\ cycles' = {}
  BY <1>2 DEF DependencyInv, DependencyTyped
<1> QED BY <1>2, <1>4, <1>6, <1>7, NothingPlaced DEF DependencyInv

(* From then on the closure and what it was collected from are left alone.  *)
LEMMA CollectedStays ==
  ASSUME Collected, UNCHANGED <<known, requires, requested, closure, pending, missing>>
  PROVE  Collected'
BY DEF Collected

LEMMA SortStartInv == ASSUME DependencyInv, SortStart PROVE DependencyInv'
<1>1. /\ phase = "expand" /\ phase' = "sort" /\ pending = {}
      /\ UNCHANGED <<known, requires, optional, requested, closure, pending, missing, order,
                     left, cycles>>
      /\ waits' = [c \in Ids |-> IF c \in closure THEN Needs(c) ELSE {}]
      /\ ready' = {c \in closure : Needs(c) = {}}
  BY DEF SortStart, inputs
<1>2. DependencyTyped' /\ Collected'
  BY <1>1, CollectedStays DEF DependencyInv, DependencyTyped
<1>3. order = <<>> /\ cycles = {}
  BY <1>1 DEF DependencyInv, DependencyTyped
<1>4. ProperNeeds' = ProperNeeds /\ \A c \in closure : ProperNeeds[c] = Needs(c) /\ c \in Ids
  BY <1>1, NeedsStay, NeedsAreRelation DEF DependencyInv
<1>5. Placed'
  <2>1. Elems(<<>>) = {} /\ Len(<<>>) = 0 /\ DOMAIN <<>> = {} /\ <<>> \in Seq(Ids)
    BY DEF Elems
  <2>2. Cardinality({}) = 0
    BY FS_EmptySet
  <2>3. \A c \in closure' : waits'[c] = ProperNeeds'[c] \ Elems(order')
    BY <1>1, <1>3, <1>4, <2>1
  <2>4. ready' = {c \in closure' \ Elems(order') : ProperNeeds'[c] \subseteq Elems(order')}
    BY <1>1, <1>3, <1>4, <2>1
  <2>5. order' = <<>> /\ phase' = "sort"
    BY <1>1, <1>3
  <2> QED BY <2>1, <2>2, <2>3, <2>4, <2>5 DEF Placed, Distinct
<1>6. Reported'
  BY <1>1, <1>3 DEF Reported
<1> QED BY <1>2, <1>5, <1>6 DEF DependencyInv

LEMMA LeastIs ==
  ASSUME NEW S \in SUBSET Ids, S # {}
  PROVE  Least(S) \in S
<1>1. \E i \in S : \A j \in S : i <= j
  BY IdsAssumption, LeastNatural
<1> QED BY <1>1 DEF Least

LEMMA PlaceInv == ASSUME DependencyInv, Place PROVE DependencyInv'
<1> DEFINE c == Least(ready)
<1>1. /\ phase = "sort" /\ phase' = "sort" /\ ready # {}
      /\ UNCHANGED <<known, requires, optional, requested, closure, pending, missing, left, cycles>>
      /\ order' = Append(order, c)
      /\ waits' = [d \in Ids |-> waits[d] \ {c}]
      /\ ready' = (ready \ {c}) \cup {d \in closure : waits[d] = {c}}
  BY DEF Place, inputs
<1>2. /\ ready = {x \in closure \ Elems(order) : ProperNeeds[x] \subseteq Elems(order)}
      /\ \A x \in closure : waits[x] = ProperNeeds[x] \ Elems(order)
      /\ order \in Seq(Ids) /\ Distinct(order) /\ Elems(order) \subseteq closure
      /\ \A j \in DOMAIN order : NeedsBefore(ProperNeeds, order, j)
  BY <1>1 DEF DependencyInv, Placed
<1>3. /\ ProperNeeds' = ProperNeeds /\ ProperNeeds \in Relation /\ closure \subseteq Ids
      /\ \A x \in closure : ProperNeeds[x] = Needs(x)
  BY <1>1, NeedsStay, NeedsAreRelation DEF DependencyInv
<1>4. c \in ready
  BY <1>1, <1>2, <1>3, LeastIs
<1> HIDE DEF c
<1>5. c \in closure /\ c \in Ids /\ c \notin Elems(order) /\ ProperNeeds[c] \subseteq Elems(order)
  BY <1>2, <1>3, <1>4
<1>6. /\ order' \in Seq(Ids) /\ Distinct(order') /\ Elems(order') = Elems(order) \cup {c}
      /\ DOMAIN order' = 1 .. Len(order) + 1 /\ DOMAIN order = 1 .. Len(order)
      /\ Len(order) \in Nat
  BY <1>1, <1>2, <1>5, Appended
<1>7. \A j \in DOMAIN order' : NeedsBefore(ProperNeeds, order', j)
  <2>1. \A j \in DOMAIN order : NeedsBefore(ProperNeeds, order', j)
    BY <1>1, <1>2, <1>3, <1>5, AppendedBefore
  <2>2. NeedsBefore(ProperNeeds, order', Len(order) + 1)
    BY <1>1, <1>2, <1>3, <1>5, AppendedBefore
  <2>3. \A j \in DOMAIN order' : j \in DOMAIN order \/ j = Len(order) + 1
    BY <1>6
  <2> QED BY <2>1, <2>2, <2>3
<1>8. \A x \in closure : waits'[x] = ProperNeeds[x] \ Elems(order')
  BY <1>1, <1>2, <1>3, <1>6
<1>9. ready' = {x \in closure \ Elems(order') : ProperNeeds[x] \subseteq Elems(order')}
  <2>1. ASSUME NEW x \in closure
        PROVE  x \in ready' <=> (x \notin Elems(order') /\ ProperNeeds[x] \subseteq Elems(order'))
    <3>1. c \notin ProperNeeds[c]
      BY <1>3, <1>5 DEF Needs
    <3>2. CASE x \in Elems(order)
      <4>1. x \notin ready /\ x # c /\ x \in Elems(order')
        BY <1>2, <1>5, <1>6, <3>2
      <4>2. waits[x] # {c}
        <5> SUFFICES ASSUME waits[x] = {c} PROVE FALSE
          OBVIOUS
        <5>1. c \in ProperNeeds[x]
          BY <1>2
        <5>2. PICK j \in DOMAIN order : x = order[j]
          BY <3>2 DEF Elems
        <5>3. ProperNeeds[x] \subseteq Elems(order)
          <6>1. \A i \in 1 .. j - 1 : i \in DOMAIN order
            BY <1>6, <5>2
          <6> QED BY <1>2, <5>2, <6>1 DEF NeedsBefore, Elems
        <5> QED BY <1>5, <5>1, <5>3
      <4> QED BY <1>1, <4>1, <4>2
    <3>3. CASE x = c
      <4>1. waits[c] # {c}
        BY <1>2, <1>5, <3>1
      <4> QED BY <1>1, <1>6, <3>3, <4>1
    <3>4. CASE x \notin Elems(order) /\ x # c
      <4>1. x \in ready <=> ProperNeeds[x] \subseteq Elems(order)
        BY <1>2, <3>4
      <4>2. waits[x] = {c} <=> (ProperNeeds[x] \subseteq Elems(order) \cup {c} /\ c \in ProperNeeds[x])
        BY <1>2, <1>5
      <4>3. ProperNeeds[x] \subseteq Elems(order) \cup {c} /\ c \notin ProperNeeds[x]
              => ProperNeeds[x] \subseteq Elems(order)
        OBVIOUS
      <4> QED BY <1>1, <1>6, <3>4, <4>1, <4>2, <4>3
    <3> QED BY <3>2, <3>3, <3>4
  <2>2. ready' \subseteq closure
    BY <1>1, <1>2
  <2> QED BY <2>1, <2>2
<1>10. DependencyTyped' /\ Collected'
  BY <1>1, CollectedStays DEF DependencyInv, DependencyTyped
<1>11. Placed'
  <2>1. Elems(order') \subseteq closure
    BY <1>2, <1>5, <1>6
  <2> QED BY <1>1, <1>3, <1>6, <1>7, <1>8, <1>9, <2>1 DEF Placed
<1>12. Reported'
  BY <1>1 DEF DependencyInv, Reported
<1> QED BY <1>10, <1>11, <1>12 DEF DependencyInv

LEMMA SortEndInv == ASSUME DependencyInv, SortEnd PROVE DependencyInv'
<1>1. /\ phase = "sort" /\ phase' = "cycles" /\ ready = {}
      /\ UNCHANGED <<known, requires, optional, requested, closure, pending, missing, order, cycles>>
      /\ left' = closure \ Elems(order)
  BY DEF SortEnd, inputs
<1>2. DependencyTyped' /\ Collected'
  BY <1>1, CollectedStays DEF DependencyInv, DependencyTyped
<1>3. ProperNeeds' = ProperNeeds /\ ProperNeeds \in Relation
  BY <1>1, NeedsStay, NeedsAreRelation DEF DependencyInv
<1>4. /\ order \in Seq(Ids) /\ Distinct(order) /\ Elems(order) \subseteq closure
      /\ \A j \in DOMAIN order : NeedsBefore(ProperNeeds, order, j)
      /\ ready = {c \in closure \ Elems(order) : ProperNeeds[c] \subseteq Elems(order)}
  BY <1>1 DEF DependencyInv, Placed
<1>5. Placed'
  <2>1. \A c \in closure \ Elems(order) : ~(ProperNeeds[c] \subseteq Elems(order))
    BY <1>1, <1>4
  <2> QED BY <1>1, <1>3, <1>4, <2>1 DEF Placed
<1>6. Reported'
  <2>1. \A c \in closure : OnCycle(ProperNeeds, c) => c \in left'
    BY <1>1, <1>3, <1>4, PlacedOffCycles
  <2>2. \A c \in UNION cycles : OnCycle(requires, c)
    BY DEF DependencyInv, Reported
  <2> QED BY <1>1, <1>3, <2>1, <2>2 DEF Reported
<1> QED BY <1>2, <1>5, <1>6 DEF DependencyInv

(* The search for a cycle through a capability finds one if there is one,   *)
(* and whoever is on what it finds is on a cycle.                           *)
LEMMA CycleIsFound ==
  ASSUME DependencyTyped, NEW c \in closure, OnCycle(ProperNeeds, c)
  PROVE  CyclesThrough(c) # {}
<1>1. /\ ProperNeeds \in Relation /\ closure \subseteq Ids /\ c \in Ids
      /\ \A x \in Ids : ProperNeeds[x] \subseteq closure /\ ProperNeeds[x] \subseteq requires[x]
  BY NeedsAreRelation
<1>2. PICK n \in Nat \ {0} : \E p : /\ Walk(ProperNeeds, n, p) /\ p[1] = c /\ c \in ProperNeeds[p[n]]
                                   /\ \A i, j \in 1 .. n : i # j => p[i] # p[j]
  BY <1>1, SimpleRound
<1>3. PICK p : /\ Walk(ProperNeeds, n, p) /\ p[1] = c /\ c \in ProperNeeds[p[n]]
               /\ \A i, j \in 1 .. n : i # j => p[i] # p[j]
  BY <1>2
<1>4. /\ p \in [1 .. n -> Ids] /\ \A i \in 1 .. n - 1 : p[i+1] \in ProperNeeds[p[i]]
  BY <1>3 DEF Walk
<1>5. \A i \in 1 .. n : p[i] \in closure
  <2> SUFFICES ASSUME NEW i \in 1 .. n PROVE p[i] \in closure
    OBVIOUS
  <2>1. CASE i = 1
    BY <1>3, <2>1
  <2>2. CASE i # 1
    <3>1. i - 1 \in 1 .. n - 1 /\ i - 1 \in 1 .. n /\ (i - 1) + 1 = i
      BY <2>2
    <3>2. p[i - 1] \in Ids /\ p[i] \in ProperNeeds[p[i - 1]]
      BY <1>4, <3>1
    <3> QED BY <1>1, <3>2
  <2> QED BY <2>1, <2>2
<1>6. p \in [1 .. n -> closure]
  BY <1>4, <1>5
<1>7. n \in 1 .. Cardinality(closure)
  <2>1. IsFiniteSet(closure) /\ Cardinality(closure) \in Nat
    BY <1>1, IdsAssumption, FS_Subset, FS_CardinalityType
  <2>2. IsFiniteSet(1 .. n) /\ Cardinality(1 .. n) = n
    BY <1>2, FS_Interval
  <2>3. ~(Cardinality(closure) < n)
    BY <1>3, <1>6, <2>1, <2>2, FS_PigeonHole
  <2> QED BY <2>1, <2>3
<1>8. DOMAIN p = 1 .. n /\ Len(p) = n
  BY <1>6
<1>9. \A i \in 1 .. n : p[(i % n) + 1] \in requires[p[i]]
  <2> SUFFICES ASSUME NEW i \in 1 .. n PROVE p[(i % n) + 1] \in requires[p[i]]
    OBVIOUS
  <2>1. CASE i = n
    <3>1. n % n = 0
      OBVIOUS
    <3>2. (i % n) + 1 = 1 /\ p[n] \in Ids
      BY <1>4, <2>1, <3>1
    <3> QED BY <1>1, <1>3, <2>1, <3>2
  <2>2. CASE i # n
    <3>1. i \in Nat /\ i >= 1 /\ i < n /\ i \in 1 .. n - 1
      BY <2>2
    <3>2. (i % n) + 1 = i + 1
      BY <3>1, SmallRemainder
    <3>3. p[i] \in Ids /\ p[i + 1] \in ProperNeeds[p[i]]
      BY <1>4, <3>1
    <3> QED BY <1>1, <3>2, <3>3
  <2> QED BY <2>1, <2>2
<1>10. p \in UNION {[1 .. m -> closure] : m \in 1 .. Cardinality(closure)}
  BY <1>6, <1>7
<1> QED BY <1>3, <1>8, <1>9, <1>10 DEF CyclesThrough

LEMMA FoundIsCycle ==
  ASSUME DependencyTyped, NEW c \in closure, NEW p \in CyclesThrough(c)
  PROVE  c \in Elems(p) /\ Elems(p) \subseteq closure /\ \A x \in Elems(p) : OnCycle(requires, x)
<1>1. PICK n \in 1 .. Cardinality(closure) : p \in [1 .. n -> closure]
  BY DEF CyclesThrough
<1>2. closure \subseteq Ids /\ requires \in Relation
  BY DEF DependencyTyped
<1>3. Cardinality(closure) \in Nat
  BY <1>2, IdsAssumption, FS_Subset, FS_CardinalityType
<1>4. n \in Nat \ {0} /\ DOMAIN p = 1 .. n /\ Len(p) = n /\ p \in [1 .. n -> Ids]
  BY <1>1, <1>2, <1>3
<1>5. p[1] = c /\ \A i \in 1 .. n : p[(i % n) + 1] \in requires[p[i]]
  BY <1>4 DEF CyclesThrough
<1>6. \A i \in 1 .. n : OnCycle(requires, p[i])
  BY <1>2, <1>4, <1>5, CycleMembers
<1> QED BY <1>1, <1>4, <1>5, <1>6 DEF Elems

LEMMA FindCycleInv == ASSUME DependencyInv, FindCycle PROVE DependencyInv'
<1> DEFINE c == Least(left)
<1>1. /\ phase = "cycles" /\ phase' = "cycles" /\ left # {} /\ left' = left \ {c}
      /\ UNCHANGED <<known, requires, optional, requested, closure, pending, missing, order>>
      /\ IF c \in UNION cycles \/ CyclesThrough(c) = {}
         THEN UNCHANGED cycles
         ELSE \E p \in CyclesThrough(c) : cycles' = cycles \cup {Elems(p)}
  BY DEF FindCycle, inputs
<1>2. left \in SUBSET closure /\ closure \subseteq Ids /\ DependencyTyped
  BY DEF DependencyInv, DependencyTyped
<1>3. c \in left /\ c \in closure
  BY <1>1, <1>2, LeastIs
<1>4. ProperNeeds' = ProperNeeds
  BY <1>1, NeedsStay
<1> HIDE DEF c
<1>5. DependencyTyped' /\ Collected'
  BY <1>1, CollectedStays DEF DependencyInv, DependencyTyped
<1>6. Placed'
  BY <1>1, <1>4 DEF DependencyInv, Placed
<1>7. /\ \A x \in closure : OnCycle(ProperNeeds, x) => x \in left \/ x \in UNION cycles
      /\ \A x \in UNION cycles : OnCycle(requires, x)
  BY <1>1 DEF DependencyInv, Reported
<1>8. /\ UNION cycles \subseteq UNION cycles' /\ \A x \in UNION cycles' : OnCycle(requires, x)
      /\ OnCycle(ProperNeeds, c) => c \in UNION cycles'
  <2>1. CASE c \in UNION cycles
    BY <1>1, <1>7, <2>1
  <2>2. CASE CyclesThrough(c) = {}
    <3>1. ~OnCycle(ProperNeeds, c)
      BY <1>2, <1>3, <2>2, CycleIsFound
    <3> QED BY <1>1, <1>7, <2>2, <3>1
  <2>3. CASE c \notin UNION cycles /\ CyclesThrough(c) # {}
    <3>1. PICK p \in CyclesThrough(c) : cycles' = cycles \cup {Elems(p)}
      BY <1>1, <2>3
    <3>2. c \in Elems(p) /\ \A x \in Elems(p) : OnCycle(requires, x)
      BY <1>2, <1>3, FoundIsCycle
    <3> QED BY <1>7, <3>1, <3>2
  <2> QED BY <2>1, <2>2, <2>3
<1>9. Reported'
  <2>1. \A x \in closure : OnCycle(ProperNeeds, x) => x \in left' \/ x \in UNION cycles'
    BY <1>1, <1>7, <1>8
  <2> QED BY <1>1, <1>4, <1>8, <2>1 DEF Reported
<1> QED BY <1>5, <1>6, <1>9 DEF DependencyInv

LEMMA CyclesEndInv == ASSUME DependencyInv, CyclesEnd PROVE DependencyInv'
<1>1. /\ phase = "cycles" /\ phase' = "rest" /\ left = {}
      /\ UNCHANGED <<known, requires, optional, requested, closure, pending, missing, order, cycles>>
      /\ left' = closure \ Elems(order)
  BY DEF CyclesEnd, inputs
<1>2. DependencyTyped' /\ Collected'
  BY <1>1, CollectedStays DEF DependencyInv, DependencyTyped
<1>3. /\ ProperNeeds' = ProperNeeds /\ ProperNeeds \in Relation /\ closure \subseteq Ids
      /\ \A x \in Ids : ProperNeeds[x] \subseteq closure
  BY <1>1, NeedsStay, NeedsAreRelation DEF DependencyInv
<1>4. /\ order \in Seq(Ids) /\ Distinct(order) /\ Elems(order) \subseteq closure
      /\ \A j \in DOMAIN order : NeedsBefore(ProperNeeds, order, j)
      /\ \A c \in closure \ Elems(order) : ~(ProperNeeds[c] \subseteq Elems(order))
  BY <1>1 DEF DependencyInv, Placed
<1>5. \A c \in left' : TangledIn(ProperNeeds, c)
  <2>1. left' \in SUBSET Ids /\ \A x \in left' : ProperNeeds[x] \cap left' # {}
    BY <1>1, <1>3, <1>4
  <2> QED BY <1>3, <2>1, StuckIsTangled DEF TangledIn
<1>6. Placed'
  BY <1>1, <1>3, <1>4, <1>5 DEF Placed
<1>7. Reported'
  <2>1. /\ \A x \in closure : OnCycle(ProperNeeds, x) => x \in left \/ x \in UNION cycles
        /\ \A x \in UNION cycles : OnCycle(requires, x)
    BY <1>1 DEF DependencyInv, Reported
  <2> QED BY <1>1, <1>3, <2>1 DEF Reported
<1> QED BY <1>2, <1>6, <1>7 DEF DependencyInv

LEMMA AppendLeftInv == ASSUME DependencyInv, AppendLeft PROVE DependencyInv'
<1>1. /\ phase = "rest"
      /\ UNCHANGED <<known, requires, optional, requested, closure, pending, missing, cycles>>
  BY DEF AppendLeft, inputs
<1>2. /\ ProperNeeds' = ProperNeeds /\ ProperNeeds \in Relation /\ closure \subseteq Ids
      /\ left = closure \ Elems(order) /\ \A x \in left : TangledIn(ProperNeeds, x)
      /\ order \in Seq(Ids) /\ Distinct(order) /\ Elems(order) \subseteq closure
      /\ \A j \in DOMAIN order : TangledIn(ProperNeeds, order[j]) \/ NeedsBefore(ProperNeeds, order, j)
  BY <1>1, NeedsStay, NeedsAreRelation DEF DependencyInv, Placed
<1>3. Collected'
  BY <1>1, CollectedStays DEF DependencyInv
<1>4. CASE left = {}
  <2>1. phase' = "done" /\ UNCHANGED <<order, left>>
    BY <1>4 DEF AppendLeft
  <2>2. DependencyTyped' /\ Reported'
    BY <1>1, <1>2, <2>1 DEF DependencyInv, DependencyTyped, Reported
  <2>3. Elems(order) = closure
    BY <1>2, <1>4
  <2>4. Placed'
    BY <1>1, <1>2, <2>1, <2>3 DEF Placed
  <2> QED BY <1>3, <2>2, <2>4 DEF DependencyInv
<1>5. CASE left # {}
  <2> DEFINE c == Least(left)
  <2>1. phase' = "rest" /\ order' = Append(order, c) /\ left' = left \ {c}
    BY <1>1, <1>5 DEF AppendLeft
  <2>2. c \in left
    BY <1>2, <1>5, LeastIs
  <2> HIDE DEF c
  <2>3. c \in Ids /\ c \in closure /\ c \notin Elems(order) /\ TangledIn(ProperNeeds, c)
    BY <1>2, <2>2
  <2>4. /\ order' \in Seq(Ids) /\ Distinct(order') /\ Elems(order') = Elems(order) \cup {c}
        /\ DOMAIN order' = 1 .. Len(order) + 1 /\ DOMAIN order = 1 .. Len(order)
        /\ Len(order) \in Nat /\ order'[Len(order) + 1] = c
        /\ \A j \in DOMAIN order : order'[j] = order[j]
    BY <1>2, <2>1, <2>3, Appended
  <2>5. \A j \in DOMAIN order :
           TangledIn(ProperNeeds, order'[j]) \/ NeedsBefore(ProperNeeds, order', j)
    BY <1>2, <2>1, <2>3, <2>4, AppendedBefore
  <2>6. \A j \in DOMAIN order' :
           TangledIn(ProperNeeds, order'[j]) \/ NeedsBefore(ProperNeeds, order', j)
    <3>1. \A j \in DOMAIN order' : j \in DOMAIN order \/ j = Len(order) + 1
      BY <2>4
    <3> QED BY <2>3, <2>4, <2>5, <3>1
  <2>7. /\ left' = closure \ Elems(order') /\ Elems(order') \subseteq closure
        /\ \A x \in left' : TangledIn(ProperNeeds, x)
    BY <1>2, <2>1, <2>3, <2>4
  <2>8. DependencyTyped' /\ Reported'
    BY <1>1, <1>2, <2>1 DEF DependencyInv, DependencyTyped, Reported
  <2>9. Placed'
    BY <1>1, <1>2, <2>1, <2>4, <2>6, <2>7 DEF Placed
  <2> QED BY <1>3, <2>8, <2>9 DEF DependencyInv
<1> QED BY <1>4, <1>5

LEMMA DependencyStepInv == DependencyInv /\ [DependencyNext]_dependencyVars => DependencyInv'
<1>1. ASSUME DependencyInv, UNCHANGED dependencyVars PROVE DependencyInv'
  <2>1. /\ UNCHANGED <<known, requires, optional, requested, closure, pending, missing, order>>
        /\ UNCHANGED <<phase, waits, ready, left, cycles>>
    BY <1>1 DEF dependencyVars
  <2>2. ProperNeeds' = ProperNeeds
    BY <2>1, NeedsStay
  <2>3. DependencyTyped' /\ Collected'
    BY <1>1, <2>1, CollectedStays DEF DependencyInv, DependencyTyped
  <2>4. Placed' /\ Reported'
    BY <1>1, <2>1, <2>2 DEF DependencyInv, Placed, Reported
  <2> QED BY <2>3, <2>4 DEF DependencyInv
<1> QED
  BY <1>1, AskInv, ExpandInv, SortStartInv, PlaceInv, SortEndInv, FindCycleInv, CyclesEndInv,
     AppendLeftInv DEF DependencyNext, Resolve

(* However requirements are tangled and whatever is missing, expansion      *)
(* collects exactly what is needed, the activation order puts nothing       *)
(* before what it requires unless that depends on a cycle, and the reported *)
(* cycles are the capabilities on cycles (expandDependencies and            *)
(* sortByDependencies).                                                     *)
THEOREM ResolutionsAgree == DependencySpec => []ResolutionAgrees
<1>1. DependencyInv => ResolutionAgrees
  <2> SUFFICES ASSUME DependencyInv PROVE ResolutionAgrees
    OBVIOUS
  <2>1. ClosureExact
    <3> SUFFICES ASSUME phase \notin {"idle", "expand"} PROVE ClosureExact
      BY DEF ClosureExact
    <3>1. pending = {} /\ closure \ pending = closure
      BY DEF DependencyInv, DependencyTyped
    <3> QED BY <3>1 DEF DependencyInv, Collected, ClosureExact
  <2>2. OrderSafe
    <3> SUFFICES ASSUME phase = "done" PROVE OrderSafe
      BY DEF OrderSafe
    <3>1. /\ order \in Seq(Ids) /\ Elems(order) = closure /\ Len(order) = Cardinality(closure)
          /\ \A j \in DOMAIN order :
               TangledIn(ProperNeeds, order[j]) \/ NeedsBefore(ProperNeeds, order, j)
      BY DEF DependencyInv, Placed, Distinct
    <3>2. \A c \in closure : ProperNeeds[c] = Needs(c)
      BY NeedsAreRelation DEF DependencyInv
    <3>3. ASSUME NEW j \in DOMAIN order
          PROVE  Tangled(order[j]) \/
                   \A d \in Needs(order[j]) : \E i \in 1 .. j - 1 : order[i] = d
      <4>1. order[j] \in closure
        BY <3>1 DEF Elems
      <4>2. TangledIn(ProperNeeds, order[j]) => Tangled(order[j])
        BY DEF TangledIn, Tangled
      <4>3. NeedsBefore(ProperNeeds, order, j) =>
              \A d \in Needs(order[j]) : \E i \in 1 .. j - 1 : order[i] = d
        BY <3>2, <4>1 DEF NeedsBefore
      <4> QED BY <3>1, <4>2, <4>3
    <3>4. /\ \A c \in closure : OnCycle(ProperNeeds, c) => c \in UNION cycles
          /\ \A c \in UNION cycles : OnCycle(requires, c)
      BY DEF DependencyInv, Reported
    <3> QED BY <3>1, <3>3, <3>4 DEF OrderSafe
  <2> QED BY <2>1, <2>2 DEF ResolutionAgrees
<1> QED BY <1>1, DependencyInitInv, DependencyStepInv, PTL DEF DependencySpec
-----------------------------------------------------------------------------
(* Versions.  Four numbers with the digits of one base are ordered as the   *)
(* numbers they make.                                                       *)
LEMMA TwoDigits ==
  ASSUME NEW B \in Nat, NEW a \in Int, NEW c \in Int, NEW b \in 0 .. B - 1, NEW d \in 0 .. B - 1
  PROVE  a * B + b < c * B + d <=> a < c \/ (a = c /\ b < d)
<1>1. a * B \in Int /\ c * B \in Int
  OBVIOUS
<1>2. ASSUME NEW x \in Int, NEW y \in Int, x < y PROVE x * B + B <= y * B
  <2>1. (y - x - 1) * B >= 0
    <3>1. y - x - 1 \in Nat
      BY <1>2
    <3>2. \A n \in Nat : n * B >= 0
      OBVIOUS
    <3> QED BY <3>1, <3>2
  <2>2. (y - x - 1) * B = y * B - x * B - B
    OBVIOUS
  <2>3. x * B \in Int /\ y * B \in Int
    OBVIOUS
  <2> QED BY <2>1, <2>2, <2>3
<1>3. a < c => a * B + B <= c * B
  BY <1>2
<1>4. c < a => c * B + B <= a * B
  BY <1>2
<1> DEFINE A == a * B
           C == c * B
<1>5. A \in Int /\ C \in Int /\ (a < c => A + B <= C) /\ (c < a => C + B <= A) /\ (a = c => A = C)
  BY <1>1, <1>3, <1>4
<1> HIDE DEF A, C
<1>6. A + b < C + d <=> a < c \/ (a = c /\ b < d)
  BY <1>5
<1> QED BY <1>6 DEF A, C

Digit == 0 .. MaxNumber + 1

Quad == Digit \X Digit \X Digit \X Digit
OnLine(q) == Digits(q[1], q[2], q[3], q[4])

LEMMA QuadOrder ==
  ASSUME NEW p \in Quad, NEW q \in Quad
  PROVE  /\ OnLine(p) \in Nat
         /\ OnLine(p) < OnLine(q) <=>
              \/ p[1] < q[1]
              \/ p[1] = q[1] /\ p[2] < q[2]
              \/ p[1] = q[1] /\ p[2] = q[2] /\ p[3] < q[3]
              \/ p[1] = q[1] /\ p[2] = q[2] /\ p[3] = q[3] /\ p[4] < q[4]
         /\ OnLine(p) = OnLine(q) <=> p[1] = q[1] /\ p[2] = q[2] /\ p[3] = q[3] /\ p[4] = q[4]
<1> DEFINE a == p[1] b == p[2] c == p[3] d == p[4]
           e == q[1] f == q[2] g == q[3] h == q[4]
<1>1. /\ a \in Digit /\ b \in Digit /\ c \in Digit /\ d \in Digit
      /\ e \in Digit /\ f \in Digit /\ g \in Digit /\ h \in Digit
  BY DEF Quad
<1> HIDE DEF a, b, c, d, e, f, g, h
<1>2. /\ Digits(a, b, c, d) \in Nat
      /\ Digits(a, b, c, d) < Digits(e, f, g, h) <=>
           \/ a < e
           \/ a = e /\ b < f
           \/ a = e /\ b = f /\ c < g
           \/ a = e /\ b = f /\ c = g /\ d < h
      /\ Digits(a, b, c, d) = Digits(e, f, g, h) <=> a = e /\ b = f /\ c = g /\ d = h
  <2> DEFINE B == MaxNumber + 2
             ab == a * B + b
             ef == e * B + f
             abc == ab * B + c
             efg == ef * B + g
             abcd == abc * B + d
             efgh == efg * B + h
  <2>1. /\ B \in Nat /\ a \in Nat /\ e \in Nat
        /\ b \in 0 .. B - 1 /\ c \in 0 .. B - 1 /\ d \in 0 .. B - 1
        /\ f \in 0 .. B - 1 /\ g \in 0 .. B - 1 /\ h \in 0 .. B - 1
    BY <1>1, VersionsAssumption DEF Digit
  <2> HIDE DEF B
  <2>2. \A x \in Nat, y \in 0 .. B - 1 : x * B + y \in Nat
    BY <2>1
  <2>3. ab \in Nat /\ ef \in Nat
    BY <2>1, <2>2
  <2>4. (ab < ef <=> a < e \/ (a = e /\ b < f)) /\ (ef < ab <=> e < a \/ (e = a /\ f < b))
    BY <2>1, TwoDigits
  <2> HIDE DEF ab, ef
  <2>5. abc \in Nat /\ efg \in Nat
    BY <2>1, <2>2, <2>3
  <2>6. /\ abc < efg <=> ab < ef \/ (ab = ef /\ c < g)
        /\ efg < abc <=> ef < ab \/ (ef = ab /\ g < c)
    BY <2>1, <2>3, TwoDigits
  <2> HIDE DEF abc, efg
  <2>7. abcd \in Nat /\ efgh \in Nat
    BY <2>1, <2>2, <2>5
  <2>8. /\ abcd < efgh <=> abc < efg \/ (abc = efg /\ d < h)
        /\ efgh < abcd <=> efg < abc \/ (efg = abc /\ h < d)
    BY <2>1, <2>5, TwoDigits
  <2>9. Digits(a, b, c, d) = abcd /\ Digits(e, f, g, h) = efgh
    BY DEF Digits, abcd, efgh, abc, efg, ab, ef, B
  <2> HIDE DEF abcd, efgh
  <2>10. ab = ef <=> a = e /\ b = f
    BY <2>1, <2>3, <2>4
  <2>11. abc = efg <=> ab = ef /\ c = g
    BY <2>1, <2>3, <2>5, <2>6
  <2>12. abcd = efgh <=> abc = efg /\ d = h
    BY <2>1, <2>5, <2>7, <2>8
  <2>13. abcd < efgh <=>
                \/ a < e
                \/ a = e /\ b < f
                \/ a = e /\ b = f /\ c < g
                \/ a = e /\ b = f /\ c = g /\ d < h
    BY <2>4, <2>6, <2>8, <2>10, <2>11
  <2>14. abcd = efgh <=> a = e /\ b = f /\ c = g /\ d = h
    BY <2>10, <2>11, <2>12
  <2> QED BY <2>7, <2>9, <2>13, <2>14
<1> QED BY <1>2 DEF OnLine, a, b, c, d, e, f, g, h

(* What stands for the prerelease of a version, the release last.           *)
Fourth(s) == IF s.prerelease = None THEN MaxNumber + 1 ELSE s.prerelease

LEMMA SemVerDigits ==
  ASSUME NEW s \in SemVer
  PROVE  /\ MaxNumber \in Nat
         /\ s.major \in 0 .. MaxNumber /\ s.minor \in 0 .. MaxNumber /\ s.patch \in 0 .. MaxNumber
         /\ s.prerelease \in {None} \cup 0 .. MaxNumber
         /\ s.major \in Digit /\ s.minor \in Digit /\ s.patch \in Digit /\ Fourth(s) \in Digit
         /\ Weight(s) = Digits(s.major, s.minor, s.patch, Fourth(s))
BY VersionsAssumption DEF SemVer, Fourth, Weight, Digit, None

LEMMA WeightOrder ==
  ASSUME NEW v \in SemVer, NEW t \in SemVer
  PROVE  /\ Weight(v) \in Nat
         /\ Weight(v) < Weight(t) <=>
              \/ v.major < t.major
              \/ v.major = t.major /\ v.minor < t.minor
              \/ v.major = t.major /\ v.minor = t.minor /\ v.patch < t.patch
              \/ v.major = t.major /\ v.minor = t.minor /\ v.patch = t.patch /\ Fourth(v) < Fourth(t)
         /\ Weight(v) = Weight(t) <=>
              v.major = t.major /\ v.minor = t.minor /\ v.patch = t.patch /\ Fourth(v) = Fourth(t)
<1>1. /\ v.major \in Digit /\ v.minor \in Digit /\ v.patch \in Digit /\ Fourth(v) \in Digit
      /\ t.major \in Digit /\ t.minor \in Digit /\ t.patch \in Digit /\ Fourth(t) \in Digit
  BY SemVerDigits
<1> DEFINE p == <<v.major, v.minor, v.patch, Fourth(v)>>
           q == <<t.major, t.minor, t.patch, Fourth(t)>>
<1>2. p \in Quad /\ q \in Quad
  BY <1>1 DEF Quad
<1>3. Weight(v) = OnLine(p) /\ Weight(t) = OnLine(q)
  BY SemVerDigits DEF OnLine
<1>4. /\ v.major = p[1] /\ v.minor = p[2] /\ v.patch = p[3] /\ Fourth(v) = p[4]
      /\ t.major = q[1] /\ t.minor = q[2] /\ t.patch = q[3] /\ Fourth(t) = q[4]
  OBVIOUS
<1> HIDE DEF p, q
<1> QED BY <1>2, <1>3, <1>4, QuadOrder

(* Which versions lie before the releases that bound an interval.           *)
LEMMA FromOrder ==
  ASSUME NEW s \in SemVer, NEW a \in Digit, NEW b \in Digit, NEW d \in Digit
  PROVE  /\ From(a, b, d) \in Nat
         /\ Weight(s) < From(a, b, d) <=>
              \/ s.major < a
              \/ s.major = a /\ s.minor < b
              \/ s.major = a /\ s.minor = b /\ s.patch < d
<1>1. /\ s.major \in Digit /\ s.minor \in Digit /\ s.patch \in Digit /\ Fourth(s) \in Digit
      /\ 0 \in Digit
  BY SemVerDigits DEF Digit
<1>2. ~(Fourth(s) < 0)
  BY <1>1 DEF Digit
<1> DEFINE p == <<s.major, s.minor, s.patch, Fourth(s)>>
           q == <<a, b, d, 0>>
<1>3. p \in Quad /\ q \in Quad
  BY <1>1 DEF Quad
<1>4. Weight(s) = OnLine(p) /\ From(a, b, d) = OnLine(q)
  BY SemVerDigits DEF OnLine, From
<1>5. /\ s.major = p[1] /\ s.minor = p[2] /\ s.patch = p[3] /\ Fourth(s) = p[4]
      /\ a = q[1] /\ b = q[2] /\ d = q[3] /\ 0 = q[4]
  OBVIOUS
<1> HIDE DEF p, q
<1> QED BY <1>2, <1>3, <1>4, <1>5, QuadOrder

LEMMA CmpIsWeight ==
  ASSUME NEW v \in SemVer, NEW t \in SemVer
  PROVE  /\ Weight(v) \in Nat /\ Weight(t) \in Nat
         /\ Cmp(v, t) \in {-1, 0, 1}
         /\ Cmp(v, t) = 0 <=> Weight(v) = Weight(t)
         /\ Cmp(v, t) > 0 <=> Weight(v) > Weight(t)
<1>1. /\ v.major \in Nat /\ v.minor \in Nat /\ v.patch \in Nat
      /\ t.major \in Nat /\ t.minor \in Nat /\ t.patch \in Nat
  BY SemVerDigits
<1>2. /\ Weight(v) \in Nat /\ Weight(t) \in Nat
      /\ Weight(t) < Weight(v) <=>
              \/ t.major < v.major
              \/ t.major = v.major /\ t.minor < v.minor
              \/ t.major = v.major /\ t.minor = v.minor /\ t.patch < v.patch
              \/ t.major = v.major /\ t.minor = v.minor /\ t.patch = v.patch /\ Fourth(t) < Fourth(v)
      /\ Weight(t) = Weight(v) <=>
           t.major = v.major /\ t.minor = v.minor /\ t.patch = v.patch /\ Fourth(t) = Fourth(v)
  BY WeightOrder
<1>3. /\ Fourth(t) < Fourth(v) <=> IF v.prerelease = None THEN t.prerelease # None
                               ELSE t.prerelease # None /\ t.prerelease < v.prerelease
      /\ Fourth(t) = Fourth(v) <=> t.prerelease = v.prerelease
  BY SemVerDigits DEF Fourth, None
<1> QED BY <1>1, <1>2, <1>3, SemVerDigits DEF Cmp, Sign, None

(* A condition admits its interval.                                         *)
LEMMA HoldsInInterval ==
  ASSUME NEW v \in SemVer, NEW c, c.op \in Operators, c.target \in SemVer, c.target # Invalid
  PROVE  Holds(v, c) <=> Weight(v) \in Interval(c.op, c.target)
<1> DEFINE t == c.target
           B == MaxNumber + 1
<1>1. /\ MaxNumber \in Nat
      /\ v.major \in 0 .. MaxNumber /\ v.minor \in 0 .. MaxNumber /\ v.patch \in 0 .. MaxNumber
      /\ t.major \in 0 .. MaxNumber /\ t.minor \in 0 .. MaxNumber /\ t.patch \in 0 .. MaxNumber
  BY SemVerDigits
<1>2. /\ Weight(v) \in Nat /\ Weight(t) \in Nat /\ Cmp(v, t) \in {-1, 0, 1}
      /\ Cmp(v, t) = 0 <=> Weight(v) = Weight(t)
      /\ Cmp(v, t) > 0 <=> Weight(v) > Weight(t)
  BY CmpIsWeight
<1>4. Weight(v) < From(B, 0, 0) /\ From(B, 0, 0) \in Nat
  <2>1. B \in Digit /\ 0 \in Digit
    BY <1>1 DEF Digit
  <2> HIDE DEF B
  <2>2. From(B, 0, 0) \in Nat /\ (v.major < B => Weight(v) < From(B, 0, 0))
    BY <2>1, FromOrder
  <2> QED BY <1>1, <2>2 DEF B
<1>6. CASE c.op \in {"=", ">", ">=", "<", "<="}
  <2>1. CASE c.op = "="
    <3>1. (Holds(v, c) <=> Cmp(v, t) = 0) /\ Interval(c.op, t) = Weight(t) .. Weight(t)
      BY <2>1 DEF Holds, Interval
    <3> HIDE DEF t, B
    <3>2. Holds(v, c) <=> Weight(v) \in Interval(c.op, t)
      BY <1>2, <1>4, <3>1
    <3> QED BY <3>2 DEF t
  <2>2. CASE c.op = ">"
    <3>1. (Holds(v, c) <=> Cmp(v, t) > 0) /\ Interval(c.op, t) = Weight(t) + 1 .. From(B, 0, 0)
      BY <2>2 DEF Holds, Interval
    <3> HIDE DEF t, B
    <3>2. Holds(v, c) <=> Weight(v) \in Interval(c.op, t)
      BY <1>2, <1>4, <3>1
    <3> QED BY <3>2 DEF t
  <2>3. CASE c.op = ">="
    <3>1. (Holds(v, c) <=> Cmp(v, t) >= 0) /\ Interval(c.op, t) = Weight(t) .. From(B, 0, 0)
      BY <2>3 DEF Holds, Interval
    <3> HIDE DEF t, B
    <3>2. Holds(v, c) <=> Weight(v) \in Interval(c.op, t)
      BY <1>2, <1>4, <3>1
    <3> QED BY <3>2 DEF t
  <2>4. CASE c.op = "<"
    <3>1. (Holds(v, c) <=> Cmp(v, t) < 0) /\ Interval(c.op, t) = 0 .. Weight(t) - 1
      BY <2>4 DEF Holds, Interval
    <3> HIDE DEF t, B
    <3>2. Holds(v, c) <=> Weight(v) \in Interval(c.op, t)
      BY <1>2, <1>4, <3>1
    <3> QED BY <3>2 DEF t
  <2>5. CASE c.op = "<="
    <3>1. (Holds(v, c) <=> Cmp(v, t) <= 0) /\ Interval(c.op, t) = 0 .. Weight(t)
      BY <2>5 DEF Holds, Interval
    <3> HIDE DEF t, B
    <3>2. Holds(v, c) <=> Weight(v) \in Interval(c.op, t)
      BY <1>2, <1>4, <3>1
    <3> QED BY <3>2 DEF t
  <2> QED BY <1>6, <2>1, <2>2, <2>3, <2>4, <2>5
<1> DEFINE x == From(t.major + 1, 0, 0)
           y == From(0, t.minor + 1, 0)
           z == From(0, 0, t.patch + 1)
           m == From(t.major, t.minor + 1, 0)
<1>a. /\ x \in Nat /\ y \in Nat /\ z \in Nat /\ m \in Nat
      /\ Weight(v) < x <=> v.major <= t.major
      /\ Weight(v) < y <=> v.major = 0 /\ v.minor <= t.minor
      /\ Weight(v) < z <=> v.major = 0 /\ v.minor = 0 /\ v.patch <= t.patch
      /\ Weight(v) < m <=> v.major < t.major \/ (v.major = t.major /\ v.minor <= t.minor)
  <2>1. /\ t.major + 1 \in Digit /\ t.minor + 1 \in Digit /\ t.patch + 1 \in Digit
        /\ t.major \in Digit /\ 0 \in Digit
    BY <1>1 DEF Digit
  <2>2. x \in Nat /\ (Weight(v) < x <=>
            \/ v.major < t.major + 1
            \/ v.major = t.major + 1 /\ v.minor < 0
            \/ v.major = t.major + 1 /\ v.minor = 0 /\ v.patch < 0)
    BY <2>1, FromOrder
  <2>3. y \in Nat /\ (Weight(v) < y <=>
            \/ v.major < 0
            \/ v.major = 0 /\ v.minor < t.minor + 1
            \/ v.major = 0 /\ v.minor = t.minor + 1 /\ v.patch < 0)
    BY <2>1, FromOrder
  <2>4. z \in Nat /\ (Weight(v) < z <=>
            \/ v.major < 0
            \/ v.major = 0 /\ v.minor < 0
            \/ v.major = 0 /\ v.minor = 0 /\ v.patch < t.patch + 1)
    BY <2>1, FromOrder
  <2>5. m \in Nat /\ (Weight(v) < m <=>
            \/ v.major < t.major
            \/ v.major = t.major /\ v.minor < t.minor + 1
            \/ v.major = t.major /\ v.minor = t.minor + 1 /\ v.patch < 0)
    BY <2>1, FromOrder
  <2> HIDE DEF x, y, z, m
  <2> QED BY <1>1, <2>2, <2>3, <2>4, <2>5
<1>b. Weight(v) >= Weight(t) =>
        /\ v.major >= t.major
        /\ v.major = t.major => v.minor >= t.minor
        /\ (v.major = t.major /\ v.minor = t.minor) => v.patch >= t.patch
  <2>1. Weight(v) < Weight(t) <=>
              \/ v.major < t.major
              \/ v.major = t.major /\ v.minor < t.minor
              \/ v.major = t.major /\ v.minor = t.minor /\ v.patch < t.patch
              \/ v.major = t.major /\ v.minor = t.minor /\ v.patch = t.patch /\ Fourth(v) < Fourth(t)
    BY WeightOrder
  <2> QED BY <1>1, <1>2, <2>1
<1>7. CASE c.op = "^"
  <2>1. Holds(v, c) <=> /\ Weight(v) >= Weight(t) /\ v.major = t.major
                        /\ t.major = 0 => v.minor = t.minor
                        /\ (t.major = 0 /\ t.minor = 0) => v.patch = t.patch
    BY <1>2, <1>7 DEF Holds
  <2>2. Interval(c.op, t) =
          Weight(t) .. (IF t.major > 0 THEN x ELSE IF t.minor > 0 THEN y ELSE z) - 1
    BY <1>7 DEF Interval
  <2> HIDE DEF x, y, z, m
  <2>3. Weight(v) \in Interval(c.op, t) <=>
          /\ Weight(v) >= Weight(t)
          /\ Weight(v) < (IF t.major > 0 THEN x ELSE IF t.minor > 0 THEN y ELSE z)
    BY <1>2, <1>a, <2>2
  <2>4. CASE t.major > 0
    BY <1>1, <1>2, <1>a, <1>b, <2>1, <2>3, <2>4
  <2>5. CASE t.major = 0 /\ t.minor > 0
    BY <1>1, <1>2, <1>a, <1>b, <2>1, <2>3, <2>5
  <2>6. CASE t.major = 0 /\ t.minor = 0
    BY <1>1, <1>2, <1>a, <1>b, <2>1, <2>3, <2>6
  <2> QED BY <1>1, <2>4, <2>5, <2>6
<1>8. CASE c.op = "~"
  <2>1. Holds(v, c) <=> /\ Weight(v) >= Weight(t) /\ v.major = t.major
                        /\ (t.minor > 0 \/ t.patch > 0) => v.minor = t.minor
    BY <1>2, <1>8 DEF Holds
  <2>2. Interval(c.op, t) = Weight(t) .. (IF t.minor + t.patch > 0 THEN m ELSE x) - 1
    BY <1>8 DEF Interval
  <2> HIDE DEF x, y, z, m
  <2>3. Weight(v) \in Interval(c.op, t) <=>
          /\ Weight(v) >= Weight(t)
          /\ Weight(v) < (IF t.minor + t.patch > 0 THEN m ELSE x)
    BY <1>2, <1>a, <2>2
  <2> QED BY <1>1, <1>2, <1>a, <1>b, <2>1, <2>3
<1> QED BY <1>6, <1>7, <1>8 DEF Operators

LEMMA NewerIsAbove ==
  ASSUME NEW a \in Texts, NEW b \in Texts
  PROVE  Newer(a, b) <=> CompareSemVer(a, b) > 0
<1>1. a.place \in Nat /\ b.place \in Nat
  BY VersionsAssumption
<1>2. CASE Invalid \in {a.sem, b.sem}
  BY <1>1, <1>2 DEF Newer, CompareSemVer, Sign
<1>3. CASE Invalid \notin {a.sem, b.sem}
  <2>1. a.sem \in SemVer /\ b.sem \in SemVer
    BY <1>3, VersionsAssumption
  <2> QED BY <1>3, <2>1, CmpIsWeight DEF Newer, CompareSemVer
<1> QED BY <1>2, <1>3

(* highestVersion of three goes through them once.                          *)
Higher(a, b) == IF CompareSemVer(a, b) > 0 THEN a ELSE b

LEMMA HighestOfThree ==
  ASSUME NEW u, NEW v, NEW w
  PROVE  HighestVersion(<<u, v, w>>) = Higher(w, Higher(v, u))
<1> DEFINE texts == <<u, v, w>>
           IsBest(f) == f = [i \in 1 .. Len(texts) |->
             IF i = 1 THEN texts[1]
             ELSE IF CompareSemVer(texts[i], f[i - 1]) > 0 THEN texts[i] ELSE f[i - 1]]
           g == [i \in 1 .. 3 |-> IF i = 1 THEN u ELSE IF i = 2 THEN Higher(v, u)
                                  ELSE Higher(w, Higher(v, u))]
           best == CHOOSE f : IsBest(f)
<1>1. Len(texts) = 3 /\ texts[1] = u /\ texts[2] = v /\ texts[3] = w
  OBVIOUS
<1>2. \A f : IsBest(f) <=> f = [i \in 1 .. 3 |->
             IF i = 1 THEN u
             ELSE IF CompareSemVer(texts[i], f[i - 1]) > 0 THEN texts[i] ELSE f[i - 1]]
  BY <1>1
<1>3. HighestVersion(texts) = best[3]
  BY <1>1 DEF HighestVersion
<1> HIDE DEF texts, IsBest
<1>4. IsBest(g)
  <2>1. \A i \in 1 .. 3 : g[i] =
             IF i = 1 THEN u
             ELSE IF CompareSemVer(texts[i], g[i - 1]) > 0 THEN texts[i] ELSE g[i - 1]
    BY <1>1 DEF Higher
  <2> HIDE DEF g
  <2>2. g = [i \in 1 .. 3 |->
             IF i = 1 THEN u
             ELSE IF CompareSemVer(texts[i], g[i - 1]) > 0 THEN texts[i] ELSE g[i - 1]]
    BY <2>1 DEF g
  <2> QED BY <1>2, <2>2
<1>5. IsBest(best)
  BY <1>4
<1> HIDE DEF best
<1>6. best = [i \in 1 .. 3 |->
             IF i = 1 THEN u
             ELSE IF CompareSemVer(texts[i], best[i - 1]) > 0 THEN texts[i] ELSE best[i - 1]]
  BY <1>2, <1>5
<1>7. /\ best[1] = u
      /\ best[2] = Higher(texts[2], best[1])
      /\ best[3] = Higher(texts[3], best[2])
  BY <1>6 DEF Higher
<1> QED BY <1>1, <1>3, <1>7 DEF texts

(* The answers to both questions are right.                                 *)
Answered(j) ==
    /\ "range" \in DOMAIN j =>
         (j.answer <=>
            /\ j.version.sem # Invalid
            /\ \E part \in j.range : \A c \in part :
                 c.target # Invalid /\ Weight(j.version.sem) \in Interval(c.op, c.target))
    /\ "versions" \in DOMAIN j =>
         LET all == Elems(j.versions) IN
         /\ j.answer \in all
         /\ (\A v \in all : v.sem # Invalid) => \A v \in all : ~Newer(v, j.answer)

LEMMA RangeAnswered ==
  ASSUME NEW v \in Texts, NEW r \in Ranges
  PROVE  Answered([version |-> v, range |-> r, answer |-> Satisfies(v, r)])
<1> DEFINE j == [version |-> v, range |-> r, answer |-> Satisfies(v, r)]
<1>1. /\ j.version = v /\ j.range = r /\ j.answer = Satisfies(v, r)
      /\ "versions" \notin DOMAIN j
  OBVIOUS
<1> HIDE DEF j
<1>2. v.sem \in SemVer \cup {Invalid}
  BY VersionsAssumption
<1>3. ASSUME NEW part \in r, NEW c \in part, v.sem # Invalid
      PROVE  Holds(v.sem, c) <=> c.target # Invalid /\ Weight(v.sem) \in Interval(c.op, c.target)
  <2>1. c.op \in Operators /\ c.target \in SemVer \cup {Invalid}
    BY VersionsAssumption
  <2>2. CASE c.target = Invalid
    BY <2>2 DEF Holds
  <2>3. CASE c.target # Invalid
    BY <1>2, <1>3, <2>1, <2>3, HoldsInInterval
  <2> QED BY <2>2, <2>3
<1>4. Satisfies(v, r) <=>
        /\ v.sem # Invalid
        /\ \E part \in r : \A c \in part :
             c.target # Invalid /\ Weight(v.sem) \in Interval(c.op, c.target)
  BY <1>3 DEF Satisfies
<1>5. Answered(j)
  BY <1>1, <1>4 DEF Answered
<1> QED BY <1>5 DEF j

LEMMA HighestAnswered ==
  ASSUME NEW u \in Texts, NEW v \in Texts, NEW w \in Texts
  PROVE  Answered([versions |-> <<u, v, w>>, answer |-> HighestVersion(<<u, v, w>>)])
<1> DEFINE h == HighestVersion(<<u, v, w>>)
           j == [versions |-> <<u, v, w>>, answer |-> h]
<1>1. h = Higher(w, Higher(v, u))
  BY HighestOfThree
<1> HIDE DEF h
<1>2. j.versions = <<u, v, w>> /\ j.answer = h /\ "range" \notin DOMAIN j
  OBVIOUS
<1>3. Elems(<<u, v, w>>) = {u, v, w}
  BY DEF Elems
<1>4. h \in {u, v, w} /\ Higher(v, u) \in {u, v}
  BY <1>1 DEF Higher
<1>5. ASSUME \A x \in {u, v, w} : x.sem # Invalid
      PROVE  \A x \in {u, v, w} : ~Newer(x, h)
  <2>1. u.sem \in SemVer /\ v.sem \in SemVer /\ w.sem \in SemVer
    BY <1>5, VersionsAssumption
  <2>2. Weight(u.sem) \in Nat /\ Weight(v.sem) \in Nat /\ Weight(w.sem) \in Nat
    BY <2>1, WeightOrder
  <2>3. \A x, y \in {u, v, w} : Newer(x, y) <=> Weight(x.sem) > Weight(y.sem)
    BY <1>5 DEF Newer
  <2>4. \A x, y \in {u, v, w} : Higher(x, y) = IF Newer(x, y) THEN x ELSE y
    BY NewerIsAbove DEF Higher
  <2>5. CASE Newer(v, u)
    <3>1. h = IF Newer(w, v) THEN w ELSE v
      BY <1>1, <2>4, <2>5
    <3> QED BY <2>2, <2>3, <2>5, <3>1
  <2>6. CASE ~Newer(v, u)
    <3>1. h = IF Newer(w, u) THEN w ELSE u
      BY <1>1, <2>4, <2>6
    <3> QED BY <2>2, <2>3, <2>6, <3>1
  <2> QED BY <2>5, <2>6
<1> HIDE DEF j
<1>6. Answered(j)
  BY <1>2, <1>3, <1>4, <1>5 DEF Answered
<1> QED BY <1>6 DEF j, h

LEMMA FirstAndRest ==
  ASSUME NEW S, NEW q \in Seq(S), q # <<>>
  PROVE  Head(q) \in S /\ Tail(q) \in Seq(S) /\ Elems(q) = {Head(q)} \cup Elems(Tail(q))
<1>1. Len(q) \in Nat /\ Len(q) > 0 /\ DOMAIN q = 1 .. Len(q) /\ \A i \in 1 .. Len(q) : q[i] \in S
  OBVIOUS
<1>2. /\ Head(q) = q[1] /\ Tail(q) \in Seq(S) /\ Len(Tail(q)) = Len(q) - 1
      /\ DOMAIN Tail(q) = 1 .. Len(q) - 1
      /\ \A i \in 1 .. Len(q) - 1 : Tail(q)[i] = q[i + 1]
  OBVIOUS
<1>3. Elems(q) \subseteq {Head(q)} \cup Elems(Tail(q))
  <2>1. ASSUME NEW i \in 1 .. Len(q) PROVE q[i] \in {Head(q)} \cup Elems(Tail(q))
    <3>1. CASE i = 1
      BY <1>2, <3>1
    <3>2. CASE i # 1
      <4>1. i - 1 \in 1 .. Len(q) - 1 /\ (i - 1) + 1 = i
        BY <1>1, <3>2
      <4>2. Tail(q)[i - 1] = q[i]
        BY <1>2, <4>1
      <4> QED BY <1>2, <4>1, <4>2 DEF Elems
    <3> QED BY <3>1, <3>2
  <2> QED BY <1>1, <2>1 DEF Elems
<1>4. {Head(q)} \cup Elems(Tail(q)) \subseteq Elems(q)
  <2>1. ASSUME NEW i \in 1 .. Len(q) - 1 PROVE Tail(q)[i] \in Elems(q)
    <3>1. i + 1 \in 1 .. Len(q) /\ Tail(q)[i] = q[i + 1]
      BY <1>1, <1>2
    <3> QED BY <1>1, <3>1 DEF Elems
  <2>2. Head(q) \in Elems(q)
    BY <1>1, <1>2 DEF Elems
  <2> QED BY <1>2, <2>1, <2>2 DEF Elems
<1> QED BY <1>1, <1>2, <1>3, <1>4

(* Of a row: it is as update has read it and, unless it is still to be gone *)
(* through or was skipped, what the registry has is no newer; or it is the  *)
(* registry's and newer than what was read.                                 *)
UpToDate(c) ==
    \/ /\ rows[c] = snapshot.rows[c]
       /\ c \in DOMAIN registry /\ c \notin skipped \cup Elems(updates) =>
            ~Newer(registry[c], rows[c])
    \/ c \in DOMAIN registry /\ rows[c] = registry[c] /\ Newer(rows[c], snapshot.rows[c])

(* update goes through rows that are older than the registry's and, once    *)
(* through, has left none of them that it did not skip.                     *)
VersionInv ==
    /\ updating \in {"idle", "judged", "listed", "applying", "done"}
    /\ updating = "judged" => Answered(judged)
    /\ updating \in {"idle", "listed"} => skipped = {}
    /\ updating \in {"listed", "applying", "done"} =>
         /\ rows \in [DOMAIN snapshot.rows -> Texts] /\ updates \in Seq(DOMAIN snapshot.rows)
         /\ registry \in [DOMAIN registry -> Texts]
         /\ updating = "done" => updates = <<>>
         /\ ~moved =>
              /\ \A c \in Elems(updates) :
                   c \in DOMAIN registry /\ Newer(registry[c], snapshot.rows[c])
              /\ \A c \in DOMAIN rows : UpToDate(c)

LEMMA VersionInitInv == VersionInit => VersionInv
BY DEF VersionInit, VersionInv

LEMMA JudgeInv == ASSUME VersionInv, Judge PROVE VersionInv'
<1>1. Answered(judged')
  <2>1. CASE \E v \in Texts, r \in Ranges :
               judged' = [version |-> v, range |-> r, answer |-> Satisfies(v, r)]
    BY <2>1, RangeAnswered
  <2>2. CASE \E u, v, w \in Texts :
               judged' = [versions |-> <<u, v, w>>, answer |-> HighestVersion(<<u, v, w>>)]
    BY <2>2, HighestAnswered
  <2> QED BY <2>1, <2>2 DEF Judge
<1>2. updating' = "judged"
  BY DEF Judge
<1>3. Answered(judged)'
  BY <1>1 DEF Answered
<1> QED BY <1>2, <1>3 DEF VersionInv

LEMMA UpdateInv == ASSUME VersionInv, Update PROVE VersionInv'
<1>1. PICK s \in Situations :
        LET stale == {c \in DOMAIN s.rows \cap DOMAIN s.registry :
                        CompareSemVer(s.registry[c], s.rows[c]) > 0} IN
        /\ rows' = s.rows /\ registry' = s.registry /\ snapshot' = s
        /\ updates' \in {q \in [1 .. Cardinality(stale) -> stale] : Elems(q) = stale}
  BY DEF Update
<1> DEFINE stale == {c \in DOMAIN s.rows \cap DOMAIN s.registry :
                       CompareSemVer(s.registry[c], s.rows[c]) > 0}
<1>2. /\ rows' = s.rows /\ registry' = s.registry /\ snapshot' = s
      /\ updates' \in [1 .. Cardinality(stale) -> stale] /\ Elems(updates') = stale
  BY <1>1
<1>3. /\ DOMAIN s.rows \subseteq Ids
      /\ s.rows \in [DOMAIN s.rows -> Texts] /\ s.registry \in [DOMAIN s.registry -> Texts]
  BY VersionsAssumption
<1>4. \A c \in DOMAIN s.rows \cap DOMAIN s.registry :
        c \in stale <=> Newer(s.registry[c], s.rows[c])
  BY <1>3, NewerIsAbove
<1>5. stale \subseteq DOMAIN s.rows /\ stale \subseteq DOMAIN s.registry
  OBVIOUS
<1>6. Cardinality(stale) \in Nat
  BY <1>3, <1>5, IdsAssumption, FS_Subset, FS_CardinalityType
<1> HIDE DEF stale
<1>7. updates' \in Seq(DOMAIN s.rows)
  BY <1>2, <1>5, <1>6
<1>8. updating' = "listed" /\ skipped' = {}
  BY DEF Update, VersionInv
<1>9. ASSUME NEW c \in Elems(updates')
      PROVE  c \in DOMAIN s.registry /\ Newer(s.registry[c], s.rows[c])
  BY <1>2, <1>4, <1>5, <1>9
<1>10. ASSUME NEW c \in DOMAIN s.rows PROVE UpToDate(c)'
  <2>1. c \in DOMAIN s.registry /\ c \notin Elems(updates') => ~Newer(s.registry[c], s.rows[c])
    BY <1>2, <1>4
  <2>2. Elems(updates)' = Elems(updates')
    BY DEF Elems
  <2>3. Newer(registry[c], rows[c])' = Newer(s.registry[c], s.rows[c])
    BY <1>2
  <2> QED BY <1>2, <2>1, <2>2, <2>3 DEF UpToDate
<1>11. Elems(updates)' = Elems(updates')
  BY DEF Elems
<1>12. \A c \in Elems(updates)' : c \in DOMAIN registry' /\ Newer(registry'[c], snapshot'.rows[c])
  BY <1>2, <1>9, <1>11
<1> QED BY <1>2, <1>3, <1>7, <1>8, <1>10, <1>12 DEF VersionInv, Newer

LEMMA DoNotApplyInv == ASSUME VersionInv, DoNotApply PROVE VersionInv'
<1>1. /\ updating = "listed" /\ updating' = "done" /\ updates' = <<>> /\ skipped' = Elems(updates)
      /\ UNCHANGED <<judged, rows, registry, snapshot, moved>>
  BY DEF DoNotApply
<1>2. Elems(updates)' = {}
  BY <1>1 DEF Elems
<1>3. ASSUME ~moved, NEW c \in DOMAIN rows PROVE UpToDate(c)'
  <2>1. UpToDate(c) /\ skipped = {}
    BY <1>1, <1>3 DEF VersionInv
  <2> QED BY <1>1, <1>2, <2>1 DEF UpToDate, Newer
<1> QED BY <1>1, <1>2, <1>3 DEF VersionInv

LEMMA ApplyInv == ASSUME VersionInv, Apply PROVE VersionInv'
<1>1. /\ updating = "listed" /\ updating' = "applying"
      /\ UNCHANGED <<judged, rows, registry, snapshot, updates, skipped, moved>>
  BY DEF Apply
<1>2. \A c : UpToDate(c)' <=> UpToDate(c)
  BY <1>1 DEF UpToDate, Newer, Elems
<1>3. Elems(updates)' = Elems(updates)
  BY <1>1 DEF Elems
<1> QED BY <1>1, <1>2, <1>3 DEF VersionInv, Newer

LEMMA UpdateOneInv == ASSUME VersionInv, UpdateOne PROVE VersionInv'
<1> DEFINE b == Head(updates)
<1>1. /\ updating = "applying" /\ updates # <<>> /\ updates' = Tail(updates)
      /\ UNCHANGED <<updating, judged, registry, snapshot, moved>>
      /\ \/ b \in DOMAIN registry /\ rows' = [rows EXCEPT ![b] = registry[b]] /\ skipped' = skipped
         \/ skipped' = skipped \cup {b} /\ rows' = rows
  BY DEF UpdateOne
<1>2. /\ rows \in [DOMAIN snapshot.rows -> Texts] /\ updates \in Seq(DOMAIN snapshot.rows)
      /\ registry \in [DOMAIN registry -> Texts]
  BY <1>1 DEF VersionInv
<1>3. /\ b \in DOMAIN snapshot.rows /\ updates' \in Seq(DOMAIN snapshot.rows)
      /\ Elems(updates) = {b} \cup Elems(Tail(updates))
  BY <1>1, <1>2, FirstAndRest
<1> HIDE DEF b
<1>4. Elems(updates)' = Elems(Tail(updates))
  BY <1>1 DEF Elems
<1>5. ASSUME ~moved
      PROVE  /\ \A c \in Elems(updates) :
                  c \in DOMAIN registry /\ Newer(registry[c], snapshot.rows[c])
             /\ \A c \in DOMAIN rows : UpToDate(c)
  BY <1>1, <1>5 DEF VersionInv
<1>6. rows' \in [DOMAIN snapshot.rows -> Texts]
  <2>1. b \in DOMAIN registry => registry[b] \in Texts
    BY <1>2
  <2> QED BY <1>1, <1>2, <1>3, <2>1
<1>7. ASSUME ~moved, NEW c \in DOMAIN rows PROVE UpToDate(c)'
  <2>1. CASE c = b /\ rows' = [rows EXCEPT ![b] = registry[b]]
    <3>1. rows'[c] = registry[c] /\ c \in DOMAIN registry /\ Newer(registry[c], snapshot.rows[c])
      BY <1>2, <1>3, <1>5, <1>7, <2>1
    <3> QED BY <1>1, <3>1 DEF UpToDate, Newer
  <2>2. CASE c = b /\ skipped' = skipped \cup {b} /\ rows' = rows
    <3>1. UpToDate(c) /\ c \in skipped'
      BY <1>5, <1>7, <2>2
    <3> QED BY <1>1, <2>2, <3>1 DEF UpToDate, Newer
  <2>3. CASE c # b
    <3>1. UpToDate(c) /\ rows'[c] = rows[c]
      BY <1>1, <1>2, <1>5, <1>7, <2>3
    <3>2. c \notin (skipped \cup Elems(updates))' => c \notin skipped \cup Elems(updates)
      BY <1>1, <1>3, <1>4, <2>3
    <3> QED BY <1>1, <3>1, <3>2 DEF UpToDate, Newer
  <2> QED BY <1>1, <2>1, <2>2, <2>3
<1>8. ASSUME ~moved, NEW c \in Elems(updates)'
      PROVE  c \in DOMAIN registry' /\ Newer(registry[c], snapshot.rows[c])'
  BY <1>1, <1>3, <1>4, <1>5, <1>8 DEF Newer
<1> QED BY <1>1, <1>2, <1>3, <1>5, <1>6, <1>7, <1>8 DEF VersionInv

LEMMA UpdatedInv == ASSUME VersionInv, Updated PROVE VersionInv'
<1>1. /\ updating = "applying" /\ updates = <<>> /\ updating' = "done"
      /\ UNCHANGED <<judged, rows, registry, snapshot, updates, skipped, moved>>
  BY DEF Updated
<1>2. \A c : UpToDate(c)' <=> UpToDate(c)
  BY <1>1 DEF UpToDate, Newer, Elems
<1>3. Elems(updates)' = Elems(updates)
  BY <1>1 DEF Elems
<1> QED BY <1>1, <1>2, <1>3 DEF VersionInv, Newer

LEMMA MovesInv == ASSUME VersionInv, RegistryMoves PROVE VersionInv'
<1>1. /\ updating \in {"listed", "applying"} /\ ~moved /\ moved' = TRUE
      /\ UNCHANGED <<updating, judged, rows, snapshot, updates, skipped>>
  BY DEF RegistryMoves
<1>2. PICK s \in Situations : registry' = s.registry
  BY DEF RegistryMoves
<1>3. registry' \in [DOMAIN registry' -> Texts]
  BY <1>2, VersionsAssumption
<1> QED BY <1>1, <1>3 DEF VersionInv

LEMMA VersionStepInv == VersionInv /\ [VersionNext]_versionVars => VersionInv'
<1> SUFFICES ASSUME VersionInv, [VersionNext]_versionVars PROVE VersionInv'
  OBVIOUS
<1>1. CASE UNCHANGED versionVars
  <2>1. UNCHANGED <<updating, judged, rows, registry, snapshot, updates, skipped, moved>>
    BY <1>1 DEF versionVars
  <2>2. \A c : UpToDate(c)' <=> UpToDate(c)
    BY <2>1 DEF UpToDate, Newer, Elems
  <2>3. Elems(updates)' = Elems(updates) /\ Answered(judged)' = Answered(judged)
    BY <2>1 DEF Elems, Answered
  <2> QED BY <2>1, <2>2, <2>3 DEF VersionInv, Newer
<1> QED BY <1>1, JudgeInv, UpdateInv, DoNotApplyInv, ApplyInv, UpdateOneInv, UpdatedInv, MovesInv
        DEF VersionNext, UpdateStep

(* Comparing orders the versions, whatever their numbers are: a range       *)
(* admits the intervals of its conditions, the highest version is none of   *)
(* the older ones, and update takes rows forward only (version.ts,          *)
(* capabilities.ts).                                                        *)
THEOREM VersionsOrdered == VersionSpec => []VersionsAreOrdered
<1>1. VersionSpec => []VersionInv
  BY VersionInitInv, VersionStepInv, PTL DEF VersionSpec
<1>2. VersionInv => VersionsAreOrdered
  <2> SUFFICES ASSUME VersionInv PROVE VersionsAreOrdered
    OBVIOUS
  <2>1. ASSUME updating \in {"applying", "done"}, ~moved, NEW c \in DOMAIN rows
        PROVE  \/ /\ rows[c] = snapshot.rows[c]
                  /\ updating = "done" /\ c \in DOMAIN registry \ skipped =>
                       ~Newer(registry[c], rows[c])
               \/ /\ c \in DOMAIN registry /\ rows[c] = registry[c]
                  /\ Newer(rows[c], snapshot.rows[c])
    <3>1. UpToDate(c) /\ (updating = "done" => updates = <<>>)
      BY <2>1 DEF VersionInv
    <3>2. Elems(<<>>) = {}
      BY DEF Elems
    <3> QED BY <3>1, <3>2 DEF UpToDate
  <2>2. updating = "judged" => Answered(judged)
    BY DEF VersionInv
  <2> QED BY <2>1, <2>2 DEF VersionsAreOrdered, Answered
<1> QED BY <1>1, <1>2, PTL
-----------------------------------------------------------------------------
(* Sorting.  A sorted set is listed once each, and whoever precedes another *)
(* stands before it: the rank of a member is the number of those that       *)
(* precede it, ranks differ, and so every rank has its member.              *)
Scored(S, f) == S \subseteq Int /\ IsFiniteSet(S) /\ \A c \in S : f[c] \in Int

ListedBy(s, S, f) ==
    /\ s \in Seq(S) /\ Len(s) = Cardinality(S) /\ Elems(s) = S
    /\ \A i, j \in 1 .. Len(s) : s[i] = s[j] => i = j
    /\ \A i, j \in 1 .. Len(s) : Precedes(f, s[i], s[j]) => i < j

LEMMA PrecedesOrders ==
  ASSUME NEW S, NEW f, Scored(S, f), NEW c \in S, NEW d \in S
  PROVE  /\ ~Precedes(f, c, c)
         /\ c # d => Precedes(f, c, d) \/ Precedes(f, d, c)
         /\ \A e \in S : Precedes(f, c, d) /\ Precedes(f, d, e) => Precedes(f, c, e)
<1>1. c \in Int /\ d \in Int /\ \A e \in S : e \in Int /\ f[e] \in Int
  BY DEF Scored
<1> QED BY <1>1 DEF Precedes

LEMMA SortedOnce ==
  ASSUME NEW S, NEW f, Scored(S, f)
  PROVE  ListedBy(RankedBy(S, f), S, f)
<1> DEFINE N == Cardinality(S)
           above(c) == {d \in S : Precedes(f, d, c)}
           rank == [c \in S |-> Cardinality(above(c)) + 1]
           s == RankedBy(S, f)
<1>1. N \in Nat /\ IsFiniteSet(S)
  BY FS_CardinalityType DEF Scored
<1>2. ASSUME NEW c \in S
      PROVE  /\ IsFiniteSet(above(c)) /\ Cardinality(above(c)) \in Nat
             /\ Cardinality(above(c)) < N
  <2>1. above(c) \in SUBSET S /\ c \notin above(c)
    BY PrecedesOrders
  <2>2. IsFiniteSet(above(c)) /\ Cardinality(above(c)) <= N /\ Cardinality(above(c)) # N
    BY <1>1, <2>1, FS_Subset
  <2>3. Cardinality(above(c)) \in Nat
    BY <2>2, FS_CardinalityType
  <2> QED BY <1>1, <2>2, <2>3
<1>3. ASSUME NEW c \in S, NEW d \in S, Precedes(f, c, d) PROVE rank[c] < rank[d]
  <2>1. above(c) \subseteq above(d) /\ c \in above(d) /\ c \notin above(c)
    BY <1>3, PrecedesOrders
  <2>2. /\ Cardinality(above(c)) <= Cardinality(above(d))
        /\ Cardinality(above(c)) # Cardinality(above(d))
    BY <1>2, <2>1, FS_Subset
  <2> HIDE DEF above
  <2> QED BY <1>2, <2>2
<1>4. rank \in [S -> 1 .. N]
  <2> HIDE DEF above
  <2> QED BY <1>1, <1>2
<1> HIDE DEF rank
<1>5. \A c, d \in S : c # d => rank[c] # rank[d]
  <2> TAKE c, d \in S
  <2>1. rank[c] \in Nat /\ rank[d] \in Nat
    BY <1>4
  <2> QED BY <1>3, <2>1, PrecedesOrders
<1>6. rank \in Injection(S, 1 .. N)
  BY <1>4, <1>5 DEF Injection, IsInjective
<1>7. IsFiniteSet(1 .. N) /\ Cardinality(1 .. N) = N
  <2>1. 1 \in Int /\ N \in Int
    BY <1>1
  <2>2. IsFiniteSet(1 .. N) /\ Cardinality(1 .. N) = IF 1 > N THEN 0 ELSE N - 1 + 1
    BY <2>1, FS_Interval
  <2> QED BY <1>1, <2>2
<1>8. rank \in Surjection(S, 1 .. N)
  BY <1>6, <1>7, FS_Injection
<1>9. ASSUME NEW n \in 1 .. N PROVE s[n] \in S /\ rank[s[n]] = n
  <2>1. PICK c \in S : rank[c] = n
    BY <1>8 DEF Surjection
  <2>2. Cardinality(above(c)) = n - 1
    <3>1. rank[c] = Cardinality(above(c)) + 1 /\ Cardinality(above(c)) \in Nat
      BY <1>2 DEF rank
    <3> HIDE DEF above
    <3> QED BY <2>1, <3>1
  <2>3. s[n] = CHOOSE x \in S : Cardinality(above(x)) = n - 1
    BY <1>9 DEF RankedBy
  <2>4. s[n] \in S /\ Cardinality(above(s[n])) = n - 1
    BY <2>2, <2>3
  <2> QED BY <1>9, <2>4 DEF rank
<1>10. DOMAIN s = 1 .. N /\ s \in [1 .. N -> S]
  <2>1. s = [n \in 1 .. N |-> CHOOSE c \in S : Cardinality(above(c)) = n - 1]
    BY DEF RankedBy
  <2> HIDE DEF above, s
  <2>2. DOMAIN s = 1 .. N
    BY <2>1
  <2>3. s = [n \in 1 .. N |-> s[n]]
    BY <2>1
  <2> QED BY <1>9, <2>2, <2>3
<1> HIDE DEF s
<1>11. s \in Seq(S) /\ Len(s) = N
  BY <1>1, <1>10
<1>12. ASSUME NEW c \in S PROVE c \in Elems(s)
  <2>1. rank[c] \in 1 .. N
    BY <1>4
  <2>2. s[rank[c]] = c
    BY <1>5, <1>9, <2>1
  <2> QED BY <1>10, <2>1, <2>2 DEF Elems
<1>13. Elems(s) = S
  BY <1>9, <1>10, <1>12 DEF Elems
<1>14. ASSUME NEW i \in 1 .. N, NEW j \in 1 .. N, Precedes(f, s[i], s[j]) PROVE i < j
  BY <1>3, <1>9, <1>14
<1>15. \A i, j \in 1 .. N : s[i] = s[j] => i = j
  BY <1>9
<1> QED BY <1>11, <1>13, <1>14, <1>15 DEF ListedBy, s, N

(* The first of a list.                                                     *)
LEMMA FirstOf ==
  ASSUME NEW S, NEW q \in Seq(S), NEW n \in Nat
  PROVE  /\ First(q, n) \in Seq(S)
         /\ Len(First(q, n)) = IF Len(q) < n THEN Len(q) ELSE n
         /\ \A i \in 1 .. Len(First(q, n)) : i \in 1 .. Len(q) /\ First(q, n)[i] = q[i]
<1> DEFINE m == IF Len(q) < n THEN Len(q) ELSE n
<1>1. m \in 0 .. Len(q) /\ Len(q) \in Nat
  OBVIOUS
<1> HIDE DEF m
<1>2. /\ SubSeq(q, 1, m) \in Seq(S) /\ Len(SubSeq(q, 1, m)) = m
      /\ \A i \in 1 .. m : SubSeq(q, 1, m)[i] = q[i]
  BY <1>1
<1> QED BY <1>1, <1>2 DEF First, m

(* A list of capabilities, once each.                                       *)
Listing(s) == s \in Seq(Ids) /\ \A i, j \in DOMAIN s : s[i] = s[j] => i = j

LEMMA FirstListed ==
  ASSUME NEW S \in SUBSET Ids, NEW f, Scored(S, f), NEW n \in Nat
  PROVE  Listing(First(RankedBy(S, f), n))
<1> DEFINE q == RankedBy(S, f)
<1>1. /\ q \in Seq(S) /\ q \in Seq(Ids)
      /\ \A i, j \in 1 .. Len(q) : q[i] = q[j] => i = j
  BY SortedOnce DEF ListedBy
<1> HIDE DEF q
<1>2. /\ First(q, n) \in Seq(Ids) /\ DOMAIN First(q, n) = 1 .. Len(First(q, n))
      /\ \A i \in 1 .. Len(First(q, n)) : i \in 1 .. Len(q) /\ First(q, n)[i] = q[i]
  BY <1>1, FirstOf
<1>3. Listing(First(q, n))
  BY <1>1, <1>2 DEF Listing
<1> QED BY <1>3 DEF q

(* A similarity is a number.                                                *)
LEMMA SimilarityTyped ==
  ASSUME query \in Queries
  PROVE  Similarity \in [Ids -> Int]
<1> DEFINE rs == query.rows
           N == Len(rs)
           step(t, n) == [c \in Ids |-> IF c = rs[n].capability /\ rs[n].cosine > 0
                                        THEN t[c] + rs[n].cosine ELSE t[c]]
           F == [t \in [Ids -> Int] \X (1 .. N) |-> step(t[1], t[2])]
           zero == [c \in Ids |-> 0]
<1>1. N \in Nat /\ \A n \in 1 .. N : rs[n].cosine \in Int
  <2> DEFINE R == [capability : Ids, section : Nat, cosine : Int]
  <2>1. rs \in Seq(R)
    BY RetrievalAssumption
  <2>2. \A r \in R : r.cosine \in Int
    OBVIOUS
  <2> HIDE DEF rs, R
  <2>3. N \in Nat /\ \A n \in 1 .. N : rs[n] \in R
    BY <2>1
  <2> QED BY <2>2, <2>3
<1>2. \A t \in [Ids -> Int], n \in 1 .. N : step(t, n) \in [Ids -> Int]
  BY <1>1
<1>3. F \in StepFunctions(N, [Ids -> Int]) /\ zero \in [Ids -> Int]
  <2> HIDE DEF N, step
  <2> QED BY <1>2 DEF StepFunctions
<1>4. \A t \in [Ids -> Int], n \in 1 .. N : F[<<t, n>>] = step(t, n)
  <2> HIDE DEF N, step
  <2> QED OBVIOUS
<1> HIDE DEF F, zero
<1>5. PICK g \in Recursive(N, [Ids -> Int], zero, F) : TRUE
  <2> HIDE DEF N
  <2> QED BY <1>1, <1>3, RecursiveExists
<1>6. /\ g \in [0 .. N -> [Ids -> Int]] /\ g[0] = zero
      /\ \A n \in 1 .. N : g[n] = step(g[n - 1], n)
  <2>1. /\ g \in [0 .. N -> [Ids -> Int]] /\ g[0] = zero
        /\ \A n \in 1 .. N : g[n] = F[<<g[n - 1], n>>]
    BY <1>5 DEF Recursive
  <2>2. \A n \in 1 .. N : n - 1 \in 0 .. N
    BY <1>1
  <2> HIDE DEF N, step
  <2> QED BY <1>4, <2>1, <2>2
<1> DEFINE Sums(h) == h = [n \in 0 .. N |->
             IF n = 0 THEN [c \in Ids |-> 0] ELSE step(h[n - 1], n)]
<1>7. Sums(g)
  <2>1. \A n \in 0 .. N : g[n] = IF n = 0 THEN [c \in Ids |-> 0] ELSE step(g[n - 1], n)
    <3> HIDE DEF step, N
    <3> QED BY <1>1, <1>6 DEF zero
  <2> HIDE DEF step, N
  <2> QED BY <1>6, <2>1
<1>8. Similarity = (CHOOSE h : Sums(h))[N]
  BY DEF Similarity
<1> DEFINE h == CHOOSE x : Sums(x)
<1>9. Sums(h)
  BY <1>7
<1> HIDE DEF h
<1>10. \A n \in 0 .. N : h[n] = IF n = 0 THEN [c \in Ids |-> 0] ELSE step(h[n - 1], n)
  <2> HIDE DEF step, N
  <2> QED BY <1>9
<1> HIDE DEF Sums
<1>11. \A n \in 0 .. N : h[n] \in [Ids -> Int]
  <2>1. h[0] \in [Ids -> Int]
    <3>1. 0 \in 0 .. N
      BY <1>1
    <3> HIDE DEF step, N
    <3> QED BY <1>10, <3>1
  <2>2. \A n \in 1 .. N : h[n - 1] \in [Ids -> Int] => h[n] \in [Ids -> Int]
    <3> TAKE n \in 1 .. N
    <3>1. n \in 0 .. N /\ n # 0
      BY <1>1
    <3> HIDE DEF step, N
    <3> QED BY <1>2, <1>10, <3>1
  <2> HIDE DEF step, N
  <2> QED BY <1>1, <2>1, <2>2, RecursiveTyped
<1>12. N \in 0 .. N
  BY <1>1
<1> QED BY <1>8, <1>11, <1>12 DEF h

(* A share is smaller the lower the rank, and positive.                     *)
LEMMA SharesFall ==
  ASSUME NEW i \in 1 .. Cardinality(Ids), NEW j \in 1 .. Cardinality(Ids)
  PROVE  /\ Scale \div (60 + i) \in Nat /\ Scale \div (60 + i) > 0
         /\ i < j => Scale \div (60 + i) > Scale \div (60 + j)
<1> DEFINE x == Scale \div (60 + i)
           y == Scale \div (60 + j)
<1>1. /\ i \in Nat /\ j \in Nat /\ Scale \in Nat /\ Scale > 0
      /\ x * (60 + i) = Scale /\ y * (60 + j) = Scale
  BY IdsAssumption, FS_CardinalityType, RetrievalAssumption
<1>2. x \in Int /\ y \in Int
  BY <1>1
<1> HIDE DEF x, y
<1>3. \A a \in Int, b \in Nat : a * b > 0 => a > 0
  <2>1. ASSUME NEW a \in Int, NEW b \in Nat, a <= 0 PROVE a * b <= 0
    <3>1. -a \in Nat
      BY <2>1
    <3>2. (-a) * b >= 0 /\ (-a) * b = -(a * b) /\ a * b \in Int
      BY <3>1
    <3> QED BY <3>2
  <2> TAKE a \in Int, b \in Nat
  <2>2. a * b \in Int
    OBVIOUS
  <2> QED BY <2>1, <2>2
<1>4. x > 0 /\ y > 0
  <2>1. 60 + i \in Nat /\ 60 + j \in Nat
    BY <1>1
  <2> QED BY <1>1, <1>2, <1>3, <2>1
<1>5. ASSUME i < j, x <= y PROVE FALSE
  <2>1. y - x \in Nat /\ y \in Nat /\ 60 + i \in Nat /\ j - i \in Nat /\ j - i > 0
    BY <1>1, <1>2, <1>4, <1>5
  <2>2. (y - x) * (60 + i) >= 0 /\ y * (j - i) > 0
    BY <1>4, <2>1
  <2>3. (y - x) * (60 + i) = y * (60 + i) - x * (60 + i)
    BY <1>1, <1>2
  <2>4. y * (60 + j) = y * (60 + i) + y * (j - i)
    BY <1>1, <1>2
  <2>5. /\ y * (60 + i) \in Int /\ x * (60 + i) \in Int /\ y * (j - i) \in Int
    BY <1>1, <1>2
  <2> QED BY <1>1, <2>2, <2>3, <2>4, <2>5
<1> QED BY <1>2, <1>4, <1>5 DEF x, y

LEMMA ListingFits ==
  ASSUME NEW s, Listing(s)
  PROVE  /\ DOMAIN s = 1 .. Len(s) /\ Len(s) \in Nat /\ Len(s) <= Cardinality(Ids)
         /\ \A i \in 1 .. Len(s) : s[i] \in Ids
<1>1. /\ DOMAIN s = 1 .. Len(s) /\ Len(s) \in Nat /\ s \in [1 .. Len(s) -> Ids]
      /\ \A i \in 1 .. Len(s) : s[i] \in Ids
  BY DEF Listing
<1>2. s \in Injection(1 .. Len(s), Ids)
  BY <1>1 DEF Listing, Injection, IsInjective
<1>3. Cardinality(1 .. Len(s)) = Len(s)
  <2>1. 1 \in Int /\ Len(s) \in Int
    BY <1>1
  <2>2. Cardinality(1 .. Len(s)) = IF 1 > Len(s) THEN 0 ELSE Len(s) - 1 + 1
    BY <2>1, FS_Interval
  <2> QED BY <1>1, <2>2
<1> QED BY <1>1, <1>2, <1>3, IdsAssumption, FS_Injection

(* The share of what a list has, and of what it has not.                    *)
LEMMA ShareOf ==
  ASSUME NEW s \in Sources, Listing(ranked[s])
  PROVE  /\ \A i \in 1 .. Len(ranked[s]) : Share(s, ranked[s][i]) = Scale \div (60 + i)
         /\ \A c : c \notin Elems(ranked[s]) => Share(s, c) = 0
<1> DEFINE q == ranked[s]
<1>1. DOMAIN q = 1 .. Len(q) /\ Len(q) \in Nat
  BY ListingFits
<1>2. ASSUME NEW i \in 1 .. Len(q) PROVE Share(s, q[i]) = Scale \div (60 + i)
  <2>1. {k \in DOMAIN q : q[k] = q[i]} = {i}
    BY <1>1 DEF Listing
  <2>2. Least({i}) = i
    BY <1>1 DEF Least
  <2> QED BY <2>1, <2>2 DEF Share
<1>3. ASSUME NEW c, c \notin Elems(q) PROVE Share(s, c) = 0
  <2>1. {k \in DOMAIN q : q[k] = c} = {}
    BY <1>3 DEF Elems
  <2> QED BY <2>1 DEF Share
<1> QED BY <1>2, <1>3

LEMMA ShareTyped ==
  ASSUME NEW s \in Sources, Listing(ranked[s]), NEW c
  PROVE  Share(s, c) \in Nat /\ (c \in Elems(ranked[s]) => Share(s, c) > 0)
<1>1. CASE c \in Elems(ranked[s])
  <2>1. PICK i \in 1 .. Len(ranked[s]) : ranked[s][i] = c
    BY <1>1, ListingFits DEF Elems
  <2>2. Cardinality(Ids) \in Nat
    BY IdsAssumption, FS_CardinalityType
  <2>3. i \in 1 .. Cardinality(Ids)
    BY <2>2, ListingFits
  <2> QED BY <2>1, <2>3, ShareOf, SharesFall
<1>2. CASE c \notin Elems(ranked[s])
  BY <1>2, ShareOf
<1> QED BY <1>1, <1>2

(* What outranks another has more shares than it.                           *)
LEMMA OutrankingIsMore ==
  ASSUME \A s \in Sources : Listing(ranked[s]), NEW a \in Ids, NEW b \in Ids, Outranks(a, b)
  PROVE  Fused[a] > Fused[b]
<1>1. ASSUME NEW s \in Sources
      PROVE  /\ Share(s, a) \in Nat /\ Share(s, b) \in Nat /\ Share(s, a) >= Share(s, b)
             /\ b \in Elems(ranked[s]) => Share(s, a) > Share(s, b)
  <2>1. Share(s, a) \in Nat /\ Share(s, b) \in Nat
    BY ShareTyped
  <2>2. CASE b \notin Elems(ranked[s])
    BY <2>1, <2>2, ShareOf
  <2>3. CASE b \in Elems(ranked[s])
    <3>1. /\ DOMAIN ranked[s] = 1 .. Len(ranked[s]) /\ Len(ranked[s]) \in Nat
          /\ Len(ranked[s]) <= Cardinality(Ids) /\ Cardinality(Ids) \in Nat
      BY ListingFits, IdsAssumption, FS_CardinalityType
    <3>2. PICK i \in 1 .. Len(ranked[s]) : ranked[s][i] = b
      BY <2>3, <3>1 DEF Elems
    <3>3. PICK j \in 1 .. i - 1 : ranked[s][j] = a
      BY <3>1, <3>2 DEF Outranks
    <3>4. /\ i \in 1 .. Cardinality(Ids) /\ j \in 1 .. Cardinality(Ids) /\ j < i
          /\ j \in 1 .. Len(ranked[s])
      BY <3>1
    <3>5. Share(s, a) = Scale \div (60 + j) /\ Share(s, b) = Scale \div (60 + i)
      BY <3>2, <3>3, <3>4, ShareOf
    <3> QED BY <2>1, <3>4, <3>5, SharesFall
  <2> QED BY <2>2, <2>3
<1>2. PICK s \in Sources : b \in Elems(ranked[s])
  BY DEF Outranks
<1>3. /\ Fused[a] = Share("sparse", a) + Share("dense", a)
      /\ Fused[b] = Share("sparse", b) + Share("dense", b)
  BY DEF Fused
<1>4. "sparse" \in Sources /\ "dense" \in Sources /\ s \in {"sparse", "dense"}
  BY DEF Sources
<1> QED BY <1>1, <1>2, <1>3, <1>4

(* A retrieve.  Before the reranker, what all lists agree on is the order;  *)
(* the reranker changes it where its scores differ.                         *)
Found == Elems(ranked["sparse"]) \cup Elems(ranked["dense"])

Merged ==
    /\ Listing(hits) /\ Elems(hits) \subseteq Found
    /\ Len(hits) = IF Cardinality(Found) < query.topK THEN Cardinality(Found) ELSE query.topK

Agreed ==
    \A a, b \in Found, j \in 1 .. Len(hits) :
      Outranks(a, b) /\ hits[j] = b => \E i \in 1 .. j - 1 : hits[i] = a

Reordered ==
    /\ \A a, b \in Found, j \in 1 .. Len(hits) :
         Outranks(a, b) /\ hits[j] = b =>
           \E i \in 1 .. Len(hits) :
             hits[i] = a /\ (i < j \/ (reranked /\ query.lexical[a] < query.lexical[b]))
    /\ reranked => \A i, j \in 1 .. Len(hits) :
         query.lexical[hits[i]] > query.lexical[hits[j]] => i < j

RetrievalInv ==
    /\ retrieving \in {"idle", "sparse", "dense", "fuse", "rerank", "answered", "thrown"}
    /\ retrieving # "idle" => query \in Queries
    /\ ranked \in [Sources -> Seq(Ids)] /\ \A s \in Sources : Listing(ranked[s])
    /\ retrieving # "answered" => reranked = FALSE
    /\ retrieving = "rerank" => Merged /\ Agreed
    /\ (retrieving = "answered" /\ query.records # {}) => Merged /\ Reordered

LEMMA RetrievalInitInv == RetrievalInit => RetrievalInv
<1> SUFFICES ASSUME RetrievalInit PROVE RetrievalInv
  OBVIOUS
<1>1. ranked = [s \in Sources |-> <<>>] /\ retrieving = "idle" /\ reranked = FALSE
  BY DEF RetrievalInit
<1>2. Listing(<<>>)
  BY DEF Listing
<1> QED BY <1>1, <1>2 DEF RetrievalInv, Listing

LEMMA RetrieveInv == ASSUME RetrievalInv, Retrieve PROVE RetrievalInv'
<1>1. PICK q \in Queries : query' = q /\ retrieving' = IF q.records = {} THEN "answered" ELSE "sparse"
  BY DEF Retrieve
<1>2. ranked' = ranked /\ reranked' = reranked /\ retrieving = "idle"
  BY DEF Retrieve
<1> QED BY <1>1, <1>2 DEF RetrievalInv, Listing

(* A list that a search gives.                                              *)
LEMMA Searched ==
  ASSUME RetrievalInv, NEW s \in Sources, NEW q, Listing(q), ranked' = [ranked EXCEPT ![s] = q]
  PROVE  ranked' \in [Sources -> Seq(Ids)] /\ \A t \in Sources : Listing(ranked'[t])
<1>1. ranked \in [Sources -> Seq(Ids)] /\ \A t \in Sources : Listing(ranked[t])
  BY DEF RetrievalInv
<1>2. q \in Seq(Ids)
  BY DEF Listing
<1>3. \A t \in Sources : ranked'[t] = IF t = s THEN q ELSE ranked[t]
  BY <1>1
<1> QED BY <1>1, <1>2, <1>3

LEMMA SearchSparseInv == ASSUME RetrievalInv, SearchSparse PROVE RetrievalInv'
<1>1. /\ retrieving = "sparse" /\ retrieving' = "dense" /\ query' = query /\ query \in Queries
      /\ reranked' = reranked
  BY DEF SearchSparse, RetrievalInv
<1> DEFINE matched == {c \in query.records : query.bm25[c] > 0}
           found == First(RankedBy(matched, query.bm25), Pool)
<1>2. /\ query.records \subseteq Ids /\ query.bm25 \in [Ids -> Nat] /\ query.topK \in Nat
  BY <1>1, RetrievalAssumption
<1>3. matched \in SUBSET Ids /\ Scored(matched, query.bm25) /\ Pool \in Nat
  <2>1. matched \in SUBSET Ids /\ IsFiniteSet(matched) /\ Ids \subseteq Int
    BY <1>2, IdsAssumption, FS_Subset
  <2>2. \A c \in matched : query.bm25[c] \in Int
    BY <1>2
  <2>3. Pool \in Nat
    BY <1>2 DEF Pool
  <2> HIDE DEF matched
  <2> QED BY <2>1, <2>2, <2>3 DEF Scored
<1>4. ranked' = ranked \/ ranked' = [ranked EXCEPT !["sparse"] = found]
  BY DEF SearchSparse
<1> HIDE DEF matched
<1>5. Listing(found)
  BY <1>3, FirstListed
<1> HIDE DEF found
<1>6. ranked' \in [Sources -> Seq(Ids)] /\ \A t \in Sources : Listing(ranked'[t])
  <2>1. "sparse" \in Sources
    BY DEF Sources
  <2> QED BY <1>4, <1>5, <2>1, Searched DEF RetrievalInv
<1> QED BY <1>1, <1>6 DEF RetrievalInv, Listing

LEMMA SearchDenseInv == ASSUME RetrievalInv, SearchDense PROVE RetrievalInv'
<1>1. /\ retrieving = "dense" /\ retrieving' \in {"fuse", "thrown"} /\ query' = query
      /\ query \in Queries /\ reranked' = reranked
  BY DEF SearchDense, RetrievalInv
<1> DEFINE similar == {c \in Ids : Similarity[c] > 0}
           found == First(RankedBy(similar, Similarity), Pool)
<1>2. query.topK \in Nat /\ Similarity \in [Ids -> Int]
  BY <1>1, RetrievalAssumption, SimilarityTyped
<1>3. similar \in SUBSET Ids /\ Scored(similar, Similarity) /\ Pool \in Nat
  <2>1. similar \in SUBSET Ids /\ IsFiniteSet(similar) /\ Ids \subseteq Int
    BY IdsAssumption, FS_Subset
  <2>2. \A c \in similar : Similarity[c] \in Int
    BY <1>2
  <2>3. Pool \in Nat
    BY <1>2 DEF Pool
  <2> HIDE DEF similar
  <2> QED BY <2>1, <2>2, <2>3 DEF Scored
<1>4. ranked' = ranked \/ ranked' = [ranked EXCEPT !["dense"] = found]
  BY DEF SearchDense
<1> HIDE DEF similar
<1>5. Listing(found)
  BY <1>3, FirstListed
<1> HIDE DEF found
<1>6. ranked' \in [Sources -> Seq(Ids)] /\ \A t \in Sources : Listing(ranked'[t])
  <2>1. "dense" \in Sources
    BY DEF Sources
  <2> QED BY <1>4, <1>5, <2>1, Searched DEF RetrievalInv
<1> QED BY <1>1, <1>6 DEF RetrievalInv, Listing

LEMMA FoundTyped ==
  ASSUME RetrievalInv
  PROVE  Found \in SUBSET Ids /\ IsFiniteSet(Found) /\ Cardinality(Found) \in Nat
<1>1. Elems(ranked["sparse"]) \subseteq Ids /\ Elems(ranked["dense"]) \subseteq Ids
  <2>1. ASSUME NEW s \in Sources PROVE Elems(ranked[s]) \subseteq Ids
    BY ListingFits DEF RetrievalInv, Elems
  <2> QED BY <2>1 DEF Sources
<1> QED BY <1>1, IdsAssumption, FS_Subset, FS_CardinalityType DEF Found

LEMMA FuseInv == ASSUME RetrievalInv, Fuse PROVE RetrievalInv'
<1>1. /\ retrieving = "fuse" /\ retrieving' = "rerank" /\ query' = query /\ query \in Queries
      /\ ranked' = ranked /\ reranked' = reranked
      /\ hits' = First(RankedBy(Found, Fused), query.topK)
  BY DEF Fuse, RetrievalInv, Found
<1> DEFINE q == RankedBy(Found, Fused)
           N == Cardinality(Found)
<1>2. query.topK \in Nat
  BY <1>1, RetrievalAssumption
<1>3. Found \in SUBSET Ids /\ Scored(Found, Fused) /\ N \in Nat
  <2>1. ASSUME NEW c \in Ids PROVE Fused[c] \in Int
    <3>1. Share("sparse", c) \in Nat /\ Share("dense", c) \in Nat
      BY ShareTyped DEF RetrievalInv, Sources
    <3> QED BY <3>1 DEF Fused
  <2>2. Found \in SUBSET Ids /\ IsFiniteSet(Found) /\ N \in Nat /\ Ids \subseteq Int
    BY FoundTyped, IdsAssumption
  <2> HIDE DEF N
  <2> QED BY <2>1, <2>2 DEF Scored
<1>4. Listing(hits')
  BY <1>1, <1>2, <1>3, FirstListed
<1>5. /\ q \in Seq(Found) /\ Len(q) = N /\ Elems(q) = Found
      /\ \A i, j \in 1 .. N : Precedes(Fused, q[i], q[j]) => i < j
      /\ DOMAIN q = 1 .. N
  BY <1>3, SortedOnce DEF ListedBy
<1> HIDE DEF q, N
<1>6. /\ hits' \in Seq(Found) /\ Len(hits') = IF N < query.topK THEN N ELSE query.topK
      /\ \A i \in 1 .. Len(hits') : i \in 1 .. N /\ hits'[i] = q[i]
  BY <1>1, <1>2, <1>5, FirstOf DEF q
<1>7. Found' = Found /\ \A a, b : Outranks(a, b)' <=> Outranks(a, b)
  BY <1>1 DEF Found, Outranks, Elems
<1>8. Elems(hits)' \subseteq Found
  BY <1>6 DEF Elems
<1>9. Merged'
  BY <1>1, <1>4, <1>6, <1>7, <1>8 DEF Merged, N, Listing
<1>10. ASSUME NEW a \in Found, NEW b \in Found, NEW j \in 1 .. Len(hits'),
              Outranks(a, b), hits'[j] = b
       PROVE  \E i \in 1 .. j - 1 : hits'[i] = a
  <2>1. Fused[a] > Fused[b]
    BY <1>3, <1>10, OutrankingIsMore DEF RetrievalInv
  <2>2. PICK i \in 1 .. N : q[i] = a
    BY <1>5 DEF Elems
  <2>3. j \in 1 .. N /\ q[j] = b
    BY <1>6, <1>10
  <2>4. i < j
    BY <1>5, <2>1, <2>2, <2>3 DEF Precedes
  <2>5. i \in 1 .. Len(hits') /\ i \in 1 .. j - 1
    BY <1>3, <1>6, <2>4 DEF N
  <2> QED BY <1>6, <2>2, <2>5
<1>11. Agreed'
  BY <1>7, <1>10 DEF Agreed
<1> QED BY <1>1, <1>9, <1>11 DEF RetrievalInv, Listing

LEMMA RerankInv == ASSUME RetrievalInv, Rerank PROVE RetrievalInv'
<1>1. /\ retrieving = "rerank" /\ retrieving' = "answered" /\ query' = query /\ query \in Queries
      /\ ranked' = ranked /\ reranked = FALSE /\ Merged /\ Agreed
  BY DEF Rerank, RetrievalInv
<1>2. Found' = Found /\ \A a, b : Outranks(a, b)' <=> Outranks(a, b)
  BY <1>1 DEF Found, Outranks, Elems
<1> DEFINE N == Len(hits)
<1>3. DOMAIN hits = 1 .. N /\ N \in Nat /\ \A i \in 1 .. N : hits[i] \in Ids
  BY <1>1, ListingFits DEF Merged
<1>4. CASE hits' = hits /\ reranked' = reranked
  <2>1. Merged'
    BY <1>1, <1>2, <1>4 DEF Merged, Listing, Elems
  <2>2. Reordered'
    <3>1. ASSUME NEW a \in Found, NEW b \in Found, NEW j \in 1 .. N, Outranks(a, b), hits[j] = b
          PROVE  \E i \in 1 .. N : hits[i] = a /\ i < j
      <4>1. PICK i \in 1 .. j - 1 : hits[i] = a
        BY <1>1, <3>1 DEF Agreed
      <4>2. i \in 1 .. N /\ i < j
        BY <1>3
      <4> QED BY <4>1, <4>2
    <3> QED BY <1>1, <1>2, <1>4, <3>1 DEF Reordered
  <2> QED BY <1>1, <1>4, <2>1, <2>2 DEF RetrievalInv, Listing
<1>5. CASE /\ reranked' = TRUE
           /\ hits' = LET lexical == [i \in DOMAIN hits |-> query.lexical[hits[i]]]
                          turn == RankedBy(DOMAIN hits, lexical)
                      IN  [n \in DOMAIN hits |-> hits[turn[n]]]
  <2> DEFINE lexical == [i \in 1 .. N |-> query.lexical[hits[i]]]
             turn == RankedBy(1 .. N, lexical)
  <2>1. hits' = [n \in 1 .. N |-> hits[turn[n]]]
    BY <1>3, <1>5
  <2>2. query.lexical \in [Ids -> Nat]
    BY <1>1, RetrievalAssumption
  <2>3. Scored(1 .. N, lexical) /\ Cardinality(1 .. N) = N
    <3>1. 1 \in Int /\ N \in Int
      BY <1>3
    <3>2. IsFiniteSet(1 .. N) /\ Cardinality(1 .. N) = IF 1 > N THEN 0 ELSE N - 1 + 1
      BY <3>1, FS_Interval
    <3> QED BY <1>3, <2>2, <3>2 DEF Scored
  <2>a. ListedBy(turn, 1 .. N, lexical)
    BY <2>3, SortedOnce
  <2> HIDE DEF turn
  <2>4. /\ turn \in Seq(1 .. N) /\ Len(turn) = N /\ Elems(turn) = 1 .. N
        /\ \A i, j \in 1 .. N : turn[i] = turn[j] => i = j
        /\ \A i, j \in 1 .. N : Precedes(lexical, turn[i], turn[j]) => i < j
        /\ DOMAIN turn = 1 .. N
    <3> HIDE DEF lexical, N
    <3> QED BY <1>3, <2>3, <2>a DEF ListedBy
  <2>5. /\ \A n \in 1 .. N : turn[n] \in 1 .. N
        /\ \A k \in 1 .. N : \E n \in 1 .. N : turn[n] = k
    BY <2>4 DEF Elems
  <2>6. /\ hits' \in Seq(Ids) /\ Len(hits') = N /\ DOMAIN hits' = 1 .. N
        /\ \A n \in 1 .. N : hits'[n] = hits[turn[n]]
    BY <1>3, <2>1, <2>5
  <2>7. \A i, j \in 1 .. N : hits'[i] = hits'[j] => i = j
    <3>1. \A k, m \in 1 .. N : hits[k] = hits[m] => k = m
      BY <1>1, <1>3 DEF Merged, Listing
    <3> TAKE i, j \in 1 .. N
    <3>2. turn[i] \in 1 .. N /\ turn[j] \in 1 .. N
      BY <2>5
    <3> QED BY <2>4, <2>6, <3>1, <3>2
  <2>8. Elems(hits)' \subseteq Elems(hits)
    BY <1>3, <2>5, <2>6 DEF Elems
  <2>9. Merged'
    BY <1>1, <1>2, <2>6, <2>7, <2>8 DEF Merged, Listing
  <2>10. ASSUME NEW a \in Found, NEW b \in Found, NEW j \in 1 .. N, Outranks(a, b), hits'[j] = b
         PROVE  \E i \in 1 .. N :
                  hits'[i] = a /\ (i < j \/ query.lexical[a] < query.lexical[b])
    <3>1. turn[j] \in 1 .. N /\ hits[turn[j]] = b
      BY <2>5, <2>6, <2>10
    <3>2. PICK k \in 1 .. turn[j] - 1 : hits[k] = a
      BY <1>1, <2>10, <3>1 DEF Agreed
    <3>3. k \in 1 .. N /\ k < turn[j]
      BY <1>3, <3>1
    <3>4. PICK i \in 1 .. N : turn[i] = k
      BY <2>5, <3>3
    <3>5. hits'[i] = a
      BY <2>6, <3>2, <3>4
    <3>6. lexical[turn[i]] = query.lexical[a] /\ lexical[turn[j]] = query.lexical[b]
      BY <3>1, <3>2, <3>3, <3>4
    <3>7. query.lexical[a] \in Nat /\ query.lexical[b] \in Nat
      BY <2>2, FoundTyped
    <3> HIDE DEF lexical
    <3>8. CASE query.lexical[a] >= query.lexical[b]
      <4>1. Precedes(lexical, turn[i], turn[j])
        BY <3>3, <3>4, <3>6, <3>7, <3>8 DEF Precedes
      <4> QED BY <2>4, <3>5, <4>1
    <3> QED BY <3>5, <3>7, <3>8
  <2>11. ASSUME NEW i \in 1 .. N, NEW j \in 1 .. N,
                query.lexical[hits'[i]] > query.lexical[hits'[j]]
         PROVE  i < j
    <3>1. lexical[turn[i]] > lexical[turn[j]]
      BY <2>5, <2>6, <2>11
    <3> HIDE DEF lexical
    <3> QED BY <2>4, <3>1 DEF Precedes
  <2>12. Reordered'
    <3>1. /\ \A a, b \in Found', j \in 1 .. Len(hits') :
               Outranks(a, b)' /\ hits'[j] = b =>
                 \E i \in 1 .. Len(hits') :
                   hits'[i] = a /\ (i < j \/ (reranked' /\ query'.lexical[a] < query'.lexical[b]))
          /\ \A i, j \in 1 .. Len(hits') :
               query'.lexical[hits'[i]] > query'.lexical[hits'[j]] => i < j
      <4> HIDE DEF N, lexical
      <4>1. reranked' = TRUE /\ Len(hits') = N
        BY <1>5, <2>6
      <4> QED BY <1>1, <1>2, <2>10, <2>11, <4>1
    <3> QED BY <3>1 DEF Reordered
  <2> QED BY <1>1, <2>9, <2>12 DEF RetrievalInv, Listing
<1> QED BY <1>4, <1>5 DEF Rerank

LEMMA RetrievalStepInv == RetrievalInv /\ [RetrievalNext]_retrievalVars => RetrievalInv'
<1> SUFFICES ASSUME RetrievalInv, [RetrievalNext]_retrievalVars PROVE RetrievalInv'
  OBVIOUS
<1>1. CASE UNCHANGED retrievalVars
  <2>1. UNCHANGED <<retrieving, query, ranked, hits, reranked>>
    BY <1>1 DEF retrievalVars
  <2>2. (Merged' <=> Merged) /\ (Agreed' <=> Agreed) /\ (Reordered' <=> Reordered)
    BY <2>1 DEF Merged, Agreed, Reordered, Found, Outranks, Elems, Listing
  <2> QED BY <2>1, <2>2 DEF RetrievalInv, Listing
<1> QED BY <1>1, RetrieveInv, SearchSparseInv, SearchDenseInv, FuseInv, RerankInv
        DEF RetrievalNext, RetrievalStep

(* An answer has as many hits as were asked for or all that were found,     *)
(* once each, leaves out none that the lists agree is better than one of    *)
(* them, and has them in that order but for the reranker's (retrieval,      *)
(* rerank).                                                                 *)
THEOREM FusionRespects == RetrievalSpec => []FusionRespectsTheLists
<1>1. RetrievalSpec => []RetrievalInv
  BY RetrievalInitInv, RetrievalStepInv, PTL DEF RetrievalSpec
<1>2. RetrievalInv => FusionRespectsTheLists
  <2> SUFFICES ASSUME RetrievalInv, retrieving = "answered", query.records # {}
               PROVE  /\ Elems(hits) \subseteq Found
                      /\ Cardinality(Elems(hits)) = Len(hits)
                      /\ Len(hits) = IF Cardinality(Found) < query.topK
                                     THEN Cardinality(Found) ELSE query.topK
                      /\ \A a, b \in Found : (Outranks(a, b) /\ b \in Elems(hits)) =>
                           /\ a \in Elems(hits)
                           /\ \/ PlaceOf(a) < PlaceOf(b)
                              \/ reranked /\ query.lexical[a] < query.lexical[b]
                      /\ reranked => \A i, j \in DOMAIN hits :
                           query.lexical[hits[i]] > query.lexical[hits[j]] => i < j
    BY DEF FusionRespectsTheLists, Found
  <2>1. Merged /\ Reordered
    BY DEF RetrievalInv
  <2>2. /\ DOMAIN hits = 1 .. Len(hits) /\ Len(hits) \in Nat
        /\ \A i, j \in 1 .. Len(hits) : hits[i] = hits[j] => i = j
    BY <2>1, ListingFits DEF Merged, Listing
  <2>3. Cardinality(Elems(hits)) = Len(hits)
    <3>1. hits \in Bijection(1 .. Len(hits), Elems(hits))
      <4>1. hits \in [1 .. Len(hits) -> Elems(hits)]
        BY <2>1, <2>2 DEF Merged, Listing, Elems
      <4> QED BY <2>2, <4>1 DEF Bijection, Injection, Surjection, IsInjective, Elems
    <3>2. IsFiniteSet(1 .. Len(hits)) /\ Cardinality(1 .. Len(hits)) = Len(hits)
      <4>1. 1 \in Int /\ Len(hits) \in Int
        BY <2>2
      <4>2. /\ IsFiniteSet(1 .. Len(hits))
            /\ Cardinality(1 .. Len(hits)) = IF 1 > Len(hits) THEN 0 ELSE Len(hits) - 1 + 1
        BY <4>1, FS_Interval
      <4> QED BY <2>2, <4>2
    <3> QED BY <3>1, <3>2, FS_Bijection DEF ExistsBijection
  <2>4. \A i \in 1 .. Len(hits) : PlaceOf(hits[i]) = i
    BY <2>2 DEF PlaceOf
  <2>5. ASSUME NEW a \in Found, NEW b \in Found, Outranks(a, b), b \in Elems(hits)
        PROVE  /\ a \in Elems(hits)
               /\ \/ PlaceOf(a) < PlaceOf(b)
                  \/ reranked /\ query.lexical[a] < query.lexical[b]
    <3>1. PICK j \in 1 .. Len(hits) : hits[j] = b
      BY <2>2, <2>5 DEF Elems
    <3>2. PICK i \in 1 .. Len(hits) :
            hits[i] = a /\ (i < j \/ (reranked /\ query.lexical[a] < query.lexical[b]))
      BY <2>1, <2>5, <3>1 DEF Reordered
    <3> QED BY <2>2, <2>4, <3>1, <3>2 DEF Elems
  <2> QED BY <2>1, <2>2, <2>3, <2>5 DEF Merged, Reordered
<1> QED BY <1>1, <1>2, PTL

-----------------------------------------------------------------------------
(* What Picked picks, token by token.                                       *)
LEMMA PickedIs ==
  ASSUME NEW args \in Seq(Tokens), NEW P
  PROVE  /\ Picked(args, P, 0) = <<>>
         /\ \A i \in 1 .. Len(args) :
              /\ i \in P => Picked(args, P, i) = Append(Picked(args, P, i - 1), args[i])
              /\ i \notin P => Picked(args, P, i) = Picked(args, P, i - 1)
         /\ \A i \in 0 .. Len(args) : Picked(args, P, i) \in Seq(Tokens)
<1> DEFINE N == Len(args)
           S == Seq(Tokens)
           step(p, i) == IF i \in P THEN Append(p, args[i]) ELSE p
           F == [p \in S \X (1 .. N) |-> step(p[1], p[2])]
<1>1. N \in Nat /\ \A i \in 1 .. N : args[i] \in Tokens
  OBVIOUS
<1>2. \A p \in S, i \in 1 .. N : step(p, i) \in S
  <2> HIDE DEF N
  <2> QED BY <1>1
<1>3. F \in StepFunctions(N, S) /\ <<>> \in S
  <2>1. F \in StepFunctions(N, S)
    <3> HIDE DEF N, step, S
    <3> QED BY <1>2 DEF StepFunctions
  <2> QED BY <2>1
<1>4. \A p \in S, i \in 1 .. N : F[<<p, i>>] = step(p, i)
  <2> HIDE DEF N, step, S
  <2> QED OBVIOUS
<1> HIDE DEF F
<1>5. PICK g \in Recursive(N, S, <<>>, F) : TRUE
  <2> HIDE DEF N, S
  <2> QED BY <1>1, <1>3, RecursiveExists
<1>6. /\ g \in [0 .. N -> S] /\ g[0] = <<>>
      /\ \A i \in 1 .. N : g[i] = step(g[i - 1], i)
  <2>1. /\ g \in [0 .. N -> S] /\ g[0] = <<>>
        /\ \A i \in 1 .. N : g[i] = F[<<g[i - 1], i>>]
    BY <1>5 DEF Recursive
  <2>2. \A i \in 1 .. N : i - 1 \in 0 .. N
    BY <1>1
  <2> HIDE DEF N, step, S
  <2> QED BY <1>4, <2>1, <2>2
<1> DEFINE Upto(h) == h = [i \in 0 .. N |-> IF i = 0 THEN <<>> ELSE step(h[i - 1], i)]
<1>7. Upto(g)
  <2>1. \A i \in 0 .. N : g[i] = IF i = 0 THEN <<>> ELSE step(g[i - 1], i)
    <3> HIDE DEF step, N, S
    <3> QED BY <1>1, <1>6
  <2> HIDE DEF step, N, S
  <2> QED BY <1>6, <2>1
<1> DEFINE h == CHOOSE x : Upto(x)
<1>8. Upto(h)
  BY <1>7
<1>9. \A n : Picked(args, P, n) = h[n]
  <2>1. ASSUME NEW x
        PROVE  Upto(x) <=> x = [i \in 0 .. Len(args) |->
                 IF i = 0 THEN <<>>
                 ELSE IF i \in P THEN Append(x[i - 1], args[i]) ELSE x[i - 1]]
    BY Zenon
  <2> QED BY DEF Picked
<1> HIDE DEF h
<1>10. \A i \in 0 .. N : h[i] = IF i = 0 THEN <<>> ELSE step(h[i - 1], i)
  <2> HIDE DEF step, N
  <2> QED BY <1>8
<1> HIDE DEF Upto
<1>11. h[0] = <<>> /\ \A i \in 1 .. N : h[i] = step(h[i - 1], i)
  <2> HIDE DEF step, N
  <2> QED BY <1>1, <1>10
<1>12. \A i \in 0 .. N : h[i] \in S
  <2>1. h[0] \in S
    BY <1>3, <1>11
  <2>2. \A i \in 1 .. N : h[i - 1] \in S => h[i] \in S
    <3> HIDE DEF step, N, S
    <3> QED BY <1>2, <1>11
  <2> HIDE DEF step, N, S
  <2> QED BY <1>1, <2>1, <2>2, RecursiveTyped
<1> QED BY <1>9, <1>11, <1>12

Roles == {"word", "end", "unknown", "asks", "flag", "rest", "value"}

(* What a token is follows from what the one before it is.                  *)
LEMMA RolesAre ==
  ASSUME NEW defs, NEW args \in Seq(Tokens)
  PROVE  LET r == RolesOf(defs, args) IN
         /\ DOMAIN r = 1 .. Len(args)
         /\ \A i \in 1 .. Len(args) :
              r[i] = IF i = 1 THEN Alone(defs, args[1])
                     ELSE IF r[i - 1] \in {"end", "rest"} THEN "rest"
                     ELSE IF r[i - 1] = "asks" THEN "value" ELSE Alone(defs, args[i])
<1> DEFINE N == Len(args)
           step(p, i) == IF p \in {"end", "rest"} THEN "rest"
                         ELSE IF p = "asks" THEN "value" ELSE Alone(defs, args[i])
           F == [p \in Roles \X (1 .. N) |-> step(p[1], p[2])]
<1>1. N \in Nat
  OBVIOUS
<1>2. \A p \in Roles, i \in 1 .. N : step(p, i) \in Roles
  BY DEF Roles, Alone
<1>3. F \in StepFunctions(N, Roles) /\ "flag" \in Roles
  <2>1. F \in StepFunctions(N, Roles)
    <3> HIDE DEF N, step
    <3> QED BY <1>2 DEF StepFunctions
  <2> QED BY <2>1 DEF Roles
<1>4. \A p \in Roles, i \in 1 .. N : F[<<p, i>>] = step(p, i)
  <2> HIDE DEF N, step
  <2> QED OBVIOUS
<1> HIDE DEF F
<1>5. PICK g \in Recursive(N, Roles, "flag", F) : TRUE
  <2> HIDE DEF N
  <2> QED BY <1>1, <1>3, RecursiveExists
<1>6. /\ g \in [0 .. N -> Roles] /\ g[0] = "flag"
      /\ \A i \in 1 .. N : g[i] = step(g[i - 1], i)
  <2>1. /\ g \in [0 .. N -> Roles] /\ g[0] = "flag"
        /\ \A i \in 1 .. N : g[i] = F[<<g[i - 1], i>>]
    BY <1>5 DEF Recursive
  <2>2. \A i \in 1 .. N : i - 1 \in 0 .. N
    BY <1>1
  <2> HIDE DEF N, step
  <2> QED BY <1>4, <2>1, <2>2
<1> DEFINE Along(h) == h = [i \in 0 .. N |-> IF i = 0 THEN "flag" ELSE step(h[i - 1], i)]
<1>7. Along(g)
  <2>1. \A i \in 0 .. N : g[i] = IF i = 0 THEN "flag" ELSE step(g[i - 1], i)
    <3> HIDE DEF step, N
    <3> QED BY <1>1, <1>6
  <2> HIDE DEF step, N
  <2> QED BY <1>6, <2>1
<1> DEFINE h == CHOOSE x : Along(x)
<1>8. Along(h)
  BY <1>7
<1>9. RolesOf(defs, args) = [i \in DOMAIN args |-> h[i]]
  BY DEF RolesOf
<1> HIDE DEF h
<1>10. \A i \in 0 .. N : h[i] = IF i = 0 THEN "flag" ELSE step(h[i - 1], i)
  <2> HIDE DEF step, N
  <2> QED BY <1>8
<1> HIDE DEF Along
<1>11. h[0] = "flag" /\ \A i \in 1 .. N : h[i] = step(h[i - 1], i)
  <2> HIDE DEF step, N
  <2> QED BY <1>1, <1>10
<1>12. DOMAIN args = 1 .. N
  OBVIOUS
<1> DEFINE r == RolesOf(defs, args)
<1>13. DOMAIN r = 1 .. N /\ \A i \in 1 .. N : r[i] = h[i]
  BY <1>9, <1>12
<1> HIDE DEF r
<1>14. ASSUME NEW i \in 1 .. N
       PROVE  r[i] = IF i = 1 THEN Alone(defs, args[1]) ELSE step(r[i - 1], i)
  <2>1. CASE i = 1
    <3>1. i - 1 = 0
      BY <2>1
    <3> HIDE DEF N
    <3> QED BY <1>11, <1>13, <2>1, <3>1
  <2>2. CASE i # 1
    <3>1. i - 1 \in 1 .. N
      BY <1>1, <2>2
    <3> HIDE DEF N, step
    <3> QED BY <1>11, <1>13, <2>2, <3>1
  <2> QED BY <2>1, <2>2
<1> QED BY <1>13, <1>14 DEF r, N

(* What follows a token, and the words up to it.                            *)
LEMMA NextRole ==
  ASSUME NEW defs, NEW args \in Seq(Tokens), NEW i \in 1 .. Len(args), i + 1 <= Len(args)
  PROVE  LET r == RolesOf(defs, args) IN
         /\ r[i] \in {"end", "rest"} => r[i + 1] = "rest"
         /\ r[i] = "asks" => r[i + 1] = "value"
         /\ r[i] \notin {"end", "rest", "asks"} => r[i + 1] = Alone(defs, args[i + 1])
<1>1. i + 1 \in 1 .. Len(args) /\ i + 1 # 1 /\ i + 1 - 1 = i
  OBVIOUS
<1> DEFINE r == RolesOf(defs, args)
<1>2. r[i + 1] = IF r[i] \in {"end", "rest"} THEN "rest"
                 ELSE IF r[i] = "asks" THEN "value" ELSE Alone(defs, args[i + 1])
  BY <1>1, RolesAre
<1> HIDE DEF r
<1>3. /\ r[i] \in {"end", "rest"} => r[i + 1] = "rest"
      /\ r[i] = "asks" => r[i + 1] = "value"
      /\ r[i] \notin {"end", "rest", "asks"} => r[i + 1] = Alone(defs, args[i + 1])
  BY <1>2
<1> QED BY <1>3 DEF r

WordsTo(defs, args, i) == Picked(args, WordsAt(defs, args), i)

LEMMA WordsGrow ==
  ASSUME NEW defs, NEW args \in Seq(Tokens), NEW i \in 1 .. Len(args)
  PROVE  LET r == RolesOf(defs, args) IN
         /\ r[i] \in {"word", "rest"} =>
              WordsTo(defs, args, i) = Append(WordsTo(defs, args, i - 1), args[i])
         /\ r[i] \notin {"word", "rest"} =>
              WordsTo(defs, args, i) = WordsTo(defs, args, i - 1)
         /\ WordsTo(defs, args, i) \in Seq(Tokens)
<1> DEFINE P == WordsAt(defs, args)
<1>1. DOMAIN args = 1 .. Len(args) /\ i \in 0 .. Len(args)
  OBVIOUS
<1>2. i \in P <=> RolesOf(defs, args)[i] \in {"word", "rest"}
  BY <1>1 DEF WordsAt
<1> HIDE DEF P
<1>3. /\ i \in P => Picked(args, P, i) = Append(Picked(args, P, i - 1), args[i])
      /\ i \notin P => Picked(args, P, i) = Picked(args, P, i - 1)
  BY PickedIs
<1>4. Picked(args, P, i) \in Seq(Tokens)
  BY <1>1, PickedIs
<1> QED BY <1>2, <1>3, <1>4 DEF WordsTo, P

(* How far parseArgs has come at token k: what a flag has is what its last  *)
(* mention before k gives it, the positionals are the words before k, and   *)
(* the token at k is not the value of a flag.                               *)
Mentions(defs, args, n, k) == {i \in SetsOf(defs, args, n) : i < k}

Says(defs, args, n, k, v) ==
    IF Mentions(defs, args, n, k) = {} THEN v = Unset
    ELSE /\ v = ValueAt(defs, args, LastOf(Mentions(defs, args, n, k)), defs[n].type)
         /\ defs[n].type # "boolean" => v \in Tokens

Progress(defs, args, k, fl, pos) ==
    /\ k \in 1 .. Len(args) + 1
    /\ pos = WordsTo(defs, args, k - 1)
    /\ DOMAIN fl = DOMAIN defs
    /\ \A n \in DOMAIN defs : Says(defs, args, n, k, fl[n])
    /\ k <= Len(args) => RolesOf(defs, args)[k] = Alone(defs, args[k])

LEMMA StartsEmpty ==
  ASSUME NEW defs, NEW args \in Seq(Tokens)
  PROVE  Progress(defs, args, 1, [n \in DOMAIN defs |-> Unset], <<>>)
<1> DEFINE fl == [n \in DOMAIN defs |-> Unset]
<1>1. Len(args) \in Nat /\ DOMAIN args = 1 .. Len(args)
  OBVIOUS
<1>2. ASSUME NEW n \in DOMAIN defs PROVE Says(defs, args, n, 1, fl[n])
  <2>1. Mentions(defs, args, n, 1) = {}
    BY <1>1 DEF Mentions, SetsOf
  <2> QED BY <2>1 DEF Says
<1>3. WordsTo(defs, args, 1 - 1) = <<>>
  BY PickedIs DEF WordsTo
<1>4. 1 <= Len(args) => RolesOf(defs, args)[1] = Alone(defs, args[1])
  BY <1>1, RolesAre
<1> QED BY <1>1, <1>2, <1>3, <1>4 DEF Progress

(* Steps that mention no flag and steps that mention one.                   *)
LEMMA NotMentioned ==
  ASSUME NEW defs, NEW args \in Seq(Tokens), NEW n, NEW v,
         NEW k \in Nat, NEW m \in Nat, k <= m, Says(defs, args, n, k, v),
         \A i \in SetsOf(defs, args, n) : ~(k <= i /\ i < m)
  PROVE  Says(defs, args, n, m, v)
<1>1. \A i \in SetsOf(defs, args, n) : i \in Nat
  <2>1. DOMAIN args = 1 .. Len(args)
    OBVIOUS
  <2> QED BY <2>1 DEF SetsOf
<1>2. Mentions(defs, args, n, m) = Mentions(defs, args, n, k)
  BY <1>1 DEF Mentions
<1> QED BY <1>2 DEF Says

LEMMA LastMentioned ==
  ASSUME NEW defs, NEW args \in Seq(Tokens), NEW n, NEW v,
         NEW k \in Nat, NEW m \in Nat, k < m, k \in SetsOf(defs, args, n),
         \A i \in SetsOf(defs, args, n) : ~(k < i /\ i < m),
         v = ValueAt(defs, args, k, defs[n].type), defs[n].type # "boolean" => v \in Tokens
  PROVE  Says(defs, args, n, m, v)
<1> DEFINE S == Mentions(defs, args, n, m)
<1>1. \A i \in SetsOf(defs, args, n) : i \in Nat
  <2>1. DOMAIN args = 1 .. Len(args)
    OBVIOUS
  <2> QED BY <2>1 DEF SetsOf
<1>2. k \in S /\ \A j \in S : j \in Nat /\ j <= k
  BY <1>1 DEF Mentions
<1>3. LastOf(S) = k
  <2> HIDE DEF S
  <2>1. LastOf(S) \in S /\ \A j \in S : j <= LastOf(S)
    BY <1>2 DEF LastOf
  <2>2. LastOf(S) \in Nat /\ LastOf(S) <= k /\ k <= LastOf(S)
    BY <1>2, <2>1
  <2> QED BY <2>2
<1> QED BY <1>2, <1>3 DEF Says

LEMMA WordStep ==
  ASSUME NEW defs, NEW args \in Seq(Tokens), NEW k, NEW fl, NEW pos,
         Progress(defs, args, k, fl, pos), k <= Len(args), args[k].kind = "word"
  PROVE  Progress(defs, args, k + 1, fl, Append(pos, args[k]))
<1> DEFINE r == RolesOf(defs, args)
<1>1. /\ Len(args) \in Nat /\ DOMAIN args = 1 .. Len(args)
      /\ k \in 1 .. Len(args) /\ k + 1 \in 1 .. Len(args) + 1 /\ k + 1 - 1 = k
  BY DEF Progress
<1>2. r[k] = "word"
  BY DEF Progress, Alone
<1>4. Append(pos, args[k]) = WordsTo(defs, args, k)
  BY <1>1, <1>2, WordsGrow DEF Progress
<1>5. ASSUME NEW n \in DOMAIN defs PROVE Says(defs, args, n, k + 1, fl[n])
  <2>1. Says(defs, args, n, k, fl[n])
    BY DEF Progress
  <2>2. \A i \in SetsOf(defs, args, n) : i \in Nat /\ i # k
    BY <1>1, <1>2 DEF SetsOf
  <2>3. \A i \in SetsOf(defs, args, n) : ~(k <= i /\ i < k + 1)
    BY <1>1, <2>2
  <2>4. k \in Nat /\ k + 1 \in Nat /\ k <= k + 1
    BY <1>1
  <2> QED BY <2>1, <2>3, <2>4, NotMentioned
<1>6. k + 1 <= Len(args) => r[k + 1] = Alone(defs, args[k + 1])
  <2> SUFFICES ASSUME k + 1 <= Len(args) PROVE r[k + 1] = Alone(defs, args[k + 1])
    OBVIOUS
  <2> QED BY <1>1, <1>2, NextRole
<1>7. DOMAIN fl = DOMAIN defs
  BY DEF Progress
<1> HIDE DEF r
<1> QED BY <1>1, <1>4, <1>5, <1>6, <1>7 DEF Progress, r

LEMMA FlagStep ==
  ASSUME NEW defs, NEW args \in Seq(Tokens), NEW k, NEW fl, NEW pos, NEW n \in DOMAIN defs,
         NEW v, Progress(defs, args, k, fl, pos), k <= Len(args),
         Alone(defs, args[k]) = "flag", FlagOf(defs, args[k]) = {n},
         v = ValueAt(defs, args, k, defs[n].type), defs[n].type # "boolean" => v \in Tokens
  PROVE  Progress(defs, args, k + 1, [fl EXCEPT ![n] = v], pos)
<1> DEFINE r == RolesOf(defs, args)
           new == [fl EXCEPT ![n] = v]
<1>1. /\ Len(args) \in Nat /\ DOMAIN args = 1 .. Len(args)
      /\ k \in 1 .. Len(args) /\ k + 1 \in 1 .. Len(args) + 1 /\ k + 1 - 1 = k
      /\ DOMAIN fl = DOMAIN defs
  BY DEF Progress
<1>2. r[k] = "flag"
  BY DEF Progress
<1>4. pos = WordsTo(defs, args, k)
  BY <1>1, <1>2, WordsGrow DEF Progress
<1>5. ASSUME NEW m \in DOMAIN defs PROVE Says(defs, args, m, k + 1, new[m])
  <2>1. Says(defs, args, m, k, fl[m])
    BY DEF Progress
  <2>2. \A i \in SetsOf(defs, args, m) : i \in Nat
    BY <1>1 DEF SetsOf
  <2>3. k \in Nat /\ k + 1 \in Nat /\ k <= k + 1 /\ k < k + 1
    BY <1>1
  <2>4. CASE m = n
    <3>1. new[m] = v
      BY <1>1, <2>4
    <3>2. k \in SetsOf(defs, args, m)
      BY <1>1, <1>2, <2>4 DEF SetsOf
    <3>3. \A i \in SetsOf(defs, args, m) : ~(k < i /\ i < k + 1)
      BY <2>2, <2>3
    <3> HIDE DEF new
    <3> QED BY <2>3, <2>4, <3>1, <3>2, <3>3, LastMentioned
  <2>5. CASE m # n
    <3>1. new[m] = fl[m]
      BY <1>1, <2>5
    <3>2. k \notin SetsOf(defs, args, m)
      BY <2>5 DEF SetsOf
    <3>3. \A i \in SetsOf(defs, args, m) : ~(k <= i /\ i < k + 1)
      BY <2>2, <2>3, <3>2
    <3> HIDE DEF new
    <3> QED BY <2>1, <2>3, <3>1, <3>3, NotMentioned
  <2> QED BY <2>4, <2>5
<1>6. k + 1 <= Len(args) => r[k + 1] = Alone(defs, args[k + 1])
  <2> SUFFICES ASSUME k + 1 <= Len(args) PROVE r[k + 1] = Alone(defs, args[k + 1])
    OBVIOUS
  <2> QED BY <1>1, <1>2, NextRole
<1>7. DOMAIN new = DOMAIN defs
  BY <1>1
<1> HIDE DEF r, new
<1>8. Progress(defs, args, k + 1, new, pos)
  BY <1>1, <1>4, <1>5, <1>6, <1>7 DEF Progress, r
<1> QED BY <1>8 DEF new

LEMMA AsksStep ==
  ASSUME NEW defs, NEW args \in Seq(Tokens), NEW k, NEW fl, NEW pos, NEW n \in DOMAIN defs,
         Progress(defs, args, k, fl, pos), k < Len(args),
         Alone(defs, args[k]) = "asks", FlagOf(defs, args[k]) = {n}
  PROVE  Progress(defs, args, k + 2, [fl EXCEPT ![n] = args[k + 1]], pos)
<1> DEFINE r == RolesOf(defs, args)
           new == [fl EXCEPT ![n] = args[k + 1]]
<1>1. /\ Len(args) \in Nat /\ DOMAIN args = 1 .. Len(args)
      /\ k \in 1 .. Len(args) /\ k + 1 \in 1 .. Len(args) /\ k + 1 # 1
      /\ k + 2 \in 1 .. Len(args) + 1
      /\ k + 1 - 1 = k /\ k + 2 - 1 = k + 1
      /\ DOMAIN fl = DOMAIN defs
  BY DEF Progress
<1>2. r[k] = "asks" /\ r[k + 1] = "value"
  <2>1. r[k] = "asks"
    BY <1>1 DEF Progress
  <2>2. k + 1 <= Len(args)
    BY <1>1
  <2> QED BY <1>1, <2>1, <2>2, NextRole
<1>4. pos = WordsTo(defs, args, k + 1)
  <2>1. pos = WordsTo(defs, args, k)
    BY <1>1, <1>2, WordsGrow DEF Progress
  <2> DEFINE j == k + 1
  <2>2. j \in 1 .. Len(args) /\ j - 1 = k /\ RolesOf(defs, args)[j] \notin {"word", "rest"}
    BY <1>1, <1>2
  <2> HIDE DEF j
  <2>3. WordsTo(defs, args, j) = WordsTo(defs, args, j - 1)
    BY <2>2, WordsGrow
  <2> QED BY <2>1, <2>2, <2>3 DEF j
<1>5. ASSUME NEW m \in DOMAIN defs PROVE Says(defs, args, m, k + 2, new[m])
  <2>1. Says(defs, args, m, k, fl[m])
    BY DEF Progress
  <2>2. \A i \in SetsOf(defs, args, m) : i \in Nat /\ i # k + 1
    BY <1>1, <1>2 DEF SetsOf
  <2>3. k \in Nat /\ k + 2 \in Nat /\ k <= k + 2 /\ k < k + 2
    BY <1>1
  <2>4. CASE m = n
    <3>1. new[m] = args[k + 1] /\ args[k + 1] \in Tokens
      BY <1>1, <2>4
    <3>2. k \in SetsOf(defs, args, m)
      BY <1>1, <1>2, <2>4 DEF SetsOf
    <3>3. \A i \in SetsOf(defs, args, m) : ~(k < i /\ i < k + 2)
      BY <2>2, <2>3
    <3>4. args[k + 1] = ValueAt(defs, args, k, defs[m].type)
      BY <1>2 DEF ValueAt
    <3> HIDE DEF new
    <3> QED BY <2>3, <3>1, <3>2, <3>3, <3>4, LastMentioned
  <2>5. CASE m # n
    <3>1. new[m] = fl[m]
      BY <1>1, <2>5
    <3>2. k \notin SetsOf(defs, args, m)
      BY <2>5 DEF SetsOf
    <3>3. \A i \in SetsOf(defs, args, m) : ~(k <= i /\ i < k + 2)
      BY <2>2, <2>3, <3>2
    <3> HIDE DEF new
    <3> QED BY <2>1, <2>3, <3>1, <3>3, NotMentioned
  <2> QED BY <2>4, <2>5
<1>6. k + 2 <= Len(args) => r[k + 2] = Alone(defs, args[k + 2])
  <2> SUFFICES ASSUME k + 2 <= Len(args) PROVE r[k + 2] = Alone(defs, args[k + 2])
    OBVIOUS
  <2>1. k + 1 + 1 = k + 2
    BY <1>1
  <2> QED BY <1>1, <1>2, <2>1, NextRole
<1>7. DOMAIN new = DOMAIN defs
  BY <1>1
<1> HIDE DEF r, new
<1>8. Progress(defs, args, k + 2, new, pos)
  BY <1>1, <1>4, <1>5, <1>6, <1>7 DEF Progress, r
<1> QED BY <1>8 DEF new

LEMMA OneMore ==
  ASSUME NEW args \in Seq(Tokens), NEW a \in Nat \ {0}, NEW b \in Nat, a <= b + 1,
         b + 1 <= Len(args)
  PROVE  /\ SubSeq(args, a, b) \in Seq(Tokens)
         /\ SubSeq(args, a, b + 1) = Append(SubSeq(args, a, b), args[b + 1])
<1> DEFINE q == SubSeq(args, a, b)
           p == SubSeq(args, a, b + 1)
<1>1. q \in Seq(Tokens) /\ p \in Seq(Tokens) /\ args[b + 1] \in Tokens
  OBVIOUS
<1>2. Len(q) = b - a + 1 /\ Len(p) = b - a + 2
  OBVIOUS
<1>3. \A i \in 1 .. b - a + 1 : q[i] = args[a + i - 1] /\ p[i] = args[a + i - 1]
  OBVIOUS
<1>4. p[b - a + 2] = args[b + 1]
  OBVIOUS
<1> HIDE DEF p, q
<1>5. p = Append(q, args[b + 1])
  <2>1. Append(q, args[b + 1]) \in Seq(Tokens) /\ Len(Append(q, args[b + 1])) = Len(p)
    BY <1>1, <1>2
  <2>2. \A i \in 1 .. Len(p) : Append(q, args[b + 1])[i] = p[i]
    BY <1>1, <1>2, <1>3, <1>4
  <2> QED BY <1>1, <2>1, <2>2
<1> QED BY <1>1, <1>5 DEF p, q

LEMMA Appending ==
  ASSUME NEW p \in Seq(Tokens), NEW q \in Seq(Tokens), NEW t \in Tokens
  PROVE  Append(p \o q, t) = p \o Append(q, t)
<1> DEFINE a == Append(p \o q, t)
           b == p \o Append(q, t)
<1>1. a \in Seq(Tokens) /\ b \in Seq(Tokens) /\ Len(a) = Len(b)
  OBVIOUS
<1>2. \A i \in 1 .. Len(a) : a[i] = b[i]
  OBVIOUS
<1> HIDE DEF a, b
<1>3. a = b
  BY <1>1, <1>2
<1> QED BY <1>3 DEF a, b

(* After -- come the rest of the line and no flags.                         *)
LEMMA EndStep ==
  ASSUME NEW defs, NEW args \in Seq(Tokens), NEW k, NEW fl, NEW pos,
         Progress(defs, args, k, fl, pos), k <= Len(args), args[k].kind = "end"
  PROVE  Progress(defs, args, Len(args) + 1, fl, pos \o SubSeq(args, k + 1, Len(args)))
<1> DEFINE r == RolesOf(defs, args)
           N == Len(args)
<1>1. /\ N \in Nat /\ DOMAIN args = 1 .. N /\ k \in 1 .. N /\ k \in Nat
      /\ N - k \in Nat /\ N + 1 - 1 = N /\ N + 1 \in 1 .. N + 1
  BY DEF Progress
<1>2. r[k] = "end"
  BY DEF Progress, Alone
<1>3. pos = WordsTo(defs, args, k) /\ pos \in Seq(Tokens)
  <2>1. pos = WordsTo(defs, args, k - 1)
    BY DEF Progress
  <2> QED BY <1>1, <1>2, <2>1, WordsGrow
<1>4. ASSUME NEW j \in 0 .. N - k - 1
      PROVE  /\ k + j \in 1 .. N /\ k + (j + 1) \in 1 .. N /\ k + (j + 1) # 1
             /\ k + (j + 1) - 1 = k + j
  <2> HIDE DEF N
  <2> QED BY <1>1
<1> DEFINE Rest == {j \in 0 .. N - k : j # 0 => r[k + j] = "rest"}
<1>5. 0 .. N - k \subseteq Rest
  <2>1. 0 \in Rest
    BY <1>1
  <2>2. ASSUME NEW j \in 0 .. N - k - 1, j \in Rest PROVE j + 1 \in Rest
    <3>1. r[k + j] \in {"end", "rest"}
      BY <1>1, <1>2, <2>2
    <3>2. r[k + (j + 1)] = "rest"
      <4>1. k + j \in 1 .. N /\ k + j + 1 = k + (j + 1) /\ k + j + 1 <= N
        BY <1>1
      <4> QED BY <3>1, <4>1, NextRole
    <3>3. j + 1 \in 0 .. N - k
      BY <1>1
    <3> HIDE DEF r, N
    <3> QED BY <3>2, <3>3
  <2> HIDE DEF Rest, N
  <2> QED BY <1>1, <2>1, <2>2, UpTo
<1>6. \A i \in k + 1 .. N : r[i] = "rest"
  <2> TAKE i \in k + 1 .. N
  <2>1. i - k \in 0 .. N - k /\ i - k # 0 /\ k + (i - k) = i
    BY <1>1
  <2>2. i - k \in Rest
    BY <1>5, <2>1
  <2> HIDE DEF r, N
  <2> QED BY <2>1, <2>2
<1> DEFINE tail(j) == SubSeq(args, k + 1, k + j)
           Taken == {j \in 0 .. N - k : WordsTo(defs, args, k + j) = pos \o tail(j)}
<1>7. 0 .. N - k \subseteq Taken
  <2>1. 0 \in Taken
    <3>1. tail(0) = <<>> /\ k + 0 = k /\ 0 \in 0 .. N - k
      BY <1>1
    <3>2. pos \o <<>> = pos
      BY <1>3
    <3> HIDE DEF N, tail
    <3> QED BY <1>3, <3>1, <3>2
  <2>2. ASSUME NEW j \in 0 .. N - k - 1, j \in Taken PROVE j + 1 \in Taken
    <3>1. r[k + (j + 1)] = "rest"
      <4>1. k + (j + 1) \in k + 1 .. N
        BY <1>1
      <4> QED BY <1>6, <4>1
    <3>2. WordsTo(defs, args, k + (j + 1)) =
            Append(WordsTo(defs, args, k + j), args[k + (j + 1)])
      <4> DEFINE i == k + (j + 1)
      <4>1. i \in 1 .. Len(args) /\ i - 1 = k + j
        <5>1. k + (j + 1) - 1 = k + j /\ k + (j + 1) \in 1 .. N
          BY <1>4
        <5> QED BY <1>1, <5>1
      <4>2. RolesOf(defs, args)[i] \in {"word", "rest"}
        BY <3>1
      <4> HIDE DEF i
      <4>3. WordsTo(defs, args, i) = Append(WordsTo(defs, args, i - 1), args[i])
        BY <4>1, <4>2, WordsGrow
      <4> QED BY <4>1, <4>3 DEF i
    <3>3. tail(j + 1) = Append(tail(j), args[k + (j + 1)]) /\ tail(j) \in Seq(Tokens)
      <4>1. /\ k + 1 \in Nat \ {0} /\ k + j \in Nat /\ k + 1 <= k + j + 1
            /\ k + j + 1 <= Len(args) /\ k + j + 1 = k + (j + 1)
        BY <1>1, <1>4
      <4> QED BY <4>1, OneMore
    <3>4. args[k + (j + 1)] \in Tokens
      BY <1>1, <1>4
    <3>5. j + 1 \in 0 .. N - k
      BY <1>1
    <3>6. Append(pos \o tail(j), args[k + (j + 1)]) = pos \o Append(tail(j), args[k + (j + 1)])
      BY <1>3, <3>3, <3>4, Appending
    <3> HIDE DEF N, tail
    <3> QED BY <2>2, <3>2, <3>3, <3>5, <3>6
  <2> HIDE DEF Taken, N
  <2> QED BY <1>1, <2>1, <2>2, UpTo
<1>8. pos \o SubSeq(args, k + 1, N) = WordsTo(defs, args, N)
  <2>1. N - k \in 0 .. N - k /\ k + (N - k) = N
    BY <1>1
  <2>2. N - k \in Taken
    BY <1>7, <2>1
  <2> HIDE DEF N
  <2> QED BY <2>1, <2>2
<1>9. ASSUME NEW n \in DOMAIN defs PROVE Says(defs, args, n, N + 1, fl[n])
  <2>1. Says(defs, args, n, k, fl[n])
    BY DEF Progress
  <2>2. ASSUME NEW i \in SetsOf(defs, args, n) PROVE ~(k <= i /\ i < N + 1)
    <3>1. i \in 1 .. N /\ r[i] \in {"flag", "asks"}
      BY <1>1 DEF SetsOf
    <3>2. i # k /\ i \notin k + 1 .. N
      BY <1>2, <1>6, <3>1
    <3> HIDE DEF N
    <3> QED BY <1>1, <3>1, <3>2
  <2>3. N + 1 \in Nat /\ k <= N + 1
    BY <1>1
  <2> HIDE DEF N
  <2> QED BY <1>1, <2>1, <2>2, <2>3, NotMentioned
<1>10. DOMAIN fl = DOMAIN defs /\ ~(N + 1 <= N)
  BY <1>1 DEF Progress
<1> HIDE DEF r
<1> DEFINE words == pos \o SubSeq(args, k + 1, N)
<1>13. words = WordsTo(defs, args, N + 1 - 1)
  BY <1>1, <1>8
<1> HIDE DEF words
<1>14. Progress(defs, args, N + 1, fl, words)
  BY <1>1, <1>9, <1>10, <1>13 DEF Progress, N
<1> QED BY <1>14 DEF N, words

-----------------------------------------------------------------------------
LEMMA TokenShapes ==
  ASSUME NEW t \in Tokens
  PROVE  /\ "kind" \in DOMAIN t /\ t # Unset
         /\ t.kind = "long" => t.name \in STRING /\ t.value \in Words \cup {Unset}
         /\ t.kind = "short" => t.name \in STRING
<1>1. t # Unset
  BY CommandLineAssumption
<1>2. CASE t \in [kind : {"word"}, text : Words]
  BY <1>1, <1>2
<1>3. CASE t \in [kind : {"end", "json", "help"}]
  BY <1>1, <1>3
<1>4. CASE t \in [kind : {"long"}, name : STRING, value : Words \cup {Unset}]
  BY <1>1, <1>4
<1>5. CASE t \in [kind : {"short"}, name : STRING]
  BY <1>1, <1>5
<1> QED BY <1>2, <1>3, <1>4, <1>5 DEF Tokens

(* A flag token stands for one flag at most.                                *)
LEMMA OneFlag ==
  ASSUME NEW defs, Defines(defs), NEW t \in Tokens, t.kind \in {"long", "short"},
         NEW n \in FlagOf(defs, t)
  PROVE  FlagOf(defs, t) = {n} /\ n \in DOMAIN defs
<1>1. CASE t.kind = "long"
  BY <1>1 DEF FlagOf
<1>2. CASE t.kind = "short"
  <2>1. t.name \in STRING
    BY <1>2, TokenShapes
  <2>2. FlagOf(defs, t) = {m \in DOMAIN defs : defs[m].short = t.name}
    BY <1>2 DEF FlagOf
  <2> QED BY <2>1, <2>2 DEF Defines
<1> QED BY <1>1, <1>2

(* Why a line is refused.                                                   *)
Refused(defs) ==
    LET Sets(n) == SetsOf(defs, argv, n)
        Last(n) == ValueAt(defs, argv, LastOf(Sets(n)), "number")
    IN
    \/ cursor <= Len(argv) /\ RolesOf(defs, argv)[cursor] = "unknown"
    \/ cursor = Len(argv) /\ RolesOf(defs, argv)[cursor] = "asks"
    \/ Def.required /\ Given(defs, argv) = <<>>
    \/ \E n \in DOMAIN flags :
         /\ defs[n].type = "number" /\ Sets(n) # {}
         /\ ~IsNumber(Last(n))

CommandInv ==
    /\ doing \in {"waiting", "parsing", "checking", "handled", "refused", "ended"}
    /\ doing = "waiting" => cursor = 1 /\ positionals = <<>>
    /\ doing \in {"parsing", "checking", "handled", "refused"} => argv = WithoutJson(Tail(line))
    /\ doing \in {"parsing", "checking", "handled"} =>
         /\ Defines(Def.flags) /\ argv \in Seq(Tokens)
         /\ Progress(Def.flags, argv, cursor, flags, positionals)
    /\ doing \in {"checking", "handled"} => cursor = Len(argv) + 1
    /\ doing = "handled" => Complete
    /\ doing = "refused" => Refused(Def.flags)

(* A command that has a name is one of those that are registered.           *)
LEMMA CommandFlags ==
  ASSUME NEW n, Named(n) # {}
  PROVE  Defines(Command(n).flags)
<1> DEFINE N == Len(Registered)
           Below == {N - i : i \in Named(n)}
<1>1. N \in Nat /\ Named(n) \subseteq 1 .. N
  BY CommandLineAssumption DEF Named
<1>2. Below \subseteq Nat /\ Below # {}
  <2> HIDE DEF N
  <2> QED BY <1>1
<1>3. PICK b \in Below : \A c \in Below : b <= c
  <2> HIDE DEF Below
  <2> QED BY <1>2, LeastNatural
<1>4. PICK m \in Named(n) : b = N - m
  OBVIOUS
<1>5. \A j \in Named(n) : j <= m
  <2> TAKE j \in Named(n)
  <2>1. N - m <= N - j
    BY <1>3, <1>4
  <2> HIDE DEF N
  <2> QED BY <1>1, <2>1
<1> DEFINE last == CHOOSE i \in Named(n) : \A j \in Named(n) : j <= i
<1>6. last \in Named(n)
  BY <1>5
<1>7. Command(n) = Registered[last]
  BY DEF Command
<1> HIDE DEF last
<1>8. last \in DOMAIN Registered
  BY <1>6 DEF Named
<1> QED BY <1>7, <1>8, CommandLineAssumption

LEMMA CommandInitInv == CommandInit => CommandInv
  BY DEF CommandInit, CommandInv

LEMMA ExecuteInv == ASSUME CommandInv, Execute PROVE CommandInv'
<1>1. PICK l \in Lines :
        /\ line' = l
        /\ IF l = <<>> \/ Head(l).kind = "help"
           THEN End(0) /\ UNCHANGED <<argv, flags>>
           ELSE IF Head(l).kind # "word" \/ Named(Head(l).text) = {}
           THEN End(2) /\ UNCHANGED <<argv, flags>>
           ELSE /\ doing' = "parsing" /\ UNCHANGED exitCode
                /\ argv' = WithoutJson(Tail(l))
                /\ flags' = [n \in DOMAIN Command(Head(l).text).flags |-> Unset]
  BY DEF Execute
<1>2. cursor' = cursor /\ positionals' = positionals /\ doing = "waiting"
  BY DEF Execute
<1>3. CASE doing' = "ended"
  BY <1>3 DEF CommandInv
<1>4. CASE /\ l # <<>> /\ Named(Head(l).text) # {} /\ doing' = "parsing"
           /\ argv' = WithoutJson(Tail(l)) /\ line' = l
           /\ flags' = [n \in DOMAIN Command(Head(l).text).flags |-> Unset]
  <2> DEFINE defs == Command(Head(l).text).flags
             rest == Tail(l)
             P == {i \in DOMAIN rest : rest[i].kind # "json"}
  <2>1. Def'.flags = defs
    BY <1>1 DEF Def
  <2>2. Defines(defs)
    BY <1>4, CommandFlags
  <2>3. argv' \in Seq(Tokens)
    <3>1. l \in Seq(Tokens)
      BY CommandLineAssumption
    <3>2. rest \in Seq(Tokens) /\ Len(rest) \in 0 .. Len(rest)
      BY <1>4, <3>1
    <3> HIDE DEF rest, P
    <3>3. Picked(rest, P, Len(rest)) \in Seq(Tokens)
      BY <3>2, PickedIs
    <3> QED BY <1>4, <3>3 DEF rest, P, WithoutJson
  <2>4. cursor' = 1 /\ positionals' = <<>>
    BY <1>2 DEF CommandInv
  <2>5. Progress(defs, argv', 1, [n \in DOMAIN defs |-> Unset], <<>>)
    <3> HIDE DEF defs
    <3> QED BY <2>3, StartsEmpty
  <2>6. flags' = [n \in DOMAIN defs |-> Unset]
    BY <1>4
  <2> HIDE DEF defs
  <2>7. Progress(Def'.flags, argv', cursor', flags', positionals')
    BY <2>1, <2>4, <2>5, <2>6
  <2> QED BY <1>4, <2>1, <2>2, <2>3, <2>7 DEF CommandInv
<1> QED BY <1>1, <1>3, <1>4 DEF End

(* A step of parseArgs that goes on.                                        *)
LEMMA GoOn ==
  ASSUME CommandInv, doing = "parsing", NEW k, Goto(k),
         Progress(Def.flags, argv, k, flags', positionals')
  PROVE  CommandInv'
<1>1. /\ Def' = Def /\ cursor' = k /\ doing' = "parsing" /\ argv' = argv
      /\ line' = line
  BY DEF Goto, Def
<1> QED BY <1>1 DEF CommandInv

LEMMA RefuseInv ==
  ASSUME CommandInv, doing \in {"parsing", "checking"}, UsageError, Refused(Def.flags)
  PROVE  CommandInv'
<1>1. /\ Def' = Def /\ cursor' = cursor /\ argv' = argv /\ doing' = "refused"
      /\ flags' = flags /\ line' = line
  BY DEF UsageError, Def
<1>2. Refused(Def.flags)'
  BY <1>1 DEF Refused
<1> QED BY <1>1, <1>2 DEF CommandInv

LEMMA EndOfFlagsInv == ASSUME CommandInv, EndOfFlags PROVE CommandInv'
<1>1. /\ doing = "parsing" /\ cursor <= Len(argv) /\ argv[cursor].kind = "end"
      /\ positionals' = positionals \o SubSeq(argv, cursor + 1, Len(argv))
      /\ flags' = flags /\ Goto(Len(argv) + 1)
  BY DEF EndOfFlags, Parsing, Token
<1>2. argv \in Seq(Tokens) /\ Progress(Def.flags, argv, cursor, flags, positionals)
  BY <1>1 DEF CommandInv
<1> DEFINE defs == Def.flags
<1> HIDE DEF defs
<1>3. Progress(defs, argv, Len(argv) + 1, flags', positionals')
  BY <1>1, <1>2, EndStep DEF defs
<1> QED BY <1>1, <1>3, GoOn DEF defs

LEMMA PositionalInv == ASSUME CommandInv, Positional PROVE CommandInv'
<1>1. /\ doing = "parsing" /\ cursor <= Len(argv) /\ argv[cursor].kind = "word"
      /\ positionals' = Append(positionals, argv[cursor])
      /\ flags' = flags /\ Goto(cursor + 1)
  BY DEF Positional, Parsing, Token
<1>2. argv \in Seq(Tokens) /\ Progress(Def.flags, argv, cursor, flags, positionals)
  BY <1>1 DEF CommandInv
<1>3. Progress(Def.flags, argv, cursor + 1, flags', positionals')
  BY <1>1, <1>2, WordStep
<1> QED BY <1>1, <1>3, GoOn

(* Where parseArgs is at a flag.                                            *)
AtFlag(n) ==
    /\ doing = "parsing" /\ cursor \in 1 .. Len(argv)
    /\ Defines(Def.flags) /\ argv \in Seq(Tokens) /\ argv[cursor] \in Tokens
    /\ n \in DOMAIN Def.flags /\ FlagOf(Def.flags, argv[cursor]) = {n}
    /\ Progress(Def.flags, argv, cursor, flags, positionals)

LEMMA FlagReached ==
  ASSUME CommandInv, Parsing("long") \/ Parsing("short"),
         NEW n \in FlagOf(Def.flags, argv[cursor])
  PROVE  AtFlag(n)
<1>1. doing = "parsing" /\ cursor <= Len(argv) /\ argv[cursor].kind \in {"long", "short"}
  BY DEF Parsing, Token
<1>2. /\ Defines(Def.flags) /\ argv \in Seq(Tokens)
      /\ Progress(Def.flags, argv, cursor, flags, positionals)
  BY <1>1 DEF CommandInv
<1>3. cursor \in 1 .. Len(argv)
  BY <1>1, <1>2 DEF Progress
<1>4. argv[cursor] \in Tokens
  BY <1>2, <1>3
<1>5. FlagOf(Def.flags, argv[cursor]) = {n} /\ n \in DOMAIN Def.flags
  BY <1>1, <1>2, <1>4, OneFlag
<1> QED BY <1>1, <1>2, <1>3, <1>4, <1>5 DEF AtFlag

LEMMA SetInv ==
  ASSUME CommandInv, NEW n, AtFlag(n), Alone(Def.flags, argv[cursor]) = "flag",
         NEW v, Set(n, v), Goto(cursor + 1),
         v = ValueAt(Def.flags, argv, cursor, Def.flags[n].type),
         Def.flags[n].type # "boolean" => v \in Tokens
  PROVE  CommandInv'
<1> DEFINE new == [flags EXCEPT ![n] = v]
<1>1. cursor <= Len(argv)
  BY DEF AtFlag
<1>2. Progress(Def.flags, argv, cursor + 1, new, positionals)
  BY <1>1, FlagStep DEF AtFlag
<1>3. flags' = new /\ positionals' = positionals
  BY DEF Set
<1> HIDE DEF new
<1>4. Progress(Def.flags, argv, cursor + 1, flags', positionals')
  BY <1>2, <1>3
<1> QED BY <1>4, GoOn DEF AtFlag

LEMMA TakeNextInv ==
  ASSUME CommandInv, NEW n, AtFlag(n), Alone(Def.flags, argv[cursor]) = "asks", TakeNext(n)
  PROVE  CommandInv'
<1>1. cursor <= Len(argv) /\ cursor \in Nat /\ Len(argv) \in Nat
  BY DEF AtFlag
<1>2. RolesOf(Def.flags, argv)[cursor] = "asks"
  BY <1>1 DEF AtFlag, Progress
<1>3. CASE cursor = Len(argv)
  <2>1. UsageError
    BY <1>3 DEF TakeNext
  <2>2. Refused(Def.flags)
    BY <1>2, <1>3 DEF Refused
  <2>3. doing = "parsing"
    BY DEF AtFlag
  <2> QED BY <2>1, <2>2, <2>3, RefuseInv
<1>4. CASE cursor # Len(argv)
  <2> DEFINE new == [flags EXCEPT ![n] = argv[cursor + 1]]
  <2>1. cursor < Len(argv)
    BY <1>1, <1>4
  <2>2. Progress(Def.flags, argv, cursor + 2, new, positionals)
    BY <2>1, AsksStep DEF AtFlag
  <2>3. flags' = new /\ positionals' = positionals /\ Goto(cursor + 2)
    BY <1>4 DEF TakeNext, Set
  <2> HIDE DEF new
  <2>4. Progress(Def.flags, argv, cursor + 2, flags', positionals')
    BY <2>2, <2>3
  <2> QED BY <2>3, <2>4, GoOn DEF AtFlag
<1> QED BY <1>3, <1>4

(* A flag that is not one of the command's.                                 *)
LEMMA UnknownInv ==
  ASSUME CommandInv, Parsing("long") \/ Parsing("short"),
         FlagOf(Def.flags, argv[cursor]) = {}, UsageError
  PROVE  CommandInv'
<1>1. doing = "parsing" /\ cursor <= Len(argv) /\ argv[cursor].kind \in {"long", "short"}
  BY DEF Parsing, Token
<1>2. Progress(Def.flags, argv, cursor, flags, positionals)
  BY <1>1 DEF CommandInv
<1>3. Alone(Def.flags, argv[cursor]) = "unknown"
  BY <1>1 DEF Alone
<1>4. RolesOf(Def.flags, argv)[cursor] = "unknown"
  BY <1>1, <1>2, <1>3 DEF Progress
<1> QED BY <1>1, <1>4, RefuseInv DEF Refused

LEMMA LongFlagInv == ASSUME CommandInv, LongFlag PROVE CommandInv'
<1> DEFINE t == argv[cursor]
           n == t.name
           defs == Def.flags
<1>1. Parsing("long") /\ t.kind = "long"
  BY DEF LongFlag, Parsing, Token
<1>2. IF n \notin DOMAIN defs THEN UsageError
      ELSE IF defs[n].type = "boolean"
      THEN Set(n, [on |-> t.value # "false"]) /\ Goto(cursor + 1)
      ELSE IF t.value = Unset THEN TakeNext(n)
      ELSE Set(n, [kind |-> "word", text |-> t.value]) /\ Goto(cursor + 1)
  BY DEF LongFlag, Token
<1>3. FlagOf(defs, t) = {n} \cap DOMAIN defs
  BY <1>1 DEF FlagOf
<1>4. CASE n \notin DOMAIN defs
  <2>1. FlagOf(defs, t) = {} /\ UsageError
    BY <1>2, <1>3, <1>4
  <2> QED BY <1>1, <2>1, UnknownInv
<1>5. CASE n \in DOMAIN defs
  <2>1. AtFlag(n)
    BY <1>1, <1>3, <1>5, FlagReached
  <2>2. FlagOf(defs, t) = {n} /\ t \in Tokens
    BY <2>1 DEF AtFlag
  <2>3. cursor \in 1 .. Len(argv) /\ Progress(defs, argv, cursor, flags, positionals)
    BY <2>1 DEF AtFlag
  <2>4. RolesOf(defs, argv)[cursor] = Alone(defs, t)
    BY <2>3 DEF Progress
  <2>5. CASE defs[n].type = "boolean"
    <3> DEFINE v == [on |-> t.value # "false"]
    <3>1. Alone(defs, t) = "flag"
      BY <1>1, <2>2, <2>5 DEF Alone
    <3>2. ValueAt(defs, argv, cursor, defs[n].type) = v
      BY <1>1, <2>4, <2>5, <3>1 DEF ValueAt
    <3>3. Set(n, v) /\ Goto(cursor + 1)
      BY <1>2, <1>5, <2>5
    <3> HIDE DEF v
    <3> QED BY <2>1, <2>5, <3>1, <3>2, <3>3, SetInv
  <2>6. CASE defs[n].type # "boolean" /\ t.value = Unset
    <3>1. Alone(defs, t) = "asks"
      BY <1>1, <2>2, <2>6 DEF Alone
    <3>2. TakeNext(n)
      BY <1>2, <1>5, <2>6
    <3> QED BY <2>1, <3>1, <3>2, TakeNextInv
  <2>7. CASE defs[n].type # "boolean" /\ t.value # Unset
    <3> DEFINE v == [kind |-> "word", text |-> t.value]
    <3>1. Alone(defs, t) = "flag"
      BY <1>1, <2>2, <2>7 DEF Alone
    <3>2. ValueAt(defs, argv, cursor, defs[n].type) = v
      BY <2>4, <2>7, <3>1 DEF ValueAt
    <3>3. v \in Tokens
      <4>1. t.value \in Words
        BY <1>1, <2>2, <2>7, TokenShapes
      <4> QED BY <4>1 DEF Tokens
    <3>4. Set(n, v) /\ Goto(cursor + 1)
      BY <1>2, <1>5, <2>7
    <3> HIDE DEF v
    <3> QED BY <2>1, <3>1, <3>2, <3>3, <3>4, SetInv
  <2> QED BY <2>5, <2>6, <2>7
<1> QED BY <1>4, <1>5

LEMMA ShortFlagInv == ASSUME CommandInv, ShortFlag PROVE CommandInv'
<1> DEFINE t == argv[cursor]
           defs == Def.flags
<1>1. Parsing("short") /\ t.kind = "short"
  BY DEF ShortFlag, Parsing, Token
<1>2. FlagOf(defs, t) = Abbreviated(t.name)
  BY <1>1 DEF FlagOf, Abbreviated
<1>3. CASE FlagOf(defs, t) = {}
  <2>1. UsageError
    BY <1>2, <1>3 DEF ShortFlag, Token
  <2> QED BY <1>1, <1>3, <2>1, UnknownInv
<1>4. CASE FlagOf(defs, t) # {}
  <2>1. PICK n \in FlagOf(defs, t) :
          IF defs[n].type = "boolean" THEN Set(n, [on |-> TRUE]) /\ Goto(cursor + 1)
          ELSE TakeNext(n)
    BY <1>2, <1>4 DEF ShortFlag, Token
  <2>2. AtFlag(n)
    BY <1>1, FlagReached
  <2>3. FlagOf(defs, t) = {n}
    BY <2>2 DEF AtFlag
  <2>4. cursor \in 1 .. Len(argv) /\ Progress(defs, argv, cursor, flags, positionals)
    BY <2>2 DEF AtFlag
  <2>5. RolesOf(defs, argv)[cursor] = Alone(defs, t)
    BY <2>4 DEF Progress
  <2>6. CASE defs[n].type = "boolean"
    <3> DEFINE v == [on |-> TRUE]
    <3>1. Alone(defs, t) = "flag"
      BY <1>1, <2>3, <2>6 DEF Alone
    <3>2. ValueAt(defs, argv, cursor, defs[n].type) = v
      BY <1>1, <2>5, <2>6, <3>1 DEF ValueAt
    <3>3. Set(n, v) /\ Goto(cursor + 1)
      BY <2>1, <2>6
    <3> HIDE DEF v
    <3> QED BY <2>2, <2>6, <3>1, <3>2, <3>3, SetInv
  <2>7. CASE defs[n].type # "boolean"
    <3>1. Alone(defs, t) = "asks"
      BY <1>1, <2>3, <2>7 DEF Alone
    <3>2. TakeNext(n)
      BY <2>1, <2>7
    <3> QED BY <2>2, <3>1, <3>2, TakeNextInv
  <2> QED BY <2>6, <2>7
<1> QED BY <1>3, <1>4

LEMMA ParsedInv == ASSUME CommandInv, Parsed PROVE CommandInv'
<1>1. /\ doing = "parsing" /\ cursor > Len(argv) /\ doing' = "checking"
      /\ UNCHANGED <<line, argv, cursor, flags, positionals>> /\ Def' = Def
  BY DEF Parsed, Def
<1>2. cursor = Len(argv) + 1
  BY <1>1 DEF CommandInv, Progress
<1> QED BY <1>1, <1>2 DEF CommandInv

(* What a flag has at the end is what its last mention gave it.             *)
LEMMA AtTheEnd ==
  ASSUME NEW defs, NEW args \in Seq(Tokens), NEW fl, NEW pos, NEW n \in DOMAIN defs,
         Progress(defs, args, Len(args) + 1, fl, pos)
  PROVE  /\ pos = Given(defs, args)
         /\ SetsOf(defs, args, n) = {} => fl[n] = Unset
         /\ SetsOf(defs, args, n) # {} =>
              /\ fl[n] = ValueAt(defs, args, LastOf(SetsOf(defs, args, n)), defs[n].type)
              /\ defs[n].type # "boolean" => fl[n] \in Tokens
<1>1. Len(args) + 1 - 1 = Len(args) /\ DOMAIN args = 1 .. Len(args) /\ Len(args) \in Nat
  OBVIOUS
<1>2. pos = Given(defs, args)
  BY <1>1 DEF Progress, Given, WordsTo
<1>3. Mentions(defs, args, n, Len(args) + 1) = SetsOf(defs, args, n)
  <2>1. \A i \in SetsOf(defs, args, n) : i \in 1 .. Len(args)
    BY <1>1 DEF SetsOf
  <2>2. \A i \in SetsOf(defs, args, n) : i < Len(args) + 1
    BY <1>1, <2>1
  <2> QED BY <2>2 DEF Mentions
<1>4. Says(defs, args, n, Len(args) + 1, fl[n])
  BY DEF Progress
<1> QED BY <1>2, <1>3, <1>4 DEF Says

LEMMA CheckInv == ASSUME CommandInv, CheckArguments PROVE CommandInv'
<1> DEFINE defs == Def.flags
<1>1. /\ doing = "checking" /\ cursor = Len(argv) + 1 /\ argv \in Seq(Tokens)
      /\ Progress(defs, argv, Len(argv) + 1, flags, positionals)
  BY DEF CheckArguments, CommandInv
<1>2. CASE Complete
  <2>1. doing' = "handled" /\ UNCHANGED <<line, argv, cursor, flags, positionals>>
    BY <1>2 DEF CheckArguments
  <2>2. Def' = Def /\ Complete'
    BY <1>2, <2>1 DEF Complete, Def, IsNumber
  <2> QED BY <1>1, <2>1, <2>2 DEF CommandInv
<1>3. CASE ~Complete
  <2>1. UsageError
    BY <1>3 DEF CheckArguments
  <2>2. CASE Def.required /\ positionals = <<>>
    <3>1. Given(defs, argv) = <<>>
      BY <1>1, <2>2 DEF Progress, Given, WordsTo
    <3> QED BY <1>1, <2>1, <2>2, <3>1, RefuseInv DEF Refused
  <2>3. CASE \E n \in DOMAIN flags :
               defs[n].type = "number" /\ flags[n] # Unset /\ ~IsNumber(flags[n])
    <3>1. PICK n \in DOMAIN flags :
               defs[n].type = "number" /\ flags[n] # Unset /\ ~IsNumber(flags[n])
      BY <2>3
    <3>2. n \in DOMAIN defs
      BY <1>1 DEF Progress
    <3> DEFINE S == SetsOf(defs, argv, n)
    <3>3. S # {} /\ flags[n] = ValueAt(defs, argv, LastOf(S), "number") /\ flags[n] \in Tokens
      <4> HIDE DEF defs
      <4>1. /\ S = {} => flags[n] = Unset
            /\ S # {} => /\ flags[n] = ValueAt(defs, argv, LastOf(S), defs[n].type)
                         /\ defs[n].type # "boolean" => flags[n] \in Tokens
        BY <1>1, <3>2, AtTheEnd
      <4> HIDE DEF S
      <4> QED BY <3>1, <4>1
    <3>4. ~IsNumber(ValueAt(defs, argv, LastOf(S), "number"))
      BY <3>1, <3>3
    <3> QED BY <1>1, <2>1, <3>1, <3>3, <3>4, RefuseInv DEF Refused
  <2> QED BY <1>3, <2>2, <2>3 DEF Complete
<1> QED BY <1>2, <1>3

LEMMA HandleInv == ASSUME CommandInv, Handle PROVE CommandInv'
  BY DEF Handle, End, CommandInv

LEMMA CommandStepInv == CommandInv /\ [CommandNext]_commandVars => CommandInv'
<1> SUFFICES ASSUME CommandInv, [CommandNext]_commandVars PROVE CommandInv'
  OBVIOUS
<1>1. CASE UNCHANGED commandVars
  <2>1. UNCHANGED <<doing, line, argv, cursor, flags, positionals>> /\ Def' = Def
    BY <1>1 DEF commandVars, Def
  <2>2. (Complete' <=> Complete) /\ (Refused(Def.flags)' <=> Refused(Def.flags))
    BY <2>1 DEF Complete, Refused, IsNumber
  <2> QED BY <2>1, <2>2 DEF CommandInv
<1> QED BY <1>1, ExecuteInv, EndOfFlagsInv, PositionalInv, LongFlagInv, ShortFlagInv,
        ParsedInv, CheckInv, HandleInv DEF CommandNext, ParseStep

(* Of a line without its --json, a handler gets the words no flag took and  *)
(* the last value of every flag, a number flag any token that Number reads, *)
(* and a line is refused for one of four reasons and no other (parseArgs,   *)
(* execute).                                                                *)
THEOREM HandlersGetLines == CommandSpec => []HandlersGetTheLine
<1>1. CommandSpec => []CommandInv
  BY CommandInitInv, CommandStepInv, PTL DEF CommandSpec
<1>2. CommandInv => HandlersGetTheLine
  <2> SUFFICES ASSUME CommandInv PROVE HandlersGetTheLine
    OBVIOUS
  <2> DEFINE defs == Def.flags
  <2>1. ASSUME doing = "handled"
        PROVE  /\ positionals = Given(defs, argv)
               /\ \A n \in DOMAIN flags :
                    IF SetsOf(defs, argv, n) = {} THEN flags[n] = Unset
                    ELSE /\ flags[n] = ValueAt(defs, argv, LastOf(SetsOf(defs, argv, n)),
                                               defs[n].type)
                         /\ defs[n].type = "number" => IsNumber(flags[n])
               /\ Def.required => positionals # <<>>
    <3>1. /\ argv \in Seq(Tokens) /\ Complete
          /\ Progress(defs, argv, Len(argv) + 1, flags, positionals)
      BY <2>1 DEF CommandInv
    <3>2. positionals = Given(defs, argv)
      BY <3>1 DEF Progress, Given, WordsTo
    <3>3. ASSUME NEW n \in DOMAIN flags
          PROVE  IF SetsOf(defs, argv, n) = {} THEN flags[n] = Unset
                 ELSE /\ flags[n] = ValueAt(defs, argv, LastOf(SetsOf(defs, argv, n)),
                                            defs[n].type)
                      /\ defs[n].type = "number" => IsNumber(flags[n])
      <4>1. n \in DOMAIN defs
        BY <3>1 DEF Progress
      <4>2. /\ SetsOf(defs, argv, n) = {} => flags[n] = Unset
            /\ SetsOf(defs, argv, n) # {} =>
                 /\ flags[n] = ValueAt(defs, argv, LastOf(SetsOf(defs, argv, n)),
                                       defs[n].type)
                 /\ defs[n].type # "boolean" => flags[n] \in Tokens
        <5> HIDE DEF defs
        <5> QED BY <3>1, <4>1, AtTheEnd
      <4>3. (defs[n].type = "number" /\ SetsOf(defs, argv, n) # {}) =>
              IsNumber(flags[n])
        <5> SUFFICES ASSUME defs[n].type = "number", SetsOf(defs, argv, n) # {}
                     PROVE  IsNumber(flags[n])
          OBVIOUS
        <5>1. flags[n] # Unset
          BY <4>2, TokenShapes
        <5> QED BY <3>1, <5>1 DEF Complete
      <4> QED BY <4>2, <4>3
    <3>4. Def.required => positionals # <<>>
      BY <3>1 DEF Complete
    <3> QED BY <3>2, <3>3, <3>4
  <2>2. doing = "refused" => Refused(defs)
    BY DEF CommandInv
  <2>3. doing \in {"handled", "refused"} => argv = WithoutJson(Tail(line))
    BY DEF CommandInv
  <2> QED BY <2>1, <2>2, <2>3 DEF HandlersGetTheLine, Refused
<1> QED BY <1>1, <1>2, PTL
===============================================================================
