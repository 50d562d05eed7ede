-------------------------------- MODULE Scoring --------------------------------
(***************************************************************************)
(* What learning does to a score: the outcomes recorded for a capability   *)
(* (src/learning/outcomes.ts), its counters, the quality derived from them *)
(* (src/quality/analyzer.ts), and the terms of scoreSingleCapability that  *)
(* depend on them (src/router/factors.ts).  All other terms, of the task,  *)
(* the project and the manifest, are one number, `other`.                  *)
(*                                                                         *)
(* Points are counted in thousandths, as the code rounds them; rates and   *)
(* means are fractions that are rounded where the code rounds them.        *)
(***************************************************************************)
EXTENDS Metrics, Sequences

CONSTANTS Profiles,    \* capabilities: what their manifests declare
          Outcomes,    \* what may be recorded
          Weights,     \* the weights of the strategies
          Unknown,     \* a number that is not there
          maxOutcomes  \* config.learning.maxOutcomes: the rows that are kept

Number(S) == S \cup {Unknown}

Outcome == [success : BOOLEAN, verified : {"pass", "fail", "none"},
            rating : Number(-2..2), latencyMs : Number(Nat)]

Summaries == [usage : Nat, successes : Nat, verified : Nat, verifiable : Nat,
              avgRating : Number(Int), avgLatency : Number(Int)]

ASSUME ScoringAssumption ==
    /\ maxOutcomes \in Nat \ {0}
    /\ Unknown \notin Int /\ Unknown \notin Summaries /\ Outcomes \subseteq Outcome
    /\ \A p \in Profiles :
          /\ p.other \in Int /\ p.completeness \in Int /\ p.latency \in Number(Nat)
          /\ {p.quality, p.reliability, p.successRate} \subseteq Number(Int)
    /\ \A w \in Weights : w.historical \in Nat /\ w.quality \in Nat /\ w.latency \in Nat

reputationWeight == 8   \* config.learning, as it is by default
latencyWeight == 5
contextPenaltyCap == 9

VARIABLES profile,   \* the capability that is scored
          weights,   \* weightsFor the configured strategy
          learning,  \* config.learning.enabled
          rows,      \* its skill_outcomes, oldest first
          counters   \* its skill_metrics, those of tasks

scoringVars == <<profile, weights, learning, rows, counters>>

ScoringInit ==
    /\ profile = Unknown /\ weights = Unknown /\ learning = TRUE
    /\ rows = <<>> /\ counters = NoObservations

-----------------------------------------------------------------------------
RoundDiv(a, b) == (2 * a + b) \div (2 * b)   \* Math.round(a / b)
Between(lo, x, hi) == IF x < lo THEN lo ELSE IF x > hi THEN hi ELSE x

Total(v) ==
    LET upto[i \in 0 .. Len(v)] == IF i = 0 THEN 0 ELSE upto[i - 1] + v[i]
    IN  upto[Len(v)]

Count(s, Test(_)) == Total([i \in 1 .. Len(s) |-> IF Test(s[i]) THEN 1 ELSE 0])

(* What is there of a field, added up.                                      *)
SumOf(s, Field(_)) ==
    Total([i \in 1 .. Len(s) |-> IF Field(s[i]) = Unknown THEN 0 ELSE Field(s[i])])

(* summarizeOutcomes: the mean rating in hundredths, the mean latency in    *)
(* tenths of a millisecond.                                                 *)
Mean(unit, total, number) == IF number = 0 THEN Unknown ELSE RoundDiv(unit * total, number)

Summary(s) ==
    [usage |-> Len(s),
     successes |-> Count(s, LAMBDA o : o.success),
     verified |-> Count(s, LAMBDA o : o.verified = "pass"),
     verifiable |-> Count(s, LAMBDA o : o.verified # "none"),
     avgRating |-> Mean(100, SumOf(s, LAMBDA o : o.rating),
                        Count(s, LAMBDA o : o.rating # Unknown)),
     avgLatency |-> Mean(10, SumOf(s, LAMBDA o : o.latencyMs),
                         Count(s, LAMBDA o : o.latencyMs # Unknown))]

(* A fault: whether learning is enabled is not asked.                       *)
OutcomesAlways == IF rows = <<>> THEN Unknown ELSE Summary(rows)

(* route hands the summaries to the scorer when learning is enabled.        *)
outcomes == IF learning /\ rows # <<>> THEN Summary(rows) ELSE Unknown

-----------------------------------------------------------------------------
(* historyQuality: three quarters success rate, and a point for every ten   *)
(* executions.                                                              *)
historyQuality(summary) ==
    LET n == summary.usage
        coverage == Between(0, n, 250)
    IN RoundDiv(750 * summary.successes + coverage * n, 10 * n)

(* analyzeCapabilityQuality: the declared quality, or the completeness of   *)
(* the manifest and its declared reliability, mixed with the history.       *)
Quality(p, summary) ==
    LET surface == 4 * p.completeness
                   + (IF p.reliability = Unknown THEN 0 ELSE RoundDiv(80 * p.reliability, 100))
        derived == IF summary = Unknown THEN RoundDiv(surface, 4)
                   ELSE RoundDiv(15 * surface + 40 * historyQuality(summary), 100)
    IN IF p.quality # Unknown THEN p.quality ELSE Between(0, derived, 100)

(* The counters count even when learning is disabled.                       *)
Historical(p, w) ==
    CASE counters.tasks > 0 ->
            RoundDiv(1000 * counters.successes, counters.tasks) * w.historical
      [] counters.tasks = 0 /\ p.successRate # Unknown -> 10 * p.successRate * w.historical
      [] counters.tasks = 0 /\ p.successRate = Unknown /\ p.reliability # Unknown ->
            10 * p.reliability * w.historical
      [] OTHER -> 0

(* The nudge of verifications and ratings, bounded by reputationWeight.     *)
Reputation(summary, w) ==
    IF summary = Unknown THEN 0
    ELSE LET m == IF summary.verifiable = 0 THEN 1 ELSE summary.verifiable
             rating == IF summary.avgRating = Unknown THEN 0 ELSE summary.avgRating
             delta == RoundDiv(w.historical * (2000 * summary.verified + 10 * rating * m), 8 * m)
         IN Between(-1000 * reputationWeight, delta, 1000 * reputationWeight)

(* The observed latency, or the declared one.                               *)
Latency(p, summary, w) ==
    IF summary # Unknown /\ summary.avgLatency # Unknown
    THEN -Between(0, RoundDiv(summary.avgLatency * latencyWeight, 10), 1000 * contextPenaltyCap)
    ELSE IF p.latency # Unknown THEN -1000 * p.latency * w.latency ELSE 0

ScoreOf(p, summary, w) ==
    Between(0, RoundDiv(1000 * p.other + 10 * Quality(p, summary) * w.quality
                        + Historical(p, w) + Reputation(summary, w)
                        + Latency(p, summary, w), 1000), 100)

Score == ScoreOf(profile, outcomes, weights)

-----------------------------------------------------------------------------
Choose ==
    /\ profile = Unknown
    /\ profile' \in Profiles /\ weights' \in Weights /\ learning' \in BOOLEAN
    /\ UNCHANGED <<rows, counters>>

(* OutcomeStore.record: the counters, halved at their bound, the row, and   *)
(* the oldest rows go.                                                      *)
Record(o) ==
    /\ profile # Unknown
    /\ counters' = UpdateMetrics(counters, o.success)
    /\ rows' = LET all == Append(rows, o) IN
               IF Len(all) > maxOutcomes THEN Tail(all) ELSE all
    /\ UNCHANGED <<profile, weights, learning>>

(* `config set learning.enabled`.                                           *)
Toggle == /\ profile # Unknown /\ learning' = ~learning
          /\ UNCHANGED <<profile, weights, rows, counters>>

ScoringNext == Choose \/ Toggle \/ \E o \in Outcomes : Record(o)

ScoringSpec == ScoringInit /\ [][ScoringNext]_scoringVars

-----------------------------------------------------------------------------
Best == [success |-> TRUE, verified |-> "pass", rating |-> 2, latencyMs |-> 0]

CeilDiv(a, b) == (a + b - 1) \div b

(* What a halving may take from a score, in points.  Of M tasks and one     *)
(* more, all but one of them successes, it makes M \div 2 + 1 and            *)
(* M \div 2, and the rate falls by (M - 2) / (M * (M + 2)), its most.        *)
HalvingCost(w) ==
    LET M == MAX_OBSERVATIONS
    IN  CeilDiv(CeilDiv(1000 * (M - 2), M * (M + 2)) * w.historical, 1000)

(* Once something was observed, the best outcome there is does not lower a  *)
(* score, whatever it pushes out of the bounded history and however the     *)
(* means, the mixed quality and the nudge are rounded, unless the counters  *)
(* were at their bound: then it may by what the halving costs, which is a   *)
(* point with the bound and the weights of the code.  And while learning is *)
(* disabled, outcomes move a score only through the counters                *)
(* (scoreSingleCapability, analyzeCapabilityQuality, OutcomeStore.record,   *)
(* updateMetrics).                                                          *)
LearningIsSane ==
    [][(profile # Unknown /\ counters.tasks > 0) =>
          /\ Record(Best) =>
                Score' >= Score - IF counters.tasks = MAX_OBSERVATIONS
                                  THEN HalvingCost(weights) ELSE 0
          /\ ~learning => Score = ScoreOf(profile, Unknown, weights)]_scoringVars
=============================================================================
