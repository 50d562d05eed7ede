------------------------------- MODULE Metrics -------------------------------
(***************************************************************************)
(* The bounded counters of learning/metrics.ts.  A capability without a    *)
(* row in `skill_metrics` has the same effect as one with all counters 0.  *)
(***************************************************************************)
EXTENDS Integers

CONSTANT MAX_OBSERVATIONS

(* The halving is exact only because the bound, 1000 in the code, is even.  *)
ASSUME BoundAssumption ==
    MAX_OBSERVATIONS \in Nat \ {0} /\ MAX_OBSERVATIONS % 2 = 0

Counters == [tasks : Nat, successes : Nat, failures : Nat]

NoObservations == [tasks |-> 0, successes |-> 0, failures |-> 0]

CeilHalf(n) == (n + 1) \div 2

Incremented(m, ok) ==
    [tasks     |-> m.tasks + 1,
     successes |-> IF ok THEN m.successes + 1 ELSE m.successes,
     failures  |-> IF ok THEN m.failures ELSE m.failures + 1]

Halved(m) == [tasks     |-> CeilHalf(m.tasks),
              successes |-> CeilHalf(m.successes),
              failures  |-> CeilHalf(m.failures)]

(* A fault: the successes are not halved with the tasks and the failures.   *)
UpdateMetricsSkewed(m, ok) ==
    LET n == Incremented(m, ok) IN
      IF n.tasks > MAX_OBSERVATIONS
        THEN [Halved(n) EXCEPT !.successes = n.successes] ELSE n

(* A fault: the halving comes one observation late.                         *)
UpdateMetricsLate(m, ok) ==
    LET n == Incremented(m, ok) IN
      IF n.tasks > MAX_OBSERVATIONS + 1 THEN Halved(n) ELSE n

UpdateMetrics(m, ok) ==
    LET n == Incremented(m, ok) IN
      IF n.tasks > MAX_OBSERVATIONS THEN Halved(n) ELSE n

-----------------------------------------------------------------------------
(* What updateMetrics keeps: the two outcomes add up to the tasks, and the  *)
(* tasks are bounded.                                                       *)
Consistent(m) ==
    /\ m \in Counters
    /\ m.tasks = m.successes + m.failures
    /\ m.tasks <= MAX_OBSERVATIONS

Distance(a, b) == IF a > b THEN a - b ELSE b - a

(* "Halving preserves the observed success rate": the rates s1/t1 before    *)
(* and s2/t2 after differ by at most 1/(2 t2), half an observation.         *)
SameRate(m, n) ==
    2 * Distance(n.successes * m.tasks, m.successes * n.tasks) <= m.tasks
=============================================================================
