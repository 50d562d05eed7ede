---------------------------- MODULE OutcomesProofs ----------------------------
(* Proofs about Metrics and Outcomes, for every even bound on the           *)
(* observations and every number of invocations and recordings.             *)
EXTENDS Outcomes, Induction, FiniteSetTheorems, TLAPS

(* updateMetrics keeps the counters consistent.                             *)
THEOREM UpdateConsistent ==
  ASSUME NEW m, Consistent(m), NEW ok \in BOOLEAN
  PROVE  Consistent(UpdateMetrics(m, ok)) /\ UpdateMetrics(m, ok).tasks > 0
<1> DEFINE n == Incremented(m, ok)
<1>1. /\ n \in Counters
      /\ n.tasks = n.successes + n.failures
      /\ n.tasks <= MAX_OBSERVATIONS + 1 /\ n.tasks > 0
  <2>1. /\ m.tasks \in Nat /\ m.successes \in Nat /\ m.failures \in Nat
        /\ m.tasks = m.successes + m.failures /\ m.tasks <= MAX_OBSERVATIONS
    BY DEF Consistent, Counters
  <2>2. CASE ok
    BY <2>1, <2>2, BoundAssumption DEF Counters, Incremented
  <2>3. CASE ~ok
    BY <2>1, <2>3, BoundAssumption DEF Counters, Incremented
  <2> QED BY <2>2, <2>3
<1> HIDE DEF n
<1>2. CASE n.tasks <= MAX_OBSERVATIONS
  BY <1>1, <1>2, BoundAssumption DEF UpdateMetrics, Consistent, Counters, n
<1>3. CASE n.tasks > MAX_OBSERVATIONS
  <2>1. UpdateMetrics(m, ok) = Halved(n)
    BY <1>3 DEF UpdateMetrics, n
  <2>2. n.tasks = MAX_OBSERVATIONS + 1
    BY <1>1, <1>3, BoundAssumption DEF Counters
  <2> DEFINE h == MAX_OBSERVATIONS \div 2
  <2>3. h \in Nat \ {0} /\ MAX_OBSERVATIONS = 2 * h
    BY BoundAssumption
  <2> HIDE DEF h
  <2>4. CeilHalf(n.tasks) = h + 1
    BY <2>2, <2>3 DEF CeilHalf
  <2>5. CeilHalf(n.successes) + CeilHalf(n.failures) = h + 1
    BY <1>1, <2>2, <2>3 DEF CeilHalf, Counters
  <2>6. Halved(n) \in Counters
    BY <1>1 DEF Halved, CeilHalf, Counters
  <2> QED BY <2>1, <2>3, <2>4, <2>5, <2>6 DEF Consistent, Halved, Counters
<1> QED BY <1>1, <1>2, <1>3, BoundAssumption DEF Counters

(* Halving keeps the rate, up to rounding.                                  *)
LEMMA HalvingKeepsRate ==
  ASSUME NEW n \in Counters, NEW h \in Nat, n.tasks = 2 * h + 1,
         n.successes <= n.tasks
  PROVE  SameRate(n, Halved(n))
<1> DEFINE s == n.successes
           t == n.tasks
           s2 == CeilHalf(s)
<1>1. s \in Nat /\ t \in Nat /\ s <= t /\ CeilHalf(t) = h + 1
  BY DEF Counters, CeilHalf
<1>2. PICK e \in {0, 1} : 2 * s2 = s + e
  BY <1>1 DEF CeilHalf
<1>3. s2 \in Nat
  BY <1>1 DEF CeilHalf
<1> HIDE DEF s, t, s2
<1>4. 2 * (s2 * t) - 2 * (s * (h + 1)) = e * t - s
  <2>1. 2 * (s2 * t) = (2 * s2) * t
    BY <1>1, <1>3
  <2>2. (2 * s2) * t = s * t + e * t
    BY <1>1, <1>2
  <2>3. 2 * (s * (h + 1)) = s * (2 * h + 2)
    BY <1>1
  <2>4. s * (2 * h + 2) = s * t + s
    BY <1>1 DEF t
  <2>5. s * t \in Int /\ e * t \in Int /\ s2 * t \in Int /\ s * (h + 1) \in Int
    BY <1>1, <1>2, <1>3
  <2> QED BY <2>1, <2>2, <2>3, <2>4, <2>5, <1>1
<1>5. -t <= e * t - s /\ e * t - s <= t
  BY <1>1, <1>2
<1>6. s2 * t \in Int /\ s * (h + 1) \in Int
  BY <1>1, <1>3
<1>7. 2 * Distance(s2 * t, s * (h + 1)) <= t
  BY <1>1, <1>2, <1>4, <1>5, <1>6 DEF Distance
<1>8. Halved(n).successes = s2 /\ Halved(n).tasks = h + 1
  BY <1>1 DEF Halved, s, s2, t
<1> QED BY <1>7, <1>8 DEF SameRate, s, t

(* updateMetrics keeps the rate as it is with the new observation.          *)
THEOREM UpdateKeepsRate ==
  ASSUME NEW m, Consistent(m), NEW ok \in BOOLEAN
  PROVE  SameRate(Incremented(m, ok), UpdateMetrics(m, ok))
<1> DEFINE n == Incremented(m, ok)
<1>1. /\ n \in Counters /\ n.successes <= n.tasks
      /\ n.tasks <= MAX_OBSERVATIONS + 1
  <2>1. /\ m.tasks \in Nat /\ m.successes \in Nat /\ m.failures \in Nat
        /\ m.tasks = m.successes + m.failures /\ m.tasks <= MAX_OBSERVATIONS
    BY DEF Consistent, Counters
  <2>2. CASE ok
    BY <2>1, <2>2, BoundAssumption DEF Counters, Incremented
  <2>3. CASE ~ok
    BY <2>1, <2>3, BoundAssumption DEF Counters, Incremented
  <2> QED BY <2>2, <2>3
<1> HIDE DEF n
<1>2. CASE n.tasks <= MAX_OBSERVATIONS
  <2>1. UpdateMetrics(m, ok) = n
    BY <1>1, <1>2, BoundAssumption DEF UpdateMetrics, n, Counters
  <2>2. Distance(n.successes * n.tasks, n.successes * n.tasks) = 0
    BY <1>1 DEF Distance, Counters
  <2> QED BY <1>1, <2>1, <2>2 DEF SameRate, Counters, n
<1>3. CASE n.tasks > MAX_OBSERVATIONS
  <2>1. UpdateMetrics(m, ok) = Halved(n)
    BY <1>3 DEF UpdateMetrics, n
  <2> DEFINE h == MAX_OBSERVATIONS \div 2
  <2>2. h \in Nat /\ n.tasks = 2 * h + 1
    BY <1>1, <1>3, BoundAssumption DEF Counters
  <2> HIDE DEF h
  <2>3. SameRate(n, Halved(n))
    BY <1>1, <2>2, HalvingKeepsRate
  <2> QED BY <2>1, <2>3 DEF n
<1> QED BY <1>1, <1>2, <1>3, BoundAssumption DEF Counters

-----------------------------------------------------------------------------
(* The inductive invariant: also the counters a recording has read are      *)
(* consistent, and one that has written them has left an observation.       *)
JobOK(j, m) ==
    j # Idle => /\ Consistent(j.seen)
                /\ j.pc = "add" => m[j.cap].tasks > 0

IInv ==
    /\ TypeOK
    /\ MetricsConsistent
    /\ OutcomesAreCounted
    /\ \A p \in Procs : JobOK(job[p], metrics)

(* Idle is not a recording: every recording is told from it by its pc.      *)
LEMMA JobCases ==
  ASSUME TypeOK, NEW p \in Procs
  PROVE  /\ job[p] \in Recordings \/ job[p] = Idle
         /\ job[p].pc # "idle" => job[p] \in Recordings /\ job[p] # Idle
         /\ job[p].pc = "idle" => job[p] = Idle
BY DEF TypeOK, Recordings, Idle

LEMMA NoObservationsConsistent == Consistent(NoObservations)
BY BoundAssumption DEF Consistent, NoObservations, Counters

LEMMA RecordStep ==
  ASSUME IInv, NEW p \in Procs, Record(p)
  PROVE  IInv'
<1> PICK c \in Caps, e \in Execs, ok \in BOOLEAN :
      job' = [job EXCEPT ![p] = [pc |-> "read", cap |-> c, exec |-> e, ok |-> ok,
                                 ts |-> clock, seen |-> NoObservations]]
  BY DEF Record
<1> DEFINE j == [pc |-> "read", cap |-> c, exec |-> e, ok |-> ok,
                 ts |-> clock, seen |-> NoObservations]
<1>1. j \in Recordings
  BY NoObservationsConsistent DEF Recordings, IInv, TypeOK, Consistent
<1>2. JobOK(j, metrics)
  BY NoObservationsConsistent DEF JobOK
<1>3. UNCHANGED <<metrics, outcomes, killed>> /\ clock' \in Nat
  BY DEF Record, IInv, TypeOK
<1>4. TypeOK'
  BY <1>1, <1>3 DEF IInv, TypeOK
<1>5. \A q \in Procs : JobOK(job'[q], metrics')
  BY <1>2, <1>3 DEF IInv, TypeOK
<1> QED BY <1>3, <1>4, <1>5 DEF IInv, MetricsConsistent, OutcomesAreCounted

LEMMA ReadMetricsStep ==
  ASSUME IInv, NEW p \in Procs, ReadMetrics(p)
  PROVE  IInv'
<1> DEFINE j1 == [job[p] EXCEPT !.pc = "write"]
           j == [j1 EXCEPT !.seen = metrics[job[p].cap]]
<1>1. job[p] \in Recordings /\ UNCHANGED <<metrics, outcomes, clock, killed>>
  BY JobCases DEF ReadMetrics, IInv
<1>2. metrics[job[p].cap] \in Counters /\ Consistent(metrics[job[p].cap])
  BY <1>1 DEF IInv, TypeOK, MetricsConsistent, Recordings
<1>3. j \in Recordings
  <2>1. j1 \in Recordings BY <1>1 DEF Recordings
  <2> HIDE DEF j1
  <2> QED BY <1>2, <2>1 DEF Recordings
<1>4. JobOK(j, metrics)
  BY <1>1, <1>2 DEF JobOK, Recordings
<1>5. job' = [job EXCEPT ![p] = j]
  BY DEF ReadMetrics
<1> HIDE DEF j
<1>6. TypeOK'
  BY <1>1, <1>3, <1>5 DEF IInv, TypeOK
<1>7. \A q \in Procs : JobOK(job'[q], metrics')
  BY <1>1, <1>4, <1>5 DEF IInv, TypeOK
<1> QED BY <1>1, <1>6, <1>7 DEF IInv, MetricsConsistent, OutcomesAreCounted

LEMMA WriteMetricsStep ==
  ASSUME IInv, NEW p \in Procs, WriteMetrics(p)
  PROVE  IInv'
<1> DEFINE c == job[p].cap
           n == UpdateMetrics(job[p].seen, job[p].ok)
           j == [job[p] EXCEPT !.pc = "add"]
<1>1. /\ job[p] \in Recordings /\ job[p] # Idle
      /\ UNCHANGED <<outcomes, clock, killed>>
  BY JobCases DEF WriteMetrics, IInv
<1>2. c \in Caps /\ Consistent(job[p].seen) /\ job[p].ok \in BOOLEAN
  BY <1>1 DEF Recordings, IInv, JobOK
<1>3. Consistent(n) /\ n.tasks > 0 /\ n \in Counters
  BY <1>2, UpdateConsistent DEF Consistent
<1>4. metrics' = [metrics EXCEPT ![c] = n] /\ job' = [job EXCEPT ![p] = j]
  BY DEF WriteMetrics
<1>5. j \in Recordings /\ j.cap = c /\ j.seen = job[p].seen
  BY <1>1 DEF Recordings
<1> HIDE DEF n, j
<1>6. /\ metrics' \in [Caps -> Counters] /\ metrics'[c] = n
      /\ \A d \in Caps : d # c => metrics'[d] = metrics[d]
  BY <1>2, <1>3, <1>4 DEF IInv, TypeOK
<1>7. TypeOK'
  BY <1>1, <1>4, <1>5, <1>6 DEF IInv, TypeOK
<1>8. MetricsConsistent'
  BY <1>3, <1>6 DEF IInv, MetricsConsistent
<1>9. \A d \in Caps : metrics[d].tasks > 0 => metrics'[d].tasks > 0
  BY <1>3, <1>6
<1>10. OutcomesAreCounted'
  BY <1>1, <1>9 DEF IInv, TypeOK, OutcomesAreCounted, Rows
<1>11. ASSUME NEW q \in Procs PROVE JobOK(job'[q], metrics')
  <2>1. CASE q = p
    <3>1. job'[q] = j
      BY <1>4, <2>1 DEF IInv, TypeOK
    <3> QED BY <1>2, <1>3, <1>5, <1>6, <3>1 DEF JobOK
  <2>2. CASE q # p
    <3>1. job'[q] = job[q] /\ JobOK(job[q], metrics)
      BY <1>4, <2>2 DEF IInv, TypeOK
    <3>2. job[q] = Idle \/ job[q].cap \in Caps
      BY JobCases DEF IInv, Recordings
    <3> QED BY <1>9, <3>1, <3>2 DEF JobOK
  <2> QED BY <2>1, <2>2
<1> QED BY <1>7, <1>8, <1>10, <1>11 DEF IInv

LEMMA AddOutcomeStep ==
  ASSUME IInv, NEW p \in Procs, AddOutcome(p)
  PROVE  IInv'
<1> DEFINE j == [job[p] EXCEPT !.pc = "prune"]
           old == {r \in outcomes : r.exec = job[p].exec}
           new == [exec |-> job[p].exec, cap |-> job[p].cap,
                   ok |-> job[p].ok, ts |-> job[p].ts]
<1>1. /\ job[p] \in Recordings /\ job[p] # Idle /\ job[p].pc = "add"
      /\ UNCHANGED <<metrics, clock, killed>>
      /\ job' = [job EXCEPT ![p] = j]
  BY JobCases DEF AddOutcome, IInv
<1>2. j \in Recordings /\ JobOK(j, metrics)
  BY <1>1 DEF Recordings, IInv, JobOK, Idle
<1>3. new \in Rows /\ metrics[new.cap].tasks > 0
  BY <1>1 DEF Rows, Recordings, IInv, JobOK
<1>4. \A r \in old : [r EXCEPT !.ok = job[p].ok] \in Rows
                      /\ [r EXCEPT !.ok = job[p].ok].cap = r.cap
  BY <1>1 DEF Rows, Recordings, IInv, TypeOK
<1>5. \/ outcomes' = outcomes \cup {new}
      \/ outcomes' = (outcomes \ old) \cup {[r EXCEPT !.ok = job[p].ok] : r \in old}
  BY DEF AddOutcome
<1> HIDE DEF j, new
<1>6. outcomes' \subseteq Rows
  BY <1>3, <1>4, <1>5 DEF IInv, TypeOK
<1>7. ASSUME NEW r \in outcomes' PROVE metrics[r.cap].tasks > 0
  <2>1. \A o \in outcomes : metrics[o.cap].tasks > 0
    BY DEF IInv, OutcomesAreCounted
  <2>2. CASE r \in outcomes
    BY <2>1, <2>2
  <2>3. CASE r = new
    BY <1>3, <2>3
  <2>4. CASE r \in {[o EXCEPT !.ok = job[p].ok] : o \in old}
    <3>1. PICK o \in old : r = [o EXCEPT !.ok = job[p].ok]
      BY <2>4
    <3>2. r.cap = o.cap /\ o \in outcomes
      BY <1>4, <3>1
    <3> QED BY <2>1, <3>2
  <2> QED BY <1>5, <2>2, <2>3, <2>4
<1>8. TypeOK'
  BY <1>1, <1>2, <1>6 DEF IInv, TypeOK
<1>9. \A q \in Procs : JobOK(job'[q], metrics')
  BY <1>1, <1>2 DEF IInv, TypeOK
<1> QED BY <1>1, <1>7, <1>8, <1>9 DEF IInv, MetricsConsistent, OutcomesAreCounted

(* Pruning takes outcomes away, and a kill ends a recording.                *)
LEMMA EndStep ==
  ASSUME IInv, NEW p \in Procs, Prune(p) \/ Crash(p)
  PROVE  IInv'
<1>1. /\ outcomes' \subseteq outcomes /\ metrics' = metrics /\ clock' = clock
      /\ job' = [job EXCEPT ![p] = Idle]
  BY DEF Prune, Crash
<1>2. killed' \subseteq Caps
  <2>1. CASE Prune(p)
    BY <2>1 DEF Prune, IInv, TypeOK
  <2>2. CASE Crash(p)
    <3>1. job[p].cap \in Caps
      BY <2>2, JobCases DEF Crash, IInv, Recordings
    <3> QED BY <2>2, <3>1 DEF Crash, IInv, TypeOK
  <2> QED BY <2>1, <2>2
<1>3. TypeOK'
  BY <1>1, <1>2 DEF IInv, TypeOK
<1>4. \A q \in Procs : JobOK(job'[q], metrics')
  BY <1>1 DEF IInv, TypeOK, JobOK
<1> QED BY <1>1, <1>3, <1>4 DEF IInv, MetricsConsistent, OutcomesAreCounted

LEMMA NextStep ==
  ASSUME IInv, [Next]_vars
  PROVE  IInv'
<1>1. CASE UNCHANGED vars
  BY <1>1 DEF vars, IInv, TypeOK, MetricsConsistent, OutcomesAreCounted
<1>2. CASE Next
  BY <1>2, RecordStep, ReadMetricsStep, WriteMetricsStep, AddOutcomeStep, EndStep
  DEF Next
<1> QED BY <1>1, <1>2

LEMMA InitHolds ==
  ASSUME Init
  PROVE  IInv
<1>1. TypeOK
  BY NoObservationsConsistent DEF Init, TypeOK, Consistent
<1>2. MetricsConsistent /\ OutcomesAreCounted /\ \A p \in Procs : JobOK(job[p], metrics)
  BY NoObservationsConsistent DEF Init, MetricsConsistent, OutcomesAreCounted, JobOK
<1> QED BY <1>1, <1>2 DEF IInv

THEOREM InductiveInvariant == Spec => []IInv
BY InitHolds, NextStep, PTL DEF Spec

(* TypeOK, for every number of invocations and every bound.                 *)
THEOREM TypeCorrect == Spec => []TypeOK
<1>1. IInv => TypeOK
  BY DEF IInv
<1> QED BY <1>1, InductiveInvariant, PTL

(* The counters add up and are bounded, whatever recordings interleave.     *)
THEOREM MetricsStayConsistent == Spec => []MetricsConsistent
<1>1. IInv => MetricsConsistent
  BY DEF IInv
<1> QED BY <1>1, InductiveInvariant, PTL

(* No outcome is ever stored of a capability without observations.          *)
THEOREM OutcomesStayCounted == Spec => []OutcomesAreCounted
<1>1. IInv => OutcomesAreCounted
  BY DEF IInv
<1> QED BY <1>1, InductiveInvariant, PTL

(* Every write of the counters keeps the rate they were computed from.      *)
THEOREM RatesAreKept == Spec => RateKept
<1>1. ASSUME IInv, NEW p \in Procs, WriteMetrics(p)
      PROVE  SameRate(Incremented(job[p].seen, job[p].ok), metrics'[job[p].cap])
  <2>1. job[p] \in Recordings /\ job[p] # Idle
    BY <1>1, JobCases DEF WriteMetrics, IInv
  <2>2. job[p].cap \in Caps /\ Consistent(job[p].seen) /\ job[p].ok \in BOOLEAN
    BY <1>1, <2>1 DEF Recordings, IInv, JobOK
  <2>3. metrics'[job[p].cap] = UpdateMetrics(job[p].seen, job[p].ok)
    BY <1>1, <2>2 DEF WriteMetrics, IInv, TypeOK
  <2> QED BY <2>2, <2>3, UpdateKeepsRate
<1>2. IInv => [\A p \in Procs : WriteMetrics(p) =>
         SameRate(Incremented(job[p].seen, job[p].ok), metrics'[job[p].cap])]_vars
  BY <1>1
<1> QED BY <1>2, InductiveInvariant, PTL DEF RateKept
-----------------------------------------------------------------------------
(* Pruning.  The rows are keyed by their execution id, and no two of them,  *)
(* stored or still to be stored, are of the same time; a capability with    *)
(* more rows than the limit is about to be pruned, or its last recording    *)
(* was killed.                                                              *)
Recording(p) == job[p] # Idle

OutcomesOf(c) == {r \in outcomes : r.cap = c}

KeyedByExec == \A r, s \in outcomes : r.exec = s.exec => r = s

RowTimes ==
    /\ \A r \in outcomes : r.ts < clock
    /\ \A r, s \in outcomes : r.ts = s.ts => r = s

JobTimes ==
    \A p \in Procs : Recording(p) =>
      /\ job[p].ts < clock
      /\ \A q \in Procs : (q # p /\ Recording(q)) => job[q].ts # job[p].ts
      /\ job[p].pc # "prune" => \A r \in outcomes : r.ts # job[p].ts

AboutToPrune(c) == \E p \in Procs : Recording(p) /\ job[p].pc = "prune" /\ job[p].cap = c

Pruned ==
    \A c \in Caps \ killed :
      Cardinality(OutcomesOf(c)) <= MaxOutcomes \/ AboutToPrune(c)

PruneInv == IsFiniteSet(outcomes) /\ KeyedByExec /\ RowTimes /\ JobTimes /\ Pruned

LEMMA PruneInvInit ==
  ASSUME Init
  PROVE  PruneInv
<1>1. \A c \in Caps : OutcomesOf(c) = {}
  BY DEF Init, OutcomesOf
<1> QED
  BY <1>1, FS_EmptySet, OutcomesAssumption
  DEF Init, PruneInv, KeyedByExec, RowTimes, JobTimes, Pruned, Recording

(* A recording takes a time of its own.                                     *)
LEMMA RecordPruned ==
  ASSUME IInv, PruneInv, NEW p \in Procs, Record(p)
  PROVE  PruneInv'
<1>1. /\ outcomes' = outcomes /\ killed' = killed /\ clock' = clock + 1 /\ clock \in Nat
      /\ job[p] = Idle
      /\ \A q \in Procs : q # p => job'[q] = job[q]
  BY DEF Record, IInv, TypeOK
<1>2. job'[p] # Idle /\ job'[p].ts = clock /\ job'[p].pc = "read"
  BY DEF Record, IInv, TypeOK, Idle
<1>3. \A r \in outcomes : r.ts \in Nat
  BY DEF IInv, TypeOK, Rows
<1>4. \A q \in Procs : Recording(q) => job[q].ts \in Nat
  BY JobCases DEF IInv, Recording, Recordings
<1>5. (KeyedByExec /\ RowTimes)'
  BY <1>1, <1>3 DEF PruneInv, KeyedByExec, RowTimes
<1>6. JobTimes'
  BY <1>1, <1>2, <1>3, <1>4 DEF PruneInv, JobTimes, RowTimes, Recording
<1>7. \A c \in Caps : AboutToPrune(c) => AboutToPrune(c)'
  BY <1>1 DEF AboutToPrune, Recording
<1>8. Pruned'
  BY <1>1, <1>7 DEF PruneInv, Pruned, OutcomesOf
<1> QED BY <1>1, <1>5, <1>6, <1>8 DEF PruneInv

(* Counting touches no outcome.                                             *)
LEMMA CountPruned ==
  ASSUME IInv, PruneInv, NEW p \in Procs, ReadMetrics(p) \/ WriteMetrics(p)
  PROVE  PruneInv'
<1>1. /\ outcomes' = outcomes /\ killed' = killed /\ clock' = clock
      /\ job[p] \in Recordings /\ job[p] # Idle /\ job[p].pc \in {"read", "write"}
      /\ \A q \in Procs : q # p => job'[q] = job[q]
  BY JobCases DEF ReadMetrics, WriteMetrics, IInv, TypeOK
<1>2. job'[p].ts = job[p].ts
  BY <1>1 DEF ReadMetrics, WriteMetrics, IInv, TypeOK, Recordings
<1>3. (KeyedByExec /\ RowTimes)'
  BY <1>1 DEF PruneInv, KeyedByExec, RowTimes
<1>4. JobTimes'
  BY <1>1, <1>2 DEF PruneInv, JobTimes, Recording
<1>5. \A c \in Caps : AboutToPrune(c) => AboutToPrune(c)'
  BY <1>1 DEF AboutToPrune, Recording
<1>6. Pruned'
  BY <1>1, <1>5 DEF PruneInv, Pruned, OutcomesOf
<1> QED BY <1>1, <1>3, <1>4, <1>6 DEF PruneInv

LEMMA AddedElement ==
  ASSUME NEW S, NEW x, IsFiniteSet(S)
  PROVE  Cardinality(S \cup {x}) <= Cardinality(S) + 1
<1>1. Cardinality(S) \in Nat
  BY FS_CardinalityType
<1>2. Cardinality(S \cup {x}) = IF x \in S THEN Cardinality(S) ELSE Cardinality(S) + 1
  BY FS_AddElement, Zenon
<1> QED BY <1>1, <1>2

(* A row that is stored is of a capability about to be pruned; one that is  *)
(* stored again takes the place of the one row with its execution id.       *)
LEMMA AddOutcomePruned ==
  ASSUME IInv, PruneInv, NEW p \in Procs, AddOutcome(p)
  PROVE  PruneInv'
<1> DEFINE j == job[p]
           old == {r \in outcomes : r.exec = j.exec}
           new == [exec |-> j.exec, cap |-> j.cap, ok |-> j.ok, ts |-> j.ts]
<1>1. /\ killed' = killed /\ clock' = clock
      /\ j \in Recordings /\ j # Idle /\ j.pc = "add"
      /\ \A q \in Procs : q # p => job'[q] = job[q]
  BY JobCases DEF AddOutcome, IInv, TypeOK
<1>2. /\ job'[p].ts = j.ts /\ job'[p].pc = "prune" /\ job'[p].cap = j.cap
      /\ job'[p] # Idle
  BY <1>1 DEF AddOutcome, IInv, TypeOK, Recordings, Idle
<1>3. \A c \in Caps : AboutToPrune(c) => AboutToPrune(c)'
  BY <1>1, <1>2 DEF AboutToPrune, Recording
<1>4. \A c \in Caps : c = j.cap => AboutToPrune(c)'
  BY <1>2 DEF AboutToPrune, Recording
<1>5. CASE old = {}
  <2>1. outcomes' = outcomes \cup {new}
    BY <1>5 DEF AddOutcome
  <2>2. new.exec = j.exec /\ new.cap = j.cap /\ new.ts = j.ts
    OBVIOUS
  <2> HIDE DEF new
  <2>3. IsFiniteSet(outcomes')
    BY <2>1, FS_AddElement DEF PruneInv
  <2>4. KeyedByExec'
    BY <1>5, <2>1, <2>2 DEF PruneInv, KeyedByExec
  <2>5. j.ts < clock /\ \A r \in outcomes : r.ts # j.ts
    BY <1>1 DEF PruneInv, JobTimes, Recording
  <2>6. RowTimes'
    BY <1>1, <2>1, <2>2, <2>5 DEF PruneInv, RowTimes
  <2>7. JobTimes'
    BY <1>1, <1>2, <2>1, <2>2 DEF PruneInv, JobTimes, Recording
  <2>8. ASSUME NEW c \in Caps \ killed, c # j.cap
        PROVE  OutcomesOf(c)' = OutcomesOf(c)
    BY <2>1, <2>2, <2>8 DEF OutcomesOf
  <2>9. ASSUME NEW c \in Caps \ killed'
        PROVE  Cardinality(OutcomesOf(c)') <= MaxOutcomes \/ AboutToPrune(c)'
    <3>1. CASE c = j.cap
      BY <1>4, <3>1
    <3>2. CASE c # j.cap
      <4>1. OutcomesOf(c)' = OutcomesOf(c) /\ c \in Caps \ killed
        BY <1>1, <2>8, <3>2
      <4>2. Cardinality(OutcomesOf(c)) <= MaxOutcomes \/ AboutToPrune(c)
        BY <4>1 DEF PruneInv, Pruned
      <4> QED BY <1>3, <4>1, <4>2
    <3> QED BY <3>1, <3>2
  <2>10. Pruned'
    BY <2>9 DEF Pruned
  <2> QED BY <2>3, <2>4, <2>6, <2>7, <2>10 DEF PruneInv
<1>6. CASE old # {}
  <2>1. PICK o \in outcomes : o.exec = j.exec
    BY <1>6
  <2> DEFINE o2 == [o EXCEPT !.ok = j.ok]
  <2>2. old = {o}
    BY <2>1 DEF PruneInv, KeyedByExec
  <2>3. outcomes' = (outcomes \ {o}) \cup {o2}
    BY <1>6, <2>2 DEF AddOutcome
  <2>4. o2.exec = o.exec /\ o2.cap = o.cap /\ o2.ts = o.ts
    BY DEF IInv, TypeOK, Rows
  <2> HIDE DEF o2
  <2>5. IsFiniteSet(outcomes')
    BY <2>3, FS_AddElement, FS_RemoveElement DEF PruneInv
  <2>6. KeyedByExec'
    BY <2>3, <2>4 DEF PruneInv, KeyedByExec
  <2>7. RowTimes'
    BY <1>1, <2>3, <2>4 DEF PruneInv, RowTimes
  <2>8. JobTimes'
    BY <1>1, <1>2, <2>3, <2>4 DEF PruneInv, JobTimes, Recording
  <2>9. ASSUME NEW c \in Caps
        PROVE  Cardinality(OutcomesOf(c)') <= Cardinality(OutcomesOf(c))
    <3>1. IsFiniteSet(OutcomesOf(c)) /\ Cardinality(OutcomesOf(c)) \in Nat
      BY FS_Subset, FS_CardinalityType DEF PruneInv, OutcomesOf
    <3>2. CASE o.cap = c
      <4>1. OutcomesOf(c)' = (OutcomesOf(c) \ {o}) \cup {o2} /\ o \in OutcomesOf(c)
        BY <2>3, <2>4, <3>2 DEF OutcomesOf
      <4>2. /\ IsFiniteSet(OutcomesOf(c) \ {o})
            /\ Cardinality(OutcomesOf(c) \ {o}) = Cardinality(OutcomesOf(c)) - 1
        BY <3>1, <4>1, FS_RemoveElement
      <4> DEFINE others == OutcomesOf(c) \ {o}
      <4>3. IsFiniteSet(others) /\ Cardinality(others) \in Nat
        BY <4>2, FS_CardinalityType
      <4>4. Cardinality(others \cup {o2}) <= Cardinality(others) + 1
        <5> HIDE DEF others
        <5> QED BY <4>3, AddedElement
      <4> QED BY <3>1, <4>1, <4>2, <4>4
    <3>3. CASE o.cap # c
      <4>1. OutcomesOf(c)' = OutcomesOf(c)
        BY <2>3, <2>4, <3>3 DEF OutcomesOf
      <4> QED BY <3>1, <4>1
    <3> QED BY <3>2, <3>3
  <2>10. Pruned'
    <3>1. \A c \in Caps : Cardinality(OutcomesOf(c)) \in Nat /\ Cardinality(OutcomesOf(c)') \in Nat
      BY <2>5, FS_Subset, FS_CardinalityType DEF PruneInv, OutcomesOf
    <3> QED BY <1>1, <1>3, <2>9, <3>1, OutcomesAssumption DEF PruneInv, Pruned
  <2> QED BY <2>5, <2>6, <2>7, <2>8, <2>10 DEF PruneInv
<1> QED BY <1>5, <1>6

(* Of rows that each have fewer than MaxOutcomes newer ones, there are no   *)
(* more than MaxOutcomes: all but the oldest are newer than the oldest.     *)
LEMMA FewHaveFewNewer ==
  ASSUME TypeOK, IsFiniteSet(outcomes), RowTimes, NEW c,
         NEW S, S \subseteq OutcomesOf(c),
         \A r \in S : Cardinality(Newer(r)) < MaxOutcomes
  PROVE  Cardinality(S) <= MaxOutcomes
<1>1. IsFiniteSet(S) /\ Cardinality(S) \in Nat
  BY FS_Subset, FS_CardinalityType DEF OutcomesOf
<1>2. CASE S = {}
  BY <1>2, FS_EmptySet, OutcomesAssumption
<1>3. CASE S # {}
  <2> DEFINE N == {r.ts : r \in S}
  <2>1. \A r \in S : r \in outcomes /\ r.cap = c /\ r.ts \in Nat
    BY DEF OutcomesOf, TypeOK, Rows
  <2>2. N \subseteq Nat /\ N # {}
    BY <1>3, <2>1
  <2> HIDE DEF N
  <2>3. PICK n \in N : \A k \in N : n <= k
    BY <2>2, LeastNatural
  <2>4. PICK oldest \in S : \A r \in S : oldest.ts <= r.ts
    BY <2>3 DEF N
  <2>5. S \ {oldest} \subseteq Newer(oldest)
    BY <2>1, <2>4 DEF Newer, RowTimes
  <2>6. IsFiniteSet(Newer(oldest)) /\ Cardinality(Newer(oldest)) \in Nat
    BY FS_Subset, FS_CardinalityType DEF Newer
  <2>7. Cardinality(S \ {oldest}) <= Cardinality(Newer(oldest))
    BY <2>5, <2>6, FS_Subset
  <2>8. Cardinality(S \ {oldest}) = Cardinality(S) - 1
    BY <1>1, FS_RemoveElement
  <2> QED BY <1>1, <2>4, <2>6, <2>7, <2>8, OutcomesAssumption
<1> QED BY <1>2, <1>3

LEMMA PrunePruned ==
  ASSUME IInv, PruneInv, NEW p \in Procs, Prune(p)
  PROVE  PruneInv'
<1> DEFINE c == job[p].cap
<1>1. /\ outcomes' = {r \in outcomes : r.cap = c => Cardinality(Newer(r)) < MaxOutcomes}
      /\ killed' = killed \ {c} /\ clock' = clock
      /\ job' = [job EXCEPT ![p] = Idle]
  BY DEF Prune
<1> HIDE DEF c
<1>2. outcomes' \subseteq outcomes /\ IsFiniteSet(outcomes')
  BY <1>1, FS_Subset DEF PruneInv
<1>3. job'[p] = Idle /\ \A q \in Procs : q # p => job'[q] = job[q]
  BY <1>1 DEF IInv, TypeOK
<1>4. (KeyedByExec /\ RowTimes)'
  BY <1>1, <1>2 DEF PruneInv, KeyedByExec, RowTimes
<1>5. JobTimes'
  BY <1>1, <1>2, <1>3 DEF PruneInv, JobTimes, Recording
<1>6. ASSUME NEW d \in Caps \ killed'
      PROVE  Cardinality(OutcomesOf(d)') <= MaxOutcomes \/ AboutToPrune(d)'
  <2>1. CASE d = c
    <3>1. /\ OutcomesOf(d)' \subseteq OutcomesOf(d)
          /\ \A r \in OutcomesOf(d)' : Cardinality(Newer(r)) < MaxOutcomes
      BY <1>1, <2>1 DEF OutcomesOf
    <3> QED BY <3>1, FewHaveFewNewer DEF PruneInv, IInv
  <2>2. CASE d # c
    <3>1. OutcomesOf(d)' = OutcomesOf(d) /\ d \in Caps \ killed
      BY <1>1, <2>2 DEF OutcomesOf
    <3>2. AboutToPrune(d) => AboutToPrune(d)'
      BY <1>3, <2>2 DEF AboutToPrune, Recording, c
    <3> QED BY <3>1, <3>2 DEF PruneInv, Pruned
  <2> QED BY <2>1, <2>2
<1>7. Pruned'
  BY <1>6 DEF Pruned
<1> QED BY <1>2, <1>4, <1>5, <1>7 DEF PruneInv

LEMMA CrashPruned ==
  ASSUME IInv, PruneInv, NEW p \in Procs, Crash(p)
  PROVE  PruneInv'
<1>1. /\ outcomes' = outcomes /\ killed' = killed \cup {job[p].cap} /\ clock' = clock
      /\ job'[p] = Idle /\ \A q \in Procs : q # p => job'[q] = job[q]
  BY DEF Crash, IInv, TypeOK
<1>2. (KeyedByExec /\ RowTimes)'
  BY <1>1 DEF PruneInv, KeyedByExec, RowTimes
<1>3. JobTimes'
  BY <1>1 DEF PruneInv, JobTimes, Recording
<1>4. \A c \in Caps : c # job[p].cap /\ AboutToPrune(c) => AboutToPrune(c)'
  BY <1>1 DEF AboutToPrune, Recording
<1>5. Pruned'
  BY <1>1, <1>4 DEF PruneInv, Pruned, OutcomesOf
<1> QED BY <1>1, <1>2, <1>3, <1>5 DEF PruneInv

LEMMA PruneInvStep ==
  ASSUME IInv, PruneInv, [Next]_vars
  PROVE  PruneInv'
<1>1. CASE UNCHANGED vars
  BY <1>1 DEF vars, PruneInv, KeyedByExec, RowTimes, JobTimes, Pruned, OutcomesOf,
              AboutToPrune, Recording
<1>2. CASE Next
  BY <1>2, RecordPruned, CountPruned, AddOutcomePruned, PrunePruned, CrashPruned DEF Next
<1> QED BY <1>1, <1>2

(* However recordings interleave and are retried, when none is under way no *)
(* capability has more outcomes than the limit, unless its last recording   *)
(* was killed (pruneSkillOutcomes).                                         *)
THEOREM OutcomesStayPruned == Spec => []PrunedAtRest
<1>1. Spec => []PruneInv
  BY InductiveInvariant, PruneInvInit, PruneInvStep, PTL DEF Spec
<1>2. PruneInv => PrunedAtRest
  BY DEF PruneInv, Pruned, PrunedAtRest, OutcomesOf, AboutToPrune, Recording
<1> QED BY <1>1, <1>2, PTL
=============================================================================
