------------------------------ MODULE Outcomes -------------------------------
(***************************************************************************)
(* The recording side of the learning loop: OutcomeStore.record of         *)
(* learning/outcomes.ts, which first updates the counters of a capability  *)
(* (ReliabilityEngine.record: one read and one write, in no transaction),  *)
(* then stores the outcome under its execution id, then prunes.  The `learn`*)
(* command runs it in a process of its own, so several recordings, and     *)
(* retries of one, interleave at every access to the database.             *)
(***************************************************************************)
EXTENDS Metrics, FiniteSets

CONSTANTS Procs,        \* concurrent invocations
          Caps,         \* capabilities
          Execs,        \* execution ids
          MaxOutcomes,  \* config.learning.maxOutcomes, at least 1
          MaxRecords,   \* bound on the recordings ever started
          MayCrash      \* invocations that may be killed between two steps

ASSUME OutcomesAssumption ==
    MaxOutcomes \in Nat \ {0} /\ MaxRecords \in Nat /\ MayCrash \subseteq Procs

VARIABLES metrics,   \* table `skill_metrics`
          outcomes,  \* table `skill_outcomes`, keyed by exec
          clock,     \* the time, counted in recordings started
          killed,    \* history: capabilities whose last recording was killed
          job        \* job[p]: the recording p is making, or Idle

vars == <<metrics, outcomes, clock, killed, job>>

Idle == [pc |-> "idle"]

Recordings == [pc : {"read", "write", "add", "prune"}, cap : Caps, exec : Execs,
               ok : BOOLEAN, ts : Nat, seen : Counters]

Rows == [exec : Execs, cap : Caps, ok : BOOLEAN, ts : Nat]

Init == /\ metrics = [c \in Caps |-> NoObservations]
        /\ outcomes = {}
        /\ clock = 0
        /\ killed = {}
        /\ job = [p \in Procs |-> Idle]

(* A fault: the outcome is stored before the counters are updated.          *)
RecordOutcomeFirst(p) ==
    /\ job[p] = Idle
    /\ clock < MaxRecords
    /\ \E c \in Caps, e \in Execs, ok \in BOOLEAN :
         /\ job' = [job EXCEPT ![p] = [pc |-> "read", cap |-> c, exec |-> e, ok |-> ok,
                                       ts |-> clock, seen |-> NoObservations]]
         /\ outcomes' = outcomes \cup {[exec |-> e, cap |-> c, ok |-> ok, ts |-> clock]}
    /\ clock' = clock + 1
    /\ UNCHANGED <<metrics, killed>>

(* learn: the execution id is the user's (--execution-id), which may have   *)
(* been used before, or a new one.                                          *)
Record(p) ==
    /\ job[p] = Idle
    /\ clock < MaxRecords
    /\ \E c \in Caps, e \in Execs, ok \in BOOLEAN :
         job' = [job EXCEPT ![p] = [pc |-> "read", cap |-> c, exec |-> e, ok |-> ok,
                                    ts |-> clock, seen |-> NoObservations]]
    /\ clock' = clock + 1
    /\ UNCHANGED <<metrics, outcomes, killed>>

(* getMetrics *)
ReadMetrics(p) ==
    /\ job[p].pc = "read"
    /\ job' = [job EXCEPT ![p].pc = "write", ![p].seen = metrics[job[p].cap]]
    /\ UNCHANGED <<metrics, outcomes, clock, killed>>

(* setMetrics of the counters computed from what was read *)
WriteMetrics(p) ==
    /\ job[p].pc = "write"
    /\ metrics' = [metrics EXCEPT ![job[p].cap] = UpdateMetrics(job[p].seen, job[p].ok)]
    /\ job' = [job EXCEPT ![p].pc = "add"]
    /\ UNCHANGED <<outcomes, clock, killed>>

(* addSkillOutcome: an execution id that is there already keeps its         *)
(* capability and its time, and takes the new result.                       *)
AddOutcome(p) ==
    /\ job[p].pc = "add"
    /\ LET j == job[p]
           old == {r \in outcomes : r.exec = j.exec} IN
         outcomes' = IF old = {}
                       THEN outcomes \cup {[exec |-> j.exec, cap |-> j.cap,
                                            ok |-> j.ok, ts |-> j.ts]}
                       ELSE (outcomes \ old) \cup {[r EXCEPT !.ok = j.ok] : r \in old}
    /\ job' = [job EXCEPT ![p].pc = "prune"]
    /\ UNCHANGED <<metrics, clock, killed>>

(* A fault: the limit is one too many.                                      *)
PruneOffByOne(p) ==
    /\ job[p].pc = "prune"
    /\ outcomes' = {r \in outcomes : r.cap = job[p].cap =>
                      Cardinality({s \in outcomes : s.cap = r.cap /\ s.ts > r.ts}) <= MaxOutcomes}
    /\ killed' = killed \ {job[p].cap}
    /\ job' = [job EXCEPT ![p] = Idle]
    /\ UNCHANGED <<metrics, clock>>

Newer(r) == {s \in outcomes : s.cap = r.cap /\ s.ts > r.ts}

(* pruneSkillOutcomes: the newest MaxOutcomes of the capability stay.       *)
Prune(p) ==
    /\ job[p].pc = "prune"
    /\ outcomes' = {r \in outcomes : r.cap = job[p].cap
                                       => Cardinality(Newer(r)) < MaxOutcomes}
    /\ killed' = killed \ {job[p].cap}
    /\ job' = [job EXCEPT ![p] = Idle]
    /\ UNCHANGED <<metrics, clock>>

Crash(p) ==
    /\ p \in MayCrash
    /\ job[p] # Idle
    /\ killed' = killed \cup {job[p].cap}
    /\ job' = [job EXCEPT ![p] = Idle]
    /\ UNCHANGED <<metrics, outcomes, clock>>

Next == \E p \in Procs : \/ Record(p) \/ ReadMetrics(p) \/ WriteMetrics(p)
                         \/ AddOutcome(p) \/ Prune(p) \/ Crash(p)

Spec == Init /\ [][Next]_vars

-----------------------------------------------------------------------------
(* Properties.                                                              *)

TypeOK ==
    /\ metrics \in [Caps -> Counters]
    /\ outcomes \subseteq Rows
    /\ clock \in Nat
    /\ killed \subseteq Caps
    /\ job \in [Procs -> Recordings \cup {Idle}]

(* Lost updates, retries and kills never leave counters that do not add up, *)
(* nor more than MAX_OBSERVATIONS.                                          *)
MetricsConsistent == \A c \in Caps : Consistent(metrics[c])

(* A recording moves the success rate by its own observation only, however  *)
(* stale the counters it read: where updateMetrics halves them, the rate    *)
(* stays what it was with that observation added, up to rounding.           *)
RateKept ==
    [][\A p \in Procs : WriteMetrics(p) =>
         SameRate(Incremented(job[p].seen, job[p].ok), metrics'[job[p].cap])]_vars

(* A capability with outcomes has counters: ranking, which reads both, never*)
(* sees a reputation without observations.                                  *)
OutcomesAreCounted == \A r \in outcomes : metrics[r.cap].tasks > 0

(* With no recording under way, no capability has more than MaxOutcomes     *)
(* outcomes, unless its last recording was killed.                          *)
PrunedAtRest ==
    (\A p \in Procs : job[p] = Idle) =>
      \A c \in Caps \ killed :
        Cardinality({r \in outcomes : r.cap = c}) <= MaxOutcomes

(* What docs/learning/reputation.md says of --execution-id: "idempotent     *)
(* re-recording of the same run".  The code does not hold to it: the outcome*)
(* is stored once, but its observation is counted again.                    *)
RecordingIsIdempotent ==
    [][\A p \in Procs :
         WriteMetrics(p) /\ (\E r \in outcomes : r.exec = job[p].exec
                                                  /\ r.cap = job[p].cap
                                                  /\ r.ok = job[p].ok)
           => metrics' = metrics]_vars
=============================================================================
