-------------------------- MODULE SkillRouterProofs --------------------------
(***************************************************************************)
(* Proofs about SkillRouter, for every set of invocations, capabilities    *)
(* and agents, and every configuration.                                    *)
(***************************************************************************)
EXTENDS SkillRouter, FiniteSetTheorems, Induction, TLAPS

-----------------------------------------------------------------------------
(* What the two transitionState functions store, for every state they may   *)
(* have read.                                                               *)

(* The rows of the transition table for the states that rows and walks hold.*)
LEMMA PermittedValues ==
  /\ Permitted("DISCOVERED") = {"INSTALLED", "AVAILABLE"}
  /\ Permitted("INSTALLED") = {"AVAILABLE", "FAILED", "DISABLED", "OUTDATED"}
  /\ Permitted("AVAILABLE") = {"ENABLED", "DISABLED", "INSTALLED"}
  /\ Permitted("ENABLED") = {"CANDIDATE", "DISABLED", "ACTIVE", "BLOCKED",
                             "OUTDATED", "INSTALLED", "SUSPENDED"}
  /\ Permitted("ACTIVE") = {"ENABLED", "SUSPENDED", "FAILED", "BLOCKED",
                            "OUTDATED", "INSTALLED", "DISABLED"}
  /\ Permitted("DISABLED") = {"ENABLED", "AVAILABLE"}
BY DEF Permitted

(* indexOf in the chain of states.                                          *)
LEMMA Positions ==
  /\ Position("INSTALLED") = 1 /\ Position("AVAILABLE") = 2
  /\ Position("ENABLED") = 3   /\ Position("ACTIVE") = 4
  /\ Position("DISABLED") = 0  /\ Position("DISCOVERED") = 0
BY DEF Position

(* Every link of the chain both walks follow is a legal transition.         *)
LEMMA LinksAreLegal ==
  \A k \in 1..3 : CanTransition(Chain[k], Chain[k + 1])
<1>1. /\ Chain[1] = "INSTALLED" /\ Chain[2] = "AVAILABLE"
      /\ Chain[3] = "ENABLED"   /\ Chain[4] = "ACTIVE"
  BY DEF Chain
<1> QED BY <1>1, PermittedValues DEF CanTransition

(* The walks of the two loops end where they are meant to.                  *)
LEMMA Walks ==
  /\ Walk(1, 0) = "INSTALLED" /\ Walk(1, 1) = "INSTALLED"
  /\ Walk(1, 3) = "ENABLED"   /\ Walk(1, 4) = "ACTIVE"
  /\ Walk(3, 0) = "ENABLED"   /\ Walk(3, 3) = "ENABLED"
  /\ Walk(3, 4) = "ACTIVE"    /\ Walk(4, 4) = "ACTIVE"
<1>1. /\ Chain[1] = "INSTALLED" /\ Chain[2] = "AVAILABLE"
      /\ Chain[3] = "ENABLED"   /\ Chain[4] = "ACTIVE"
  BY DEF Chain
<1>2. /\ CanTransition("INSTALLED", "AVAILABLE")
      /\ CanTransition("AVAILABLE", "ENABLED")
      /\ CanTransition("ENABLED", "ACTIVE")
  BY PermittedValues DEF CanTransition
<1> QED BY <1>1, <1>2 DEF Walk, Hop

(* Runtime.transitionState stores the state it is asked for, ACTIVE or      *)
(* ENABLED, from whatever state a row may hold and also from no row.        *)
THEOREM RuntimeReachesTarget ==
  ASSUME NEW from \in Resting \cup {"DISCOVERED"}, NEW to \in {"ENABLED", "ACTIVE"}
  PROVE  RuntimeTarget(from, to) = to
<1> USE PermittedValues, Positions, Walks DEF RuntimeTarget, WalkStart, CanTransition
<1>1. CASE from = "DISCOVERED" BY <1>1
<1>2. CASE from = "INSTALLED" BY <1>2
<1>3. CASE from = "ENABLED" BY <1>3
<1>4. CASE from = "DISABLED" BY <1>4
<1>5. CASE from = "ACTIVE" BY <1>5
<1> QED BY <1>1, <1>2, <1>3, <1>4, <1>5 DEF Resting

(* transitionState of the command line does so for DISABLED too.            *)
THEOREM CliReachesTarget ==
  ASSUME NEW from \in Resting \cup {"DISCOVERED"},
         NEW to \in {"ENABLED", "DISABLED", "ACTIVE"}
  PROVE  CliTarget(from, to) = to
<1> USE PermittedValues, Positions, Walks DEF CliTarget, WalkStart, CanTransition
<1>1. CASE from = "DISCOVERED" BY <1>1
<1>2. CASE from = "INSTALLED" BY <1>2
<1>3. CASE from = "ENABLED" BY <1>3
<1>4. CASE from = "DISABLED" BY <1>4
<1>5. CASE from = "ACTIVE" BY <1>5
<1> QED BY <1>1, <1>2, <1>3, <1>4, <1>5 DEF Resting

-----------------------------------------------------------------------------
(* The capabilities with a row.                                            *)
Present == {c \in Caps : row[c] # NoRow}

(* What a command in progress has established about its capability, its    *)
(* plan and its copy of the lockfile, given the capabilities with a row.   *)
JobOK(j, present) ==
    /\ j.pc \notin {"idle", "plan", "confirm", "next", "relock"} => j.cap \in Caps
    /\ WillStore(j) \/ j.pc = "lock" => j.cap \in present
    /\ j.pc \in {"remove", "unregister", "readlock", "unlock"} => j.cmd = "uninstall"
    /\ j.cmd = "route" => j.goal # "DISABLED"
    /\ j.pc \in {"replace", "copy", "upsert", "record"} => j.ver \in Versions
    /\ j.pc = "rewrite" => j.seen \in Resting
    /\ j.deacts \subseteq present
    /\ j.lockCopy \subseteq present

(* The inductive invariant.                                                *)
IInv ==
    /\ TypeOK
    /\ lock \subseteq Present
    /\ \A p \in Procs : JobOK(job[p], Present)

-----------------------------------------------------------------------------
(* JobOK only gets easier as rows appear.                                  *)
LEMMA JobOKMonotonic ==
  ASSUME NEW j, NEW S, NEW T, S \subseteq T, JobOK(j, S)
  PROVE  JobOK(j, T)
BY DEF JobOK

(* A finished command establishes nothing.                                 *)
LEMMA IdleOK ==
  ASSUME NEW S
  PROVE  Idle \in Jobs /\ JobOK(Idle, S)
BY DEF Idle, Jobs, JobOK, WillStore, Labels, Commands, Resting

(* What a step of the command p has to keep, all other commands being as   *)
(* they were.                                                              *)
LEMMA StepOfOne ==
  ASSUME IInv, NEW p \in Procs, NEW j \in Jobs,
         job' = [job EXCEPT ![p] = j],
         registry' \subseteq Caps, payload' \subseteq Caps \X Versions,
         version' \in [Caps -> Versions \cup {NoRow}],
         exposed' \in [Agents -> SUBSET Caps],
         row' \in [Caps -> Resting \cup {NoRow}],
         Present \subseteq Present', lock' \subseteq Present',
         JobOK(j, Present')
  PROVE  IInv'
<1>1. TypeOK'
  <2>1. job' \in [Procs -> Jobs]
    BY DEF IInv, TypeOK
  <2>2. lock' \subseteq Caps
    BY DEF Present
  <2> QED BY <2>1, <2>2 DEF TypeOK
<1>2. \A q \in Procs : JobOK(job[q], Present)'
  <2> SUFFICES ASSUME NEW q \in Procs PROVE JobOK(job'[q], Present')
    OBVIOUS
  <2>1. CASE q = p
    BY <2>1 DEF IInv, TypeOK
  <2>2. CASE q # p
    <3>1. job'[q] = job[q] /\ JobOK(job[q], Present)
      BY <2>2 DEF IInv, TypeOK
    <3> QED BY <3>1, JobOKMonotonic
  <2> QED BY <2>1, <2>2
<1> QED BY <1>1, <1>2 DEF IInv

(* A step that changes nothing but its command's own record.               *)
LEMMA LocalStep ==
  ASSUME IInv, NEW p \in Procs, NEW j \in Jobs,
         job' = [job EXCEPT ![p] = j],
         UNCHANGED <<registry, row, version, payload, exposed, lock>>,
         JobOK(j, Present)
  PROVE  IInv'
<1>1. Present' = Present
  BY DEF Present
<1> QED BY <1>1, StepOfOne DEF IInv, TypeOK

-----------------------------------------------------------------------------
(* The commands of state.ts start.                                         *)
LEMMA StateCommandStep ==
  ASSUME IInv, NEW p \in Procs, NEW c \in Caps,
         NEW goal \in {"ENABLED", "DISABLED", "ACTIVE"},
         NEW label \in {"set", "retract", "expose"},
         StateCommand(p, c, goal, label)
  PROVE  IInv'
<1> DEFINE j == [Idle EXCEPT !.pc = label, !.cmd = "state",
                             !.cap = c, !.goal = goal, !.seen = row[c],
                             !.ver = version[c]]
<1>1. row[c] \in Resting /\ c \in Present /\ version[c] \in Versions \cup {NoRow}
  BY DEF StateCommand, Resolved, IInv, TypeOK, Present
<1>2. j \in Jobs
  BY <1>1 DEF Idle, Jobs, Labels, Commands, Resting
<1>3. JobOK(j, Present)
  BY <1>1 DEF Idle, JobOK, WillStore
<1> QED BY <1>2, <1>3, LocalStep DEF StateCommand

(* A change of label alone.                                                *)
LEMMA GotoStep ==
  ASSUME IInv, NEW p \in Procs, NEW label \in Labels, Goto(p, label),
         UNCHANGED <<registry, row, version, payload, exposed, lock>>,
         JobOK([job[p] EXCEPT !.pc = label], Present)
  PROVE  IInv'
<1>1. [job[p] EXCEPT !.pc = label] \in Jobs
  BY DEF IInv, TypeOK, Jobs
<1> QED BY <1>1, LocalStep DEF Goto

(* A command ends.                                                         *)
LEMMA FinishStep ==
  ASSUME IInv, NEW p \in Procs, Finish(p),
         UNCHANGED <<registry, row, version, payload, exposed, lock>>
  PROVE  IInv'
BY IdleOK, LocalStep DEF Finish

-----------------------------------------------------------------------------
(* The loops over the adapters.                                            *)
LEMMA ExposeNextStep ==
  ASSUME IInv, NEW p \in Procs, ExposeNext(p)
  PROVE  IInv'
<1>1. job[p] \in Jobs /\ JobOK(job[p], Present) /\ job[p].pc = "expose"
  BY DEF IInv, TypeOK, ExposeNext
<1>2. job[p].cap \in Caps
  BY <1>1 DEF JobOK
<1>3. PICK j \in {[job[p] EXCEPT !.at = @ + 1, !.synced = TRUE],
                 [job[p] EXCEPT !.at = @ + 1]} : job' = [job EXCEPT ![p] = j]
  BY DEF ExposeNext
<1>4. j \in Jobs /\ JobOK(j, Present)
  <2>1. CASE j = [job[p] EXCEPT !.at = @ + 1, !.synced = TRUE]
    <3> DEFINE k == [job[p] EXCEPT !.at = @ + 1]
    <3>1. k \in Jobs
      BY <1>1 DEF Jobs
    <3> HIDE DEF k
    <3>2. [k EXCEPT !.synced = TRUE] \in Jobs
      BY <3>1 DEF Jobs
    <3>3. j = [k EXCEPT !.synced = TRUE]
      BY <1>1, <2>1 DEF k
    <3>4. JobOK(j, Present)
      BY <1>1, <2>1 DEF Jobs, JobOK, WillStore
    <3> QED BY <3>2, <3>3, <3>4
  <2>2. CASE j = [job[p] EXCEPT !.at = @ + 1]
    BY <1>1, <2>2 DEF Jobs, JobOK, WillStore
  <2> QED BY <1>3, <2>1, <2>2
<1>5. exposed' \in [Agents -> SUBSET Caps]
  BY <1>2 DEF ExposeNext, Exposed, IInv, TypeOK
<1>6. UNCHANGED <<registry, row, version, payload, lock>> /\ Present' = Present
  BY DEF ExposeNext, Present
<1> QED BY <1>3, <1>4, <1>5, <1>6, StepOfOne DEF IInv, TypeOK

LEMMA ExposeDoneStep ==
  ASSUME IInv, NEW p \in Procs, ExposeDone(p)
  PROVE  IInv'
<1>1. job[p] \in Jobs /\ JobOK(job[p], Present) /\ job[p].pc = "expose"
  BY DEF IInv, TypeOK, ExposeDone
<1>2. PICK label \in {"fresh", "set", "next"} : Goto(p, label)
  BY DEF ExposeDone
<1>3. JobOK([job[p] EXCEPT !.pc = label], Present)
  BY <1>1 DEF JobOK, WillStore, Jobs
<1> QED BY <1>2, <1>3, GotoStep DEF ExposeDone, Labels

LEMMA RetractNextStep ==
  ASSUME IInv, NEW p \in Procs, RetractNext(p)
  PROVE  IInv'
<1> DEFINE j == [job[p] EXCEPT !.at = @ + 1]
<1>1. job[p] \in Jobs /\ JobOK(job[p], Present)
  BY DEF IInv, TypeOK
<1>2. job' = [job EXCEPT ![p] = j] /\ j \in Jobs /\ JobOK(j, Present)
  <2>1. job' = [job EXCEPT ![p] = j]
    BY DEF RetractNext
  <2>2. j \in Jobs /\ JobOK(j, Present)
    BY <1>1 DEF Jobs, JobOK, WillStore
  <2> QED BY <2>1, <2>2
<1>3. exposed' \in [Agents -> SUBSET Caps]
  BY DEF RetractNext, ExposedAfterRemoval, IInv, TypeOK
<1>4. payload' \subseteq Caps \X Versions
  BY DEF RetractNext, PayloadAfterRemoval, IInv, TypeOK
<1>5. UNCHANGED <<registry, row, version, lock>> /\ Present' = Present
  BY DEF RetractNext, Present
<1> QED BY <1>2, <1>3, <1>4, <1>5, StepOfOne DEF IInv, TypeOK

LEMMA RetractDoneStep ==
  ASSUME IInv, NEW p \in Procs, RetractDone(p)
  PROVE  IInv'
<1>1. CASE job[p].cmd = "uninstall"
  BY <1>1, FinishStep DEF RetractDone
<1>2. CASE job[p].cmd # "uninstall"
  <2>1. job[p] \in Jobs /\ JobOK(job[p], Present) /\ job[p].pc = "retract"
    BY DEF IInv, TypeOK, RetractDone
  <2>2. JobOK([job[p] EXCEPT !.pc = "set"], Present)
    BY <1>2, <2>1 DEF JobOK, WillStore, Jobs
  <2> QED BY <1>2, <2>2, GotoStep DEF RetractDone, Labels
<1> QED BY <1>1, <1>2

(* The state stored is resting, and is the command's goal.                 *)
LEMMA StoreGoal ==
  ASSUME IInv, NEW p \in Procs, SetState(p)
  PROVE  /\ row' = [row EXCEPT ![job[p].cap] = job[p].goal]
         /\ job[p].cap \in Present
<1>1. job[p] \in Jobs /\ JobOK(job[p], Present) /\ job[p].pc = "set"
  BY DEF IInv, TypeOK, SetState
<1>2. job[p].cap \in Present
  BY <1>1 DEF JobOK, WillStore
<1>3. job[p].goal \in {"ENABLED", "DISABLED", "ACTIVE"}
      /\ job[p].seen \in Resting \cup {"DISCOVERED"}
  BY <1>1 DEF Jobs
<1>4. CASE job[p].cmd = "route"
  <2>1. job[p].goal \in {"ENABLED", "ACTIVE"}
    BY <1>1, <1>3, <1>4 DEF JobOK
  <2>2. RuntimeTarget(job[p].seen, job[p].goal) = job[p].goal
    BY <1>3, <2>1, RuntimeReachesTarget
  <2> QED BY <1>2, <1>4, <2>2 DEF SetState, Store, Present
<1>5. CASE job[p].cmd # "route"
  <2>1. CliTarget(job[p].seen, job[p].goal) = job[p].goal
    BY <1>3, CliReachesTarget
  <2> QED BY <1>2, <1>5, <2>1 DEF SetState, Store, Present
<1> QED BY <1>2, <1>4, <1>5

(* A step that overwrites a row with a resting state.                      *)
LEMMA RowOverwritten ==
  ASSUME IInv, NEW c \in Caps, NEW s \in Resting, row' = [row EXCEPT ![c] = s]
  PROVE  /\ row' \in [Caps -> Resting \cup {NoRow}]
         /\ Present' = Present \cup {c}
<1>1. NoRow \notin Resting
  BY DEF NoRow, Resting
<1> QED BY <1>1 DEF IInv, TypeOK, Present

LEMMA SetStateStep ==
  ASSUME IInv, NEW p \in Procs, SetState(p)
  PROVE  IInv'
<1>1. job[p] \in Jobs /\ JobOK(job[p], Present) /\ job[p].pc = "set"
  BY DEF IInv, TypeOK, SetState
<1>2. job[p].goal \in Resting /\ job[p].cap \in Caps
  BY <1>1 DEF Jobs, JobOK, Resting
<1>3. row' \in [Caps -> Resting \cup {NoRow}] /\ Present' = Present
  BY <1>2, StoreGoal, RowOverwritten
<1>4. PICK j \in {Idle, [job[p] EXCEPT !.pc = "next"]} : job' = [job EXCEPT ![p] = j]
  BY DEF SetState, Finish, Goto
<1>5. j \in Jobs /\ JobOK(j, Present)
  <2>1. CASE j = Idle
    BY <2>1, IdleOK
  <2>2. CASE j = [job[p] EXCEPT !.pc = "next"]
    BY <1>1, <2>2 DEF Jobs, JobOK, WillStore, Labels
  <2> QED BY <1>4, <2>1, <2>2
<1> QED BY <1>3, <1>4, <1>5, StepOfOne DEF SetState, IInv, TypeOK

-----------------------------------------------------------------------------
(* Records of jobs stay typed when one field changes.                      *)
LEMMA JobFields ==
  ASSUME NEW j \in Jobs
  PROVE  /\ \A x \in Labels : [j EXCEPT !.pc = x] \in Jobs
         /\ \A x \in Caps : [j EXCEPT !.cap = x] \in Jobs
         /\ \A x \in {"ENABLED", "DISABLED", "ACTIVE"} : [j EXCEPT !.goal = x] \in Jobs
         /\ \A x \in Resting \cup {"DISCOVERED"} : [j EXCEPT !.seen = x] \in Jobs
         /\ \A x \in Versions \cup {NoRow} : [j EXCEPT !.ver = x] \in Jobs
         /\ [j EXCEPT !.at = 1] \in Jobs
         /\ \A x \in BOOLEAN : [j EXCEPT !.synced = x] \in Jobs
         /\ \A x \in SUBSET Caps : /\ [j EXCEPT !.scored = x] \in Jobs
                                  /\ [j EXCEPT !.acts = x] \in Jobs
                                  /\ [j EXCEPT !.deacts = x] \in Jobs
                                  /\ [j EXCEPT !.lockCopy = x] \in Jobs
BY DEF Jobs

-----------------------------------------------------------------------------
(* route.                                                                  *)
LEMMA RouteRefreshStep ==
  ASSUME IInv, NEW p \in Procs, RouteRefresh(p)
  PROVE  IInv'
<1> DEFINE j == [Idle EXCEPT !.pc = "plan", !.cmd = "route"]
<1>1. registry' \subseteq Caps
  BY CapsAssumption DEF RouteRefresh, IInv, TypeOK
<1>2. j \in Jobs /\ JobOK(j, Present)
  BY DEF Idle, Jobs, JobOK, WillStore, Labels, Commands, Resting
<1>3. UNCHANGED <<row, version, payload, exposed, lock>> /\ Present' = Present
  BY DEF RouteRefresh, Present
<1> QED BY <1>1, <1>2, <1>3, StepOfOne DEF RouteRefresh, IInv, TypeOK

LEMMA RoutePlanStep ==
  ASSUME IInv, NEW p \in Procs, RoutePlan(p)
  PROVE  IInv'
<1> PICK scored \in SUBSET registry :
      \E selected \in SUBSET (scored \ Never) :
      job' = [job EXCEPT
              ![p].pc = "confirm",
              ![p].scored = scored,
              ![p].acts = {c \in selected : ~IsActive(c)},
              ![p].deacts = {c \in scored \ (Never \cup selected) : IsActive(c)}]
  BY DEF RoutePlan
<1> PICK selected \in SUBSET (scored \ Never) :
      job' = [job EXCEPT
              ![p].pc = "confirm",
              ![p].scored = scored,
              ![p].acts = {c \in selected : ~IsActive(c)},
              ![p].deacts = {c \in scored \ (Never \cup selected) : IsActive(c)}]
  OBVIOUS
<1> DEFINE acts == {c \in selected : ~IsActive(c)}
           deacts == {c \in scored \ (Never \cup selected) : IsActive(c)}
           j1 == [job[p] EXCEPT !.pc = "confirm"]
           j2 == [j1 EXCEPT !.scored = scored]
           j3 == [j2 EXCEPT !.acts = acts]
           j == [j3 EXCEPT !.deacts = deacts]
<1>1. job[p] \in Jobs /\ JobOK(job[p], Present) /\ job[p].pc = "plan"
  BY DEF IInv, TypeOK, RoutePlan
<1>2. scored \subseteq Caps /\ acts \subseteq Caps /\ deacts \subseteq Present
  BY DEF IInv, TypeOK, Present, IsActive, NoRow
<1>3. j \in Jobs
  <2>1. j1 \in Jobs BY <1>1, JobFields DEF Labels
  <2>2. j2 \in Jobs BY <1>2, <2>1, JobFields
  <2>3. j3 \in Jobs BY <1>2, <2>2, JobFields
  <2> HIDE DEF j3
  <2> QED BY <1>2, <2>3, JobFields DEF Present
<1>4. JobOK(j, Present)
  BY <1>1, <1>2 DEF Jobs, JobOK, WillStore
<1>5. job' = [job EXCEPT ![p] = j]
  BY <1>1 DEF IInv, TypeOK
<1> QED BY <1>3, <1>4, <1>5, LocalStep DEF RoutePlan

LEMMA RouteApplyStep ==
  ASSUME IInv, NEW p \in Procs, RouteApply(p)
  PROVE  IInv'
<1> DEFINE j1 == [job[p] EXCEPT !.pc = "next"]
           j == [j1 EXCEPT !.lockCopy = lock]
<1>1. job[p] \in Jobs /\ JobOK(job[p], Present) /\ lock \in SUBSET Caps
  BY DEF IInv, TypeOK
<1>2. j \in Jobs
  <2>1. j1 \in Jobs BY <1>1, JobFields DEF Labels
  <2> QED BY <1>1, <2>1, JobFields
<1>3. JobOK(j, Present)
  BY <1>1 DEF Jobs, JobOK, WillStore, IInv
<1>4. job' = [job EXCEPT ![p] = j]
  BY DEF RouteApply
<1> QED BY <1>2, <1>3, <1>4, LocalStep DEF RouteApply

LEMMA RouteActivateStep ==
  ASSUME IInv, NEW p \in Procs, RouteActivate(p)
  PROVE  IInv'
<1> PICK c \in job[p].acts :
      job' = [job EXCEPT ![p] = [job[p] EXCEPT
                !.pc = IF c \in Ask THEN "consent" ELSE "check",
                !.cap = c, !.goal = "ACTIVE", !.seen = CurrentState(c),
                !.at = 1, !.synced = FALSE, !.acts = @ \ {c}]]
  BY DEF RouteActivate
<1> DEFINE j1 == [job[p] EXCEPT !.pc = IF c \in Ask THEN "consent" ELSE "check"]
           j2 == [j1 EXCEPT !.cap = c]
           j3 == [j2 EXCEPT !.goal = "ACTIVE"]
           j4 == [j3 EXCEPT !.seen = CurrentState(c)]
           j5 == [j4 EXCEPT !.at = 1]
           j6 == [j5 EXCEPT !.synced = FALSE]
           j == [j6 EXCEPT !.acts = @ \ {c}]
<1>1. job[p] \in Jobs /\ JobOK(job[p], Present) /\ job[p].pc = "next"
  BY DEF IInv, TypeOK, RouteActivate
<1>2. c \in Caps /\ job[p].acts \ {c} \in SUBSET Caps
  BY <1>1 DEF Jobs
<1>3. CurrentState(c) \in Resting \cup {"DISCOVERED"}
  BY <1>2 DEF CurrentState, IInv, TypeOK
<1>4. j \in Jobs
  <2>1. j1 \in Jobs BY <1>1, JobFields DEF Labels
  <2>2. j2 \in Jobs BY <1>2, <2>1, JobFields
  <2>3. j3 \in Jobs BY <2>2, JobFields
  <2>4. j4 \in Jobs BY <1>3, <2>3, JobFields
  <2>5. j5 \in Jobs BY <2>4, JobFields
  <2>6. j6 \in Jobs BY <2>5, JobFields
  <2> HIDE DEF j6
  <2>7. j6.acts \ {c} \in SUBSET Caps BY <2>6 DEF Jobs
  <2> QED BY <2>6, <2>7, JobFields
<1>5. JobOK(j, Present)
  BY <1>1, <1>2 DEF Jobs, JobOK, WillStore
<1>6. job' = [job EXCEPT ![p] = j]
  OBVIOUS
<1> HIDE DEF j
<1> QED BY <1>4, <1>5, <1>6, LocalStep DEF RouteActivate

LEMMA ConsentStep ==
  ASSUME IInv, NEW p \in Procs, Consent(p)
  PROVE  IInv'
<1>1. job[p] \in Jobs /\ JobOK(job[p], Present) /\ job[p].pc = "consent"
  BY DEF IInv, TypeOK, Consent
<1>2. PICK label \in {"check", "next"} : Goto(p, label)
  BY DEF Consent
<1>3. JobOK([job[p] EXCEPT !.pc = label], Present)
  BY <1>1 DEF JobOK, WillStore, Jobs
<1> QED BY <1>2, <1>3, GotoStep DEF Consent, Labels

(* The install root to expose is that of the row.                           *)
LEMMA LocateStep ==
  ASSUME IInv, NEW p \in Procs, job[p].cap \in Present,
         job' = [job EXCEPT ![p].pc = "expose", ![p].ver = version[job[p].cap]],
         UNCHANGED <<registry, row, version, payload, exposed, lock>>
  PROVE  IInv'
<1> DEFINE v == version[job[p].cap]
           j1 == [job[p] EXCEPT !.pc = "expose"]
           j == [j1 EXCEPT !.ver = v]
<1>1. job[p] \in Jobs /\ JobOK(job[p], Present)
  BY DEF IInv, TypeOK
<1>2. v \in Versions \cup {NoRow}
  BY DEF IInv, TypeOK, Present
<1>3. job' = [job EXCEPT ![p] = j]
  OBVIOUS
<1> HIDE DEF v
<1>4. j \in Jobs
  <2>1. j1 \in Jobs BY <1>1, JobFields DEF Labels
  <2> HIDE DEF j1
  <2> QED BY <1>2, <2>1, JobFields
<1>5. JobOK(j, Present)
  <2>1. j.pc = "expose" /\ j.cap \in Present /\ j.cap \in Caps
    BY <1>1 DEF Jobs, Present
  <2>2. /\ j.cmd = job[p].cmd /\ j.goal = job[p].goal
        /\ j.deacts = job[p].deacts /\ j.lockCopy = job[p].lockCopy
    BY <1>1 DEF Jobs
  <2> HIDE DEF j
  <2> QED BY <1>1, <2>1, <2>2 DEF JobOK
<1> HIDE DEF j
<1> QED BY <1>3, <1>4, <1>5, LocalStep

LEMMA CheckInstalledStep ==
  ASSUME IInv, NEW p \in Procs, CheckInstalled(p)
  PROVE  IInv'
<1>1. job[p] \in Jobs /\ JobOK(job[p], Present) /\ job[p].pc = "check"
  BY DEF IInv, TypeOK, CheckInstalled
<1>2. CASE Goto(p, "next")
  <2>1. JobOK([job[p] EXCEPT !.pc = "next"], Present)
    BY <1>1 DEF JobOK, WillStore, Jobs
  <2> QED BY <1>2, <2>1, GotoStep DEF CheckInstalled, Labels
<1>3. CASE /\ job' = [job EXCEPT ![p].pc = "expose", ![p].ver = version[job[p].cap]]
           /\ row[job[p].cap] # NoRow
  <2>1. job[p].cap \in Present
    BY <1>1, <1>3 DEF JobOK, Present
  <2> QED BY <1>1, <1>3, <2>1, LocateStep DEF CheckInstalled
<1> QED BY <1>2, <1>3 DEF CheckInstalled

LEMMA RouteDeactivateStep ==
  ASSUME IInv, NEW p \in Procs, RouteDeactivate(p)
  PROVE  IInv'
<1> PICK c \in job[p].deacts :
      job' = [job EXCEPT ![p] = [job[p] EXCEPT
                !.pc = "retract", !.cap = c, !.goal = "ENABLED",
                !.seen = CurrentState(c), !.ver = version[c],
                !.at = 1, !.deacts = @ \ {c}]]
  BY DEF RouteDeactivate
<1> DEFINE j1 == [job[p] EXCEPT !.pc = "retract"]
           j2 == [j1 EXCEPT !.cap = c]
           j3 == [j2 EXCEPT !.goal = "ENABLED"]
           j4 == [j3 EXCEPT !.seen = CurrentState(c)]
           j5 == [j4 EXCEPT !.ver = version[c]]
           j6 == [j5 EXCEPT !.at = 1]
           j == [j6 EXCEPT !.deacts = @ \ {c}]
<1>1. job[p] \in Jobs /\ JobOK(job[p], Present) /\ job[p].pc = "next"
  BY DEF IInv, TypeOK, RouteDeactivate
<1>2. c \in Present /\ c \in Caps /\ job[p].deacts \ {c} \in SUBSET Caps
  BY <1>1 DEF JobOK, Jobs
<1>3. /\ CurrentState(c) \in Resting \cup {"DISCOVERED"}
      /\ version[c] \in Versions \cup {NoRow}
  BY <1>2 DEF CurrentState, IInv, TypeOK
<1>4. j \in Jobs
  <2>1. j1 \in Jobs BY <1>1, JobFields DEF Labels
  <2>2. j2 \in Jobs BY <1>2, <2>1, JobFields
  <2>3. j3 \in Jobs BY <2>2, JobFields
  <2>4. j4 \in Jobs BY <1>3, <2>3, JobFields
  <2> HIDE DEF j4
  <2>5. j5 \in Jobs BY <1>3, <2>4, JobFields
  <2>6. j6 \in Jobs BY <2>5, JobFields
  <2> HIDE DEF j6
  <2>7. j6.deacts \ {c} \in SUBSET Caps BY <2>6 DEF Jobs
  <2> QED BY <2>6, <2>7, JobFields
<1>5. JobOK(j, Present)
  BY <1>1, <1>2 DEF Jobs, JobOK, WillStore
<1>6. job' = [job EXCEPT ![p] = j]
  OBVIOUS
<1> HIDE DEF j
<1> QED BY <1>4, <1>5, <1>6, LocalStep DEF RouteDeactivate

LEMMA RoutePlanDoneStep ==
  ASSUME IInv, NEW p \in Procs, RoutePlanDone(p)
  PROVE  IInv'
<1>1. job[p] \in Jobs /\ JobOK(job[p], Present)
  BY DEF IInv, TypeOK
<1>2. JobOK([job[p] EXCEPT !.pc = "relock"], Present)
  BY <1>1 DEF JobOK, WillStore, Jobs
<1> QED BY <1>2, GotoStep DEF RoutePlanDone, Labels

LEMMA RouteWriteLockStep ==
  ASSUME IInv, NEW p \in Procs, RouteWriteLock(p)
  PROVE  IInv'
<1>1. JobOK(job[p], Present)
  BY DEF IInv
<1>2. lock' \subseteq Present /\ Present' = Present
  BY <1>1 DEF JobOK, RouteWriteLock, Present
<1> QED BY <1>2, IdleOK, StepOfOne DEF RouteWriteLock, Finish, IInv, TypeOK

-----------------------------------------------------------------------------
(* install.                                                                *)
LEMMA InstallStartStep ==
  ASSUME IInv, NEW p \in Procs, InstallStart(p)
  PROVE  IInv'
<1> PICK c \in Caps, v \in Versions :
      job' = [job EXCEPT ![p] = [Idle EXCEPT !.pc = "replace",
                !.cmd = "install", !.cap = c, !.ver = v, !.lockCopy = lock]]
  BY DEF InstallStart
<1> DEFINE j == [Idle EXCEPT !.pc = "replace",
                   !.cmd = "install", !.cap = c, !.ver = v, !.lockCopy = lock]
<1>1. j \in Jobs
  BY DEF Idle, Jobs, Labels, Commands, Resting, IInv, TypeOK
<1>2. JobOK(j, Present)
  BY DEF Idle, JobOK, WillStore, IInv
<1> QED BY <1>1, <1>2, LocalStep DEF InstallStart

LEMMA InstallReplaceStep ==
  ASSUME IInv, NEW p \in Procs, InstallReplace(p)
  PROVE  IInv'
<1> DEFINE j == [job[p] EXCEPT !.pc = "copy"]
<1>1. job[p] \in Jobs /\ JobOK(job[p], Present) /\ job[p].pc = "replace"
  BY DEF IInv, TypeOK, InstallReplace
<1>2. j \in Jobs /\ job' = [job EXCEPT ![p] = j]
  BY <1>1, JobFields DEF InstallReplace, Goto, Labels
<1>3. JobOK(j, Present)
  BY <1>1 DEF Jobs, JobOK, WillStore
<1>4. /\ payload' \subseteq Caps \X Versions
      /\ UNCHANGED <<registry, row, version, exposed, lock>> /\ Present' = Present
  BY DEF InstallReplace, IInv, TypeOK, Present
<1> QED BY <1>2, <1>3, <1>4, StepOfOne DEF IInv, TypeOK

LEMMA InstallCopiedStep ==
  ASSUME IInv, NEW p \in Procs, InstallCopied(p)
  PROVE  IInv'
<1> DEFINE j == [job[p] EXCEPT !.pc = "upsert"]
<1>1. job[p] \in Jobs /\ JobOK(job[p], Present) /\ job[p].pc = "copy"
  BY DEF IInv, TypeOK, InstallCopied
<1>2. j \in Jobs /\ job' = [job EXCEPT ![p] = j] /\ job[p].cap \in Caps
  BY <1>1, JobFields DEF InstallCopied, Goto, Labels, JobOK
<1>3. JobOK(j, Present)
  BY <1>1 DEF Jobs, JobOK, WillStore
<1>4. /\ payload' \subseteq Caps \X Versions
      /\ UNCHANGED <<registry, row, version, exposed, lock>> /\ Present' = Present
  BY <1>1, <1>2 DEF InstallCopied, Root, JobOK, IInv, TypeOK, Present
<1> QED BY <1>2, <1>3, <1>4, StepOfOne DEF IInv, TypeOK

LEMMA InstallFailedStep ==
  ASSUME IInv, NEW p \in Procs, InstallFailed(p)
  PROVE  IInv'
<1>1. job[p] \in Jobs /\ JobOK(job[p], Present) /\ job[p].pc = "copy"
  BY DEF IInv, TypeOK, InstallFailed
<1>2. job[p].cap \in Caps
  BY <1>1 DEF JobOK
<1>3. /\ payload' \subseteq Caps \X Versions
      /\ UNCHANGED <<registry, row, version, exposed, lock>> /\ Present' = Present
  BY <1>1, <1>2 DEF InstallFailed, Root, JobOK, IInv, TypeOK, Present
<1> QED BY <1>3, IdleOK, StepOfOne DEF InstallFailed, Finish, IInv, TypeOK

LEMMA InstallUpsertStep ==
  ASSUME IInv, NEW p \in Procs, InstallUpsert(p)
  PROVE  IInv'
<1> DEFINE j == [job[p] EXCEPT !.pc = "record"]
<1>1. job[p] \in Jobs /\ JobOK(job[p], Present) /\ job[p].pc = "upsert"
  BY DEF IInv, TypeOK, InstallUpsert
<1>2. j \in Jobs /\ job' = [job EXCEPT ![p] = j] /\ job[p].cap \in Caps
  BY <1>1, JobFields DEF InstallUpsert, Goto, Labels, JobOK
<1>3. JobOK(j, Present)
  BY <1>1 DEF Jobs, JobOK, WillStore
<1>4. /\ registry' \subseteq Caps
      /\ UNCHANGED <<row, version, payload, exposed, lock>> /\ Present' = Present
  BY <1>2 DEF InstallUpsert, IInv, TypeOK, Present
<1> QED BY <1>2, <1>3, <1>4, StepOfOne DEF IInv, TypeOK

LEMMA InstallRecordStep ==
  ASSUME IInv, NEW p \in Procs, InstallRecord(p)
  PROVE  IInv'
<1> DEFINE j == [job[p] EXCEPT !.pc = "lock"]
<1>1. job[p] \in Jobs /\ JobOK(job[p], Present) /\ job[p].pc = "record"
  BY DEF IInv, TypeOK, InstallRecord
<1>2. j \in Jobs /\ job' = [job EXCEPT ![p] = j] /\ job[p].cap \in Caps
  BY <1>1, JobFields DEF InstallRecord, Goto, Labels, JobOK
<1>3. /\ row' \in [Caps -> Resting \cup {NoRow}]
      /\ Present' = Present \cup {job[p].cap}
  BY <1>2, RowOverwritten DEF InstallRecord, Resting
<1>4. JobOK(j, Present')
  BY <1>1, <1>3 DEF Jobs, JobOK, WillStore
<1>5. version' \in [Caps -> Versions \cup {NoRow}]
  BY <1>1, <1>2 DEF InstallRecord, JobOK, IInv, TypeOK
<1> QED BY <1>2, <1>3, <1>4, <1>5, StepOfOne DEF InstallRecord, IInv, TypeOK

LEMMA InstallWriteLockStep ==
  ASSUME IInv, NEW p \in Procs, InstallWriteLock(p)
  PROVE  IInv'
<1> DEFINE e == [job[p] EXCEPT !.pc = "locate"]
<1>1. job[p] \in Jobs /\ JobOK(job[p], Present) /\ job[p].pc = "lock"
  BY DEF IInv, TypeOK, InstallWriteLock
<1>2. e \in Jobs
  BY <1>1, JobFields DEF Labels
<1>3. JobOK(e, Present)
  BY <1>1 DEF Jobs, JobOK, WillStore
<1>4. lock' \subseteq Present /\ Present' = Present
  BY <1>1 DEF JobOK, InstallWriteLock, Present
<1>5. CASE job' = [job EXCEPT ![p] = e]
  BY <1>2, <1>3, <1>4, <1>5, StepOfOne DEF InstallWriteLock, IInv, TypeOK
<1>6. CASE job' = [job EXCEPT ![p] = Idle]
  BY <1>4, <1>6, IdleOK, StepOfOne DEF InstallWriteLock, IInv, TypeOK
<1> QED BY <1>5, <1>6 DEF InstallWriteLock, Finish, Goto

LEMMA InstallLocateStep ==
  ASSUME IInv, NEW p \in Procs, InstallLocate(p)
  PROVE  IInv'
<1>1. job[p].cap \in Present
  BY DEF IInv, JobOK, WillStore, InstallLocate
<1> QED BY <1>1, LocateStep DEF InstallLocate

LEMMA InstallRereadStep ==
  ASSUME IInv, NEW p \in Procs, InstallReread(p)
  PROVE  IInv'
<1> DEFINE s == IF row[job[p].cap] = NoRow THEN "INSTALLED" ELSE row[job[p].cap]
           j1 == [job[p] EXCEPT !.pc = "rewrite"]
           j == [j1 EXCEPT !.seen = s]
<1>1. job[p] \in Jobs /\ JobOK(job[p], Present) /\ job[p].pc = "fresh"
  BY DEF IInv, TypeOK, InstallReread
<1>2. s \in Resting
  BY <1>1 DEF JobOK, Resting, IInv, TypeOK
<1>3. j \in Jobs
  <2>1. j1 \in Jobs BY <1>1, JobFields DEF Labels
  <2> HIDE DEF j1, s
  <2> QED BY <1>2, <2>1, JobFields
<1>4. JobOK(j, Present)
  <2> HIDE DEF s
  <2> QED BY <1>1, <1>2 DEF Jobs, JobOK, WillStore
<1>5. job' = [job EXCEPT ![p] = j]
  BY DEF InstallReread
<1> QED BY <1>3, <1>4, <1>5, LocalStep DEF InstallReread

(* The state read is one a row rests in: rows do not disappear.            *)
LEMMA InstallRewriteStep ==
  ASSUME IInv, NEW p \in Procs, InstallRewrite(p)
  PROVE  IInv'
<1>1. job[p] \in Jobs /\ JobOK(job[p], Present) /\ job[p].pc = "rewrite"
  BY DEF IInv, TypeOK, InstallRewrite
<1>2. job[p].cap \in Present /\ job[p].cap \in Caps /\ job[p].seen \in Resting
  BY <1>1 DEF JobOK, WillStore
<1>3. row' = [row EXCEPT ![job[p].cap] = job[p].seen]
  BY <1>2 DEF InstallRewrite, Store, Present
<1>4. /\ row' \in [Caps -> Resting \cup {NoRow}]
      /\ Present' = Present \cup {job[p].cap}
  <2> DEFINE c == job[p].cap
             s == job[p].seen
  <2>1. c \in Caps /\ s \in Resting /\ row' = [row EXCEPT ![c] = s]
    BY <1>2, <1>3
  <2> HIDE DEF c, s
  <2>2. row' \in [Caps -> Resting \cup {NoRow}] /\ Present' = Present \cup {c}
    BY <2>1, RowOverwritten
  <2> QED BY <2>2 DEF c
<1> QED BY <1>2, <1>4, IdleOK, StepOfOne DEF InstallRewrite, Finish, IInv, TypeOK

-----------------------------------------------------------------------------
(* uninstall.                                                              *)
LEMMA UninstallStartStep ==
  ASSUME IInv, NEW p \in Procs, UninstallStart(p)
  PROVE  IInv'
<1> PICK c \in Caps :
      job' = [job EXCEPT ![p] = [Idle EXCEPT !.pc = "remove",
                                   !.cmd = "uninstall", !.cap = c,
                                   !.ver = version[c]]]
  BY DEF UninstallStart
<1> DEFINE j == [Idle EXCEPT !.pc = "remove", !.cmd = "uninstall", !.cap = c,
                             !.ver = version[c]]
<1>1. version[c] \in Versions \cup {NoRow}
  BY DEF IInv, TypeOK
<1>2. j \in Jobs /\ JobOK(j, Present)
  BY <1>1 DEF Idle, Jobs, Labels, Commands, Resting, JobOK, WillStore
<1> QED BY <1>2, LocalStep DEF UninstallStart

LEMMA UninstallPayloadStep ==
  ASSUME IInv, NEW p \in Procs, UninstallPayload(p)
  PROVE  IInv'
<1> DEFINE j == [job[p] EXCEPT !.pc = "unregister"]
<1>1. job[p] \in Jobs /\ JobOK(job[p], Present) /\ job[p].pc = "remove"
  BY DEF IInv, TypeOK, UninstallPayload
<1>2. j \in Jobs /\ job' = [job EXCEPT ![p] = j] /\ job[p].cap \in Caps
  BY <1>1, JobFields DEF UninstallPayload, Goto, Labels, JobOK
<1>3. JobOK(j, Present)
  BY <1>1 DEF Jobs, JobOK, WillStore
<1>4. /\ payload' \subseteq Caps \X Versions
      /\ UNCHANGED <<registry, row, version, exposed, lock>> /\ Present' = Present
  BY DEF UninstallPayload, IInv, TypeOK, Present
<1> QED BY <1>2, <1>3, <1>4, StepOfOne DEF IInv, TypeOK

LEMMA UninstallRegistryStep ==
  ASSUME IInv, NEW p \in Procs, UninstallRegistry(p)
  PROVE  IInv'
<1> DEFINE j == [job[p] EXCEPT !.pc = "readlock"]
<1>1. job[p] \in Jobs /\ JobOK(job[p], Present) /\ job[p].pc = "unregister"
  BY DEF IInv, TypeOK, UninstallRegistry
<1>2. j \in Jobs /\ job' = [job EXCEPT ![p] = j] /\ job[p].cap \in Caps
  BY <1>1, JobFields DEF UninstallRegistry, Goto, Labels, JobOK
<1>3. JobOK(j, Present)
  BY <1>1 DEF Jobs, JobOK, WillStore
<1>4. /\ registry' \subseteq Caps
      /\ UNCHANGED <<row, version, payload, exposed, lock>> /\ Present' = Present
  BY DEF UninstallRegistry, IInv, TypeOK, Present
<1> QED BY <1>2, <1>3, <1>4, StepOfOne DEF IInv, TypeOK

LEMMA UninstallReadLockStep ==
  ASSUME IInv, NEW p \in Procs, UninstallReadLock(p)
  PROVE  IInv'
<1> DEFINE j1 == [job[p] EXCEPT !.pc = "unlock"]
           j == [j1 EXCEPT !.lockCopy = lock]
<1>1. /\ job[p] \in Jobs /\ JobOK(job[p], Present) /\ lock \in SUBSET Caps
      /\ job[p].pc = "readlock"
  BY DEF IInv, TypeOK, UninstallReadLock
<1>2. j \in Jobs
  <2>1. j1 \in Jobs BY <1>1, JobFields DEF Labels
  <2> HIDE DEF j1
  <2> QED BY <1>1, <2>1, JobFields
<1>3. JobOK(j, Present)
  BY <1>1 DEF Jobs, JobOK, WillStore, IInv
<1>4. job' = [job EXCEPT ![p] = j]
  BY DEF UninstallReadLock
<1> QED BY <1>2, <1>3, <1>4, LocalStep DEF UninstallReadLock

LEMMA UninstallWriteLockStep ==
  ASSUME IInv, NEW p \in Procs, UninstallWriteLock(p)
  PROVE  IInv'
<1> DEFINE j == [job[p] EXCEPT !.pc = "retract"]
<1>1. job[p] \in Jobs /\ JobOK(job[p], Present) /\ job[p].pc = "unlock"
  BY DEF IInv, TypeOK, UninstallWriteLock
<1>2. j \in Jobs /\ job' = [job EXCEPT ![p] = j] /\ job[p].cap \in Caps
  BY <1>1, JobFields DEF UninstallWriteLock, Goto, Labels, JobOK
<1>3. JobOK(j, Present)
  BY <1>1 DEF Jobs, JobOK, WillStore
<1>4. /\ lock' \subseteq Present
      /\ UNCHANGED <<registry, row, version, payload, exposed>> /\ Present' = Present
  BY <1>1 DEF UninstallWriteLock, JobOK, Present
<1> QED BY <1>2, <1>3, <1>4, StepOfOne DEF IInv, TypeOK

-----------------------------------------------------------------------------
(* The invariant is inductive: every action preserves it.                  *)
LEMMA StartStep ==
  ASSUME IInv, NEW p \in Procs, Start(p)
  PROVE  IInv'
<1>1. CASE Enable(p) \/ ForceEnable(p) \/ Disable(p) \/ Activate(p) \/ Deactivate(p)
  BY <1>1, StateCommandStep
  DEF Enable, ForceEnable, Disable, Activate, Deactivate
<1>2. CASE RouteRefresh(p) BY <1>2, RouteRefreshStep
<1>3. CASE InstallStart(p) BY <1>3, InstallStartStep
<1>4. CASE UninstallStart(p) BY <1>4, UninstallStartStep
<1> QED BY <1>1, <1>2, <1>3, <1>4 DEF Start

LEMMA ContinueStep ==
  ASSUME IInv, NEW p \in Procs, Continue(p)
  PROVE  IInv'
<1>1. CASE ExposeNext(p) \/ ExposeDone(p) \/ RetractNext(p) \/ RetractDone(p)
           \/ SetState(p)
  BY <1>1, ExposeNextStep, ExposeDoneStep, RetractNextStep, RetractDoneStep, SetStateStep
<1>2. CASE RoutePlan(p) \/ RouteApply(p) \/ RouteActivate(p) \/ Consent(p)
           \/ CheckInstalled(p)
  BY <1>2, RoutePlanStep, RouteApplyStep, RouteActivateStep, ConsentStep, CheckInstalledStep
<1>3. CASE RouteDeactivate(p) \/ RoutePlanDone(p) \/ RouteWriteLock(p)
  BY <1>3, RouteDeactivateStep, RoutePlanDoneStep, RouteWriteLockStep
<1>4. CASE RouteDecline(p)
  BY <1>4, FinishStep DEF RouteDecline
<1>5. CASE InstallReplace(p) \/ InstallCopied(p) \/ InstallFailed(p)
           \/ InstallUpsert(p) \/ InstallRecord(p)
  BY <1>5, InstallReplaceStep, InstallCopiedStep, InstallFailedStep,
     InstallUpsertStep, InstallRecordStep
<1>6. CASE InstallWriteLock(p) \/ InstallLocate(p) \/ InstallReread(p) \/ InstallRewrite(p)
  BY <1>6, InstallWriteLockStep, InstallLocateStep, InstallRereadStep, InstallRewriteStep
<1>7. CASE UninstallPayload(p) \/ UninstallRegistry(p) \/ UninstallReadLock(p)
           \/ UninstallWriteLock(p)
  BY <1>7, UninstallPayloadStep, UninstallRegistryStep, UninstallReadLockStep,
     UninstallWriteLockStep
<1> QED BY <1>1, <1>2, <1>3, <1>4, <1>5, <1>6, <1>7 DEF Continue

LEMMA NextStep ==
  ASSUME IInv, [Next]_vars
  PROVE  IInv'
<1>1. CASE UNCHANGED vars
  BY <1>1 DEF vars, IInv, TypeOK, Present
<1>2. CASE Next
  <2> PICK p \in Procs : Start(p) \/ Continue(p) \/ Crash(p)
    BY <1>2 DEF Next
  <2>1. CASE Start(p) BY <2>1, StartStep
  <2>2. CASE Continue(p) BY <2>2, ContinueStep
  <2>3. CASE Crash(p) BY <2>3, FinishStep DEF Crash
  <2> QED BY <2>1, <2>2, <2>3
<1> QED BY <1>1, <1>2

LEMMA InitHolds ==
  ASSUME Init
  PROVE  IInv
<1>1. TypeOK
  BY IdleOK DEF Init, TypeOK
<1>2. \A p \in Procs : JobOK(job[p], Present)
  BY IdleOK DEF Init
<1> QED BY <1>1, <1>2 DEF IInv, Init

(* IInv holds in every reachable state.                                    *)
THEOREM InductiveInvariant == Spec => []IInv
BY InitHolds, NextStep, PTL DEF Spec

(* Rows rest, whatever commands interleave and whenever they are killed.   *)
THEOREM TypeCorrect == Spec => []TypeOK
<1>1. IInv => TypeOK
  BY DEF IInv
<1> QED BY <1>1, InductiveInvariant, PTL

(* setInstalledState never meets a missing row.                            *)
THEOREM RowsAreThere == Spec => []RowBeforeTransition
<1>1. IInv => RowBeforeTransition
  BY DEF IInv, RowBeforeTransition, JobOK, Present
<1> QED BY <1>1, InductiveInvariant, PTL

(* skillrouter.lock and every stale copy of it name capabilities with rows.*)
THEOREM LockedCapabilitiesHaveRows == Spec => []LockedHasRow
<1>1. IInv => LockedHasRow
  BY DEF IInv, LockedHasRow, JobOK, Present
<1> QED BY <1>1, InductiveInvariant, PTL

(* transitionState stores the state the command is for, from however stale *)
(* a state it starts.                                                      *)
THEOREM GoalsAreStored == Spec => GoalStored
<1>1. ASSUME IInv, NEW p \in Procs, SetState(p)
      PROVE  row'[job[p].cap] = job[p].goal
  <2>1. row' = [row EXCEPT ![job[p].cap] = job[p].goal] /\ job[p].cap \in Present
    BY <1>1, StoreGoal
  <2>2. row \in [Caps -> Resting \cup {NoRow}] /\ job[p].cap \in Caps
    BY <1>1, <2>1 DEF Present, IInv, TypeOK
  <2> HIDE DEF IInv
  <2> QED BY <2>1, <2>2
<1>2. IInv => \A p \in Procs : SetState(p) => row'[job[p].cap] = job[p].goal
  BY <1>1
<1>3. IInv => [\A p \in Procs : SetState(p) => row'[job[p].cap] = job[p].goal]_vars
  BY <1>2
<1> QED BY <1>3, InductiveInvariant, PTL DEF GoalStored

-----------------------------------------------------------------------------
(* Every step of the commands is a step of RowLifecycle, or leaves the     *)
(* table as it is.                                                         *)
LEMMA RowStep ==
  ASSUME IInv, [Next]_vars
  PROVE  [Rows!Next]_row
<1>1. CASE UNCHANGED row
  BY <1>1
<1>2. ASSUME NEW c \in Present, NEW s \in Resting, row' = [row EXCEPT ![c] = s]
      PROVE  Rows!Next
  <2>1. Rows!Move(c)
    BY <1>2 DEF Rows!Move, Rows!Resting, Resting, Present
  <2> QED BY <2>1 DEF Rows!Next, Present
<1>3. ASSUME NEW p \in Procs, SetState(p)
      PROVE  Rows!Next
  <2>1. job[p] \in Jobs
    BY DEF IInv, TypeOK
  <2>2. job[p].goal \in Resting
    BY <2>1 DEF Jobs, Resting
  <2> QED BY <1>2, <1>3, <2>2, StoreGoal
<1>4. ASSUME NEW p \in Procs, InstallRecord(p)
      PROVE  Rows!Next
  <2>1. job[p].cap \in Caps
    BY <1>4 DEF IInv, JobOK, InstallRecord
  <2> QED BY <1>4, <2>1 DEF InstallRecord, Rows!Next, Rows!Install
<1>5. ASSUME NEW p \in Procs, InstallRewrite(p)
      PROVE  Rows!Next
  <2>1. job[p].cap \in Present /\ job[p].seen \in Resting
    BY <1>5 DEF IInv, JobOK, WillStore, InstallRewrite
  <2>2. row' = [row EXCEPT ![job[p].cap] = job[p].seen]
    BY <1>5, <2>1 DEF InstallRewrite, Store, Present
  <2> QED BY <1>2, <2>1, <2>2
<1>6. ASSUME NEW p \in Procs, Start(p) \/ Crash(p)
      PROVE  UNCHANGED row
  BY <1>6 DEF Start, Enable, ForceEnable, Disable, Activate, Deactivate, StateCommand,
       RouteRefresh, InstallStart, UninstallStart, Crash
<1>7. ASSUME NEW p \in Procs, Continue(p),
             ~SetState(p), ~InstallRecord(p), ~InstallRewrite(p)
      PROVE  UNCHANGED row
  BY <1>7 DEF Continue, ExposeNext, ExposeDone, RetractNext, RetractDone, RoutePlan,
       RouteDecline, RouteApply, RouteActivate, Consent, CheckInstalled,
       RouteDeactivate, RoutePlanDone, RouteWriteLock, InstallReplace, InstallCopied,
       InstallFailed, InstallUpsert, InstallWriteLock, InstallLocate, InstallReread,
       UninstallPayload, UninstallRegistry, UninstallReadLock, UninstallWriteLock
<1> QED BY <1>1, <1>3, <1>4, <1>5, <1>6, <1>7 DEF Next, vars

(* The commands implement RowLifecycle: only an installation creates a row,*)
(* no row is deleted, one row changes at a time, and none is left between  *)
(* resting states.                                                         *)
THEOREM CommandsImplementRowLifecycle == Spec => RowSpec
<1>1. Init => Rows!Init
  BY DEF Init, Rows!Init
<1> QED BY <1>1, RowStep, InductiveInvariant, PTL DEF Spec, RowSpec, Rows!Spec

-----------------------------------------------------------------------------
(* What the commands promise when they run one after the other and none is *)
(* killed: for every set of capabilities and agents, whichever agents are  *)
(* enabled, whichever of them fail, and every configuration.  (When they   *)
(* interleave they do not promise it.)                                     *)

(* One invocation at a time, and it runs to its end.                       *)
OneAtATime == MayCrash = {} /\ \E p \in Procs : Procs = {p}

(* No agent that every command knows, and whose files can be removed, has  *)
(* a copy of c.                                                            *)
Removable == Builtin \ MayFail

Hidden(c) == \A a \in Removable : c \notin exposed[a]

(* The agents that the removal of a command goes through (that of a plan   *)
(* aside), and what it has come to at the n-th of them.                    *)
RemovalOf(j) == IF j.cmd = "uninstall" THEN WithCustom ELSE AllOrder

HiddenUpTo(c, n, order) ==
    \A i \in DOMAIN order :
        i < n /\ order[i] \notin MayFail => c \notin exposed[order[i]]

Tidy(c) == row[c] = "DISABLED" => Hidden(c)

-----------------------------------------------------------------------------
(* Why a disabled capability is hidden: every capability is tidy, but the  *)
(* one that a command is about to store another state for.                 *)
Leaving(j) == j.pc \in {"expose", "set"}

TidyJob(j) ==
    /\ j.at >= 1
    /\ \A c \in Caps : Tidy(c) \/ (c = j.cap /\ Leaving(j))
    /\ j.pc = "expose" =>
         /\ j.goal # "DISABLED" \/ j.cmd = "install"
         /\ j.cmd = "install" => row[j.cap] # "DISABLED"
         /\ j.cmd = "route" /\ ~j.synced => Tidy(j.cap)
    /\ j.pc \in {"fresh", "rewrite"} => row[j.cap] # "DISABLED"
    /\ j.pc = "rewrite" => j.seen # "DISABLED"
    /\ j.pc = "retract" /\ j.cmd # "route" => HiddenUpTo(j.cap, j.at, RemovalOf(j))
    /\ j.pc = "set" /\ j.goal = "DISABLED" => Hidden(j.cap)
    /\ j.pc \in {"plan", "confirm", "next", "consent", "check", "relock"} => j.cmd = "route"
    /\ j.pc \in {"consent", "check"} => j.goal = "ACTIVE"
    /\ j.pc \in {"remove", "unregister", "readlock", "unlock"} => j.at = 1
    /\ j.pc \in {"lock", "locate"} => row[j.cap] = "INSTALLED" /\ j.cmd = "install"
    /\ j.pc \in {"replace", "copy", "upsert", "record"} => j.cmd = "install"

TidyInv == \A p \in Procs : TidyJob(job[p])

(* Why an uninstalled capability is gone: what has been removed stays so.  *)
Removed(j) ==
    j.cmd = "uninstall" =>
      /\ j.pc \in {"remove", "unregister", "readlock", "unlock", "retract"}
      /\ row[j.cap] # NoRow /\ j.ver = version[j.cap]
      /\ j.pc # "remove" => Root(j) \notin payload
      /\ j.pc \in {"readlock", "unlock", "retract"} => j.cap \notin registry
      /\ j.pc = "retract" => j.cap \notin lock

RemovedInv == \A p \in Procs : Removed(job[p])

(* Why route stays within its budget: the capabilities of the plan that    *)
(* are active, or still may become so, and will not be deactivated.        *)
Turning(j) ==
    IF \/ j.pc \in {"consent", "check", "expose"}
       \/ j.pc = "set" /\ j.goal = "ACTIVE"
      THEN {j.cap} ELSE {}

Yielding(j) ==
    IF j.pc = "retract" \/ (j.pc = "set" /\ j.goal = "ENABLED") THEN {j.cap} ELSE {}

Kept(j) ==
    j.acts \cup Turning(j)
      \cup ({c \in j.scored \ Never : IsActive(c)} \ (j.deacts \cup Yielding(j)))

Applying == {"confirm", "next", "consent", "check", "expose", "set", "retract", "relock"}

WithinBudget(j) ==
    j.cmd = "route" =>
      /\ j.pc \in Applying \cup {"plan"}
      /\ j.pc \in Applying => Cardinality(Kept(j)) <= MaxActivations
      /\ j.pc \in {"consent", "check", "expose"} => j.goal = "ACTIVE"
      /\ j.pc = "retract" => j.goal = "ENABLED"
      /\ j.pc \in {"retract", "relock"} => j.acts = {}
      /\ j.pc = "relock" => j.deacts = {}

BudgetInv == \A p \in Procs : WithinBudget(job[p])
-----------------------------------------------------------------------------
(* What buildPlan leaves in the record of the command.                     *)
LEMMA Planned ==
  ASSUME IInv, NEW p \in Procs, RoutePlan(p)
  PROVE  /\ job'[p].pc = "confirm" /\ job'[p].cmd = job[p].cmd /\ job'[p].at = job[p].at
         /\ \E selected \in SUBSET (job'[p].scored \ Never) :
              /\ Cardinality(selected) <= MaxActivations
              /\ job'[p].acts = {c \in selected : ~IsActive(c)}
              /\ job'[p].deacts = {c \in job'[p].scored \ (Never \cup selected) : IsActive(c)}
         /\ job'[p].scored \subseteq Caps
<1>1. job[p] \in Jobs /\ job \in [Procs -> Jobs] /\ registry \subseteq Caps
  BY DEF IInv, TypeOK
<1>2. PICK scored, selected :
         /\ scored \in SUBSET registry /\ selected \in SUBSET (scored \ Never)
         /\ Cardinality(selected) <= MaxActivations
         /\ job' = [job EXCEPT
              ![p].pc = "confirm",
              ![p].scored = scored,
              ![p].acts = {c \in selected : ~IsActive(c)},
              ![p].deacts = {c \in scored \ (Never \cup selected) : IsActive(c)}]
  BY DEF RoutePlan
<1> DEFINE acts == {c \in selected : ~IsActive(c)}
           deacts == {c \in scored \ (Never \cup selected) : IsActive(c)}
<1>3. job' = [job EXCEPT ![p].pc = "confirm", ![p].scored = scored,
                         ![p].acts = acts, ![p].deacts = deacts]
  BY <1>2
<1> HIDE DEF acts, deacts
<1>4. /\ job'[p].pc = "confirm" /\ job'[p].cmd = job[p].cmd /\ job'[p].at = job[p].at
      /\ job'[p].scored = scored /\ job'[p].acts = acts /\ job'[p].deacts = deacts
  BY <1>1, <1>3 DEF Jobs
<1> QED BY <1>1, <1>2, <1>4 DEF acts, deacts

(* What taking up the next action of the plan leaves in it.                *)
LEMMA ActivationTaken ==
  ASSUME IInv, NEW p \in Procs, RouteActivate(p)
  PROVE  /\ job'[p].pc \in {"consent", "check"} /\ job'[p].goal = "ACTIVE"
         /\ job'[p].cap \in job[p].acts /\ job'[p].deacts = job[p].deacts
         /\ job'[p].acts = job[p].acts \ {job'[p].cap} /\ job'[p].at = 1
         /\ job'[p].cmd = job[p].cmd /\ job'[p].scored = job[p].scored
<1>1. job[p] \in Jobs /\ job \in [Procs -> Jobs]
  BY DEF IInv, TypeOK
<1>2. PICK c, label, seen :
        /\ c \in job[p].acts /\ label \in {"consent", "check"}
        /\ job' = [job EXCEPT ![p] = [job[p] EXCEPT !.pc = label, !.cap = c,
                     !.goal = "ACTIVE", !.seen = seen, !.at = 1, !.synced = FALSE,
                     !.acts = job[p].acts \ {c}]]
  BY DEF RouteActivate
<1>3. job'[p] = [job[p] EXCEPT !.pc = label, !.cap = c, !.goal = "ACTIVE", !.seen = seen,
                               !.at = 1, !.synced = FALSE, !.acts = job[p].acts \ {c}]
  BY <1>1, <1>2
<1> QED BY <1>1, <1>2, <1>3 DEF Jobs

LEMMA DeactivationTaken ==
  ASSUME IInv, NEW p \in Procs, RouteDeactivate(p)
  PROVE  /\ job'[p].pc = "retract" /\ job'[p].goal = "ENABLED"
         /\ job'[p].cap \in job[p].deacts /\ job'[p].acts = job[p].acts
         /\ job'[p].deacts = job[p].deacts \ {job'[p].cap} /\ job'[p].at = 1
         /\ job'[p].cmd = job[p].cmd /\ job'[p].scored = job[p].scored
<1>1. job[p] \in Jobs /\ job \in [Procs -> Jobs]
  BY DEF IInv, TypeOK
<1>2. PICK c, seen, v :
        /\ c \in job[p].deacts
        /\ job' = [job EXCEPT ![p] = [job[p] EXCEPT !.pc = "retract", !.cap = c,
                     !.goal = "ENABLED", !.seen = seen, !.ver = v, !.at = 1,
                     !.deacts = job[p].deacts \ {c}]]
  BY DEF RouteDeactivate
<1>3. job'[p] = [job[p] EXCEPT !.pc = "retract", !.cap = c, !.goal = "ENABLED",
                               !.seen = seen, !.ver = v, !.at = 1,
                               !.deacts = job[p].deacts \ {c}]
  BY <1>1, <1>2
<1> QED BY <1>1, <1>2, <1>3 DEF Jobs

-----------------------------------------------------------------------------
(* Steps that leave the rows and the agents' copies alone, or touch only   *)
(* what their own label accounts for.                                      *)
LEMMA RouteRefreshTidy ==
  ASSUME IInv, NEW p \in Procs, TidyJob(job[p]), RouteRefresh(p)
  PROVE  TidyJob(job[p])'
<1>1. job[p] \in Jobs /\ job \in [Procs -> Jobs]
  BY DEF IInv, TypeOK
<1> QED BY <1>1 DEF RouteRefresh, TidyJob, Leaving, Tidy, Hidden, Idle

LEMMA InstallStartTidy ==
  ASSUME IInv, NEW p \in Procs, TidyJob(job[p]), InstallStart(p)
  PROVE  TidyJob(job[p])'
<1>1. job[p] \in Jobs /\ job \in [Procs -> Jobs]
  BY DEF IInv, TypeOK
<1> QED BY <1>1 DEF InstallStart, TidyJob, Leaving, Tidy, Hidden, Idle

LEMMA UninstallStartTidy ==
  ASSUME IInv, NEW p \in Procs, TidyJob(job[p]), UninstallStart(p)
  PROVE  TidyJob(job[p])'
<1>1. job[p] \in Jobs /\ job \in [Procs -> Jobs]
  BY DEF IInv, TypeOK
<1> QED BY <1>1 DEF UninstallStart, TidyJob, Leaving, Tidy, Hidden, Idle

LEMMA RouteDeclineTidy ==
  ASSUME IInv, NEW p \in Procs, TidyJob(job[p]), RouteDecline(p)
  PROVE  TidyJob(job[p])'
<1>1. job[p] \in Jobs /\ job \in [Procs -> Jobs]
  BY DEF IInv, TypeOK
<1> QED BY <1>1 DEF RouteDecline, TidyJob, Leaving, Tidy, Hidden, Finish, Idle

LEMMA RouteApplyTidy ==
  ASSUME IInv, NEW p \in Procs, TidyJob(job[p]), RouteApply(p)
  PROVE  TidyJob(job[p])'
<1>1. job[p] \in Jobs /\ job \in [Procs -> Jobs]
  BY DEF IInv, TypeOK
<1> QED BY <1>1 DEF RouteApply, TidyJob, Leaving, Tidy, Hidden

LEMMA ConsentTidy ==
  ASSUME IInv, NEW p \in Procs, TidyJob(job[p]), Consent(p)
  PROVE  TidyJob(job[p])'
<1>1. job[p] \in Jobs /\ job \in [Procs -> Jobs]
  BY DEF IInv, TypeOK
<1> QED BY <1>1 DEF Consent, TidyJob, Leaving, Tidy, Hidden, Goto

LEMMA RoutePlanDoneTidy ==
  ASSUME IInv, NEW p \in Procs, TidyJob(job[p]), RoutePlanDone(p)
  PROVE  TidyJob(job[p])'
<1>1. job[p] \in Jobs /\ job \in [Procs -> Jobs]
  BY DEF IInv, TypeOK
<1> QED BY <1>1 DEF RoutePlanDone, TidyJob, Leaving, Tidy, Hidden, Goto

LEMMA RouteWriteLockTidy ==
  ASSUME IInv, NEW p \in Procs, TidyJob(job[p]), RouteWriteLock(p)
  PROVE  TidyJob(job[p])'
<1>1. job[p] \in Jobs /\ job \in [Procs -> Jobs]
  BY DEF IInv, TypeOK
<1> QED BY <1>1 DEF RouteWriteLock, TidyJob, Leaving, Tidy, Hidden, Finish, Idle

LEMMA InstallReplaceTidy ==
  ASSUME IInv, NEW p \in Procs, TidyJob(job[p]), InstallReplace(p)
  PROVE  TidyJob(job[p])'
<1>1. job[p] \in Jobs /\ job \in [Procs -> Jobs]
  BY DEF IInv, TypeOK
<1> QED BY <1>1 DEF InstallReplace, TidyJob, Leaving, Tidy, Hidden, Goto

LEMMA InstallCopiedTidy ==
  ASSUME IInv, NEW p \in Procs, TidyJob(job[p]), InstallCopied(p)
  PROVE  TidyJob(job[p])'
<1>1. job[p] \in Jobs /\ job \in [Procs -> Jobs]
  BY DEF IInv, TypeOK
<1> QED BY <1>1 DEF InstallCopied, TidyJob, Leaving, Tidy, Hidden, Goto

LEMMA InstallFailedTidy ==
  ASSUME IInv, NEW p \in Procs, TidyJob(job[p]), InstallFailed(p)
  PROVE  TidyJob(job[p])'
<1>1. job[p] \in Jobs /\ job \in [Procs -> Jobs]
  BY DEF IInv, TypeOK
<1> QED BY <1>1 DEF InstallFailed, TidyJob, Leaving, Tidy, Hidden, Finish, Idle

LEMMA InstallUpsertTidy ==
  ASSUME IInv, NEW p \in Procs, TidyJob(job[p]), InstallUpsert(p)
  PROVE  TidyJob(job[p])'
<1>1. job[p] \in Jobs /\ job \in [Procs -> Jobs]
  BY DEF IInv, TypeOK
<1> QED BY <1>1 DEF InstallUpsert, TidyJob, Leaving, Tidy, Hidden, Goto

LEMMA InstallRecordTidy ==
  ASSUME IInv, NEW p \in Procs, TidyJob(job[p]), InstallRecord(p)
  PROVE  TidyJob(job[p])'
<1> DEFINE c == job[p].cap
<1>1. /\ job[p] \in Jobs /\ job \in [Procs -> Jobs] /\ JobOK(job[p], Present)
      /\ row \in [Caps -> Resting \cup {NoRow}]
  BY DEF IInv, TypeOK
<1>2. c \in Caps /\ job[p].cmd = "install"
  BY <1>1 DEF JobOK, InstallRecord, TidyJob
<1>3. job'[p] = [job[p] EXCEPT !.pc = "lock"] /\ exposed' = exposed
  BY <1>1 DEF InstallRecord, Goto
<1>4. row'[c] = "INSTALLED" /\ \A d \in Caps : d # c => row'[d] = row[d]
  BY <1>1, <1>2 DEF InstallRecord
<1>5. \A d \in Caps : Tidy(d)'
  BY <1>3, <1>4 DEF TidyJob, Leaving, Tidy, Hidden, InstallRecord
<1> QED BY <1>1, <1>2, <1>3, <1>4, <1>5 DEF TidyJob, Jobs

LEMMA InstallWriteLockTidy ==
  ASSUME IInv, NEW p \in Procs, TidyJob(job[p]), InstallWriteLock(p)
  PROVE  TidyJob(job[p])'
<1>1. job[p] \in Jobs /\ job \in [Procs -> Jobs]
  BY DEF IInv, TypeOK
<1>2. \A d \in Caps : Tidy(d)'
  BY DEF InstallWriteLock, TidyJob, Leaving, Tidy, Hidden
<1>3. job'[p] = [job[p] EXCEPT !.pc = "locate"] \/ job'[p] = Idle
  BY <1>1 DEF InstallWriteLock, Goto, Finish
<1>4. row' = row /\ job[p].pc = "lock"
  BY DEF InstallWriteLock
<1> QED BY <1>1, <1>2, <1>3, <1>4 DEF TidyJob, Idle, Jobs

LEMMA InstallLocateTidy ==
  ASSUME IInv, NEW p \in Procs, TidyJob(job[p]), InstallLocate(p)
  PROVE  TidyJob(job[p])'
<1>1. job[p] \in Jobs /\ job \in [Procs -> Jobs]
  BY DEF IInv, TypeOK
<1>2. /\ job'[p].pc = "expose" /\ job'[p].cap = job[p].cap
      /\ job'[p].cmd = job[p].cmd /\ job'[p].at = job[p].at
  BY <1>1 DEF InstallLocate, Jobs
<1> QED BY <1>1, <1>2 DEF InstallLocate, TidyJob, Leaving, Tidy, Hidden

LEMMA InstallRereadTidy ==
  ASSUME IInv, NEW p \in Procs, TidyJob(job[p]), InstallReread(p)
  PROVE  TidyJob(job[p])'
<1>1. job[p] \in Jobs /\ job \in [Procs -> Jobs]
  BY DEF IInv, TypeOK
<1> QED BY <1>1 DEF InstallReread, TidyJob, Leaving, Tidy, Hidden

LEMMA UninstallPayloadTidy ==
  ASSUME IInv, NEW p \in Procs, TidyJob(job[p]), UninstallPayload(p)
  PROVE  TidyJob(job[p])'
<1>1. job[p] \in Jobs /\ job \in [Procs -> Jobs]
  BY DEF IInv, TypeOK
<1> QED BY <1>1 DEF UninstallPayload, TidyJob, Leaving, Tidy, Hidden, Goto

LEMMA UninstallRegistryTidy ==
  ASSUME IInv, NEW p \in Procs, TidyJob(job[p]), UninstallRegistry(p)
  PROVE  TidyJob(job[p])'
<1>1. job[p] \in Jobs /\ job \in [Procs -> Jobs]
  BY DEF IInv, TypeOK
<1> QED BY <1>1 DEF UninstallRegistry, TidyJob, Leaving, Tidy, Hidden, Goto

LEMMA UninstallReadLockTidy ==
  ASSUME IInv, NEW p \in Procs, TidyJob(job[p]), UninstallReadLock(p)
  PROVE  TidyJob(job[p])'
<1>1. job[p] \in Jobs /\ job \in [Procs -> Jobs]
  BY DEF IInv, TypeOK
<1> QED BY <1>1 DEF UninstallReadLock, TidyJob, Leaving, Tidy, Hidden

(* The lists of adapters are lists of agents.                              *)
LEMMA OrdersTyped ==
  /\ AllOrder \in Seq(Agents) /\ WithCustom \in Seq(Agents)
  /\ \A p \in Procs : ExposeOrder(p) \in Seq(Agents) /\ RemovalOrder(p) \in Seq(Agents)
  /\ Builtin \subseteq Agents
<1>1. /\ AllOrder \in Seq(Agents) /\ CustomOrder \in Seq(Agents)
      /\ EnabledOrder \in Seq(Agents)
  BY AgentsAssumption
<1>2. WithCustom \in Seq(Agents) /\ EnabledOrder \o CustomOrder \in Seq(Agents)
  BY <1>1 DEF WithCustom
<1> QED BY <1>1, <1>2 DEF ExposeOrder, RemovalOrder, Builtin

(* A removal that is at the first adapter has been through none.           *)
LEMMA NoneBeforeFirst ==
  ASSUME NEW order \in Seq(Agents), NEW i \in DOMAIN order
  PROVE  ~(i < 1)
OBVIOUS

LEMMA StateCommandTidy ==
  ASSUME IInv, NEW p \in Procs, TidyJob(job[p]), NEW c \in Caps,
         NEW goal \in {"ENABLED", "DISABLED", "ACTIVE"}, NEW label,
         \/ label = "set" /\ goal = "ENABLED"
         \/ label = "retract"
         \/ label = "expose" /\ goal = "ACTIVE",
         StateCommand(p, c, goal, label)
  PROVE  TidyJob(job[p])'
<1>1. job[p] \in Jobs /\ job \in [Procs -> Jobs]
  BY DEF IInv, TypeOK
<1>2. HiddenUpTo(c, 1, AllOrder)'
  BY OrdersTyped, NoneBeforeFirst DEF HiddenUpTo
<1>3. /\ job'[p].pc = label /\ job'[p].cap = c /\ job'[p].goal = goal
      /\ job'[p].at = 1 /\ job'[p].cmd = "state"
  BY <1>1 DEF StateCommand, Idle
<1>4. RemovalOf(job[p])' = AllOrder
  BY <1>3 DEF RemovalOf
<1> QED BY <1>2, <1>3, <1>4 DEF StateCommand, TidyJob, Leaving, Tidy, Hidden

LEMMA RoutePlanTidy ==
  ASSUME IInv, NEW p \in Procs, TidyJob(job[p]), RoutePlan(p)
  PROVE  TidyJob(job[p])'
BY Planned DEF RoutePlan, TidyJob, Leaving, Tidy, Hidden

LEMMA RouteActivateTidy ==
  ASSUME IInv, NEW p \in Procs, TidyJob(job[p]), RouteActivate(p)
  PROVE  TidyJob(job[p])'
<1>1. /\ job'[p].pc \in {"consent", "check"} /\ job'[p].goal = "ACTIVE"
      /\ job'[p].cmd = job[p].cmd /\ job'[p].at = 1
  BY ActivationTaken
<1> QED BY <1>1 DEF RouteActivate, TidyJob, Leaving, Tidy, Hidden

LEMMA RouteDeactivateTidy ==
  ASSUME IInv, NEW p \in Procs, TidyJob(job[p]), RouteDeactivate(p)
  PROVE  TidyJob(job[p])'
<1>1. /\ job'[p].pc = "retract" /\ job'[p].at = 1 /\ job'[p].cmd = job[p].cmd
  BY DeactivationTaken
<1> QED BY <1>1 DEF RouteDeactivate, TidyJob, Leaving, Tidy, Hidden

LEMMA CheckInstalledTidy ==
  ASSUME IInv, NEW p \in Procs, TidyJob(job[p]), CheckInstalled(p)
  PROVE  TidyJob(job[p])'
<1>1. job[p] \in Jobs /\ job \in [Procs -> Jobs] /\ JobOK(job[p], Present)
  BY DEF IInv, TypeOK
<1>2. job[p].cap \in Caps
  BY <1>1 DEF JobOK, CheckInstalled
<1>3. /\ job'[p].pc \in {"next", "expose"}
      /\ job'[p].cap = job[p].cap /\ job'[p].goal = job[p].goal
      /\ job'[p].at = job[p].at /\ job'[p].cmd = job[p].cmd
  BY <1>1 DEF CheckInstalled, Goto, Jobs
<1> QED BY <1>1, <1>2, <1>3 DEF CheckInstalled, TidyJob, Leaving, Tidy, Hidden

LEMMA UninstallWriteLockTidy ==
  ASSUME IInv, NEW p \in Procs, TidyJob(job[p]), UninstallWriteLock(p)
  PROVE  TidyJob(job[p])'
<1>1. job[p] \in Jobs /\ job \in [Procs -> Jobs]
  BY DEF IInv, TypeOK
<1>2. HiddenUpTo(job[p].cap, 1, WithCustom)'
  BY OrdersTyped, NoneBeforeFirst DEF HiddenUpTo
<1>3. /\ job'[p].pc = "retract" /\ job'[p].cap = job[p].cap
      /\ job'[p].cmd = job[p].cmd /\ job'[p].at = 1
  BY <1>1 DEF UninstallWriteLock, Goto, Jobs, TidyJob
<1>4. RemovalOf(job[p])' \in {AllOrder, WithCustom}
  BY DEF RemovalOf
<1>5. HiddenUpTo(job[p].cap, 1, AllOrder)'
  BY OrdersTyped, NoneBeforeFirst DEF HiddenUpTo
<1> QED BY <1>2, <1>3, <1>4, <1>5 DEF UninstallWriteLock, TidyJob, Leaving, Tidy, Hidden

(* A copy goes to an agent that is told of the capability only while its   *)
(* row is about to leave DISABLED, or has left it.                         *)
LEMMA ExposeNextTidy ==
  ASSUME IInv, NEW p \in Procs, TidyJob(job[p]), ExposeNext(p)
  PROVE  TidyJob(job[p])'
<1>1. job[p] \in Jobs /\ job \in [Procs -> Jobs] /\ exposed \in [Agents -> SUBSET Caps]
  BY DEF IInv, TypeOK
<1> DEFINE a == ExposeOrder(p)[job[p].at]
           c == job[p].cap
<1>2. a \in Agents /\ Removable \subseteq Agents
  BY <1>1, OrdersTyped DEF ExposeNext, Jobs, TidyJob, Removable
<1>3. /\ job'[p].pc = "expose" /\ job'[p].cap = c /\ job'[p].cmd = job[p].cmd
      /\ job'[p].goal = job[p].goal
  BY <1>1 DEF ExposeNext, Jobs
<1>4. row' = row /\ exposed' \in {exposed, [exposed EXCEPT ![a] = @ \cup {c}]}
  BY DEF ExposeNext, Exposed
<1>5. \A d \in Caps : d # c /\ Tidy(d) => Tidy(d)'
  BY <1>1, <1>2, <1>4 DEF Tidy, Hidden, Removable
<1>6. ~job'[p].synced =>
        ~job[p].synced /\ (a \in Removable => exposed' = exposed)
  <2>1. CASE job' = [job EXCEPT ![p].at = @ + 1, ![p].synced = TRUE]
    BY <1>1, <2>1 DEF Jobs
  <2>2. CASE job' = [job EXCEPT ![p].at = @ + 1] /\ (a \in Removable => exposed' = exposed)
    BY <1>1, <2>2 DEF Jobs
  <2> QED BY <2>1, <2>2 DEF ExposeNext, Removable
<1>7. ~job'[p].synced /\ Tidy(c) => ~job[p].synced /\ Tidy(job[p].cap)'
  <2> HAVE ~job'[p].synced /\ Tidy(c)
  <2>1. \A b \in Removable : exposed'[b] = exposed[b]
    BY <1>1, <1>2, <1>4, <1>6
  <2>2. (row[c] = "DISABLED" => \A b \in Removable : c \notin exposed[b]) /\ row' = row
    BY <1>4 DEF Tidy, Hidden
  <2>3. Tidy(job[p].cap)'
    BY <1>3, <2>1, <2>2 DEF Tidy, Hidden
  <2> QED BY <1>6, <2>3
<1>8. job'[p].at = job[p].at + 1
  BY <1>1 DEF ExposeNext, Jobs
<1> QED BY <1>1, <1>3, <1>4, <1>5, <1>7, <1>8 DEF ExposeNext, TidyJob, Leaving, Jobs

LEMMA ExposeDoneTidy ==
  ASSUME IInv, NEW p \in Procs, TidyJob(job[p]), ExposeDone(p)
  PROVE  TidyJob(job[p])'
<1>1. job[p] \in Jobs /\ job \in [Procs -> Jobs]
  BY DEF IInv, TypeOK
<1>2. /\ job'[p].pc \in {"set", "next", "fresh"}
      /\ job'[p] = [job[p] EXCEPT !.pc = job'[p].pc]
      /\ job[p].cmd = "install" => job'[p].pc = "fresh"
      /\ job[p].cmd = "route" => job'[p].pc = IF job[p].synced THEN "set" ELSE "next"
      /\ job[p].cmd \notin {"route", "install"} => job'[p].pc = "set"
  BY <1>1 DEF ExposeDone, Goto, Jobs
<1> QED BY <1>1, <1>2 DEF ExposeDone, TidyJob, Leaving, Tidy, Hidden, Jobs

(* The first directory found is well defined.                              *)
(* A removal only takes away, and takes c away from the agent it is at.    *)
LEMMA RemovalHides ==
  ASSUME exposed \in [Agents -> SUBSET Caps], NEW a \in Agents, NEW c
  PROVE  /\ ExposedAfterRemoval(a, c, exposed) \in [Agents -> SUBSET Caps]
         /\ \A b \in Agents : ExposedAfterRemoval(a, c, exposed)[b] \subseteq exposed[b]
         /\ c \notin ExposedAfterRemoval(a, c, exposed)[a]
<1>1. CASE a # Opencode
  BY <1>1 DEF ExposedAfterRemoval
<1>2. CASE a = Opencode
  <2> DEFINE found == Found(c, exposed)
             first == CHOOSE i \in found : \A k \in found : i <= k
  <2>1. CASE found = {}
    BY <1>2, <2>1, AgentsAssumption, AdaptersAssumption DEF ExposedAfterRemoval, Found
  <2>2. CASE found # {}
    <3>1. PICK i \in found : \A k \in found : i <= k
      <4>1. found \subseteq Nat
        BY AgentsAssumption DEF Found
      <4> HIDE DEF found
      <4> QED BY <2>2, <4>1, LeastNatural
    <3>2. first \in found /\ \A k \in found : first <= k
      BY <3>1
    <3>3. SkillDirs[first] \in Agents
      BY <3>2, AgentsAssumption DEF Found
    <3>4. c \in exposed[Opencode] => SkillDirs[first] = Opencode
      BY <3>2, AgentsAssumption, AdaptersAssumption DEF Found
    <3>5. ExposedAfterRemoval(a, c, exposed) = [exposed EXCEPT ![SkillDirs[first]] = @ \ {c}]
      BY <1>2, <2>2 DEF ExposedAfterRemoval, FirstFound
    <3> HIDE DEF first
    <3> QED BY <1>2, <3>3, <3>4, <3>5
  <2> QED BY <2>1, <2>2
<1> QED BY <1>1, <1>2

LEMMA RetractNextTidy ==
  ASSUME IInv, NEW p \in Procs, TidyJob(job[p]), RetractNext(p)
  PROVE  TidyJob(job[p])'
<1> DEFINE c == job[p].cap
           a == RemovalOrder(p)[job[p].at]
<1>1. /\ job[p] \in Jobs /\ job \in [Procs -> Jobs]
      /\ exposed \in [Agents -> SUBSET Caps] /\ row' = row
  BY DEF IInv, TypeOK, RetractNext
<1>2. a \in Agents /\ Removable \subseteq Agents
  BY <1>1, OrdersTyped DEF RetractNext, Jobs, TidyJob, Removable
<1>3. job'[p] = [job[p] EXCEPT !.at = @ + 1]
  BY <1>1 DEF RetractNext
<1>4. \A b \in Agents : exposed'[b] \subseteq exposed[b]
  BY <1>1, <1>2, RemovalHides DEF RetractNext
<1>5. a \notin MayFail => c \notin exposed'[a]
  BY <1>1, <1>2, RemovalHides DEF RetractNext
<1>6. \A d \in Caps : Tidy(d) => Tidy(d)'
  BY <1>1, <1>2, <1>4 DEF Tidy, Hidden
<1>7. job[p].cmd # "route" => HiddenUpTo(job[p].cap, job[p].at, RemovalOf(job[p]))'
  <2> HAVE job[p].cmd # "route"
  <2> DEFINE order == RemovalOf(job[p])
  <2>1. HiddenUpTo(c, job[p].at, order) /\ a = order[job[p].at] /\ order \in Seq(Agents)
    BY OrdersTyped DEF TidyJob, RetractNext, RemovalOrder, RemovalOf
  <2>2. /\ job'[p].cap = c /\ job'[p].at = job[p].at + 1 /\ RemovalOf(job'[p]) = order
    BY <1>1, <1>3 DEF Jobs, RemovalOf
  <2> HIDE DEF a, order
  <2>3. ASSUME NEW i \in DOMAIN order, i < job[p].at + 1, order[i] \notin MayFail
        PROVE  c \notin exposed'[order[i]]
    <3>1. i \in Nat /\ job[p].at \in Nat /\ order[i] \in Agents
      BY <1>1, <2>1 DEF Jobs
    <3>2. CASE i = job[p].at
      BY <1>5, <2>1, <2>3, <3>2
    <3>3. CASE i < job[p].at
      BY <1>4, <2>1, <2>3, <3>1, <3>3 DEF HiddenUpTo
    <3> QED BY <2>3, <3>1, <3>2, <3>3
  <2> QED BY <2>2, <2>3 DEF HiddenUpTo
<1>8. /\ job'[p].pc = "retract" /\ job'[p].cmd = job[p].cmd /\ job[p].pc = "retract"
      /\ job'[p].at = job[p].at + 1 /\ job[p].at \in Nat
  BY <1>1, <1>3 DEF Jobs, RetractNext
<1> QED BY <1>6, <1>7, <1>8 DEF TidyJob, Leaving

(* When the loop is through all adapters, no removable copy is left.       *)
LEMMA AllRetracted ==
  ASSUME NEW c, NEW order \in Seq(Agents), NEW n \in Nat, n > Len(order),
         HiddenUpTo(c, n, order), NEW i \in DOMAIN order, order[i] \notin MayFail
  PROVE  c \notin exposed[order[i]]
BY DEF HiddenUpTo

LEMMA RetractionHides ==
  ASSUME IInv, NEW p \in Procs, TidyJob(job[p]), RetractDone(p), job[p].cmd # "route"
  PROVE  /\ Hidden(job[p].cap)
         /\ job[p].cmd = "uninstall" =>
              \A a \in Agents \ MayFail : job[p].cap \notin exposed[a]
<1> DEFINE c == job[p].cap
           order == RemovalOf(job[p])
<1>1. /\ order \in Seq(Agents) /\ job[p].at \in Nat /\ job[p].at > Len(order)
      /\ HiddenUpTo(c, job[p].at, order)
  BY OrdersTyped DEF RemovalOf, RemovalOrder, RetractDone, TidyJob, IInv, TypeOK, Jobs
<1>2. \A i \in DOMAIN order : order[i] \notin MayFail => c \notin exposed[order[i]]
  <2> HIDE DEF order
  <2> QED BY <1>1, AllRetracted
<1>3. CASE job[p].cmd = "uninstall"
  <2>1. \A a \in Agents \ MayFail : c \notin exposed[a]
    BY <1>2, <1>3, AdaptersAssumption DEF RemovalOf
  <2> QED BY <2>1, OrdersTyped DEF Hidden, Removable
<1>4. CASE job[p].cmd # "uninstall"
  BY <1>2, <1>4 DEF RemovalOf, Hidden, Removable, Builtin
<1> QED BY <1>3, <1>4

LEMMA RetractDoneTidy ==
  ASSUME IInv, NEW p \in Procs, TidyJob(job[p]), RetractDone(p)
  PROVE  TidyJob(job[p])'
<1>1. /\ job[p] \in Jobs /\ job \in [Procs -> Jobs] /\ JobOK(job[p], Present)
      /\ UNCHANGED <<row, exposed>>
  BY DEF IInv, TypeOK, RetractDone
<1>2. job'[p] = Idle \/ (job[p].cmd # "uninstall" /\ job'[p] = [job[p] EXCEPT !.pc = "set"])
  BY <1>1 DEF RetractDone, Finish, Goto
<1>3. job[p].goal = "DISABLED" => Hidden(job[p].cap)
  <2> HAVE job[p].goal = "DISABLED"
  <2>1. job[p].cmd # "route"
    BY <1>1 DEF JobOK
  <2> QED BY <1>1, <2>1, RetractionHides
<1> QED BY <1>1, <1>2, <1>3 DEF RetractDone, TidyJob, Leaving, Tidy, Hidden, Idle, Jobs

LEMMA SetStateTidy ==
  ASSUME IInv, NEW p \in Procs, TidyJob(job[p]), SetState(p)
  PROVE  TidyJob(job[p])'
<1> DEFINE c == job[p].cap
<1>1. /\ job[p] \in Jobs /\ job \in [Procs -> Jobs] /\ exposed' = exposed
      /\ row \in [Caps -> Resting \cup {NoRow}] /\ job[p].pc = "set"
  BY DEF IInv, TypeOK, SetState
<1>2. c \in Caps /\ row' = [row EXCEPT ![c] = job[p].goal]
  BY StoreGoal DEF Present
<1>3. row'[c] = job[p].goal /\ \A d \in Caps : d # c => row'[d] = row[d]
  BY <1>1, <1>2
<1>4. \A d \in Caps : Tidy(d)'
  BY <1>1, <1>3 DEF TidyJob, Leaving, Tidy, Hidden
<1>5. job'[p] = Idle \/ (job[p].cmd = "route" /\ job'[p] = [job[p] EXCEPT !.pc = "next"])
  BY <1>1 DEF SetState, Finish, Goto
<1> QED BY <1>1, <1>4, <1>5 DEF TidyJob, Idle, Jobs

LEMMA InstallRewriteTidy ==
  ASSUME IInv, NEW p \in Procs, TidyJob(job[p]), InstallRewrite(p)
  PROVE  TidyJob(job[p])'
<1> DEFINE c == job[p].cap
<1>1. /\ job[p] \in Jobs /\ job \in [Procs -> Jobs] /\ exposed' = exposed
      /\ row \in [Caps -> Resting \cup {NoRow}] /\ job[p].pc = "rewrite"
      /\ job'[p] = Idle
  BY DEF IInv, TypeOK, InstallRewrite, Finish
<1>2. \A d \in Caps : row'[d] = row[d] \/ row'[d] # "DISABLED"
  BY <1>1 DEF InstallRewrite, Store, TidyJob
<1> QED BY <1>1, <1>2 DEF TidyJob, Leaving, Tidy, Hidden, Idle

LEMMA StartTidy ==
  ASSUME IInv, NEW p \in Procs, TidyJob(job[p]), Start(p)
  PROVE  TidyJob(job[p])'
<1>1. CASE Enable(p) \/ ForceEnable(p) \/ Disable(p) \/ Activate(p) \/ Deactivate(p)
  BY <1>1, StateCommandTidy
  DEF Enable, ForceEnable, Disable, Activate, Deactivate
<1>2. CASE RouteRefresh(p) BY <1>2, RouteRefreshTidy
<1>3. CASE InstallStart(p) BY <1>3, InstallStartTidy
<1>4. CASE UninstallStart(p) BY <1>4, UninstallStartTidy
<1> QED BY <1>1, <1>2, <1>3, <1>4 DEF Start

LEMMA ContinueTidy ==
  ASSUME IInv, NEW p \in Procs, TidyJob(job[p]), Continue(p)
  PROVE  TidyJob(job[p])'
<1>1. CASE ExposeNext(p) \/ ExposeDone(p) \/ RetractNext(p) \/ RetractDone(p)
           \/ SetState(p)
  BY <1>1, ExposeNextTidy, ExposeDoneTidy, RetractNextTidy, RetractDoneTidy, SetStateTidy
<1>2. CASE RoutePlan(p) \/ RouteDecline(p) \/ RouteApply(p) \/ RouteActivate(p)
           \/ Consent(p) \/ CheckInstalled(p)
  BY <1>2, RoutePlanTidy, RouteDeclineTidy, RouteApplyTidy, RouteActivateTidy,
     ConsentTidy, CheckInstalledTidy
<1>3. CASE RouteDeactivate(p) \/ RoutePlanDone(p) \/ RouteWriteLock(p)
  BY <1>3, RouteDeactivateTidy, RoutePlanDoneTidy, RouteWriteLockTidy
<1>4. CASE InstallReplace(p) \/ InstallCopied(p) \/ InstallFailed(p)
           \/ InstallUpsert(p) \/ InstallRecord(p)
  BY <1>4, InstallReplaceTidy, InstallCopiedTidy, InstallFailedTidy,
     InstallUpsertTidy, InstallRecordTidy
<1>5. CASE InstallWriteLock(p) \/ InstallLocate(p) \/ InstallReread(p) \/ InstallRewrite(p)
  BY <1>5, InstallWriteLockTidy, InstallLocateTidy, InstallRereadTidy, InstallRewriteTidy
<1>6. CASE UninstallPayload(p) \/ UninstallRegistry(p) \/ UninstallReadLock(p)
           \/ UninstallWriteLock(p)
  BY <1>6, UninstallPayloadTidy, UninstallRegistryTidy, UninstallReadLockTidy,
     UninstallWriteLockTidy
<1> QED BY <1>1, <1>2, <1>3, <1>4, <1>5, <1>6 DEF Continue

(* The one command is never killed, so that all its steps are those above. *)
LEMMA TidyStep ==
  ASSUME OneAtATime, IInv, TidyInv, [Next]_vars
  PROVE  TidyInv'
<1>1. CASE UNCHANGED vars
  BY <1>1 DEF vars, TidyInv, TidyJob, Tidy, Hidden, HiddenUpTo
<1>2. CASE Next
  <2> PICK p \in Procs : Start(p) \/ Continue(p)
    BY <1>2 DEF Next, Crash, OneAtATime
  <2>1. TidyJob(job[p])'
    BY StartTidy, ContinueTidy DEF TidyInv
  <2> QED BY <2>1 DEF TidyInv, OneAtATime
<1> QED BY <1>1, <1>2

LEMMA TidyInit == Init => TidyInv
<1> SUFFICES ASSUME Init, NEW p \in Procs PROVE TidyJob(job[p])
  BY DEF TidyInv
<1>1. job[p] = Idle /\ \A c \in Caps : row[c] # "DISABLED"
  BY DEF Init, NoRow
<1> QED BY <1>1 DEF TidyJob, Tidy, Idle

(* The invariant holds in every reachable state.                           *)
LEMMA AlwaysTidy == ASSUME OneAtATime PROVE Spec => []TidyInv
BY TidyInit, TidyStep, InductiveInvariant, PTL DEF Spec

(* Whatever commands have run, one after the other: once the last of them  *)
(* has ended, no agent that every command knows, and whose files can be    *)
(* removed, has a copy of a disabled capability, whichever of its versions *)
(* was exposed (setDisabled, exposeToAgents, Runtime.executePlan).  It is  *)
(* not so for custom agents, which disable does not know.                  *)
THEOREM DisabledCapabilitiesAreHidden ==
  ASSUME OneAtATime PROVE Spec => []DisabledIsHidden
<1>1. TidyInv => DisabledIsHidden
  BY DEF TidyInv, TidyJob, Leaving, DisabledIsHidden, Quiescent, Tidy, Hidden,
         DisabledHiddenFrom, Removable, OneAtATime
<1> QED BY <1>1, AlwaysTidy, PTL

-----------------------------------------------------------------------------
(* A step of a command is still of this command, or its last.              *)
LEMMA CommandStays ==
  ASSUME IInv, NEW p \in Procs, Continue(p)
  PROVE  job'[p].cmd \in {job[p].cmd, "none"}
<1>1. job \in [Procs -> Jobs] /\ job[p] \in Jobs
  BY DEF IInv, TypeOK
<1> USE <1>1 DEF Jobs, Goto, Finish, Idle
<1>2. CASE ExposeNext(p) \/ ExposeDone(p) \/ RetractNext(p) \/ RetractDone(p)
  BY <1>2 DEF ExposeNext, ExposeDone, RetractNext, RetractDone
<1>3. CASE SetState(p) \/ RouteDecline(p) \/ RouteApply(p) \/ Consent(p)
           \/ CheckInstalled(p) \/ RoutePlanDone(p) \/ RouteWriteLock(p)
  BY <1>3 DEF SetState, RouteDecline, RouteApply, Consent, CheckInstalled,
       RoutePlanDone, RouteWriteLock
<1>4. CASE RoutePlan(p)
  BY <1>4, Planned
<1>5. CASE RouteActivate(p) \/ RouteDeactivate(p)
  BY <1>5, ActivationTaken, DeactivationTaken
<1>6. CASE InstallReplace(p) \/ InstallCopied(p) \/ InstallFailed(p)
           \/ InstallUpsert(p) \/ InstallRecord(p) \/ InstallWriteLock(p)
           \/ InstallLocate(p)
  BY <1>6 DEF InstallReplace, InstallCopied, InstallFailed, InstallUpsert,
       InstallRecord, InstallWriteLock, InstallLocate
<1>7. CASE InstallReread(p) \/ InstallRewrite(p) \/ UninstallPayload(p)
           \/ UninstallRegistry(p) \/ UninstallReadLock(p) \/ UninstallWriteLock(p)
  BY <1>7 DEF InstallReread, InstallRewrite, UninstallPayload, UninstallRegistry,
       UninstallReadLock, UninstallWriteLock
<1> QED BY <1>2, <1>3, <1>4, <1>5, <1>6, <1>7 DEF Continue

(* uninstall.                                                              *)
LEMMA RemovedStep ==
  ASSUME OneAtATime, IInv, RemovedInv, [Next]_vars
  PROVE  RemovedInv'
<1>1. CASE UNCHANGED vars
  BY <1>1 DEF vars, RemovedInv, Removed, Root
<1>2. CASE Next
  <2> PICK p \in Procs : Start(p) \/ Continue(p)
    BY <1>2 DEF Next, Crash, OneAtATime
  <2>1. job \in [Procs -> Jobs] /\ job[p] \in Jobs /\ Removed(job[p])
    BY DEF IInv, TypeOK, RemovedInv
  <2>2. Removed(job[p])'
    <3>1. CASE Start(p)
      <4>1. CASE RouteRefresh(p) \/ InstallStart(p)
        BY <2>1, <4>1, ZenonT(30) DEF RouteRefresh, InstallStart, Removed, Idle
      <4>2. ASSUME NEW c \in Caps, NEW goal, NEW label, StateCommand(p, c, goal, label)
            PROVE  job'[p].cmd = "state"
        BY <2>1, <4>2 DEF StateCommand, Idle
      <4>3. CASE UninstallStart(p)
        <5>1. PICK c \in Caps :
                /\ row[c] # NoRow
                /\ job' = [job EXCEPT ![p] = [Idle EXCEPT !.pc = "remove",
                             !.cmd = "uninstall", !.cap = c, !.ver = version[c]]]
          BY <4>3 DEF UninstallStart
        <5>2. /\ job'[p].pc = "remove" /\ job'[p].cap = c /\ job'[p].ver = version[c]
          BY <2>1, <5>1 DEF Idle
        <5> QED BY <4>3, <5>1, <5>2 DEF UninstallStart, Removed
      <4> QED BY <3>1, <4>1, <4>2, <4>3 DEF Start, Enable, ForceEnable, Disable, Activate,
           Deactivate, Removed
    <3>2. CASE Continue(p) /\ job[p].cmd # "uninstall"
      <4>1. job'[p].cmd \in {job[p].cmd, "none"}
        BY <2>1, <3>2, CommandStays
      <4> QED BY <3>2, <4>1 DEF Removed
    <3>3. CASE Continue(p) /\ job[p].cmd = "uninstall"
      <4>1. CASE RetractNext(p)
        BY <2>1, <3>3, <4>1 DEF Removed, RetractNext, PayloadAfterRemoval, Root, Jobs
      <4>2. CASE RetractDone(p)
        BY <2>1, <3>3, <4>2 DEF Removed, RetractDone, Finish, Idle
      <4>3. CASE UninstallPayload(p) \/ UninstallRegistry(p)
        BY <2>1, <3>3, <4>3 DEF Removed, UninstallPayload, UninstallRegistry, Goto, Root, Jobs
      <4>4. CASE UninstallReadLock(p) \/ UninstallWriteLock(p)
        BY <2>1, <3>3, <4>4 DEF Removed, UninstallReadLock, UninstallWriteLock, Goto, Root, Jobs
      <4> QED BY <2>1, <3>3, <4>1, <4>2, <4>3, <4>4 DEF Removed, Continue,
           ExposeNext, ExposeDone, SetState, RoutePlan,
           RouteDecline, RouteApply, RouteActivate, Consent, CheckInstalled,
           RouteDeactivate, RoutePlanDone, RouteWriteLock, InstallReplace,
           InstallCopied, InstallFailed, InstallUpsert, InstallRecord,
           InstallWriteLock, InstallLocate, InstallReread, InstallRewrite
    <3> QED BY <3>1, <3>2, <3>3
  <2> QED BY <2>2 DEF RemovedInv, OneAtATime
<1> QED BY <1>1, <1>2

LEMMA AlwaysRemoved == ASSUME OneAtATime PROVE Spec => []RemovedInv
<1>1. Init => RemovedInv
  BY DEF Init, RemovedInv, Removed, Idle
<1> QED BY <1>1, RemovedStep, InductiveInvariant, PTL DEF Spec

(* The step that ends it finds everything removed.                         *)
LEMMA UninstallIsComplete ==
  ASSUME OneAtATime, IInv, TidyInv, RemovedInv, [Next]_vars,
         NEW p \in Procs, UninstallEnds(p)
  PROVE  LET c == job[p].cap IN
            /\ row'[c] # NoRow
            /\ c \notin registry' \cup lock'
            /\ <<c, version'[c]>> \notin payload'
            /\ \A a \in Agents \ MayFail : c \notin exposed'[a]
<1>1. job \in [Procs -> Jobs] /\ job[p] \in Jobs /\ Removed(job[p]) /\ TidyJob(job[p])
  BY DEF IInv, TypeOK, RemovedInv, TidyInv
<1>2. job[p].pc \in {"remove", "unregister", "readlock", "unlock", "retract"}
  BY <1>1 DEF Removed, UninstallEnds
<1>3. Continue(p)
  BY <1>1, <1>2 DEF UninstallEnds, vars, Next, Crash, OneAtATime, Start, Enable, ForceEnable, Disable,
     Activate, Deactivate, StateCommand, RouteRefresh, InstallStart, UninstallStart
<1>4. RetractDone(p)
  <2>1. ~(RetractNext(p) \/ UninstallPayload(p) \/ UninstallRegistry(p)
          \/ UninstallReadLock(p) \/ UninstallWriteLock(p))
    BY <1>1 DEF UninstallEnds, RetractNext, UninstallPayload, UninstallRegistry, UninstallReadLock,
       UninstallWriteLock, Goto, Jobs
  <2> QED BY <1>2, <1>3, <2>1 DEF UninstallEnds, Continue,
       ExposeNext, ExposeDone, SetState, RoutePlan, RouteDecline, RouteApply,
       RouteActivate, Consent, CheckInstalled, RouteDeactivate, RoutePlanDone,
       RouteWriteLock, InstallReplace, InstallCopied, InstallFailed, InstallUpsert,
       InstallRecord, InstallWriteLock, InstallLocate, InstallReread, InstallRewrite
<1>5. \A a \in Agents \ MayFail : job[p].cap \notin exposed[a]
  BY <1>1, <1>4, RetractionHides DEF UninstallEnds
<1> QED BY <1>1, <1>4, <1>5 DEF UninstallEnds, RetractDone, Removed, Root

(* When uninstall ends, the capability is gone from the registry, the      *)
(* lockfile and every agent, custom ones included, whose files can be      *)
(* removed, and so is the install root of the version in its row           *)
(* (uninstall of cli/commands/capabilities.ts, Installer.uninstall).  What *)
(* is left is the row, and the roots of the versions it had before.        *)
THEOREM UninstalledIsGone ==
  ASSUME OneAtATime PROVE Spec => UninstallRemovesInstalled
<1>1. IInv /\ TidyInv /\ RemovedInv /\ [Next]_vars =>
        [\A p \in Procs : UninstallEnds(p) =>
             LET c == job[p].cap IN
               /\ row'[c] # NoRow
               /\ c \notin registry' \cup lock'
               /\ <<c, version'[c]>> \notin payload'
               /\ \A a \in Agents \ MayFail : c \notin exposed'[a]]_vars
  BY UninstallIsComplete
<1> QED BY <1>1, InductiveInvariant, AlwaysTidy, AlwaysRemoved, PTL
        DEF Spec, UninstallRemovesInstalled

-----------------------------------------------------------------------------
(* route.  The capabilities kept only get fewer.                           *)
LEMMA FewerAreWithin ==
  ASSUME NEW S, NEW T, S \subseteq Caps, T \subseteq S, Cardinality(S) <= MaxActivations
  PROVE  Cardinality(T) <= MaxActivations
<1>1. IsFiniteSet(S)
  BY FS_Subset, FiniteAssumption
<1>2. Cardinality(T) <= Cardinality(S) /\ Cardinality(S) \in Nat /\ Cardinality(T) \in Nat
  BY <1>1, FS_Subset, FS_CardinalityType
<1> QED BY <1>2, CapsAssumption

LEMMA KeptShrinks ==
  ASSUME IInv, NEW p \in Procs, WithinBudget(job[p]), job[p].cmd = "route",
         job[p].pc \in Applying, Kept(job[p])' \subseteq Kept(job[p])
  PROVE  Cardinality(Kept(job[p])') <= MaxActivations
<1>1. job[p].cap \in Caps \/ Turning(job[p]) = {}
  BY DEF IInv, JobOK, Turning
<1>2. Kept(job[p]) \subseteq Caps
  BY <1>1 DEF IInv, TypeOK, Jobs, Kept, Turning
<1> QED BY <1>2, FewerAreWithin DEF WithinBudget

LEMMA PlanBudget ==
  ASSUME IInv, NEW p \in Procs, WithinBudget(job[p]), RoutePlan(p)
  PROVE  WithinBudget(job[p])'
<1>1. job'[p].pc = "confirm" /\ job'[p].cmd = job[p].cmd
  BY Planned
<1>2. PICK selected \in SUBSET (job'[p].scored \ Never) :
         /\ Cardinality(selected) <= MaxActivations
         /\ job'[p].acts = {c \in selected : ~IsActive(c)}
         /\ job'[p].deacts = {c \in job'[p].scored \ (Never \cup selected) : IsActive(c)}
  BY Planned
<1>3. selected \subseteq Caps
  BY Planned
<1>4. row' = row
  BY DEF RoutePlan
<1>5. Kept(job[p])' \subseteq selected
  BY <1>1, <1>2, <1>4 DEF Kept, Turning, Yielding, IsActive
<1>6. Cardinality(Kept(job[p])') <= MaxActivations
  BY <1>2, <1>3, <1>5, FewerAreWithin
<1> QED BY <1>1, <1>6 DEF WithinBudget, Applying

LEMMA ActivationBudget ==
  ASSUME IInv, NEW p \in Procs, WithinBudget(job[p]), RouteActivate(p), job[p].cmd = "route"
  PROVE  WithinBudget(job[p])'
<1>1. /\ job'[p].pc \in {"consent", "check"} /\ job'[p].goal = "ACTIVE"
      /\ job'[p].cap \in job[p].acts /\ job'[p].deacts = job[p].deacts
      /\ job'[p].acts = job[p].acts \ {job'[p].cap}
      /\ job'[p].cmd = job[p].cmd /\ job'[p].scored = job[p].scored
  BY ActivationTaken
<1>2. job[p].pc = "next" /\ row' = row
  BY DEF RouteActivate
<1>3. Kept(job[p])' \subseteq Kept(job[p])
  BY <1>1, <1>2 DEF Kept, Turning, Yielding, IsActive
<1> QED BY <1>1, <1>2, <1>3, KeptShrinks DEF WithinBudget, Applying

LEMMA DeactivationBudget ==
  ASSUME IInv, NEW p \in Procs, WithinBudget(job[p]), RouteDeactivate(p), job[p].cmd = "route"
  PROVE  WithinBudget(job[p])'
<1>1. /\ job'[p].pc = "retract" /\ job'[p].goal = "ENABLED"
      /\ job'[p].cap \in job[p].deacts /\ job'[p].acts = job[p].acts
      /\ job'[p].deacts = job[p].deacts \ {job'[p].cap}
      /\ job'[p].cmd = job[p].cmd /\ job'[p].scored = job[p].scored
  BY DeactivationTaken
<1>2. job[p].pc = "next" /\ row' = row /\ job[p].acts = {}
  BY DEF RouteDeactivate
<1>3. Kept(job[p])' \subseteq Kept(job[p])
  BY <1>1, <1>2 DEF Kept, Turning, Yielding, IsActive
<1> QED BY <1>1, <1>2, <1>3, KeptShrinks DEF WithinBudget, Applying

(* What is activated was counted already; what is deactivated stays out.   *)
LEMMA SetStateBudget ==
  ASSUME IInv, NEW p \in Procs, WithinBudget(job[p]), SetState(p), job[p].cmd = "route"
  PROVE  WithinBudget(job[p])'
<1>1. /\ job[p] \in Jobs /\ job \in [Procs -> Jobs] /\ JobOK(job[p], Present)
      /\ row \in [Caps -> Resting \cup {NoRow}] /\ job[p].pc = "set"
  BY DEF IInv, TypeOK, SetState
<1>2. job'[p] = [job[p] EXCEPT !.pc = "next"]
  BY <1>1 DEF SetState, Goto
<1>3. job[p].cap \in Caps /\ row' = [row EXCEPT ![job[p].cap] = job[p].goal]
  BY StoreGoal DEF Present
<1>4. job[p].goal \in {"ENABLED", "ACTIVE"}
  BY <1>1 DEF Jobs, JobOK
<1>5. \A c \in Caps : IsActive(c)' => IsActive(c) \/ (c = job[p].cap /\ job[p].goal = "ACTIVE")
  BY <1>1, <1>3 DEF IsActive
<1>6. job[p].goal = "ENABLED" => row'[job[p].cap] # "ACTIVE"
  BY <1>1, <1>3
<1>7. /\ job'[p].scored = job[p].scored /\ job'[p].acts = job[p].acts
      /\ job'[p].deacts = job[p].deacts /\ job'[p].pc = "next" /\ job'[p].cmd = "route"
      /\ job'[p].cap = job[p].cap
  BY <1>1, <1>2 DEF Jobs
<1>8. Kept(job[p])' \subseteq Kept(job[p])
  <2>1. job[p].scored \subseteq Caps
    BY <1>1 DEF Jobs
  <2> QED BY <1>1, <1>4, <1>5, <1>6, <1>7, <2>1 DEF Kept, Turning, Yielding, IsActive
<1>9. Cardinality(Kept(job[p])') <= MaxActivations
  BY <1>1, <1>8, KeptShrinks DEF Applying
<1> QED BY <1>7, <1>9 DEF WithinBudget, Applying

(* A step that changes only the label, and the position, of the command.   *)
LEMMA LabelBudget ==
  ASSUME IInv, NEW p \in Procs, WithinBudget(job[p]), job[p].cmd = "route",
         row' = row, job[p].pc \in Applying, job'[p].pc \in Applying,
         job'[p].cmd = "route", job'[p].cap = job[p].cap, job'[p].goal = job[p].goal,
         job'[p].scored = job[p].scored, job'[p].acts = job[p].acts,
         job'[p].deacts = job[p].deacts,
         \/ job'[p].pc = job[p].pc
         \/ job[p].pc = "confirm" /\ job'[p].pc = "next"
         \/ job[p].pc \in {"consent", "check", "expose"} /\ job'[p].pc \in {"check", "expose", "set", "next"}
         \/ job[p].pc = "retract" /\ job'[p].pc = "set"
         \/ job[p].pc = "next" /\ job'[p].pc = "relock"
                /\ job[p].acts = {} /\ job[p].deacts = {}
  PROVE  WithinBudget(job[p])'
<1>1. Kept(job[p])' \subseteq Kept(job[p])
  BY DEF Kept, Turning, Yielding, IsActive, WithinBudget, Applying
<1>2. Cardinality(Kept(job[p])') <= MaxActivations
  BY <1>1, KeptShrinks
<1> QED BY <1>2 DEF WithinBudget, Applying

LEMMA LabelStepsBudget ==
  ASSUME IInv, NEW p \in Procs, WithinBudget(job[p]), job[p].cmd = "route",
         \/ ExposeNext(p) \/ ExposeDone(p) \/ RetractNext(p) \/ RetractDone(p)
         \/ RouteApply(p) \/ Consent(p) \/ CheckInstalled(p) \/ RoutePlanDone(p)
  PROVE  WithinBudget(job[p])'
<1> DEFINE Same == /\ job'[p].cmd = "route" /\ job'[p].cap = job[p].cap
                   /\ job'[p].goal = job[p].goal /\ job'[p].scored = job[p].scored
                   /\ job'[p].acts = job[p].acts /\ job'[p].deacts = job[p].deacts
                   /\ row' = row
<1>1. job[p] \in Jobs /\ job \in [Procs -> Jobs]
  BY DEF IInv, TypeOK
<1> USE DEF Applying
<1>2. CASE ExposeNext(p)
  <2>1. Same /\ job[p].pc = "expose" /\ job'[p].pc = "expose"
    BY <1>1, <1>2 DEF ExposeNext, Jobs
  <2> QED BY <2>1, LabelBudget
<1>3. CASE ExposeDone(p)
  <2>1. Same /\ job[p].pc = "expose" /\ job'[p].pc \in {"set", "next"}
    BY <1>1, <1>3 DEF ExposeDone, Goto, Jobs
  <2> QED BY <2>1, LabelBudget
<1>4. CASE RetractNext(p)
  <2>1. Same /\ job[p].pc = "retract" /\ job'[p].pc = "retract"
    BY <1>1, <1>4 DEF RetractNext, Jobs
  <2> QED BY <2>1, LabelBudget
<1>5. CASE RetractDone(p)
  <2>1. Same /\ job[p].pc = "retract" /\ job'[p].pc = "set"
    BY <1>1, <1>5 DEF RetractDone, Goto, Jobs
  <2> QED BY <2>1, LabelBudget
<1>6. CASE RouteApply(p)
  <2>1. Same /\ job[p].pc = "confirm" /\ job'[p].pc = "next"
    BY <1>1, <1>6 DEF RouteApply, Jobs
  <2> QED BY <2>1, LabelBudget
<1>7. CASE Consent(p)
  <2>1. Same /\ job[p].pc = "consent" /\ job'[p].pc \in {"check", "next"}
    BY <1>1, <1>7 DEF Consent, Goto, Jobs
  <2> QED BY <2>1, LabelBudget
<1>8. CASE CheckInstalled(p)
  <2>1. Same /\ job[p].pc = "check" /\ job'[p].pc \in {"next", "expose"}
    BY <1>1, <1>8 DEF CheckInstalled, Goto, Jobs
  <2> QED BY <2>1, LabelBudget
<1>9. CASE RoutePlanDone(p)
  <2>1. /\ Same /\ job[p].pc = "next" /\ job'[p].pc = "relock"
        /\ job[p].acts = {} /\ job[p].deacts = {}
    BY <1>1, <1>9 DEF RoutePlanDone, Goto, Jobs
  <2> QED BY <2>1, LabelBudget
<1> QED BY <1>2, <1>3, <1>4, <1>5, <1>6, <1>7, <1>8, <1>9

LEMMA StartBudget ==
  ASSUME IInv, NEW p \in Procs, Start(p)
  PROVE  WithinBudget(job[p])'
<1>1. job \in [Procs -> Jobs]
  BY DEF IInv, TypeOK
<1>2. CASE RouteRefresh(p)
  <2>1. job'[p].pc = "plan"
    BY <1>1, <1>2 DEF RouteRefresh, Idle
  <2> QED BY <2>1 DEF WithinBudget, Applying
<1>3. CASE InstallStart(p) \/ UninstallStart(p)
  <2>1. job'[p].cmd \in {"install", "uninstall"}
    BY <1>1, <1>3 DEF InstallStart, UninstallStart, Idle
  <2> QED BY <2>1 DEF WithinBudget
<1>4. ASSUME NEW c \in Caps, NEW goal, NEW label, StateCommand(p, c, goal, label)
      PROVE  job'[p].cmd = "state"
  BY <1>1, <1>4 DEF StateCommand, Idle
<1> QED BY <1>2, <1>3, <1>4 DEF Start, Enable, ForceEnable, Disable, Activate,
     Deactivate, WithinBudget

LEMMA BudgetStep ==
  ASSUME OneAtATime, IInv, TidyInv, BudgetInv, [Next]_vars
  PROVE  BudgetInv'
<1>1. CASE UNCHANGED vars
  <2>1. job' = job /\ row' = row
    BY <1>1 DEF vars
  <2> QED BY <2>1, SMTT(60) DEF BudgetInv, WithinBudget, Kept, Turning, Yielding, IsActive
<1>2. CASE Next
  <2> PICK p \in Procs : Start(p) \/ Continue(p)
    BY <1>2 DEF Next, Crash, OneAtATime
  <2>1. WithinBudget(job[p]) /\ job \in [Procs -> Jobs] /\ TidyJob(job[p])
    BY DEF IInv, TypeOK, BudgetInv, TidyInv
  <2>2. WithinBudget(job[p])'
    <3>1. CASE Start(p)
      BY <3>1, StartBudget
    <3>2. CASE Continue(p) /\ job[p].cmd # "route"
      BY <3>2, CommandStays DEF WithinBudget
    <3>3. CASE Continue(p) /\ job[p].cmd = "route"
      <4>1. CASE RouteDecline(p) \/ RouteWriteLock(p)
        BY <2>1, <4>1 DEF RouteDecline, RouteWriteLock, Finish, Idle, WithinBudget
      <4>2. job[p].pc \in Applying \cup {"plan"}
        BY <2>1, <3>3 DEF WithinBudget
      <4>3. \/ RoutePlan(p) \/ RouteActivate(p) \/ RouteDeactivate(p) \/ SetState(p)
            \/ RouteDecline(p) \/ RouteWriteLock(p)
            \/ ExposeNext(p) \/ ExposeDone(p) \/ RetractNext(p) \/ RetractDone(p)
            \/ RouteApply(p) \/ Consent(p) \/ CheckInstalled(p) \/ RoutePlanDone(p)
        BY <3>3, <4>2 DEF Continue, Applying, InstallReplace, InstallCopied,
           InstallFailed, InstallUpsert, InstallRecord, InstallWriteLock, InstallLocate,
           InstallReread, InstallRewrite, UninstallPayload, UninstallRegistry,
           UninstallReadLock, UninstallWriteLock
      <4> QED BY <2>1, <3>3, <4>1, <4>3, PlanBudget, ActivationBudget,
           DeactivationBudget, SetStateBudget, LabelStepsBudget
    <3> QED BY <3>1, <3>2, <3>3
  <2> QED BY <2>2 DEF BudgetInv, OneAtATime
<1> QED BY <1>1, <1>2

LEMMA AlwaysBudget == ASSUME OneAtATime PROVE Spec => []BudgetInv
<1>1. Init => BudgetInv
  BY DEF Init, BudgetInv, WithinBudget, Idle
<1> QED BY <1>1, BudgetStep, AlwaysTidy, InductiveInvariant, PTL DEF Spec

(* When a plan has been applied, at most max_activations of what was       *)
(* scored are active, whatever consent was denied and whatever could not   *)
(* be exposed (buildPlan, Runtime.executePlan).                            *)
THEOREM RoutesStayWithinBudget ==
  ASSUME OneAtATime PROVE Spec => []RouteWithinBudget
<1>1. ASSUME IInv, TidyInv, BudgetInv, NEW p \in Procs, job[p].pc = "relock"
      PROVE  Cardinality({c \in job[p].scored \ Never : IsActive(c)}) <= MaxActivations
  <2>1. job[p].cmd = "route" /\ WithinBudget(job[p])
    BY <1>1 DEF TidyInv, TidyJob, BudgetInv
  <2>2. Kept(job[p]) = {c \in job[p].scored \ Never : IsActive(c)}
    BY <1>1, <2>1 DEF WithinBudget, Kept, Turning, Yielding
  <2> QED BY <1>1, <2>1, <2>2 DEF WithinBudget, Applying
<1>2. IInv /\ TidyInv /\ BudgetInv => RouteWithinBudget
  BY <1>1 DEF RouteWithinBudget
<1> QED BY <1>2, AlwaysBudget, AlwaysTidy, InductiveInvariant, PTL
=============================================================================
