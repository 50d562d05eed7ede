--------------------------- MODULE InstallerProofs ---------------------------
(* Proofs about Installer, for every set of files and of sources.           *)
EXTENDS Installer, TLAPS

(* A complete backup of what the command found has been taken.              *)
Saved(j, b) == j.before # NoDir => j.copy = j.before /\ j.before \in b

(* What was last installed has a backup.                                    *)
Kept(l, b) == l = NoDir \/ l \in b

(* What a command knows at each point of the directories it works on.       *)
JobOK(j, t, b, l) ==
    /\ j.pc = "backup" => t = j.before /\ t # NoDir /\ j.copy \cup j.todo = t
    /\ j.pc = "ready" => t = j.before
    /\ j.pc \in {"ready", "copy", "failed", "restore"} => Saved(j, b)
    /\ j.pc \in {"copy", "failed", "restore"} => Kept(l, b)
    /\ j.pc = "copy" => Tree(t) \cup j.todo = j.source
    /\ j.pc = "commit" => t = j.source /\ HasManifest(t)
    /\ j.pc = "restore" => j.before # NoDir /\ Tree(t) \cup j.todo = j.before

IInv == TypeOK /\ LastGoodIsKept /\ JobOK(job, target, backups, last)

Jobs == [pc : {"idle", "backup", "ready", "copy", "commit", "failed", "restore"},
         cmd : {"none", "install", "uninstall"},
         source : Trees, before : Trees \cup {NoDir}, todo : Trees, copy : Trees]

-----------------------------------------------------------------------------
(* Within a tree, copying an entry only adds it, and parts of a tree are    *)
(* trees.                                                                   *)
LEMMA PutWithin ==
  ASSUME NEW t \in Trees, NEW d, Tree(d) \subseteq t, NEW e \in t
  PROVE  Put(d, e) = Tree(d) \cup {e} /\ Put(d, e) \subseteq t
BY DEF Put, Trees

LEMMA PartOfTree ==
  ASSUME NEW t \in Trees, NEW s, s \subseteq t
  PROVE  s \in Trees
BY DEF Trees

LEMMA TreeOfDir ==
  ASSUME NEW d \in Trees \cup {NoDir}
  PROVE  Tree(d) \in Trees /\ (d # NoDir => Tree(d) = d) /\ Tree(NoDir) = {}
BY DEF Tree, Trees

LEMMA IdleOK ==
  Idle \in Jobs /\ \A t, b, l : JobOK(Idle, t, b, l)
BY DEF Idle, Jobs, JobOK, Trees

LEMMA JobType == TypeOK => job \in Jobs
BY DEF TypeOK, Jobs

(* A step that ends a command, with the install root as it was.             *)
LEMMA EndsUnchanged ==
  ASSUME IInv, job' = Idle, UNCHANGED <<target, backups, last>>
  PROVE  IInv'
BY IdleOK DEF IInv, TypeOK, LastGoodIsKept, Jobs

-----------------------------------------------------------------------------
LEMMA BeginStep ==
  ASSUME IInv, NEW cmd \in {"install", "uninstall"}, NEW source \in Trees,
         Begin(cmd, source)
  PROVE  IInv'
<1>1. UNCHANGED <<target, backups, last>> /\ target \in Trees \cup {NoDir}
  BY DEF Begin, IInv, TypeOK
<1>2. job' \in Jobs
  <2>1. {} \in Trees
    BY DEF Trees
  <2> QED BY <1>1, <2>1, TreeOfDir DEF Begin, Jobs
<1>3. JobOK(job', target, backups, last)
  BY <1>1, TreeOfDir DEF Begin, JobOK, Saved
<1> QED BY <1>1, <1>2, <1>3 DEF IInv, TypeOK, LastGoodIsKept, Jobs

LEMMA BackUpStep ==
  ASSUME IInv, BackUp
  PROVE  IInv'
<1>1. PICK e \in job.todo : job' = [job EXCEPT !.todo = @ \ {e}, !.copy = Put(@, e)]
  BY DEF BackUp
<1>2. /\ job \in Jobs /\ job.pc = "backup" /\ UNCHANGED <<target, backups, last>>
      /\ target \in Trees /\ job.copy \cup job.todo = target /\ target = job.before
      /\ target # NoDir
  BY JobType DEF BackUp, IInv, TypeOK, JobOK
<1>3. Put(job.copy, e) = job.copy \cup {e} /\ Put(job.copy, e) \in Trees
  <2>1. Tree(job.copy) = job.copy
    BY <1>2, InstallerAssumption DEF Tree, Jobs
  <2>2. job.copy \subseteq target /\ e \in target
    BY <1>1, <1>2
  <2> QED BY <1>2, <2>1, <2>2, PutWithin, PartOfTree
<1>4. job.todo \ {e} \in Trees
  BY <1>2, PartOfTree DEF Jobs
<1> DEFINE c == job.copy \cup {e}
           d == job.todo \ {e}
<1>5. c \cup d = target
  BY <1>1, <1>2
<1>6. /\ job'.pc = "backup" /\ job'.before = job.before
      /\ job'.copy = c /\ job'.todo = d
      /\ job' \in Jobs
  BY <1>1, <1>2, <1>3, <1>4 DEF Jobs
<1>7. JobOK(job', target, backups, last)
  BY <1>2, <1>5, <1>6 DEF JobOK
<1> QED BY <1>2, <1>6, <1>7 DEF IInv, TypeOK, LastGoodIsKept, Jobs

LEMMA BackedUpStep ==
  ASSUME IInv, BackedUp
  PROVE  IInv'
<1>1. /\ job \in Jobs /\ job.pc = "backup" /\ job.todo = {}
      /\ job.copy = target /\ target = job.before /\ target \in Trees
      /\ target # NoDir
      /\ target' = target /\ last' = last /\ backups' = backups \cup {job.copy}
  BY JobType DEF BackedUp, IInv, TypeOK, JobOK
<1>2. /\ job' \in Jobs /\ job'.pc = "ready"
      /\ job'.before = job.before /\ job'.copy = job.copy
  BY <1>1 DEF BackedUp, Jobs
<1>3. JobOK(job', target, backups', last)
  BY <1>1, <1>2 DEF JobOK, Saved
<1> QED BY <1>1, <1>2, <1>3 DEF IInv, TypeOK, LastGoodIsKept, Jobs

(* With the copy taken, the root may go: what was last installed is saved.  *)
LEMMA ReadyIsKept ==
  ASSUME IInv, job.pc \in {"ready", "failed"}
  PROVE  Kept(last, backups)
BY DEF IInv, LastGoodIsKept, JobOK, Saved, Kept

LEMMA UninstalledStep ==
  ASSUME IInv, Uninstalled
  PROVE  IInv'
<1>1. Kept(last, backups) /\ UNCHANGED <<backups, last>> /\ target' = NoDir
  BY ReadyIsKept DEF Uninstalled
<1> QED BY <1>1, IdleOK DEF Uninstalled, IInv, TypeOK, LastGoodIsKept, Kept, Jobs

LEMMA StagedStep ==
  ASSUME IInv, Staged
  PROVE  IInv'
<1>1. /\ Kept(last, backups) /\ UNCHANGED <<backups, last>> /\ target' = NoDir
      /\ job \in Jobs /\ Saved(job, backups)
  BY ReadyIsKept, JobType DEF Staged, IInv, JobOK
<1>2. /\ job' \in Jobs /\ job'.pc = "copy" /\ job'.todo = job'.source
      /\ job'.before = job.before /\ job'.copy = job.copy
  BY <1>1 DEF Staged, Jobs
<1>3. JobOK(job', NoDir, backups, last)
  BY <1>1, <1>2 DEF JobOK, Saved, Tree
<1> QED BY <1>1, <1>2, <1>3 DEF IInv, TypeOK, LastGoodIsKept, Kept, Jobs

(* One entry more of a tree that is being copied to the root.               *)
LEMMA CopyOne ==
  ASSUME NEW t \in Trees, NEW d, NEW s, Tree(d) \cup s = t, NEW e \in s
  PROVE  /\ Put(d, e) \in Trees
         /\ Put(d, e) # NoDir
         /\ Tree(Put(d, e)) \cup (s \ {e}) = t
<1>1. Put(d, e) = Tree(d) \cup {e} /\ Put(d, e) \in Trees
  BY PutWithin, PartOfTree
<1>2. Put(d, e) # NoDir
  BY <1>1, InstallerAssumption
<1>3. Tree(Put(d, e)) = Tree(d) \cup {e}
  BY <1>1, <1>2 DEF Tree
<1> QED BY <1>1, <1>2, <1>3

LEMMA CopyStep ==
  ASSUME IInv, Copy
  PROVE  IInv'
<1>1. PICK e \in job.todo : target' = Put(target, e)
                              /\ job' = [job EXCEPT !.todo = @ \ {e}]
  BY DEF Copy
<1>2. /\ job \in Jobs /\ job.pc = "copy" /\ UNCHANGED <<backups, last>>
      /\ job.source \in Trees /\ job.todo \in Trees
      /\ Tree(target) \cup job.todo = job.source
      /\ Saved(job, backups) /\ Kept(last, backups)
  BY JobType DEF Copy, IInv, JobOK, Jobs
<1>3. target' \in Trees /\ Tree(target') \cup (job.todo \ {e}) = job.source
  <2>1. /\ Put(target, e) \in Trees
        /\ Tree(Put(target, e)) \cup (job.todo \ {e}) = job.source
    <3>1. /\ job.source \in Trees /\ e \in job.todo
          /\ Tree(target) \cup job.todo = job.source
      BY <1>2
    <3> QED BY <3>1, CopyOne, SMTT(60)
  <2> QED BY <1>1, <2>1
<1>4. job.todo \ {e} \in Trees
  BY <1>2, PartOfTree
<1>5. /\ job' \in Jobs /\ job'.pc = "copy" /\ job'.todo = job.todo \ {e}
      /\ job'.source = job.source /\ job'.before = job.before /\ job'.copy = job.copy
  BY <1>1, <1>2, <1>4 DEF Jobs
<1>6. JobOK(job', target', backups, last)
  BY <1>2, <1>3, <1>5 DEF JobOK, Saved
<1> QED BY <1>2, <1>3, <1>5, <1>6 DEF IInv, TypeOK, LastGoodIsKept, Kept, Jobs

LEMMA VerifiedStep ==
  ASSUME IInv, Verified
  PROVE  IInv'
<1>1. /\ job \in Jobs /\ UNCHANGED <<target, backups, last>>
      /\ target \in Trees \cup {NoDir}
      /\ Tree(target) = job.source /\ HasManifest(Tree(target))
  BY JobType DEF Verified, IInv, TypeOK
<1>2. target # NoDir
  BY <1>1, TreeOfDir DEF HasManifest
<1>3. job' \in Jobs /\ job'.pc = "commit" /\ job'.source = job.source
  BY <1>1 DEF Verified, Jobs
<1>4. JobOK(job', target, backups, last)
  BY <1>1, <1>2, <1>3, TreeOfDir DEF JobOK
<1> QED BY <1>1, <1>3, <1>4 DEF IInv, TypeOK, LastGoodIsKept, Jobs

LEMMA StageFailsStep ==
  ASSUME IInv, StageFails
  PROVE  IInv'
<1>1. /\ job \in Jobs /\ UNCHANGED <<target, backups, last>>
      /\ Saved(job, backups) /\ Kept(last, backups)
  BY JobType, ReadyIsKept DEF StageFails, IInv, JobOK
<1>2. /\ job' \in Jobs /\ job'.pc = "failed"
      /\ job'.before = job.before /\ job'.copy = job.copy
  BY <1>1 DEF StageFails, Jobs
<1>3. JobOK(job', target, backups, last)
  BY <1>1, <1>2 DEF JobOK, Saved
<1> QED BY <1>1, <1>2, <1>3 DEF IInv, TypeOK, LastGoodIsKept, Jobs

LEMMA CommitStep ==
  ASSUME IInv, Commit
  PROVE  IInv' /\ last' = job.source /\ HasManifest(last')
<1>1. /\ last' = target /\ UNCHANGED <<target, backups>> /\ job' = Idle
      /\ target = job.source /\ HasManifest(target) /\ target \in Trees
  BY JobType DEF Commit, IInv, TypeOK, JobOK, Jobs
<1> QED BY <1>1, IdleOK DEF IInv, TypeOK, LastGoodIsKept, Jobs

LEMMA RollBackStep ==
  ASSUME IInv, RollBack
  PROVE  IInv'
<1>1. /\ job \in Jobs /\ UNCHANGED <<backups, last>> /\ target' = NoDir
      /\ Saved(job, backups) /\ Kept(last, backups) /\ job.before # NoDir
      /\ job.copy = job.before
  BY JobType DEF RollBack, IInv, JobOK, Saved
<1>2. /\ job' \in Jobs /\ job'.pc = "restore" /\ job'.todo = job.copy
      /\ job'.before = job.before /\ job'.copy = job.copy
  BY <1>1 DEF RollBack, Jobs
<1>3. JobOK(job', NoDir, backups, last)
  BY <1>1, <1>2 DEF JobOK, Saved, Tree
<1> QED BY <1>1, <1>2, <1>3 DEF IInv, TypeOK, LastGoodIsKept, Kept, Jobs

LEMMA RestoreStep ==
  ASSUME IInv, Restore
  PROVE  IInv'
<1>1. PICK e \in job.todo : target' = Put(target, e)
                              /\ job' = [job EXCEPT !.todo = @ \ {e}]
  BY DEF Restore
<1>2. /\ job \in Jobs /\ job.pc = "restore" /\ UNCHANGED <<backups, last>>
      /\ job.before \in Trees /\ job.before # NoDir /\ job.todo \in Trees
      /\ Tree(target) \cup job.todo = job.before
      /\ Saved(job, backups) /\ Kept(last, backups)
  BY JobType DEF Restore, IInv, JobOK, Jobs
<1>3. target' \in Trees /\ Tree(target') \cup (job.todo \ {e}) = job.before
  BY <1>1, <1>2, CopyOne
<1>4. job.todo \ {e} \in Trees
  BY <1>2, PartOfTree
<1>5. /\ job' \in Jobs /\ job'.pc = "restore" /\ job'.todo = job.todo \ {e}
      /\ job'.before = job.before /\ job'.copy = job.copy
  BY <1>1, <1>2, <1>4 DEF Jobs
<1>6. JobOK(job', target', backups, last)
  BY <1>2, <1>3, <1>5 DEF JobOK, Saved
<1> QED BY <1>2, <1>3, <1>5, <1>6 DEF IInv, TypeOK, LastGoodIsKept, Kept, Jobs

LEMMA RestoredStep ==
  ASSUME IInv, Restored
  PROVE  IInv' /\ target' = job.before
<1>1. /\ job' = Idle /\ UNCHANGED <<backups, last>> /\ target' = Tree(target)
      /\ Tree(target) = job.before /\ job.before \in Trees /\ Kept(last, backups)
  BY JobType DEF Restored, IInv, JobOK, Jobs
<1> QED BY <1>1, IdleOK DEF IInv, TypeOK, LastGoodIsKept, Kept, Jobs

-----------------------------------------------------------------------------
LEMMA NextStep ==
  ASSUME IInv, [Next]_vars
  PROVE  IInv'
<1>1. CASE UNCHANGED vars
  BY <1>1 DEF vars, IInv, TypeOK, LastGoodIsKept
<1>2. CASE InstallBegins
  <2>1. PICK source \in Sources \cup (IF target = NoDir THEN {} ELSE {target}) :
          Begin("install", source)
    BY <1>2 DEF InstallBegins
  <2>2. source \in Trees
    BY <2>1, InstallerAssumption DEF IInv, TypeOK
  <2> QED BY <2>1, <2>2, BeginStep
<1>3. CASE UninstallBegins
  <2>1. {} \in Trees
    BY DEF Trees
  <2> QED BY <1>3, <2>1, BeginStep DEF UninstallBegins
<1>4. CASE BackUpFails \/ RestoreFails \/ NothingToRestore \/ Crash
  BY <1>4, EndsUnchanged DEF BackUpFails, RestoreFails, NothingToRestore, Crash
<1>5. CASE BackUp \/ BackedUp \/ Uninstalled
  BY <1>5, BackUpStep, BackedUpStep, UninstalledStep
<1>6. CASE Staged \/ Copy \/ Verified \/ StageFails \/ Commit
  BY <1>6, StagedStep, CopyStep, VerifiedStep, StageFailsStep, CommitStep
<1>7. CASE RollBack \/ Restore \/ Restored
  BY <1>7, RollBackStep, RestoreStep, RestoredStep
<1> QED BY <1>1, <1>2, <1>3, <1>4, <1>5, <1>6, <1>7 DEF Next

LEMMA InitHolds == Init => IInv
BY IdleOK DEF Init, IInv, TypeOK, LastGoodIsKept, Jobs

THEOREM InductiveInvariant == Spec => []IInv
BY InitHolds, NextStep, PTL DEF Spec

(* What is installed and backed up are trees, and what was last installed   *)
(* has a manifest.                                                          *)
THEOREM TypeCorrect == Spec => []TypeOK
<1>1. IInv => TypeOK
  BY DEF IInv
<1> QED BY <1>1, InductiveInvariant, PTL

(* No failure, kill, retry or uninstall loses what was last installed.      *)
THEOREM LastGoodIsAlwaysKept == Spec => []LastGoodIsKept
<1>1. IInv => LastGoodIsKept
  BY DEF IInv
<1> QED BY <1>1, InductiveInvariant, PTL

(* Every commit is of the whole source.                                     *)
THEOREM CommitsAreWhole == Spec => CommittedIsWhole
<1>1. IInv => [Commit => last' = job.source /\ HasManifest(last')]_vars
  BY CommitStep
<1> QED BY <1>1, InductiveInvariant, PTL DEF CommittedIsWhole

(* Every rollback that ends without an error is exact.                      *)
THEOREM RollbacksAreExact == Spec => RollbackIsExact
<1>1. IInv => [Restored => target' = job.before]_vars
  BY RestoredStep
<1> QED BY <1>1, InductiveInvariant, PTL DEF RollbackIsExact
=============================================================================
