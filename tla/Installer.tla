------------------------------ MODULE Installer ------------------------------
(***************************************************************************)
(* The install root of one capability under installer/installer.ts: the    *)
(* install that backs up, stages, replaces, verifies and commits or rolls  *)
(* back, and the uninstall that backs up and removes.  Directories are     *)
(* copied entry by entry, every copy may fail, and the process may be      *)
(* killed at any point; nothing repairs the root when the program runs     *)
(* again.  One invocation at a time.                                       *)
(***************************************************************************)
EXTENDS Integers

CONSTANTS Paths,      \* the files an install root may hold
          Manifest,   \* the manifest's path
          Contents,   \* what a file may hold
          Sources,    \* the source directories, as trees
          NoDir       \* stands for "there is no such directory"

Entries == [path : Paths, content : Contents]

(* What a directory holds: one entry for a path.                             *)
Trees == {t \in SUBSET Entries : \A x, y \in t : x.path = y.path => x = y}

ASSUME InstallerAssumption == Sources \subseteq Trees /\ \A t \in Trees : t # NoDir

VARIABLES target,    \* the install root: a set of entries, or NoDir
          backups,   \* the complete copies in .skillrouter/backups
          last,      \* what the last committed install put there, or NoDir
          job        \* the command that is running and its locals

vars == <<target, backups, last, job>>

Idle == [pc |-> "idle", cmd |-> "none", source |-> {}, before |-> NoDir,
         todo |-> {}, copy |-> {}]

Init == target = NoDir /\ backups = {} /\ last = NoDir /\ job = Idle

(* What readdir lists: nothing of a directory that is not there.             *)
Tree(dir) == IF dir = NoDir THEN {} ELSE dir

(* copyFile overwrites what is at the path.                                  *)
Put(dir, e) == {x \in Tree(dir) : x.path # e.path} \cup {e}

HasManifest(tree) == \E e \in tree : e.path = Manifest

-----------------------------------------------------------------------------
(* An install root that exists is copied to a new backup directory first.    *)
(* An error here ends the command before anything has changed.               *)

Begin(cmd, source) ==
    /\ job = Idle
    /\ job' = [pc |-> IF target = NoDir THEN "ready" ELSE "backup", cmd |-> cmd,
               source |-> source, before |-> target, todo |-> Tree(target), copy |-> {}]
    /\ UNCHANGED <<target, backups, last>>

(* The source is a directory, or, for an indexed capability, the root itself *)
(* when there is one, whatever it holds.                                     *)
InstallBegins ==
    \E source \in Sources \cup (IF target = NoDir THEN {} ELSE {target}) :
      Begin("install", source)

(* Only what was installed, and so has a row, is uninstalled.                *)
UninstallBegins == last # NoDir /\ Begin("uninstall", {})

BackUp == /\ job.pc = "backup"
          /\ \E e \in job.todo :
               job' = [job EXCEPT !.todo = @ \ {e}, !.copy = Put(@, e)]
          /\ UNCHANGED <<target, backups, last>>

BackedUp == /\ job.pc = "backup" /\ job.todo = {}
            /\ backups' = backups \cup {job.copy}
            /\ job' = [job EXCEPT !.pc = "ready"]
            /\ UNCHANGED <<target, last>>

BackUpFails == job.pc = "backup" /\ job' = Idle /\ UNCHANGED <<target, backups, last>>

Uninstalled == /\ job.pc = "ready" /\ job.cmd = "uninstall"
               /\ target' = NoDir
               /\ job' = Idle
               /\ UNCHANGED <<backups, last>>

-----------------------------------------------------------------------------
(* stageInstall.  Copying the source to the staging directory touches        *)
(* nothing else, so it is one step with the removal of the old root.         *)

(* A fault: the old root is not removed, and its copy is not taken.          *)
StagedWithoutBackup == /\ job.cmd = "install" /\ job.pc \in {"backup", "ready"}
                       /\ target' = NoDir
                       /\ job' = [job EXCEPT !.pc = "copy", !.todo = job.source]
                       /\ UNCHANGED <<backups, last>>

Staged == /\ job.pc = "ready" /\ job.cmd = "install"
          /\ target' = NoDir
          /\ job' = [job EXCEPT !.pc = "copy", !.todo = job.source]
          /\ UNCHANGED <<backups, last>>

Copy == /\ job.pc = "copy"
        /\ \E e \in job.todo : /\ target' = Put(target, e)
                               /\ job' = [job EXCEPT !.todo = @ \ {e}]
        /\ UNCHANGED <<backups, last>>

(* A fault: an entry that could not be copied goes unnoticed.                *)
VerifiedByManifestOnly == /\ job.pc = "copy" /\ HasManifest(Tree(target))
                          /\ job' = [job EXCEPT !.pc = "commit"]
                          /\ UNCHANGED <<target, backups, last>>

(* The hashes of the staging directory and the root agree, and there is a    *)
(* manifest.                                                                 *)
Verified == /\ job.pc = "copy" /\ job.todo = {}
            /\ Tree(target) = job.source /\ HasManifest(Tree(target))
            /\ job' = [job EXCEPT !.pc = "commit"]
            /\ UNCHANGED <<target, backups, last>>

(* They do not, or an error is caught anywhere in stageInstall.              *)
StageFails == /\ job.cmd = "install" /\ job.pc \in {"ready", "copy"}
              /\ job' = [job EXCEPT !.pc = "failed"]
              /\ UNCHANGED <<target, backups, last>>

(* The lockfile entry, the registry and the row.                             *)
Commit == /\ job.pc = "commit"
          /\ last' = target
          /\ job' = Idle
          /\ UNCHANGED <<target, backups>>

-----------------------------------------------------------------------------
(* The rollback, and the exception that ends a failed install.               *)

(* A fault: the backup is copied over what is there.                         *)
RollBackOver == /\ job.pc = "failed" /\ job.before # NoDir
                /\ job' = [job EXCEPT !.pc = "restore", !.todo = job.copy]
                /\ UNCHANGED <<target, backups, last>>

RollBack == /\ job.pc = "failed" /\ job.before # NoDir
            /\ target' = NoDir
            /\ job' = [job EXCEPT !.pc = "restore", !.todo = job.copy]
            /\ UNCHANGED <<backups, last>>

Restore == /\ job.pc = "restore"
           /\ \E e \in job.todo : /\ target' = Put(target, e)
                                  /\ job' = [job EXCEPT !.todo = @ \ {e}]
           /\ UNCHANGED <<backups, last>>

(* An empty root is a directory too.                                         *)
Restored == /\ job.pc = "restore" /\ job.todo = {}
            /\ target' = Tree(target)
            /\ job' = Idle
            /\ UNCHANGED <<backups, last>>

RestoreFails == job.pc = "restore" /\ job' = Idle /\ UNCHANGED <<target, backups, last>>

(* Without a backup what was copied stays.                                   *)
NothingToRestore == /\ job.pc = "failed" /\ job.before = NoDir
                    /\ job' = Idle
                    /\ UNCHANGED <<target, backups, last>>

Crash == job # Idle /\ job' = Idle /\ UNCHANGED <<target, backups, last>>

Next == \/ InstallBegins \/ UninstallBegins
        \/ BackUp \/ BackedUp \/ BackUpFails \/ Uninstalled
        \/ Staged \/ Copy \/ Verified \/ StageFails \/ Commit
        \/ RollBack \/ Restore \/ Restored \/ RestoreFails \/ NothingToRestore
        \/ Crash

Spec == Init /\ [][Next]_vars

-----------------------------------------------------------------------------
(* Properties.                                                               *)

(* The type invariant.  What was last installed has a manifest.              *)
TypeOK ==
    /\ target \in Trees \cup {NoDir}
    /\ backups \subseteq Trees
    /\ last \in {t \in Trees : HasManifest(t)} \cup {NoDir}
    /\ job \in [pc : {"idle", "backup", "ready", "copy", "commit", "failed", "restore"},
                cmd : {"none", "install", "uninstall"},
                source : Trees, before : Trees \cup {NoDir}, todo : Trees, copy : Trees]

(* What the last successful install put in place is never lost: whatever has *)
(* failed and been killed since, over any number of commands, it is the root *)
(* or there is a complete backup of it.                                      *)
LastGoodIsKept == last = NoDir \/ target = last \/ last \in backups

(* What is committed is the whole source, nothing of an earlier root, and    *)
(* has a manifest.                                                           *)
CommittedIsWhole ==
    [][Commit => last' = job.source /\ HasManifest(last')]_vars

(* A rollback that runs to its end brings back exactly what the command      *)
(* found.                                                                    *)
RollbackIsExact == [][Restored => target' = job.before]_vars

(* What the comment on `install` and the error it throws say: "the previous  *)
(* state (if any) is always restored".  The code does not hold to it: a      *)
(* first install that fails leaves what it has copied.                       *)
FailureRestores ==
    [][(Restored \/ NothingToRestore) => target' = job.before]_vars
=============================================================================
