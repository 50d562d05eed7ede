----------------------------- MODULE SkillRouter -----------------------------
(***************************************************************************)
(* The commands that change what is installed and what is active, as they  *)
(* run in separate invocations of the program that share one project: the  *)
(* SQLite database, the install roots, the agents' directories and         *)
(* skillrouter.lock.  Nothing locks any of them, so a step of this         *)
(* specification is one access to shared state between two awaits, and the *)
(* steps of different invocations interleave.                              *)
(*                                                                         *)
(*   enable, disable, force-enable, force-disable, activate, deactivate    *)
(*                                          cli/commands/state.ts          *)
(*   route (with the runtime that applies its plan)                        *)
(*                       cli/commands/route.ts, runtime/runtime.ts         *)
(*   install, uninstall  cli/commands/capabilities.ts,                     *)
(*                       installer/installer.ts                            *)
(***************************************************************************)
EXTENDS Lifecycle, Agents, FiniteSets

CONSTANTS Procs,           \* concurrent invocations of the program
          Caps,            \* capabilities
          Versions,        \* their versions
          NoCap,           \* stands for "no capability"
          Catalog,         \* what refreshAll finds in the catalog and the sources
          Sources,         \* the versions install finds a source directory for
          Ask,             \* the capabilities whose permissions need consent
          Blocked,         \* config.security.blocked
          Never,           \* config.capabilities.never
          MaxActivations,  \* config.router.max_activations
          MayCrash         \* invocations that may be killed between two steps

ASSUME CapsAssumption ==
    /\ NoCap \notin Caps
    /\ Catalog \subseteq Caps /\ Sources \subseteq Caps \X Versions
    /\ Ask \subseteq Caps /\ Blocked \subseteq Caps /\ Never \subseteq Caps
    /\ MaxActivations \in Nat
    /\ MayCrash \subseteq Procs

(* getAdapterRegistry builds the registry once per process.  install and     *)
(* uninstall give it config.customAgents; the commands of state.ts, and      *)
(* route, do not.                                                            *)
WithCustom == AllOrder \o CustomOrder

(* The adapters that every command knows.                                    *)
Builtin == {AllOrder[i] : i \in DOMAIN AllOrder}

(* Every adapter is in the full registry, only those that every command      *)
(* knows are enabled in config.agents, and the opencode adapter searches its *)
(* own directory before the others'.                                         *)
ASSUME AdaptersAssumption ==
    /\ \A a \in Agents : \E i \in DOMAIN WithCustom : WithCustom[i] = a
    /\ \A i \in DOMAIN EnabledOrder : EnabledOrder[i] \in Builtin
    /\ Opencode \in Builtin
    /\ SkillDirs # << >> /\ SkillDirs[1] = Opencode

(* The registry is a table of a database.                                    *)
ASSUME FiniteAssumption == IsFiniteSet(Caps)

VARIABLES registry,   \* table `capabilities`: the ids it holds
          row,        \* table `installed`: row[c] is the state of c, or NoRow
          version,    \* the version of the row, which names its install root
          payload,    \* the install roots that exist, one for each version
          exposed,    \* exposed[a]: what the agent a has a copy of
          lock,       \* the entries of skillrouter.lock
          job         \* job[p]: what the invocation p is doing, its locals

vars == <<registry, row, version, payload, exposed, lock, job>>

NoRow == "no row"

Commands == {"none", "state", "route", "install", "uninstall"}

Labels == {"idle",
           "expose", "retract", "set",                        \* shared by commands
           "plan", "confirm", "next", "consent", "check", "relock",     \* route
           "replace", "copy", "upsert", "record", "lock", "locate",     \* install
           "fresh", "rewrite",
           "remove", "unregister", "readlock", "unlock"}                \* uninstall

Idle == [pc |-> "idle", cmd |-> "none", cap |-> NoCap,
         goal |-> "ENABLED",     \* the state the command wants
         seen |-> "INSTALLED",   \* the state it read
         ver |-> NoRow,          \* the version, hence the install root, it works on
         at |-> 1,               \* position in the list of adapters
         synced |-> FALSE,       \* activatedSync: an adapter took the capability
         scored |-> {}, acts |-> {}, deacts |-> {},    \* the router's decision
         lockCopy |-> {}]        \* the lockfile as read

Init == /\ registry = {}
        /\ row = [c \in Caps |-> NoRow]
        /\ version = [c \in Caps |-> NoRow]
        /\ payload = {}
        /\ exposed = [a \in Agents |-> {}]
        /\ lock = {}
        /\ job = [p \in Procs |-> Idle]

Finish(p) == job' = [job EXCEPT ![p] = Idle]

Goto(p, label) == job' = [job EXCEPT ![p].pc = label]

(* setInstalledState without a version: an UPDATE of an existing row.  The   *)
(* INSERT of a missing one violates NOT NULL and is an exception.            *)
Store(c, s) == row' = IF row[c] = NoRow THEN row ELSE [row EXCEPT ![c] = s]

-----------------------------------------------------------------------------
(* The commands of state.ts.  A command first resolves the capability in     *)
(* the registry and reads its row.                                           *)

(* A fault: the command does not look whether the capability is installed.   *)
ResolvedInRegistryOnly(c) == c \in registry

Resolved(c) == c \in registry /\ row[c] # NoRow

StateCommand(p, c, goal, label) ==
    /\ job[p].pc = "idle"
    /\ Resolved(c)
    /\ job' = [job EXCEPT ![p] = [Idle EXCEPT !.pc = label, !.cmd = "state",
                                     !.cap = c, !.goal = goal, !.seen = row[c],
                                     !.ver = version[c]]]
    /\ UNCHANGED <<registry, row, version, payload, exposed, lock>>

Enable(p) == \E c \in Caps : StateCommand(p, c, "ENABLED", "set")

ForceEnable(p) ==
    \E c \in Caps \ Blocked : StateCommand(p, c, "ENABLED", "set")

(* A fault: the agents are not told.                                         *)
DisableRowOnly(p) == \E c \in Caps : StateCommand(p, c, "DISABLED", "set")

(* disable and force-disable *)
Disable(p) == \E c \in Caps : StateCommand(p, c, "DISABLED", "retract")

Activate(p) == \E c \in Caps : StateCommand(p, c, "ACTIVE", "expose")

Deactivate(p) == \E c \in Caps : StateCommand(p, c, "ENABLED", "retract")

-----------------------------------------------------------------------------
(* The loops over adapters.  Exposing goes over the enabled agents, and that *)
(* of install over the custom ones too.  An adapter's exception is caught    *)
(* and the loop goes on; a copy that fails may have left something of itself *)
(* behind.                                                                   *)
Root(j) == <<j.cap, j.ver>>

ExposeOrder(p) ==
    IF job[p].cmd = "install" THEN EnabledOrder \o CustomOrder ELSE EnabledOrder

(* A fault: an adapter that fails is tried again and again.                  *)
ExposeNextOrRetry(p) ==
    /\ job[p].pc = "expose"
    /\ job[p].at <= Len(ExposeOrder(p))
    /\ LET a == ExposeOrder(p)[job[p].at]  c == job[p].cap  root == Root(job[p]) IN
         \/ /\ CanExpose(a, root, payload)
            /\ exposed' = Exposed(a, c, exposed)
            /\ job' = [job EXCEPT ![p].at = @ + 1, ![p].synced = TRUE]
         \/ ~CanExpose(a, root, payload) /\ UNCHANGED <<exposed, job>>
    /\ UNCHANGED <<registry, row, version, payload, lock>>

ExposeNext(p) ==
    /\ job[p].pc = "expose"
    /\ job[p].at <= Len(ExposeOrder(p))
    /\ LET a == ExposeOrder(p)[job[p].at]  c == job[p].cap  root == Root(job[p]) IN
         \/ /\ CanExpose(a, root, payload)
            /\ exposed' = Exposed(a, c, exposed)
            /\ job' = [job EXCEPT ![p].at = @ + 1, ![p].synced = TRUE]
         \/ /\ ~CanExpose(a, root, payload) \/ a \in MayFail
            /\ exposed' \in {exposed} \cup IF a \in MayFail THEN {Exposed(a, c, exposed)}
                                                          ELSE {}
            /\ job' = [job EXCEPT ![p].at = @ + 1]
    /\ UNCHANGED <<registry, row, version, payload, lock>>

(* The runtime stores ACTIVE only when an adapter took the capability; the   *)
(* activate command stores it in any case; install re-reads the row.         *)
ExposeDone(p) ==
    /\ job[p].pc = "expose"
    /\ job[p].at > Len(ExposeOrder(p))
    /\ Goto(p, CASE job[p].cmd = "install" -> "fresh"
                 [] job[p].cmd = "route"   -> IF job[p].synced THEN "set" ELSE "next"
                 [] OTHER                  -> "set")
    /\ UNCHANGED <<registry, row, version, payload, exposed, lock>>

(* Removal goes over every adapter of the process's registry, except that    *)
(* the runtime's goes over the enabled ones.                                 *)
RemovalOrder(p) ==
    CASE job[p].cmd = "route"     -> EnabledOrder
      [] job[p].cmd = "uninstall" -> WithCustom
      [] OTHER                    -> AllOrder

RetractNext(p) ==
    /\ job[p].pc = "retract"
    /\ job[p].at <= Len(RemovalOrder(p))
    /\ LET a == RemovalOrder(p)[job[p].at]  c == job[p].cap  root == Root(job[p]) IN
         \/ /\ exposed' = ExposedAfterRemoval(a, c, exposed)
            /\ payload' = PayloadAfterRemoval(a, c, root, exposed, payload)
         \/ a \in MayFail /\ UNCHANGED <<exposed, payload>>
    /\ job' = [job EXCEPT ![p].at = @ + 1]
    /\ UNCHANGED <<registry, row, version, lock>>

RetractDone(p) ==
    /\ job[p].pc = "retract"
    /\ job[p].at > Len(RemovalOrder(p))
    /\ IF job[p].cmd = "uninstall" THEN Finish(p) ELSE Goto(p, "set")
    /\ UNCHANGED <<registry, row, version, payload, exposed, lock>>

(* transitionState, from the state read at the start of the command (or of   *)
(* the plan's action), whatever the row holds by now.  An exception ends a   *)
(* command, and is recorded by the runtime, which goes on with its plan.     *)
SetState(p) ==
    /\ job[p].pc = "set"
    /\ LET j == job[p] IN
         IF j.cmd = "route"
           THEN /\ Store(j.cap, RuntimeTarget(j.seen, j.goal))
                /\ Goto(p, "next")
           ELSE /\ Store(j.cap, CliTarget(j.seen, j.goal))
                /\ Finish(p)
    /\ UNCHANGED <<registry, version, payload, exposed, lock>>

-----------------------------------------------------------------------------
(* route: index, decide, apply.                                              *)

(* refreshAll: the catalog and the sources, and the skills directory of the  *)
(* project, which is the first that exists of the user's own and the copying *)
(* agents'.                                                                  *)
RouteRefresh(p) ==
    /\ job[p].pc = "idle"
    /\ \E here \in {{}} \cup {exposed[a] : a \in Agents \ RulesAgents} :
         registry' = registry \cup Catalog \cup here
    /\ job' = [job EXCEPT ![p] = [Idle EXCEPT !.pc = "plan", !.cmd = "route"]]
    /\ UNCHANGED <<row, version, payload, exposed, lock>>

(* Router.route reads the registry and the rows.  Ranking scores some of the *)
(* registry and buildPlan selects at most MaxActivations of them, none from  *)
(* the never list; what is scored, active, unselected and not on that list   *)
(* is to be deactivated.                                                     *)
IsActive(c) == row[c] = "ACTIVE"

RoutePlan(p) ==
    /\ job[p].pc = "plan"
    /\ \E scored \in SUBSET registry :
       \E selected \in SUBSET (scored \ Never) :
         /\ Cardinality(selected) <= MaxActivations
         /\ job' = [job EXCEPT
              ![p].pc = "confirm",
              ![p].scored = scored,
              ![p].acts = {c \in selected : ~IsActive(c)},
              ![p].deacts = {c \in scored \ (Never \cup selected) : IsActive(c)}]
    /\ UNCHANGED <<registry, row, version, payload, exposed, lock>>

(* A dry run, manual mode, or a negative answer.                             *)
RouteDecline(p) ==
    /\ job[p].pc = "confirm"
    /\ Finish(p)
    /\ UNCHANGED <<registry, row, version, payload, exposed, lock>>

(* applyPlan reads the lockfile before it executes the plan ...              *)
RouteApply(p) ==
    /\ job[p].pc = "confirm"
    /\ job' = [job EXCEPT ![p].pc = "next", ![p].lockCopy = lock]
    /\ UNCHANGED <<registry, row, version, payload, exposed, lock>>

(* Runtime.currentState *)
CurrentState(c) == IF row[c] = NoRow THEN "DISCOVERED" ELSE row[c]

(* executePlan: the activations, in the order of their scores, and then the  *)
(* deactivations.  Runtime.activate reads the state before it asks for       *)
(* consent.                                                                  *)
RouteActivate(p) ==
    /\ job[p].pc = "next"
    /\ \E c \in job[p].acts :
         job' = [job EXCEPT ![p] = [job[p] EXCEPT
                   !.pc = IF c \in Ask THEN "consent" ELSE "check",
                   !.cap = c, !.goal = "ACTIVE", !.seen = CurrentState(c),
                   !.at = 1, !.synced = FALSE, !.acts = @ \ {c}]]
    /\ UNCHANGED <<registry, row, version, payload, exposed, lock>>

Consent(p) ==
    /\ job[p].pc = "consent"
    /\ \E label \in {"check", "next"} : Goto(p, label)
    /\ UNCHANGED <<registry, row, version, payload, exposed, lock>>

(* Skipped: no enabled agents, or not installed.                             *)
CheckInstalled(p) ==
    /\ job[p].pc = "check"
    /\ IF EnabledOrder = << >> \/ row[job[p].cap] = NoRow
         THEN Goto(p, "next")
         ELSE job' = [job EXCEPT ![p].pc = "expose", ![p].ver = version[job[p].cap]]
    /\ UNCHANGED <<registry, row, version, payload, exposed, lock>>

RouteDeactivate(p) ==
    /\ job[p].pc = "next"
    /\ job[p].acts = {}
    /\ \E c \in job[p].deacts :
         job' = [job EXCEPT ![p] = [job[p] EXCEPT
                   !.pc = "retract", !.cap = c, !.goal = "ENABLED",
                   !.seen = CurrentState(c), !.ver = version[c],
                   !.at = 1, !.deacts = @ \ {c}]]
    /\ UNCHANGED <<registry, row, version, payload, exposed, lock>>

(* A fault: the plan ends with its activations.                              *)
RoutePlanDoneEarly(p) ==
    /\ job[p].pc = "next"
    /\ job[p].acts = {}
    /\ Goto(p, "relock")
    /\ UNCHANGED <<registry, row, version, payload, exposed, lock>>

RoutePlanDone(p) ==
    /\ job[p].pc = "next"
    /\ job[p].acts = {} /\ job[p].deacts = {}
    /\ Goto(p, "relock")
    /\ UNCHANGED <<registry, row, version, payload, exposed, lock>>

(* ... and writes what it read back afterwards.                              *)
RouteWriteLock(p) ==
    /\ job[p].pc = "relock"
    /\ lock' = job[p].lockCopy
    /\ Finish(p)
    /\ UNCHANGED <<registry, row, version, payload, exposed>>

-----------------------------------------------------------------------------
(* install.  The source is a path, a git url, an indexed capability whose    *)
(* source is available, or an indexed capability's own install root.  The    *)
(* sources move on and any of their versions may be what is found; which of  *)
(* its versions an entry of the registry has is not kept.                    *)

Installable(c, v) == <<c, v>> \in Sources \/ (c \in registry /\ <<c, v>> \in payload)

(* The lockfile is read first; ...                                           *)
InstallStart(p) ==
    /\ job[p].pc = "idle"
    /\ \E c \in Caps, v \in Versions :
         /\ Installable(c, v)
         /\ job' = [job EXCEPT ![p] = [Idle EXCEPT !.pc = "replace",
                      !.cmd = "install", !.cap = c, !.ver = v, !.lockCopy = lock]]
    /\ UNCHANGED <<registry, row, version, payload, exposed, lock>>

(* ... the installer backs up an install root of that version and removes    *)
(* it, and leaves those of others where they are;                            *)
InstallReplace(p) ==
    /\ job[p].pc = "replace"
    /\ payload' = payload \ {Root(job[p])}
    /\ Goto(p, "copy")
    /\ UNCHANGED <<registry, row, version, exposed, lock>>

(* ... and here the new one is in place and verified, ...                    *)
InstallCopied(p) ==
    /\ job[p].pc = "copy"
    /\ payload' = payload \cup {Root(job[p])}
    /\ Goto(p, "upsert")
    /\ UNCHANGED <<registry, row, version, exposed, lock>>

(* ... or a copy or the verification has failed: a backup is copied back,    *)
(* unless that fails too; without one whatever was copied stays (Installer). *)
InstallFailed(p) ==
    /\ job[p].pc = "copy"
    /\ payload' \in {payload, payload \cup {Root(job[p])}}
    /\ Finish(p)
    /\ UNCHANGED <<registry, row, version, exposed, lock>>

(* A fault: the lockfile is written before the row.                          *)
InstallUpsertThenLock(p) ==
    /\ job[p].pc = "upsert"
    /\ registry' = registry \cup {job[p].cap}
    /\ Goto(p, "lock")
    /\ UNCHANGED <<row, version, payload, exposed, lock>>

InstallUpsert(p) ==
    /\ job[p].pc = "upsert"
    /\ registry' = registry \cup {job[p].cap}
    /\ Goto(p, "record")
    /\ UNCHANGED <<row, version, payload, exposed, lock>>

InstallRecord(p) ==
    /\ job[p].pc = "record"
    /\ row' = [row EXCEPT ![job[p].cap] = "INSTALLED"]
    /\ version' = [version EXCEPT ![job[p].cap] = job[p].ver]
    /\ Goto(p, "lock")
    /\ UNCHANGED <<registry, payload, exposed, lock>>

(* The lockfile is written whole, from what was read before the install; the *)
(* capability is exposed unless told otherwise (--no-activate, auto_activate)*)
(* or installed by update.                                                   *)
InstallWriteLock(p) ==
    /\ job[p].pc = "lock"
    /\ lock' = job[p].lockCopy \cup {job[p].cap}
    /\ Goto(p, "locate") \/ Finish(p)
    /\ UNCHANGED <<registry, row, version, payload, exposed>>

(* exposeToAgents takes the install root from the row.                       *)
InstallLocate(p) ==
    /\ job[p].pc = "locate"
    /\ job' = [job EXCEPT ![p].pc = "expose", ![p].ver = version[job[p].cap]]
    /\ UNCHANGED <<registry, row, version, payload, exposed, lock>>

(* It ends by re-reading the row and storing the state it read together with *)
(* the list of agents.                                                       *)
InstallReread(p) ==
    /\ job[p].pc = "fresh"
    /\ LET s == row[job[p].cap] IN
         job' = [job EXCEPT ![p].pc = "rewrite",
                            ![p].seen = IF s = NoRow THEN "INSTALLED" ELSE s]
    /\ UNCHANGED <<registry, row, version, payload, exposed, lock>>

InstallRewrite(p) ==
    /\ job[p].pc = "rewrite"
    /\ Store(job[p].cap, job[p].seen)
    /\ Finish(p)
    /\ UNCHANGED <<registry, version, payload, exposed, lock>>

-----------------------------------------------------------------------------
(* uninstall: the install root that the row names, the registry entry, the   *)
(* lockfile entry and the agents' copies, in this order.  The row is left as *)
(* it is, and so are the install roots of other versions.                    *)

UninstallStart(p) ==
    /\ job[p].pc = "idle"
    /\ \E c \in Caps :
         /\ row[c] # NoRow
         /\ job' = [job EXCEPT ![p] = [Idle EXCEPT !.pc = "remove",
                                         !.cmd = "uninstall", !.cap = c,
                                         !.ver = version[c]]]
    /\ UNCHANGED <<registry, row, version, payload, exposed, lock>>

UninstallPayload(p) ==
    /\ job[p].pc = "remove"
    /\ payload' = payload \ {Root(job[p])}
    /\ Goto(p, "unregister")
    /\ UNCHANGED <<registry, row, version, exposed, lock>>

(* A fault: the row is deleted with the registry entry.                      *)
UninstallRegistryAndRow(p) ==
    /\ job[p].pc = "unregister"
    /\ registry' = registry \ {job[p].cap}
    /\ row' = [row EXCEPT ![job[p].cap] = NoRow]
    /\ Goto(p, "readlock")
    /\ UNCHANGED <<version, payload, exposed, lock>>

UninstallRegistry(p) ==
    /\ job[p].pc = "unregister"
    /\ registry' = registry \ {job[p].cap}
    /\ Goto(p, "readlock")
    /\ UNCHANGED <<row, version, payload, exposed, lock>>

UninstallReadLock(p) ==
    /\ job[p].pc = "readlock"
    /\ job' = [job EXCEPT ![p].pc = "unlock", ![p].lockCopy = lock]
    /\ UNCHANGED <<registry, row, version, payload, exposed, lock>>

(* A fault: the entry is not removed from the lockfile.                      *)
UninstallKeepsLockEntry(p) ==
    /\ job[p].pc = "unlock"
    /\ lock' = job[p].lockCopy
    /\ Goto(p, "retract")
    /\ UNCHANGED <<registry, row, version, payload, exposed>>

UninstallWriteLock(p) ==
    /\ job[p].pc = "unlock"
    /\ lock' = job[p].lockCopy \ {job[p].cap}
    /\ Goto(p, "retract")
    /\ UNCHANGED <<registry, row, version, payload, exposed>>

-----------------------------------------------------------------------------
(* The process is killed between two steps, or ended by an exception of the  *)
(* database or the file system that nothing catches.                         *)
Crash(p) ==
    /\ p \in MayCrash
    /\ job[p].pc # "idle"
    /\ Finish(p)
    /\ UNCHANGED <<registry, row, version, payload, exposed, lock>>

Start(p) ==
    \/ Enable(p) \/ ForceEnable(p) \/ Disable(p) \/ Activate(p) \/ Deactivate(p)
    \/ RouteRefresh(p) \/ InstallStart(p) \/ UninstallStart(p)

Continue(p) ==
    \/ ExposeNext(p) \/ ExposeDone(p) \/ RetractNext(p) \/ RetractDone(p)
    \/ SetState(p)
    \/ RoutePlan(p) \/ RouteDecline(p) \/ RouteApply(p) \/ RouteActivate(p)
    \/ Consent(p) \/ CheckInstalled(p) \/ RouteDeactivate(p) \/ RoutePlanDone(p)
    \/ RouteWriteLock(p)
    \/ InstallReplace(p) \/ InstallCopied(p) \/ InstallFailed(p) \/ InstallUpsert(p)
    \/ InstallRecord(p) \/ InstallWriteLock(p) \/ InstallLocate(p)
    \/ InstallReread(p) \/ InstallRewrite(p)
    \/ UninstallPayload(p) \/ UninstallRegistry(p) \/ UninstallReadLock(p)
    \/ UninstallWriteLock(p)

Next == \E p \in Procs : Start(p) \/ Continue(p) \/ Crash(p)

Spec == Init /\ [][Next]_vars

(* A command that has started keeps running: the event loop resumes it after *)
(* every await, and the user answers what it asks.  Nobody has to start one. *)
FairSpec == Spec /\ \A p \in Procs : WF_vars(Continue(p))
-----------------------------------------------------------------------------
(* Properties.                                                               *)

Jobs == [pc : Labels, cmd : Commands, cap : Caps \cup {NoCap},
         goal : {"ENABLED", "DISABLED", "ACTIVE"},
         seen : Resting \cup {"DISCOVERED"},
         ver : Versions \cup {NoRow}, at : Nat, synced : BOOLEAN,
         scored : SUBSET Caps, acts : SUBSET Caps, deacts : SUBSET Caps,
         lockCopy : SUBSET Caps]

(* The type invariant.  Rows hold resting states only.                       *)
TypeOK ==
    /\ registry \subseteq Caps
    /\ row \in [Caps -> Resting \cup {NoRow}]
    /\ version \in [Caps -> Versions \cup {NoRow}]
    /\ payload \subseteq Caps \X Versions
    /\ exposed \in [Agents -> SUBSET Caps]
    /\ lock \subseteq Caps
    /\ job \in [Procs -> Jobs]

(* The points of a command from which it goes on to store a state in the row *)
(* of its capability with an UPDATE.                                         *)
WillStore(j) ==
    \/ j.pc \in {"locate", "expose", "set", "fresh", "rewrite"}
    \/ j.pc = "retract" /\ j.cmd # "uninstall"

(* setInstalledState is called with only the id by every command but install;*)
(* on a missing row it would insert a NULL version and throw, after the      *)
(* agents' copies have changed.  Whatever other commands, and kills, come    *)
(* between the read of the row and the write, the row is there.              *)
RowBeforeTransition ==
    \A p \in Procs : WillStore(job[p]) => row[job[p].cap] # NoRow

(* Every entry of skillrouter.lock, and of every copy of it that a command   *)
(* has read and will write back, is of a capability with a row: the lockfile *)
(* is written after the database, and stale copies of it are harmless in     *)
(* this one respect.                                                         *)
LockedHasRow ==
    \A c \in lock \cup UNION {job[p].lockCopy : p \in Procs} : row[c] # NoRow

(* Whatever state was read, however long ago, the state stored is the one    *)
(* the command is for: no walk ends short of its goal.                       *)
GoalStored ==
    [][\A p \in Procs : SetState(p) => row'[job[p].cap] = job[p].goal]_vars

(* The commands, with all their intermediate and stale reads, keep what      *)
(* RowLifecycle promises of the `installed` table.                           *)
Rows == INSTANCE RowLifecycle WITH Caps <- Caps, NoRow <- NoRow, row <- row

RowSpec == Rows!Spec

(* Nothing is under way.                                                     *)
Quiescent == \A p \in Procs : job[p].pc = "idle"

DisabledHiddenFrom(agents) ==
    Quiescent => \A c \in Caps : row[c] = "DISABLED" =>
                                    \A a \in agents \ MayFail : c \notin exposed[a]

(* One command at a time and none killed: a disabled capability is exposed   *)
(* by none of the agents that every command knows and whose files can be     *)
(* removed, whichever agents are enabled, whichever others failed and        *)
(* whichever version was exposed (deactivateFromAgents).  A custom agent     *)
(* keeps what it has.                                                        *)
DisabledIsHidden == DisabledHiddenFrom(Builtin)

(* What the README says of custom agents: their files carry a marker, "so    *)
(* `uninstall`, `disable`, and discovery stay clean".  The code does not     *)
(* hold to it: disable builds its adapters without config.customAgents, and  *)
(* leaves what install has exposed to them.                                  *)
DisableStaysClean == DisabledHiddenFrom(Agents)

UninstallEnds(p) == job[p].cmd = "uninstall" /\ job'[p].pc = "idle"

(* One command at a time: when uninstall ends, the capability is neither in  *)
(* the registry nor in the lockfile nor with an agent, custom ones included, *)
(* whose files can be removed, and the install root that its row names is    *)
(* gone.  The row stays, and so do the roots of the versions it had before,  *)
(* which update and install leave behind.                                    *)
UninstallRemovesInstalled ==
    [][\A p \in Procs : UninstallEnds(p) =>
          LET c == job[p].cap IN
            /\ row'[c] # NoRow
            /\ c \notin registry' \cup lock'
            /\ <<c, version'[c]>> \notin payload'
            /\ \A a \in Agents \ MayFail : c \notin exposed'[a]]_vars

(* One command at a time: when route has applied a plan, at most             *)
(* max_activations of the capabilities it scored are active, those on the    *)
(* never list aside (buildPlan leaves them alone), even if consent is denied *)
(* for some, or some cannot be exposed.                                      *)
RouteWithinBudget ==
    \A p \in Procs : job[p].pc = "relock" =>
        Cardinality({c \in job[p].scored \ Never : IsActive(c)}) <= MaxActivations

(* What the help of `disable` says: "no longer routable or activatable".     *)
(* The code does not hold to it: neither the ranking nor buildPlan nor the   *)
(* runtime looks at DISABLED, and activate walks it back onto the chain.     *)
DisabledStaysInactive ==
    [][\A c \in Caps : row[c] = "DISABLED" => row'[c] # "ACTIVE"]_vars

(* What the help of `deactivate` says: "stays installed and enabled".  The   *)
(* code does not hold to it: when no skills directory has the capability,    *)
(* the opencode adapter's removal takes the install root.                    *)
DeactivateKeepsPayload ==
    [][\A p \in Procs :
        job[p].cmd = "state" /\ job[p].goal = "ENABLED" /\ job[p].pc = "retract"
          => payload' = payload]_vars

(* Every command that is started ends.                                       *)
EveryCommandFinishes ==
    \A p \in Procs : job[p].pc # "idle" ~> job[p].pc = "idle"
=============================================================================
