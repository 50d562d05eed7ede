# A TLA+ model of SkillRouter

SkillRouter is a command-line program that keeps a registry of *capabilities*
(skills for coding agents), installs them into a project, decides for a task
which of them should be active, and exposes the active ones to the agents of
the project. This directory models what it keeps and how it decides, checks it
with TLC on small instances, and proves the results that matter most with TLAPS
for every size.

Source paths below are relative to the repository (`src/...`).

## 1. The system

Every command is a process of its own. What it shares with other invocations,
past and concurrent, is kept in:

| state | where | written by |
|---|---|---|
| `capabilities`, the registry | SQLite, `src/storage/sqlite.ts` | refreshAll, install, uninstall |
| `installed`, one row per capability with its lifecycle state | SQLite | install, the state commands, the runtime |
| `skill_metrics`, `skill_outcomes` | SQLite | `learn` |
| install roots and their backups | `.skillrouter/` | the installer, the opencode adapter |
| the agents' skills directories and rules files | the project | the adapters |
| `skillrouter.lock` | the project | install, update, uninstall, route |
| `corpus_records`, `embeddings` | SQLite | `index` |
| `skillrouter.yaml`, `config.yaml` | the project, the user's configuration directory | `config`, `init`, `source add`, `agents add`, the user |
| clones of git sources | the cache directory | refreshAll |
| `.mcp.json`, `~/.config/mcp.json` | shared with other MCP clients | the mcp adapter, the user |
| `keys/public.pem`, `keys/private.pem` | the state directory | `keys --generate` |

There is no lock on any of them and, apart from single SQL statements, no
transaction: a command reads, awaits, and writes from what it read.

### Components

| component | state and operations | interacts with | hard behaviour | what makes it correct |
|---|---|---|---|---|
| lifecycle (`core/lifecycle.ts`) | table of legal moves; walk along a chain when there is no direct one | state commands, runtime | index loops, states off the chain | a walk ends at its target |
| state commands (`cli/commands/state.ts`) | enable, disable, force-*, activate, deactivate | storage, adapters | stale state, failing adapters, interleaved loops | goal stored, disabled hidden from the agents they know, payload kept, always ends |
| runtime (`runtime/runtime.ts`) | applies a plan: consent, adapters, transition | route, storage, adapters | state read before a prompt, skipped and failing actions | goal stored, budget kept |
| route (`cli/commands/route.ts`) | index, decide, confirm, apply, rewrite the lockfile | everything | a plan applied long after it was made | budget kept, lockfile behind the database |
| install, uninstall, update (`cli/commands/capabilities.ts`) | audit, installer, lockfile, exposing | installer, lockfile, adapters | kills between stores, lockfile read-modify-write, a root for each version | row behind every lock entry, uninstall removes what is installed |
| installer (`installer/installer.ts`) | backup, stage, replace, verify, commit or roll back | file system, storage | partial copies, kills, rollback | last good version kept, whole commits, exact rollbacks |
| storage (`storage/sqlite.ts`) | SQL statements | all | constraint on a missing row | rows rest in four states and are never deleted |
| adapters (`adapters/*.ts`) | expose and remove a capability | state commands, runtime, install | fallback of opencode's removal, custom agents that some commands do not know | removal takes only copies |
| learning (`learning/metrics.ts`, `outcomes.ts`) | counters, outcomes, pruning | storage | lost updates, retries, kills, rounding | counters add up, bounded, rate kept |
| router pipeline (`router/index.ts`, `constraints.ts`, `conflicts.ts`, `planner.ts`) | constraints, dilution, semantic pass, conflicts, plan, over scores changed in place | route | ties, chains of conflicts, limits | no two rivals run, within the budget, every loss explained |
| scores (`router/factors.ts`, `quality/`, `learning/outcomes.ts`) | points from outcomes, means, quality | router | rounding, a history and counters cut at their bounds | a better outcome costs nothing but what a halving of the counters takes |
| dependencies, fallbacks (`router/dependency-resolver.ts`, `fallback.ts`) | closure and order; walk of declared chains | route, `learn` | cycles, missing ids | exact closure, safe order, termination |
| plan graph, workflow, knowledge graph (`plan/`, `workflow/`, `task/`, `graph/`) | compositions as graphs, steps, views of relations | `plan`, `workflow` | shared children, loops | nothing lost, cycles reported, views agree |
| retrieval (`corpus/`, `retrieval/`, `rerank/`) | records, embeddings, one retrieve | `index`, `search` | rows without transactions, failing requests, lists cut off | tables in step, agreement of the lists kept |
| registry and sources (`registry/`) | places in order, clones, rows | every command that refreshes | shared clones, failing places, kills | the last place that offers it wins |
| adapter directories (`adapters/*.ts`) | entries in directories, which users and other adapters write too | the adapters' callers | partial writes, fallback removal | what `Agents` assumes |
| mcp adapter (`adapters/mcp.ts`) | entries in two JSON files, rewritten whole | MCP clients | cut-off files, interleaved rewrites | the user's servers survive |
| configuration (`config/config.ts`) | layers, merge, validation | all | files half-written or changed by others | classes begin where they were configured |
| manifests, risk, policy, consent (`manifest/`, `security/risk.ts`, `policy.ts`) | what a manifest asks for and whether the user is asked | registry, installer, runtime | lenient validation, thresholds, precedence | asking for more never avoids the question |
| signing (`security/keys.ts`, `sign.ts`) | a key pair in two files, a block in a manifest | `keys`, `sign`, `signatures` | files of two pairs, kills | what was signed verifies until it changes |
| schema (`storage/sqlite.ts`) | migrations, one transaction each | every command | commands that migrate together | version and tables agree |
| MCP server (`mcp/server.ts`) | requests in flight | stdin, stdout | asynchronous answers, end of input | one answer for each request |
| context collection (`context/`) | providers under a timeout | MCP server, route | late answers | bounded waiting |
| command line, versions (`cli/framework.ts`, `utils/version.ts`, `update`) | tokens to flags; versions, ranges, what is out of date | all | greedy flags; three kinds of texts, a registry that changes | no token lost; updates only forwards |
| reputation, audit and secret scans, project analysis, logging, rendering | formulas, patterns and reports over what is stored | | | not modelled, section 7 |

`PROJECT.json` lists every component with its status, and under `hazards`
where in the code each hard behaviour bites.

## 2. Modules

| module | models | extends |
|---|---|---|
| `Lifecycle` | the transition table, the two walks | |
| `RowLifecycle` | abstract: what all commands together may do to the `installed` table | |
| `Agents` | the adapters, as functions of payloads and exposed copies | |
| `SkillRouter` | all commands that change what is installed or active | `Lifecycle`, `Agents`; instance of `RowLifecycle` |
| `Installer` | one install root, copied file by file | |
| `Metrics` | `updateMetrics` | |
| `Outcomes` | `OutcomeStore.record` in concurrent invocations | `Metrics` |
| `McpServer` | the MCP server's requests in flight, with the context collected for each | |
| `Catalog` | ids, their order, closures of relations | |
| `RouteDecision` | abstract: what a routing decision promises the runtime | |
| `Router` | `Router.route`, from constraints to plan | `Catalog`; instance of `RouteDecision` |
| `Dependencies`, `Fallbacks`, `PlanGraph`, `CapabilityGraph` | the resolver, the fallback walk, composition, the knowledge graph | `Catalog` |
| `Workflow` | a task decomposed, routed and composed | `PlanGraph` |
| `Versions` | versions, ranges, `update` | `Catalog` |
| `Retrieval` | one retrieve | `Catalog` |
| `CommandLine` | the parsing of a command line | |
| `Schema` | the migrations of the database | |
| `Corpus` | `index`: records and embeddings | |
| `Settings` | the configuration files and their merge | |
| `Permissions` | from a manifest to the consent question | |
| `Scoring` | what learning does to a score | `Metrics` |
| `Sources` | the registry, refreshed from its places | |
| `AdapterFiles` | the adapters' directories | instance of `Agents` |
| `McpConfig` | the MCP clients' files | |
| `Signing` | the key pair, signing, verifying | |
| `MC...` | the instances TLC checks | the modules they compose |
| `SkillRouterProofs` | theorems about all commands, and about commands that run one after the other | `SkillRouter` |
| `OutcomesProofs`, `InstallerProofs` | theorems about learning and the installer | `Outcomes`, `Installer` |
| `IntegrationProofs` | theorems about what others share: the MCP server, the MCP clients' files, keys and signatures, the registry's places | `McpServer`, `McpConfig`, `Signing`, `Sources` |
| `DecisionProofs` | theorems about the decision algorithms | `Router`, `Fallbacks`, `CapabilityGraph`, `Dependencies`, `Versions`, `Retrieval`, `CommandLine` |
| `PlanProofs` | theorems about plans and workflows | `Workflow` and with it `PlanGraph`; `DecisionProofs` for closures and lists |
| `StoresProofs` | theorems about the stores | `Schema`, `Corpus`, `Settings`, `Permissions`, `AdapterFiles`, `Scoring` |
| `Induction` | lemmas: induction and recursion over numbers | |

`MCDecisions` composes the decision algorithms and the server, and `MCStores` the stores, as a
sum: they share no state, a behaviour picks one component and runs it, and the
others stay where they start. So one run checks many components over the sum
of their states.

A definition whose comment begins with "A fault:" is not part of the model. It
is a variant of the definition after it with a plausible bug, kept to see
that a property notices.

### SkillRouter

Each invocation `p` has a record `job[p]`: `pc` names the `await` it is at, and
the other fields are the command's locals — the capability, the version it works on
(`ver`), the state it wants (`goal`), the state it read (`seen`), the index in the adapter loop (`at`),
`activatedSync` (`synced`), the plan (`scored`, `acts`, `deacts`), the lockfile
it read (`lockCopy`). Every access to shared state is one step, so the reads
and writes of two invocations interleave as their event loops may.

| actions | code |
|---|---|
| `Enable`, `ForceEnable`, `Disable`, `Activate`, `Deactivate` | the head of each command of `state.ts`: resolve, read the row |
| `ExposeNext`, `ExposeDone` | the loops over enabled agents: `activateInAgents`, `Runtime.activate`, `exposeToAgents` |
| `RetractNext`, `RetractDone` | the loops that remove: `deactivateFromAgents`, `Runtime.deactivate`, `exposeRemoval` |
| `SetState` | both `transitionState` functions with `setInstalledState` |
| `RouteRefresh`, `RoutePlan`, `RouteDecline`, `RouteApply`, `RouteWriteLock` | `routeCommand`, `applyPlan` |
| `RouteActivate`, `Consent`, `CheckInstalled`, `RouteDeactivate`, `RoutePlanDone` | `Runtime.executePlan`, `activate`, `deactivate` |
| `InstallStart` ... `InstallRewrite` | `installCommand`, `CapabilityInstaller.install`, `exposeToAgents` |
| `UninstallStart` ... `UninstallWriteLock` | `uninstallCommand`, `CapabilityInstaller.uninstall` |
| `Crash` | the process is killed |

Every version of a capability has an install root of its own (`Root`), and
`payload` is the set of those that exist; the row names one of them (`version`).
Installing another version leaves the older root where it is, as `update` does.
The sources may offer any version at any time (`Sources`), so a version may be
newer or older than the one before it.

Which adapters a command knows depends on the command: `getAdapterRegistry` is
given `config.customAgents` by install and uninstall (`WithCustom`) and by nobody
else (`AllOrder`), and a process builds its registry once. So install exposes to the
enabled agents and the custom ones (`ExposeOrder`), uninstall removes from all of
them, disable and deactivate from those that every command knows (`Builtin`), and the
runtime from the enabled ones (`RemovalOrder`). The configuration stays the same
through a behaviour.

What is abstracted: the lockfile is the set of its entries; ranking may score any subset of the registry and the plan may
select any of it that respects the never list and the limit, which covers every
setting of threshold, always, prefer and avoid; the upserts of `refreshAll` are
one step, and so are `Router.route`'s two reads of the database; a refusal
before an install or an uninstall (audit, prompt) is the command not starting;
`update` is a sequence of installs that are not followed by exposing (its loop is
in `Versions`); what adapters do to directories and configuration files is in
`AdapterFiles` and `McpConfig`.

### Installer

The root is a set of entries (path and content), copied one entry per step.
Every copy may fail and the process may be killed anywhere. A source is one of
`Sources` or, for an indexed capability whose root exists, that root itself
(`installedOrIndexSourceDir`). The recorded hash file that a successful install
adds is not an entry of the model. One invocation runs at a time: two
installations of one capability that interleave are not modelled.

### Outcomes

`metrics` and `outcomes` are the two tables. `ReadMetrics` and `WriteMetrics`
are separate steps because they are separate statements without a transaction.
Time is counted in recordings started, so two of them have different times.

### McpServer

Each line of the input has a record `handler[n]`: `pc` is where its handler is,
`timeline` how the context providers of a `route_task` call have ended, and
`pending` those that still run. A JavaScript callback is a step: `Line` is the
`line` event with the handler up to its first `await`, so a call without a wait
has its result there and only its answer is left; `Answer` and `Settle` are the
`then` and the `finally` on the handler's promise. `main` is where
`startMcpStdioServer` is, and `returned` includes closing the storage in
`serve-mcp`. `NumProviders` is 6 in the code, or 0 when context is disabled.
The reads before and after the context are one step each and end; those of git
have a timeout of their own, those of files are taken to return.

A message with an id but without a method (an invalid request, or a batch) is
of the kind `nothing` and is not answered, although the comment above
`startMcpStdioServer` promises one response line per request line.

### Router and RouteDecision

`stage` runs from `idle` over `dilute` and `conflicts` to `planned`, and the loops over the
ranking take one candidate of `todo` per step, the best first, because `dilute`
changes `score` in place and `resolveConflicts` changes `excluded` while they
compare. The constraints are the guard of who is a candidate. The weighted
factors of a score are one number; a semantic pass may add a boost. `Running`
and `Stopped` are the actions of the plan, and `RouteDecision` says what the
runtime may rely on: one decision, at most `maxActivations` run, no two of them
rivals, and only what is active is stopped. `SkillRouter.RoutePlan` allows every plan
that this can give, and more.

### Dependencies, Fallbacks, PlanGraph, Workflow, CapabilityGraph

Each is the code's loops as steps. `Dependencies` takes any member of
`pending` where the code pops a stack; `PlanGraph` has the two recursive
traversals as machines with an explicit stack; `Workflow` extends it, as
`planWorkflow` calls `composePlan` with what the subtasks chose. `Fallbacks`
is the walk, and a caller that reports what it tried and walks again, as the option
`attempted` allows and only tests do (`learn --failure` asks once); `CapabilityGraph` adds manifests in
any order to the relations and compares what the queries see from both ends.

### Versions, Retrieval, CommandLine

Values that are texts in the code are the records their parsers make. In
`Versions` an update is a list made from one read of the registry and applied
from another; the match of a similar id for one that is gone is left out. `Retrieval` has two ranked lists, fused by shares of reciprocal
ranks, counted in parts of `Scale`, a number that all of them divide. `CommandLine` walks a line token by
token with `cursor`. `--json` is taken out of it first (`WithoutJson`), and a number flag takes
whatever token follows: it is refused only if that does not read as a number, which a token like
`-5` does (`IsNumber`).

### Schema, Corpus, Sources

Processes with a label each, one SQL statement, row, clone or read per step.
A killed process goes back to `idle`, and what it wrote stays, except for an
open transaction of `Schema`. `job[p].alone` of `Corpus` and its likes in other
modules are history: they record whether another process overlapped, and no guard
reads them.

### Settings, Permissions, Scoring

`Settings` has the global and the project file, and commands that read both,
merge, validate and write in steps; a file that is being written reads as empty.
`Permissions` takes a manifest from its text, whose permissions are each
well written, of the wrong type, or a single string, over validation and
normalisation to risk, policy and the question. `Scoring` records
through `UpdateMetrics` of `Metrics`, halving included, counts
in thousandths of a point, and rounds where the code rounds.

### AdapterFiles, McpConfig, Signing

`AdapterFiles` has for each directory and capability what can be found in the entry, with an
action for each way an install ends. It instantiates `Agents` with what is in
the directories: the assumptions of `SkillRouter` on adapters are a refinement
checked here. The `Clients` of `McpConfig` read a file whole and write it
whole, in two steps each, cut off in between; so do the `Publishers` of `Signing` with the
two key files and the manifest.

## 3. Runs

| run | instance | shows |
|---|---|---|
| `skillrouter_concurrent` | 2 invocations, 1 capability, 2 agents (opencode and a rules agent that may fail), kills anywhere; 1.6 million states | `RowBeforeTransition`, `LockedHasRow`, `GoalStored`, `RowSpec` |
| `skillrouter_sequential` | 1 invocation, 2 capabilities (one in 2 versions; the other asks for consent and is blocked), 3 agents (one that is not enabled and may fail, an enabled one, a custom one), budget 1; 615 thousand states | `DisabledIsHidden`, `UninstallRemovesInstalled`, `RouteWithinBudget`, `EveryCommandFinishes` |
| `outcomes_concurrent` | 2 invocations, 2 capabilities, 3 execution ids, 4 recordings, MAX_OBSERVATIONS 2, limit 1; 2.2 million states | `MetricsConsistent`, `RateKept`, `OutcomesAreCounted`, `PrunedAtRest` |
| `installer_crash` | 3 paths, 2 contents, 3 sources (one without a manifest); 100 thousand states | `LastGoodIsKept`, `CommittedIsWhole`, `RollbackIsExact` |
| `decisions` | one algorithm per behaviour, over thousands of catalogs of 3 capabilities and 1 unknown id, or the server with 2 lines of any kinds and 2 context providers of which the second never returns; 158 thousand states | `RankingIsExplained`, `RouterImplementsDecision` (router), `ResolutionAgrees` (dependencies), `FirstUntried` (fallbacks), `CompositionsAreSound` (plans), `ViewsAgree` (knowledge graph), `WorkflowIsWhole`, `VersionsAreOrdered`, `FusionRespectsTheLists` (retrieval), `HandlersGetTheLine` (command line), `LoopsEnd` (all algorithms); `OneAnswerEach`, `ReturnsWhenIdle`, `TimelineInOrder`, `EveryRequestIsAnswered`, `ReturnsAfterClose` (server) |
| `stores` | one store per behaviour; 1.1 million states | `SchemaMatchesVersion`, `EmbeddingsFresh`, `ThresholdsAsConfigured`, `GrowthKeepsConsent`, `LearningIsSane`, `RefreshedIsLatest`, `FilesImplementAgents`, `OwnServersSurvive`, `SignaturesTell` |
| `skillrouter_disabled` | 1 invocation, 2 capabilities, 3 agents | `disable` does not make a capability inactive for good |
| `skillrouter_deactivate` | the same | `deactivate` may remove the install root |
| `skillrouter_custom` | 1 invocation, 1 capability in 2 versions, 3 agents and a custom one | `disable` leaves what a custom agent has |
| `outcomes_retry` | 1 invocation | recording one execution twice counts it twice |
| `installer_failure` | as `installer_crash` | a first install that fails leaves what it copied |
| `plan_order` | plans over 3 capabilities | a plan that validates may list a step before one it requires |

**Bounds.** Two invocations are enough for every stale read: what an invocation
reads is changed by one other. One capability is enough in the concurrent run
because commands on different capabilities share only the lockfile and the
registry, of which the properties say something for each entry alone; the theorems
have no such bound. In the sequential run two capabilities compete for a
budget of one; two versions are enough for a row to name one while the root of
the other is there, which need be so of one capability only; the three agents are the three
kinds a command tells apart: known but not enabled, enabled, and known to install and
uninstall alone. There an activation fails when its payload is gone or consent is denied; an
adapter that throws in the middle of a copy is in the concurrent run.
`MAX_OBSERVATIONS` is 1000 in the code; with 2, halving happens on the third
recording, and a fourth comes after it. The other runs are
over the full state space; `Outcomes` is bounded by `MaxRecords`, which is why its
run does not check for deadlock (the system stops when all recordings are done).

In `decisions` three capabilities are enough for a chain of conflicts whose
middle is dropped by one end or by both, for a cycle that something else
depends on, for a shared child and for two lists that disagree; `Ids` has a fourth id that no
catalog has. `StepCap` is 2 (20 in the code) so that the cap is reached. An
algorithm stops when it has its result, so the run does not check for deadlock.
In `stores` there are 3 processes for 3 migrations, and two processes wherever
others overlap; what may change and how often is bounded (`MaxChanges`,
`MaxRuns`, `MaxEdits`, `MaxStarts`, `MaxTreeEdits`, `MaxRefreshes`, `MaxOwn`,
`MaxHands`, `MaxCalls`, `MaxDrafts`, `MaxPairs`, `MaxSignings`), each enough for
a fault, a second fault or an overlap, and an undisturbed command after them.
`MaxDeclared` is 2 permissions, which cross a threshold of the risk level
together; `maxOutcomes` is 3, so that outcomes are pushed out, and `MAX_OBSERVATIONS` 4 in this run: the
recordings are not bounded, and the counters are halved again and again. The case in which
the halving lowers a score under the best outcome is among the states: without the
allowance of `HalvingCost`, TLC finds it. With the bound and the weights of the code that
allowance is one point.
`RefreshedIsLatest` needs no overlap but a kill and a later refresh, and has one
refresher; `Sources` itself takes any number of them.

Two lines are enough for the server, whose handlers share only the set `inflight`,
and two providers for a late answer to come while the next one runs; it too
stops, when it has returned.

**Fairness.** `EveryCommandFinishes` needs weak fairness of `Continue(p)`, the
next step of a command that has been started. The event loop resumes a command after every `await`, and the user answers a prompt. No command
need ever be started. In `decisions`, `RunOn` is weakly fair: the next step of an
algorithm that was called, as the algorithms are synchronous
functions, or awaited to their end by one command; and of the server, any of the
callbacks and timers that are due, as an event loop that has something to run runs
something. Nothing is assumed of the client or of any provider's return.
(`ServerSpec` of `McpServer` has each handler and the steps of the drain fair for
themselves, which is more; the theorems use the fairness of neither.)

**What the violations show.** Each of the six states a sentence of the help
texts, comments or documentation that the code does not keep; `findings` in
`PROJECT.json` quotes it.

**Only one command at a time.** `DisabledIsHidden`, `UninstallRemovesInstalled`
and `RouteWithinBudget` are false when two invocations interleave: e.g. the
adapter loops of a `disable` and an `activate` overlap. Nothing in the code or
its documentation promises them then, so they are checked of one invocation.
`DisabledIsHidden` and `UninstallRemovesInstalled` speak of the agents outside
`MayFail`: an adapter in `MayFail` may throw while it copies (a part of the copy
may stay) or while it removes, and the command goes on or ends with the error
as the code does, so nothing can be promised of that agent's directory. `DisabledIsHidden` speaks of
`Builtin`, the agents that every command knows: a custom agent keeps a disabled
capability (`DisableStaysClean` is violated). `UninstallRemovesInstalled` speaks of the root
that the row names: those of other versions stay (section 6), and so does the row.

## 4. Theorems

Each holds for any sets of invocations, capabilities, agents, files, contents
and so on, from the assumptions its model's module names (which TLC evaluates in
the runs) and from nothing else but the two hypotheses stated below. `PROJECT.json`
lists the theorems with the properties they state. Every safety proof has the same
shape: an inductive invariant, a lemma for each action that it is kept, a lemma
that it implies the property, and one temporal step.

### All commands (`SkillRouterProofs`)

Both walks of the lifecycle end at their target from every state in which a
row may rest. The walk is written as three hops, so no induction is needed, and
each theorem is a case analysis over states.

`TypeOK`, `RowBeforeTransition` and `LockedHasRow` are
invariants, `GoalStored` holds of every step, and the commands implement
`RowLifecycle`. None of the three is inductive alone. The inductive invariant
`IInv` adds

 - that a job's fields fit its label: what a state command wants is one of three
   states, a plan's activations have a capability, `seen` is a resting state
   where it is used;
 - that a command between reading the row and its `UPDATE` (`WillStore`) has a row,
   which holds because rows are never deleted;
 - that every entry of the lockfile *and of every copy of it in `lockCopy`* has a
   row, and that install reaches its lockfile write only after `InstallRecord`.

`GoalStored` follows from the type of `seen` and the theorems about the walks;
the refinement from a lemma for each action that either
leaves `row` alone or is a step of `RowLifecycle`.

### One command at a time (also in `SkillRouterProofs`)

`DisabledIsHidden`, `UninstallRemovesInstalled` and `RouteWithinBudget` hold under the
hypothesis `OneAtATime`: there is one invocation at a time and none is killed. It
is the instance of the run `skillrouter_sequential`; without it they are false (section 3).

 - `TidyInv`: every disabled capability is out of every agent that every command knows and that
   can be trusted to remove (`Removable`), but for the one whose state the command is about to
   change; a removal has cleaned the agents before its index. That the
   loop has then been through all of these is in the definition of `Builtin`; that install, which
   exposes to custom agents too, and an uninstall, which removes from them, disturb none
   of it is in `AdaptersAssumption`: what is enabled is known to all, and opencode looks into its own directory first, so that the fallback
   of its removal never takes another's copy while its own stays.
 - `RemovedInv`: an uninstall keeps what it has done so far done: the root of the row's version is
   gone, which no later step of it puts back, and its loop, which has the custom agents,
   ends with every adapter of the full registry (`UninstallIsComplete`).
 - `BudgetInv`: the capabilities of the plan that are active or may still become so, less
   those still to be deactivated, are no more than the budget. It counts, so
   the registry must be finite (`FiniteAssumption`: it is a table of a database).

### Learning and the installer

`OutcomesProofs`: `updateMetrics` keeps counters consistent (this needs the
bound to be even, which is an assumption of the module and true of 1000) and
keeps the success rate up to half an observation; from these, `TypeOK`,
`MetricsConsistent`, `OutcomesAreCounted` and `RateKept`. The inductive invariant also says
that the counters a recording has *read* are consistent, and that a recording
past its write has left counters that are not zero. `PrunedAtRest` has an
invariant of its own (`PruneInv`): too many outcomes of a
capability are there only while a recording of it is about to prune,
execution ids are a key, times differ, and the pruning that comes last sees all.

`InstallerProofs`: `TypeOK`, `LastGoodIsKept`, `CommittedIsWhole` and
`RollbackIsExact`. The inductive invariant says what each phase knows: while
backing up, the copy and what is still to be copied make up the root; from then
on the copy is what the command found and is among the backups; while
restoring, the root and what is still to be restored make up that copy.

### What others share (`IntegrationProofs`)

The MCP server: `OneAnswerEach`, `ReturnsWhenIdle` and `TimelineInOrder`, for
any set of lines and any number of providers. The inductive invariant adds
`InFlight`, that the server leaves `listening` only after the input has ended and
returns only with nothing in flight, and that exactly a collecting task has its
current provider running. Every step of a handler before its answer is an instance
of one lemma (`HandlerMoves`).

`OwnServersSurvive`, by `McpConfigInv`: outside the files that an install read while
they were cut off, both a file that is whole and what an operation that is about to
write has read say what the user wrote there.

`SignaturesTell`, by `SigningInv`: it follows a key generation that runs alone from
half to half, and a signing from its two reads of the pair to its block, so that
a block made alone has the public half of the key it was made with.

`RefreshedIsLatest`, by `SourcesInv`: a refresh that nothing disturbs has passed a
number of stages, the git sources among them have clones, and, if these are clones
of their own urls, every capability either has the row of the last passed stage that offers
it or is about to be stored with it. A clone's url never changes, which
is why it suffices that the clones are their sources' own at the end. The number of stages
is that of the configuration's sources, so this is an induction over a list.

### Decisions (`DecisionProofs`)

The router's pipeline implements `RouteDecision` for any catalog, request,
scores and budget. The inductive invariant `RouterInv` adds that a candidate
`resolveConflicts` has passed is dropped or has had all its opponents
dropped, so that no two rivals are left at the end; the budget is counted: a
candidate's rank is the number of those before it, ranks differ, and only
ranks below the budget run. `RankingIsExplained` joins two theorems:
`LosersLostToRivals` rests on the scores not changing any more while conflicts are resolved, so that
the rival a candidate was dropped for stays no weaker, dropped later or not;
`DilutedAreBehind` on the neighbour having been passed before, so that its
score changes no more.

`FirstUntried`, by `FallbackInv`: what the walk has passed is not usable. That
the chain is a list of capabilities, however the declarations loop, is an
induction over its steps.

`ViewsAgree`, by `GraphInv`: the maps of the two directions are converses, but that
`neededBy` leaves out a capability that needs itself. To compare paths of any
length, `Reach` is first proved to be the least closed set (`ReachIsClosure`).

`ResolutionAgrees`, by `DependencyInv`, a part for each loop: what has been collected is
needed, and what it needs is collected or pending (`Collected`); nothing is placed before
what it requires unless that depends on a cycle (`Placed`); each capability on a
cycle is left or reported, and what is reported is on a cycle (`Reported`).

`VersionsAreOrdered`, for version numbers up to any bound: the four parts of a version are the
digits of its place on a line (`QuadOrder`, from `TwoDigits`), in which comparing is
comparing places and each operator's condition is an interval. The loop of `update`
has `VersionInv`: a row it has not gone through, if it was not older, is as it was read.

`FusionRespectsTheLists`, by `RetrievalInv`: each list has its capabilities once each, and
what all lists agree on is the order of the hits before they are reranked. It rests on
`SortedOnce` (sorting lists a set once each, and what precedes another stands before it)
and `OutrankingIsMore` (shares fall with the rank).

`HandlersGetTheLine`, for any commands and lines, by `CommandInv`. Its core is `Progress`: at
the token `cursor` is at, the positionals are the words before it, a flag has what its last
mention before it gives, and the token is not the value of a flag. There is a lemma for each
kind of token; that of `--` (`EndStep`) is an induction over the rest of the line. It
is assumed that no two flags of a command have the same letter, as is so of all
that are registered (`CommandLineAssumption`).

### Plans and workflows (`PlanProofs`)

`CompositionsAreSound`, for any registry, compositions, roots, exclusions and depth, by
`CompositionInv`. The difficulty is that `buildPlanDag` gives no link to a child that is a
node already, unless it is on the path from the root, so the links alone do not show what a
capability is composed of. The invariant says instead what has returned from `expand`: it
can be ranked (`Traversed`), everything a capability leads to having returned before and having a
lower rank, *unless* a link closes a cycle (`Looping`: no function decreases along the
links) or something was cut off for its depth (`Deep`). Both exceptions, once true, stay
true. A child that is still under way is a caller, and its link closes a cycle (`LinkBack`);
one that has returned is ranked, so nothing is lost by not linking it; and the code's own
exception, the call under way itself, is the self-reference the property leaves out.
`detectCycles` is the same traversal over the links, and ends with a cycle found or with every
node ranked by what it requires; then the links decrease along that rank, which rules out `Looping`: no cycle of what is
composed is left (`DoneIsAcyclic`), what is linked is everything reached (`PlanIsWhole`), and
`linearize` always finds a free node, one of the highest rank among those left
(`OneIsFree`), so it places each once (`LinearPlaces`).

`WorkflowIsWhole`, for any task over any registry, by `WorkflowInv`: while a workflow is routed
its steps are the first subtasks with what was chosen for them (`Assigned`); while it is composed
the plan's roots are exactly what was chosen, nothing is excluded, and `CompositionInv`
holds of the plan (`FromRouted`). A valid plan then has everything the roots reach, so a
step's filter for what has a place in the plan drops nothing (`ComposedOfIs`). What a plan
that does not validate lists is still no more than the roots reach (`StepsInWhole`). The
number of stages is a case analysis over the recipes, which have operations of their own
and three to five stages (`StagesForAre`).

### Stores (`StoresProofs`)

`SchemaMatchesVersion` for any number of processes and
migrations. `SchemaInv` adds that the writer is the one command in the middle of a migration,
that it writes the migration after the committed version, and that no command
believes in a version ahead of that.

`EmbeddingsFresh` for any texts, models and processes. `CorpusInv`
follows an index that runs alone: what it has passed is in step, and what
is left to it is what it will pass.

`ThresholdsAsConfigured`, by `SettingsInv`: what a command has loaded is valid, and what it
has classified with are the sorted thresholds of the layers it read.

`GrowthKeepsConsent`, by `PermissionsInv` (a manifest is normalised, and active only what needs no
consent): the points of a manifest grow with its permissions, and with them its
level and the actions that ask; the theorem is arithmetic over these.

`LearningIsSane`, from `ScoringInv` (rows are outcomes, one at least once a task was
counted, and no more tasks succeed than are counted). A history that goes on with the
best outcome loses at most its oldest row, so a mean of what is as high as can be rises
(`MeanRises`), and its rounding with it: `a / b <= c / d` implies the same of the rounded
quotients (`RoundMonotone`). So the new summary is `Better` than the old, field by field
(`BestIsBetter`), and the quality, the success rate, the nudge and the latency each rise
with it. The counters go through `updateMetrics`: below their bound the rate rises
(`RateKeeps`), and at the bound a halving takes at most what `HalvingCost` says
(`RateHalved`), which is a fraction's worth of arithmetic over an even bound.
The sums are recursive functions, followed with the lemmas of `Induction`. The
fractions are exact; what a double's rounding might add is outside the model.

`FilesImplementAgents`, the refinement of `Agents` by the directories, operation by
operation, under the hypothesis `Apart`: no adapter writes where another writes or cleans,
each looks where it writes and, but for opencode, cleans there, and those among whose
directories opencode looks write into one. The built-in adapters' directories are so
(`MCStores` has them, and TLC evaluates `Apart` of them); a custom agent's are the
user's to choose, and if he gives it another adapter's directory the two do see each
other's entries.

### Induction

The provers cannot instantiate an operator, so the library's induction theorems cannot be
used. `Induction` states what the proofs need of it in first-order form: a set of numbers has a
least one (`LeastNatural`, from `WFMin`), a *set* that holds 0 and with each number the next
holds all up to a bound (`UpTo`), and a recursive function whose step is a
*function* exists (`RecursiveExists`) and keeps its type (`RecursiveTyped`). With these, what
`Fallbacks`, `CapabilityGraph`, `Dependencies`, `Retrieval`, `CommandLine`, `PlanGraph` and `Scoring`
define by recursion can be proved about.

### Only model-checked

Every invariant and every safety action property of the passing runs is a theorem. What is left is

 - `EveryCommandFinishes`, `EveryRequestIsAnswered`, `ReturnsAfterClose` and
   `LoopsEnd`: liveness under fairness is beyond the prover;
 - the six violations, which are counterexamples.

## 5. Plan

What is left, in this order:

1. Reputation, as integer arithmetic over the outcomes of `Scoring`.
2. The route history and the router cache of `storage/sqlite.ts`, and the other
   commands that write them.

## 6. Where the code and its documents differ

Six differences are runs with a counterexample (section 3). Others met while
modelling, which no run states:

 - `Runtime.activate` acts on `ask` only: a `deny` does not stop an activation,
   and replaces the question (`runtime/runtime.ts:82`, against
   `docs/routing/configuration.md:40`). A manifest whose `risk.level` is misspelt is
   loaded with the level low.
 - `uninstall` is said to remove a capability from the project
   (`cli/commands/capabilities.ts:173`) and removes the install root its row names
   (`installer/installer.ts:193`): those that older versions left, after an `update` say, stay.
 - Policy rules for a target match none but the network rule `*`, as the runtime's
   requests carry no target.
 - `config set` writes the global file; once `init`, `source add` or `agents add` has
   written the project's, that one shadows every key. It checks no value but the strategy, and
   a value that does not validate makes every later command fail.
 - `retrieve` is said never to throw (`retrieval/index.ts:42`) and does when
   the embedding API fails.
 - Ties between rivals go by comparing risk levels as strings
   (`router/conflicts.ts:21`, against the comment at :6).
 - `source add` reports what it indexed and counts every capability there is. A
   git source whose url was replaced keeps pulling the old repository.
 - Uninstalling from a rules agent removes a user's own file of the
   capability's name, marked or not (against `README.md:136`). An mcp install
   that reads a configuration it cannot parse writes it with its own entry alone.
 - Signing a manifest a second time signs the old signature with it, and the
   result does not verify. The registry's manifests carry no signature, so
   `signatures` reports every installed capability unsigned, with a reason that
   `docs/security/signing.md:53` has the other way round; `verify --full`
   checks none (against :56).
 - Flags without a type are boolean: the value of `logs -n`, `export --out` or `audit
   --limit` becomes a positional. `--json` is taken out everywhere, even after `--`.
 - `workflow` calls its order dependency-safe, which is the order of the
   subtasks; dependencies do not enter into it.
 - The first recorded success may lower a score, as the declared reliability no
   longer counts, and counters move scores while learning is disabled.

## 7. Not modelled

Reputation (Wilson bounds and decay over real numbers); the text similarities,
BM25 scores and factors behind a score, which the models take as given numbers; project
analysis, git and task intents, which only feed them; auditing, secret scans and
`verify`, which match patterns and keep no state; rendering, logging and the
event bus, whose subscribers only log; SQLite itself, of which each statement
is taken to be atomic; the tables of history, audit log, preferences and
router cache, which no decision modelled here reads back; commands that only
read and print (`list`, `search`, `explain`, `recommend`, `status`, `gaps`,
`export`, `logs`, `doctor`).
