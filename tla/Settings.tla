------------------------------- MODULE Settings -------------------------------
(***************************************************************************)
(* The configuration (src/config/config.ts) and the commands that read and *)
(* write it: every command loads the global file, then the project file,   *)
(* merges them over the defaults and validates the result; `config set`    *)
(* and `unset` read the global file again, change one key and write it     *)
(* back; `init` writes the defaults, `source add` and `agents add` the     *)
(* merged settings, to the project file; the user edits either file by     *)
(* hand.  writeFile truncates the file before it fills it, so that another *)
(* command may read it empty, and a command may be killed in between.      *)
(*                                                                         *)
(* Kept of the settings: the four classification thresholds, the router's  *)
(* strategy, which `config set` checks, and one more key, which stands for *)
(* those that are only validated.  A value is a number: the range 0..100   *)
(* stands for what validation accepts, whatever the key.                   *)
(***************************************************************************)
EXTENDS Integers, Sequences, SequencesExt

CONSTANTS Commands,  \* the commands that may run
          Settable,   \* what a user may write: pairs of a key and a value
          Scores,    \* the scores a route may have to classify
          NoFile,    \* a project without skillrouter.yaml
          MaxEdits,  \* bound: how often the user edits a file
          MaxStarts  \* bound: how many commands are started

Thresholds == <<"noMatch", "weak", "good", "exact">>
Keys == Range(Thresholds) \cup {"strategy", "setting"}
Empty == [k \in {} |-> 0]

DEFAULT_CONFIG ==
    [noMatch |-> 25, weak |-> 50, good |-> 75, exact |-> 90, strategy |-> 0, setting |-> 0]

ASSUME SettingsAssumption ==
    /\ Settable \subseteq Keys \X Int /\ Scores \subseteq 0..100
    /\ MaxEdits \in Nat /\ MaxStarts \in Nat

VARIABLES globalFile, projectFile,
          command,  \* command[p]: what p does, and what it has read
          edits, starts

settingsVars == <<globalFile, projectFile, command, edits, starts>>

NoCommand == [at |-> "idle", does |-> "route", key |-> "setting", value |-> 0,
              global |-> Empty, project |-> Empty, found |-> Empty, used |-> <<>>]

SettingsInit ==
    /\ globalFile = Empty /\ projectFile = NoFile
    /\ command = [p \in Commands |-> NoCommand]
    /\ edits = 0 /\ starts = 0

Put(p, c) == command' = [command EXCEPT ![p] = c]
Goto(p, at) == Put(p, [command[p] EXCEPT !.at = at])
Finish(p) == Put(p, NoCommand)

-----------------------------------------------------------------------------
(* deepMerge: a key of the override wins.                                   *)
Merge(base, override) ==
    [k \in DOMAIN base \cup DOMAIN override |->
        IF k \in DOMAIN override THEN override[k] ELSE base[k]]
Config(c) == Merge(Merge(DEFAULT_CONFIG, c.global), c.project)

InRange(v) == 0 <= v /\ v <= 100
Ordered(c) == \A i \in 1..3 : c[Thresholds[i]] <= c[Thresholds[i + 1]]

(* A fault: each layer is validated over the defaults.                      *)
ValidByLayer(global, project) ==
    \A layer \in {global, project} :
       LET c == Merge(DEFAULT_CONFIG, layer) IN
       (\A k \in Keys : InRange(c[k])) /\ Ordered(c)

(* validateConfig of the merged settings; a layer on its own may well be    *)
(* out of order with the defaults.                                          *)
Valid(global, project) ==
    LET c == Merge(Merge(DEFAULT_CONFIG, global), project) IN
    (\A k \in Keys : InRange(c[k])) /\ Ordered(c)

(* normalizeThresholds clamps what validation lets through no more, and     *)
(* sorts.                                                                   *)
Clamped(v) == IF v < 0 THEN 0 ELSE IF v > 100 THEN 100 ELSE v
Sorted(t) ==
    CHOOSE u \in {[i \in 1..4 |-> t[p[i]]] : p \in Surjection(1..4, 1..4)} :
       \A i \in 1..3 : u[i] <= u[i + 1]
normalizeThresholds(c) == Sorted([i \in 1..4 |-> Clamped(c[Thresholds[i]])])

(* classify: the number of boundaries, of the first three, a score is not   *)
(* below; 0 is NO_MATCH and 3 is EXACT_MATCH.  Nothing reads `exact`.       *)
classify(score, t) ==
    IF score < t[1] THEN 0 ELSE IF score < t[2] THEN 1 ELSE IF score < t[3] THEN 2 ELSE 3

-----------------------------------------------------------------------------
(* A command starts: reset is `init --force`, add is `source add` and       *)
(* `agents add`.                                                            *)
Launch(p) ==
    /\ command[p].at \in {"idle", "classified"} /\ starts < MaxStarts
    /\ starts' = starts + 1
    /\ \/ \E does \in {"route", "init", "reset", "add"} :
            Put(p, [NoCommand EXCEPT !.at = "global", !.does = does])
       \/ \E c \in Settable :
            Put(p, [NoCommand EXCEPT !.at = "global", !.does = "set", !.key = c[1], !.value = c[2]])
       \/ \E c \in Settable :
            Put(p, [NoCommand EXCEPT !.at = "global", !.does = "unset", !.key = c[1]])
    /\ UNCHANGED <<globalFile, projectFile, edits>>

(* loadConfig: one file, then the other.                                    *)
ReadGlobal(p) ==
    /\ command[p].at = "global"
    /\ Put(p, [command[p] EXCEPT !.at = "project", !.global = globalFile])
    /\ UNCHANGED <<globalFile, projectFile, edits, starts>>

ReadProject(p) ==
    /\ command[p].at = "project"
    /\ LET project == IF projectFile = NoFile THEN Empty ELSE projectFile
           global == command[p].global
       IN IF Valid(global, project)
          THEN Put(p, [command[p] EXCEPT !.project = project, !.at = "loaded"])
          ELSE Finish(p)
    /\ UNCHANGED <<globalFile, projectFile, edits, starts>>

(* route: the scores are classified by the thresholds.                      *)
Classify(p) ==
    /\ command[p].at = "loaded" /\ command[p].does = "route"
    /\ Put(p, [command[p] EXCEPT !.at = "classified",
                                 !.used = normalizeThresholds(Config(command[p]))])
    /\ UNCHANGED <<globalFile, projectFile, edits, starts>>

(* config set and unset: the global file once more.  Only the strategy is   *)
(* checked before it is written; unset of a key that is not there writes    *)
(* nothing when the mapping it would be in is missing too.                  *)
Refused(c) == c.does = "set" /\ c.key = "strategy" /\ ~InRange(c.value)

ReadBack(p) ==
    /\ command[p].at = "loaded" /\ command[p].does \in {"set", "unset"}
    /\ \/ /\ ~Refused(command[p])
          /\ Put(p, [command[p] EXCEPT !.found = globalFile, !.at = "truncate"])
       \/ /\ \/ Refused(command[p])
             \/ command[p].does = "unset" /\ command[p].key \notin DOMAIN globalFile
          /\ Finish(p)
    /\ UNCHANGED <<globalFile, projectFile, edits, starts>>

(* The one of the two files a command writes, and with what.                *)
Writes(c) == IF c.does \in {"set", "unset"} THEN "global" ELSE "project"

Written(c) ==
    CASE c.does = "set"   -> Merge(c.found, [k \in {c.key} |-> c.value])
      [] c.does = "unset" -> [k \in DOMAIN c.found \ {c.key} |-> c.found[k]]
      [] c.does = "add"   -> Config(c)
      [] OTHER            -> DEFAULT_CONFIG

(* init without --force only writes where there is no file.                 *)
Target(p) ==
    /\ command[p].at = "loaded" /\ command[p].does \in {"init", "reset", "add"}
    /\ IF command[p].does = "init" /\ projectFile # NoFile
       THEN Finish(p) ELSE Goto(p, "truncate")
    /\ UNCHANGED <<globalFile, projectFile, edits, starts>>

Fill(p, content) ==
    /\ IF Writes(command[p]) = "global"
       THEN globalFile' = content /\ UNCHANGED projectFile
       ELSE projectFile' = content /\ UNCHANGED globalFile
    /\ UNCHANGED <<edits, starts>>

Truncate(p) == command[p].at = "truncate" /\ Goto(p, "fill") /\ Fill(p, Empty)
Write(p) == command[p].at = "fill" /\ Finish(p) /\ Fill(p, Written(command[p]))

(* The process is killed, and the file it was writing stays empty.          *)
Interrupt(p) ==
    /\ command[p].at = "fill" /\ Finish(p)
    /\ UNCHANGED <<globalFile, projectFile, edits, starts>>

(* The user writes a setting into one of the files, or removes the project's. *)
Edit ==
    /\ edits < MaxEdits /\ edits' = edits + 1
    /\ \/ \E c \in Settable :
            LET one == [k \in {c[1]} |-> c[2]] IN
            \/ globalFile' = Merge(globalFile, one) /\ UNCHANGED projectFile
            \/ /\ projectFile' = IF projectFile = NoFile THEN one ELSE Merge(projectFile, one)
               /\ UNCHANGED globalFile
       \/ projectFile' = NoFile /\ UNCHANGED globalFile
    /\ UNCHANGED <<command, starts>>

CommandStep(p) ==
    \/ Launch(p) \/ ReadGlobal(p) \/ ReadProject(p) \/ Classify(p)
    \/ ReadBack(p) \/ Target(p) \/ Truncate(p) \/ Write(p) \/ Interrupt(p)

SettingsNext == Edit \/ \E p \in Commands : CommandStep(p)

SettingsSpec == SettingsInit /\ [][SettingsNext]_settingsVars

-----------------------------------------------------------------------------
(* What the files that a command read say of a key: the project's value,    *)
(* else the global one, else the default.                                   *)
Configured(c, k) ==
    CASE k \in DOMAIN c.project -> c.project[k]
      [] k \notin DOMAIN c.project /\ k \in DOMAIN c.global -> c.global[k]
      [] OTHER -> DEFAULT_CONFIG[k]

(* A route classifies with the boundaries its files configure, although     *)
(* each file gives only some of them, may be out of order by itself, and is *)
(* written by other commands meanwhile: the sort of normalizeThresholds     *)
(* never moves a boundary to another class, a class starts exactly at the   *)
(* score that was configured for it, and no better score gets a lower class *)
(* (validateConfig over the merge, and classify).                           *)
ThresholdsAsConfigured ==
    \A p \in Commands :
       LET c == command[p] IN
       c.at = "classified" =>
          /\ \A i \in 1..4 : c.used[i] = Configured(c, Thresholds[i])
          /\ \A s \in Scores, i \in 1..3 :
                classify(s, c.used) >= i <=> s >= Configured(c, Thresholds[i])
=============================================================================
