----------------------------- MODULE StoresProofs -----------------------------
(***************************************************************************)
(* Proofs about the stores around the router, for every value of their     *)
(* constants: the schema of the database, the settings, the permissions a  *)
(* manifest asks for, the corpus with its embeddings, and the adapters'    *)
(* directories.  Each has an inductive invariant of its own.               *)
(***************************************************************************)
EXTENDS Schema, Corpus, Settings, Permissions, AdapterFiles, Scoring, Induction,
        FiniteSetTheorems, TLAPS

(* The schema.  SchemaInv is inductive: besides the property it says that   *)
(* the one writer is the command in the middle of a migration, that it      *)
(* writes the migration after the committed version, and that no command    *)
(* believes in a version ahead of the committed one.                        *)
Steps == {"closed", "loop", "begun", "created", "stamped", "open"}

LEMMA SchemaInitInv == SchemaInit => SchemaInv
  BY SchemaAssumption DEF SchemaInit, SchemaInv, SchemaTypeOK, SchemaMatchesVersion,
       Migrating, Clean

LEMMA OpenInv == ASSUME SchemaInv, NEW p \in Procs, Open(p) PROVE SchemaInv'
  BY SchemaAssumption DEF SchemaInv, SchemaTypeOK, SchemaMatchesVersion, Migrating, Open

LEMMA BeginInv == ASSUME SchemaInv, NEW p \in Procs, BeginMigration(p) PROVE SchemaInv'
<1>1. version[p] \in 0 .. Latest /\ userVersion \in 0 .. Latest /\ Latest \in Nat
  BY SchemaAssumption DEF SchemaInv, SchemaTypeOK
<1>2. version[p] <= userVersion
  BY DEF SchemaInv, BeginMigration
<1>3. ~(version[p] < Latest) => version[p] = Latest /\ tables = 1 .. Latest
  BY <1>1, <1>2 DEF SchemaInv, SchemaMatchesVersion
<1>4. SchemaTypeOK'
  BY DEF SchemaInv, SchemaTypeOK, BeginMigration
<1>5. SchemaMatchesVersion'
  BY <1>3 DEF SchemaInv, SchemaTypeOK, SchemaMatchesVersion, BeginMigration
<1> QED
  BY <1>1, <1>2, <1>3, <1>4, <1>5 DEF SchemaInv, SchemaTypeOK, Migrating, BeginMigration

LEMMA CreateInv == ASSUME SchemaInv, NEW p \in Procs, Create(p) PROVE SchemaInv'
<1>1. /\ version[p] \in 0 .. Latest /\ userVersion \in 0 .. Latest /\ Latest \in Nat
      /\ version[p] <= userVersion /\ version[p] < Latest /\ tables = 1 .. userVersion
  BY SchemaAssumption DEF SchemaInv, SchemaTypeOK, SchemaMatchesVersion, Create
<1>2. CASE writer # Nobody \/ version[p] + 1 \in tables
  BY <1>2 DEF SchemaInv, SchemaTypeOK, SchemaMatchesVersion, Migrating, Create
<1>3. CASE ~(writer # Nobody \/ version[p] + 1 \in tables)
  <2>1. version[p] = userVersion
    BY <1>1, <1>3
  <2>2. /\ writer' = p /\ draft' = [draft EXCEPT !.tables = {version[p] + 1}]
        /\ version' = [version EXCEPT ![p] = version[p] + 1]
        /\ step' = [step EXCEPT ![p] = "created"]
        /\ UNCHANGED <<userVersion, tables>>
    BY <1>3 DEF Create
  <2>3. \A q \in Procs : step[q] \notin Migrating /\ p # Nobody
    BY <1>3, SchemaAssumption DEF SchemaInv
  <2>4. SchemaTypeOK'
    <3>1. version[p] + 1 \in 0 .. Latest /\ {version[p] + 1} \in SUBSET (1 .. Latest)
      BY <1>1
    <3>2. draft' \in [tables : SUBSET (1 .. Latest), stamped : BOOLEAN]
      BY <2>2, <3>1 DEF SchemaInv, SchemaTypeOK
    <3>3. version' \in [Procs -> 0 .. Latest] /\ step' \in [Procs -> Steps]
      BY <2>2, <3>1 DEF SchemaInv, SchemaTypeOK, Steps
    <3> QED BY <2>2, <3>2, <3>3 DEF SchemaInv, SchemaTypeOK, Steps
  <2>5. SchemaMatchesVersion'
    BY <2>2 DEF SchemaInv, SchemaTypeOK, SchemaMatchesVersion
  <2>6. /\ version'[p] = userVersion' + 1 /\ draft'.tables = {version'[p]}
        /\ step'[p] = "created"
    BY <1>1, <2>1, <2>2 DEF SchemaInv, SchemaTypeOK
  <2>7. \A q \in Procs : q # p => step'[q] = step[q] /\ version'[q] = version[q]
    BY <2>2 DEF SchemaInv, SchemaTypeOK
  <2> QED
    BY <2>2, <2>3, <2>4, <2>5, <2>6, <2>7 DEF SchemaInv, Migrating
<1> QED BY <1>2, <1>3

LEMMA StampInv == ASSUME SchemaInv, NEW p \in Procs, Stamp(p) PROVE SchemaInv'
<1>1. writer = p /\ p # Nobody
  BY SchemaAssumption DEF SchemaInv, Migrating, Stamp
<1> QED
  BY <1>1 DEF SchemaInv, SchemaTypeOK, SchemaMatchesVersion, Migrating, Stamp

LEMMA CommitInv == ASSUME SchemaInv, NEW p \in Procs, Commit(p) PROVE SchemaInv'
<1>1. /\ step[p] = "stamped" /\ writer' = Nobody /\ draft' = Clean
      /\ step' = [step EXCEPT ![p] = "loop"] /\ version' = version
      /\ tables' = tables \cup draft.tables
      /\ userVersion' = IF draft.stamped THEN version[p] ELSE userVersion
  BY DEF Commit
<1>2. /\ writer = p /\ draft.stamped /\ version[p] = userVersion + 1
      /\ draft.tables = {version[p]} /\ tables = 1 .. userVersion
  BY <1>1 DEF SchemaInv, Migrating, SchemaMatchesVersion
<1>3. userVersion \in 0 .. Latest /\ version[p] \in 0 .. Latest /\ Latest \in Nat
  BY SchemaAssumption DEF SchemaInv, SchemaTypeOK
<1>4. userVersion' = userVersion + 1 /\ tables' = 1 .. userVersion'
  BY <1>1, <1>2, <1>3
<1>5. \A q \in Procs : q # p => step[q] \notin Migrating
  BY <1>2 DEF SchemaInv
<1>6. \A q \in Procs : step[q] # "open"
  BY <1>2, <1>3 DEF SchemaInv
<1>7. SchemaTypeOK'
  BY <1>1, <1>2, <1>3, <1>4 DEF SchemaInv, SchemaTypeOK, Clean
<1>8. SchemaMatchesVersion'
  BY <1>1, <1>4, <1>6 DEF SchemaInv, SchemaTypeOK, SchemaMatchesVersion
<1>9. \A q \in Procs : step[q] \in {"loop", "begun", "open"} => version[q] <= userVersion'
  BY <1>3, <1>4 DEF SchemaInv, SchemaTypeOK
<1>10. /\ step'[p] = "loop" /\ version'[p] <= userVersion'
       /\ \A q \in Procs : q # p => step'[q] = step[q] /\ version'[q] = version[q]
  BY <1>1, <1>2, <1>3, <1>4 DEF SchemaInv, SchemaTypeOK
<1> QED
  BY <1>1, <1>5, <1>7, <1>8, <1>9, <1>10, SchemaAssumption DEF SchemaInv, Migrating

LEMMA ExitInv == ASSUME SchemaInv, NEW p \in Procs, Exit(p) PROVE SchemaInv'
  BY SchemaAssumption DEF SchemaInv, SchemaTypeOK, SchemaMatchesVersion, Migrating, Exit, Clean

LEMMA SchemaStepInv == SchemaInv /\ [SchemaNext]_schemaVars => SchemaInv'
<1> SUFFICES ASSUME SchemaInv, [SchemaNext]_schemaVars PROVE SchemaInv'
  OBVIOUS
<1>1. CASE SchemaNext
  BY <1>1, OpenInv, BeginInv, CreateInv, StampInv, CommitInv, ExitInv DEF SchemaNext
<1>2. CASE UNCHANGED schemaVars
  BY <1>2 DEF schemaVars, SchemaInv, SchemaTypeOK, SchemaMatchesVersion, Migrating, Clean
<1> QED BY <1>1, <1>2

LEMMA SchemaAlwaysInv == SchemaSpec => []SchemaInv
  BY SchemaInitInv, SchemaStepInv, PTL DEF SchemaSpec

(* Every variable keeps its type (SqliteStorage.init).                      *)
THEOREM SchemaTyped == SchemaSpec => []SchemaTypeOK
<1>1. SchemaInv => SchemaTypeOK
  BY DEF SchemaInv
<1> QED BY <1>1, SchemaAlwaysInv, PTL

(* However many commands migrate at once and are killed, the recorded       *)
(* version is that of the tables, and who gets past init has all of them    *)
(* (SqliteStorage.migrate).                                                 *)
THEOREM SchemaAgrees == SchemaSpec => []SchemaMatchesVersion
<1>1. SchemaInv => SchemaMatchesVersion
  BY DEF SchemaInv
<1> QED BY <1>1, SchemaAlwaysInv, PTL

-----------------------------------------------------------------------------
(* The settings.  A file gives some of the keys a number, and so does what  *)
(* a command has read; what it goes on with after the validation is valid.  *)
Layers == UNION {[D -> Int] : D \in SUBSET Keys}

CommandOK(c) ==
    /\ c.at \in {"idle", "global", "project", "loaded", "classified", "truncate", "fill"}
    /\ c.key \in Keys /\ c.value \in Int
    /\ c.global \in Layers /\ c.project \in Layers /\ c.found \in Layers
    /\ c.at \in {"loaded", "classified"} => Valid(c.global, c.project)
    /\ c.at = "classified" => c.used = normalizeThresholds(Config(c))

SettingsInv ==
    /\ globalFile \in Layers /\ projectFile \in Layers \cup {NoFile}
    /\ DOMAIN command = Commands
    /\ \A p \in Commands : CommandOK(command[p])

LEMMA ThresholdKeys ==
  /\ Keys = {"noMatch", "weak", "good", "exact", "strategy", "setting"}
  /\ \A i \in 1 .. 4 : Thresholds[i] \in Keys
  /\ DOMAIN DEFAULT_CONFIG = Keys /\ \A k \in Keys : DEFAULT_CONFIG[k] \in Int
<1>1. Range(Thresholds) = {"noMatch", "weak", "good", "exact"}
  <2>1. DOMAIN Thresholds = 1 .. 4
    BY DEF Thresholds
  <2> QED BY <2>1 DEF Thresholds, Range
<1> QED BY <1>1 DEF Keys, DEFAULT_CONFIG, Thresholds

LEMMA LayersMerge ==
  ASSUME NEW a \in Layers, NEW b \in Layers
  PROVE  Merge(a, b) \in Layers
<1> DEFINE D == DOMAIN a \cup DOMAIN b
<1>1. D \in SUBSET Keys
  BY DEF Layers
<1>2. Merge(a, b) \in [D -> Int]
  BY DEF Layers, Merge
<1> HIDE DEF D
<1> QED BY <1>1, <1>2 DEF Layers

LEMMA ConfigIs ==
  ASSUME NEW c, c.global \in Layers, c.project \in Layers, NEW k \in Keys
  PROVE  Config(c)[k] = Configured(c, k) /\ Configured(c, k) \in Int
<1>1. /\ DOMAIN c.global \subseteq Keys /\ DOMAIN c.project \subseteq Keys
      /\ \A x \in DOMAIN c.global : c.global[x] \in Int
      /\ \A x \in DOMAIN c.project : c.project[x] \in Int
  BY DEF Layers
<1> QED BY <1>1, ThresholdKeys DEF Config, Configured, Merge

(* Sorting what is in order changes nothing.                                *)
LEMMA OrderedIsSorted ==
  ASSUME NEW t \in [1 .. 4 -> Int], \A i \in 1 .. 3 : t[i] <= t[i + 1]
  PROVE  Sorted(t) = t
<1> DEFINE S == {[i \in 1 .. 4 |-> t[p[i]]] : p \in Surjection(1 .. 4, 1 .. 4)}
           InOrder(u) == \A i \in 1 .. 3 : u[i] <= u[i + 1]
<1>1. t \in S
  <2> DEFINE id == [i \in 1 .. 4 |-> i]
  <2>1. id \in Surjection(1 .. 4, 1 .. 4)
    BY DEF Surjection
  <2>2. t = [i \in 1 .. 4 |-> t[id[i]]]
    OBVIOUS
  <2> HIDE DEF id
  <2> QED BY <2>1, <2>2
<1>2. ASSUME NEW u \in S, InOrder(u) PROVE u = t
  <2>1. PICK p \in Surjection(1 .. 4, 1 .. 4) : u = [i \in 1 .. 4 |-> t[p[i]]]
    OBVIOUS
  <2>2. /\ p[1] \in 1 .. 4 /\ p[2] \in 1 .. 4 /\ p[3] \in 1 .. 4 /\ p[4] \in 1 .. 4
        /\ \A v \in 1 .. 4 : p[1] = v \/ p[2] = v \/ p[3] = v \/ p[4] = v
    <3>1. p \in [1 .. 4 -> 1 .. 4] /\ \A v \in 1 .. 4 : \E i \in 1 .. 4 : p[i] = v
      BY DEF Surjection
    <3>2. \A i \in 1 .. 4 : i = 1 \/ i = 2 \/ i = 3 \/ i = 4
      OBVIOUS
    <3> QED BY <3>1, <3>2
  <2>3. /\ u[1] = t[p[1]] /\ u[2] = t[p[2]] /\ u[3] = t[p[3]] /\ u[4] = t[p[4]]
        /\ t[1] \in Int /\ t[2] \in Int /\ t[3] \in Int /\ t[4] \in Int
        /\ t[1] <= t[2] /\ t[2] <= t[3] /\ t[3] <= t[4]
        /\ u[1] <= u[2] /\ u[2] <= u[3] /\ u[3] <= u[4]
    BY <1>2, <2>1
  <2>4. u[1] = t[1] /\ u[2] = t[2] /\ u[3] = t[3] /\ u[4] = t[4]
    BY <2>2, <2>3, SMTT(60)
  <2> QED BY <2>1, <2>4
<1>3. InOrder(t)
  OBVIOUS
<1>4. Sorted(t) = CHOOSE u \in S : InOrder(u)
  BY DEF Sorted
<1> HIDE DEF S, InOrder
<1> QED BY <1>1, <1>2, <1>3, <1>4

LEMMA Simple ==
  /\ Empty \in Layers
  /\ DEFAULT_CONFIG \in Layers
  /\ \A k \in Keys, v \in Int : [x \in {k} |-> v] \in Layers
<1>1. Empty \in [{} -> Int] /\ DEFAULT_CONFIG \in [Keys -> Int]
  BY ThresholdKeys DEF Empty, DEFAULT_CONFIG
<1>2. ASSUME NEW k \in Keys, NEW v \in Int PROVE [x \in {k} |-> v] \in Layers
  <2>1. [x \in {k} |-> v] \in [{k} -> Int] /\ {k} \in SUBSET Keys
    OBVIOUS
  <2> QED BY <2>1 DEF Layers
<1> QED BY <1>1, <1>2 DEF Layers

LEMMA NoCommandOK == CommandOK(NoCommand)
BY Simple, ThresholdKeys DEF CommandOK, NoCommand

LEMMA SettingsInitInv == SettingsInit => SettingsInv
BY Simple, NoCommandOK DEF SettingsInit, SettingsInv

(* A step of a command that leaves it in order.                             *)
LEMMA PutOK ==
  ASSUME SettingsInv, NEW p \in Commands, NEW c, CommandOK(c), Put(p, c),
         globalFile' \in Layers, projectFile' \in Layers \cup {NoFile}
  PROVE  SettingsInv'
<1>1. /\ DOMAIN command' = Commands /\ command'[p] = c
      /\ \A q \in Commands : q # p => command'[q] = command[q]
  BY DEF SettingsInv, Put
<1> QED BY <1>1 DEF SettingsInv

(* What a command writes is a layer.                                        *)
LEMMA WrittenOK ==
  ASSUME NEW c, CommandOK(c)
  PROVE  Written(c) \in Layers
<1>1. CASE c.does = "set"
  <2>1. [k \in {c.key} |-> c.value] \in Layers
    BY Simple DEF CommandOK
  <2> QED BY <1>1, <2>1, LayersMerge DEF Written, CommandOK
<1>2. CASE c.does = "unset"
  <2> DEFINE D == DOMAIN c.found \ {c.key}
  <2>1. D \in SUBSET Keys /\ [k \in D |-> c.found[k]] \in [D -> Int]
    BY DEF CommandOK, Layers
  <2>2. Written(c) = [k \in D |-> c.found[k]]
    BY <1>2 DEF Written
  <2> HIDE DEF D
  <2> QED BY <2>1, <2>2 DEF Layers
<1>3. CASE c.does = "add"
  <2>1. Config(c) \in Layers
    BY Simple, LayersMerge DEF Config, CommandOK
  <2> QED BY <1>3, <2>1 DEF Written
<1>4. CASE c.does \notin {"set", "unset", "add"}
  BY <1>4, Simple DEF Written
<1> QED BY <1>1, <1>2, <1>3, <1>4

LEMMA LaunchInv == ASSUME SettingsInv, NEW p \in Commands, Launch(p) PROVE SettingsInv'
<1>1. UNCHANGED <<globalFile, projectFile>>
  BY DEF Launch
<1>2. PICK c : Put(p, c) /\ CommandOK(c)
  <2>1. CASE \E does \in {"route", "init", "reset", "add"} :
               Put(p, [NoCommand EXCEPT !.at = "global", !.does = does])
    <3>1. \A does : CommandOK([NoCommand EXCEPT !.at = "global", !.does = does])
      BY NoCommandOK DEF CommandOK, NoCommand
    <3> QED BY <2>1, <3>1
  <2>2. CASE \E s \in Settable :
               Put(p, [NoCommand EXCEPT !.at = "global", !.does = "set", !.key = s[1], !.value = s[2]])
    <3>1. \A k \in Keys, v \in Int :
             CommandOK([NoCommand EXCEPT !.at = "global", !.does = "set", !.key = k, !.value = v])
      BY NoCommandOK DEF CommandOK, NoCommand
    <3>2. \A s \in Settable : s[1] \in Keys /\ s[2] \in Int
      BY SettingsAssumption
    <3> QED BY <2>2, <3>1, <3>2
  <2>3. CASE \E s \in Settable :
               Put(p, [NoCommand EXCEPT !.at = "global", !.does = "unset", !.key = s[1]])
    <3>1. \A k \in Keys :
             CommandOK([NoCommand EXCEPT !.at = "global", !.does = "unset", !.key = k])
      BY NoCommandOK DEF CommandOK, NoCommand
    <3>2. \A s \in Settable : s[1] \in Keys
      BY SettingsAssumption
    <3> QED BY <2>3, <3>1, <3>2
  <2> QED BY <2>1, <2>2, <2>3 DEF Launch
<1> QED BY <1>1, <1>2, PutOK DEF SettingsInv

LEMMA ReadGlobalInv == ASSUME SettingsInv, NEW p \in Commands, ReadGlobal(p) PROVE SettingsInv'
<1> DEFINE c == [command[p] EXCEPT !.at = "project", !.global = globalFile]
<1>1. Put(p, c) /\ UNCHANGED <<globalFile, projectFile>>
  BY DEF ReadGlobal
<1>2. CommandOK(c)
  BY DEF SettingsInv, CommandOK
<1> QED BY <1>1, <1>2, PutOK DEF SettingsInv

LEMMA FinishInv ==
  ASSUME SettingsInv, NEW p \in Commands, Finish(p),
         globalFile' \in Layers, projectFile' \in Layers \cup {NoFile}
  PROVE  SettingsInv'
BY NoCommandOK, PutOK DEF Finish

LEMMA GotoInv ==
  ASSUME SettingsInv, NEW p \in Commands, NEW at \in {"truncate", "fill"}, Goto(p, at),
         globalFile' \in Layers, projectFile' \in Layers \cup {NoFile}
  PROVE  SettingsInv'
<1> DEFINE c == [command[p] EXCEPT !.at = at]
<1>1. CommandOK(c)
  BY DEF SettingsInv, CommandOK
<1>2. Put(p, c)
  BY DEF Goto
<1> HIDE DEF c
<1> QED BY <1>1, <1>2, PutOK

LEMMA ReadProjectInv == ASSUME SettingsInv, NEW p \in Commands, ReadProject(p) PROVE SettingsInv'
<1> DEFINE project == IF projectFile = NoFile THEN Empty ELSE projectFile
           c == [command[p] EXCEPT !.project = project, !.at = "loaded"]
<1>1. UNCHANGED <<globalFile, projectFile>>
  BY DEF ReadProject
<1>2. project \in Layers /\ CommandOK(command[p])
  BY Simple DEF SettingsInv
<1>3. CASE Valid(command[p].global, project)
  <2>1. Put(p, c)
    BY <1>3 DEF ReadProject
  <2> HIDE DEF project
  <2>2. /\ c.at = "loaded" /\ c.key = command[p].key /\ c.value = command[p].value
        /\ c.global = command[p].global /\ c.project = project /\ c.found = command[p].found
    BY <1>2 DEF CommandOK
  <2> HIDE DEF c
  <2>3. CommandOK(c)
    BY <1>2, <1>3, <2>2 DEF CommandOK
  <2> QED BY <1>1, <2>1, <2>3, PutOK DEF SettingsInv
<1>4. CASE ~Valid(command[p].global, project)
  BY <1>1, <1>4, FinishInv DEF ReadProject, SettingsInv
<1> QED BY <1>3, <1>4

LEMMA ClassifyInv == ASSUME SettingsInv, NEW p \in Commands, Classify(p) PROVE SettingsInv'
<1> DEFINE c == [command[p] EXCEPT !.at = "classified",
                                   !.used = normalizeThresholds(Config(command[p]))]
<1>1. /\ Put(p, c) /\ UNCHANGED <<globalFile, projectFile>>
      /\ command[p].at = "loaded" /\ CommandOK(command[p])
  BY DEF Classify, SettingsInv
<1>2. /\ c.at = "classified" /\ c.key = command[p].key /\ c.value = command[p].value
      /\ c.global = command[p].global /\ c.project = command[p].project
      /\ c.found = command[p].found /\ c.used = normalizeThresholds(Config(command[p]))
  BY <1>1 DEF CommandOK
<1> HIDE DEF c
<1>3. Config(c) = Config(command[p])
  BY <1>2 DEF Config
<1>4. CommandOK(c)
  BY <1>1, <1>2, <1>3 DEF CommandOK
<1> QED BY <1>1, <1>4, PutOK DEF SettingsInv

LEMMA ReadBackInv == ASSUME SettingsInv, NEW p \in Commands, ReadBack(p) PROVE SettingsInv'
<1> DEFINE c == [command[p] EXCEPT !.found = globalFile, !.at = "truncate"]
<1>1. UNCHANGED <<globalFile, projectFile>>
  BY DEF ReadBack
<1>2. CommandOK(c)
  BY DEF SettingsInv, CommandOK
<1>3. Put(p, c) \/ Finish(p)
  BY DEF ReadBack
<1> HIDE DEF c
<1> QED BY <1>1, <1>2, <1>3, PutOK, FinishInv DEF SettingsInv

LEMMA TargetInv == ASSUME SettingsInv, NEW p \in Commands, Target(p) PROVE SettingsInv'
<1>1. UNCHANGED <<globalFile, projectFile>> /\ (Finish(p) \/ Goto(p, "truncate"))
  BY DEF Target
<1> QED BY <1>1, FinishInv, GotoInv DEF SettingsInv

(* The step that fills a file leaves a layer in it.                         *)
LEMMA FillOK ==
  ASSUME SettingsInv, NEW p, NEW content \in Layers, Fill(p, content)
  PROVE  globalFile' \in Layers /\ projectFile' \in Layers \cup {NoFile}
BY DEF SettingsInv, Fill

LEMMA TruncateInv == ASSUME SettingsInv, NEW p \in Commands, Truncate(p) PROVE SettingsInv'
BY Simple, FillOK, GotoInv DEF Truncate

LEMMA WriteInv == ASSUME SettingsInv, NEW p \in Commands, Write(p) PROVE SettingsInv'
<1>1. Written(command[p]) \in Layers
  BY WrittenOK DEF SettingsInv
<1> QED BY <1>1, FillOK, FinishInv DEF Write

LEMMA InterruptInv == ASSUME SettingsInv, NEW p \in Commands, Interrupt(p) PROVE SettingsInv'
BY FinishInv DEF Interrupt, SettingsInv

LEMMA EditInv == ASSUME SettingsInv, Edit PROVE SettingsInv'
<1>1. \A s \in Settable : s[1] \in Keys /\ s[2] \in Int
  BY SettingsAssumption
<1>2. \A s \in Settable : [k \in {s[1]} |-> s[2]] \in Layers
  BY <1>1, Simple
<1>3. globalFile' \in Layers /\ projectFile' \in Layers \cup {NoFile} /\ command' = command
  <2>1. ASSUME NEW s \in Settable,
               LET one == [k \in {s[1]} |-> s[2]] IN
               \/ globalFile' = Merge(globalFile, one) /\ UNCHANGED projectFile
               \/ /\ projectFile' = IF projectFile = NoFile THEN one ELSE Merge(projectFile, one)
                  /\ UNCHANGED globalFile
        PROVE  globalFile' \in Layers /\ projectFile' \in Layers \cup {NoFile}
    <3> DEFINE one == [k \in {s[1]} |-> s[2]]
    <3>1. one \in Layers
      BY <1>2
    <3>2. \/ globalFile' = Merge(globalFile, one) /\ UNCHANGED projectFile
          \/ /\ projectFile' = IF projectFile = NoFile THEN one ELSE Merge(projectFile, one)
             /\ UNCHANGED globalFile
      BY <2>1
    <3> HIDE DEF one
    <3>3. CASE globalFile' = Merge(globalFile, one) /\ UNCHANGED projectFile
      BY <3>1, <3>3, LayersMerge DEF SettingsInv
    <3>4. CASE UNCHANGED globalFile /\ projectFile = NoFile /\ projectFile' = one
      BY <3>1, <3>4 DEF SettingsInv
    <3>5. CASE /\ UNCHANGED globalFile /\ projectFile # NoFile
               /\ projectFile' = Merge(projectFile, one)
      BY <3>1, <3>5, LayersMerge DEF SettingsInv
    <3> QED BY <3>2, <3>3, <3>4, <3>5
  <2> QED BY <2>1 DEF Edit, SettingsInv
<1> QED BY <1>3 DEF SettingsInv

LEMMA SettingsStepInv == SettingsInv /\ [SettingsNext]_settingsVars => SettingsInv'
<1> SUFFICES ASSUME SettingsInv, [SettingsNext]_settingsVars PROVE SettingsInv'
  OBVIOUS
<1>1. ASSUME NEW p \in Commands, CommandStep(p) PROVE SettingsInv'
  BY <1>1, LaunchInv, ReadGlobalInv, ReadProjectInv, ClassifyInv, ReadBackInv, TargetInv,
     TruncateInv, WriteInv, InterruptInv DEF CommandStep
<1>2. CASE UNCHANGED settingsVars
  BY <1>2 DEF settingsVars, SettingsInv
<1> QED BY <1>1, <1>2, EditInv DEF SettingsNext

(* What validation let through is in range and in order, so that clamping   *)
(* and sorting it change nothing.                                           *)
LEMMA UsedAsConfigured ==
  ASSUME NEW c, CommandOK(c), c.at = "classified"
  PROVE  /\ \A i \in 1 .. 4 : c.used[i] = Configured(c, Thresholds[i])
         /\ \A i \in 1 .. 4 : c.used[i] \in Int
         /\ \A i \in 1 .. 3 : c.used[i] <= c.used[i + 1]
<1> DEFINE v == [i \in 1 .. 4 |-> Config(c)[Thresholds[i]]]
           t == [i \in 1 .. 4 |-> Clamped(Config(c)[Thresholds[i]])]
<1>1. \A i \in 1 .. 4 : v[i] = Configured(c, Thresholds[i]) /\ v[i] \in Int
  BY ThresholdKeys, ConfigIs DEF CommandOK
<1>2. /\ \A i \in 1 .. 4 : 0 <= v[i] /\ v[i] <= 100
      /\ \A i \in 1 .. 3 : v[i] <= v[i + 1]
  <2>1. /\ \A k \in Keys : InRange(Config(c)[k])
        /\ \A i \in 1 .. 3 : Config(c)[Thresholds[i]] <= Config(c)[Thresholds[i + 1]]
    BY DEF CommandOK, Valid, Ordered, Config
  <2>2. \A i \in 1 .. 3 : i \in 1 .. 4 /\ i + 1 \in 1 .. 4
    OBVIOUS
  <2> QED BY <2>1, <2>2, ThresholdKeys DEF InRange
<1>3. t \in [1 .. 4 -> Int] /\ \A i \in 1 .. 4 : t[i] = v[i]
  <2>1. \A i \in 1 .. 4 : Clamped(v[i]) = v[i]
    BY <1>1, <1>2 DEF Clamped
  <2>2. \A i \in 1 .. 4 : t[i] = Clamped(v[i])
    OBVIOUS
  <2> QED BY <1>1, <2>1, <2>2
<1>4. c.used = Sorted(t)
  BY DEF CommandOK, normalizeThresholds
<1> HIDE DEF t, v
<1>5. \A i \in 1 .. 3 : t[i] <= t[i + 1]
  BY <1>2, <1>3
<1>6. c.used = t
  BY <1>3, <1>4, <1>5, OrderedIsSorted
<1> QED BY <1>1, <1>3, <1>5, <1>6

(* A command classifies with the thresholds its files configure, in order   *)
(* and within range, and a class starts at the score configured for it,     *)
(* whatever other commands and the user write meanwhile (loadConfig,        *)
(* normalizeThresholds, classify).                                          *)
THEOREM RoutesAsConfigured == SettingsSpec => []ThresholdsAsConfigured
<1>1. SettingsInv => ThresholdsAsConfigured
  <2> SUFFICES ASSUME SettingsInv, NEW p \in Commands, command[p].at = "classified"
               PROVE  /\ \A i \in 1 .. 4 : command[p].used[i] = Configured(command[p], Thresholds[i])
                      /\ \A s \in Scores, i \in 1 .. 3 :
                            classify(s, command[p].used) >= i
                               <=> s >= Configured(command[p], Thresholds[i])
    BY DEF ThresholdsAsConfigured
  <2> DEFINE u == command[p].used
  <2>1. /\ \A i \in 1 .. 4 : u[i] = Configured(command[p], Thresholds[i])
        /\ \A i \in 1 .. 4 : u[i] \in Int
        /\ \A i \in 1 .. 3 : u[i] <= u[i + 1]
    BY UsedAsConfigured DEF SettingsInv
  <2> HIDE DEF u
  <2>2. ASSUME NEW s \in Scores, NEW i \in 1 .. 3
        PROVE  classify(s, u) >= i <=> s >= u[i]
    <3>1. s \in Int /\ (i = 1 \/ i = 2 \/ i = 3)
      BY SettingsAssumption
    <3>2. u[1] \in Int /\ u[2] \in Int /\ u[3] \in Int /\ u[1] <= u[2] /\ u[2] <= u[3]
      BY <2>1
    <3> QED BY <3>1, <3>2 DEF classify
  <2> QED BY <2>1, <2>2 DEF u
<1>2. SettingsInit => SettingsInv
  BY SettingsInitInv
<1> QED BY <1>1, <1>2, SettingsStepInv, PTL DEF SettingsSpec

-----------------------------------------------------------------------------
(* The permissions.  A manifest that was read is normalized: the wider of   *)
(* two permissions has replaced the other.                                  *)
Normal(g) == /\ "wildcard" \in g => "scoped" \notin g
             /\ "requested" \in g => "explicit" \notin g

PermissionsInv ==
    /\ Normal(granted)
    /\ declared \in Undeclared .. Misspelt
    /\ security \in Configs
    /\ lifecycle = "asking" => consentRequired(granted, declared, security)
    /\ lifecycle = "active" => ~consentRequired(granted, declared, security)

LEMMA PointsTyped == ASSUME NEW g PROVE Points(g) \in Int
BY DEF Points, Worth

(* One more permission, unless it narrows the shell, adds to the points.    *)
LEMMA PointsGrow ==
  ASSUME NEW g, Normal(g), NEW f \in Wider
  PROVE  Points(g) <= Points(Grown(g, f))
<1> DEFINE h == Grown(g, f)
<1>1. \A x : x \notin {"scoped", "explicit"} => (x \in h <=> x \in g \/ x = f)
  BY DEF Grown
<1>2. /\ "scoped" \in h <=> /\ "scoped" \in g \/ "scoped" = f
                            /\ ~("wildcard" \in g \/ "wildcard" = f)
      /\ "explicit" \in h <=> /\ "explicit" \in g \/ "explicit" = f
                              /\ ~("requested" \in g \/ "requested" = f)
  BY DEF Grown
<1> HIDE DEF h
<1>3. /\ \A x \in {"read", "write", "paths", "hooks", "servers", "processes", "denylist",
                  "sensitive"}, n \in Nat :
           Worth(x, n, g) <= Worth(x, n, h) /\ Worth(x, n, g) \in Nat /\ Worth(x, n, h) \in Nat
      /\ Worth("allowlist", -15, g) = Worth("allowlist", -15, h)
      /\ Worth("allowlist", -15, g) \in {-15, 0}
  BY <1>1 DEF Worth, Wider
<1>4. Worth("scoped", 10, g) + Worth("wildcard", 35, g)
        <= Worth("scoped", 10, h) + Worth("wildcard", 35, h)
  BY <1>1, <1>2 DEF Worth, Normal
<1>5. Worth("explicit", 15, g) + Worth("requested", 20, g)
        <= Worth("explicit", 15, h) + Worth("requested", 20, h)
  BY <1>1, <1>2 DEF Worth, Normal
<1>6. \A p, n : /\ Worth("shell", n, p) = IF "shell" \in p THEN n ELSE 0
                /\ Worth("environment", n, p) = IF "environment" \in p THEN n ELSE 0
  BY DEF Worth
<1> DEFINE Narrowed(p) == Worth("allowlist", -15, p)
           Denied(p) == Worth("denylist", 5, p)
           Shell(p) == Worth("shell", 30 + Narrowed(p) + Denied(p), p)
           Sensitive(p) == Worth("sensitive", 10, p)
           Variables(p) == Worth("environment", 10 + Sensitive(p), p)
           Files(p) == Worth("read", 10, p) + Worth("write", 20, p) + Worth("paths", 5, p)
           Network(p) == Worth("scoped", 10, p) + Worth("wildcard", 35, p)
           Credentials(p) == Worth("explicit", 15, p) + Worth("requested", 20, p)
           Others(p) == Worth("hooks", 20, p) + Worth("servers", 10, p) + Worth("processes", 25, p)
<1>7. Shell(g) \in Int /\ Shell(h) \in Int /\ Shell(g) <= Shell(h)
  <2>1. "shell" \in g => "shell" \in h
    BY <1>1
  <2>2. Denied(g) \in Nat /\ Denied(h) \in Nat /\ Denied(g) <= Denied(h)
    BY <1>3
  <2>3. Narrowed(g) \in {-15, 0} /\ Narrowed(h) = Narrowed(g)
    BY <1>3
  <2>4. /\ Shell(g) = IF "shell" \in g THEN 30 + Narrowed(g) + Denied(g) ELSE 0
        /\ Shell(h) = IF "shell" \in h THEN 30 + Narrowed(h) + Denied(h) ELSE 0
    BY <1>6
  <2> HIDE DEF Narrowed, Denied, Shell
  <2> QED BY <2>1, <2>2, <2>3, <2>4
<1>8. Variables(g) \in Int /\ Variables(h) \in Int /\ Variables(g) <= Variables(h)
  <2>1. "environment" \in g => "environment" \in h
    BY <1>1
  <2>2. Sensitive(g) \in Nat /\ Sensitive(h) \in Nat /\ Sensitive(g) <= Sensitive(h)
    BY <1>3
  <2>3. /\ Variables(g) = IF "environment" \in g THEN 10 + Sensitive(g) ELSE 0
        /\ Variables(h) = IF "environment" \in h THEN 10 + Sensitive(h) ELSE 0
    BY <1>6
  <2> HIDE DEF Sensitive, Variables
  <2> QED BY <2>1, <2>2, <2>3
<1>9. Files(g) \in Int /\ Files(h) \in Int /\ Files(g) <= Files(h)
  <2>1. \A p : Worth("read", 10, p) \in Nat /\ Worth("write", 20, p) \in Nat /\ Worth("paths", 5, p) \in Nat
    BY DEF Worth
  <2>2. /\ Worth("read", 10, g) <= Worth("read", 10, h)
        /\ Worth("write", 20, g) <= Worth("write", 20, h)
        /\ Worth("paths", 5, g) <= Worth("paths", 5, h)
    BY <1>3
  <2> QED BY <2>1, <2>2
<1>10. Network(g) \in Int /\ Network(h) \in Int /\ Network(g) <= Network(h)
  BY <1>4 DEF Worth
<1>11. Credentials(g) \in Int /\ Credentials(h) \in Int /\ Credentials(g) <= Credentials(h)
  BY <1>5 DEF Worth
<1>12. Others(g) \in Int /\ Others(h) \in Int /\ Others(g) <= Others(h)
  <2>1. \A p : Worth("hooks", 20, p) \in Nat /\ Worth("servers", 10, p) \in Nat /\ Worth("processes", 25, p) \in Nat
    BY DEF Worth
  <2>2. /\ Worth("hooks", 20, g) <= Worth("hooks", 20, h)
        /\ Worth("servers", 10, g) <= Worth("servers", 10, h)
        /\ Worth("processes", 25, g) <= Worth("processes", 25, h)
    BY <1>3
  <2> QED BY <2>1, <2>2
<1>13. \A p : Points(p) = Files(p) + Network(p) + Shell(p) + Variables(p) + Credentials(p) + Others(p)
  <2> SUFFICES ASSUME NEW p
               PROVE  Points(p) = Files(p) + Network(p) + Shell(p) + Variables(p)
                                    + Credentials(p) + Others(p)
    OBVIOUS
  <2>1. \A f1, n1 : n1 \in Int => Worth(f1, n1, p) \in Int
    BY DEF Worth
  <2> QED BY <2>1 DEF Points
<1> HIDE DEF Files, Network, Shell, Variables, Credentials, Others
<1>14. /\ Points(g) = Files(g) + Network(g) + Shell(g) + Variables(g) + Credentials(g) + Others(g)
       /\ Points(h) = Files(h) + Network(h) + Shell(h) + Variables(h) + Credentials(h) + Others(h)
  BY <1>13
<1>15. Points(g) <= Points(h)
  BY <1>7, <1>8, <1>9, <1>10, <1>11, <1>12, <1>14
<1> QED BY <1>15 DEF h

LEMMA RequestsGrow ==
  ASSUME NEW g, NEW f
  PROVE  permissionRequestsFor(g) \subseteq permissionRequestsFor(Grown(g, f))
BY DEF permissionRequestsFor, Grown, Access

LEMMA MaxOfTwo ==
  ASSUME NEW a \in Int, NEW b \in Int
  PROVE  /\ Max({a, b}) = IF a >= b THEN a ELSE b
         /\ Min({a, b}) = IF a <= b THEN a ELSE b
BY DEF Max, Min

Floor(level) == IF level = Undeclared THEN 0 ELSE DOMAIN_LEVEL[level]

LEMMA Floors ==
  /\ \A level \in Undeclared .. 4 : Floor(level) \in 0 .. 80
  /\ \A a, b \in Undeclared .. 4 : a <= b => Floor(a) <= Floor(b)
  /\ DOMAIN_LEVEL[1] = 0 /\ DOMAIN_LEVEL[2] = 30
  /\ DOMAIN_LEVEL[3] = 55 /\ DOMAIN_LEVEL[4] = 80
BY DEF Floor, DOMAIN_LEVEL, Undeclared

(* A risk is high from 55 points on, declared ones included.                *)
LEMMA RiskyFrom55 ==
  ASSUME NEW g, NEW level \in Undeclared .. Misspelt
  PROVE  Risky(g, level) <=> level # Misspelt /\ (Points(g) >= 55 \/ Floor(level) >= 55)
<1> DEFINE s == RiskScore(g, level)
           reached == {l \in 1 .. 4 : s >= DOMAIN_LEVEL[l]}
<1>1. CASE level = Misspelt
  <2>1. s = -1
    BY <1>1 DEF RiskScore, NaN
  <2>2. reached = {}
    <3> HIDE DEF s
    <3> QED BY <2>1, Floors
  <2>3. Level(g, level) = "low"
    BY <2>2 DEF Level, RISK_LEVELS
  <2> QED BY <1>1, <2>3 DEF Risky
<1>2. CASE level # Misspelt
  <2>1. level \in Undeclared .. 4
    BY <1>2 DEF Undeclared, Misspelt
  <2>2. Points(g) \in Int /\ Floor(level) \in 0 .. 80
    BY <2>1, PointsTyped, Floors
  <2>3. s = Min({100, Max({Points(g), Floor(level)})})
    BY <1>2 DEF RiskScore, Floor
  <2>4. s \in Nat /\ (s >= 55 <=> Points(g) >= 55 \/ Floor(level) >= 55)
    <3> HIDE DEF s
    <3>1. Max({Points(g), Floor(level)}) = IF Points(g) >= Floor(level) THEN Points(g) ELSE Floor(level)
      BY <2>2, MaxOfTwo
    <3> DEFINE m == Max({Points(g), Floor(level)})
    <3>2. m \in Int
      BY <2>2, <3>1
    <3>3. s = IF 100 <= m THEN 100 ELSE m
      <4> HIDE DEF m
      <4>1. s = Min({100, m})
        BY <2>3 DEF m
      <4> QED BY <3>2, <4>1, MaxOfTwo
    <3> HIDE DEF m
    <3>4. m = IF Points(g) >= Floor(level) THEN Points(g) ELSE Floor(level)
      BY <3>1 DEF m
    <3> QED BY <2>2, <3>3, <3>4
  <2> HIDE DEF s
  <2>5. 1 \in reached /\ reached \subseteq 1 .. 4
    BY <2>4, Floors
  <2>6. s >= 55 <=> reached \cap {3, 4} # {}
    BY <2>4, Floors
  <2>7. \E x \in reached : \A y \in reached : x >= y
    <3> HIDE DEF reached
    <3> QED BY <2>5
  <2>8. Max(reached) \in reached /\ \A y \in reached : Max(reached) >= y
    <3> HIDE DEF reached
    <3> QED BY <2>7 DEF Max
  <2> DEFINE most == Max(reached)
  <2>9. most \in 1 .. 4 /\ (most \in 3 .. 4 <=> reached \cap {3, 4} # {})
    <3>1. most \in reached /\ \A y \in reached : most >= y
      BY <2>8
    <3> HIDE DEF most, reached
    <3> QED BY <2>5, <3>1
  <2>10. Level(g, level) = RISK_LEVELS[most]
    BY <2>5 DEF Level, s
  <2>11. Level(g, level) \in {"high", "critical"} <=> most \in 3 .. 4
    <3> HIDE DEF most
    <3>1. most \in {1, 2, 3, 4}
      BY <2>9
    <3> QED BY <2>10, <3>1 DEF RISK_LEVELS
  <2> QED BY <1>2, <2>4, <2>6, <2>9, <2>11 DEF Risky
<1> QED BY <1>1, <1>2

(* Where consent is required, a high risk asks whatever a low one asks.     *)
LEMMA RiskAsksMore ==
  ASSUME NEW config \in Configs, config.requireConsent, NEW k, NEW low \in BOOLEAN,
         NEW high \in BOOLEAN, low => high, resolvePolicy(k, low, config) = "ask"
  PROVE  resolvePolicy(k, high, config) = "ask"
BY DEF resolvePolicy

LEMMA ConsentGrows ==
  ASSUME NEW g, NEW h, NEW a, NEW b, NEW config \in Configs, config.requireConsent,
         permissionRequestsFor(g) \subseteq permissionRequestsFor(h),
         Risky(g, a) => Risky(h, b), consentRequired(g, a, config)
  PROVE  consentRequired(h, b, config)
<1>1. PICK k \in permissionRequestsFor(g) : resolvePolicy(k, Risky(g, a), config) = "ask"
  BY DEF consentRequired
<1>2. Risky(g, a) \in BOOLEAN /\ Risky(h, b) \in BOOLEAN
  BY DEF Risky
<1>3. resolvePolicy(k, Risky(h, b), config) = "ask"
  BY <1>1, <1>2, RiskAsksMore
<1> QED BY <1>1, <1>3 DEF consentRequired

LEMMA PermissionsInitInv == PermissionsInit => PermissionsInv
BY DEF PermissionsInit, PermissionsInv, Normal, Undeclared, Misspelt, Configs

(* Whatever a manifest says, what is left of it is normalized.              *)
LEMMA NormalizedIsNormal ==
  ASSUME NEW doc
  PROVE  Normal(normalizePermissions(doc))
BY DEF normalizePermissions, Normal

LEMMA GrownIsNormal ==
  ASSUME NEW g, NEW f
  PROVE  Normal(Grown(g, f))
BY DEF Grown, Normal

LEMMA ReadManifestInv == PermissionsInv /\ ReadManifest => PermissionsInv'
<1> SUFFICES ASSUME PermissionsInv, ReadManifest PROVE PermissionsInv'
  OBVIOUS
<1>1. PICK S, doc :
      /\ doc \in Docs(S)
      /\ IF Fatal(doc) # {}
         THEN lifecycle' = "failed" /\ UNCHANGED <<granted, declared>>
         ELSE /\ lifecycle' = "read"
              /\ granted' = normalizePermissions(doc) /\ declared' = declaredRisk(doc)
  BY Zenon DEF ReadManifest
<1>2. declaredRisk(doc) \in Undeclared .. Misspelt
  <2>1. doc.risk \in Undeclared .. Misspelt
    <3>1. \A d \in Forms(S) : "risk" \in DOMAIN d
      BY DEF Forms
    <3>2. PICK level, d : /\ level \in Undeclared .. Misspelt /\ d \in Forms(S)
                          /\ doc = [d EXCEPT !.risk = level]
      BY <1>1 DEF Docs
    <3> QED BY <3>1, <3>2
  <2> QED BY <2>1 DEF declaredRisk, Undeclared, Misspelt
<1>3. security' = security
  BY DEF ReadManifest
<1>4. Normal(granted)'
  BY <1>1, NormalizedIsNormal DEF PermissionsInv, Normal
<1> QED BY <1>1, <1>2, <1>3, <1>4 DEF PermissionsInv

LEMMA ActivateInv == PermissionsInv /\ Activate => PermissionsInv'
<1> SUFFICES ASSUME PermissionsInv, Activate PROVE PermissionsInv'
  OBVIOUS
<1>1. /\ granted' = granted /\ declared' = declared /\ security' \in Configs
      /\ lifecycle' = IF consentRequired(granted', declared', security')
                      THEN "asking" ELSE "active"
  BY DEF Activate
<1> QED BY <1>1 DEF PermissionsInv, Normal

LEMMA PermissionsStepInv ==
  PermissionsInv /\ [PermissionsNext]_permissionVars => PermissionsInv'
<1> SUFFICES ASSUME PermissionsInv, [PermissionsNext]_permissionVars PROVE PermissionsInv'
  OBVIOUS
<1>1. CASE UNCHANGED permissionVars
  BY <1>1 DEF permissionVars, PermissionsInv, Normal
<1>2. CASE Install
  BY <1>2 DEF Install, PermissionsInv, Normal
<1>3. CASE Refresh
  <2>1. /\ lifecycle = "installed" /\ UNCHANGED <<lifecycle, declared, security>>
        /\ \E f : granted' = Grown(granted, f)
    BY <1>3 DEF Refresh
  <2>2. Normal(granted)'
    BY <2>1, GrownIsNormal DEF Normal
  <2> QED BY <2>1, <2>2 DEF PermissionsInv
<1> QED
  BY <1>1, <1>2, <1>3, ReadManifestInv, ActivateInv DEF PermissionsNext

(* What an activation asks for with one permission more, or with a higher   *)
(* declared risk.                                                           *)
LEMMA AskedOfMore ==
  ASSUME PermissionsInv, security.requireConsent, lifecycle = "asking"
  PROVE  /\ \A f \in Wider : consentRequired(Grown(granted, f), declared, security)
         /\ declared # Misspelt =>
               \A level \in declared .. 4 : consentRequired(granted, level, security)
<1>1. /\ Normal(granted) /\ declared \in Undeclared .. Misspelt /\ security \in Configs
      /\ consentRequired(granted, declared, security)
  BY DEF PermissionsInv
<1>2. ASSUME NEW f \in Wider PROVE consentRequired(Grown(granted, f), declared, security)
  <2>1. Points(granted) \in Int /\ Points(Grown(granted, f)) \in Int
    BY PointsTyped
  <2>2. Points(granted) >= 55 => Points(Grown(granted, f)) >= 55
    BY <1>1, <2>1, PointsGrow
  <2>3. Risky(granted, declared) => Risky(Grown(granted, f), declared)
    BY <1>1, <2>2, RiskyFrom55
  <2> QED BY <1>1, <2>3, RequestsGrow, ConsentGrows
<1>3. ASSUME declared # Misspelt, NEW level \in declared .. 4
      PROVE  consentRequired(granted, level, security)
  <2>1. declared \in Undeclared .. 4 /\ level \in Undeclared .. 4 /\ declared <= level
        /\ level \in Undeclared .. Misspelt /\ level # Misspelt
    BY <1>1, <1>3 DEF Undeclared, Misspelt
  <2>2. Floor(declared) >= 55 => Floor(level) >= 55
    <3>1. Floor(declared) \in 0 .. 80 /\ Floor(level) \in 0 .. 80 /\ Floor(declared) <= Floor(level)
      BY <2>1, Floors
    <3> QED BY <3>1
  <2>3. Risky(granted, declared) => Risky(granted, level)
    BY <1>1, <2>1, <2>2, RiskyFrom55
  <2> QED BY <1>1, <2>3, ConsentGrows
<1> QED BY <1>2, <1>3

(* What is activated unasked.                                               *)
LEMMA UnaskedIsHarmless ==
  ASSUME PermissionsInv, security.requireConsent, lifecycle = "active", ~security.blocked
  PROVE  /\ "credentials" \notin permissionRequestsFor(granted)
         /\ Risky(granted, declared) => permissionRequestsFor(granted) \subseteq {"network"}
<1> DEFINE risky == Risky(granted, declared)
<1>1. \A k \in permissionRequestsFor(granted) : resolvePolicy(k, risky, security) # "ask"
  BY DEF PermissionsInv, consentRequired
<1>2. permissionRequestsFor(granted)
        \subseteq {"write", "network", "shell", "credentials", "processes"}
  BY DEF permissionRequestsFor
<1>3. risky \in BOOLEAN
  BY DEF Risky
<1> HIDE DEF risky
<1>4. /\ resolvePolicy("credentials", risky, security) = "ask"
      /\ risky => \A k \in {"write", "shell", "processes"} :
                     resolvePolicy(k, risky, security) = "ask"
  BY <1>3 DEF resolvePolicy
<1> QED BY <1>1, <1>2, <1>4 DEF risky

(* As long as consent is required, no manifest gets rid of the question by  *)
(* asking for more, and only what is harmless is activated unasked          *)
(* (computeRisk, resolvePolicy).                                            *)
THEOREM GrowthStaysAsked == PermissionsSpec => []GrowthKeepsConsent
<1>1. PermissionsSpec => []PermissionsInv
  BY PermissionsInitInv, PermissionsStepInv, PTL DEF PermissionsSpec
<1>2. PermissionsInv => GrowthKeepsConsent
  BY AskedOfMore, UnaskedIsHarmless DEF GrowthKeepsConsent
<1> QED BY <1>1, <1>2, PTL

-----------------------------------------------------------------------------
(* The corpus.  CorpusInv says what an indexer that runs alone has          *)
(* established at each of its steps.                                        *)
Job == [at : {"idle", "index", "sweep", "refresh", "embedded", "store", "drop", "done"},
        live : SUBSET Caps, left : SUBSET Caps, cap : SUBSET Caps, rows : SUBSET Row,
        records : [Caps -> Contents \cup {NoContent}] \cup {<<>>},
        model : Models \cup {""}, all : BOOLEAN, failed : BOOLEAN, alone : BOOLEAN]

Typed ==
    /\ registry \subseteq Caps
    /\ body \in [Caps -> Contents \cup {NoContent}]
    /\ record \in [Caps -> Contents \cup {NoContent}]
    /\ embeddings \in [Caps -> SUBSET Row]
    /\ model \in Models
    /\ job \in [Indexers -> Job]
    /\ \A p \in Indexers : job[p].at # "idle" => job[p].model \in Models
    /\ \A p \in Indexers : job[p].at \in {"refresh", "embedded", "store", "drop"} =>
         job[p].records \in [Caps -> Contents \cup {NoContent}]
    /\ \A p \in Indexers : job[p].at \in {"refresh", "embedded", "store"} =>
         \A c \in job[p].left : job[p].records[c] \in Contents

(* Nobody else works while a process that is alone does, or after it.       *)
AloneIsAlone ==
    \A p, q \in Indexers :
        (job[p].alone /\ job[p].at # "idle" /\ q # p) => job[q].at \in {"idle", "done"}

(* What process p, alone and without a failure, has established so far.     *)
FreshIn(c, m) == record[c] # NoContent => RowsOf(record[c], m) \subseteq embeddings[c]

Refreshing(p) ==
    /\ job[p].records = record
    /\ \A c \in Caps \ job[p].left : FreshIn(c, job[p].model)

Storing(p) ==
    /\ job[p].records = record
    /\ \E c \in Caps :
         /\ job[p].cap = {c}
         /\ job[p].rows \subseteq RowsOf(record[c], job[p].model)
         /\ job[p].at = "embedded" => job[p].rows = RowsOf(record[c], job[p].model)
         /\ job[p].at = "store" =>
              RowsOf(record[c], job[p].model) \ job[p].rows \subseteq embeddings[c]
         /\ \A d \in Caps \ job[p].left : d # c => FreshIn(d, job[p].model)

Dropping(p) ==
    /\ \A c \in Caps : FreshIn(c, job[p].model)
    /\ \A c \in job[p].left : record[c] = NoContent
    /\ \A c \in Caps : (embeddings[c] # {} /\ record[c] = NoContent) => c \in job[p].left

Finished(p) ==
    /\ \A c \in Caps : FreshIn(c, job[p].model)
    /\ \A c \in Caps : embeddings[c] # {} => record[c] # NoContent

Progress(p) ==
    (job[p].alone /\ job[p].all /\ ~job[p].failed) =>
        /\ job[p].at = "refresh" => Refreshing(p)
        /\ job[p].at \in {"embedded", "store"} => Storing(p)
        /\ job[p].at = "drop" => Dropping(p)
        /\ job[p].at = "done" => Finished(p)

CorpusInv == Typed /\ AloneIsAlone /\ \A p \in Indexers : Progress(p)

USE CorpusAssumption

-----------------------------------------------------------------------------
(* The rows of a text are rows of the table, one for each section.          *)
LEMMA RowsTyped ==
    ASSUME NEW t \in Contents, NEW m \in Models
    PROVE  /\ RowsOf(t, m) \subseteq Row
           /\ \A r, s \in RowsOf(t, m) : r.section = s.section => r = s
           /\ t.sections # {} => RowsOf(t, m) # {}
<1>1. t \in [hash : Nat, sections : SUBSET Sections]
  OBVIOUS
<1>2. \A r \in RowsOf(t, m) :
        \E s \in t.sections : r = [section |-> s, model |-> m, hash |-> t.hash]
  BY DEF RowsOf
<1>3. RowsOf(t, m) \subseteq Row
  BY <1>1, <1>2 DEF Row
<1>4. \A r, s \in RowsOf(t, m) : r.section = s.section => r = s
  <2> SUFFICES ASSUME NEW r \in RowsOf(t, m), NEW s \in RowsOf(t, m), r.section = s.section
               PROVE  r = s
    OBVIOUS
  <2>1. PICK a \in t.sections : r = [section |-> a, model |-> m, hash |-> t.hash]
    BY <1>2
  <2>2. PICK b \in t.sections : s = [section |-> b, model |-> m, hash |-> t.hash]
    BY <1>2
  <2>3. a = b
    BY <2>1, <2>2
  <2> QED
    BY <2>1, <2>2, <2>3
<1>5. t.sections # {} => RowsOf(t, m) # {}
  <2> SUFFICES ASSUME NEW s \in t.sections PROVE RowsOf(t, m) # {}
    OBVIOUS
  <2>1. [section |-> s, model |-> m, hash |-> t.hash] \in RowsOf(t, m)
    BY DEF RowsOf
  <2> QED
    BY <2>1
<1> QED
  BY <1>3, <1>4, <1>5

LEMMA InitOK == CorpusInit => CorpusInv
<1> SUFFICES ASSUME CorpusInit PROVE CorpusInv
  OBVIOUS
<1>1. Idle \in Job /\ Idle.at = "idle"
  BY DEF Idle, Job
<1> QED
  BY <1>1 DEF CorpusInit, CorpusInv, Typed, AloneIsAlone, Progress

LEMMA ChangeOK == CorpusInv /\ Change => CorpusInv'
BY DEF CorpusInv, Typed, AloneIsAlone, Progress, Refreshing, Storing, Dropping, Finished,
       FreshIn, RowsOf, Change

LEMMA StutterOK == CorpusInv /\ UNCHANGED corpusVars => CorpusInv'
BY DEF CorpusInv, Typed, AloneIsAlone, Progress, Refreshing, Storing, Dropping, Finished,
       FreshIn, RowsOf, corpusVars

LEMMA StartsTyped ==
  ASSUME NEW live \in SUBSET Caps, NEW left \in SUBSET Caps, NEW m \in Models,
         NEW everything \in BOOLEAN, NEW undisturbed \in BOOLEAN
  PROVE  [at |-> "index", live |-> live, left |-> left, cap |-> {}, rows |-> {},
          records |-> <<>>, model |-> m, all |-> everything, failed |-> FALSE,
          alone |-> undisturbed] \in Job
BY DEF Job

LEMMA StartOK == ASSUME CorpusInv, NEW p \in Indexers, Start(p) PROVE CorpusInv'
<1>1. PICK only \in {{}} \cup {{c} : c \in Caps} :
         job' = [q \in Indexers |->
                  IF q = p
                  THEN [Idle EXCEPT !.at = "index", !.live = registry, !.model = model,
                                    !.left = IF only = {} THEN registry ELSE registry \cap only,
                                    !.all = only = {}, !.alone = Busy = {}]
                  ELSE [job[q] EXCEPT !.alone = FALSE]]
  BY DEF Start
<1> DEFINE left == IF only = {} THEN registry ELSE registry \cap only
           everything == (only = {})
           undisturbed == (Busy = {})
<1>2. job'[p] = [at |-> "index", live |-> registry, left |-> left,
                 cap |-> {}, rows |-> {}, records |-> <<>>, model |-> model,
                 all |-> everything, failed |-> FALSE, alone |-> undisturbed]
  BY <1>1 DEF Idle
<1>3. ASSUME NEW q \in Indexers \ {p} PROVE job'[q] = [job[q] EXCEPT !.alone = FALSE]
  BY <1>1
<1>4. UNCHANGED <<registry, body, record, embeddings, model>>
  BY DEF Start
<1>5. ASSUME NEW q \in Indexers \ {p}
      PROVE  /\ job'[q] \in Job /\ ~job'[q].alone /\ job'[q].at = job[q].at
             /\ job'[q].model = job[q].model /\ job'[q].records = job[q].records
             /\ job'[q].left = job[q].left
  <2>1. job[q] \in Job
    BY DEF CorpusInv, Typed
  <2> QED
    BY <1>3, <2>1, ZenonT(30) DEF Job
<1>6. Typed'
  <2>1. registry \subseteq Caps /\ model \in Models
    BY DEF CorpusInv, Typed
  <2>2. left \subseteq Caps /\ everything \in BOOLEAN /\ undisturbed \in BOOLEAN
    BY <2>1
  <2> HIDE DEF left, everything, undisturbed
  <2>3. job'[p] \in Job
    <3>1. registry \in SUBSET Caps /\ left \in SUBSET Caps /\ model \in Models
      BY <2>1, <2>2
    <3>2. [at |-> "index", live |-> registry, left |-> left, cap |-> {}, rows |-> {},
           records |-> <<>>, model |-> model, all |-> everything, failed |-> FALSE,
           alone |-> undisturbed] \in Job
      BY <2>2, <3>1, StartsTyped
    <3> QED
      BY <1>2, <3>2
  <2>4. job' \in [Indexers -> Job]
    <3> DEFINE next(q) == IF q = p
                          THEN [Idle EXCEPT !.at = "index", !.live = registry,
                                            !.model = model,
                                            !.left = IF only = {} THEN registry
                                                     ELSE registry \cap only,
                                            !.all = only = {}, !.alone = Busy = {}]
                          ELSE [job[q] EXCEPT !.alone = FALSE]
    <3>1. job' = [q \in Indexers |-> next(q)]
      BY <1>1
    <3>2. \A q \in Indexers : job'[q] \in Job
      BY <1>5, <2>3
    <3> HIDE DEF next
    <3>3. \A q \in Indexers : next(q) \in Job
      BY <3>1, <3>2
    <3> QED
      BY <3>1, <3>3
  <2>5. /\ job'[p].at = "index" /\ job'[p].model = model
        /\ \A q \in Indexers \ {p} : job'[q].at = job[q].at /\ job'[q].model = job[q].model
                                       /\ job'[q].records = job[q].records
                                       /\ job'[q].left = job[q].left
    BY <1>2, <1>5
  <2> QED
    BY <1>4, <2>1, <2>4, <2>5 DEF CorpusInv, Typed
<1>7. AloneIsAlone'
  <2>1. undisturbed => \A q \in Indexers : job[q].at \in {"idle", "done"}
    BY DEF Busy
  <2>2. job'[p].alone = undisturbed /\ job'[p].at = "index"
    BY <1>2
  <2> HIDE DEF undisturbed
  <2> QED
    BY <1>5, <2>1, <2>2 DEF AloneIsAlone
<1>8. \A q \in Indexers : Progress(q)'
  <2>1. job'[p].at = "index"
    BY <1>2
  <2> QED
    BY <1>5, <2>1 DEF Progress
<1> QED
  BY <1>6, <1>7, <1>8 DEF CorpusInv

-----------------------------------------------------------------------------
(* A step of a process that works: it changes its own job and keeps its     *)
(* flags, so what the others rely on stays and only its own progress has to *)
(* be shown.                                                                *)
LEMMA Frame ==
    ASSUME CorpusInv, NEW p \in Indexers, p \in Busy,
           NEW j \in Job, Set(p, j), Typed', UNCHANGED <<registry, body, model>>,
           j.alone => job[p].alone,
           Progress(p)'
    PROVE  CorpusInv'
<1>1. job'[p] = j /\ \A q \in Indexers \ {p} : job'[q] = job[q]
  BY DEF Set, CorpusInv, Typed
<1>2. job[p].at \notin {"idle", "done"}
  BY DEF Busy
<1>3. \A q \in Indexers \ {p} : job[q].alone => job[q].at = "idle"
  BY <1>2 DEF CorpusInv, AloneIsAlone
<1>4. AloneIsAlone'
  BY <1>1, <1>2, <1>3 DEF CorpusInv, AloneIsAlone
<1>5. \A q \in Indexers \ {p} : Progress(q)'
  BY <1>1, <1>3 DEF Progress
<1> QED
  BY <1>4, <1>5 DEF CorpusInv

LEMMA KillOK == ASSUME CorpusInv, NEW p \in Indexers, Kill(p) PROVE CorpusInv'
<1>1. Idle \in Job /\ Idle.at = "idle" /\ ~Idle.alone
  BY DEF Idle, Job
<1>2. job' = [job EXCEPT ![p] = Idle] /\ job'[p] = Idle
  BY DEF Kill, Set, CorpusInv, Typed
<1>3. Typed'
  BY <1>1, <1>2 DEF Kill, CorpusInv, Typed
<1>4. Progress(p)'
  BY <1>1, <1>2 DEF Progress
<1> QED
  BY <1>1, <1>3, <1>4, Frame DEF Kill

(* The steps before refreshEmbeddings establish nothing yet.                *)
LEMMA IndexingOK ==
    ASSUME CorpusInv, NEW p \in Indexers, IndexOne(p) \/ Indexed(p) \/ SweepOne(p)
    PROVE  CorpusInv'
<1> USE DEF CorpusInv, Typed
<1>1. p \in Busy
  BY DEF Busy, IndexOne, Indexed, SweepOne
<1>2. job[p] \in Job
  OBVIOUS
<1>3. CASE IndexOne(p)
  <2>1. PICK c \in job[p].left : Done(p, c)
    BY <1>3 DEF IndexOne
  <2> DEFINE j == [job[p] EXCEPT !.left = @ \ {c}]
  <2>2. j \in Job /\ j.at = "index" /\ j.model = job[p].model /\ j.alone = job[p].alone
    BY <1>2, <1>3 DEF Job, IndexOne
  <2>3. Set(p, j) /\ job' = [job EXCEPT ![p] = j]
    BY <2>1 DEF Done, Set
  <2>4. record' \in [Caps -> Contents \cup {NoContent}]
    BY <1>3 DEF IndexOne
  <2>5. Typed'
    BY <1>3, <2>2, <2>3, <2>4 DEF IndexOne
  <2>6. Progress(p)'
    BY <2>2, <2>3 DEF Progress
  <2> QED
    BY <1>1, <1>3, <2>2, <2>3, <2>5, <2>6, Frame DEF IndexOne
<1>4. CASE Indexed(p)
  <2> DEFINE j == [job[p] EXCEPT !.at = "sweep",
                             !.left = {c \in Caps \ job[p].live : record[c] # NoContent}]
  <2>2. j \in Job /\ j.at = "sweep" /\ j.model = job[p].model /\ j.alone = job[p].alone
    BY <1>2 DEF Job
  <2>3. Set(p, j) /\ job' = [job EXCEPT ![p] = j]
    BY <1>4 DEF Indexed, Set
  <2>5. Typed'
    BY <1>1, <1>4, <2>2, <2>3 DEF Indexed, Busy
  <2>6. Progress(p)'
    BY <2>2, <2>3 DEF Progress
  <2> QED
    BY <1>1, <1>4, <2>2, <2>3, <2>5, <2>6, Frame DEF Indexed
<1>5. CASE SweepOne(p)
  <2>1. PICK c \in job[p].left : Done(p, c) /\ record' = [record EXCEPT ![c] = NoContent]
    BY <1>5 DEF SweepOne
  <2> DEFINE j == [job[p] EXCEPT !.left = @ \ {c}]
  <2>2. j \in Job /\ j.at = "sweep" /\ j.model = job[p].model /\ j.alone = job[p].alone
    BY <1>2, <1>5 DEF Job, SweepOne
  <2>3. Set(p, j) /\ job' = [job EXCEPT ![p] = j]
    BY <2>1 DEF Done, Set
  <2>5. Typed'
    BY <1>5, <2>1, <2>2, <2>3 DEF SweepOne
  <2>6. Progress(p)'
    BY <2>2, <2>3 DEF Progress
  <2> QED
    BY <1>1, <1>5, <2>2, <2>3, <2>5, <2>6, Frame DEF SweepOne
<1> QED
  BY <1>3, <1>4, <1>5

LEMMA RefreshStartOK ==
    ASSUME CorpusInv, NEW p \in Indexers, RefreshStart(p) PROVE CorpusInv'
<1> USE DEF CorpusInv, Typed
<1>1. p \in Busy
  BY DEF Busy, RefreshStart
<1>2. job[p] \in Job /\ job[p].at = "sweep"
  BY DEF RefreshStart
<1>3. CASE job[p].all
  <2> DEFINE j == [job[p] EXCEPT !.at = "refresh", !.records = record,
                                  !.left = {c \in Caps : record[c] # NoContent}]
  <2>2. /\ j \in Job /\ j.at = "refresh" /\ j.model = job[p].model /\ j.alone = job[p].alone
        /\ j.records = record /\ j.left = {c \in Caps : record[c] # NoContent}
    BY <1>2 DEF Job
  <2>3. Set(p, j) /\ job' = [job EXCEPT ![p] = j]
    BY <1>3 DEF RefreshStart, Set
  <2>5. Typed'
    BY <1>2, <2>2, <2>3 DEF RefreshStart
  <2>6. Progress(p)'
    BY <2>2, <2>3 DEF Progress, Refreshing, FreshIn, RefreshStart
  <2> QED
    BY <1>1, <2>2, <2>3, <2>5, <2>6, Frame DEF RefreshStart
<1>4. CASE ~job[p].all
  <2> DEFINE j == [job[p] EXCEPT !.at = "done"]
  <2>2. j \in Job /\ j.at = "done" /\ j.model = job[p].model /\ j.alone = job[p].alone /\ ~j.all
    BY <1>2, <1>4 DEF Job
  <2>3. Set(p, j) /\ job' = [job EXCEPT ![p] = j]
    BY <1>4 DEF RefreshStart, Set
  <2>5. Typed'
    BY <1>2, <2>2, <2>3 DEF RefreshStart
  <2>6. Progress(p)'
    BY <2>2, <2>3 DEF Progress
  <2> QED
    BY <1>1, <2>2, <2>3, <2>5, <2>6, Frame DEF RefreshStart
<1> QED
  BY <1>3, <1>4

-----------------------------------------------------------------------------
(* refreshEmbeddings, capability by capability.                             *)
LEMMA CheckOneOK == ASSUME CorpusInv, NEW p \in Indexers, CheckOne(p) PROVE CorpusInv'
<1> USE DEF CorpusInv, Typed
<1>1. p \in Busy
  BY DEF Busy, CheckOne
<1>2. job[p] \in Job /\ job[p].at = "refresh" /\ job[p].model \in Models
      /\ job[p].records \in [Caps -> Contents \cup {NoContent}]
      /\ \A c \in job[p].left : job[p].records[c] \in Contents
  BY DEF CheckOne
<1>3. PICK c \in job[p].left :
         LET t == job[p].records[c] IN
         IF t.sections = {} \/ Current(c, t, job[p].model) THEN Done(p, c)
         ELSE \/ Set(p, [job[p] EXCEPT !.left = @ \ {c}, !.failed = TRUE])
              \/ Set(p, [job[p] EXCEPT !.at = "embedded", !.left = @ \ {c}, !.cap = {c},
                                       !.rows = RowsOf(t, job[p].model)])
  BY DEF CheckOne
<1> DEFINE t == job[p].records[c]
<1>4. c \in Caps
  BY <1>2 DEF Job
<1>5. UNCHANGED <<registry, body, record, embeddings, model>>
  BY DEF CheckOne
<1>6. CASE (t.sections = {} \/ Current(c, t, job[p].model)) /\ Done(p, c)
  <2> DEFINE j == [job[p] EXCEPT !.left = @ \ {c}]
  <2>1. /\ j \in Job /\ j.at = "refresh" /\ j.model = job[p].model /\ j.alone = job[p].alone
        /\ j.records = job[p].records /\ j.left = job[p].left \ {c}
        /\ j.all = job[p].all /\ j.failed = job[p].failed
    BY <1>2 DEF Job
  <2>2. Set(p, j) /\ job' = [job EXCEPT ![p] = j]
    BY <1>6 DEF Done, Set
  <2>3. Typed'
    BY <1>2, <1>5, <2>1, <2>2
  <2>4. RowsOf(t, job[p].model) \subseteq embeddings[c]
    BY <1>6 DEF Current, RowsOf
  <2>5. Progress(p)'
    <3>1. job'[p] = j
      BY <2>2
    <3> HIDE DEF j
    <3>2. Refreshing(p) => Refreshing(p)'
      BY <1>5, <2>1, <2>4, <3>1 DEF Refreshing, FreshIn, RowsOf
    <3> QED
      BY <1>2, <2>1, <3>1, <3>2 DEF Progress
  <2> QED
    BY <1>1, <1>5, <2>1, <2>2, <2>3, <2>5, Frame
<1>7. CASE Set(p, [job[p] EXCEPT !.left = @ \ {c}, !.failed = TRUE])
  <2> DEFINE j == [job[p] EXCEPT !.left = @ \ {c}, !.failed = TRUE]
  <2>1. /\ j \in Job /\ j.at = "refresh" /\ j.model = job[p].model /\ j.alone = job[p].alone
        /\ j.records = job[p].records /\ j.failed
    BY <1>2 DEF Job
  <2>2. Set(p, j) /\ job' = [job EXCEPT ![p] = j]
    BY <1>7 DEF Set
  <2>3. Typed'
    BY <1>2, <1>5, <2>1, <2>2
  <2>5. Progress(p)'
    BY <2>1, <2>2 DEF Progress
  <2> QED
    BY <1>1, <1>5, <2>1, <2>2, <2>3, <2>5, Frame
<1>8. CASE /\ ~(t.sections = {} \/ Current(c, t, job[p].model))
           /\ Set(p, [job[p] EXCEPT !.at = "embedded", !.left = @ \ {c}, !.cap = {c},
                                    !.rows = RowsOf(t, job[p].model)])
  <2> DEFINE j == [job[p] EXCEPT !.at = "embedded", !.left = @ \ {c}, !.cap = {c},
                                 !.rows = RowsOf(t, job[p].model)]
  <2>0. RowsOf(t, job[p].model) \subseteq Row
    BY <1>2, RowsTyped
  <2>1. /\ j \in Job /\ j.at = "embedded" /\ j.model = job[p].model /\ j.alone = job[p].alone
        /\ j.records = job[p].records /\ j.left = job[p].left \ {c}
        /\ j.all = job[p].all /\ j.failed = job[p].failed
        /\ j.cap = {c} /\ j.rows = RowsOf(t, job[p].model)
    BY <1>2, <1>4, <2>0 DEF Job
  <2>2. Set(p, j) /\ job' = [job EXCEPT ![p] = j]
    BY <1>8 DEF Set
  <2>3. Typed'
    BY <1>2, <1>5, <2>1, <2>2
  <2>5. Progress(p)'
    <3>1. job'[p] = j
      BY <2>2
    <3> HIDE DEF j
    <3>2. Refreshing(p) => Storing(p)'
      BY <1>4, <1>5, <2>1, <3>1 DEF Refreshing, Storing, FreshIn, RowsOf
    <3> QED
      BY <1>2, <2>1, <3>1, <3>2 DEF Progress
  <2> QED
    BY <1>1, <1>5, <2>1, <2>2, <2>3, <2>5, Frame
<1> QED
  BY <1>3, <1>6, <1>7, <1>8

(* A step that stores: the rows of the one capability change.               *)
LEMMA DeleteRowsOK == ASSUME CorpusInv, NEW p \in Indexers, DeleteRows(p) PROVE CorpusInv'
<1> USE DEF CorpusInv, Typed
<1>1. p \in Busy
  BY DEF Busy, DeleteRows
<1>2. job[p] \in Job /\ job[p].at = "embedded" /\ UNCHANGED <<registry, body, record, model>>
  BY DEF DeleteRows
<1> DEFINE j == [job[p] EXCEPT !.at = "store"]
<1>3. /\ j \in Job /\ j.at = "store" /\ j.model = job[p].model /\ j.alone = job[p].alone
      /\ j.records = job[p].records /\ j.left = job[p].left /\ j.rows = job[p].rows
      /\ j.cap = job[p].cap /\ j.all = job[p].all /\ j.failed = job[p].failed
  BY <1>2 DEF Job
<1>4. Set(p, j) /\ job' = [job EXCEPT ![p] = j]
  BY DEF DeleteRows, Set
<1>5. embeddings' = [c \in Caps |-> IF c \in job[p].cap THEN {} ELSE embeddings[c]]
  BY DEF DeleteRows
<1>6. embeddings' \in [Caps -> SUBSET Row]
  BY <1>5
<1>7. Typed'
  BY <1>2, <1>3, <1>4, <1>6
<1>8. job'[p] = j
  BY <1>4
<1>9. Progress(p)'
  <2> HIDE DEF j
  <2>1. Storing(p) => Storing(p)'
    <3> SUFFICES ASSUME Storing(p) PROVE Storing(p)'
      OBVIOUS
    <3>1. PICK c \in Caps :
             /\ job[p].cap = {c}
             /\ job[p].rows = RowsOf(record[c], job[p].model)
             /\ \A d \in Caps \ job[p].left : d # c => FreshIn(d, job[p].model)
      BY <1>2 DEF Storing
    <3>2. \A d \in Caps \ {c} : embeddings'[d] = embeddings[d]
      BY <1>5, <3>1
    <3> QED
      <4>1. \A d \in Caps \ job[p].left : d # c => FreshIn(d, job[p].model)'
        BY <1>2, <1>3, <1>8, <3>1, <3>2 DEF FreshIn, RowsOf
      <4>2. RowsOf(record[c], job[p].model)' = job'[p].rows
        BY <1>2, <1>3, <1>8, <3>1 DEF RowsOf
      <4>3. job'[p].cap = {c} /\ job'[p].records = record' /\ job'[p].at = "store"
        BY <1>2, <1>3, <1>8, <3>1 DEF Storing
      <4> QED
        BY <1>3, <1>8, <4>1, <4>2, <4>3 DEF Storing
  <2> QED
    BY <1>2, <1>3, <1>8, <2>1 DEF Progress
<1> QED
  BY <1>1, <1>2, <1>3, <1>4, <1>7, <1>9, Frame

LEMMA StoreRowOK == ASSUME CorpusInv, NEW p \in Indexers, StoreRow(p) PROVE CorpusInv'
<1> USE DEF CorpusInv, Typed
<1>1. p \in Busy
  BY DEF Busy, StoreRow
<1>2. job[p] \in Job /\ job[p].at = "store" /\ UNCHANGED <<registry, body, record, model>>
  BY DEF StoreRow
<1>3. PICK r \in job[p].rows :
         /\ embeddings' = [c \in Caps |-> IF c \in job[p].cap THEN Upsert(embeddings[c], r)
                                          ELSE embeddings[c]]
         /\ Set(p, [job[p] EXCEPT !.rows = @ \ {r},
                                  !.at = IF job[p].rows = {r} THEN "refresh" ELSE "store"])
  BY DEF StoreRow
<1> DEFINE j == [job[p] EXCEPT !.rows = @ \ {r},
                               !.at = IF job[p].rows = {r} THEN "refresh" ELSE "store"]
<1>4. /\ j \in Job /\ j.at = (IF job[p].rows = {r} THEN "refresh" ELSE "store")
      /\ j.model = job[p].model /\ j.alone = job[p].alone /\ j.rows = job[p].rows \ {r}
      /\ j.records = job[p].records /\ j.left = job[p].left
      /\ j.cap = job[p].cap /\ j.all = job[p].all /\ j.failed = job[p].failed
  BY <1>2 DEF Job
<1>5. Set(p, j) /\ job' = [job EXCEPT ![p] = j] /\ job'[p] = j
  BY <1>3 DEF Set
<1>6. embeddings' \in [Caps -> SUBSET Row]
  <2>1. r \in Row
    BY <1>2 DEF Job
  <2>2. \A c \in Caps : Upsert(embeddings[c], r) \subseteq Row
    BY <2>1 DEF Upsert
  <2> QED
    BY <1>3, <2>2
<1> HIDE DEF j
<1>7. Typed'
  BY <1>2, <1>4, <1>5, <1>6
<1>8. Progress(p)'
  <2> SUFFICES ASSUME Storing(p)
               PROVE  /\ j.at = "refresh" => Refreshing(p)'
                      /\ j.at = "store" => Storing(p)'
    BY <1>2, <1>4, <1>5 DEF Progress
  <2>1. PICK c \in Caps :
           /\ job[p].cap = {c}
           /\ job[p].rows \subseteq RowsOf(record[c], job[p].model)
           /\ RowsOf(record[c], job[p].model) \ job[p].rows \subseteq embeddings[c]
           /\ \A d \in Caps \ job[p].left : d # c => FreshIn(d, job[p].model)
    BY <1>2 DEF Storing
  <2>2. \A d \in Caps \ {c} : embeddings'[d] = embeddings[d]
    BY <1>3, <2>1
  <2>3. embeddings'[c] = Upsert(embeddings[c], r)
    BY <1>3, <2>1
  <2>4. \A x \in RowsOf(record[c], job[p].model) : x.section = r.section => x = r
    BY <1>3, <2>1 DEF RowsOf
  <2>5. RowsOf(record[c], job[p].model) \ (job[p].rows \ {r}) \subseteq embeddings'[c]
    BY <2>1, <2>3, <2>4 DEF Upsert
  <2>6. \A d \in Caps \ job[p].left : d # c => FreshIn(d, job[p].model)'
    BY <1>2, <1>4, <1>5, <2>1, <2>2 DEF FreshIn, RowsOf
  <2>7. RowsOf(record[c], job[p].model)' = RowsOf(record[c], job[p].model)
    BY <1>2, <1>4, <1>5 DEF RowsOf
  <2>8. ASSUME job[p].rows = {r} PROVE FreshIn(c, job[p].model)'
    BY <2>5, <2>7, <2>8 DEF FreshIn
  <2>9. Storing(p) => job[p].records = record
    BY DEF Storing
  <2>10. CASE job[p].rows = {r}
    BY <1>2, <1>4, <1>5, <2>6, <2>8, <2>9, <2>10 DEF Refreshing
  <2>11. CASE job[p].rows # {r}
    <3>1. j.at = "store" /\ job'[p].cap = {c} /\ job'[p].rows \subseteq RowsOf(record[c], job[p].model)'
      BY <1>4, <1>5, <2>1, <2>7, <2>11
    <3> QED
      BY <1>2, <1>4, <1>5, <2>1, <2>5, <2>6, <2>7, <2>9, <3>1 DEF Storing
  <2> QED
    BY <2>10, <2>11
<1> QED
  BY <1>1, <1>2, <1>4, <1>5, <1>7, <1>8, Frame

(* The end: rows without a record go, and those that are left are fresh.    *)
LEMMA DropDeadStartOK ==
    ASSUME CorpusInv, NEW p \in Indexers, DropDeadStart(p) PROVE CorpusInv'
<1> USE DEF CorpusInv, Typed
<1>1. p \in Busy
  BY DEF Busy, DropDeadStart
<1>2. /\ job[p] \in Job /\ job[p].at = "refresh" /\ job[p].left = {}
      /\ UNCHANGED <<registry, body, record, embeddings, model>>
  BY DEF DropDeadStart
<1> DEFINE dead == {c \in Caps : embeddings[c] # {} /\ job[p].records[c] = NoContent}
           j == [job[p] EXCEPT !.at = "drop", !.left = dead]
<1>3. /\ j \in Job /\ j.at = "drop" /\ j.left = dead /\ j.model = job[p].model
      /\ j.alone = job[p].alone /\ j.records = job[p].records
      /\ j.all = job[p].all /\ j.failed = job[p].failed
  BY <1>2 DEF Job
<1>4. Set(p, j) /\ job' = [job EXCEPT ![p] = j] /\ job'[p] = j
  BY DEF DropDeadStart, Set
<1> HIDE DEF j
<1>5. Typed'
  BY <1>2, <1>3, <1>4
<1>6. Progress(p)'
  <2>1. Refreshing(p) => Dropping(p)'
    BY <1>2, <1>3, <1>4 DEF Refreshing, Dropping, FreshIn, RowsOf
  <2> QED
    BY <1>2, <1>3, <1>4, <2>1 DEF Progress
<1> QED
  BY <1>1, <1>2, <1>3, <1>4, <1>5, <1>6, Frame

LEMMA DropDeadOK == ASSUME CorpusInv, NEW p \in Indexers, DropDead(p) PROVE CorpusInv'
<1> USE DEF CorpusInv, Typed
<1>1. p \in Busy
  BY DEF Busy, DropDead
<1>2. job[p] \in Job /\ job[p].at = "drop" /\ UNCHANGED <<registry, body, record, model>>
  BY DEF DropDead
<1>3. CASE job[p].left = {}
  <2> DEFINE j == [job[p] EXCEPT !.at = "done"]
  <2>1. /\ j \in Job /\ j.at = "done" /\ j.model = job[p].model /\ j.alone = job[p].alone
        /\ j.all = job[p].all /\ j.failed = job[p].failed
    BY <1>2 DEF Job
  <2>2. Set(p, j) /\ job' = [job EXCEPT ![p] = j] /\ job'[p] = j /\ UNCHANGED embeddings
    BY <1>3 DEF DropDead, Set
  <2> HIDE DEF j
  <2>3. Typed'
    BY <1>2, <2>1, <2>2
  <2>4. Dropping(p) => Finished(p)'
    BY <1>2, <1>3, <2>1, <2>2 DEF Dropping, Finished, FreshIn, RowsOf
  <2>5. Progress(p)'
    BY <1>2, <2>1, <2>2, <2>4 DEF Progress
  <2> QED
    BY <1>1, <1>2, <2>1, <2>2, <2>3, <2>5, Frame
<1>4. CASE job[p].left # {}
  <2>1. PICK c \in job[p].left : Done(p, c) /\ embeddings' = [embeddings EXCEPT ![c] = {}]
    BY <1>4 DEF DropDead
  <2> DEFINE j == [job[p] EXCEPT !.left = @ \ {c}]
  <2>2. /\ j \in Job /\ j.at = "drop" /\ j.left = job[p].left \ {c} /\ j.model = job[p].model
        /\ j.alone = job[p].alone /\ j.records = job[p].records
        /\ j.all = job[p].all /\ j.failed = job[p].failed
    BY <1>2 DEF Job
  <2>3. Set(p, j) /\ job' = [job EXCEPT ![p] = j] /\ job'[p] = j
    BY <2>1 DEF Done, Set
  <2>4. c \in Caps
    BY <1>2 DEF Job
  <2> HIDE DEF j
  <2>5. Typed'
    BY <1>2, <2>1, <2>2, <2>3
  <2>6. embeddings'[c] = {} /\ \A d \in Caps \ {c} : embeddings'[d] = embeddings[d]
    BY <2>1, <2>4
  <2>7. Dropping(p) => Dropping(p)'
    BY <1>2, <2>2, <2>3, <2>4, <2>6 DEF Dropping, FreshIn, RowsOf
  <2>8. Progress(p)'
    BY <1>2, <2>2, <2>3, <2>7 DEF Progress
  <2> QED
    BY <1>1, <1>2, <2>2, <2>3, <2>5, <2>8, Frame
<1> QED
  BY <1>3, <1>4

-----------------------------------------------------------------------------
LEMMA NextOK == CorpusInv /\ [CorpusNext]_corpusVars => CorpusInv'
<1> SUFFICES ASSUME CorpusInv, [CorpusNext]_corpusVars PROVE CorpusInv'
  OBVIOUS
<1>1. CASE UNCHANGED corpusVars
  BY <1>1, StutterOK
<1>2. CASE Change
  BY <1>2, ChangeOK
<1>3. ASSUME NEW p \in Indexers, Start(p) \/ Kill(p) \/ IndexStep(p) PROVE CorpusInv'
  BY <1>3, StartOK, KillOK, IndexingOK, RefreshStartOK, CheckOneOK, DeleteRowsOK, StoreRowOK,
     DropDeadStartOK, DropDeadOK DEF IndexStep
<1> QED
  BY <1>1, <1>2, <1>3 DEF CorpusNext

LEMMA InvFresh == CorpusInv => EmbeddingsFresh
<1> SUFFICES ASSUME CorpusInv, NEW p \in Indexers,
                    job[p].at = "done" /\ job[p].alone /\ job[p].all /\ ~job[p].failed
             PROVE  /\ \A c \in Sparse : RowsOf(record[c], job[p].model) \subseteq embeddings[c]
                    /\ \A c \in Dense : record[c] # NoContent
                    /\ Sparse \subseteq Dense
  BY DEF EmbeddingsFresh
<1>1. Finished(p) /\ job[p].model \in Models /\ record \in [Caps -> Contents \cup {NoContent}]
  BY DEF CorpusInv, Progress, Typed
<1>2. \A c \in Sparse : RowsOf(record[c], job[p].model) \subseteq embeddings[c]
  BY <1>1 DEF Finished, FreshIn, Sparse
<1>3. \A c \in Sparse : record[c] \in Contents /\ record[c].sections # {}
  BY <1>1 DEF Sparse
<1>4. \A c \in Sparse : RowsOf(record[c], job[p].model) # {}
  BY <1>1, <1>3, RowsTyped
<1> QED
  BY <1>1, <1>2, <1>4 DEF Finished, Sparse, Dense

(* Whatever indexers did before, killed, failed or together, an `index` of   *)
(* everything that ran alone and did not fail leaves every record with the   *)
(* rows of its text, and no rows without a record.                           *)
THEOREM IndexLeavesFresh == CorpusSpec => []EmbeddingsFresh
<1>1. CorpusSpec => []CorpusInv
  BY InitOK, NextOK, PTL DEF CorpusSpec
<1> QED
  BY <1>1, InvFresh, PTL

-----------------------------------------------------------------------------
(* The adapters' directories.  The members of a finite set of numbers have  *)
(* a first, a second, ..., in their order.                                  *)
LEMMA Ranks ==
  ASSUME NEW S, S \subseteq Nat, IsFiniteSet(S)
  PROVE  /\ \A i \in S : Cardinality({j \in S : j <= i}) \in 1 .. Cardinality(S)
         /\ \A i \in S, k \in S :
              i < k => Cardinality({j \in S : j <= i}) < Cardinality({j \in S : j <= k})
         /\ \A n \in 1 .. Cardinality(S) : \E i \in S : Cardinality({j \in S : j <= i}) = n
<1> DEFINE Upto(i) == {j \in S : j <= i}
           rank == [i \in S |-> Cardinality(Upto(i))]
<1>1. /\ Cardinality(S) \in Nat
      /\ \A i \in S : IsFiniteSet(Upto(i)) /\ Cardinality(Upto(i)) \in Nat
                      /\ Cardinality(Upto(i)) <= Cardinality(S)
  BY FS_Subset, FS_CardinalityType
<1>2. ASSUME NEW i \in S PROVE Cardinality(Upto(i)) # 0
  <2>1. i \in Upto(i)
    OBVIOUS
  <2> QED BY <2>1, <1>1, FS_EmptySet
<1>3. ASSUME NEW i \in S, NEW k \in S, i < k
      PROVE  Cardinality(Upto(i)) < Cardinality(Upto(k))
  <2>1. Upto(i) \subseteq Upto(k) /\ k \in Upto(k) /\ k \notin Upto(i)
    <3>1. i \in Nat /\ k \in Nat /\ \A j \in S : j \in Nat
      OBVIOUS
    <3>2. \A j \in S : j <= i => j <= k
      BY <3>1, <1>3
    <3>3. Upto(i) \subseteq Upto(k)
      BY <3>2
    <3>4. k \in Upto(k) /\ k \notin Upto(i)
      BY <3>1, <1>3
    <3> QED BY <3>3, <3>4
  <2>2. Upto(i) # Upto(k)
    BY <2>1
  <2>3. Cardinality(Upto(i)) <= Cardinality(Upto(k)) /\ Cardinality(Upto(i)) # Cardinality(Upto(k))
    BY <2>1, <2>2, <1>1, FS_Subset
  <2> QED BY <2>3, <1>1
<1>4. rank \in [S -> 1 .. Cardinality(S)]
  BY <1>1, <1>2
<1>5. \A i, k \in S : rank[i] = rank[k] => i = k
  <2> SUFFICES ASSUME NEW i \in S, NEW k \in S, rank[i] = rank[k] PROVE i = k
    OBVIOUS
  <2>1. ~(i < k) /\ ~(k < i)
    BY <1>3, <1>1
  <2> QED BY <2>1
<1>6. rank \in Injection(S, 1 .. Cardinality(S))
  BY <1>4, <1>5 DEF Injection, IsInjective
<1>7. IsFiniteSet(1 .. Cardinality(S)) /\ Cardinality(1 .. Cardinality(S)) = Cardinality(S)
  BY <1>1, FS_Interval
<1>8. rank \in Surjection(S, 1 .. Cardinality(S))
  BY <1>6, <1>7, FS_Injection
<1> QED BY <1>1, <1>2, <1>3, <1>8 DEF Surjection

-----------------------------------------------------------------------------
Entry == (SUBSET Marks) \cup {Absent}

AdapterTyped ==
    /\ dir \in [AllDirs -> [Exposable -> Entry]]
    /\ root \in [Exposable -> Roots]
    /\ made \subseteq AllDirs

WritesTo(a) == Range(Adapter[a].write)

LEMMA Layout ==
  ASSUME NEW a \in AdapterIds
  PROVE  /\ Adapter[a].kind \in Kinds
         /\ WritesTo(a) \subseteq AllDirs /\ WritesTo(a) # {} /\ Cleaned(a) \subseteq AllDirs
         /\ Adapter[a].write \in Seq(AllDirs) /\ Adapter[a].look \in Seq(AllDirs)
         /\ Len(Adapter[a].write) \in Nat \ {0} /\ Head(Adapter[a].write) \in WritesTo(a)
         /\ \A n \in 1 .. Len(Adapter[a].write) :
              LET first == Range(SubSeq(Adapter[a].write, 1, n)) IN first # {} /\ first \subseteq WritesTo(a)
<1>1. /\ Adapter[a].kind \in Kinds
      /\ Adapter[a].write \in Seq(AllDirs) /\ Adapter[a].look \in Seq(AllDirs)
      /\ Adapter[a].clean \in Seq(AllDirs) /\ Adapter[a].write # <<>>
  BY AdapterAssumption
<1> DEFINE w == Adapter[a].write
<1>2. Len(w) \in Nat \ {0} /\ DOMAIN w = 1 .. Len(w) /\ Head(w) = w[1]
      /\ \A n \in DOMAIN w : w[n] \in AllDirs
  BY <1>1
<1>3. \A n \in DOMAIN Adapter[a].clean : Adapter[a].clean[n] \in AllDirs
  BY <1>1
<1>4. WritesTo(a) \subseteq AllDirs /\ w[1] \in WritesTo(a) /\ Cleaned(a) \subseteq AllDirs
  BY <1>2, <1>3 DEF WritesTo, Cleaned, Range
<1>5. ASSUME NEW n \in 1 .. Len(w)
      PROVE  Range(SubSeq(w, 1, n)) # {} /\ Range(SubSeq(w, 1, n)) \subseteq WritesTo(a)
  <2>1. DOMAIN SubSeq(w, 1, n) = 1 .. n /\ \A i \in 1 .. n : SubSeq(w, 1, n)[i] = w[i]
    BY <1>1, <1>2
  <2>2. 1 \in 1 .. n /\ 1 .. n \subseteq DOMAIN w
    BY <1>2
  <2> QED BY <2>1, <2>2 DEF WritesTo, Range
<1> QED BY <1>1, <1>2, <1>4, <1>5

LEMMA EntryTyped ==
  ASSUME AdapterTyped, NEW a \in AdapterIds, NEW c \in Exposable, NEW d \in AllDirs,
         Adapter[a].kind \in {"rules", "gemini"} \/ root[c] # Absent
  PROVE  EntryWritten(a, c, d) \in SUBSET Marks
<1>1. Holds(d, c) \in SUBSET Marks
  <2>1. dir[d][c] \in (SUBSET Marks) \cup {Absent}
    BY DEF AdapterTyped, Entry
  <2> QED BY <2>1 DEF Holds, Present
<1>2. root[c] # Absent => root[c] \in SUBSET Marks
  <2>1. root[c] \in (SUBSET {"SKILL.md", "skillrouter.yaml"}) \cup {Absent}
    BY DEF AdapterTyped, Roots
  <2> QED BY <2>1 DEF Marks
<1> QED
  BY <1>1, <1>2, Layout DEF EntryWritten, RulesFile, Extension, CopyOver, Marks, Kinds

(* What changes when entries of one capability change.                      *)
Rewritten(ds, c, entry) ==
    ds \subseteq AllDirs /\ (\A d \in ds : entry[d] \in Entry) /\ dir' = Entries(ds, c, entry)

Became(ds, c, entry) ==
    \A d \in AllDirs, e \in Exposable :
        dir'[d][e] = IF d \in ds /\ e = c THEN entry[d] ELSE dir[d][e]

LEMMA EntriesChange ==
  ASSUME AdapterTyped, NEW ds, NEW c \in Exposable, NEW entry, Rewritten(ds, c, entry)
  PROVE  dir' \in [AllDirs -> [Exposable -> Entry]] /\ Became(ds, c, entry)
<1> USE DEF Rewritten, Became
<1>1. \A d \in AllDirs : dir[d] \in [Exposable -> Entry]
  BY DEF AdapterTyped
<1>2. \A d \in AllDirs : dir'[d] = IF d \in ds THEN [dir[d] EXCEPT ![c] = entry[d]] ELSE dir[d]
  BY DEF Entries
<1>3. \A d \in AllDirs : dir'[d] \in [Exposable -> Entry]
  BY <1>1, <1>2
<1>4. dir' = [d \in AllDirs |-> dir'[d]]
  BY DEF Entries
<1> QED BY <1>1, <1>2, <1>3, <1>4

(* An entry where a writes is a's, and nobody else's.                       *)
LEMMA Given ==
  ASSUME AdapterTyped, Apart, NEW a \in AdapterIds, NEW c \in Exposable,
         NEW ds \in SUBSET WritesTo(a), ds # {}, NEW entry,
         \A d \in ds : entry[d] \in SUBSET Marks, dir' = Entries(ds, c, entry)
  PROVE  Exposes' = A!Exposed(a, c, Exposes)
<1>1. \A d \in AllDirs, e \in Exposable :
        dir'[d][e] = IF d \in ds /\ e = c THEN entry[d] ELSE dir[d][e]
  <2>1. Rewritten(ds, c, entry)
    BY Layout DEF Entry, Rewritten
  <2> QED BY <2>1, EntriesChange DEF Became
<1>2. \A d \in ds : entry[d] # Absent
  BY AdapterAssumption
<1>3. \A b \in AdapterIds \ {a} : WritesTo(b) \cap ds = {}
  BY DEF Apart, WritesTo
<1>4. \A b \in AdapterIds : WritesTo(b) \subseteq AllDirs
  BY Layout
<1>5. \A b \in AdapterIds : Exposes'[b] = IF b = a THEN Exposes[a] \cup {c} ELSE Exposes[b]
  BY <1>1, <1>2, <1>3, <1>4 DEF Exposes, Present, WritesTo
<1>6. Exposes' = [b \in AdapterIds |-> Exposes'[b]]
      /\ Exposes = [b \in AdapterIds |-> Exposes[b]]
  BY DEF Exposes
<1> QED BY <1>5, <1>6 DEF A!Exposed

(* Removing the entries where a writes, and none where others write.        *)
LEMMA Taken ==
  ASSUME AdapterTyped, NEW a \in AdapterIds, NEW c \in Exposable,
         NEW ds \in SUBSET AllDirs, WritesTo(a) \subseteq ds,
         \A b \in AdapterIds \ {a} : WritesTo(b) \cap ds = {},
         dir' = Entries(ds, c, [d \in AllDirs |-> Absent])
  PROVE  Exposes' = [Exposes EXCEPT ![a] = @ \ {c}]
<1>1. \A d \in AllDirs, e \in Exposable :
        dir'[d][e] = IF d \in ds /\ e = c THEN Absent ELSE dir[d][e]
  <2> DEFINE none == [d \in AllDirs |-> Absent]
  <2>1. \A d \in ds : none[d] = Absent
    OBVIOUS
  <2>2. Absent \in Entry
    BY DEF Entry
  <2>3. Rewritten(ds, c, none)
    BY <2>1, <2>2 DEF none, Rewritten
  <2> HIDE DEF none
  <2>4. Became(ds, c, none)
    BY <2>3, EntriesChange
  <2> QED BY <2>1, <2>4 DEF Became
<1>4. \A b \in AdapterIds : WritesTo(b) \subseteq AllDirs
  BY Layout
<1>5. \A b \in AdapterIds : Exposes'[b] = IF b = a THEN Exposes[a] \ {c} ELSE Exposes[b]
  BY <1>1, <1>4 DEF Exposes, Present, WritesTo
<1>6. Exposes' = [b \in AdapterIds |-> Exposes'[b]]
      /\ Exposes = [b \in AdapterIds |-> Exposes[b]]
  BY DEF Exposes
<1> QED BY <1>5, <1>6

(* What an agent was given where it looks is there to be found.             *)
LEMMA MadeGrows ==
  ASSUME made \subseteq made'
  PROVE  Detected \subseteq Detected'
BY DEF Detected, OnDisk

LEMMA GivenIsDetected ==
  ASSUME Apart, NEW a \in AdapterIds, made' = made \cup WritesTo(a)
  PROVE  a \in Detected'
<1>1. WritesTo(a) # {}
  BY Layout
<1>2. WritesTo(a) \subseteq Range(Adapter[a].look)
  BY DEF Apart, WritesTo
<1> QED BY <1>1, <1>2 DEF Detected, OnDisk

LEMMA GivenIsDiscovered ==
  ASSUME AdapterTyped, Apart, NEW a \in AdapterIds, NEW c \in Exposable,
         Adapter[a].kind = "rules" \/ root[c] # Absent,
         Adapter[a].kind = "rules" \/ "SKILL.md" \in root[c],
         dir' = Entries(WritesTo(a), c, [d \in AllDirs |-> EntryWritten(a, c, d)])
  PROVE  c \in Discovered(a)'
<1> DEFINE entry == [d \in AllDirs |-> EntryWritten(a, c, d)]
<1>1. PICK d \in WritesTo(a) : d \in AllDirs /\ d \in Range(Adapter[a].look)
  <2>1. WritesTo(a) # {} /\ WritesTo(a) \subseteq AllDirs
    BY Layout
  <2>2. WritesTo(a) \subseteq Range(Adapter[a].look)
    BY DEF Apart, WritesTo
  <2> QED BY <2>1, <2>2
<1>2. \A x \in AllDirs : entry[x] = EntryWritten(a, c, x) /\ entry[x] \in SUBSET Marks
  BY EntryTyped
<1>3. Rewritten(WritesTo(a), c, entry)
  BY <1>2, Layout DEF Rewritten, Entry
<1>4. dir'[d][c] = entry[d]
  <2> HIDE DEF entry
  <2>1. Became(WritesTo(a), c, entry)
    BY <1>3, EntriesChange
  <2> QED BY <1>1, <2>1 DEF Became
<1>5. dir'[d][c] = EntryWritten(a, c, d) /\ EntryWritten(a, c, d) # Absent
  BY <1>1, <1>2, <1>4, AdapterAssumption
<1>6. EntryWritten(a, c, d) \cap Counts(a) # {}
  BY Layout DEF EntryWritten, Counts, RulesFile, Extension, CopyOver, Kinds,
       MarkedFile, SkillDirectory, SkillOrManifest, ExtensionDirectory
<1> QED BY <1>1, <1>5, <1>6 DEF Discovered, Holds, Present, Counts
-----------------------------------------------------------------------------
(* opencode finds an entry as Agents says: the places where it looks and an *)
(* adapter writes are in the same order.                                    *)
LEMMA PlacesInOrder ==
  ASSUME Apart
  PROVE  /\ TheOpencode \in AdapterIds
         /\ \A a \in AdapterIds : Adapter[a].kind = "opencode" <=> a = TheOpencode
         /\ Cardinality(OwnedPlaces) \in Nat
         /\ \A n \in 1 .. Cardinality(OwnedPlaces) : OwnedPlace(n) \in OwnedPlaces
         /\ \A i \in OwnedPlaces : \E n \in 1 .. Cardinality(OwnedPlaces) : OwnedPlace(n) = i
         /\ \A m, n \in 1 .. Cardinality(OwnedPlaces) :
              OwnedPlace(m) <= OwnedPlace(n) => m <= n
<1> DEFINE S == OwnedPlaces
           rank(i) == Cardinality({j \in S : j <= i})
<1>1. PICK o \in AdapterIds : \A a \in AdapterIds : Adapter[a].kind = "opencode" <=> a = o
  BY DEF Apart
<1>2. TheOpencode = o
  BY <1>1 DEF TheOpencode
<1>3. S \subseteq Nat /\ IsFiniteSet(S)
  <2>1. Adapter[o].look \in Seq(AllDirs)
    BY Layout
  <2>2. Len(Adapter[o].look) \in Nat /\ DOMAIN Adapter[o].look = 1 .. Len(Adapter[o].look)
    BY <2>1
  <2>3. IsFiniteSet(1 .. Len(Adapter[o].look))
    <3>1. 1 \in Int /\ Len(Adapter[o].look) \in Int
      BY <2>2
    <3> QED BY <3>1, FS_Interval, SMTT(30)
  <2> QED BY <1>2, <2>2, <2>3, FS_Subset DEF OwnedPlaces
<1>4. Cardinality(S) \in Nat
  BY <1>3, FS_CardinalityType
<1>5. /\ \A i \in S : rank(i) \in 1 .. Cardinality(S)
      /\ \A i, k \in S : i < k => rank(i) < rank(k)
      /\ \A n \in 1 .. Cardinality(S) : \E i \in S : rank(i) = n
  BY <1>3, Ranks
<1>6. \A n \in 1 .. Cardinality(S) : OwnedPlace(n) \in S /\ rank(OwnedPlace(n)) = n
  BY <1>5 DEF OwnedPlace
<1> HIDE DEF S, rank
<1>7. \A i, k \in S : rank(i) = rank(k) => i = k
  BY <1>3, <1>5
<1>8. \A i \in S : rank(i) \in 1 .. Cardinality(S) /\ OwnedPlace(rank(i)) = i
  BY <1>5, <1>6, <1>7
<1>9. ASSUME NEW m \in 1 .. Cardinality(S), NEW n \in 1 .. Cardinality(S),
             OwnedPlace(m) <= OwnedPlace(n)
      PROVE  m <= n
  <2>1. OwnedPlace(m) \in S /\ OwnedPlace(n) \in S
        /\ rank(OwnedPlace(m)) = m /\ rank(OwnedPlace(n)) = n
    BY <1>6
  <2>2. OwnedPlace(m) \in Nat /\ OwnedPlace(n) \in Nat
    BY <1>3, <2>1
  <2>3. OwnedPlace(n) < OwnedPlace(m) => n < m
    BY <1>5, <2>1
  <2>4. OwnedPlace(m) < OwnedPlace(n) => m < n
    BY <1>5, <2>1
  <2> QED BY <1>4, <1>9, <2>1, <2>2, <2>3, <2>4
<1> USE DEF S
<1> QED BY <1>1, <1>2, <1>4, <1>6, <1>8, <1>9

LEMMA OneOwner ==
  ASSUME Apart, NEW d, Owned(d)
  PROVE  Owner(d) \in AdapterIds /\ d \in WritesTo(Owner(d))
BY DEF Owned, Owner, WritesTo

LEMMA OpencodeTakesFirst ==
  ASSUME AdapterTyped, Apart, NEW c \in Exposable, NoneApart(c), HideFirst(TheOpencode, c)
  PROVE  /\ Exposes' = A!ExposedAfterRemoval(TheOpencode, c, Exposes)
         /\ Payloads' = A!PayloadAfterRemoval(TheOpencode, c, c, Exposes, Payloads)
<1> DEFINE o == TheOpencode
           look == Adapter[o].look
           there == {i \in DOMAIN look : Present(look[i], c)}
           N == Cardinality(OwnedPlaces)
           place(n) == OwnedPlace(n)
           places == [n \in 1 .. N |-> Owner(look[OwnedPlace(n)])]
           found == {n \in 1 .. N : c \in Exposes[places[n]]}
<1>1. /\ o \in AdapterIds /\ Adapter[o].kind = "opencode" /\ N \in Nat
      /\ \A n \in 1 .. N : place(n) \in OwnedPlaces
      /\ \A i \in OwnedPlaces : \E n \in 1 .. N : place(n) = i
      /\ \A m, n \in 1 .. N : place(m) <= place(n) => m <= n
  BY PlacesInOrder
<1>2. /\ look \in Seq(AllDirs) /\ DOMAIN look \subseteq Nat
      /\ \A i \in DOMAIN look : look[i] \in AllDirs /\ look[i] \in Range(look)
  <2>1. look \in Seq(AllDirs)
    BY <1>1, Layout
  <2> QED BY <2>1 DEF Range
<1>3. there \subseteq OwnedPlaces /\ OwnedPlaces \subseteq DOMAIN look
  BY <1>2 DEF NoneApart, OwnedPlaces
<1>4. ASSUME NEW i \in OwnedPlaces
      PROVE  /\ Owner(look[i]) \in AdapterIds /\ WritesTo(Owner(look[i])) = {look[i]}
             /\ c \in Exposes[Owner(look[i])] <=> i \in there
  <2>1. Owned(look[i]) /\ i \in DOMAIN look
    BY DEF OwnedPlaces
  <2>2. Owner(look[i]) \in AdapterIds /\ look[i] \in WritesTo(Owner(look[i]))
    BY <2>1, OneOwner
  <2>3. look[i] \in Range(look)
    BY <1>2, <2>1
  <2>4. WritesTo(Owner(look[i])) = {look[i]}
    BY <2>2, <2>3 DEF Apart, WritesTo
  <2>5. c \in Exposes[Owner(look[i])] <=> Present(look[i], c)
    BY <2>2, <2>4 DEF Exposes, WritesTo
  <2> QED BY <2>1, <2>2, <2>4, <2>5
<1>5. \A n \in 1 .. N : places[n] = Owner(look[place(n)])
  OBVIOUS
<1>6. \A n \in 1 .. N : n \in found <=> place(n) \in there
  BY <1>1, <1>4, <1>5
<1>7. A!Found(c, Exposes) = found
  BY DEF A!Found
<1>8. CASE there = {}
  <2>1. found = {}
    BY <1>6, <1>8
  <2>2. root' = [root EXCEPT ![c] = Absent] /\ dir' = dir
    BY <1>8 DEF HideFirst
  <2>3. Exposes' = Exposes
    BY <2>2 DEF Exposes, Present
  <2>4. Payloads' = Payloads \ {c}
    BY <2>2 DEF Payloads, AdapterTyped
  <2> QED
    BY <1>7, <2>1, <2>3, <2>4 DEF A!ExposedAfterRemoval, A!PayloadAfterRemoval
<1>9. CASE there # {}
  <2>1. PICK i \in there : /\ \A k \in there : i <= k
                           /\ dir' = Entries({look[i]}, c, [d \in AllDirs |-> Absent])
                           /\ root' = root
    BY <1>9 DEF HideFirst
  <2>2. PICK n \in 1 .. N : place(n) = i
    BY <1>1, <1>3, <2>1
  <2>3. n \in found /\ \A k \in found : n <= k
    BY <1>1, <1>6, <2>1, <2>2
  <2>4. \A m \in found : (\A k \in found : m <= k) => m = n
    BY <2>3, <1>1
  <2>5. (CHOOSE m \in found : \A k \in found : m <= k) = n
    BY <2>3, <2>4
  <2>6. A!FirstFound(c, Exposes) = places[n]
    BY <1>7, <2>5 DEF A!FirstFound
  <2> DEFINE w == Owner(look[i])
  <2>7. w \in AdapterIds /\ WritesTo(w) = {look[i]} /\ places[n] = w
    BY <1>3, <1>4, <1>5, <2>2
  <2>8. /\ {look[i]} \subseteq AllDirs /\ WritesTo(w) \subseteq {look[i]}
        /\ \A b \in AdapterIds \ {w} : WritesTo(b) \cap {look[i]} = {}
    <3>1. \A b \in AdapterIds \ {w} : WritesTo(b) \cap WritesTo(w) = {}
      BY <2>7 DEF Apart, WritesTo
    <3>2. look[i] \in AllDirs
      BY <1>2, <1>3, <2>1
    <3> HIDE DEF w
    <3> QED BY <2>7, <3>1, <3>2
  <2> HIDE DEF w
  <2>9. Exposes' = [Exposes EXCEPT ![w] = @ \ {c}]
    BY <2>1, <2>7, <2>8, Taken
  <2>10. Payloads' = Payloads
    BY <2>1 DEF Payloads
  <2>11. A!Found(c, Exposes) # {} /\ A!FirstFound(c, Exposes) = w
    BY <1>7, <2>3, <2>6, <2>7
  <2> QED
    BY <2>9, <2>10, <2>11 DEF A!ExposedAfterRemoval, A!PayloadAfterRemoval
<1> QED BY <1>8, <1>9

-----------------------------------------------------------------------------
(* Each operation does what Agents says, and keeps the types.               *)
Exposing(a, c, ok) ==
    last' = [op |-> "expose", agent |-> a, cap |-> c, ok |-> ok] /\ root' = root

LEMMA ExposeActs ==
  ASSUME AdapterTyped, Apart, NEW a \in AdapterIds, NEW c \in Exposable, Expose(a, c)
  PROVE  AdapterTyped' /\ ActsAsAgents(a, c)
<1> DEFINE entry == [d \in AllDirs |-> EntryWritten(a, c, d)]
<1>1. /\ Adapter[a].kind = "rules" \/ root[c] # Absent
      /\ dir' = Entries(WritesTo(a), c, entry) /\ made' = made \cup WritesTo(a)
      /\ root' = root /\ last' = [op |-> "expose", agent |-> a, cap |-> c, ok |-> TRUE]
  BY DEF Expose, WritesTo
<1>2. \A d \in WritesTo(a) : entry[d] \in SUBSET Marks
  BY <1>1, EntryTyped, Layout
<1>3. c \in Discovered(a)' \/ ~(Adapter[a].kind = "rules" \/ "SKILL.md" \in root[c])
  BY <1>1, GivenIsDiscovered
<1> HIDE DEF entry
<1>4. Exposes' = A!Exposed(a, c, Exposes)
  BY <1>1, <1>2, Layout, Given
<1>5. Rewritten(WritesTo(a), c, entry)
  BY <1>1, <1>2, Layout DEF Rewritten, Entry
<1>6. AdapterTyped'
  BY <1>1, <1>5, EntriesChange, Layout DEF AdapterTyped
<1>7. a \in Detected' /\ Detected \subseteq Detected'
  BY <1>1, GivenIsDetected, MadeGrows
<1>8. A!CanExpose(a, c, Payloads)
  BY <1>1 DEF A!CanExpose, Payloads
<1> QED BY <1>1, <1>3, <1>4, <1>6, <1>7, <1>8 DEF ActsAsAgents

LEMMA ExposeNothingActs ==
  ASSUME AdapterTyped, Apart, NEW a \in AdapterIds, NEW c \in Exposable, ExposeNothing(a, c)
  PROVE  AdapterTyped' /\ ActsAsAgents(a, c)
<1> DEFINE entry == [d \in AllDirs |-> EntryWritten(a, c, d)]
<1>1. /\ Adapter[a].kind # "rules" /\ root[c] = Absent
      /\ dir' = IF Adapter[a].kind = "gemini" THEN Entries(WritesTo(a), c, entry) ELSE dir
      /\ made' = made \cup WritesTo(a)
      /\ root' = root /\ last' = [op |-> "expose", agent |-> a, cap |-> c, ok |-> FALSE]
  BY DEF ExposeNothing, WritesTo
<1>2. Adapter[a].kind = "gemini" => \A d \in WritesTo(a) : entry[d] \in SUBSET Marks
  BY EntryTyped, Layout
<1> HIDE DEF entry
<1>3. Adapter[a].kind = "gemini" => Exposes' = A!Exposed(a, c, Exposes)
  BY <1>1, <1>2, Layout, Given
<1>4. Adapter[a].kind # "gemini" => Exposes' = Exposes
  BY <1>1 DEF Exposes, Present
<1>5. Adapter[a].kind = "gemini" => Rewritten(WritesTo(a), c, entry)
  BY <1>1, <1>2, Layout DEF Rewritten, Entry
<1>6. AdapterTyped'
  BY <1>1, <1>5, EntriesChange, Layout DEF AdapterTyped
<1>7. Detected \subseteq Detected'
  BY <1>1, MadeGrows
<1>8. ~A!CanExpose(a, c, Payloads)
  BY <1>1 DEF A!CanExpose, Payloads
<1> QED BY <1>1, <1>3, <1>4, <1>6, <1>7, <1>8 DEF ActsAsAgents

LEMMA ExposePartlyActs ==
  ASSUME AdapterTyped, Apart, NEW a \in AdapterIds, NEW c \in Exposable, ExposePartly(a, c)
  PROVE  AdapterTyped' /\ ActsAsAgents(a, c)
<1>1. /\ a \in Unreliable /\ (Adapter[a].kind = "rules" \/ root[c] # Absent)
      /\ root' = root /\ last' = [op |-> "expose", agent |-> a, cap |-> c, ok |-> FALSE]
  BY DEF ExposePartly
<1>2. made \subseteq made' /\ made' \subseteq AllDirs
  <2>1. made \subseteq AllDirs /\ WritesTo(a) \subseteq AllDirs /\ Head(Adapter[a].write) \in WritesTo(a)
    BY Layout DEF AdapterTyped
  <2>2. \A n \in 1 .. Len(Adapter[a].write) - 1 :
          Range(SubSeq(Adapter[a].write, 1, n)) \subseteq WritesTo(a)
    BY Layout
  <2> QED BY <2>1, <2>2 DEF ExposePartly, WritesTo
<1>3. \/ dir' = dir
      \/ \E ds, entry : /\ ds \subseteq WritesTo(a) /\ ds # {}
                        /\ \A d \in ds : entry[d] \in SUBSET Marks
                        /\ dir' = Entries(ds, c, entry)
  <2>1. WritesTo(a) \subseteq AllDirs /\ WritesTo(a) # {}
    BY Layout
  <2>2. \A d \in AllDirs : EntryWritten(a, c, d) \in SUBSET Marks
    BY <1>1, EntryTyped
  <2>3. CASE dir' = dir
    BY <2>3
  <2>4. ASSUME NEW n \in 1 .. Len(Adapter[a].write) - 1,
               dir' = Entries(Range(SubSeq(Adapter[a].write, 1, n)), c,
                              [d \in AllDirs |-> EntryWritten(a, c, d)])
        PROVE  <1>3!2
    <3> DEFINE ds == Range(SubSeq(Adapter[a].write, 1, n))
               entry == [d \in AllDirs |-> EntryWritten(a, c, d)]
    <3>1. ds # {} /\ ds \subseteq WritesTo(a)
      BY Layout
    <3>2. \A d \in ds : entry[d] \in SUBSET Marks
      BY <2>1, <2>2, <3>1
    <3>3. dir' = Entries(ds, c, entry)
      BY <2>4
    <3> HIDE DEF ds, entry
    <3> QED BY <3>1, <3>2, <3>3
  <2>5. ASSUME Adapter[a].kind # "rules", NEW some \in SUBSET root[c],
               dir' = Entries(Range(Adapter[a].write), c,
                              [d \in AllDirs |->
                                IF Adapter[a].kind = "gemini" THEN EntryWritten(a, c, d)
                                ELSE Holds(d, c) \cup some])
        PROVE  <1>3!2
    <3> DEFINE entry == [d \in AllDirs |->
                          IF Adapter[a].kind = "gemini" THEN EntryWritten(a, c, d)
                          ELSE Holds(d, c) \cup some]
    <3>1. some \in SUBSET Marks
      <4>1. root[c] \in (SUBSET {"SKILL.md", "skillrouter.yaml"}) \cup {Absent}
        BY DEF AdapterTyped, Roots
      <4> QED BY <1>1, <2>5, <4>1 DEF Marks
    <3>2. \A d \in AllDirs : Holds(d, c) \in SUBSET Marks
      BY DEF AdapterTyped, Entry, Holds, Present
    <3>3. \A d \in WritesTo(a) : entry[d] \in SUBSET Marks
      BY <2>1, <2>2, <3>1, <3>2
    <3>4. dir' = Entries(WritesTo(a), c, entry)
      BY <2>5 DEF WritesTo
    <3> HIDE DEF entry
    <3> QED BY <2>1, <3>3, <3>4
  <2> QED BY <2>3, <2>4, <2>5 DEF ExposePartly
<1>4. AdapterTyped' /\ Exposes' \in {Exposes, A!Exposed(a, c, Exposes)}
  <2>1. CASE dir' = dir
    <3>1. Exposes' = Exposes
      BY <2>1 DEF Exposes, Present
    <3> QED BY <1>1, <1>2, <2>1, <3>1 DEF AdapterTyped
  <2>2. ASSUME NEW ds, NEW entry, ds \subseteq WritesTo(a), ds # {},
               \A d \in ds : entry[d] \in SUBSET Marks, dir' = Entries(ds, c, entry)
        PROVE  <1>4
    <3>1. Exposes' = A!Exposed(a, c, Exposes)
      BY <2>2, Given
    <3>2. Rewritten(ds, c, entry)
      BY <2>2, Layout DEF Rewritten, Entry
    <3>3. AdapterTyped'
      BY <1>1, <1>2, <3>2, EntriesChange DEF AdapterTyped
    <3> QED BY <3>1, <3>3
  <2> QED BY <1>3, <2>1, <2>2
<1>5. Detected \subseteq Detected'
  BY <1>2, MadeGrows
<1> QED BY <1>1, <1>4, <1>5 DEF ActsAsAgents

LEMMA HideActs ==
  ASSUME AdapterTyped, Apart, NEW a \in AdapterIds, NEW c \in Exposable, Hide(a, c)
  PROVE  AdapterTyped' /\ ActsAsAgents(a, c)
<1> DEFINE none == [d \in AllDirs |-> Absent]
<1>1. /\ Adapter[a].kind # "opencode" /\ root' = root /\ made' = made
      /\ dir' = Entries(Cleaned(a), c, none)
      /\ last' = [op |-> "hide", agent |-> a, cap |-> c, ok |-> TRUE]
  BY DEF Hide
<1>2. /\ Cleaned(a) \subseteq AllDirs /\ WritesTo(a) \subseteq Cleaned(a)
      /\ \A b \in AdapterIds \ {a} : WritesTo(b) \cap Cleaned(a) = {}
  <2>1. Cleaned(a) \subseteq AllDirs
    BY Layout
  <2>2. WritesTo(a) \subseteq Cleaned(a)
    BY <1>1 DEF Apart, WritesTo, Cleaned
  <2>3. \A b \in AdapterIds \ {a} : WritesTo(b) \cap Cleaned(a) = {}
    BY DEF Apart, WritesTo, Cleaned
  <2> QED BY <2>1, <2>2, <2>3
<1>3. Exposes' = [Exposes EXCEPT ![a] = @ \ {c}]
  BY <1>1, <1>2, Taken
<1>4. \A d \in Cleaned(a) : none[d] \in Entry
  BY <1>2 DEF Entry
<1> HIDE DEF none
<1>5. Rewritten(Cleaned(a), c, none)
  BY <1>1, <1>2, <1>4 DEF Rewritten
<1>6. AdapterTyped'
  BY <1>1, <1>5, EntriesChange DEF AdapterTyped
<1>7. a # TheOpencode
  BY <1>1, PlacesInOrder
<1>8. Exposes' = A!ExposedAfterRemoval(a, c, Exposes)
  BY <1>3, <1>7 DEF A!ExposedAfterRemoval
<1>9. Payloads' = A!PayloadAfterRemoval(a, c, c, Exposes, Payloads)
  BY <1>1, <1>7 DEF A!PayloadAfterRemoval, Payloads
<1>10. Detected \subseteq Detected'
  BY <1>1, MadeGrows
<1> QED BY <1>1, <1>6, <1>8, <1>9, <1>10 DEF ActsAsAgents

LEMMA HideFirstActs ==
  ASSUME AdapterTyped, Apart, NEW a \in AdapterIds, NEW c \in Exposable, HideFirst(a, c)
  PROVE  AdapterTyped' /\ ActsAsAgents(a, c)
<1> DEFINE none == [d \in AllDirs |-> Absent]
<1>1. /\ Adapter[a].kind = "opencode" /\ made' = made
      /\ \/ root' = [root EXCEPT ![c] = Absent] /\ dir' = dir
         \/ \E i \in DOMAIN Adapter[a].look : /\ dir' = Entries({Adapter[a].look[i]}, c, none)
                                              /\ root' = root
      /\ last' = [op |-> "hide", agent |-> a, cap |-> c, ok |-> TRUE]
  BY DEF HideFirst
<1>2. Adapter[a].look \in Seq(AllDirs)
  BY Layout
<1>3. \A d \in AllDirs : none[d] \in Entry
  BY DEF Entry
<1> HIDE DEF none
<1>4. ASSUME NEW i \in DOMAIN Adapter[a].look, dir' = Entries({Adapter[a].look[i]}, c, none)
      PROVE  dir' \in [AllDirs -> [Exposable -> Entry]]
  <2>1. Rewritten({Adapter[a].look[i]}, c, none)
    BY <1>2, <1>3, <1>4 DEF Rewritten
  <2> QED BY <2>1, EntriesChange
<1>5. dir' \in [AllDirs -> [Exposable -> Entry]]
  BY <1>1, <1>4 DEF AdapterTyped
<1>6. root' \in [Exposable -> Roots]
  BY <1>1 DEF AdapterTyped, Roots
<1>7. AdapterTyped'
  BY <1>1, <1>5, <1>6 DEF AdapterTyped
<1>8. a = TheOpencode
  BY <1>1, PlacesInOrder
<1>9. NoneApart(c) => /\ Exposes' = A!ExposedAfterRemoval(a, c, Exposes)
                      /\ Payloads' = A!PayloadAfterRemoval(a, c, c, Exposes, Payloads)
  BY <1>8, OpencodeTakesFirst
<1>10. Detected \subseteq Detected'
  BY <1>1, MadeGrows
<1> QED BY <1>1, <1>7, <1>9, <1>10 DEF ActsAsAgents

LEMMA OwnEntryActs ==
  ASSUME AdapterTyped, OwnEntry
  PROVE  AdapterTyped' /\ made \subseteq made'
<1>1. PICK d \in AllDirs, c \in Exposable, e \in OwnEntries :
        dir' = Entries({d}, c, [x \in {d} |-> e]) /\ made' = made \cup {d}
  BY DEF OwnEntry
<1> DEFINE entry == [x \in {d} |-> e]
<1>2. entry[d] = e /\ e \in Entry
  BY AdapterAssumption DEF Entry
<1>3. dir' = Entries({d}, c, entry)
  BY <1>1
<1> HIDE DEF entry
<1>4. Rewritten({d}, c, entry)
  BY <1>2, <1>3 DEF Rewritten
<1>5. dir' \in [AllDirs -> [Exposable -> Entry]]
  BY <1>4, EntriesChange
<1>6. made \subseteq made' /\ made' \subseteq AllDirs /\ root' = root
  BY <1>1 DEF OwnEntry, AdapterTyped
<1> QED BY <1>5, <1>6 DEF AdapterTyped

LEMMA NewRootActs ==
  ASSUME AdapterTyped, NewRoot
  PROVE  AdapterTyped' /\ made \subseteq made'
BY DEF NewRoot, AdapterTyped

LEMMA AdapterStep ==
  ASSUME AdapterTyped, Apart, [AdapterNext]_adapterVars
  PROVE  /\ AdapterTyped'
         /\ [\A a \in AdapterIds, c \in Exposable :
               (last'.agent = a /\ last'.cap = c) => ActsAsAgents(a, c)]_adapterVars
<1> DEFINE Acts == \A a \in AdapterIds, c \in Exposable :
                     (last'.agent = a /\ last'.cap = c) => ActsAsAgents(a, c)
<1>1. CASE UNCHANGED adapterVars
  BY <1>1 DEF adapterVars, AdapterTyped
<1>2. CASE OwnEntry \/ NewRoot
  <2>1. AdapterTyped' /\ Detected \subseteq Detected'
    BY <1>2, OwnEntryActs, NewRootActs, MadeGrows
  <2>3. last'.op = "none"
    BY <1>2 DEF OwnEntry, NewRoot, NoOp
  <2>2. \A a \in AdapterIds, c \in Exposable : ActsAsAgents(a, c)
    BY <2>1, <2>3 DEF ActsAsAgents
  <2> QED BY <2>1, <2>2
<1>3. ASSUME NEW a \in AdapterIds, NEW c \in Exposable,
             Expose(a, c) \/ ExposeNothing(a, c) \/ ExposePartly(a, c) \/ Hide(a, c) \/ HideFirst(a, c)
      PROVE  AdapterTyped' /\ Acts
  <2>1. AdapterTyped' /\ ActsAsAgents(a, c)
    BY <1>3, ExposeActs, ExposeNothingActs, ExposePartlyActs, HideActs, HideFirstActs
  <2>2. last'.agent = a /\ last'.cap = c
    BY <1>3 DEF Expose, ExposeNothing, ExposePartly, Hide, HideFirst
  <2> QED BY <2>1, <2>2
<1> QED BY <1>1, <1>2, <1>3 DEF AdapterNext

(* Whatever entries of the user's, of other adapters' and of failed         *)
(* installs are there, the adapters do to their directories what Agents,    *)
(* which the commands' model relies on, says of them, for any adapters that *)
(* keep apart (adapters/rules.ts, custom.ts, claude.ts, generic.ts,         *)
(* gemini.ts, opencode.ts).                                                 *)
THEOREM AdaptersActAsAgents ==
  ASSUME Apart PROVE AdapterSpec => FilesImplementAgents
<1>1. AdapterInit => AdapterTyped
  BY DEF AdapterInit, AdapterTyped, Entry
<1>2. AdapterTyped /\ [AdapterNext]_adapterVars =>
        /\ AdapterTyped'
        /\ [\A a \in AdapterIds, c \in Exposable :
              (last'.agent = a /\ last'.cap = c) => ActsAsAgents(a, c)]_adapterVars
  BY AdapterStep
<1> QED BY <1>1, <1>2, PTL DEF AdapterSpec, FilesImplementAgents

-----------------------------------------------------------------------------
(* A sum of numbers.                                                        *)
Summing(v, g) ==
    g \in [0 .. Len(v) -> Int] /\ g[0] = 0 /\ \A i \in 1 .. Len(v) : g[i] = g[i - 1] + v[i]

LEMMA TotalIs ==
  ASSUME NEW v \in Seq(Int)
  PROVE  \E g : Summing(v, g) /\ Total(v) = g[Len(v)]
<1> DEFINE N == Len(v)
           F == [t \in Int \X (1 .. N) |-> t[1] + v[t[2]]]
<1>1. N \in Nat /\ \A i \in 1 .. N : v[i] \in Int
  OBVIOUS
<1>2. F \in StepFunctions(N, Int)
  <2> HIDE DEF N
  <2> QED BY <1>1 DEF StepFunctions
<1>3. \A x \in Int, i \in 1 .. N : F[<<x, i>>] = x + v[i]
  <2> HIDE DEF N
  <2> QED OBVIOUS
<1> HIDE DEF F
<1>4. PICK g \in Recursive(N, Int, 0, F) : TRUE
  <2> DEFINE S == Int
  <2>1. F \in StepFunctions(N, S) /\ 0 \in S
    BY <1>2
  <2> HIDE DEF N, S
  <2>2. Recursive(N, S, 0, F) # {}
    BY <1>1, <2>1, RecursiveExists
  <2> QED BY <2>2 DEF S
<1>5. /\ g \in [0 .. N -> Int] /\ g[0] = 0
      /\ \A i \in 1 .. N : g[i] = g[i - 1] + v[i]
  <2>1. /\ g \in [0 .. N -> Int] /\ g[0] = 0
        /\ \A i \in 1 .. N : g[i] = F[<<g[i - 1], i>>]
    BY <1>4 DEF Recursive
  <2>2. \A i \in 1 .. N : i - 1 \in 0 .. N
    BY <1>1
  <2> HIDE DEF N
  <2> QED BY <1>3, <2>1, <2>2
<1> DEFINE Upto(h) == h = [i \in 0 .. N |-> IF i = 0 THEN 0 ELSE h[i - 1] + v[i]]
<1>6. Upto(g)
  <2>1. \A i \in 0 .. N : g[i] = IF i = 0 THEN 0 ELSE g[i - 1] + v[i]
    <3> HIDE DEF N
    <3> QED BY <1>1, <1>5
  <2> HIDE DEF N
  <2> QED BY <1>5, <2>1
<1> DEFINE h == CHOOSE x : Upto(x)
<1>7. Upto(h)
  BY <1>6
<1>8. Total(v) = h[N]
  BY DEF Total
<1> HIDE DEF h
<1>9. \A i \in 0 .. N : h[i] = IF i = 0 THEN 0 ELSE h[i - 1] + v[i]
  <2> HIDE DEF N
  <2> QED BY <1>7
<1>10. h[0] = 0 /\ \A i \in 1 .. N : h[i] = h[i - 1] + v[i]
  <2>1. N \in Nat
    BY <1>1
  <2> HIDE DEF N, Upto
  <2>2. 0 \in 0 .. N /\ \A i \in 1 .. N : i \in 0 .. N /\ i # 0
    BY <2>1
  <2> QED BY <1>9, <2>2
<1>11. \A i \in 0 .. N : h[i] \in Int
  <2>1. \A i \in 1 .. N : h[i - 1] \in Int => h[i] \in Int
    <3> TAKE i \in 1 .. N
    <3>1. v[i] \in Int /\ h[i] = h[i - 1] + v[i]
      BY <1>1, <1>10
    <3> HIDE DEF N, Upto
    <3> QED BY <3>1
  <2> DEFINE S == Int
  <2>2. h[0] \in S /\ \A i \in 1 .. N : h[i - 1] \in S => h[i] \in S
    BY <1>10, <2>1
  <2> HIDE DEF N, Upto, S
  <2>3. \A i \in 0 .. N : h[i] \in S
    BY <1>1, <2>2, RecursiveTyped
  <2> QED BY <2>3 DEF S
<1>12. h \in [0 .. N -> Int]
  <2>1. h = [i \in 0 .. N |-> h[i]]
    <3> HIDE DEF N
    <3> QED BY <1>7
  <2> HIDE DEF N, Upto
  <2> QED BY <1>11, <2>1
<1> HIDE DEF Upto
<1>13. Summing(v, h)
  BY <1>10, <1>12 DEF Summing
<1> QED BY <1>8, <1>13

(* There is one such sum.                                                   *)
LEMMA Totals ==
  ASSUME NEW v \in Seq(Int), NEW g, Summing(v, g)
  PROVE  Total(v) = g[Len(v)]
<1>1. PICK h : Summing(v, h) /\ Total(v) = h[Len(v)]
  BY TotalIs
<1> DEFINE N == Len(v)
           Good == {i \in 0 .. N : g[i] = h[i]}
<1>2. N \in Nat
  OBVIOUS
<1>3. 0 \in Good
  BY <1>1, <1>2 DEF Summing
<1>4. ASSUME NEW n \in 0 .. N - 1, n \in Good PROVE n + 1 \in Good
  <2>1. n + 1 \in 1 .. N /\ n + 1 - 1 = n /\ n + 1 \in 0 .. N
    BY <1>2
  <2>2. g[n + 1] = g[n + 1 - 1] + v[n + 1] /\ h[n + 1] = h[n + 1 - 1] + v[n + 1]
    BY <1>1, <2>1 DEF Summing
  <2> HIDE DEF N
  <2> QED BY <1>4, <2>1, <2>2
<1>5. 0 .. N \subseteq Good
  <2> HIDE DEF Good, N
  <2> QED BY <1>2, <1>3, <1>4, UpTo
<1>6. N \in Good
  <2>1. N \in 0 .. N
    BY <1>2
  <2> HIDE DEF Good, N
  <2> QED BY <1>5, <2>1
<1> QED BY <1>1, <1>6

LEMMA TotalInt == ASSUME NEW v \in Seq(Int) PROVE Total(v) \in Int
<1>1. PICK g : Summing(v, g) /\ Total(v) = g[Len(v)]
  BY TotalIs
<1>2. Len(v) \in 0 .. Len(v)
  OBVIOUS
<1> QED BY <1>1, <1>2 DEF Summing

(* One more number, and one less.                                           *)
LEMMA TotalAppend ==
  ASSUME NEW v \in Seq(Int), NEW x \in Int
  PROVE  Append(v, x) \in Seq(Int) /\ Total(Append(v, x)) = Total(v) + x
<1>1. PICK g : Summing(v, g) /\ Total(v) = g[Len(v)]
  BY TotalIs
<1> DEFINE w == Append(v, x)
           N == Len(v)
           h == [i \in 0 .. N + 1 |-> IF i = N + 1 THEN g[N] + x ELSE g[i]]
<1>2. w \in Seq(Int) /\ Len(w) = N + 1 /\ N \in Nat /\ w[N + 1] = x
      /\ \A i \in 1 .. N : w[i] = v[i]
  OBVIOUS
<1>3. g \in [0 .. N -> Int] /\ g[0] = 0 /\ \A i \in 1 .. N : g[i] = g[i - 1] + v[i]
  BY <1>1 DEF Summing
<1> HIDE DEF w, N
<1>4. h \in [0 .. N + 1 -> Int] /\ h[0] = 0
  <2>1. N \in 0 .. N /\ 0 \in 0 .. N + 1 /\ 0 # N + 1
    BY <1>2
  <2> QED BY <1>2, <1>3, <2>1
<1>5. ASSUME NEW i \in 1 .. N + 1 PROVE h[i] = h[i - 1] + w[i]
  <2>1. CASE i = N + 1
    <3>1. i - 1 = N /\ N \in 0 .. N + 1 /\ N # N + 1
      BY <1>2, <2>1
    <3> QED BY <1>2, <2>1, <3>1
  <2>2. CASE i # N + 1
    <3>1. i \in 1 .. N /\ i - 1 \in 0 .. N + 1 /\ i - 1 # N + 1
      BY <1>2, <2>2
    <3> QED BY <1>2, <1>3, <2>2, <3>1
  <2> QED BY <2>1, <2>2
<1>6. N + 1 \in 0 .. N + 1 /\ h[N + 1] = g[N] + x
  BY <1>2
<1> HIDE DEF h
<1>7. Summing(w, h)
  BY <1>2, <1>4, <1>5 DEF Summing
<1>8. Total(w) = h[Len(w)]
  BY <1>2, <1>7, Totals
<1> QED BY <1>1, <1>2, <1>6, <1>8 DEF w, N

LEMMA TotalTail ==
  ASSUME NEW v \in Seq(Int), v # <<>>
  PROVE  Tail(v) \in Seq(Int) /\ Total(v) = Total(Tail(v)) + v[1]
<1>1. PICK g : Summing(v, g) /\ Total(v) = g[Len(v)]
  BY TotalIs
<1> DEFINE w == Tail(v)
           N == Len(w)
           h == [i \in 0 .. N |-> g[i + 1] - v[1]]
<1>2. w \in Seq(Int) /\ Len(v) = N + 1 /\ N \in Nat /\ v[1] \in Int
      /\ \A i \in 1 .. N : w[i] = v[i + 1] /\ v[i + 1] \in Int
  OBVIOUS
<1>3. g \in [0 .. N + 1 -> Int] /\ g[0] = 0
      /\ \A i \in 1 .. N + 1 : g[i] = g[i - 1] + v[i]
  BY <1>1, <1>2 DEF Summing
<1> HIDE DEF w, N
<1>4. g[1] = v[1] /\ \A i \in 0 .. N : g[i + 1] \in Int
  <2>1. 1 \in 1 .. N + 1 /\ 1 - 1 = 0
    BY <1>2
  <2>2. g[1] = v[1]
    <3>1. g[1] = g[1 - 1] + v[1]
      BY <1>3, <2>1
    <3> QED BY <1>2, <1>3, <3>1
  <2>3. ASSUME NEW i \in 0 .. N PROVE g[i + 1] \in Int
    <3>1. i + 1 \in 0 .. N + 1
      BY <1>2
    <3> QED BY <1>3, <3>1
  <2> QED BY <2>2, <2>3
<1>5. h \in [0 .. N -> Int] /\ h[0] = 0
  BY <1>2, <1>4
<1>6. ASSUME NEW i \in 1 .. N PROVE h[i] = h[i - 1] + w[i]
  <2>1. i \in 0 .. N /\ i - 1 \in 0 .. N /\ i - 1 + 1 = i /\ i + 1 \in 1 .. N + 1
        /\ i + 1 - 1 = i
    BY <1>2
  <2>2. g[i + 1] = g[i] + v[i + 1]
    BY <1>3, <2>1
  <2>3. g[i] \in Int /\ g[i + 1] \in Int /\ h[i] = g[i + 1] - v[1] /\ h[i - 1] = g[i] - v[1]
    BY <1>4, <2>1
  <2> HIDE DEF h
  <2> QED BY <1>2, <2>2, <2>3
<1>7. N \in 0 .. N /\ h[N] = g[N + 1] - v[1]
  BY <1>2
<1> HIDE DEF h
<1>8. Summing(w, h)
  BY <1>5, <1>6 DEF Summing, N
<1>9. Total(w) = h[N]
  BY <1>2, <1>8, Totals DEF N
<1> QED BY <1>1, <1>2, <1>4, <1>7, <1>9 DEF w

(* A sum of smaller numbers is smaller.                                     *)
LEMMA TotalBounded ==
  ASSUME NEW v \in Seq(Int), NEW w \in Seq(Int), NEW c \in Nat, Len(v) = Len(w),
         \A i \in 1 .. Len(v) : v[i] <= c * w[i]
  PROVE  Total(v) <= c * Total(w)
<1>1. PICK g : Summing(v, g) /\ Total(v) = g[Len(v)]
  BY TotalIs
<1>2. PICK h : Summing(w, h) /\ Total(w) = h[Len(w)]
  BY TotalIs
<1> DEFINE N == Len(v)
           Good == {i \in 0 .. N : g[i] <= c * h[i]}
<1>3. N \in Nat /\ g \in [0 .. N -> Int] /\ h \in [0 .. N -> Int]
      /\ \A i \in 1 .. N : v[i] \in Int /\ w[i] \in Int
  BY <1>1, <1>2 DEF Summing
<1>4. 0 \in Good
  <2>1. g[0] = 0 /\ h[0] = 0 /\ 0 \in 0 .. N
    BY <1>1, <1>2, <1>3 DEF Summing
  <2> QED BY <2>1
<1>5. ASSUME NEW n \in 0 .. N - 1, n \in Good PROVE n + 1 \in Good
  <2>1. n + 1 \in 1 .. N /\ n + 1 - 1 = n /\ n + 1 \in 0 .. N /\ n \in 0 .. N
    BY <1>3
  <2>2. g[n + 1] = g[n] + v[n + 1] /\ h[n + 1] = h[n] + w[n + 1]
    <3>1. g[n + 1] = g[n + 1 - 1] + v[n + 1] /\ h[n + 1] = h[n + 1 - 1] + w[n + 1]
      BY <1>1, <1>2, <2>1 DEF Summing
    <3> QED BY <2>1, <3>1
  <2>3. v[n + 1] <= c * w[n + 1] /\ g[n] <= c * h[n]
    BY <1>5, <2>1
  <2>4. g[n] \in Int /\ h[n] \in Int /\ v[n + 1] \in Int /\ w[n + 1] \in Int
    BY <1>3, <2>1
  <2>5. \A a, b, x, y \in Int : (a <= c * b /\ x <= c * y) => a + x <= c * (b + y)
    OBVIOUS
  <2>6. g[n + 1] <= c * h[n + 1]
    BY <2>2, <2>3, <2>4, <2>5
  <2> QED BY <2>1, <2>6
<1>6. 0 .. N \subseteq Good
  <2> HIDE DEF Good, N
  <2> QED BY <1>3, <1>4, <1>5, UpTo
<1>7. N \in Good
  <2>1. N \in 0 .. N
    BY <1>3
  <2> HIDE DEF Good, N
  <2> QED BY <1>6, <2>1
<1> QED BY <1>1, <1>2, <1>7

(* What k does not count adds nothing: if k counts nothing, v adds up to 0. *)
LEMMA TotalNothing ==
  ASSUME NEW v \in Seq(Int), NEW k \in Seq(Int), Len(v) = Len(k), Total(k) = 0,
         \A i \in 1 .. Len(v) : k[i] \in {0, 1} /\ (k[i] = 0 => v[i] = 0)
  PROVE  Total(v) = 0
<1>1. PICK g : Summing(v, g) /\ Total(v) = g[Len(v)]
  BY TotalIs
<1>2. PICK h : Summing(k, h) /\ Total(k) = h[Len(k)]
  BY TotalIs
<1> DEFINE N == Len(v)
           Good == {i \in 0 .. N : h[i] >= 0 /\ (h[i] = 0 => g[i] = 0)}
<1>3. N \in Nat /\ g \in [0 .. N -> Int] /\ h \in [0 .. N -> Int]
      /\ \A i \in 1 .. N : v[i] \in Int
  BY <1>1, <1>2 DEF Summing
<1>4. 0 \in Good
  <2>1. g[0] = 0 /\ h[0] = 0 /\ 0 \in 0 .. N
    BY <1>1, <1>2, <1>3 DEF Summing
  <2> QED BY <2>1
<1>5. ASSUME NEW n \in 0 .. N - 1, n \in Good PROVE n + 1 \in Good
  <2>1. n + 1 \in 1 .. N /\ n + 1 - 1 = n /\ n + 1 \in 0 .. N /\ n \in 0 .. N
    BY <1>3
  <2>2. g[n + 1] = g[n] + v[n + 1] /\ h[n + 1] = h[n] + k[n + 1]
    <3>1. g[n + 1] = g[n + 1 - 1] + v[n + 1] /\ h[n + 1] = h[n + 1 - 1] + k[n + 1]
      BY <1>1, <1>2, <2>1 DEF Summing
    <3> QED BY <2>1, <3>1
  <2>3. k[n + 1] \in {0, 1} /\ (k[n + 1] = 0 => v[n + 1] = 0)
    BY <2>1
  <2>4. g[n] \in Int /\ h[n] \in Int /\ v[n + 1] \in Int
    BY <1>3, <2>1
  <2>5. h[n] >= 0 /\ (h[n] = 0 => g[n] = 0)
    BY <1>5
  <2>6. \A a, b, x, y \in Int :
          (b >= 0 /\ (b = 0 => a = 0) /\ y \in {0, 1} /\ (y = 0 => x = 0))
            => b + y >= 0 /\ (b + y = 0 => a + x = 0)
    OBVIOUS
  <2>7. h[n + 1] >= 0 /\ (h[n + 1] = 0 => g[n + 1] = 0)
    BY <2>2, <2>3, <2>4, <2>5, <2>6
  <2> QED BY <2>1, <2>7
<1>6. N \in Good
  <2>1. N \in 0 .. N
    BY <1>3
  <2> HIDE DEF Good, N
  <2> QED BY <1>3, <1>4, <1>5, <2>1, UpTo
<1> QED BY <1>1, <1>2, <1>6

LEMMA TotalOfOnes ==
  ASSUME NEW n \in Nat
  PROVE  Total([i \in 1 .. n |-> 1]) = n
<1> DEFINE v == [i \in 1 .. n |-> 1]
           g == [i \in 0 .. n |-> i]
<1>1. v \in Seq(Int) /\ Len(v) = n
  OBVIOUS
<1>2. Summing(v, g)
  BY <1>1 DEF Summing
<1> HIDE DEF v
<1>3. Total(v) = g[n]
  BY <1>1, <1>2, Totals
<1> QED BY <1>3 DEF v

-----------------------------------------------------------------------------
(* Rounding.                                                                *)
LEMMA DivIs ==
  ASSUME NEW n \in Int, NEW m \in Nat \ {0}
  PROVE  /\ n \div m \in Int
         /\ m * (n \div m) <= n /\ n < m * (n \div m + 1)
  OBVIOUS

LEMMA Times ==
  ASSUME NEW x \in Int, NEW y \in Int, NEW m \in Nat
  PROVE  /\ x <= y => x * m <= y * m
         /\ (x < y /\ m # 0) => x * m < y * m
  OBVIOUS

LEMMA RoundMonotone ==
  ASSUME NEW a \in Int, NEW b \in Nat \ {0}, NEW c \in Int, NEW d \in Nat \ {0},
         a * d <= c * b
  PROVE  /\ RoundDiv(a, b) \in Int /\ RoundDiv(c, d) \in Int
         /\ RoundDiv(a, b) <= RoundDiv(c, d)
<1> DEFINE q == (2 * a + b) \div (2 * b)
           p == (2 * c + d) \div (2 * d)
<1>1. q \in Int /\ 2 * b * q <= 2 * a + b
  <2>1. 2 * a + b \in Int /\ 2 * b \in Nat \ {0}
    OBVIOUS
  <2> QED BY <2>1, DivIs
<1>2. p \in Int /\ 2 * c + d < 2 * d * (p + 1)
  <2>1. 2 * c + d \in Int /\ 2 * d \in Nat \ {0}
    OBVIOUS
  <2> QED BY <2>1, DivIs
<1> HIDE DEF p, q
<1>3. ASSUME p + 1 <= q PROVE FALSE
  <2> DEFINE k == 2 * q - 1
  <2>1. k \in Int /\ k * b <= 2 * a
    BY <1>1
  <2>2. 2 * c < k * d
    <3>1. (p + 1) * (2 * d) <= q * (2 * d)
      BY <1>1, <1>2, <1>3, Times
    <3>2. 2 * c + d < 2 * d * q
      BY <1>1, <1>2, <3>1
    <3> QED BY <1>1, <3>2
  <2> HIDE DEF k
  <2>3. (k * b) * d <= (2 * a) * d
    <3>1. k * b \in Int /\ 2 * a \in Int
      BY <2>1
    <3> QED BY <2>1, <3>1, Times
  <2>4. (2 * c) * b < (k * d) * b
    <3>1. k * d \in Int /\ 2 * c \in Int
      BY <2>1
    <3> QED BY <2>2, <3>1, Times
  <2>5. (k * b) * d = (k * d) * b
    BY <2>1
  <2>6. (2 * a) * d = 2 * (a * d) /\ (2 * c) * b = 2 * (c * b)
    OBVIOUS
  <2>7. a * d \in Int /\ c * b \in Int /\ (k * b) * d \in Int
    BY <2>1
  <2> QED BY <2>3, <2>4, <2>5, <2>6, <2>7
<1>4. q <= p
  BY <1>1, <1>2, <1>3
<1> QED BY <1>1, <1>2, <1>4 DEF RoundDiv, p, q

LEMMA RoundOf ==
  ASSUME NEW a \in Int, NEW c \in Int, NEW b \in Nat \ {0}, a <= c
  PROVE  /\ RoundDiv(a, b) \in Int /\ RoundDiv(c, b) \in Int
         /\ RoundDiv(a, b) <= RoundDiv(c, b)
  BY Times, RoundMonotone

LEMMA BetweenMonotone ==
  ASSUME NEW lo \in Int, NEW hi \in Int, NEW x \in Int, NEW y \in Int, lo <= hi
  PROVE  /\ Between(lo, x, hi) \in lo .. hi
         /\ x <= y => Between(lo, x, hi) <= Between(lo, y, hi)
  BY DEF Between

-----------------------------------------------------------------------------
(* What an outcome adds to the counts and sums of a history.                *)
Each == [o \in Outcome |-> 1]
Succeeded == [o \in Outcome |-> IF o.success THEN 1 ELSE 0]
Passed == [o \in Outcome |-> IF o.verified = "pass" THEN 1 ELSE 0]
Verifiable == [o \in Outcome |-> IF o.verified # "none" THEN 1 ELSE 0]
Rating == [o \in Outcome |-> IF o.rating = Unknown THEN 0 ELSE o.rating]
Rated == [o \in Outcome |-> IF o.rating # Unknown THEN 1 ELSE 0]
Delay == [o \in Outcome |-> IF o.latencyMs = Unknown THEN 0 ELSE o.latencyMs]
Speed == [o \in Outcome |-> -Delay[o]]
Timed == [o \in Outcome |-> IF o.latencyMs # Unknown THEN 1 ELSE 0]

Values(s, f) == [i \in 1 .. Len(s) |-> f[s[i]]]
Sum(s, f) == Total(Values(s, f))

LEMMA FieldsTyped ==
  /\ {Each, Succeeded, Passed, Verifiable, Rating, Rated, Delay, Speed, Timed}
       \subseteq [Outcome -> Int]
  /\ \A o \in Outcome :
       /\ Each[o] = 1 /\ Succeeded[o] \in {0, 1}
       /\ Passed[o] \in {0, 1} /\ Verifiable[o] \in {0, 1} /\ Passed[o] <= Verifiable[o]
       /\ Rated[o] \in {0, 1} /\ -2 * Rated[o] <= Rating[o] /\ Rating[o] <= 2 * Rated[o]
       /\ Timed[o] \in {0, 1} /\ Speed[o] <= 0 /\ (Timed[o] = 0 => Speed[o] = 0)
<1>1. ASSUME NEW o \in Outcome
      PROVE  /\ o.rating = Unknown \/ o.rating \in -2 .. 2
             /\ o.latencyMs = Unknown \/ o.latencyMs \in Nat
  BY <1>1 DEF Outcome, Number
<1>2. ASSUME NEW o \in Outcome
      PROVE  /\ Each[o] = 1 /\ Succeeded[o] \in {0, 1}
             /\ Passed[o] \in {0, 1} /\ Verifiable[o] \in {0, 1} /\ Passed[o] <= Verifiable[o]
  BY DEF Each, Succeeded, Passed, Verifiable
<1>3. ASSUME NEW o \in Outcome
      PROVE  /\ Rating[o] \in Int
             /\ Rated[o] \in {0, 1} /\ -2 * Rated[o] <= Rating[o] /\ Rating[o] <= 2 * Rated[o]
  BY <1>1 DEF Rating, Rated
<1>4. ASSUME NEW o \in Outcome
      PROVE  /\ Delay[o] \in Int /\ Speed[o] \in Int
             /\ Timed[o] \in {0, 1} /\ Speed[o] <= 0 /\ (Timed[o] = 0 => Speed[o] = 0)
  <2>1. Delay[o] \in Nat /\ Timed[o] \in {0, 1} /\ (Timed[o] = 0 => Delay[o] = 0)
    BY <1>1 DEF Delay, Timed
  <2>2. Speed[o] = -Delay[o]
    BY DEF Speed
  <2> QED BY <2>1, <2>2
<1>5. /\ Each \in [Outcome -> Int] /\ Succeeded \in [Outcome -> Int]
      /\ Passed \in [Outcome -> Int] /\ Verifiable \in [Outcome -> Int]
      /\ Rated \in [Outcome -> Int] /\ Timed \in [Outcome -> Int]
  BY DEF Each, Succeeded, Passed, Verifiable, Rated, Timed
<1>6. Rating \in [Outcome -> Int]
  BY <1>3 DEF Rating
<1>7. Delay \in [Outcome -> Int]
  BY <1>4 DEF Delay
<1>8. Speed \in [Outcome -> Int]
  BY <1>4 DEF Speed
<1>9. {Each, Succeeded, Passed, Verifiable, Rating, Rated, Delay, Speed, Timed}
        \subseteq [Outcome -> Int]
  BY <1>5, <1>6, <1>7, <1>8
<1> QED BY <1>2, <1>3, <1>4, <1>9

LEMMA ValuesTyped ==
  ASSUME NEW s \in Seq(Outcome), NEW f \in [Outcome -> Int]
  PROVE  /\ Values(s, f) \in Seq(Int) /\ Len(Values(s, f)) = Len(s) /\ Sum(s, f) \in Int
         /\ \A i \in 1 .. Len(s) : Values(s, f)[i] = f[s[i]] /\ s[i] \in Outcome
<1>1. /\ Values(s, f) \in Seq(Int) /\ Len(Values(s, f)) = Len(s)
      /\ \A i \in 1 .. Len(s) : Values(s, f)[i] = f[s[i]] /\ s[i] \in Outcome
  <2>1. Len(s) \in Nat /\ \A i \in 1 .. Len(s) : s[i] \in Outcome
    OBVIOUS
  <2>2. \A i \in 1 .. Len(s) : f[s[i]] \in Int
    BY <2>1
  <2> QED BY <2>1, <2>2 DEF Values
<1> QED BY <1>1, TotalInt DEF Sum

LEMMA SumBounded ==
  ASSUME NEW s \in Seq(Outcome), NEW f \in [Outcome -> Int], NEW k \in [Outcome -> Int],
         NEW c \in Nat, \A o \in Outcome : f[o] <= c * k[o]
  PROVE  Sum(s, f) <= c * Sum(s, k)
<1>1. \A i \in 1 .. Len(s) : Values(s, f)[i] <= c * Values(s, k)[i]
  BY ValuesTyped
<1>2. /\ Values(s, f) \in Seq(Int) /\ Values(s, k) \in Seq(Int)
      /\ Len(Values(s, f)) = Len(s) /\ Len(Values(s, k)) = Len(s)
  BY ValuesTyped
<1> QED BY <1>1, <1>2, TotalBounded DEF Sum

LEMMA SameNumbers ==
  ASSUME NEW a \in Seq(Int), NEW b \in Seq(Int), Len(a) = Len(b),
         \A i \in 1 .. Len(a) : a[i] = b[i]
  PROVE  a = b
  OBVIOUS

LEMMA SumAppend ==
  ASSUME NEW s \in Seq(Outcome), NEW o \in Outcome, NEW f \in [Outcome -> Int]
  PROVE  Sum(Append(s, o), f) = Sum(s, f) + f[o]
<1>1. Values(Append(s, o), f) = Append(Values(s, f), f[o])
  <2> DEFINE a == Values(Append(s, o), f)
             b == Append(Values(s, f), f[o])
  <2>1. Append(s, o) \in Seq(Outcome) /\ f[o] \in Int /\ Values(s, f) \in Seq(Int)
        /\ Len(Values(s, f)) = Len(s)
    BY ValuesTyped
  <2>2. a \in Seq(Int) /\ b \in Seq(Int) /\ Len(a) = Len(s) + 1 /\ Len(b) = Len(s) + 1
        /\ Len(s) \in Nat
    <3>1. a \in Seq(Int) /\ Len(a) = Len(Append(s, o))
      BY <2>1, ValuesTyped
    <3>2. Len(Append(s, o)) = Len(s) + 1 /\ Len(s) \in Nat
      OBVIOUS
    <3>3. b \in Seq(Int) /\ Len(b) = Len(s) + 1
      BY <2>1
    <3> QED BY <3>1, <3>2, <3>3
  <2>3. ASSUME NEW i \in 1 .. Len(s) + 1 PROVE a[i] = b[i]
    <3>1. a[i] = f[Append(s, o)[i]]
      <4>1. i \in 1 .. Len(Append(s, o))
        BY <2>2
      <4> QED BY <4>1 DEF Values
    <3>2. CASE i \in 1 .. Len(s)
      <4>1. Append(s, o)[i] = s[i] /\ b[i] = Values(s, f)[i]
        BY <2>1, <3>2
      <4> QED BY <3>1, <3>2, <4>1, ValuesTyped
    <3>3. CASE i = Len(s) + 1
      <4>1. Append(s, o)[i] = o /\ b[i] = f[o]
        BY <2>1, <3>3
      <4> QED BY <3>1, <4>1
    <3>4. i \in 1 .. Len(s) \/ i = Len(s) + 1
      BY <2>2
    <3> QED BY <3>2, <3>3, <3>4
  <2> HIDE DEF a, b
  <2>4. a = b
    BY <2>2, <2>3
  <2> QED BY <2>4 DEF a, b
<1>2. f[o] \in Int /\ Values(s, f) \in Seq(Int)
  BY ValuesTyped
<1> QED BY <1>1, <1>2, TotalAppend DEF Sum

LEMMA SumTail ==
  ASSUME NEW s \in Seq(Outcome), s # <<>>, NEW f \in [Outcome -> Int]
  PROVE  /\ Tail(s) \in Seq(Outcome) /\ s[1] \in Outcome
         /\ Sum(s, f) = Sum(Tail(s), f) + f[s[1]]
<1> DEFINE v == Values(s, f)
<1>1. Tail(s) \in Seq(Outcome) /\ s[1] \in Outcome /\ Len(s) >= 1 /\ Len(Tail(s)) = Len(s) - 1
      /\ \A i \in 1 .. Len(s) - 1 : Tail(s)[i] = s[i + 1]
  OBVIOUS
<1>2. v \in Seq(Int) /\ Len(v) = Len(s) /\ \A i \in 1 .. Len(s) : v[i] = f[s[i]]
  BY ValuesTyped
<1>3. Values(Tail(s), f) = Tail(v)
  <2> DEFINE a == Values(Tail(s), f)
             b == Tail(v)
  <2> HIDE DEF v
  <2>1. a \in Seq(Int) /\ Len(a) = Len(s) - 1
    BY <1>1, ValuesTyped
  <2>2. b \in Seq(Int) /\ Len(b) = Len(s) - 1
        /\ \A i \in 1 .. Len(s) - 1 : b[i] = v[i + 1]
    BY <1>1, <1>2
  <2>3. ASSUME NEW i \in 1 .. Len(s) - 1 PROVE a[i] = b[i]
    <3>1. a[i] = f[Tail(s)[i]] /\ i + 1 \in 1 .. Len(s)
      BY <1>1 DEF Values
    <3> QED BY <1>1, <1>2, <2>2, <3>1
  <2> HIDE DEF a, b
  <2>4. \A i \in 1 .. Len(a) : a[i] = b[i]
    BY <2>1, <2>3
  <2>5. a = b
    BY <2>1, <2>2, <2>4, SameNumbers
  <2> QED BY <2>5 DEF a, b
<1>4. v # <<>> /\ v[1] = f[s[1]]
  <2> HIDE DEF v
  <2> QED BY <1>1, <1>2
<1>5. Total(v) = Total(Tail(v)) + v[1]
  <2> HIDE DEF v
  <2> QED BY <1>2, <1>4, TotalTail
<1> QED BY <1>1, <1>3, <1>4, <1>5 DEF Sum

-----------------------------------------------------------------------------
(* A history goes on: o is appended, and the oldest row may have gone.      *)
GoesOn(s, t, o) ==
    \E u \in Seq(Outcome) : t = Append(u, o) /\ (u = s \/ (s # <<>> /\ u = Tail(s)))

LEMMA CountsNat ==
  ASSUME NEW r \in Seq(Outcome), NEW k \in [Outcome -> Int], \A p \in Outcome : k[p] \in {0, 1}
  PROVE  Sum(r, k) \in Nat
<1> DEFINE no == [p \in Outcome |-> 0]
<1>1. no \in [Outcome -> Int] /\ \A p \in Outcome : no[p] <= 1 * k[p]
  <2>1. no \in [Outcome -> Int] /\ \A p \in Outcome : no[p] = 0
    OBVIOUS
  <2>2. ASSUME NEW p \in Outcome PROVE 0 <= 1 * k[p]
    <3>1. k[p] = 0 \/ k[p] = 1
      OBVIOUS
    <3> QED BY <3>1
  <2> HIDE DEF no
  <2> QED BY <2>1, <2>2
<1>2. Sum(r, no) = 0
  <2> DEFINE g == [i \in 0 .. Len(r) |-> 0]
  <2>1. /\ Values(r, no) \in Seq(Int) /\ Len(Values(r, no)) = Len(r)
        /\ \A i \in 1 .. Len(r) : Values(r, no)[i] = 0
    BY <1>1, ValuesTyped
  <2> HIDE DEF no
  <2> DEFINE v == Values(r, no)
  <2>2. Summing(v, g) /\ g[Len(v)] = 0
    BY <2>1 DEF Summing
  <2> HIDE DEF g
  <2>3. Total(v) = g[Len(v)]
    <3> HIDE DEF v
    <3>1. v \in Seq(Int)
      BY <2>1 DEF v
    <3> QED BY <2>2, <3>1, Totals
  <2> QED BY <2>2, <2>3 DEF Sum
<1> HIDE DEF no
<1>3. Sum(r, no) <= 1 * Sum(r, k)
  BY <1>1, SumBounded
<1>4. Sum(r, k) \in Int
  BY ValuesTyped
<1> QED BY <1>2, <1>3, <1>4

LEMMA Share ==
  ASSUME NEW a \in Int, NEW b \in Nat, NEW x \in Int, NEW y \in {0, 1}, NEW c \in Nat,
         a <= c * b, x <= c * y, y = 0 => x = 0
  PROVE  (a + x) * (b + 1) <= (a + c) * (b + y)
<1>1. CASE y = 0
  <2>1. a * (b + 1) = a * b + a /\ (a + c) * b = a * b + c * b
    OBVIOUS
  <2>2. a * b \in Int /\ c * b \in Int
    OBVIOUS
  <2>3. a * (b + 1) <= (a + c) * b
    BY <2>1, <2>2
  <2>4. a + x = a /\ b + y = b
    BY <1>1
  <2> QED BY <2>3, <2>4
<1>2. CASE y = 1
  <2>1. x <= c
    BY <1>2
  <2>2. (a + x) * (b + 1) <= (a + c) * (b + 1)
    <3>1. a + x \in Int /\ a + c \in Int /\ b + 1 \in Nat /\ a + x <= a + c
      BY <2>1
    <3> QED BY <3>1, Times
  <2> QED BY <1>2, <2>2
<1> QED BY <1>1, <1>2

(* The mean of what is as high as can be rises.                             *)
LEMMA MeanRises ==
  ASSUME NEW s \in Seq(Outcome), NEW t \in Seq(Outcome), NEW o \in Outcome, GoesOn(s, t, o),
         NEW f \in [Outcome -> Int], NEW k \in [Outcome -> Int], NEW c \in Nat,
         f[o] = c, k[o] = 1,
         \A p \in Outcome : k[p] \in {0, 1} /\ f[p] <= c * k[p] /\ (k[p] = 0 => f[p] = 0)
  PROVE  /\ Sum(s, k) \in Nat /\ Sum(t, k) \in Nat \ {0} /\ Sum(s, k) <= Sum(t, k)
         /\ Sum(s, f) * Sum(t, k) <= Sum(t, f) * Sum(s, k)
<1>1. PICK u \in Seq(Outcome) : t = Append(u, o) /\ (u = s \/ (s # <<>> /\ u = Tail(s)))
  BY DEF GoesOn
<1>2. Sum(t, f) = Sum(u, f) + c /\ Sum(t, k) = Sum(u, k) + 1
  BY <1>1, SumAppend
<1>3. \A r \in Seq(Outcome) : Sum(r, f) \in Int /\ Sum(r, f) <= c * Sum(r, k)
  BY ValuesTyped, SumBounded
<1>4. \A r \in Seq(Outcome) : Sum(r, k) \in Nat
  BY CountsNat
<1>5. PICK x \in Int, y \in {0, 1} :
        /\ x <= c * y /\ (y = 0 => x = 0)
        /\ Sum(s, f) = Sum(u, f) + x /\ Sum(s, k) = Sum(u, k) + y
  <2>1. CASE u = s
    <3>1. Sum(s, f) \in Int /\ Sum(s, k) \in Nat
      BY <1>3, <1>4
    <3>2. Sum(s, f) = Sum(u, f) + 0 /\ Sum(s, k) = Sum(u, k) + 0 /\ 0 <= c * 0
      BY <2>1, <3>1
    <3> QED BY <3>2
  <2>2. CASE s # <<>> /\ u = Tail(s)
    <3>1. /\ s[1] \in Outcome /\ Sum(s, f) = Sum(u, f) + f[s[1]]
          /\ Sum(s, k) = Sum(u, k) + k[s[1]]
      BY <2>2, SumTail
    <3>2. f[s[1]] \in Int
      BY <3>1
    <3> QED BY <3>1, <3>2
  <2> QED BY <1>1, <2>1, <2>2
<1> DEFINE a == Sum(u, f)
           b == Sum(u, k)
<1>6. a \in Int /\ b \in Nat /\ a <= c * b
  BY <1>3, <1>4
<1>7. (a + x) * (b + 1) <= (a + c) * (b + y)
  <2> HIDE DEF a, b
  <2> QED BY <1>5, <1>6, Share
<1>8. Sum(s, k) \in Nat /\ Sum(t, k) \in Nat \ {0} /\ Sum(s, k) <= Sum(t, k)
  <2>1. Sum(s, k) = b + y /\ Sum(t, k) = b + 1
    BY <1>2, <1>5
  <2>2. b \in Nat /\ (y = 0 \/ y = 1)
    BY <1>6
  <2> HIDE DEF b
  <2> QED BY <2>1, <2>2
<1> QED BY <1>2, <1>5, <1>7, <1>8

LEMMA SumOfOpposite ==
  ASSUME NEW s \in Seq(Outcome), NEW f \in [Outcome -> Int], NEW g \in [Outcome -> Int],
         \A o \in Outcome : g[o] = -f[o]
  PROVE  Sum(s, g) = -Sum(s, f)
<1> DEFINE v == Values(s, f)
           w == Values(s, g)
<1>1. /\ v \in Seq(Int) /\ w \in Seq(Int) /\ Len(v) = Len(s) /\ Len(w) = Len(s)
      /\ \A i \in 1 .. Len(s) : w[i] = -v[i] /\ v[i] \in Int
  <2>1. \A i \in 1 .. Len(s) : v[i] = f[s[i]] /\ w[i] = g[s[i]] /\ s[i] \in Outcome
    BY ValuesTyped
  <2>2. v \in Seq(Int) /\ w \in Seq(Int) /\ Len(v) = Len(s) /\ Len(w) = Len(s)
    BY ValuesTyped
  <2> HIDE DEF v, w
  <2> QED BY <2>1, <2>2
<1> HIDE DEF v, w
<1>2. PICK h : Summing(v, h) /\ Total(v) = h[Len(v)]
  BY <1>1, TotalIs
<1> DEFINE N == Len(s)
           m == [i \in 0 .. N |-> -h[i]]
<1>3. /\ N \in Nat /\ h \in [0 .. N -> Int] /\ h[0] = 0
      /\ \A i \in 1 .. N : h[i] = h[i - 1] + v[i]
  BY <1>1, <1>2 DEF Summing
<1>4. m \in [0 .. N -> Int] /\ m[0] = 0 /\ m[N] = -h[N]
  <2> HIDE DEF N
  <2>1. 0 \in 0 .. N /\ N \in 0 .. N
    BY <1>3
  <2> QED BY <1>3, <2>1
<1>5. ASSUME NEW i \in 1 .. N PROVE m[i] = m[i - 1] + w[i]
  <2>1. i \in 0 .. N /\ i - 1 \in 0 .. N
    BY <1>3
  <2>2. m[i] = -h[i] /\ m[i - 1] = -h[i - 1] /\ h[i] = h[i - 1] + v[i]
    BY <1>3, <2>1
  <2>3. h[i] \in Int /\ h[i - 1] \in Int /\ v[i] \in Int /\ w[i] = -v[i]
    BY <1>1, <1>3, <2>1
  <2> HIDE DEF m
  <2> QED BY <2>2, <2>3
<1> HIDE DEF m
<1>6. Summing(w, m)
  BY <1>1, <1>4, <1>5 DEF Summing
<1>7. Total(w) = m[Len(w)]
  BY <1>1, <1>6, Totals
<1> QED BY <1>1, <1>2, <1>4, <1>7 DEF Sum, v, w

(* What a summary is made of.                                               *)
LEMMA SummaryIs ==
  ASSUME NEW s \in Seq(Outcome)
  PROVE  /\ Summary(s).usage = Sum(s, Each) /\ Summary(s).successes = Sum(s, Succeeded)
         /\ Summary(s).verified = Sum(s, Passed) /\ Summary(s).verifiable = Sum(s, Verifiable)
         /\ Summary(s).avgRating = Mean(100, Sum(s, Rating), Sum(s, Rated))
         /\ Summary(s).avgLatency = Mean(10, Sum(s, Delay), Sum(s, Timed))
<1>1. Len(s) \in Nat /\ \A i \in 1 .. Len(s) : s[i] \in Outcome
  OBVIOUS
<1>2. Values(s, Each) = [i \in 1 .. Len(s) |-> 1]
  BY <1>1 DEF Values, Each
<1>3. Values(s, Succeeded) = [i \in 1 .. Len(s) |-> IF s[i].success THEN 1 ELSE 0]
  BY <1>1 DEF Values, Succeeded
<1>4. Values(s, Passed) = [i \in 1 .. Len(s) |-> IF s[i].verified = "pass" THEN 1 ELSE 0]
  BY <1>1 DEF Values, Passed
<1>5. Values(s, Verifiable) = [i \in 1 .. Len(s) |-> IF s[i].verified # "none" THEN 1 ELSE 0]
  BY <1>1 DEF Values, Verifiable
<1>6. Values(s, Rating) = [i \in 1 .. Len(s) |-> IF s[i].rating = Unknown THEN 0
                                                 ELSE s[i].rating]
  BY <1>1 DEF Values, Rating
<1>7. Values(s, Rated) = [i \in 1 .. Len(s) |-> IF s[i].rating # Unknown THEN 1 ELSE 0]
  BY <1>1 DEF Values, Rated
<1>8. Values(s, Delay) = [i \in 1 .. Len(s) |-> IF s[i].latencyMs = Unknown THEN 0
                                                ELSE s[i].latencyMs]
  BY <1>1 DEF Values, Delay
<1>9. Values(s, Timed) = [i \in 1 .. Len(s) |-> IF s[i].latencyMs # Unknown THEN 1 ELSE 0]
  BY <1>1 DEF Values, Timed
<1>10. Summary(s) =
         [usage |-> Len(s),
          successes |-> Total([i \in 1 .. Len(s) |-> IF s[i].success THEN 1 ELSE 0]),
          verified |-> Total([i \in 1 .. Len(s) |-> IF s[i].verified = "pass" THEN 1 ELSE 0]),
          verifiable |-> Total([i \in 1 .. Len(s) |-> IF s[i].verified # "none" THEN 1
                                                      ELSE 0]),
          avgRating |-> Mean(100, Total([i \in 1 .. Len(s) |-> IF s[i].rating = Unknown THEN 0
                                                               ELSE s[i].rating]),
                             Total([i \in 1 .. Len(s) |-> IF s[i].rating # Unknown THEN 1
                                                          ELSE 0])),
          avgLatency |-> Mean(10, Total([i \in 1 .. Len(s) |-> IF s[i].latencyMs = Unknown
                                                               THEN 0 ELSE s[i].latencyMs]),
                              Total([i \in 1 .. Len(s) |-> IF s[i].latencyMs # Unknown THEN 1
                                                           ELSE 0]))]
  BY DEF Summary, Count, SumOf
<1>11. Sum(s, Each) = Len(s)
  BY <1>1, <1>2, TotalOfOnes DEF Sum
<1>12. Summary(s) = [usage |-> Sum(s, Each), successes |-> Sum(s, Succeeded),
                     verified |-> Sum(s, Passed), verifiable |-> Sum(s, Verifiable),
                     avgRating |-> Mean(100, Sum(s, Rating), Sum(s, Rated)),
                     avgLatency |-> Mean(10, Sum(s, Delay), Sum(s, Timed))]
  BY <1>3, <1>4, <1>5, <1>6, <1>7, <1>8, <1>9, <1>10, <1>11 DEF Sum
<1> QED BY <1>12

-----------------------------------------------------------------------------
(* A summary that is no worse than another.                                 *)
Better(y, x) ==
    /\ x.usage \in Nat \ {0} /\ y.usage \in Nat \ {0} /\ x.usage <= y.usage
    /\ x.successes \in Int /\ y.successes \in Int
    /\ x.successes * y.usage <= y.successes * x.usage
    /\ x.verifiable \in Nat /\ y.verifiable \in Nat \ {0}
    /\ x.verified \in Int /\ y.verified \in Int
    /\ x.verified * y.verifiable <= y.verified * x.verifiable
    /\ x.verifiable = 0 => x.verified = 0 /\ 0 <= y.verified
    /\ y.avgRating \in Int
    /\ \/ x.avgRating = Unknown /\ 0 <= y.avgRating
       \/ x.avgRating \in Int /\ x.avgRating <= y.avgRating
    /\ y.avgLatency \in Int
    /\ \/ x.avgLatency = Unknown /\ y.avgLatency <= 0
       \/ x.avgLatency \in Int /\ y.avgLatency <= x.avgLatency

LEMMA MeanIs ==
  ASSUME NEW u \in Nat, NEW a \in Int, NEW n \in Nat
  PROVE  /\ n = 0 => Mean(u, a, n) = Unknown
         /\ n # 0 => Mean(u, a, n) = RoundDiv(u * a, n) /\ Mean(u, a, n) \in Int
<1>1. ASSUME n # 0 PROVE RoundDiv(u * a, n) \in Int
  <2>1. u * a \in Int
    OBVIOUS
  <2> QED BY <1>1, <2>1, RoundOf
<1> QED BY <1>1 DEF Mean

LEMMA MeanOf ==
  ASSUME NEW u \in Nat, NEW a \in Int, NEW n \in Nat \ {0}, NEW b \in Int, NEW m \in Nat \ {0},
         a * m <= b * n
  PROVE  Mean(u, a, n) <= Mean(u, b, m)
<1>1. (u * a) * m = u * (a * m) /\ (u * b) * n = u * (b * n)
  OBVIOUS
<1>2. u * (a * m) <= u * (b * n)
  <2>1. a * m \in Int /\ b * n \in Int
    OBVIOUS
  <2> DEFINE x == a * m
             y == b * n
  <2> HIDE DEF x, y
  <2>2. x * u <= y * u
    BY <2>1, Times DEF x, y
  <2>3. x \in Int /\ y \in Int
    BY <2>1 DEF x, y
  <2>4. u * x <= u * y
    BY <2>2, <2>3
  <2> QED BY <2>4 DEF x, y
<1>3. u * a \in Int /\ u * b \in Int
  OBVIOUS
<1>4. RoundDiv(u * a, n) <= RoundDiv(u * b, m)
  BY <1>1, <1>2, <1>3, RoundMonotone
<1> QED BY <1>4 DEF Mean

LEMMA BestIsTyped ==
  /\ Best \in Outcome
  /\ Each[Best] = 1 /\ Succeeded[Best] = 1 /\ Passed[Best] = 1 /\ Verifiable[Best] = 1
  /\ Rating[Best] = 2 /\ Rated[Best] = 1 /\ Speed[Best] = 0 /\ Timed[Best] = 1
<1>1. Best \in Outcome
  BY DEF Best, Outcome, Number
<1>2. /\ Each[Best] = 1 /\ Succeeded[Best] = 1 /\ Passed[Best] = 1 /\ Verifiable[Best] = 1
  BY <1>1 DEF Best, Each, Succeeded, Passed, Verifiable
<1>3. Best.rating = 2 /\ Best.latencyMs = 0 /\ 2 # Unknown /\ 0 # Unknown
  BY ScoringAssumption DEF Best
<1>4. Rating[Best] = 2 /\ Rated[Best] = 1 /\ Delay[Best] = 0 /\ Timed[Best] = 1
  BY <1>1, <1>3 DEF Rating, Rated, Delay, Timed
<1>5. Speed[Best] = 0
  BY <1>1, <1>4 DEF Speed
<1> QED BY <1>1, <1>2, <1>4, <1>5

(* The numbers f have a mean, k counts them, and the best outcome has the   *)
(* highest, c.                                                              *)
Measures(f, k, c) ==
    /\ f \in [Outcome -> Int] /\ k \in [Outcome -> Int] /\ c \in Nat
    /\ f[Best] = c /\ k[Best] = 1
    /\ \A p \in Outcome : k[p] \in {0, 1} /\ f[p] <= c * k[p] /\ (k[p] = 0 => f[p] = 0)

Succeeds(s, t) == s \in Seq(Outcome) /\ t \in Seq(Outcome) /\ GoesOn(s, t, Best)

(* b of m is a mean that is no lower than a of n.                           *)
Ahead(a, n, b, m) ==
    a \in Int /\ b \in Int /\ n \in Nat /\ m \in Nat \ {0} /\ n <= m /\ a * m <= b * n

LEMMA BestRises ==
  ASSUME NEW s, NEW t, Succeeds(s, t), NEW f, NEW k, NEW c, Measures(f, k, c)
  PROVE  Ahead(Sum(s, f), Sum(s, k), Sum(t, f), Sum(t, k))
<1>1. /\ s \in Seq(Outcome) /\ t \in Seq(Outcome) /\ GoesOn(s, t, Best)
      /\ f \in [Outcome -> Int] /\ k \in [Outcome -> Int] /\ c \in Nat /\ Best \in Outcome
      /\ f[Best] = c /\ k[Best] = 1
  BY BestIsTyped DEF Succeeds, Measures
<1>2. \A p \in Outcome : k[p] \in {0, 1} /\ f[p] <= c * k[p] /\ (k[p] = 0 => f[p] = 0)
  BY DEF Measures
<1>3. /\ Sum(s, k) \in Nat /\ Sum(t, k) \in Nat \ {0} /\ Sum(s, k) <= Sum(t, k)
      /\ Sum(s, f) * Sum(t, k) <= Sum(t, f) * Sum(s, k)
  BY <1>1, <1>2, MeanRises
<1>4. Sum(s, f) \in Int /\ Sum(t, f) \in Int
  BY <1>1, ValuesTyped
<1> QED BY <1>3, <1>4 DEF Ahead

LEMMA BestAfterNone ==
  ASSUME NEW s, NEW t, Succeeds(s, t), NEW f, NEW k, NEW c, Measures(f, k, c), Sum(s, k) = 0
  PROVE  Sum(s, f) = 0 /\ Sum(t, f) = c
<1>1. /\ s \in Seq(Outcome) /\ t \in Seq(Outcome) /\ GoesOn(s, t, Best)
      /\ f \in [Outcome -> Int] /\ k \in [Outcome -> Int] /\ c \in Nat /\ Best \in Outcome
      /\ f[Best] = c /\ k[Best] = 1
  BY BestIsTyped DEF Succeeds, Measures
<1>2. \A p \in Outcome : k[p] \in {0, 1} /\ (k[p] = 0 => f[p] = 0)
  BY DEF Measures
<1>3. ASSUME NEW r \in Seq(Outcome), Sum(r, k) = 0 PROVE Sum(r, f) = 0
  <2>1. /\ Values(r, f) \in Seq(Int) /\ Len(Values(r, f)) = Len(r)
        /\ Values(r, k) \in Seq(Int) /\ Len(Values(r, k)) = Len(r)
    BY <1>1, ValuesTyped
  <2>2. \A i \in 1 .. Len(r) :
          /\ Values(r, f)[i] = f[r[i]] /\ Values(r, k)[i] = k[r[i]] /\ r[i] \in Outcome
    BY <1>1, ValuesTyped
  <2>3. ASSUME NEW i \in 1 .. Len(Values(r, f))
        PROVE  Values(r, k)[i] \in {0, 1} /\ (Values(r, k)[i] = 0 => Values(r, f)[i] = 0)
    <3>1. i \in 1 .. Len(r)
      BY <2>1
    <3>2. Values(r, f)[i] = f[r[i]] /\ Values(r, k)[i] = k[r[i]] /\ r[i] \in Outcome
      BY <2>2, <3>1
    <3> QED BY <1>2, <3>2
  <2> QED BY <1>3, <2>1, <2>3, TotalNothing DEF Sum
<1>4. PICK u \in Seq(Outcome) : t = Append(u, Best) /\ (u = s \/ (s # <<>> /\ u = Tail(s)))
  BY <1>1 DEF GoesOn
<1>5. Sum(u, k) = 0
  <2>1. CASE u = s
    BY <2>1
  <2>2. CASE s # <<>> /\ u = Tail(s)
    <3>1. PICK x \in Outcome : Sum(s, k) = Sum(u, k) + k[x]
      BY <1>1, <2>2, SumTail
    <3>2. Sum(u, k) \in Nat
      <4>1. \A p \in Outcome : k[p] \in {0, 1}
        BY <1>2
      <4> QED BY <1>1, <4>1, CountsNat
    <3>3. k[x] = 0 \/ k[x] = 1
      BY <1>2
    <3> QED BY <3>1, <3>2, <3>3
  <2> QED BY <1>4, <2>1, <2>2
<1>6. Sum(t, f) = Sum(u, f) + c
  BY <1>1, <1>4, SumAppend
<1>7. Sum(u, f) = 0 /\ Sum(s, f) = 0
  BY <1>1, <1>3, <1>5
<1> QED BY <1>1, <1>6, <1>7

LEMMA FieldsMeasure ==
  /\ Measures(Succeeded, Each, 1) /\ Measures(Passed, Verifiable, 1)
  /\ Measures(Rating, Rated, 2) /\ Measures(Speed, Timed, 0)
<1>1. /\ Each \in [Outcome -> Int] /\ Succeeded \in [Outcome -> Int]
      /\ Passed \in [Outcome -> Int] /\ Verifiable \in [Outcome -> Int]
      /\ Rating \in [Outcome -> Int] /\ Rated \in [Outcome -> Int]
      /\ Speed \in [Outcome -> Int] /\ Timed \in [Outcome -> Int]
  BY FieldsTyped
<1>2. ASSUME NEW p \in Outcome
      PROVE  /\ Each[p] = 1 /\ Succeeded[p] \in {0, 1}
             /\ Passed[p] \in {0, 1} /\ Verifiable[p] \in {0, 1} /\ Passed[p] <= Verifiable[p]
             /\ Rated[p] \in {0, 1} /\ -2 * Rated[p] <= Rating[p] /\ Rating[p] <= 2 * Rated[p]
             /\ Timed[p] \in {0, 1} /\ Speed[p] <= 0 /\ (Timed[p] = 0 => Speed[p] = 0)
             /\ Rating[p] \in Int
  BY <1>1, FieldsTyped
<1>3. \A p \in Outcome : Each[p] \in {0, 1} /\ Succeeded[p] <= 1 * Each[p]
                         /\ (Each[p] = 0 => Succeeded[p] = 0)
  BY <1>2
<1>4. \A p \in Outcome : Verifiable[p] \in {0, 1} /\ Passed[p] <= 1 * Verifiable[p]
                         /\ (Verifiable[p] = 0 => Passed[p] = 0)
  BY <1>2
<1>5. ASSUME NEW p \in Outcome
      PROVE  /\ Rated[p] \in {0, 1} /\ Rating[p] <= 2 * Rated[p]
             /\ (Rated[p] = 0 => Rating[p] = 0)
  BY <1>2
<1>6. \A p \in Outcome : Timed[p] \in {0, 1} /\ Speed[p] <= 0 * Timed[p]
                         /\ (Timed[p] = 0 => Speed[p] = 0)
  <2> TAKE p \in Outcome
  <2>1. Timed[p] \in {0, 1} /\ Speed[p] <= 0 /\ (Timed[p] = 0 => Speed[p] = 0)
    BY <1>2
  <2> QED BY <2>1
<1>7. 0 \in Nat /\ 1 \in Nat /\ 2 \in Nat
  OBVIOUS
<1>8. Measures(Succeeded, Each, 1) /\ Measures(Passed, Verifiable, 1)
  BY <1>1, <1>3, <1>4, <1>7, BestIsTyped DEF Measures
<1>9. Measures(Rating, Rated, 2) /\ Measures(Speed, Timed, 0)
  BY <1>1, <1>5, <1>6, <1>7, BestIsTyped DEF Measures
<1> QED BY <1>8, <1>9

(* The means of a summary, rounded.                                         *)
LEMMA AheadRounded ==
  ASSUME NEW u \in Nat, NEW a, NEW n, NEW b, NEW m, Ahead(a, n, b, m)
  PROVE  /\ Mean(u, b, m) \in Int
         /\ n = 0 => Mean(u, a, n) = Unknown
         /\ n # 0 => Mean(u, a, n) \in Int /\ Mean(u, a, n) <= Mean(u, b, m)
<1>1. a \in Int /\ b \in Int /\ n \in Nat /\ m \in Nat \ {0} /\ a * m <= b * n
  BY DEF Ahead
<1>2. Mean(u, b, m) \in Int
  BY <1>1, MeanIs
<1>3. n = 0 => Mean(u, a, n) = Unknown
  BY <1>1, MeanIs
<1>4. n # 0 => Mean(u, a, n) \in Int
  BY <1>1, MeanIs
<1>5. ASSUME n # 0 PROVE Mean(u, a, n) <= Mean(u, b, m)
  <2>1. n \in Nat \ {0}
    BY <1>1, <1>5
  <2> QED BY <1>1, <2>1, MeanOf
<1> QED BY <1>2, <1>3, <1>4, <1>5

(* Latencies the other way round.                                           *)
LEMMA BehindRounded ==
  ASSUME NEW u \in Nat, NEW a, NEW n, NEW b, NEW m, Ahead(-a, n, -b, m),
         a \in Int, b \in Int
  PROVE  /\ Mean(u, b, m) \in Int
         /\ n = 0 => Mean(u, a, n) = Unknown
         /\ n # 0 => Mean(u, a, n) \in Int /\ Mean(u, b, m) <= Mean(u, a, n)
<1>1. n \in Nat /\ m \in Nat \ {0} /\ (-a) * m <= (-b) * n
  BY DEF Ahead
<1>2. b * n <= a * m
  BY <1>1
<1>3. Mean(u, b, m) \in Int
  BY <1>1, MeanIs
<1>4. n = 0 => Mean(u, a, n) = Unknown
  BY <1>1, MeanIs
<1>5. n # 0 => Mean(u, a, n) \in Int
  BY <1>1, MeanIs
<1>6. ASSUME n # 0 PROVE Mean(u, b, m) <= Mean(u, a, n)
  <2>1. n \in Nat \ {0}
    BY <1>1, <1>6
  <2> QED BY <1>1, <1>2, <2>1, MeanOf
<1> QED BY <1>3, <1>4, <1>5, <1>6

LEMMA BestIsBetter ==
  ASSUME NEW s \in Seq(Outcome), s # <<>>, NEW t \in Seq(Outcome), GoesOn(s, t, Best)
  PROVE  Better(Summary(t), Summary(s))
<1> DEFINE x == Summary(s)
           y == Summary(t)
<1>1. Succeeds(s, t)
  BY DEF Succeeds
<1>2. Ahead(Sum(s, Succeeded), Sum(s, Each), Sum(t, Succeeded), Sum(t, Each))
  BY <1>1, FieldsMeasure, BestRises
<1>3. Ahead(Sum(s, Passed), Sum(s, Verifiable), Sum(t, Passed), Sum(t, Verifiable))
  BY <1>1, FieldsMeasure, BestRises
<1>4. Ahead(Sum(s, Rating), Sum(s, Rated), Sum(t, Rating), Sum(t, Rated))
  BY <1>1, FieldsMeasure, BestRises
<1>5. Ahead(Sum(s, Speed), Sum(s, Timed), Sum(t, Speed), Sum(t, Timed))
  BY <1>1, FieldsMeasure, BestRises
<1>6. Sum(s, Verifiable) = 0 => Sum(s, Passed) = 0 /\ Sum(t, Passed) = 1
  BY <1>1, FieldsMeasure, BestAfterNone
<1>7. Sum(s, Rated) = 0 => Sum(s, Rating) = 0 /\ Sum(t, Rating) = 2
  BY <1>1, FieldsMeasure, BestAfterNone
<1>8. Sum(s, Each) # 0
  <2>1. Each \in [Outcome -> Int] /\ \A p \in Outcome : Each[p] = 1 /\ Each[p] \in {0, 1}
    BY FieldsTyped
  <2>2. Sum(s, Each) = Sum(Tail(s), Each) + Each[s[1]] /\ s[1] \in Outcome
        /\ Tail(s) \in Seq(Outcome)
    BY <2>1, SumTail
  <2>3. Sum(Tail(s), Each) \in Nat
    <3>1. \A p \in Outcome : Each[p] \in {0, 1}
      BY <2>1
    <3> QED BY <2>1, <2>2, <3>1, CountsNat
  <2>4. Each[s[1]] = 1
    BY <2>1, <2>2
  <2> QED BY <2>2, <2>3, <2>4
<1>9. \A r \in Seq(Outcome) : Sum(r, Speed) = -Sum(r, Delay) /\ Sum(r, Delay) \in Int
  <2>1. /\ Speed \in [Outcome -> Int] /\ Delay \in [Outcome -> Int]
        /\ \A p \in Outcome : Speed[p] = -Delay[p]
    BY FieldsTyped DEF Speed
  <2> QED BY <2>1, SumOfOpposite, ValuesTyped
<1>10. /\ x.usage = Sum(s, Each) /\ x.successes = Sum(s, Succeeded)
       /\ x.verified = Sum(s, Passed) /\ x.verifiable = Sum(s, Verifiable)
       /\ x.avgRating = Mean(100, Sum(s, Rating), Sum(s, Rated))
       /\ x.avgLatency = Mean(10, Sum(s, Delay), Sum(s, Timed))
  BY SummaryIs
<1>11. /\ y.usage = Sum(t, Each) /\ y.successes = Sum(t, Succeeded)
       /\ y.verified = Sum(t, Passed) /\ y.verifiable = Sum(t, Verifiable)
       /\ y.avgRating = Mean(100, Sum(t, Rating), Sum(t, Rated))
       /\ y.avgLatency = Mean(10, Sum(t, Delay), Sum(t, Timed))
  BY SummaryIs
<1> HIDE DEF x, y
<1>12. /\ x.usage \in Nat \ {0} /\ y.usage \in Nat \ {0} /\ x.usage <= y.usage
       /\ x.successes \in Int /\ y.successes \in Int
       /\ x.successes * y.usage <= y.successes * x.usage
  BY <1>2, <1>8, <1>10, <1>11 DEF Ahead
<1>13. /\ x.verifiable \in Nat /\ y.verifiable \in Nat \ {0}
       /\ x.verified \in Int /\ y.verified \in Int
       /\ x.verified * y.verifiable <= y.verified * x.verifiable
       /\ (x.verifiable = 0 => x.verified = 0 /\ 0 <= y.verified)
  BY <1>3, <1>6, <1>10, <1>11 DEF Ahead
<1>14. /\ y.avgRating \in Int
       /\ \/ x.avgRating = Unknown /\ 0 <= y.avgRating
          \/ x.avgRating \in Int /\ x.avgRating <= y.avgRating
  <2>1. /\ y.avgRating \in Int
        /\ Sum(s, Rated) = 0 => x.avgRating = Unknown
        /\ Sum(s, Rated) # 0 => x.avgRating \in Int /\ x.avgRating <= y.avgRating
    <3>1. 100 \in Nat
      OBVIOUS
    <3> QED BY <1>4, <1>10, <1>11, <3>1, AheadRounded
  <2>2. ASSUME Sum(s, Rated) = 0 PROVE 0 <= y.avgRating
    <3> DEFINE m == Sum(t, Rated)
    <3>1. y.avgRating = Mean(100, 2, m) /\ m \in Nat \ {0}
      BY <1>4, <1>7, <1>11, <2>2 DEF Ahead
    <3> HIDE DEF m
    <3>2. Mean(100, 0, 1) = 0
      BY DEF Mean, RoundDiv
    <3>3. Ahead(0, 1, 2, m)
      BY <3>1 DEF Ahead
    <3>4. 1 # 0 /\ 100 \in Nat
      OBVIOUS
    <3>5. Mean(100, 2, m) \in Int /\ Mean(100, 0, 1) <= Mean(100, 2, m)
      BY <3>3, <3>4, AheadRounded
    <3> QED BY <3>1, <3>2, <3>5
  <2> QED BY <2>1, <2>2
<1>15. /\ y.avgLatency \in Int
       /\ \/ x.avgLatency = Unknown /\ y.avgLatency <= 0
          \/ x.avgLatency \in Int /\ y.avgLatency <= x.avgLatency
  <2>1. Ahead(-Sum(s, Delay), Sum(s, Timed), -Sum(t, Delay), Sum(t, Timed))
        /\ Sum(s, Delay) \in Int /\ Sum(t, Delay) \in Int /\ 10 \in Nat
    BY <1>5, <1>9
  <2>2. /\ y.avgLatency \in Int
        /\ Sum(s, Timed) = 0 => x.avgLatency = Unknown
        /\ Sum(s, Timed) # 0 => x.avgLatency \in Int /\ y.avgLatency <= x.avgLatency
    BY <1>10, <1>11, <2>1, BehindRounded
  <2>3. ASSUME Sum(s, Timed) = 0 PROVE y.avgLatency <= 0
    <3> DEFINE m == Sum(t, Timed)
    <3>1. Sum(t, Speed) = 0
      BY <1>1, <2>3, FieldsMeasure, BestAfterNone
    <3>2. Sum(t, Delay) = 0
      BY <1>9, <3>1
    <3>3. y.avgLatency = Mean(10, 0, m) /\ m \in Nat \ {0}
      BY <1>5, <1>11, <3>2 DEF Ahead
    <3> HIDE DEF m
    <3>4. Mean(10, 0, 1) = 0
      BY DEF Mean, RoundDiv
    <3>5. 0 * 1 <= 0 * m /\ 1 \in Nat \ {0} /\ 10 \in Nat /\ 0 \in Int
      BY <3>3
    <3>6. Mean(10, 0, m) <= Mean(10, 0, 1)
      BY <3>3, <3>5, MeanOf
    <3> QED BY <3>3, <3>4, <3>6
  <2> QED BY <2>2, <2>3
<1>16. Better(y, x)
  BY <1>12, <1>13, <1>14, <1>15 DEF Better
<1> QED BY <1>16 DEF x, y

LEMMA SummaryTyped ==
  ASSUME NEW s \in Seq(Outcome)
  PROVE  Summary(s) \in Summaries /\ Summary(s) # Unknown
<1> DEFINE x == Summary(s)
<1>1. /\ Each \in [Outcome -> Int] /\ \A p \in Outcome : Each[p] \in {0, 1}
      /\ Succeeded \in [Outcome -> Int] /\ \A p \in Outcome : Succeeded[p] \in {0, 1}
      /\ Passed \in [Outcome -> Int] /\ \A p \in Outcome : Passed[p] \in {0, 1}
      /\ Verifiable \in [Outcome -> Int] /\ \A p \in Outcome : Verifiable[p] \in {0, 1}
      /\ Rated \in [Outcome -> Int] /\ \A p \in Outcome : Rated[p] \in {0, 1}
      /\ Timed \in [Outcome -> Int] /\ \A p \in Outcome : Timed[p] \in {0, 1}
      /\ Rating \in [Outcome -> Int] /\ Delay \in [Outcome -> Int]
  BY FieldsTyped
<1>2. Sum(s, Each) \in Nat /\ Sum(s, Succeeded) \in Nat /\ Sum(s, Passed) \in Nat
  BY <1>1, CountsNat
<1>3. Sum(s, Verifiable) \in Nat /\ Sum(s, Rated) \in Nat /\ Sum(s, Timed) \in Nat
  BY <1>1, CountsNat
<1>4. Sum(s, Rating) \in Int /\ Sum(s, Delay) \in Int
  BY <1>1, ValuesTyped
<1>5. 10 \in Nat /\ 100 \in Nat
  OBVIOUS
<1>6. Mean(100, Sum(s, Rating), Sum(s, Rated)) \in Number(Int)
  BY <1>3, <1>4, <1>5, MeanIs DEF Number
<1>7. Mean(10, Sum(s, Delay), Sum(s, Timed)) \in Number(Int)
  BY <1>3, <1>4, <1>5, MeanIs DEF Number
<1>8. /\ x.usage = Sum(s, Each) /\ x.successes = Sum(s, Succeeded)
      /\ x.verified = Sum(s, Passed) /\ x.verifiable = Sum(s, Verifiable)
      /\ x.avgRating = Mean(100, Sum(s, Rating), Sum(s, Rated))
      /\ x.avgLatency = Mean(10, Sum(s, Delay), Sum(s, Timed))
  BY SummaryIs
<1>9. x = [usage |-> x.usage, successes |-> x.successes, verified |-> x.verified,
           verifiable |-> x.verifiable, avgRating |-> x.avgRating,
           avgLatency |-> x.avgLatency]
  BY DEF Summary
<1> HIDE DEF x
<1>10. x \in Summaries
  BY <1>2, <1>3, <1>6, <1>7, <1>8, <1>9 DEF Summaries
<1> QED BY <1>10, ScoringAssumption DEF x

-----------------------------------------------------------------------------
(* The terms of the score rise.                                             *)
LEMMA HistoryRises ==
  ASSUME NEW x, NEW y, Better(y, x)
  PROVE  /\ historyQuality(x) \in Int /\ historyQuality(y) \in Int
         /\ historyQuality(x) <= historyQuality(y)
<1> DEFINE n == x.usage
           m == y.usage
           a == x.successes
           b == y.successes
           c == Between(0, n, 250)
           d == Between(0, m, 250)
<1>1. /\ n \in Nat \ {0} /\ m \in Nat \ {0} /\ n <= m
      /\ a \in Int /\ b \in Int /\ a * m <= b * n
  BY DEF Better
<1>2. historyQuality(x) = RoundDiv(750 * a + c * n, 10 * n)
      /\ historyQuality(y) = RoundDiv(750 * b + d * m, 10 * m)
  BY DEF historyQuality
<1> HIDE DEF n, m, a, b
<1>3. c \in Nat /\ d \in Nat /\ c <= d
  BY <1>1 DEF Between
<1> HIDE DEF c, d
<1>4. (750 * a + c * n) * (10 * m) <= (750 * b + d * m) * (10 * n)
  <2>1. n * m \in Nat /\ c * (n * m) <= d * (n * m)
    <3> DEFINE k == n * m
    <3>1. k \in Nat
      BY <1>1
    <3> HIDE DEF k
    <3>2. c * k <= d * k
      BY <1>3, <3>1, Times
    <3> QED BY <3>1, <3>2 DEF k
  <2>2. (750 * a + c * n) * (10 * m) = 7500 * (a * m) + 10 * (c * (n * m))
    BY <1>1, <1>3
  <2>3. (750 * b + d * m) * (10 * n) = 7500 * (b * n) + 10 * (d * (n * m))
    BY <1>1, <1>3
  <2>4. /\ a * m \in Int /\ b * n \in Int
        /\ c * (n * m) \in Int /\ d * (n * m) \in Int
    BY <1>1, <1>3
  <2> QED BY <1>1, <2>1, <2>2, <2>3, <2>4
<1> DEFINE e == 750 * a + c * n
           f == 750 * b + d * m
           g == 10 * n
           h == 10 * m
<1>5. e \in Int /\ f \in Int /\ g \in Nat \ {0} /\ h \in Nat \ {0} /\ e * h <= f * g
  BY <1>1, <1>3, <1>4
<1>6. historyQuality(x) = RoundDiv(e, g) /\ historyQuality(y) = RoundDiv(f, h)
  BY <1>2
<1> HIDE DEF e, f, g, h
<1> QED BY <1>5, <1>6, RoundMonotone

LEMMA QualityRises ==
  ASSUME NEW p \in Profiles, NEW x, NEW y, Better(y, x), x # Unknown, y # Unknown
  PROVE  Quality(p, x) \in Int /\ Quality(p, y) \in Int /\ Quality(p, x) <= Quality(p, y)
<1> DEFINE r == IF p.reliability = Unknown THEN 0 ELSE RoundDiv(80 * p.reliability, 100)
           surface == 4 * p.completeness + r
           h == historyQuality(x)
           k == historyQuality(y)
<1>1. /\ p.completeness \in Int
      /\ p.quality = Unknown \/ p.quality \in Int
      /\ p.reliability = Unknown \/ p.reliability \in Int
  BY ScoringAssumption DEF Number
<1>2. h \in Int /\ k \in Int /\ h <= k
  BY HistoryRises
<1>3. surface \in Int
  <2>1. CASE p.reliability \in Int
    <3> DEFINE q == 80 * p.reliability
    <3>1. q \in Int /\ 100 \in Nat \ {0}
      BY <2>1
    <3>2. r = 0 \/ r = RoundDiv(q, 100)
      OBVIOUS
    <3> HIDE DEF q, r
    <3>3. RoundDiv(q, 100) \in Int
      BY <3>1, RoundOf
    <3> QED BY <1>1, <3>2, <3>3
  <2>2. CASE p.reliability = Unknown
    <3>1. r = 0
      BY <2>2
    <3> HIDE DEF r
    <3> QED BY <1>1, <3>1
  <2> QED BY <1>1, <2>1, <2>2
<1>4. /\ p.quality # Unknown => Quality(p, x) = p.quality /\ Quality(p, y) = p.quality
      /\ p.quality = Unknown =>
           /\ Quality(p, x) = Between(0, RoundDiv(15 * surface + 40 * h, 100), 100)
           /\ Quality(p, y) = Between(0, RoundDiv(15 * surface + 40 * k, 100), 100)
  BY DEF Quality
<1> HIDE DEF surface, h, k
<1> DEFINE a == RoundDiv(15 * surface + 40 * h, 100)
           b == RoundDiv(15 * surface + 40 * k, 100)
<1>5. a \in Int /\ b \in Int /\ a <= b
  <2>1. /\ 15 * surface + 40 * h \in Int /\ 15 * surface + 40 * k \in Int
        /\ 15 * surface + 40 * h <= 15 * surface + 40 * k /\ 100 \in Nat \ {0}
    BY <1>2, <1>3
  <2> QED BY <2>1, RoundOf
<1> HIDE DEF a, b
<1>6. Between(0, a, 100) \in Int /\ Between(0, b, 100) \in Int
      /\ Between(0, a, 100) <= Between(0, b, 100)
  BY <1>5 DEF Between
<1> QED BY <1>1, <1>4, <1>6 DEF a, b

LEMMA ReputationRises ==
  ASSUME NEW w \in Weights, NEW x, NEW y, Better(y, x), x # Unknown, y # Unknown
  PROVE  /\ Reputation(x, w) \in Int /\ Reputation(y, w) \in Int
         /\ Reputation(x, w) <= Reputation(y, w)
<1> DEFINE h == w.historical
           m == IF x.verifiable = 0 THEN 1 ELSE x.verifiable
           k == y.verifiable
           r == IF x.avgRating = Unknown THEN 0 ELSE x.avgRating
           q == y.avgRating
           a == x.verified
           b == y.verified
<1>1. h \in Nat
  BY ScoringAssumption
<1>2. m \in Nat \ {0} /\ k \in Nat \ {0} /\ a \in Int /\ b \in Int /\ a * k <= b * m
  <2>1. /\ x.verifiable \in Nat /\ k \in Nat \ {0} /\ a \in Int /\ b \in Int
        /\ a * k <= b * x.verifiable
        /\ (x.verifiable = 0 => a = 0 /\ 0 <= b)
    BY DEF Better
  <2>2. CASE x.verifiable = 0
    <3>1. m = 1
      BY <2>2
    <3> HIDE DEF m, k, a, b
    <3> QED BY <2>1, <2>2, <3>1
  <2>3. CASE x.verifiable # 0
    <3>1. m = x.verifiable
      BY <2>3
    <3> HIDE DEF m, k, a, b
    <3> QED BY <2>1, <2>3, <3>1
  <2> QED BY <2>2, <2>3
<1>3. r \in Int /\ q \in Int /\ r <= q /\ q # Unknown
  BY ScoringAssumption DEF Better
<1> DEFINE e == h * (2000 * a + 10 * r * m)
           f == h * (2000 * b + 10 * q * k)
<1>4. /\ Reputation(x, w) = Between(-1000 * 8, RoundDiv(e, 8 * m), 1000 * 8)
      /\ Reputation(y, w) = Between(-1000 * 8, RoundDiv(f, 8 * k), 1000 * 8)
  <2>1. y.verifiable # 0 /\ y.avgRating # Unknown
    BY <1>2, <1>3
  <2> QED BY <2>1 DEF Reputation, reputationWeight
<1> HIDE DEF h, m, k, r, q, a, b
<1>5. e \in Int /\ f \in Int /\ 8 * m \in Nat \ {0} /\ 8 * k \in Nat \ {0}
  BY <1>1, <1>2, <1>3
<1>6. e * (8 * k) <= f * (8 * m)
  <2> DEFINE mk == m * k
             u == a * k
             v == b * m
  <2>1. e * (8 * k) = 8 * (h * (2000 * u + 10 * (r * mk)))
    <3>1. (2000 * a + 10 * r * m) * k = 2000 * u + 10 * (r * mk)
      BY <1>2, <1>3
    <3> DEFINE z == 2000 * a + 10 * r * m
    <3>2. z \in Int
      BY <1>2, <1>3
    <3> HIDE DEF z
    <3>3. (h * z) * (8 * k) = 8 * (h * (z * k))
      BY <1>1, <1>2, <3>2
    <3> QED BY <3>1, <3>3 DEF z
  <2>2. f * (8 * m) = 8 * (h * (2000 * v + 10 * (q * mk)))
    <3>1. (2000 * b + 10 * q * k) * m = 2000 * v + 10 * (q * mk)
      BY <1>2, <1>3
    <3> DEFINE z == 2000 * b + 10 * q * k
    <3>2. z \in Int
      BY <1>2, <1>3
    <3> HIDE DEF z
    <3>3. (h * z) * (8 * m) = 8 * (h * (z * m))
      BY <1>1, <1>2, <3>2
    <3> QED BY <3>1, <3>3 DEF z
  <2>3. mk \in Nat /\ u \in Int /\ v \in Int /\ u <= v
    BY <1>2
  <2> HIDE DEF mk, u, v
  <2>4. r * mk <= q * mk
    BY <1>3, <2>3, Times
  <2> DEFINE i == 2000 * u + 10 * (r * mk)
             j == 2000 * v + 10 * (q * mk)
  <2>5. i \in Int /\ j \in Int /\ i <= j
    <3>1. r * mk \in Int /\ q * mk \in Int
      BY <1>3, <2>3
    <3> DEFINE rm == r * mk
               qm == q * mk
    <3> HIDE DEF rm, qm
    <3>2. 2000 * u + 10 * rm <= 2000 * v + 10 * qm /\ rm \in Int /\ qm \in Int
      BY <2>3, <2>4, <3>1 DEF rm, qm
    <3>3. 2000 * u + 10 * rm \in Int /\ 2000 * v + 10 * qm \in Int
      BY <2>3, <3>2
    <3> QED BY <3>2, <3>3 DEF rm, qm
  <2> HIDE DEF i, j
  <2>6. i * h <= j * h
    BY <1>1, <2>5, Times
  <2>7. 8 * (h * i) <= 8 * (h * j)
    BY <1>1, <2>5, <2>6
  <2> QED BY <2>1, <2>2, <2>7 DEF i, j
<1> DEFINE g == 8 * m
           l == 8 * k
           s == RoundDiv(e, g)
           t == RoundDiv(f, l)
<1>7. s \in Int /\ t \in Int /\ s <= t
  <2> HIDE DEF e, f, g, l
  <2>1. e \in Int /\ f \in Int /\ g \in Nat \ {0} /\ l \in Nat \ {0} /\ e * l <= f * g
    BY <1>5, <1>6 DEF g, l
  <2> QED BY <2>1, RoundMonotone
<1>8. Reputation(x, w) = Between(-1000 * 8, s, 1000 * 8)
      /\ Reputation(y, w) = Between(-1000 * 8, t, 1000 * 8)
  BY <1>4
<1> HIDE DEF s, t
<1> QED BY <1>7, <1>8 DEF Between

LEMMA LatencyRises ==
  ASSUME NEW p \in Profiles, NEW w \in Weights, NEW x, NEW y, Better(y, x),
         x # Unknown, y # Unknown
  PROVE  /\ Latency(p, x, w) \in Int /\ Latency(p, y, w) \in Int
         /\ Latency(p, x, w) <= Latency(p, y, w)
<1> DEFINE a == x.avgLatency
           b == y.avgLatency
           Late(n) == -Between(0, RoundDiv(n * 5, 10), 1000 * 9)
<1>1. /\ b \in Int
      /\ \/ a = Unknown /\ b <= 0
         \/ a \in Int /\ b <= a
  BY DEF Better
<1>2. /\ w.latency \in Nat
      /\ p.latency = Unknown \/ p.latency \in Nat
  BY ScoringAssumption DEF Number
<1>3. Latency(p, y, w) = Late(b)
  <2>1. b # Unknown
    BY <1>1, ScoringAssumption
  <2> QED BY <2>1 DEF Latency, latencyWeight, contextPenaltyCap
<1>4. ASSUME NEW n \in Int, NEW m \in Int, n <= m
      PROVE  Late(n) \in Int /\ Late(m) \in Int /\ Late(m) <= Late(n)
  <2> DEFINE i == n * 5
             j == m * 5
  <2>1. i \in Int /\ j \in Int /\ i <= j /\ 10 \in Nat \ {0}
    BY <1>4
  <2> HIDE DEF i, j
  <2>2. RoundDiv(i, 10) \in Int /\ RoundDiv(j, 10) \in Int /\ RoundDiv(i, 10) <= RoundDiv(j, 10)
    BY <2>1, RoundOf
  <2> DEFINE k == RoundDiv(i, 10)
             l == RoundDiv(j, 10)
  <2> HIDE DEF k, l
  <2>3. /\ -Between(0, k, 1000 * 9) \in Int /\ -Between(0, l, 1000 * 9) \in Int
        /\ -Between(0, l, 1000 * 9) <= -Between(0, k, 1000 * 9)
    BY <2>2 DEF Between, k, l
  <2> QED BY <2>3 DEF i, j, k, l
<1>5. CASE a = Unknown /\ b <= 0
  <2>1. Latency(p, x, w) \in Int /\ Latency(p, x, w) <= 0
    <3>1. Latency(p, x, w) = IF p.latency # Unknown THEN -1000 * p.latency * w.latency ELSE 0
      BY <1>5 DEF Latency
    <3>2. CASE p.latency = Unknown
      BY <3>1, <3>2
    <3>3. CASE p.latency # Unknown
      <4>1. p.latency \in Nat /\ Latency(p, x, w) = -1000 * p.latency * w.latency
        BY <1>2, <3>1, <3>3
      <4>2. \A n, k \in Nat : -1000 * n * k \in Int /\ -1000 * n * k <= 0
        <5> TAKE n, k \in Nat
        <5>1. n * k \in Nat /\ -1000 * n * k = -1000 * (n * k)
          OBVIOUS
        <5> QED BY <5>1
      <4> QED BY <1>2, <4>1, <4>2
    <3> QED BY <3>2, <3>3
  <2>2. Late(0) \in Int /\ Late(b) \in Int /\ Late(0) <= Late(b)
    <3>1. 0 \in Int /\ b \in Int /\ b <= 0
      BY <1>1, <1>5
    <3> HIDE DEF Late, b
    <3> QED BY <1>4, <3>1
  <2>3. Late(0) = 0
    <3>1. 0 * 5 = 0 /\ 10 \div 20 = 0
      OBVIOUS
    <3>2. RoundDiv(0, 10) = 0
      BY <3>1 DEF RoundDiv
    <3>3. RoundDiv(0 * 5, 10) = 0
      BY <3>1, <3>2
    <3>4. Between(0, 0, 1000 * 9) = 0
      BY DEF Between
    <3>5. Late(0) = -0
      BY <3>3, <3>4
    <3> HIDE DEF Late
    <3> QED BY <3>5
  <2> HIDE DEF Late
  <2> QED BY <1>3, <2>1, <2>2, <2>3
<1>6. CASE a \in Int /\ b <= a
  <2>1. Latency(p, x, w) = Late(a)
    <3>1. a # Unknown
      BY <1>6, ScoringAssumption
    <3> QED BY <3>1 DEF Latency, latencyWeight, contextPenaltyCap
  <2>2. Late(a) \in Int /\ Late(b) \in Int /\ Late(a) <= Late(b)
    <3> HIDE DEF Late, a, b
    <3> QED BY <1>1, <1>4, <1>6
  <2> HIDE DEF Late
  <2> QED BY <1>3, <2>1, <2>2
<1> QED BY <1>1, <1>5, <1>6

LEMMA RateRises ==
  ASSUME NEW n \in Nat \ {0}, NEW k \in 0 .. n, NEW h \in Nat
  PROVE  /\ RoundDiv(1000 * k, n) * h \in Int
         /\ RoundDiv(1000 * (k + 1), n + 1) * h \in Int
         /\ RoundDiv(1000 * k, n) * h <= RoundDiv(1000 * (k + 1), n + 1) * h
<1> DEFINE a == 1000 * k
           b == 1000 * (k + 1)
           m == n + 1
<1>1. a \in Int /\ b \in Int /\ m \in Nat \ {0} /\ a * m <= b * n
  <2>1. k * (n + 1) <= (k + 1) * n /\ k * (n + 1) \in Int /\ (k + 1) * n \in Int
    <3>1. k * (n + 1) = k * n + k /\ (k + 1) * n = k * n + n /\ k * n \in Int
      OBVIOUS
    <3> QED BY <3>1
  <2>2. a * m = 1000 * (k * (n + 1)) /\ b * n = 1000 * ((k + 1) * n)
    OBVIOUS
  <2> QED BY <2>1, <2>2
<1> HIDE DEF a, b, m
<1>2. RoundDiv(a, n) \in Int /\ RoundDiv(b, m) \in Int /\ RoundDiv(a, n) <= RoundDiv(b, m)
  BY <1>1, RoundMonotone
<1> DEFINE q == RoundDiv(a, n)
           r == RoundDiv(b, m)
<1>3. q \in Int /\ r \in Int /\ q <= r
  BY <1>2
<1> HIDE DEF q, r
<1>4. q * h \in Int /\ r * h \in Int /\ q * h <= r * h
  BY <1>3, Times
<1> QED BY <1>4 DEF a, b, m, q, r

(* The counters: typed, no more successes than tasks, no more tasks than    *)
(* the bound.                                                               *)
Bounded(m) == m \in Counters /\ m.successes <= m.tasks /\ m.tasks <= MAX_OBSERVATIONS

LEMMA Recorded ==
  ASSUME NEW m, Bounded(m), NEW ok \in BOOLEAN
  PROVE  Bounded(UpdateMetrics(m, ok)) /\ UpdateMetrics(m, ok).tasks > 0
<1> DEFINE n == Incremented(m, ok)
<1>1. /\ n \in Counters /\ n.successes <= n.tasks /\ n.tasks <= MAX_OBSERVATIONS + 1
      /\ n.tasks > 0
      /\ MAX_OBSERVATIONS \in Nat \ {0}
  BY BoundAssumption DEF Bounded, Counters, Incremented
<1>2. UpdateMetrics(m, ok) = IF n.tasks > MAX_OBSERVATIONS THEN Halved(n) ELSE n
  BY DEF UpdateMetrics
<1> HIDE DEF n
<1>3. Halved(n) \in Counters /\ Halved(n).successes <= Halved(n).tasks
  BY <1>1 DEF Halved, Counters, CeilHalf
<1>4. Halved(n).tasks <= MAX_OBSERVATIONS /\ Halved(n).tasks > 0
  BY <1>1 DEF Halved, Counters, CeilHalf
<1>5. CASE n.tasks > MAX_OBSERVATIONS
  BY <1>2, <1>3, <1>4, <1>5 DEF Bounded
<1>6. CASE ~(n.tasks > MAX_OBSERVATIONS)
  <2>1. n.tasks <= MAX_OBSERVATIONS
    BY <1>1, <1>6 DEF Counters
  <2> QED BY <1>1, <1>2, <1>6, <2>1 DEF Bounded
<1> QED BY <1>5, <1>6

(* A whole number is not rounded.                                           *)
LEMMA RoundShift ==
  ASSUME NEW a \in Int, NEW b \in Nat \ {0}, NEW d \in Int
  PROVE  RoundDiv(a + d * b, b) = RoundDiv(a, b) + d
<1> DEFINE m == 2 * b
           n == 2 * a + b
<1>1. m \in Nat \ {0} /\ n \in Int
  OBVIOUS
<1>2. 2 * (a + d * b) + b = n + d * m
  <2>1. d * b \in Int /\ d * m = 2 * (d * b)
    OBVIOUS
  <2> QED BY <2>1
<1> HIDE DEF m, n
<1> DEFINE q == n \div m
           r == (n + d * m) \div m
<1>3. q \in Int /\ m * q <= n /\ n < m * (q + 1)
  BY <1>1, DivIs
<1>4. r \in Int /\ m * r <= n + d * m /\ n + d * m < m * (r + 1)
  <2>1. n + d * m \in Int
    BY <1>1
  <2> QED BY <1>1, <2>1, DivIs
<1> HIDE DEF q, r
<1> DEFINE e == r - d
<1>5. e \in Int /\ m * e <= n /\ n < m * (e + 1)
  <2>1. m * e = m * r - d * m /\ m * (e + 1) = m * (r + 1) - d * m
    BY <1>1, <1>4
  <2>2. m * r \in Int /\ m * (r + 1) \in Int /\ d * m \in Int
    BY <1>1, <1>4
  <2> QED BY <1>1, <1>4, <2>1, <2>2
<1> HIDE DEF e
<1>6. ASSUME NEW i \in Int, NEW j \in Int, i + 1 <= j, m * j <= n, n < m * (i + 1)
      PROVE  FALSE
  <2>1. (i + 1) * m <= j * m
    BY <1>1, <1>6, Times
  <2>2. (i + 1) * m = m * (i + 1) /\ j * m = m * j /\ m * (i + 1) \in Int /\ m * j \in Int
    BY <1>1, <1>6
  <2> QED BY <1>1, <1>6, <2>1, <2>2
<1>7. ~(e + 1 <= q) /\ ~(q + 1 <= e)
  BY <1>3, <1>5, <1>6
<1>8. e = q
  BY <1>3, <1>5, <1>7
<1>9. RoundDiv(a + d * b, b) = r /\ RoundDiv(a, b) = q
  BY <1>2 DEF RoundDiv, m, n, q, r
<1> QED BY <1>3, <1>4, <1>8, <1>9 DEF e

LEMMA CeilDivIs ==
  ASSUME NEW a \in Nat, NEW b \in Nat \ {0}
  PROVE  CeilDiv(a, b) \in Nat /\ a <= b * CeilDiv(a, b)
<1> DEFINE n == a + b - 1
           q == n \div b
<1>1. n \in Nat
  OBVIOUS
<1>2. q \in Int /\ b * q <= n /\ n < b * (q + 1)
  <2> HIDE DEF n
  <2> QED BY <1>1, DivIs
<1>3. CeilDiv(a, b) = q
  BY DEF CeilDiv
<1>4. q \in Nat
  <2> HIDE DEF n
  <2> QED BY <1>1
<1>5. b * (q + 1) = b * q + b /\ b * q \in Int
  BY <1>2
<1> QED BY <1>2, <1>3, <1>4, <1>5

(* A halving: of M tasks k succeeded, and one more does; t tasks of which s *)
(* succeeded are left.  The rate falls by d thousandths at most.            *)
Halving(M, k, s, t, d) ==
    /\ M \in Nat \ {0} /\ M % 2 = 0 /\ k \in 0 .. M
    /\ s = CeilHalf(k + 1) /\ t = CeilHalf(M + 1)
    /\ d \in Nat /\ 1000 * (M - 2) <= (M * (M + 2)) * d

LEMMA RateHalved ==
  ASSUME NEW M, NEW k, NEW s, NEW t, NEW d, Halving(M, k, s, t, d)
  PROVE  /\ RoundDiv(1000 * k, M) \in Int /\ RoundDiv(1000 * s, t) \in Int
         /\ RoundDiv(1000 * k, M) <= RoundDiv(1000 * s, t) + d
<1>0. /\ M \in Nat \ {0} /\ M % 2 = 0 /\ k \in 0 .. M
      /\ s = CeilHalf(k + 1) /\ t = CeilHalf(M + 1)
      /\ d \in Nat /\ 1000 * (M - 2) <= (M * (M + 2)) * d
  BY DEF Halving
<1>1. s \in Nat /\ t \in Nat \ {0} /\ 2 * t = M + 2
      /\ (2 * s = k + 2 \/ (2 * s = k + 1 /\ k <= M - 1))
  BY <1>0 DEF CeilHalf
<1> DEFINE kM == k * M
           sM == s * M
           D == (M * (M + 2)) * d
<1>2. kM \in Int /\ sM \in Int /\ D \in Nat
  <2>1. k \in Int /\ M \in Nat /\ d \in Nat
    BY <1>0
  <2>2. kM \in Int /\ sM \in Int
    BY <1>0, <1>1, <2>1
  <2>3. M * (M + 2) \in Nat
    BY <2>1
  <2> QED BY <2>1, <2>2, <2>3
<1>3. 1000 * (kM + 2 * k) <= 2000 * sM + D
  <2>1. CASE 2 * s = k + 2
    <3>1. 2 * sM = kM + 2 * M
      <4>1. 2 * sM = (2 * s) * M
        BY <1>0, <1>1
      <4> QED BY <1>0, <2>1, <4>1
    <3> HIDE DEF kM, sM, D
    <3> QED BY <1>0, <1>2, <3>1
  <2>2. CASE 2 * s = k + 1 /\ k <= M - 1
    <3>1. 2 * sM = kM + M
      <4>1. 2 * sM = (2 * s) * M
        BY <1>0, <1>1
      <4> QED BY <1>0, <2>2, <4>1
    <3>2. 1000 * (M - 2) <= D
      BY <1>0
    <3> HIDE DEF kM, sM, D
    <3> QED BY <1>0, <1>2, <2>2, <3>1, <3>2
  <2> QED BY <1>0, <1>1, <2>1, <2>2
<1> DEFINE a == 1000 * k
           c == 1000 * s + d * t
<1>4. a \in Int /\ c \in Int /\ a * t <= c * M
  <2>1. 2 * (a * t) = 1000 * (kM + 2 * k)
    <3>1. 2 * (a * t) = a * (2 * t) /\ a * (2 * t) = a * (M + 2)
      BY <1>0, <1>1
    <3>2. a * (M + 2) = 1000 * (kM + 2 * k)
      BY <1>0
    <3> QED BY <3>1, <3>2
  <2>2. 2 * (c * M) = 2000 * sM + D
    <3>1. 2 * (c * M) = (2000 * s + d * (2 * t)) * M
      BY <1>0, <1>1
    <3>2. (2000 * s + d * (M + 2)) * M = 2000 * sM + D
      BY <1>0, <1>1
    <3> QED BY <1>0, <1>1, <3>1, <3>2
  <2>3. a \in Int /\ c \in Int /\ a * t \in Int /\ c * M \in Int
    BY <1>0, <1>1
  <2> HIDE DEF a, c, kM, sM, D
  <2> QED BY <1>2, <1>3, <2>1, <2>2, <2>3
<1>5. RoundDiv(a, M) \in Int /\ RoundDiv(c, t) \in Int /\ RoundDiv(a, M) <= RoundDiv(c, t)
  <2> HIDE DEF a, c
  <2> QED BY <1>0, <1>1, <1>4, RoundMonotone
<1>6. RoundDiv(c, t) = RoundDiv(1000 * s, t) + d
  <2> DEFINE i == 1000 * s
  <2>1. i \in Int /\ d \in Int
    BY <1>0, <1>1
  <2> HIDE DEF i
  <2>2. RoundDiv(i + d * t, t) = RoundDiv(i, t) + d
    BY <1>0, <1>1, <2>1, RoundShift
  <2> QED BY <2>2 DEF i
<1>7. RoundDiv(1000 * s, t) \in Int
  <2>1. 1000 * s \in Int /\ 1000 * s <= 1000 * s
    BY <1>0, <1>1
  <2> QED BY <1>0, <1>1, <2>1, RoundOf
<1> QED BY <1>5, <1>6, <1>7

(* A score that loses at most c points, before it is rounded.               *)
LEMMA ScoreKeeps ==
  ASSUME NEW e \in Int, NEW f \in Int, NEW c \in Nat, e <= f + 1000 * c
  PROVE  Between(0, RoundDiv(f, 1000), 100) >= Between(0, RoundDiv(e, 1000), 100) - c
<1> DEFINE g == f + c * 1000
           i == RoundDiv(e, 1000)
           j == RoundDiv(f, 1000)
<1>1. 1000 \in Nat \ {0} /\ g \in Int /\ e <= g
  OBVIOUS
<1>2. RoundDiv(g, 1000) = j + c
  BY RoundShift
<1>3. i \in Int /\ j \in Int /\ i <= RoundDiv(g, 1000)
  <2> HIDE DEF g
  <2>1. f <= f
    OBVIOUS
  <2> QED BY <1>1, <2>1, RoundOf
<1> HIDE DEF g, i, j
<1>4. Between(0, j, 100) >= Between(0, i, 100) - c
  BY <1>2, <1>3 DEF Between
<1> QED BY <1>4 DEF i, j

(* What the counters add to a score before and after a best outcome.        *)
RateTerm(m, w) == RoundDiv(1000 * m.successes, m.tasks) * w.historical

Cost(m, w) == IF m.tasks = MAX_OBSERVATIONS THEN HalvingCost(w) ELSE 0

(* The counters m and what they are, n, after a success.                    *)
CountsUp(m, n) ==
    IF m.tasks = MAX_OBSERVATIONS
    THEN n.tasks = CeilHalf(MAX_OBSERVATIONS + 1) /\ n.successes = CeilHalf(m.successes + 1)
    ELSE n.tasks = m.tasks + 1 /\ n.successes = m.successes + 1

LEMMA SuccessIs ==
  ASSUME NEW m, Bounded(m)
  PROVE  CountsUp(m, UpdateMetrics(m, TRUE))
<1> DEFINE n == Incremented(m, TRUE)
<1>1. n.tasks = m.tasks + 1 /\ n.successes = m.successes + 1
  BY DEF Incremented
<1> DEFINE u == UpdateMetrics(m, TRUE)
<1>2. u = IF n.tasks > MAX_OBSERVATIONS THEN Halved(n) ELSE n
  BY DEF UpdateMetrics
<1> HIDE DEF n, u
<1>3. m.tasks \in Nat /\ m.tasks <= MAX_OBSERVATIONS /\ MAX_OBSERVATIONS \in Nat
  BY BoundAssumption DEF Bounded, Counters
<1>4. CASE m.tasks = MAX_OBSERVATIONS
  <2>1. u = Halved(n)
    BY <1>1, <1>2, <1>3, <1>4
  <2>2. u.tasks = CeilHalf(n.tasks) /\ u.successes = CeilHalf(n.successes)
    BY <2>1 DEF Halved
  <2> QED BY <1>1, <1>4, <2>2 DEF CountsUp, u
<1>5. CASE m.tasks # MAX_OBSERVATIONS
  <2>1. u = n
    BY <1>1, <1>2, <1>3, <1>5
  <2> QED BY <1>1, <1>5, <2>1 DEF CountsUp, u
<1> QED BY <1>4, <1>5

LEMMA RateKeeps ==
  ASSUME NEW m, Bounded(m), m.tasks > 0, NEW w \in Weights, NEW v, CountsUp(m, v)
  PROVE  /\ Cost(m, w) \in Nat
         /\ RateTerm(m, w) \in Int /\ RateTerm(v, w) \in Int
         /\ RateTerm(m, w) <= RateTerm(v, w) + 1000 * Cost(m, w)
<1> DEFINE M == MAX_OBSERVATIONS
           h == w.historical
           k == m.successes
           n == m.tasks
           s == v.successes
           t == v.tasks
<1>1. M \in Nat \ {0} /\ M % 2 = 0 /\ h \in Nat
  BY BoundAssumption, ScoringAssumption
<1>2. n \in Nat \ {0} /\ k \in 0 .. n /\ n <= M
  BY DEF Bounded, Counters
<1>3. RateTerm(m, w) = RoundDiv(1000 * k, n) * h /\ RateTerm(v, w) = RoundDiv(1000 * s, t) * h
  BY DEF RateTerm
<1>4. CASE n = M
  <2> DEFINE d == CeilDiv(1000 * (M - 2), M * (M + 2))
             c == CeilDiv(d * h, 1000)
             q == RoundDiv(1000 * k, M)
             r == RoundDiv(1000 * s, t)
  <2>1. d \in Nat /\ 1000 * (M - 2) <= (M * (M + 2)) * d
    <3>1. 1000 * (M - 2) \in Nat /\ M * (M + 2) \in Nat \ {0}
      <4>1. M >= 2
        BY <1>1
      <4>2. \A i \in Nat \ {0} : i * (i + 2) \in Nat \ {0}
        OBVIOUS
      <4> QED BY <1>1, <4>1, <4>2
    <3> QED BY <3>1, CeilDivIs
  <2>2. c \in Nat /\ d * h <= 1000 * c
    <3>1. d * h \in Nat /\ 1000 \in Nat \ {0}
      BY <1>1, <2>1
    <3> HIDE DEF d
    <3> QED BY <3>1, CeilDivIs
  <2>3. Cost(m, w) = c
    BY <1>4 DEF Cost, HalvingCost
  <2>4. s = CeilHalf(k + 1) /\ t = CeilHalf(M + 1)
    BY <1>4 DEF CountsUp
  <2>5. RateTerm(m, w) = q * h /\ RateTerm(v, w) = r * h
    BY <1>3, <1>4
  <2> HIDE DEF c, d, h, k, n, s, t
  <2>6. q \in Int /\ r \in Int /\ q <= r + d
    <3>1. Halving(M, k, s, t, d)
      BY <1>1, <1>2, <1>4, <2>1, <2>4 DEF Halving
    <3> QED BY <3>1, RateHalved
  <2> HIDE DEF M, q, r
  <2>7. q * h <= (r + d) * h
    BY <1>1, <2>1, <2>6, Times
  <2>8. (r + d) * h = r * h + d * h /\ q * h \in Int /\ r * h \in Int /\ d * h \in Int
    BY <1>1, <2>1, <2>6
  <2>9. q * h <= r * h + 1000 * c
    BY <2>2, <2>7, <2>8
  <2> QED BY <2>2, <2>3, <2>5, <2>8, <2>9
<1>5. CASE n # M
  <2>1. s = k + 1 /\ t = n + 1
    BY <1>5 DEF CountsUp
  <2>2. Cost(m, w) = 0
    BY <1>5 DEF Cost
  <2> HIDE DEF h, k, n, s, t
  <2>3. RateTerm(v, w) = RoundDiv(1000 * (k + 1), n + 1) * h
    BY <1>3, <2>1
  <2>4. RateTerm(m, w) \in Int /\ RateTerm(v, w) \in Int /\ RateTerm(m, w) <= RateTerm(v, w)
    BY <1>1, <1>2, <1>3, <2>3, RateRises
  <2> QED BY <2>2, <2>4
<1> QED BY <1>4, <1>5

-----------------------------------------------------------------------------
(* The rows are outcomes, one at least once a task was counted, and no      *)
(* more tasks succeed than are counted, nor are more counted than may be.   *)
ScoringInv ==
    /\ profile # Unknown => profile \in Profiles /\ weights \in Weights
    /\ learning \in BOOLEAN /\ rows \in Seq(Outcome)
    /\ Bounded(counters)
    /\ counters.tasks > 0 => rows # <<>>

LEMMA TailOfAppend ==
  ASSUME NEW S, NEW s \in Seq(S), NEW o \in S, s # <<>>
  PROVE  Tail(s) \in Seq(S) /\ Tail(Append(s, o)) = Append(Tail(s), o)
<1>1. Tail(s) \in Seq(S) /\ Len(s) \in Nat \ {0}
  OBVIOUS
<1> DEFINE a == Tail(Append(s, o))
           b == Append(Tail(s), o)
<1>2. /\ a \in Seq(S) /\ Len(a) = Len(s) /\ b \in Seq(S) /\ Len(b) = Len(s)
  <2> DEFINE c == Append(s, o)
  <2>1. c \in Seq(S) /\ Len(c) = Len(s) + 1
    OBVIOUS
  <2> HIDE DEF c
  <2>2. Tail(c) \in Seq(S) /\ Len(Tail(c)) = Len(c) - 1
    BY <1>1, <2>1
  <2>3. a \in Seq(S) /\ Len(a) = Len(s)
    BY <1>1, <2>1, <2>2 DEF c
  <2> QED BY <1>1, <2>3
<1>3. ASSUME NEW i \in 1 .. Len(s) PROVE a[i] = b[i]
  <2>1. a[i] = Append(s, o)[i + 1]
    BY <1>1
  <2>2. CASE i = Len(s)
    BY <1>1, <2>1, <2>2
  <2>3. CASE i # Len(s)
    BY <1>1, <2>1, <2>3
  <2> QED BY <2>2, <2>3
<1> HIDE DEF a, b
<1>4. a = b
  BY <1>2, <1>3
<1> QED BY <1>1, <1>4 DEF a, b

(* What is recorded is the last row, and no row but the oldest goes.        *)
LEMMA RecordGoesOn ==
  ASSUME rows \in Seq(Outcome), NEW o \in Outcome, Record(o)
  PROVE  rows' \in Seq(Outcome) /\ rows' # <<>> /\ GoesOn(rows, rows', o)
<1> DEFINE all == Append(rows, o)
<1>1. all \in Seq(Outcome) /\ Len(all) = Len(rows) + 1 /\ all # <<>>
  <2>1. Len(rows) \in Nat /\ all \in Seq(Outcome) /\ Len(all) = Len(rows) + 1
    OBVIOUS
  <2> HIDE DEF all
  <2> QED BY <2>1
<1>2. rows' = IF Len(all) > maxOutcomes THEN Tail(all) ELSE all
  BY DEF Record
<1>3. CASE Len(all) > maxOutcomes
  <2>1. rows # <<>> /\ Len(rows) \in Nat
    BY <1>1, <1>3, ScoringAssumption
  <2>2. Tail(rows) \in Seq(Outcome) /\ rows' = Append(Tail(rows), o)
    BY <1>2, <1>3, <2>1, TailOfAppend
  <2>3. rows' \in Seq(Outcome) /\ rows' # <<>>
    BY <2>2
  <2> QED BY <2>1, <2>2, <2>3 DEF GoesOn
<1>4. CASE ~(Len(all) > maxOutcomes)
  BY <1>1, <1>2, <1>4 DEF GoesOn
<1> QED BY <1>3, <1>4

LEMMA ScoringInvariant == ScoringSpec => []ScoringInv
<1>1. ScoringInit => ScoringInv
  BY BoundAssumption DEF ScoringInit, ScoringInv, Bounded, Counters, NoObservations
<1>2. ScoringInv /\ [ScoringNext]_scoringVars => ScoringInv'
  <2> SUFFICES ASSUME ScoringInv, [ScoringNext]_scoringVars PROVE ScoringInv'
    OBVIOUS
  <2>1. CASE Choose
    BY <2>1 DEF Choose, ScoringInv
  <2>2. CASE Toggle
    BY <2>2 DEF Toggle, ScoringInv
  <2>3. ASSUME NEW o \in Outcomes, Record(o) PROVE ScoringInv'
    <3>1. o \in Outcome /\ rows \in Seq(Outcome)
      BY ScoringAssumption DEF ScoringInv
    <3>2. rows' \in Seq(Outcome) /\ rows' # <<>>
      BY <2>3, <3>1, RecordGoesOn
    <3>3. Bounded(counters)' /\ o.success \in BOOLEAN
      <4>1. o.success \in BOOLEAN
        BY <3>1 DEF Outcome
      <4>2. Bounded(UpdateMetrics(counters, o.success))
        BY <4>1, Recorded DEF ScoringInv
      <4> QED BY <2>3, <4>1, <4>2 DEF Record
    <3>4. UNCHANGED <<profile, weights, learning>>
      BY <2>3 DEF Record
    <3> QED BY <3>2, <3>3, <3>4 DEF ScoringInv
  <2>4. CASE UNCHANGED scoringVars
    BY <2>4 DEF scoringVars, ScoringInv
  <2> QED BY <2>1, <2>2, <2>3, <2>4 DEF ScoringNext
<1> QED BY <1>1, <1>2, PTL DEF ScoringSpec

(* Without outcomes, every term is a number.                                *)
LEMMA UnlearnedTyped ==
  ASSUME NEW p \in Profiles, NEW w \in Weights
  PROVE  /\ Quality(p, Unknown) \in Int /\ Latency(p, Unknown, w) \in Int
         /\ Reputation(Unknown, w) = 0
<1>1. /\ p.completeness \in Int
      /\ p.quality = Unknown \/ p.quality \in Int
      /\ p.reliability = Unknown \/ p.reliability \in Int
      /\ p.latency = Unknown \/ p.latency \in Nat
      /\ w.latency \in Nat
  BY ScoringAssumption DEF Number
<1>2. Latency(p, Unknown, w) \in Int
  <2>1. CASE p.latency = Unknown
    BY <2>1 DEF Latency
  <2>2. CASE p.latency # Unknown
    <3>1. p.latency \in Nat /\ Latency(p, Unknown, w) = -1000 * p.latency * w.latency
      BY <1>1, <2>2 DEF Latency
    <3>2. \A n, k \in Nat : -1000 * n * k \in Int
      OBVIOUS
    <3> QED BY <1>1, <3>1, <3>2
  <2> QED BY <2>1, <2>2
<1> DEFINE q == 80 * p.reliability
           r == IF p.reliability = Unknown THEN 0 ELSE RoundDiv(q, 100)
           surface == 4 * p.completeness + r
           derived == RoundDiv(surface, 4)
<1>3. derived \in Int
  <2>1. 4 \in Nat \ {0} /\ 100 \in Nat \ {0}
    OBVIOUS
  <2>2. r \in Int
    <3>1. CASE p.reliability \in Int
      <4>1. q \in Int /\ (r = 0 \/ r = RoundDiv(q, 100))
        BY <3>1
      <4> HIDE DEF q, r
      <4>2. RoundDiv(q, 100) \in Int
        BY <2>1, <4>1, RoundOf
      <4> QED BY <4>1, <4>2
    <3>2. CASE p.reliability = Unknown
      BY <3>2
    <3> QED BY <1>1, <3>1, <3>2
  <2> HIDE DEF r
  <2>3. surface \in Int
    BY <1>1, <2>2
  <2> HIDE DEF surface
  <2> QED BY <2>1, <2>3, RoundOf
<1>4. \/ Quality(p, Unknown) = p.quality /\ p.quality # Unknown
      \/ Quality(p, Unknown) = Between(0, derived, 100)
  BY DEF Quality
<1>5. Quality(p, Unknown) \in Int
  <2> HIDE DEF derived
  <2>1. Between(0, derived, 100) \in Int
    BY <1>3 DEF Between
  <2> QED BY <1>1, <1>4, <2>1
<1> QED BY <1>2, <1>5 DEF Reputation

LEMMA BestRaises ==
  ASSUME ScoringInv, ScoringInv', profile # Unknown, counters.tasks > 0, Record(Best)
  PROVE  Score' >= Score - Cost(counters, weights)
<1>1. /\ profile \in Profiles /\ weights \in Weights /\ learning \in BOOLEAN
      /\ rows \in Seq(Outcome) /\ rows # <<>>
      /\ Bounded(counters)
  BY DEF ScoringInv
<1>2. /\ profile' = profile /\ weights' = weights /\ learning' = learning
  BY DEF Record, Best
<1>14. counters' = UpdateMetrics(counters, TRUE)
  BY DEF Record, Best
<1>3. rows' \in Seq(Outcome) /\ rows' # <<>> /\ GoesOn(rows, rows', Best)
  BY <1>1, BestIsTyped, RecordGoesOn
<1> DEFINE p == profile
           w == weights
           x == Summary(rows)
           y == Summary(rows')
<1>4. Better(y, x) /\ x # Unknown /\ y # Unknown
  BY <1>1, <1>3, BestIsBetter, SummaryTyped
<1>5. p.other \in Int /\ w.quality \in Nat /\ w.historical \in Nat
  BY <1>1, ScoringAssumption
<1> DEFINE h == RateTerm(counters, w)
           k == RateTerm(counters', w)
           c == Cost(counters, w)
<1>6. h \in Int /\ k \in Int /\ c \in Nat /\ h <= k + 1000 * c
  <2>1. CountsUp(counters, counters')
    BY <1>1, <1>14, SuccessIs
  <2> QED BY <1>1, <2>1, RateKeeps
<1>7. Historical(p, w) = h
  BY DEF Historical, RateTerm
<1>8. (Historical(p, w))' = k
  <2>1. counters'.tasks > 0
    BY <1>1, <1>14, Recorded
  <2> QED BY <1>2, <2>1 DEF Historical, RateTerm
<1> DEFINE Weighed(z, l) == 1000 * p.other + 10 * Quality(p, z) * w.quality
                           + l + Reputation(z, w) + Latency(p, z, w)
<1>9. Score = Between(0, RoundDiv(Weighed(outcomes, h), 1000), 100)
  BY <1>7 DEF Score, ScoreOf
<1>10. Score' = Between(0, RoundDiv(Weighed(outcomes', k), 1000), 100)
  BY <1>2, <1>8 DEF Score, ScoreOf
<1>11. ASSUME NEW z, NEW v, Quality(p, z) \in Int, Quality(p, v) \in Int,
              Quality(p, z) <= Quality(p, v),
              Reputation(z, w) \in Int, Reputation(v, w) \in Int,
              Reputation(z, w) <= Reputation(v, w),
              Latency(p, z, w) \in Int, Latency(p, v, w) \in Int,
              Latency(p, z, w) <= Latency(p, v, w)
       PROVE  Between(0, RoundDiv(Weighed(v, k), 1000), 100)
                >= Between(0, RoundDiv(Weighed(z, h), 1000), 100) - c
  <2> DEFINE a == Quality(p, z)
             b == Quality(p, v)
             o == p.other
             u == w.quality
             e == Reputation(z, w)
             f == Reputation(v, w)
             i == Latency(p, z, w)
             j == Latency(p, v, w)
             m == 1000 * o + 10 * a * u
             n == 1000 * o + 10 * b * u
  <2>1. /\ a \in Int /\ b \in Int /\ a <= b /\ o \in Int /\ u \in Nat
        /\ e \in Int /\ f \in Int /\ e <= f /\ i \in Int /\ j \in Int /\ i <= j
    BY <1>5, <1>11
  <2>2. Weighed(z, h) = m + h + e + i /\ Weighed(v, k) = n + k + f + j
    OBVIOUS
  <2> HIDE DEF a, b, o, u, e, f, i, j, h, k, c
  <2>3. m \in Int /\ n \in Int /\ m <= n
    <3>1. a * u <= b * u /\ a * u \in Int /\ b * u \in Int
      BY <2>1, Times
    <3>2. 10 * a * u = 10 * (a * u) /\ 10 * b * u = 10 * (b * u)
      BY <2>1
    <3> QED BY <2>1, <3>1, <3>2
  <2> HIDE DEF m, n
  <2>4. /\ m + h + e + i \in Int /\ n + k + f + j \in Int
        /\ m + h + e + i <= (n + k + f + j) + 1000 * c
    BY <1>6, <2>1, <2>3
  <2> HIDE DEF Weighed
  <2> QED BY <1>6, <2>2, <2>4, ScoreKeeps
<1>12. CASE learning
  <2>1. outcomes = x /\ outcomes' = y
    BY <1>1, <1>2, <1>3, <1>12 DEF outcomes
  <2>2. /\ Quality(p, x) \in Int /\ Quality(p, y) \in Int /\ Quality(p, x) <= Quality(p, y)
        /\ Reputation(x, w) \in Int /\ Reputation(y, w) \in Int
        /\ Reputation(x, w) <= Reputation(y, w)
        /\ Latency(p, x, w) \in Int /\ Latency(p, y, w) \in Int
        /\ Latency(p, x, w) <= Latency(p, y, w)
    <3> HIDE DEF x, y
    <3> QED BY <1>1, <1>4, QualityRises, ReputationRises, LatencyRises
  <2>3. Between(0, RoundDiv(Weighed(y, k), 1000), 100)
          >= Between(0, RoundDiv(Weighed(x, h), 1000), 100) - c
    <3> HIDE DEF x, y, Weighed
    <3> QED BY <1>11, <2>2
  <2> HIDE DEF Weighed, h, k, c, x, y
  <2> QED BY <1>9, <1>10, <2>1, <2>3 DEF c
<1>13. CASE ~learning
  <2>1. outcomes = Unknown /\ outcomes' = Unknown
    BY <1>2, <1>13 DEF outcomes
  <2>2. /\ Quality(p, Unknown) \in Int /\ Latency(p, Unknown, w) \in Int
        /\ Reputation(Unknown, w) = 0
    BY <1>1, UnlearnedTyped
  <2>3. /\ Quality(p, Unknown) <= Quality(p, Unknown) /\ Reputation(Unknown, w) \in Int
        /\ Reputation(Unknown, w) <= Reputation(Unknown, w)
        /\ Latency(p, Unknown, w) <= Latency(p, Unknown, w)
    BY <2>2
  <2>4. Between(0, RoundDiv(Weighed(Unknown, k), 1000), 100)
          >= Between(0, RoundDiv(Weighed(Unknown, h), 1000), 100) - c
    <3> HIDE DEF Weighed
    <3> QED BY <1>11, <2>2, <2>3
  <2> HIDE DEF Weighed, h, k, c
  <2> QED BY <1>9, <1>10, <2>1, <2>4 DEF c
<1> QED BY <1>12, <1>13

(* However outcomes are averaged, mixed and rounded, and whatever row is    *)
(* pushed out, the best outcome does not lower the score of what was        *)
(* observed before, unless the counters were at their bound: halving them   *)
(* may then lower it, by HalvingCost at most.  With learning disabled no    *)
(* summary reaches the scorer.  Of every profile, all weights, every even   *)
(* bound and every history (scoreSingleCapability,                          *)
(* analyzeCapabilityQuality, OutcomeStore.record, updateMetrics).           *)
THEOREM LearningStaysSane == ScoringSpec => LearningIsSane
<1>1. ASSUME ScoringInv, ScoringInv'
      PROVE  [(profile # Unknown /\ counters.tasks > 0) =>
                /\ Record(Best) =>
                      Score' >= Score - IF counters.tasks = MAX_OBSERVATIONS
                                        THEN HalvingCost(weights) ELSE 0
                /\ ~learning => Score = ScoreOf(profile, Unknown, weights)]_scoringVars
  <2>1. ASSUME ~learning PROVE Score = ScoreOf(profile, Unknown, weights)
    BY <2>1 DEF Score, outcomes
  <2> QED BY <1>1, <2>1, BestRaises DEF Cost
<1> QED BY <1>1, ScoringInvariant, PTL DEF LearningIsSane

===============================================================================
