-------------------------------- MODULE Schema --------------------------------
(***************************************************************************)
(* SqliteStorage.init and migrate (src/storage/sqlite.ts): every command   *)
(* opens the one database file and brings its schema up to date before it  *)
(* does anything else.  Commands run in processes of their own, so that    *)
(* several of them may find an old schema at the same time, and any may be *)
(* killed between two statements.                                          *)
(*                                                                         *)
(* SQLite (external): a transaction becomes visible as a whole when it is  *)
(* committed, one writer holds the lock from its first write on, a second  *)
(* one gets SQLITE_BUSY (no busy timeout is set), and a killed writer      *)
(* leaves nothing behind.  Migration number m stands for its tables.       *)
(***************************************************************************)
EXTENDS Integers

CONSTANTS Procs,  \* the commands that may run
          Latest, \* the number of migrations
          Nobody  \* the owner of a lock that is free

ASSUME SchemaAssumption == Latest \in Nat \ {0} /\ Nobody \notin Procs

VARIABLES userVersion,  \* PRAGMA user_version
          tables,       \* the migrations whose tables are in the database
          writer,       \* who holds the write lock
          draft,        \* what its transaction has done: tables, user_version
          step,         \* step[p]: the statement p is at
          version       \* version[p]: migrate's own `version`

schemaVars == <<userVersion, tables, writer, draft, step, version>>

Clean == [tables |-> {}, stamped |-> FALSE]

SchemaInit ==
    /\ userVersion = 0 /\ tables = {}
    /\ writer = Nobody /\ draft = Clean
    /\ step = [p \in Procs |-> "closed"] /\ version = [p \in Procs |-> 0]

(* init: the version is read outside of any transaction.                    *)
Open(p) ==
    /\ step[p] = "closed"
    /\ version' = [version EXCEPT ![p] = userVersion]
    /\ step' = [step EXCEPT ![p] = "loop"]
    /\ UNCHANGED <<userVersion, tables, writer, draft>>

(* The loop head: BEGIN takes no lock yet.                                  *)
BeginMigration(p) ==
    /\ step[p] = "loop"
    /\ step' = [step EXCEPT ![p] = IF version[p] < Latest THEN "begun" ELSE "open"]
    /\ UNCHANGED <<userVersion, tables, writer, draft, version>>

(* A fault: the tables are made if they do not exist.                       *)
CreateUnguarded(p) ==
    /\ step[p] = "begun"
    /\ IF writer # Nobody
       THEN step' = [step EXCEPT ![p] = "closed"] /\ UNCHANGED <<writer, draft, version>>
       ELSE /\ writer' = p
            /\ draft' = [draft EXCEPT !.tables = {version[p] + 1}]
            /\ version' = [version EXCEPT ![p] = @ + 1]
            /\ step' = [step EXCEPT ![p] = "created"]
    /\ UNCHANGED <<userVersion, tables>>

(* The first CREATE TABLE takes the write lock; busy or not first, it       *)
(* throws, and the transaction is rolled back: init fails with E_STORAGE.   *)
Create(p) ==
    /\ step[p] = "begun"
    /\ IF writer # Nobody \/ version[p] + 1 \in tables
       THEN step' = [step EXCEPT ![p] = "closed"] /\ UNCHANGED <<writer, draft, version>>
       ELSE /\ writer' = p
            /\ draft' = [draft EXCEPT !.tables = {version[p] + 1}]
            /\ version' = [version EXCEPT ![p] = @ + 1]
            /\ step' = [step EXCEPT ![p] = "created"]
    /\ UNCHANGED <<userVersion, tables>>

Stamp(p) ==
    /\ step[p] = "created"
    /\ draft' = [draft EXCEPT !.stamped = TRUE]
    /\ step' = [step EXCEPT ![p] = "stamped"]
    /\ UNCHANGED <<userVersion, tables, writer, version>>

Commit(p) ==
    /\ step[p] = "stamped"
    /\ tables' = tables \cup draft.tables
    /\ userVersion' = IF draft.stamped THEN version[p] ELSE userVersion
    /\ writer' = Nobody /\ draft' = Clean
    /\ step' = [step EXCEPT ![p] = "loop"]
    /\ UNCHANGED version

(* The command ends, or is killed wherever it is.                           *)
Exit(p) ==
    /\ step[p] # "closed"
    /\ step' = [step EXCEPT ![p] = "closed"]
    /\ writer' = IF writer = p THEN Nobody ELSE writer
    /\ draft' = IF writer = p THEN Clean ELSE draft
    /\ UNCHANGED <<userVersion, tables, version>>

SchemaNext == \E p \in Procs : Open(p) \/ BeginMigration(p) \/ Create(p) \/ Stamp(p)
                               \/ Commit(p) \/ Exit(p)

SchemaSpec == SchemaInit /\ [][SchemaNext]_schemaVars

-----------------------------------------------------------------------------
SchemaTypeOK ==
    /\ userVersion \in 0 .. Latest /\ tables \in SUBSET (1 .. Latest)
    /\ writer \in Procs \cup {Nobody}
    /\ draft \in [tables : SUBSET (1 .. Latest), stamped : BOOLEAN]
    /\ step \in [Procs -> {"closed", "loop", "begun", "created", "stamped", "open"}]
    /\ version \in [Procs -> 0 .. Latest]

(* However many commands migrate at once, from versions they read before    *)
(* others committed, and wherever they are killed: the recorded version is  *)
(* that of the tables there are, so that the next migration can always be   *)
(* applied, and a command that gets past init has every table               *)
(* (sqlite.ts:167-196).                                                     *)
SchemaMatchesVersion ==
    /\ tables = 1 .. userVersion
    /\ \A p \in Procs : step[p] = "open" => tables = 1 .. Latest

(* What a process in the middle of a migration knows: its version is not    *)
(* ahead of the committed one, except by the migration it is writing.       *)
Migrating == {"created", "stamped"}

SchemaInv ==
    /\ SchemaTypeOK
    /\ SchemaMatchesVersion
    /\ \A p \in Procs :
         /\ step[p] \in Migrating <=> writer = p
         /\ step[p] = "begun" => version[p] < Latest
         /\ step[p] \in {"loop", "begun", "open"} => version[p] <= userVersion
         /\ step[p] = "open" => version[p] = Latest
         /\ step[p] \in Migrating =>
              version[p] = userVersion + 1 /\ draft.tables = {version[p]}
         /\ step[p] = "stamped" => draft.stamped
    /\ writer = Nobody => draft = Clean
=============================================================================
