-------------------------------- MODULE Corpus --------------------------------
(***************************************************************************)
(* The corpus and its embeddings (src/corpus, src/retrieval): `index`      *)
(* stores a record of the text of every capability in the registry, drops  *)
(* the records of capabilities that are gone (indexCorpus), and brings the *)
(* dense embeddings of the sections up to date (refreshEmbeddings).        *)
(*                                                                         *)
(* Nothing of this is a transaction: `index` runs in several processes, on *)
(* snapshots it read when it started, one row after the other, while texts *)
(* and registry change; an embedding request may fail, and a process may   *)
(* be killed between any two rows.  Capabilities are taken in any order    *)
(* (by id in the code).  A text is its content hash and its                *)
(* sections; --changed writes only records that differ, which stores the   *)
(* same, and is left out.                                                  *)
(***************************************************************************)
EXTENDS Naturals, FiniteSets

CONSTANTS Caps, Sections,
          Contents,   \* the texts: records of a hash and a set of sections
          Models,     \* the embedding models: provider name and dimension
          Indexers,   \* the processes that run `index`
          NoContent,  \* a body directory, or a record, that is not there
          MaxChanges, \* bound: how often the world around changes
          MaxRuns     \* bound: how often `index` is started

ASSUME CorpusAssumption ==
    /\ Contents \subseteq [hash : Nat, sections : SUBSET Sections]
    /\ \A a, b \in Contents : a.hash = b.hash => a = b
    /\ NoContent \notin Contents
    /\ MaxChanges \in Nat /\ MaxRuns \in Nat

VARIABLES registry,   \* the capabilities table
          body,       \* body[c]: the text on disk, found by resolveBodyDir
          record,     \* the corpus_records table
          embeddings, \* the embeddings table: section -> model and hash
          model,      \* the embedding model that is configured now
          job,        \* job[p]: what indexer p is doing
          changes, runs

corpusVars == <<registry, body, record, embeddings, model, job, changes, runs>>

Row == [section : Sections, model : Models, hash : Nat]

Idle == [at |-> "idle", live |-> {}, left |-> {}, cap |-> {}, rows |-> {},
         records |-> <<>>, model |-> "", all |-> FALSE, failed |-> FALSE, alone |-> FALSE]

Busy == {p \in Indexers : job[p].at \notin {"idle", "done"}}
Set(p, j) == job' = [job EXCEPT ![p] = j]
Done(p, c) == Set(p, [job[p] EXCEPT !.left = @ \ {c}])

CorpusInit ==
    /\ registry = Caps /\ body = [c \in Caps |-> NoContent]
    /\ record = [c \in Caps |-> NoContent] /\ embeddings = [c \in Caps |-> {}]
    /\ model \in Models
    /\ job = [p \in Indexers |-> Idle]
    /\ changes = 0 /\ runs = 0

-----------------------------------------------------------------------------
(* The world around: texts are edited, capabilities come and go, and the    *)
(* configuration, or the API key it names, changes.                         *)
Change ==
    /\ changes < MaxChanges /\ changes' = changes + 1
    /\ \/ \E c \in Caps, t \in Contents \cup {NoContent} :
             body' = [body EXCEPT ![c] = t] /\ UNCHANGED <<registry, model>>
       \/ \E S \in SUBSET Caps : registry' = S /\ UNCHANGED <<body, model>>
       \/ model' \in Models /\ UNCHANGED <<body, registry>>
    /\ UNCHANGED <<record, embeddings, job, runs>>

(* `index`, of everything or (-c) of one capability.                        *)
Start(p) ==
    /\ job[p].at \in {"idle", "done"} /\ runs < MaxRuns /\ runs' = runs + 1
    /\ \E only \in {{}} \cup {{c} : c \in Caps} :
         job' = [q \in Indexers |->
                  IF q = p
                  THEN [Idle EXCEPT !.at = "index", !.live = registry, !.model = model,
                                    !.left = IF only = {} THEN registry ELSE registry \cap only,
                                    !.all = only = {}, !.alone = Busy = {}]
                  ELSE [job[q] EXCEPT !.alone = FALSE]]
    /\ UNCHANGED <<registry, body, record, embeddings, model, changes>>

(* A process is killed.                                                     *)
Kill(p) ==
    /\ p \in Busy /\ Set(p, Idle)
    /\ UNCHANGED <<registry, body, record, embeddings, model, changes, runs>>

(* indexCorpus, one capability: without a body directory it is skipped, and *)
(* when its text cannot be read it fails; either way an old record stays.   *)
IndexOne(p) ==
    /\ job[p].at = "index"
    /\ \E c \in job[p].left :
         /\ Done(p, c)
         /\ \/ body[c] # NoContent /\ record' = [record EXCEPT ![c] = body[c]]
            \/ UNCHANGED record
    /\ UNCHANGED <<registry, body, embeddings, model, changes, runs>>

(* Then the records of capabilities that were not in the registry go.       *)
Indexed(p) ==
    /\ job[p].at = "index" /\ job[p].left = {}
    /\ Set(p, [job[p] EXCEPT !.at = "sweep",
                             !.left = {c \in Caps \ job[p].live : record[c] # NoContent}])
    /\ UNCHANGED <<registry, body, record, embeddings, model, changes, runs>>

SweepOne(p) ==
    /\ job[p].at = "sweep"
    /\ \E c \in job[p].left : Done(p, c) /\ record' = [record EXCEPT ![c] = NoContent]
    /\ UNCHANGED <<registry, body, embeddings, model, changes, runs>>

-----------------------------------------------------------------------------
(* refreshEmbeddings, unless only one capability was asked for: it works on *)
(* the records as they are when it starts.                                  *)
RefreshStart(p) ==
    /\ job[p].at = "sweep" /\ job[p].left = {}
    /\ Set(p, IF job[p].all
              THEN [job[p] EXCEPT !.at = "refresh", !.records = record,
                                  !.left = {c \in Caps : record[c] # NoContent}]
              ELSE [job[p] EXCEPT !.at = "done"])
    /\ UNCHANGED <<registry, body, record, embeddings, model, changes, runs>>

(* The rows that belong to the text t under model m.                        *)
RowsOf(t, m) == {[section |-> s, model |-> m, hash |-> t.hash] : s \in t.sections}

(* A fault: the hash of the text is not compared.                           *)
CurrentByModel(c, t, m) ==
    \A s \in t.sections : \E r \in embeddings[c] : r.section = s /\ r.model = m

(* c has a row with the model and the hash for every section.               *)
Current(c, t, m) == RowsOf(t, m) \subseteq embeddings[c]

(* A capability whose rows are current, or whose text is empty, is skipped; *)
(* otherwise its vectors are requested, and a request that fails leaves the *)
(* rows there are.                                                          *)
CheckOne(p) ==
    /\ job[p].at = "refresh"
    /\ \E c \in job[p].left :
         LET t == job[p].records[c] IN
         IF t.sections = {} \/ Current(c, t, job[p].model) THEN Done(p, c)
         ELSE \/ Set(p, [job[p] EXCEPT !.left = @ \ {c}, !.failed = TRUE])
              \/ Set(p, [job[p] EXCEPT !.at = "embedded", !.left = @ \ {c}, !.cap = {c},
                                       !.rows = RowsOf(t, job[p].model)])
    /\ UNCHANGED <<registry, body, record, embeddings, model, changes, runs>>

(* The old rows are deleted, and the new ones stored one by one.            *)
DeleteRows(p) ==
    /\ job[p].at = "embedded"
    /\ Set(p, [job[p] EXCEPT !.at = "store"])
    /\ embeddings' = [c \in Caps |-> IF c \in job[p].cap THEN {} ELSE embeddings[c]]
    /\ UNCHANGED <<registry, body, record, model, changes, runs>>

Upsert(rows, r) == {x \in rows : x.section # r.section} \cup {r}

StoreRow(p) ==
    /\ job[p].at = "store"
    /\ \E r \in job[p].rows :
         /\ embeddings' = [c \in Caps |-> IF c \in job[p].cap THEN Upsert(embeddings[c], r)
                                          ELSE embeddings[c]]
         /\ Set(p, [job[p] EXCEPT !.rows = @ \ {r},
                                  !.at = IF job[p].rows = {r} THEN "refresh" ELSE "store"])
    /\ UNCHANGED <<registry, body, record, model, changes, runs>>

(* At last the rows of capabilities that had no record go.                  *)
DropDeadStart(p) ==
    /\ job[p].at = "refresh" /\ job[p].left = {}
    /\ Set(p, [job[p] EXCEPT !.at = "drop",
                 !.left = {c \in Caps : embeddings[c] # {} /\ job[p].records[c] = NoContent}])
    /\ UNCHANGED <<registry, body, record, embeddings, model, changes, runs>>

DropDead(p) ==
    /\ job[p].at = "drop"
    /\ IF job[p].left = {}
       THEN Set(p, [job[p] EXCEPT !.at = "done"]) /\ UNCHANGED embeddings
       ELSE \E c \in job[p].left : Done(p, c) /\ embeddings' = [embeddings EXCEPT ![c] = {}]
    /\ UNCHANGED <<registry, body, record, model, changes, runs>>

IndexStep(p) == IndexOne(p) \/ Indexed(p) \/ SweepOne(p) \/ RefreshStart(p) \/ CheckOne(p)
                \/ DeleteRows(p) \/ StoreRow(p) \/ DropDeadStart(p) \/ DropDead(p)

CorpusNext == Change \/ \E p \in Indexers : Start(p) \/ Kill(p) \/ IndexStep(p)

CorpusSpec == CorpusInit /\ [][CorpusNext]_corpusVars

-----------------------------------------------------------------------------
(* retrieve: the capabilities the two searches can find in their tables.    *)
Sparse == {c \in Caps : record[c] # NoContent /\ record[c].sections # {}}
Dense == {c \in Caps : embeddings[c] # {}}

(* An `index` of everything that had the tables to itself, and none of      *)
(* whose requests failed, leaves them in step, whatever earlier ones that   *)
(* were killed, failed or ran at the same time have left behind: every      *)
(* section of every record has the vector of its present text under the     *)
(* present model, and whatever the dense search finds has a record, which   *)
(* the sparse search finds too unless its text is empty                     *)
(* (retrieval/index.ts:130-178, corpus/indexer.ts:29-68).                   *)
EmbeddingsFresh ==
    \A p \in Indexers :
      (job[p].at = "done" /\ job[p].alone /\ job[p].all /\ ~job[p].failed) =>
        /\ \A c \in Sparse : RowsOf(record[c], job[p].model) \subseteq embeddings[c]
        /\ \A c \in Dense : record[c] # NoContent
        /\ Sparse \subseteq Dense
=============================================================================
