-------------------------------- MODULE Sources --------------------------------
(***************************************************************************)
(* The registry and where it comes from (src/registry/indexer.ts,          *)
(* sources.ts, discovery.ts): refreshAll indexes the builtin catalog, then *)
(* the project's and the user's directories, then the configured sources,  *)
(* and stores every capability it finds; who comes later wins.             *)
(*                                                                         *)
(* `init`, `doctor`, `source add` and others refresh, in processes that    *)
(* share the table of capabilities and the clones of git sources, while    *)
(* trees and repositories are edited; a process may be killed between any  *)
(* two rows.  A tree offers at most one version of a capability, and its   *)
(* capabilities are stored in any order (in that of the walk).             *)
(***************************************************************************)
EXTENDS Naturals, Sequences, SequencesExt

CONSTANTS Offered,       \* the capabilities
          Texts,         \* their versions
          Builtin,       \* the catalog that comes with the program
          ProjectDirs,   \* the project's directories: the first that exists counts
          UserDirs,      \* the user's directories, in order
          Urls, Paths,   \* the repositories, and the other locations of sources
          Names,         \* the names of sources
          CacheOf,       \* the clone's directory, by source name or url
          Refreshers,    \* the processes
          Gone,          \* a tree that is not there, a row that is not there
          FirstTrees,    \* bound: what the places may hold at first
          EditedTrees,   \* bound: what a place may hold after an edit
          MaxTreeEdits,  \* bound: how often trees and sources are edited by hand
          MaxRefreshes   \* bound: how many commands are started

(* A tree: the version it offers of each capability, and whether one of its *)
(* manifests cannot be loaded.                                              *)
Trees == [offers : [Offered -> Texts \cup {Gone}], broken : BOOLEAN]

Places == {Builtin} \cup Range(ProjectDirs) \cup Range(UserDirs) \cup Urls \cup Paths

ASSUME SourcesAssumption ==
    /\ ProjectDirs \in Seq(Range(ProjectDirs)) /\ UserDirs \in Seq(Range(UserDirs))
    /\ DOMAIN CacheOf = Names \cup Urls
    /\ FirstTrees \subseteq [Places -> Trees \cup {Gone}]
    /\ EditedTrees \subseteq Trees \cup {Gone}
    /\ Gone \notin Places
    /\ MaxTreeEdits \in Nat /\ MaxRefreshes \in Nat

VARIABLES tree,     \* tree[p]: what there is at a place
          clone,    \* clone[d]: the url it was cloned from, and its tree
          table,    \* the capabilities table: the version, and where it is from
          sources,  \* the configured sources
          refresh,  \* refresh[p]: what process p is doing
          treeEdits, refreshes

sourcesVars == <<tree, clone, table, sources, refresh, treeEdits, refreshes>>

Offers(t) == IF t = Gone THEN {} ELSE {c \in Offered : t.offers[c] # Gone}

(* A source that is a url is a repository, any other is a directory, for    *)
(* `--type` is a flag without a value; catalogs are written by hand.        *)
Added == [name : Names, type : {"git"}, at : Urls]
         \cup [name : Names, type : {"directory"}, at : Paths]
ByHand == [name : Names, type : {"catalog"}, at : Paths]

(* Where a refresh is: the stages to come, the capabilities that the        *)
(* present one has still to store, and what they are stored with.           *)
Resting == [at |-> "idle", stages |-> <<>>, found |-> {}, text |-> <<>>, from |-> Gone,
            failed |-> FALSE, alone |-> FALSE]

Refreshing == {p \in Refreshers : refresh[p].at \notin {"idle", "done"}}

SourcesInit ==
    /\ tree \in FirstTrees
    /\ clone = [d \in Range(CacheOf) |-> [url |-> Gone, tree |-> Gone]]
    /\ table = [c \in Offered |-> Gone]
    /\ sources = <<>>
    /\ refresh = [p \in Refreshers |-> Resting]
    /\ treeEdits = 0 /\ refreshes = 0

-----------------------------------------------------------------------------
(* Somebody edits a tree.  `alone` says that nothing happened beside a      *)
(* refresh, or after it; the properties refer to it, the code does not.     *)
EditTree ==
    /\ treeEdits < MaxTreeEdits /\ treeEdits' = treeEdits + 1
    /\ \E p \in Places, t \in EditedTrees : tree' = [tree EXCEPT ![p] = t]
    /\ refresh' = [p \in Refreshers |-> [refresh[p] EXCEPT !.alone = FALSE]]
    /\ UNCHANGED <<clone, table, sources, refreshes>>

(* refreshAll, on the sources of the configuration the process has read.    *)
StagesOf(configured) ==
    <<[type |-> "builtin", at |-> Builtin], [type |-> "project", at |-> Gone]>>
    \o [i \in DOMAIN UserDirs |-> [type |-> "user", at |-> UserDirs[i]]] \o configured

RefreshWith(p, configured) ==
    /\ refresh[p].at \in {"idle", "done"} /\ refreshes < MaxRefreshes
    /\ refreshes' = refreshes + 1
    /\ refresh' = [q \in Refreshers |->
         IF q = p
         THEN [Resting EXCEPT !.at = "stages", !.alone = Refreshing = {},
                 !.stages = StagesOf(configured)]
         ELSE [refresh[q] EXCEPT !.alone = FALSE]]
    /\ UNCHANGED <<tree, clone, table, treeEdits>>

RefreshAll(p) == RefreshWith(p, sources) /\ UNCHANGED sources

(* `source add`: an entry of that name is replaced where it is, a new one   *)
(* comes last; then everything is indexed.                                  *)
Add(s) ==
    IF \E i \in DOMAIN sources : sources[i].name = s.name
    THEN [i \in DOMAIN sources |-> IF sources[i].name = s.name THEN s ELSE sources[i]]
    ELSE Append(sources, s)

SourceAdd(p) ==
    \E s \in Added : sources' = Add(s) /\ RefreshWith(p, sources')

(* Somebody writes a source into the configuration.                         *)
WriteSource ==
    /\ treeEdits < MaxTreeEdits /\ treeEdits' = treeEdits + 1
    /\ \E s \in ByHand : sources' = Add(s)
    /\ refresh' = [p \in Refreshers |-> [refresh[p] EXCEPT !.alone = FALSE]]
    /\ UNCHANGED <<tree, clone, table, refreshes>>

(* `source remove` leaves the clone, and the rows of the source.  It drops  *)
(* all of a name; there is one, as whoever adds replaces.                   *)
SourceRemove ==
    /\ \E i \in DOMAIN sources : sources' = RemoveAt(sources, i)
    /\ refresh' = [p \in Refreshers |-> [refresh[p] EXCEPT !.alone = FALSE]]
    /\ UNCHANGED <<tree, clone, table, treeEdits, refreshes>>

-----------------------------------------------------------------------------
(* fetchSource of a git source: a directory without a clone gets one, and   *)
(* one with a clone is pulled, from wherever it was cloned.                 *)
Pulled(d, url) ==
    LET origin == IF clone[d].url = Gone THEN url ELSE clone[d].url
    IN  [url |-> origin, tree |-> tree[origin]]

(* discoverCatalogTree gives all of a tree or, when one of its manifests    *)
(* cannot be loaded, throws; of a catalog's file, the items before the one  *)
(* that cannot be loaded stay.                                              *)
Loads(t) == t # Gone /\ ~t.broken

Skip(p, failed) ==
    refresh' = [refresh EXCEPT ![p].stages = Tail(@), ![p].failed = @ \/ failed]
Found(p, t, items, from, failed) ==
    refresh' = [refresh EXCEPT ![p].at = "store", ![p].stages = Tail(@), ![p].found = items,
                               ![p].text = t.offers, ![p].from = from,
                               ![p].failed = @ \/ failed]
Abort(p) ==
    refresh' = [refresh EXCEPT ![p].at = "done", ![p].stages = <<>>, ![p].failed = TRUE]

(* findProjectSkillDir: the first of the project's directories that exists. *)
Existing == {i \in DOMAIN ProjectDirs : tree[ProjectDirs[i]] # Gone}
ProjectDir ==
    IF Existing = {} THEN Gone
    ELSE ProjectDirs[CHOOSE i \in Existing : \A k \in Existing : i <= k]

(* A fault: a capability with a row is left as it is.                       *)
ScanDirForNew(p, place) ==
    IF place # Gone /\ Loads(tree[place])
    THEN Found(p, tree[place], {c \in Offers(tree[place]) : table[c] = Gone}, place, FALSE)
    ELSE Skip(p, FALSE)

(* The builtin catalog and the directories: what cannot be loaded counts as *)
(* empty, and not as a failure.                                             *)
ScanDir(p, place) ==
    IF place # Gone /\ Loads(tree[place])
    THEN Found(p, tree[place], Offers(tree[place]), place, FALSE)
    ELSE Skip(p, FALSE)

Place(stage) == IF stage.type = "project" THEN ProjectDir ELSE stage.at

Scan(p) ==
    /\ refresh[p].at = "stages" /\ refresh[p].stages # <<>>
    /\ LET s == Head(refresh[p].stages) IN
         s.type \in {"builtin", "project", "user"} /\ ScanDir(p, Place(s))
    /\ UNCHANGED <<tree, clone, table, sources, treeEdits, refreshes>>

(* indexSources, one source.  One that is missing is skipped.  A tree that  *)
(* cannot be loaded ends the whole refresh; a catalog that cannot does not. *)
ScanSource(p) ==
    /\ refresh[p].at = "stages" /\ refresh[p].stages # <<>>
    /\ LET s == Head(refresh[p].stages) IN
         /\ s.type \in {"catalog", "directory"}
         /\ LET t == tree[s.at] IN
              \/ t = Gone /\ Skip(p, FALSE)
              \/ Loads(t) /\ Found(p, t, Offers(t), s.at, FALSE)
              \/ t # Gone /\ t.broken /\ s.type = "directory" /\ Abort(p)
              \/ t # Gone /\ t.broken /\ s.type = "catalog"
                   /\ \E some \in SUBSET Offers(t) : Found(p, t, some, s.at, TRUE)
    /\ UNCHANGED <<tree, clone, table, sources, treeEdits, refreshes>>

(* A clone or a pull may fail, which skips the source.                      *)
FetchSource(p) ==
    /\ refresh[p].at = "stages" /\ refresh[p].stages # <<>>
    /\ LET s == Head(refresh[p].stages)
           d == CacheOf[s.name]
           pulled == Pulled(d, s.at)
       IN  /\ s.type = "git"
           /\ \/ Skip(p, TRUE) /\ UNCHANGED clone
              \/ /\ pulled.tree # Gone /\ clone' = [clone EXCEPT ![d] = pulled]
                 /\ IF Loads(pulled.tree)
                    THEN Found(p, pulled.tree, Offers(pulled.tree), s.at, FALSE)
                    ELSE Abort(p)
    /\ UNCHANGED <<tree, table, sources, treeEdits, refreshes>>

(* storage.upsertCapability, one capability after the other; one that fails *)
(* is reported, and the others are stored.                                  *)
StoreFound(p) ==
    /\ refresh[p].at = "store" /\ refresh[p].found # {}
    /\ \E c \in refresh[p].found :
         \/ /\ table' = [table EXCEPT ![c] = [text |-> refresh[p].text[c], from |-> refresh[p].from]]
            /\ refresh' = [refresh EXCEPT ![p].found = @ \ {c}]
         \/ /\ UNCHANGED table
            /\ refresh' = [refresh EXCEPT ![p].found = @ \ {c}, ![p].failed = TRUE]
    /\ UNCHANGED <<tree, clone, sources, treeEdits, refreshes>>

NextStage(p) ==
    /\ refresh[p].at \in {"store", "stages"}
    /\ refresh[p].at = "store" => refresh[p].found = {}
    /\ refresh[p].at = "stages" => refresh[p].stages = <<>>
    /\ refresh' = [refresh EXCEPT ![p].at = IF refresh[p].stages = <<>> THEN "done" ELSE "stages",
                                  ![p].found = {}, ![p].text = <<>>, ![p].from = Gone]
    /\ UNCHANGED <<tree, clone, table, sources, treeEdits, refreshes>>

(* A process is killed.                                                     *)
KillRefresh(p) ==
    /\ p \in Refreshing /\ refresh' = [refresh EXCEPT ![p] = Resting]
    /\ UNCHANGED <<tree, clone, table, sources, treeEdits, refreshes>>

(* `install <url>`: the clone for the url's last part is made or pulled,    *)
(* and one of its capabilities goes into the table with that url.           *)
InstallUrl ==
    /\ refreshes < MaxRefreshes /\ refreshes' = refreshes + 1
    /\ \E u \in Urls :
         LET pulled == Pulled(CacheOf[u], u) IN
         /\ pulled.tree # Gone
         /\ clone' = [clone EXCEPT ![CacheOf[u]] = pulled]
         /\ IF Loads(pulled.tree)
            THEN \E c \in Offers(pulled.tree) :
                   table' = [table EXCEPT ![c] = [text |-> pulled.tree.offers[c], from |-> u]]
            ELSE UNCHANGED table
    /\ refresh' = [p \in Refreshers |-> [refresh[p] EXCEPT !.alone = FALSE]]
    /\ UNCHANGED <<tree, sources, treeEdits>>

SourcesNext ==
    \/ EditTree \/ WriteSource \/ SourceRemove \/ InstallUrl
    \/ \E p \in Refreshers :
         \/ RefreshAll(p) \/ SourceAdd(p) \/ KillRefresh(p)
         \/ Scan(p) \/ ScanSource(p) \/ FetchSource(p) \/ StoreFound(p) \/ NextStage(p)

SourcesSpec == SourcesInit /\ [][SourcesNext]_sourcesVars

-----------------------------------------------------------------------------
(* The stages that offer a capability.                                      *)
Offering(c) ==
    {i \in DOMAIN StagesOf(sources) :
       LET place == Place(StagesOf(sources)[i]) IN
       place # Gone /\ Loads(tree[place]) /\ c \in Offers(tree[place])}

OwnClones ==
    \A i \in DOMAIN sources :
        sources[i].type = "git" => clone[CacheOf[sources[i].name]].url = sources[i].at

(* After a refresh that nothing disturbed and that reports no failure, each *)
(* capability that some place offers has the version of the last of them,   *)
(* and its origin, whatever rows, clones and half-done refreshes there were *)
(* before: a source beats the user's directories, those the project's, and  *)
(* those the builtin catalog (registry/indexer.ts:24-150, 210-220).  This   *)
(* needs each git source to have a clone of its own url: a source whose url *)
(* was replaced, and one whose name is the last part of an installed url,   *)
(* keep pulling what is there (sources.ts:33-41).                           *)
RefreshedIsLatest ==
    \A p \in Refreshers :
      (refresh[p].at = "done" /\ refresh[p].alone /\ ~refresh[p].failed /\ OwnClones) =>
        \A c \in Offered : Offering(c) # {} =>
          \E i \in Offering(c) :
            LET place == Place(StagesOf(sources)[i]) IN
            /\ \A k \in Offering(c) : k <= i
            /\ table[c] = [text |-> tree[place].offers[c], from |-> place]
===============================================================================
