------------------------------- MODULE MCStores -------------------------------
(***************************************************************************)
(* The stores around the router, on small instances: the schema of the     *)
(* database, the corpus, the settings, the permissions of a manifest, what *)
(* learning keeps of a capability, the registry's sources, the agents'     *)
(* directories, the MCP clients' files and the signing keys.  They share   *)
(* no state: a behaviour runs one of them, so that the states of a run are *)
(* the sum of theirs.                                                      *)
(***************************************************************************)
EXTENDS Schema, Corpus, Settings, Permissions, Scoring, Sources, AdapterFiles, McpConfig,
        Signing

(* What trees offer of x and y, and the places where there is one at first: *)
(* a project's second directory, and not the user's.                        *)
Tree(ofX, ofY) == [offers |-> [c \in Offered |-> IF c = "x" THEN ofX ELSE ofY], broken |-> FALSE]
MCWorld == [p \in Places |-> CASE p = "builtin" -> Tree(1, 1) [] p = "b" -> Tree(2, Gone)
                               [] p = "u1" -> Tree(3, Gone) [] p = "u2" -> Tree(1, 2)
                               [] p = "dir" -> Tree(Gone, 3) [] OTHER -> Gone]
MCFirst == {MCWorld}

VARIABLE running  \* the store this behaviour is about

mcVars == <<running, schemaVars, corpusVars, settingsVars, permissionVars, scoringVars,
            sourcesVars, adapterVars, mcpConfigVars, signingVars>>

MCInit ==
    /\ running \in {"schema", "corpus", "settings", "permissions", "scoring", "sources",
                    "rules", "skills", "mcp", "signing"}
    /\ SchemaInit /\ CorpusInit /\ SettingsInit /\ PermissionsInit /\ ScoringInit
    /\ SourcesInit /\ AdapterInit /\ McpConfigInit /\ SigningInit
    /\ manifest.text = 1
    /\ running # "corpus" => model = "m"
    /\ running # "skills" => root = [c \in Exposable |-> {"SKILL.md"}]

OpenDatabase == running = "schema" /\ SchemaNext
    /\ UNCHANGED <<running, corpusVars, settingsVars, permissionVars, scoringVars,
                   sourcesVars, adapterVars, mcpConfigVars, signingVars>>
Index == running = "corpus" /\ CorpusNext
    /\ UNCHANGED <<running, schemaVars, settingsVars, permissionVars, scoringVars,
                   sourcesVars, adapterVars, mcpConfigVars, signingVars>>
Configure == running = "settings" /\ SettingsNext
    /\ UNCHANGED <<running, schemaVars, corpusVars, permissionVars, scoringVars,
                   sourcesVars, adapterVars, mcpConfigVars, signingVars>>
Permit == running = "permissions" /\ PermissionsNext
    /\ UNCHANGED <<running, schemaVars, corpusVars, settingsVars, scoringVars, sourcesVars,
                   adapterVars, mcpConfigVars, signingVars>>
Learn == running = "scoring" /\ ScoringNext
    /\ UNCHANGED <<running, schemaVars, corpusVars, settingsVars, permissionVars,
                   sourcesVars, adapterVars, mcpConfigVars, signingVars>>
RefreshRegistry == running = "sources" /\ SourcesNext
    /\ UNCHANGED <<running, schemaVars, corpusVars, settingsVars, permissionVars,
                   scoringVars, adapterVars, mcpConfigVars, signingVars>>
(* The adapters that share no directory are used in behaviours of their own; *)
(* opencode, which may take away a root, is in both.                        *)
Together == [rules |-> {"cursor", "custom", "opencode", "none"},
             skills |-> {"claude", "gemini", "opencode", "none"}]
UseAdapters == running \in DOMAIN Together /\ AdapterNext /\ last'.agent \in Together[running]
    /\ UNCHANGED <<running, schemaVars, corpusVars, settingsVars, permissionVars,
                   scoringVars, sourcesVars, mcpConfigVars, signingVars>>
RegisterServers == running = "mcp" /\ McpConfigNext
    /\ UNCHANGED <<running, schemaVars, corpusVars, settingsVars, permissionVars,
                   scoringVars, sourcesVars, adapterVars, signingVars>>
Publish == running = "signing" /\ SigningNext
    /\ UNCHANGED <<running, schemaVars, corpusVars, settingsVars, permissionVars, scoringVars,
                   sourcesVars, adapterVars, mcpConfigVars>>

MCNext ==
    \/ OpenDatabase \/ Index \/ Configure \/ Permit \/ Learn
    \/ RefreshRegistry \/ UseAdapters \/ RegisterServers \/ Publish

MCSpec == MCInit /\ [][MCNext]_mcVars

-----------------------------------------------------------------------------
(* Texts: one section, the same section rewritten with another, and none.   *)
MCContents ==
    {[hash |-> 1, sections |-> {"a"}], [hash |-> 2, sections |-> {"a", "b"}],
     [hash |-> 3, sections |-> {}]}

(* Settings that only the other file makes valid, or invalid.               *)
MCSettable ==
    {<<"noMatch", 40>>, <<"weak", 30>>, <<"strategy", 101>>}
MCScores == {25, 30, 39, 40, 75}

Declares(q, c, r, s, l, o) ==
    [quality |-> q, completeness |-> c, reliability |-> r, successRate |-> s, latency |-> l,
     other |-> o]
MCProfiles ==
    {Declares(Unknown, 60, Unknown, Unknown, Unknown, 40),
     Declares(Unknown, 60, 90, Unknown, 2, 40),
     Declares(70, 60, Unknown, 95, Unknown, 40),
     Declares(Unknown, 33, Unknown, Unknown, Unknown, 2),
     Declares(Unknown, 60, Unknown, Unknown, Unknown, 96)}

Seen(s, v, r, l) == [success |-> s, verified |-> v, rating |-> r, latencyMs |-> l]
MCOutcomes ==
    {Best, Seen(FALSE, "fail", -2, 1900), Seen(TRUE, "none", Unknown, Unknown),
     Seen(FALSE, "none", 1, Unknown), Seen(TRUE, "fail", Unknown, 700),
     Seen(TRUE, "pass", Unknown, Unknown)}

(* The weights of the strategies balanced, quality and speed.               *)
MCWeights ==
    {[historical |-> 8, quality |-> 8, latency |-> 5],
     [historical |-> 16, quality |-> 24, latency |-> 3],
     [historical |-> 6, quality |-> 4, latency |-> 14]}

(* The registry: a repository's clone is that of a source of another name,  *)
(* too.                                                                     *)
MCEdited == {Tree(2, 2), [Tree(2, Gone) EXCEPT !.broken = TRUE]}
MCProjectDirs == <<"a", "b">>
MCUserDirs == <<"user">>
MCCacheOf == [d \in Names \cup Urls |-> IF d \in {"n1", "u1"} THEN "d1" ELSE "d2"]

(* One adapter of each kind, and the rules adapters with one and with more  *)
(* directories; opencode looks into claude's directory.                     *)
MCAdapter ==
    LET Dirs(kind, write, clean, look) ==
          [kind |-> kind, write |-> write, clean |-> clean, look |-> look]
    IN  [cursor |-> Dirs("rules", <<".cursor">>, <<".cursor", "~/.cursor">>,
                         <<".cursor", "~/.cursor">>),
         custom |-> Dirs("rules", <<".one", ".two">>, <<".one", ".two">>, <<".one", ".two">>),
         claude |-> Dirs("copy", <<".claude">>, <<".claude">>, <<".claude", "~/.claude">>),
         opencode |-> Dirs("opencode", <<".opencode">>, <<>>,
                           <<".opencode", ".claude", "~/.claude">>),
         gemini |-> Dirs("gemini", <<"~/.gemini">>, <<"~/.gemini">>, <<"~/.gemini">>)]
MCOwnEntries == {{}}

(* They keep apart, as they must for AdaptersActAsAgents (StoresProofs).    *)
ASSUME Apart
===============================================================================
