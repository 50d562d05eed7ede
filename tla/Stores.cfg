SPECIFICATION MCSpec
CONSTANTS
    Procs = {p1, p2, p3}
    Latest = 3
    Nobody = Nobody
    Caps = {c1}
    Sections = {"a", "b"}
    Contents <- MCContents
    Models = {"m", "n"}
    Indexers = {i1, i2}
    NoContent = NoContent
    MaxChanges = 2
    MaxRuns = 3
    Commands = {k1, k2}
    Settable <- MCSettable
    Scores <- MCScores
    NoFile = NoFile
    MaxEdits = 2
    MaxStarts = 2
    MaxDeclared = 2
    Profiles <- MCProfiles
    Outcomes <- MCOutcomes
    Weights <- MCWeights
    Unknown = Unknown
    maxOutcomes = 3
    MAX_OBSERVATIONS = 4
    Offered = {"x", "y"}
    Texts = {1, 2, 3}
    Builtin = "builtin"
    ProjectDirs <- MCProjectDirs
    UserDirs <- MCUserDirs
    Urls = {"u1", "u2"}
    Paths = {"dir"}
    Names = {"n1"}
    CacheOf <- MCCacheOf
    Refreshers = {r1}
    Gone = Gone
    FirstTrees <- MCFirst
    EditedTrees <- MCEdited
    MaxTreeEdits = 1
    MaxRefreshes = 2
    Exposable = {e1}
    Adapter <- MCAdapter
    Unreliable = {"custom", "claude"}
    OnPath = {"gemini"}
    Absent = Absent
    OwnEntries <- MCOwnEntries
    MaxOwn = 1
    Servers = {s1}
    OwnServers = {o1, o2}
    Clients = {m1, m2}
    MaxHands = 2
    MaxCalls = 3
    Publishers = {b1, b2}
    Drafts = {1, 2}
    Blank = Blank
    Unfinished = Unfinished
    MaxDrafts = 1
    MaxPairs = 3
    MaxSignings = 2
INVARIANTS
    SchemaMatchesVersion
    EmbeddingsFresh
    ThresholdsAsConfigured
    GrowthKeepsConsent
    RefreshedIsLatest
    OwnServersSurvive
    SignaturesTell
PROPERTIES
    LearningIsSane
    FilesImplementAgents
CHECK_DEADLOCK FALSE
