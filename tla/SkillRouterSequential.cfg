\* One command at a time over two capabilities, one in two versions, two agents that
\* every command knows, and the custom ones.
SPECIFICATION FairSpec
CONSTANTS
    p1 = p1
    p2 = p2
    c1 = c1
    c2 = c2
    v1 = v1
    v2 = v2
    opencode = opencode
    generic = generic
    cursor = cursor
    custom = custom
    NoCap = NoCap
    Procs <- OneProc
    Caps <- TwoCaps
    Versions <- TwoVersions
    Agents <- MixedAgents
    Opencode = opencode
    RulesAgents <- CustomSet
    AllOrder <- CopyDirs
    CustomOrder <- Custom
    EnabledOrder <- OnlyGeneric
    SkillDirs <- CopyDirs
    MayFail <- OpencodeSet
    Catalog <- TwoCaps
    Sources <- ThreeSources
    Ask <- SecondCap
    Blocked <- SecondCap
    Never <- NoneCap
    MaxActivations = 1
    MayCrash <- NoProc
INVARIANTS
    DisabledIsHidden
    RouteWithinBudget
PROPERTIES
    UninstallRemovesInstalled
    EveryCommandFinishes
