\* What the README says of the files of custom agents.
SPECIFICATION Spec
CONSTANTS
    p1 = p1
    p2 = p2
    c1 = c1
    c2 = c2
    v1 = v1
    v2 = v2
    opencode = opencode
    generic = generic
    cursor = cursor
    custom = custom
    NoCap = NoCap
    Procs <- OneProc
    Caps <- OneCap
    Versions <- TwoVersions
    Agents <- FourAgents
    Opencode = opencode
    RulesAgents <- RulesSet
    AllOrder <- ThreeAll
    CustomOrder <- Custom
    EnabledOrder <- ThreeAll
    SkillDirs <- CopyDirs
    MayFail <- CursorSet
    Catalog <- OneCap
    Sources <- NewSources
    Ask <- OneCap
    Blocked <- NoneCap
    Never <- NoneCap
    MaxActivations = 1
    MayCrash <- NoProc
INVARIANT DisableStaysClean
