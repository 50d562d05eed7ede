\* Two invocations that interleave step by step and may be killed; one capability.
SPECIFICATION Spec
CONSTANTS
    p1 = p1
    p2 = p2
    c1 = c1
    c2 = c2
    v1 = v1
    v2 = v2
    opencode = opencode
    generic = generic
    cursor = cursor
    custom = custom
    NoCap = NoCap
    Procs <- TwoProcs
    Caps <- OneCap
    Versions <- OneVersion
    Agents <- TwoAgents
    Opencode = opencode
    RulesAgents <- CursorSet
    AllOrder <- TwoAll
    CustomOrder <- NoCustom
    EnabledOrder <- TwoAll
    SkillDirs <- OpencodeDir
    MayFail <- CursorSet
    Catalog <- OneCap
    Sources <- OneSource
    Ask <- OneCap
    Blocked <- NoneCap
    Never <- NoneCap
    MaxActivations = 1
    MayCrash <- TwoProcs
INVARIANTS
    RowBeforeTransition
    LockedHasRow
PROPERTIES
    GoalStored
    RowSpec
