\* What deactivate promises, one command at a time over two capabilities and three agents.
SPECIFICATION Spec
CONSTANTS
    p1 = p1
    p2 = p2
    c1 = c1
    c2 = c2
    v1 = v1
    v2 = v2
    opencode = opencode
    generic = generic
    cursor = cursor
    custom = custom
    NoCap = NoCap
    Procs <- OneProc
    Caps <- TwoCaps
    Versions <- OneVersion
    Agents <- ThreeAgents
    Opencode = opencode
    RulesAgents <- CursorSet
    AllOrder <- ThreeAll
    CustomOrder <- NoCustom
    EnabledOrder <- GenericOnly
    SkillDirs <- CopyDirs
    MayFail <- CursorSet
    Catalog <- TwoCaps
    Sources <- TwoSources
    Ask <- SecondCap
    Blocked <- SecondCap
    Never <- NoneCap
    MaxActivations = 1
    MayCrash <- NoProc
PROPERTY DeactivateKeepsPayload
