\* Installs of three sources and uninstalls, with failing copies and kills.
SPECIFICATION Spec
CONSTANTS
    manifest = manifest
    skill = skill
    script = script
    old = old
    new = new
    NoDir = NoDir
    Paths <- AllPaths
    Manifest = manifest
    Contents <- AllContents
    Sources <- AllSources
INVARIANTS
    LastGoodIsKept
PROPERTIES
    CommittedIsWhole
    RollbackIsExact
