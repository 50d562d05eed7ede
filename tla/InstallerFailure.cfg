\* What the comment on install promises of a failed one.
SPECIFICATION Spec
CONSTANTS
    manifest = manifest
    skill = skill
    script = script
    old = old
    new = new
    NoDir = NoDir
    Paths <- AllPaths
    Manifest = manifest
    Contents <- AllContents
    Sources <- AllSources
PROPERTY FailureRestores
