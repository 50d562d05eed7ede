\* Re-recording one execution, one invocation at a time.
SPECIFICATION Spec
CONSTANTS
    p1 = p1
    p2 = p2
    c1 = c1
    c2 = c2
    e1 = e1
    e2 = e2
    e3 = e3
    Procs <- OneProc
    Caps <- TwoCaps
    Execs <- AllExecs
    MAX_OBSERVATIONS = 4
    MaxOutcomes = 1
    MaxRecords = 4
    MayCrash <- NoProc
PROPERTY RecordingIsIdempotent
CHECK_DEADLOCK FALSE
