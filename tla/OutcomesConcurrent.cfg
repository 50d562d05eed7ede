\* Two invocations record outcomes of two capabilities and may be killed.
SPECIFICATION Spec
CONSTANTS
    p1 = p1
    p2 = p2
    c1 = c1
    c2 = c2
    e1 = e1
    e2 = e2
    e3 = e3
    Procs <- TwoProcs
    Caps <- TwoCaps
    Execs <- AllExecs
    MAX_OBSERVATIONS = 2
    MaxOutcomes = 1
    MaxRecords = 4
    MayCrash <- OneProc
INVARIANTS
    MetricsConsistent
    OutcomesAreCounted
    PrunedAtRest
SYMMETRY Symmetric
PROPERTY RateKept
CHECK_DEADLOCK FALSE
