\* The stale-head race: a file is recorded twice.
CONSTANTS
    f1 = f1
    f2 = f2
    f3 = f3
    g1 = g1
    u1 = u1
    Workers = {w1, w2}
    NPkgs = 1
    Queue <- OnePackage1
    Unmapped <- NoUnmapped
    Earlier <- Fresh
    PackageLimit = 1
    Calculated = TRUE
    WorkersAfterCache = FALSE
    ScaleDownEnabled = FALSE
    ScaleDownAfter = 1
    AbortOnTimeout = FALSE
    Faults = {}
    NoFile = NoFile
    NoWorker = NoWorker
SPECIFICATION Spec
INVARIANTS
    AtMostOnce
