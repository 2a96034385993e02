\* Two workers on one package: every preparation, record and step may fail.
CONSTANTS
    f1 = f1
    f2 = f2
    f3 = f3
    g1 = g1
    u1 = u1
    Workers = {w1, w2}
    NPkgs = 1
    Queue <- OnePackage2
    Unmapped <- UnmappedInFirst
    Earlier <- Fresh
    PackageLimit = 0
    Calculated = TRUE
    WorkersAfterCache = FALSE
    ScaleDownEnabled = FALSE
    ScaleDownAfter = 1
    AbortOnTimeout = FALSE
    Faults = {"prepare", "restore", "record", "oom", "start"}
    NoFile = NoFile
    NoWorker = NoWorker
SPECIFICATION Spec
SYMMETRY Symmetry
INVARIANTS
    NoFileLost
    ReturnComplete
    StepsStartClean
