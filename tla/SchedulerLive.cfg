\* Two workers, Ctrl-C at any point, the resource gate closing and opening, capacity
\* scaled down and recovered: liveness.
CONSTANTS
    f1 = f1
    f2 = f2
    f3 = f3
    g1 = g1
    u1 = u1
    Workers = {w1, w2}
    NPkgs = 2
    Queue <- OneEach
    Unmapped <- NoUnmapped
    Earlier <- Fresh
    PackageLimit = 1
    Calculated = TRUE
    WorkersAfterCache = FALSE
    ScaleDownEnabled = TRUE
    ScaleDownAfter = 1
    AbortOnTimeout = FALSE
    Faults = {"pressure", "cancel"}
    NoFile = NoFile
    NoWorker = NoWorker
SPECIFICATION FairSpec
PROPERTIES
    Terminates
    CancelEnds
