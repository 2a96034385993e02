\* Two workers, packages of 2 and 1 files plus an unmapped one, one package at a
\* time; cancellation, and timeouts that abort a package.
CONSTANTS
    f1 = f1
    f2 = f2
    f3 = f3
    g1 = g1
    u1 = u1
    Workers = {w1, w2}
    NPkgs = 2
    Queue <- TwoPackages
    Unmapped <- UnmappedInFirst
    Earlier <- FreshOrResumed
    PackageLimit = 1
    Calculated = FALSE
    WorkersAfterCache = TRUE
    ScaleDownEnabled = TRUE
    ScaleDownAfter = 1
    AbortOnTimeout = TRUE
    Faults = {"cancel", "timeout"}
    NoFile = NoFile
    NoWorker = NoWorker
SPECIFICATION Spec
SYMMETRY Symmetry
INVARIANTS
    TypeOK
    SandboxExclusive
    SlotNotLeaked
    StoreTruthful
    FirstRunsGated
PROPERTIES
    NoClaimAfterTimeout
    ImplementsSession
