\* A preparation failure takes a busy package out of the gate.
CONSTANTS
    f1 = f1
    f2 = f2
    f3 = f3
    g1 = g1
    u1 = u1
    Workers = {w1, w2}
    NPkgs = 2
    Queue <- TwoPackages
    Unmapped <- NoUnmapped
    Earlier <- Fresh
    PackageLimit = 1
    Calculated = TRUE
    WorkersAfterCache = FALSE
    ScaleDownEnabled = FALSE
    ScaleDownAfter = 1
    AbortOnTimeout = FALSE
    Faults = {"prepare"}
    NoFile = NoFile
    NoWorker = NoWorker
SPECIFICATION Spec
INVARIANTS
    PackageGate
