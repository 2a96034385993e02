\* Any readings and errors; fail-open after three errors; four slots can be lost
\* one after the other while the gate is closed.
CONSTANTS
    ErrFailOpen = 3
    MaxAge = 8
    MaxCap = 4
    ScaleDownAfter = 2
SPECIFICATION FairSpec
INVARIANTS
    TypeOK
    ClosedForExact
    OpenForNeverMore
    NoCollapse
PROPERTIES
    LoweredUnderPressure
    Recovers
