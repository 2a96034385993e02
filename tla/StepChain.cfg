\* Two commands, timeout, memory budget, Ctrl-C and processes that leave the
\* group; no process is assumed to end by itself.
CONSTANTS
    NCmds = 2
    HasTimeout = TRUE
    HasBudget = TRUE
    MayCancel = TRUE
    MayEscape = TRUE
    Ranges <- MCRanges
    RuleClasses = {"killed"}
SPECIFICATION FairSpec
INVARIANTS
    TypeOK
    SignalledIsKnown
    ChainStops
PROPERTIES
    OverrunLeavesNothing
    StepEnds
