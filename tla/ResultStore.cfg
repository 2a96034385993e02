\* Both storages; any write and any read of a report may fail, a session may crash
\* at any point, and it may be about one package only or ignore what is recorded.
CONSTANTS
    Pkgs = {p1, p2}
    Files = {f1, f2}
    Slug <- OwnSlugs
    Results = {killed, survived}
    None = none
    Storages = {"json", "sqlite"}
    Selections <- WholeOrOne
    WriteFails = TRUE
    ReadFails = TRUE
SPECIFICATION Spec
SYMMETRY Symmetry
INVARIANTS
    AckedKept
    SummaryHasAcked
    LosesAtMostOne
PROPERTIES
    ResumeGrows
