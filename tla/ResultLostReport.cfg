\* A package report cannot be written, its file is skipped by the next session.
CONSTANTS
    Pkgs = {p1, p2}
    Files = {f1, f2}
    Slug <- OwnSlugs
    Results = {killed}
    None = none
    Storages = {"json"}
    Selections <- WholeOrOne
    WriteFails = TRUE
    ReadFails = FALSE
SPECIFICATION Spec
INVARIANTS
    SummaryCovers
