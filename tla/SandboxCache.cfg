\* Two packages of two files; every file operation may fail, every step may be
\* killed, every engine may die on its own, every session may crash at any point, and the
\* source's files change between sessions.
CONSTANTS
    Pkgs = {p1, p2}
    Files = {f1, f2}
    IOFails = TRUE
    EngineDies = TRUE
SPECIFICATION Spec
SYMMETRY Symmetry
INVARIANTS
    TypeOK
    StepStartsSynced
    MarkerMeansBootstrapped
