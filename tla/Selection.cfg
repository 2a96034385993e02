\* Overlapping roots in either order, every placement of markers, four sets of
\* patterns and six command lines.
CONSTANTS
    Alphabet <- Characters
    Dirs <- TreeDirs
    Files <- TreeFiles
    RootLists <- SomeRoots
    MarkerSets <- SomeMarkers
    Settings <- SomeSettings
    CommandLines <- SomeLines
    Recordings <- SomeRecordings
    Probes <- SomeNames
SPECIFICATION Spec
INVARIANTS
    GlobMeaning
    DiscoverMeaning
    QueueMeaning
    PlanIsSession
