SPECIFICATION FairSpec
CONSTANTS
    Tasks = {a, b, c}
    Unknown = Unknown
    Graphs <- AllGraphs
INVARIANTS
    DependenciesFirst
    CascadeIsExact
    NothingLeftBehind
    VerdictIsRight
PROPERTIES
    WalkEnds
CHECK_DEADLOCK FALSE
