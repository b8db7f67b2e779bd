SPECIFICATION ChainSpec
CONSTANTS
    a = a
    b = b
    c = c
    Order <- ConfigOrder
    Graphs <- Acyclic
INVARIANTS
    CascadeIsReachability
    NoPhantomDepends
    ResumedInOrder
    ResumedCompletes
CHECK_DEADLOCK FALSE
