SPECIFICATION Spec
CONSTANTS
    Names = {a, b}
    Values = {u, v}
    StaleTTL = 1
    FetchLimit = 1
    MaxEdits = 2
    MaxFaults = 1
    NoEtag = NoEtag
INVARIANTS
    EtagMeansSame
    DispensedIsRecent
    SealedAtRest
PROPERTIES
    RotationArrives
