SPECIFICATION FairSpec
CONSTANTS
    a = a
    b = b
    Tasks = {a, b}
    Unknown = Unknown
    Graphs <- Shapes
    Agents = {a}
    RetryCount <- OneRetry
    MaxFaults = 1
INVARIANTS
    SucceededMeansDone
    WithdrawnNeverStarts
PROPERTIES
    RunCloses
CHECK_DEADLOCK FALSE
