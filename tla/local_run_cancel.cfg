SPECIFICATION Spec
CONSTANTS
    a = a
    b = b
    Tasks = {a, b}
    Unknown = Unknown
    Graphs <- Shapes
    Agents = {a}
    RetryCount <- OneRetry
    MaxFaults = 0
PROPERTIES
    CancelStopsTheRun
CHECK_DEADLOCK FALSE
