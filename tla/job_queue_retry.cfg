SPECIFICATION Spec
CONSTANTS
    Runs = {r1, r2}
    Workers = {w1, w2}
    NoRun = NoRun
    NoWorker = NoWorker
    Visibility = 3
    HeartbeatEvery = 1
    MaxFaults = 0
SYMMETRY IdSymmetry
INVARIANTS
    RetryNeverOverlaps
