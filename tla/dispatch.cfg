SPECIFICATION FairSpec
CONSTANTS
    Ticks = {t1}
    Handlers = {h1, h2}
    Workers = {w1}
    QueueSize = 1
    MaxRuns = 2
    MaxFaults = 1
    Nobody = Nobody
INVARIANTS
    EachRunInOnePlace
    QueueOutlivesHandlers
PROPERTIES
    TriggersRespectTheGates
    AcceptedIsServed
    JobsSurviveRestart
