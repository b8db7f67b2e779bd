SPECIFICATION FairSpec
CONSTANTS
    Runs = {r1, r2}
    Workers = {w1, w2}
    NoRun = NoRun
    NoWorker = NoWorker
    Visibility = 2
    HeartbeatEvery = 1
    MaxFaults = 1
INVARIANTS
    TypeOK
    HealthyWorkerKeepsClaim
    ExclusiveExecution
    ReexecutionNeedsFault
    RegistryNamesTheRun
    NoOvertaking
    AbandonedOnlyIfCanceled
PROPERTIES
    OnlyHolderCompletes
    ImplementsContract
    EveryRunSettles
