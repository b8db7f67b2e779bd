SPECIFICATION Spec
CONSTANTS
    Retries = 1
    Servers = 2
    MaxTurns = 3
    MaxCalls = 2
    Budget = 2
    TurnCost = 2
INVARIANTS
    RequestsAreAcceptable
    SpendIsBounded
    NoServerLeaks
    CostsAddUp
PROPERTIES
    AgentEnds
CHECK_DEADLOCK FALSE
