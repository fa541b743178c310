CONSTANTS
    Ports = {30808, 30809}
    MaxTokens = 2
    MaxServers = 3
    MaxCalls = 4
    MaxFaults = 2
SPECIFICATION Spec
INVARIANTS ListensWhereShown
CHECK_DEADLOCK FALSE
