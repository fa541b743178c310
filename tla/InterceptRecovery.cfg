\* One session: starts and stops race control loss, recovery and pod replacement.
CONSTANTS
    k1 = k1
    k2 = k2
    c1 = c1
    c2 = c2
    Keys = {k1}
    Callers = {c1, c2}
    Main = Main
    Modes = {"mirror"}
    NPorts = 1
    AckTimeouts = TRUE
    MaxConns = 3
    MaxGen = 3
    MaxSessions = 1
    MaxRes = 2
    MaxPods = 2
    MaxAttempts = 2
SPECIFICATION LiveSpec
 
PROPERTY OperationsEnd
CHECK_DEADLOCK FALSE
