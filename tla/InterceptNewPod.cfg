\* Recovery onto a replacement Gateway pod.
CONSTANTS
    k1 = k1
    k2 = k2
    c1 = c1
    c2 = c2
    Keys = {k1}
    Callers = {c1, c2}
    Main = Main
    Modes = {"exchange", "mirror"}
    NPorts = 1
    AckTimeouts = FALSE
    MaxConns = 2
    MaxGen = 3
    MaxSessions = 1
    MaxRes = 2
    MaxPods = 2
    MaxAttempts = 2
SPECIFICATION Spec
INVARIANT NoPartialDataPlane
CHECK_DEADLOCK FALSE
