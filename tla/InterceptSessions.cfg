\* Two Services over two sessions, two reservations.
CONSTANTS
    k1 = k1
    k2 = k2
    c1 = c1
    c2 = c2
    Keys = {k1, k2}
    Callers = {c1, c2}
    Main = Main
    Modes = {"exchange", "mirror", "preview"}
    NPorts = 1
    AckTimeouts = FALSE
    MaxConns = 2
    MaxGen = 4
    MaxSessions = 2
    MaxRes = 2
    MaxPods = 2
    MaxAttempts = 2
SPECIFICATION Spec
SYMMETRY KeySymmetry
INVARIANTS TypeOK ReservationsExclusive   StopAllComplete ListenersOwned
CHECK_DEADLOCK FALSE
