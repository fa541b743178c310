\* One user, two contexts; TUN runs with one control loss each.
SPECIFICATION Spec
CONSTANTS
    Contexts = {k1, k2}
    NoContext = none
    Modes = {"tun"}
    Callers = {u}
    Eager = FALSE
    Restorers = {}
    RecoveryAttempts = 2
    MaxLosses = 1
    MaxRuns = 2
CHECK_DEADLOCK FALSE
INVARIANTS
    
    ServingIsStored
    OwnerIsCurrent
    
SYMMETRY Symmetry
