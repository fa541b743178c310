\* Two desktops on one Service, no failure at all.
CONSTANTS
    Clients = {c1, c2}
    Originals = {s1, s2}
    MaxFaults = 0
    MaxCrashes = 0
SPECIFICATION Spec
INVARIANTS RestoredAfterStop
CHECK_DEADLOCK FALSE
