\* The startup restore and one user, who also logs; one SOCKS run.
SPECIFICATION FairSpec
CONSTANTS
    Contexts = {k1}
    NoContext = none
    Modes = {"socks"}
    Callers = {u}
    Eager = TRUE
    Restorers = {boot}
    RecoveryAttempts = 2
    MaxLosses = 0
    MaxRuns = 1
CHECK_DEADLOCK FALSE
PROPERTY RunsSettle
