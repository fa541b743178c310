\* Two controls, of one tenant or of two, on two ports.
CONSTANTS
    Controls = {c1, c2}
    Tokens = {t1, t2}
    Ids = {"i"}
    Ports = {1024, 1025}
    MaxListeners = 2
    MaxStreams = 1
SPECIFICATION LiveSpec
INVARIANT OneHand
PROPERTY StreamsSettle
CHECK_DEADLOCK FALSE
