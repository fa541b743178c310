\* A write fails while the tunnel is taken down.
CONSTANTS
    MaxStreams = 2
    MaxDatagrams = 3
SPECIFICATION Spec
INVARIANT OthersUnaffected
CHECK_DEADLOCK FALSE
