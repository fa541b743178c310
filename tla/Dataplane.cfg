\* Nine parts side by side, with small sets and bounds for each.
CONSTANTS
    ChannelIds = {"i1", "i2"}
    ChannelReplies = 2
    ChannelStarts = 5
    ChannelTimeouts = 4
    MirrorChunks = 3
    MirrorReplies = 1
    MirrorQueue = 1
    MirrorSocket = 1
    BindingDesktop = "c1"
    BindingSlices = {"s1", "s2"}
    BindingFaults = 2
    BindingCrashes = 2
    FlowRequest = 1
    FlowResponse = 2
    UdpClients = {"c1", "c2"}
    UdpUpstreams = 2
    AssocStreams = 3
    AssocDatagrams = 5
    CopyTasks = {"a"}
    CopyKinds = {"download", "upload", "downloadDir"}
    CopySlots = 1
    CopyBlocks = 2
    CopyRuns = 2
    CopyVersions = 2
    CopyRestarts = 1
    HelperIds = 2
    HelperRequests = {1, 2, 3}
    HelperVersions = 2
    HelperCrashes = 1
    SshPods = {"p", "q"}
    SshIps = {1}
    SshConns = 1
    SshMoves = 2
    SshSessions = 2
SPECIFICATION Spec
INVARIANTS
     OneStream StreamIntact ServiceKept RoutedIntact
     NothingLeftBehind EndpointsRemoved
PROPERTY ImplementsTee
CHECK_DEADLOCK FALSE
