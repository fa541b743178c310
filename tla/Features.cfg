\* Eight parts side by side.
CONSTANTS
    ForwardContexts = {"c1", "c2"}
    ForwardTargets = {"c1"}
    ForwardNetworks = {"udp", "tcp"}
    ForwardUsers = {"u"}
    ForwardCalls = 2
    ForwardStarts = 2
    ForwardSessions = 1
    ForwardMortal = {"tcp"}
    ForwardRestarts = 1
    McpPorts = {30808, 30809}
    McpTokens = 2
    McpServers = 3
    McpCalls = 4
    McpErrors = 2
    SftpHandles = {1, 2}
    SftpBlocks = {1, 2}
    SftpErrors = 2
    KeyLaunches = 2
    KeyErrors = 1
    StoreContexts = {"k1", "k2"}
    StoreFiles = {"f"}
    StoreFaults = 2
    TunnelMessages = 2
    InstallFaults = 3
    PreviewDesktops = {"d1", "d2"}
    PreviewFaults = 3
SPECIFICATION Spec
INVARIANTS ForwardsKept SettingsHold StoreSound TunnelFaithful AllOrNothing PreviewKept
PROPERTIES UploadFaithful KeysKept
CHECK_DEADLOCK FALSE
