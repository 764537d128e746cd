CONSTANTS
    g1 = g1
    g2 = g2
    None = None
    Gateways <- OneGateway
    Listed <- AlwaysOne
    Chunks = 2
    Attempts = 1
    Scenarios <- Everyday
SPECIFICATION FairSpec
INVARIANTS RepliesMatch
PROPERTIES DocumentArrives PacketsLeave
CHECK_DEADLOCK FALSE
