CONSTANTS
    a1 = a1
    a2 = a2
    d1 = d1
    d2 = d2
    k1 = k1
    k2 = k2
    k3 = k3
    r1 = r1
    g1 = g1
    g2 = g2
    g3 = g3
    Authority <- TwoAuthorities
    Descriptor <- TwoDescriptors
    MaxTries = 2
    MaxCrash = 1
    MaxReconfigure = 1
    Authorities <- KeysAuthorities
    Replica <- OneReplica
    ReplicaEpochPeriod = 2
    StartEpoch = 0
    MaxEpoch = 6
    MaxRestart = 2
    Senders <- OneEach
    Home <- TheHomes
    MaxSends <- Commands
SPECIFICATION SpecAll
INVARIANTS StoppedIsVotedFor AckedIsKept OfflineKeysAreKept PeerDecrypts
CHECK_DEADLOCK FALSE
