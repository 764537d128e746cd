CONSTANTS
    A = A
    B = B
    C = C
    b1 = b1
    b2 = b2
    b3 = b3
    b4 = b4
    p1 = p1
    p2 = p2
    m1 = m1
    m2 = m2
    m3 = m3
    None = None
    Tombstone = Tombstone
    Replicas <- TheReplicas
    Boxes <- FourBoxes
    Payloads <- TwoWrites
    Messages <- Three
    Workers <- TheWorkers
    Home <- TheHomes
    ShardsOf <- AllShards
    Scenarios <- Everyday
    MaxEpoch = 2
    QueueSize = 1
    RetrySize = 2
    Slots = 1
SPECIFICATION FairSpecs
INVARIANTS SuccessIsStored
PROPERTIES WrittenOnce AckedIsReplicated MessageIsAnswered
CHECK_DEADLOCK FALSE
