CONSTANTS
    r1 = r1
    r2 = r2
    e1 = e1
    e2 = e2
    e3 = e3
    c1 = c1
    c2 = c2
    None = None
    Replicas <- TwoReplicas
    Envelopes <- Letters
    Caps <- TwoCaps
    Intermediates <- BothOrders
    ReadEpoch <- Now
    Contents <- TwoStreams
    Shards <- TwoShards
    SizeOf <- Lengths
    Zero = r2
    ChunkSize = 3
    QueueSize = 2
    DispatchSlots = 1
    MaxReads = 2
    MaxWrites = 2
    MaxBoxes = 3
    Scenarios <- Everyday
SPECIFICATION FairSpec
INVARIANTS VerdictIsTrue
PROPERTIES AnswersStay ErrorsAreRefreshed CopyEnds
CHECK_DEADLOCK FALSE
