CONSTANTS
    aRead = aRead
    aWrite = aWrite
    aStrict = aStrict
    aCopy = aCopy
    aPlain = aPlain
    None = None
    Messages <- OneOfEach
    Kind <- KindOfEach
    Hash <- OwnHash
    ResendRoom = 1
    IDs = 6
    Scenarios <- Everyday
SPECIFICATION FairSpec
INVARIANTS MapsAgree StaysCancelled SuccessIsTrue
PROPERTIES AnswerComes
CHECK_DEADLOCK FALSE
