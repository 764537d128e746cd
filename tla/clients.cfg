CONSTANTS
    c1 = c1
    c2 = c2
    h1 = h1
    h2 = h2
    k1 = k1
    Calls <- TwoCalls
    MaxEvents = 2
    MayCloseClient = TRUE
    Handlers <- OneRequest
    Connections <- OneStream
    MaxClients = 3
    MaxNotices = 2
    MaxOutages = 1
SPECIFICATION FairAll
INVARIANTS ReplyReachesCaller
PROPERTIES CloseReturns ReconnectEnds
CHECK_DEADLOCK FALSE
