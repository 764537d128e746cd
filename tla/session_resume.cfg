CONSTANTS
    r1 = r1
    r2 = r2
    Requests <- OneRequest
    MaxConns = 5
    MaxDrops = 2
    MaxNotices = 1
    MaxStalls = 1
    MayClose = TRUE
SPECIFICATION FairSpec
INVARIANTS RoutedToOwner
PROPERTIES Reconnects
CHECK_DEADLOCK FALSE
