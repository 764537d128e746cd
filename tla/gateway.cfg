CONSTANTS
    m1 = m1
    m2 = m2
    m3 = m3
    None = None
    Messages <- ThreeMessages
    Plain <- NoMessage
    MaxConns = 3
    Scenarios <- Everyday
SPECIFICATION FairSpec
INVARIANTS WakeIsPending GoneIsDelivered OneSkipPerMeeting
PROPERTIES SpoolDrains
CHECK_DEADLOCK FALSE
