CONSTANTS
    a1 = a1
    a2 = a2
    a3 = a3
    m1 = m1
    m2 = m2
    Authority <- ThreeAuthorities
    Ballots <- FullBallots
    WeekOfEpochs = 7
    StartTime = 80
    MaxTime = 96
    MaxLag = 0
    MaxLate = 0
    MaxCrash = 0
SPECIFICATION FairSpec
INVARIANTS MajorityMixes
PROPERTIES EveryEpochDecided
CHECK_DEADLOCK FALSE
