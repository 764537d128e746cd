CONSTANTS
    a1 = a1
    a2 = a2
    a3 = a3
    m1 = m1
    m2 = m2
    Authority <- ThreeAuthorities
    Ballots <- OneBallot
    WeekOfEpochs = 7
    StartTime = 80
    MaxTime = 102
    MaxLag = 0
    MaxLate = 0
    MaxCrash = 1
SPECIFICATION Spec
SYMMETRY Symmetry
INVARIANTS OneRoundLost
PROPERTIES CommitBeforeReveal
CHECK_DEADLOCK FALSE
