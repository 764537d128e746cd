CONSTANTS
    a1 = a1
    a2 = a2
    a3 = a3
    m1 = m1
    m2 = m2
    Authority <- ThreeAuthorities
    Ballots <- OneBallot
    WeekOfEpochs = 7
    StartTime = 80
    MaxTime = 85
    MaxLag = 1
    MaxLate = 1
    MaxCrash = 1
SPECIFICATION Spec
SYMMETRY Symmetry
INVARIANTS IInv MajorityRandom NoEquivocation Agreement
PROPERTIES Implements NeverBackward
CHECK_DEADLOCK FALSE
