CONSTANTS
    Warmups = 1
    Reps = 1
    Sweep = TRUE
    Burst = FALSE
    Tiers = 2
    maxSweepSteps = 2
    MaxTps = 1
    MaxJobs = 2
    MaxMeddled = 1
    MaxStops = 1
SPECIFICATION FairSpec
INVARIANTS
    NoFalseInterruption
    CancelBetweenRepetitions
    FiguresTrue
    LargeNeedsLadder
PROPERTIES
    CancelFrees
CHECK_DEADLOCK FALSE
