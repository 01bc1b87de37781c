SPECIFICATION DumpFairSpec
CONSTANTS
    Own <- MCOwn
    Foreign <- MCForeign
    nullifierPageSize = 2
    BallotBatchSize = 1
    Trustees = {t1, t2}
    Threshold = 2
    MaxCrashes = 1
INVARIANTS
    DumpInv
    VerdictIsTrueOfChain
PROPERTIES
    DumpEnds
CHECK_DEADLOCK FALSE
