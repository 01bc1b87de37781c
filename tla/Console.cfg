CONSTANT Runs = {r1, r2}
SPECIFICATION FairSpec
INVARIANTS
    Exclusion
    FaultContained
    SegmentOverOpenWindow
    ConnOfThisNetwork
PROPERTIES
    NothingHangs
CHECK_DEADLOCK FALSE
