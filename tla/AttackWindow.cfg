\* Four ballots, two in each half; the operator may decide three times.
SPECIFICATION FairSpec
CONSTANTS
    None = None
    N = 4
    BallotsAt = 50
    Plan = {"ballots", "close", "ceremony"}
    Timed = TRUE
    Workers = {w1, w2}
    QueueCap = 2
    MaxDecisions = 3
    MaxFaults = 1
    MaxReruns = 1
INVARIANTS
    LiveAttacksHarmless
    ParkedLinesAreAwaited
    JoinedIsTruth
PROPERTIES
    DecisionsKept
    RunEnds
CHECK_DEADLOCK FALSE
