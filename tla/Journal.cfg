\* Two goroutines stamp progress at once into a queue of one, so that the newest line
\* itself can be the one that is coalesced away; another goroutine stamps and races Close.
SPECIFICATION FairSpec
CONSTANTS
    Dispatchers = {d1, d2}
    Stampers = {s1}
    Main = main
    QueueCap = 1
    MaxProgress = 3
    MaxStamps = 1
INVARIANTS
    RecordComplete
    DispatchNeverWaits
PROPERTIES
    CallsReturn
CHECK_DEADLOCK FALSE
