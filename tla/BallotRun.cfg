SPECIFICATION FairSpec
CONSTANTS
    N = 2
    Concurrency = 2
    MaxFaults = 2
    Configs <- MCConfigs
INVARIANTS
    NoneShutOut
    RunRecordTrue
PROPERTIES
    ResumeFinishes
