SPECIFICATION FairSpec
CONSTANTS
    N = 2
    Concurrency = 2
    MaxFaults = 1
    Configs <- MCConfigs
PROPERTY
    NothingSubmittedIsTrue
