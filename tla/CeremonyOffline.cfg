SPECIFICATION FairSpec
CONSTANTS
    NumTrustees = 3
    NumContests = 1
    Threshold = 2
    OnChain = FALSE
    Handlers = {h1}
    MaxFaults = 2
    MaxElsewhere = 0
INVARIANTS
    PublishedAboveThreshold
PROPERTIES
    CeremonyCompletes
