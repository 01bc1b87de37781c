SPECIFICATION FairSpec
CONSTANTS
    NumTrustees = 2
    NumContests = 2
    Threshold = 2
    OnChain = TRUE
    Handlers = {h1}
    MaxFaults = 2
    MaxElsewhere = 0
PROPERTY
    CeremonyCompletes
