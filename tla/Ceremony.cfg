SPECIFICATION Spec
CONSTANTS
    NumTrustees = 2
    NumContests = 2
    Threshold = 1
    OnChain = TRUE
    Handlers = {h1}
    MaxFaults = 1
    MaxElsewhere = 2
INVARIANTS
    RecordedIsOnChain
    TallyEndorsedByContributors
    RecordSurvives
    StatusTrue
