\* Two clients race every operation of one election.
SPECIFICATION Spec
CONSTANTS
    None = None
    NoTx = NoTx
    Clients = {c1, c2}
    ElectionIds <- MCElectionIds
    NullifierIds <- MCNullifierIds
    ContestIds <- MCContestIds
    TrusteeIds <- MCTrusteeIds
    ParamsMsgs <- MCParamsMsgs
    TranscriptMsgs <- MCTranscriptMsgs
    BallotMsgs <- MCBallotMsgs
    PartialMsgs <- MCPartialMsgs
    TallyMsgs <- MCTallyMsgs
SYMMETRY Symmetry
INVARIANTS
    SerialInv
    LedgerSound
    PublishedTalliesEndorsed
    RecordsAreSingleVotes
    LosersExplained
PROPERTIES
    ImplementsBoard
    AppendOnly
CHECK_DEADLOCK FALSE
