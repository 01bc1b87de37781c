-------------------------- MODULE BulletinMessages --------------------------
(***************************************************************************)
(* The messages that clients of the bulletin board submit, the ids they    *)
(* carry, and the values the contract keeps in the world state.            *)
(***************************************************************************)
EXTENDS Integers, Sequences

CONSTANTS
    None,             \* what GetState returns for an absent key
    ElectionIds,      \* election ids
    NullifierIds,     \* nullifiers
    ContestIds,       \* contest ids a partial decryption may name
    TrusteeIds,       \* trustee ids a partial decryption may name
    ParamsMsgs,       \* the ElectionParameters that clients submit
    TranscriptMsgs,   \* the DKG transcripts
    BallotMsgs,       \* the ballots
    PartialMsgs,      \* the partial decryptions
    TallyMsgs         \* the tallies

\* The two lifecycle statuses of an election.
Open   == "open"
Closed == "closed"

\* A protobuf repeated field.
Repeated(s) == s \in Seq({s[i] : i \in DOMAIN s})

ASSUME MessagesAssumption ==
    /\ \A m \in ParamsMsgs \union TranscriptMsgs \union TallyMsgs :
            m.election \in ElectionIds
    /\ \A b \in BallotMsgs :
            /\ b.election \in ElectionIds /\ b.nullifier \in NullifierIds
            /\ Repeated(b.votes) /\ Repeated(b.proofs)
    /\ \A d \in PartialMsgs :
            /\ d.election \in ElectionIds
            /\ d.contest \in ContestIds
            /\ d.trustee \in TrusteeIds
    /\ \A p \in ParamsMsgs : Repeated(p.trustees) /\ p.threshold \in Int
    /\ \A t \in TallyMsgs : Repeated(t.signatures)
    /\ None \notin ParamsMsgs /\ None \notin TranscriptMsgs
    /\ None \notin BallotMsgs /\ None \notin PartialMsgs
    /\ None \notin TallyMsgs
    /\ None # Open /\ None # Closed /\ None # 1
=============================================================================
