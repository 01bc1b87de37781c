------------------------- MODULE BulletinBoardProofs -------------------------
(***************************************************************************)
(* Proofs about the atomic bulletin board, for every set of ids and of     *)
(* messages and for all rules of admission that are sound.                 *)
(***************************************************************************)
EXTENDS BulletinBoard, TLAPS

\* A share is accepted under a key that is free, in a closed election.
LEMMA PartialFacts ==
    ASSUME RulesSound, TypeOK, NEW d \in PartialMsgs, SubmitPartialDecryption(d)
    PROVE  /\ <<d.election, d.contest, d.trustee>>
                  \in ElectionIds \X ContestIds \X TrusteeIds
           /\ partialdec[<<d.election, d.contest, d.trustee>>] = None
           /\ status[d.election] = Closed
<1>1. <<d.election, d.contest, d.trustee>>
        \in ElectionIds \X ContestIds \X TrusteeIds
  BY MessagesAssumption
<1>2. /\ election[d.election] \in ParamsMsgs \union {None}
      /\ status[d.election] \in {None, Open, Closed}
      /\ partialdec[<<d.election, d.contest, d.trustee>>]
            \in PartialMsgs \union {None}
  BY <1>1 DEF TypeOK
<1> QED
  BY <1>1, <1>2 DEF SubmitPartialDecryption, RulesSound, SubmitPartialRule

-----------------------------------------------------------------------------
(* The board only grows.                                                   *)

\* Under the invariant no operation of the contract changes or removes a
\* recorded value, reopens an election or adds a ballot to a closed one: each
\* writes only keys it found absent, and SubmitBallot found the election open.
LEMMA StepAppendOnly ==
    ASSUME RulesSound, BoardInv, [Next]_boardVars
    PROVE  BoardAppendOnly
<1> USE DEF BoardInv, TypeOK, Permanent, BoardAppendOnly
<1>1. ASSUME NEW p \in ParamsMsgs, CreateElection(p) PROVE BoardAppendOnly
  BY <1>1, MessagesAssumption
     DEF CreateElection, RulesSound, CreateElectionRule, StatusMatchesElection
<1>2. ASSUME NEW t \in TranscriptMsgs, PublishDKGTranscript(t)
      PROVE  BoardAppendOnly
  BY <1>2, MessagesAssumption DEF PublishDKGTranscript, RulesSound, PublishDKGRule
<1>3. ASSUME NEW b \in BallotMsgs, SubmitBallot(b) PROVE BoardAppendOnly
  <2>1. /\ status[b.election] = Open
        /\ nullifier[<<b.election, b.nullifier>>] = None
    BY <1>3, MessagesAssumption DEF SubmitBallot, RulesSound, SubmitBallotRule
  <2>2. b.election \in ElectionIds /\ b.nullifier \in NullifierIds
    BY MessagesAssumption
  <2>3. ballot[<<b.election, b.nullifier>>] = None
    BY <2>1, <2>2, MessagesAssumption DEF BallotsMatchNullifiers
  <2>4. Open # Closed
    BY DEF Open, Closed
  <2>5. Permanent(ballot) /\ Permanent(nullifier)
    BY <1>3, <2>1, <2>2, <2>3 DEF SubmitBallot
  <2>6. \A e \in ElectionIds, n \in NullifierIds :
            status[e] = Closed => ballot'[<<e, n>>] = ballot[<<e, n>>]
    BY <1>3, <2>1, <2>2, <2>4 DEF SubmitBallot
  <2> QED
    BY <1>3, <2>5, <2>6 DEF SubmitBallot
<1>4. ASSUME NEW e \in ElectionIds, CloseElection(e) PROVE BoardAppendOnly
  <2>1. status' = [status EXCEPT ![e] = Closed]
    BY <1>4 DEF CloseElection
  <2>2. \A x \in ElectionIds : status[x] = Closed => status'[x] = Closed
    BY <2>1
  <2> QED
    BY <1>4, <2>2 DEF CloseElection
<1>5. ASSUME NEW d \in PartialMsgs, SubmitPartialDecryption(d)
      PROVE  BoardAppendOnly
  <2>1. Permanent(partialdec)
    BY <1>5, PartialFacts DEF SubmitPartialDecryption
  <2> QED
    BY <1>5, <2>1 DEF SubmitPartialDecryption
<1>6. ASSUME NEW t \in TallyMsgs, PublishTally(t) PROVE BoardAppendOnly
  BY <1>6, MessagesAssumption DEF PublishTally, RulesSound, PublishTallyRule
<1>7. ASSUME UNCHANGED boardVars PROVE BoardAppendOnly
  BY <1>7 DEF boardVars
<1> QED
  BY <1>1, <1>2, <1>3, <1>4, <1>5, <1>6, <1>7 DEF Next

-----------------------------------------------------------------------------
(* The invariant is inductive.                                             *)

\* The empty board is safe.
LEMMA InitBoardInv == Init => BoardInv
BY MessagesAssumption
   DEF Init, BoardInv, TypeOK, BallotsMatchNullifiers,
       BallotsReverify, TalliesReverify, SharesOnlyAfterClose,
       StatusMatchesElection

\* Every operation writes values of the index's type.
LEMMA StepTypeOK ==
    ASSUME TypeOK, [Next]_boardVars
    PROVE  TypeOK'
<1> USE MessagesAssumption DEF TypeOK
<1>1. ASSUME NEW p \in ParamsMsgs, CreateElection(p) PROVE TypeOK'
  BY <1>1 DEF CreateElection
<1>2. ASSUME NEW t \in TranscriptMsgs, PublishDKGTranscript(t) PROVE TypeOK'
  BY <1>2 DEF PublishDKGTranscript
<1>3. ASSUME NEW b \in BallotMsgs, SubmitBallot(b) PROVE TypeOK'
  BY <1>3 DEF SubmitBallot
<1>4. ASSUME NEW e \in ElectionIds, CloseElection(e) PROVE TypeOK'
  BY <1>4 DEF CloseElection
<1>5. ASSUME NEW d \in PartialMsgs, SubmitPartialDecryption(d) PROVE TypeOK'
  BY <1>5 DEF SubmitPartialDecryption
<1>6. ASSUME NEW t \in TallyMsgs, PublishTally(t) PROVE TypeOK'
  BY <1>6 DEF PublishTally
<1>7. ASSUME UNCHANGED boardVars PROVE TypeOK'
  BY <1>7 DEF boardVars
<1> QED
  BY <1>1, <1>2, <1>3, <1>4, <1>5, <1>6, <1>7 DEF Next

\* A ballot already recorded keeps re-verifying because its election's
\* parameters and transcript were present and are permanent; a ballot being
\* recorded was just checked against them.
LEMMA StepReverify ==
    ASSUME RulesSound, BoardInv, [Next]_boardVars
    PROVE  BallotsReverify'
<1> SUFFICES ASSUME NEW e \in ElectionIds, NEW n \in NullifierIds,
                    ballot'[<<e, n>>] # None
             PROVE  SubmitBallotAccepts(election'[e], Open, None, dkg'[e],
                                        ballot'[<<e, n>>])
  BY DEF BallotsReverify
<1> USE DEF BoardInv, TypeOK
<1>1. CASE ballot[<<e, n>>] # None
  <2>1. SubmitBallotAccepts(election[e], Open, None, dkg[e], ballot[<<e, n>>])
    BY <1>1 DEF BallotsReverify
  <2>2. election[e] # None /\ dkg[e] # None
    BY <2>1, <1>1 DEF RulesSound, SubmitBallotRule
  <2>3. /\ election'[e] = election[e]
        /\ dkg'[e] = dkg[e]
        /\ ballot'[<<e, n>>] = ballot[<<e, n>>]
    BY <1>1, <2>2, StepAppendOnly DEF BoardAppendOnly, Permanent
  <2> QED
    BY <2>1, <2>3
<1>2. CASE ballot[<<e, n>>] = None
  <2>1. ballot' # ballot
    BY <1>2
  <2>2. PICK b \in BallotMsgs : SubmitBallot(b)
    BY <2>1 DEF Next, boardVars, CreateElection, PublishDKGTranscript,
                CloseElection, SubmitPartialDecryption, PublishTally
  <2>3. e = b.election /\ n = b.nullifier /\ ballot'[<<e, n>>] = b
    BY <1>2, <2>2, MessagesAssumption DEF SubmitBallot
  <2>4. /\ SubmitBallotAccepts(election[e], status[e], nullifier[<<e, n>>],
                               dkg[e], b)
        /\ election' = election /\ dkg' = dkg
    BY <2>2, <2>3 DEF SubmitBallot
  <2>5. status[e] = Open /\ nullifier[<<e, n>>] = None
    BY <2>4 DEF RulesSound, SubmitBallotRule
  <2> QED
    BY <2>3, <2>4, <2>5
<1> QED
  BY <1>1, <1>2

\* Likewise a published tally.
LEMMA StepTallies ==
    ASSUME RulesSound, BoardInv, [Next]_boardVars
    PROVE  TalliesReverify'
<1> SUFFICES ASSUME NEW e \in ElectionIds, tally'[e] # None
             PROVE  /\ tally'[e].election = e
                    /\ status'[e] = Closed
                    /\ PublishTallyAccepts(election'[e], Closed, None, dkg'[e],
                                           tally'[e])
  BY DEF TalliesReverify
<1> USE DEF BoardInv, TypeOK
<1>1. CASE tally[e] # None
  <2>1. /\ tally[e].election = e
        /\ status[e] = Closed
        /\ PublishTallyAccepts(election[e], Closed, None, dkg[e], tally[e])
    BY <1>1 DEF TalliesReverify
  <2>2. election[e] # None /\ dkg[e] # None
    BY <1>1, <2>1 DEF RulesSound, PublishTallyRule
  <2>3. /\ election'[e] = election[e] /\ dkg'[e] = dkg[e]
        /\ tally'[e] = tally[e] /\ status'[e] = Closed
    BY <1>1, <2>1, <2>2, StepAppendOnly DEF BoardAppendOnly, Permanent
  <2> QED
    BY <2>1, <2>3
<1>2. CASE tally[e] = None
  <2>1. PICK t \in TallyMsgs : PublishTally(t)
    BY <1>2 DEF Next, boardVars, CreateElection, PublishDKGTranscript,
                SubmitBallot, CloseElection, SubmitPartialDecryption
  <2>2. e = t.election /\ tally'[e] = t
    BY <1>2, <2>1, MessagesAssumption DEF PublishTally
  <2>3. /\ PublishTallyAccepts(election[e], status[e], tally[e], dkg[e], t)
        /\ status' = status /\ election' = election /\ dkg' = dkg
    BY <2>1, <2>2 DEF PublishTally
  <2>4. status[e] = Closed
    <3>1. PublishTallyRule
      BY DEF RulesSound
    <3>2. /\ election[e] \in ParamsMsgs \union {None}
          /\ status[e] \in {None, Open, Closed}
          /\ tally[e] \in TallyMsgs \union {None}
          /\ dkg[e] \in TranscriptMsgs \union {None}
      OBVIOUS
    <3> QED
      BY <2>3, <3>1, <3>2 DEF PublishTallyRule
  <2> QED
    BY <1>2, <2>2, <2>3, <2>4
<1> QED
  BY <1>1, <1>2

\* The remaining conjuncts, each disturbed by few operations.
LEMMA StepBallotsMatch ==
    ASSUME RulesSound, BoardInv, [Next]_boardVars
    PROVE  BallotsMatchNullifiers'
<1> USE DEF BoardInv, TypeOK, BallotsMatchNullifiers
<1>1. ASSUME NEW b \in BallotMsgs, SubmitBallot(b) PROVE BallotsMatchNullifiers'
  <2> DEFINE k == <<b.election, b.nullifier>>
  <2>1. b # None /\ k \in ElectionIds \X NullifierIds
    BY MessagesAssumption
  <2>2. ballot'[k] = b /\ nullifier'[k] = 1
    BY <1>1, <2>1 DEF SubmitBallot
  <2>3. \A j \in ElectionIds \X NullifierIds :
            j # k => ballot'[j] = ballot[j] /\ nullifier'[j] = nullifier[j]
    BY <1>1, <2>1 DEF SubmitBallot
  <2>4. SUFFICES ASSUME NEW e \in ElectionIds, NEW n \in NullifierIds
        PROVE  /\ ballot'[<<e, n>>] # None <=> nullifier'[<<e, n>>] = 1
               /\ ballot'[<<e, n>>] # None =>
                    /\ ballot'[<<e, n>>].election = e
                    /\ ballot'[<<e, n>>].nullifier = n
    OBVIOUS
  <2>5. CASE <<e, n>> = k
    BY <2>1, <2>2, <2>5
  <2>6. CASE <<e, n>> # k
    BY <2>3, <2>6
  <2> QED
    BY <2>5, <2>6
<1>2. CASE UNCHANGED <<ballot, nullifier>>
  BY <1>2
<1> QED
  BY <1>1, <1>2 DEF Next, boardVars, CreateElection, PublishDKGTranscript,
                    CloseElection, SubmitPartialDecryption, PublishTally

\* Shares are added only after the close, and no election reopens.
LEMMA StepShares ==
    ASSUME RulesSound, BoardInv, [Next]_boardVars
    PROVE  SharesOnlyAfterClose'
<1> USE DEF BoardInv, TypeOK, SharesOnlyAfterClose
<1>1. \A e \in ElectionIds : status[e] = Closed => status'[e] = Closed
  BY StepAppendOnly DEF BoardAppendOnly
<1>2. ASSUME NEW d \in PartialMsgs, SubmitPartialDecryption(d)
      PROVE  SharesOnlyAfterClose'
  <2> DEFINE k == <<d.election, d.contest, d.trustee>>
  <2>1. /\ status' = status
        /\ \A j \in ElectionIds \X ContestIds \X TrusteeIds :
              j # k => partialdec'[j] = partialdec[j]
    BY <1>2, PartialFacts DEF SubmitPartialDecryption
  <2>2. status[d.election] = Closed
    BY <1>2, PartialFacts
  <2> QED
    BY <2>1, <2>2
<1>3. CASE UNCHANGED partialdec
  BY <1>1, <1>3
<1> QED
  BY <1>2, <1>3 DEF Next, boardVars, CreateElection, PublishDKGTranscript,
                    SubmitBallot, CloseElection, PublishTally

\* An election has a status exactly when it exists.
LEMMA StepStatus ==
    ASSUME RulesSound, BoardInv, [Next]_boardVars
    PROVE  StatusMatchesElection'
<1> USE DEF BoardInv, TypeOK, StatusMatchesElection
<1>1. ASSUME NEW p \in ParamsMsgs, CreateElection(p) PROVE StatusMatchesElection'
  BY <1>1, MessagesAssumption DEF CreateElection
<1>2. ASSUME NEW e \in ElectionIds, CloseElection(e) PROVE StatusMatchesElection'
  BY <1>2, MessagesAssumption DEF CloseElection, RulesSound, CloseElectionRule
<1>3. CASE UNCHANGED <<election, status>>
  BY <1>3
<1> QED
  BY <1>1, <1>2, <1>3 DEF Next, boardVars, PublishDKGTranscript, SubmitBallot,
                          SubmitPartialDecryption, PublishTally

-----------------------------------------------------------------------------
(* Theorems.                                                               *)

\* Under sound rules the board's safety holds in every reachable state:
\* ballots match spent nullifiers, ballots and tallies re-verify, and no share
\* precedes the close.
THEOREM BoardSafe == RulesSound => (Spec => []BoardInv)
<1> SUFFICES ASSUME RulesSound PROVE Spec => []BoardInv
  OBVIOUS
<1>1. Init => BoardInv
  BY InitBoardInv
<1>2. BoardInv /\ [Next]_boardVars => BoardInv'
  BY StepTypeOK, StepReverify, StepTallies, StepBallotsMatch, StepShares,
     StepStatus DEF BoardInv
<1> QED
  BY <1>1, <1>2, PTL DEF Spec

\* The board is append-only and a closed election keeps its ballots.
THEOREM BoardIsAppendOnly == RulesSound => (Spec => AppendOnly)
<1> SUFFICES ASSUME RulesSound PROVE Spec => AppendOnly
  OBVIOUS
<1>1. BoardInv /\ [Next]_boardVars => [BoardAppendOnly]_boardVars
  BY StepAppendOnly
<1> QED
  BY <1>1, BoardSafe, PTL DEF Spec, AppendOnly
=============================================================================
