---------------------------- MODULE BulletinBoard ----------------------------
(***************************************************************************)
(* What the bulletin board promises, whatever its rules of admission: every *)
(* operation takes effect in one atomic step on the state that its rule    *)
(* was checked against, what is recorded is permanent, and the record can  *)
(* be re-verified from the board alone.  One variable per composite-key    *)
(* index of the contract.  Chaincode.tla defines the contract's rules;     *)
(* Bulletin.tla models how Fabric really runs it (simulate, order,         *)
(* validate) and implements this specification.                            *)
(***************************************************************************)
EXTENDS BulletinMessages

CONSTANTS             \* the rules, of the values read and the message
    CreateElectionAccepts(_, _),
    PublishDKGAccepts(_, _, _),
    SubmitBallotAccepts(_, _, _, _, _),
    CloseElectionAccepts(_),
    SubmitPartialAccepts(_, _, _, _),
    PublishTallyAccepts(_, _, _, _, _)

\* What the rules must demand at the least: that the key to be written is
\* absent, that the records a check relies on are present, that ballots meet
\* an open election, shares and tallies a closed one.
CreateElectionRule ==
    \A x \in ParamsMsgs \union {None}, p \in ParamsMsgs :
        CreateElectionAccepts(x, p) => x = None

PublishDKGRule ==
    \A p \in ParamsMsgs \union {None}, x \in TranscriptMsgs \union {None},
       t \in TranscriptMsgs :
        PublishDKGAccepts(p, x, t) => p # None /\ x = None

SubmitBallotRule ==
    \A p \in ParamsMsgs \union {None}, s \in {None, Open, Closed},
       n \in {None, 1}, d \in TranscriptMsgs \union {None}, b \in BallotMsgs :
        SubmitBallotAccepts(p, s, n, d, b) =>
            p # None /\ s = Open /\ n = None /\ d # None

CloseElectionRule ==
    \A s \in {None, Open, Closed} : CloseElectionAccepts(s) => s = Open

SubmitPartialRule ==
    \A p \in ParamsMsgs \union {None}, s \in {None, Open, Closed},
       x \in PartialMsgs \union {None}, d \in PartialMsgs :
        SubmitPartialAccepts(p, s, x, d) => p # None /\ s = Closed /\ x = None

PublishTallyRule ==
    \A p \in ParamsMsgs \union {None}, s \in {None, Open, Closed},
       x \in TallyMsgs \union {None}, d \in TranscriptMsgs \union {None},
       t \in TallyMsgs :
        PublishTallyAccepts(p, s, x, d, t) =>
            p # None /\ s = Closed /\ x = None /\ d # None

RulesSound ==
    /\ CreateElectionRule
    /\ PublishDKGRule
    /\ SubmitBallotRule
    /\ CloseElectionRule
    /\ SubmitPartialRule
    /\ PublishTallyRule

VARIABLES
    election,     \* election[e]: the stored parameters
    dkg,          \* dkg[e]: the stored DKG transcript
    status,       \* status[e]: open or closed
    ballot,       \* ballot[e, n]: the recorded ballot
    nullifier,    \* nullifier[e, n]: the spent mark
    partialdec,   \* partialdec[e, c, t]: the recorded share
    tally         \* tally[e]: the published tally

boardVars == <<election, dkg, status, ballot, nullifier, partialdec, tally>>

TypeOK ==
    /\ election \in [ElectionIds -> ParamsMsgs \union {None}]
    /\ dkg \in [ElectionIds -> TranscriptMsgs \union {None}]
    /\ status \in [ElectionIds -> {None, Open, Closed}]
    /\ ballot \in [ElectionIds \X NullifierIds -> BallotMsgs \union {None}]
    /\ nullifier \in [ElectionIds \X NullifierIds -> {1, None}]
    /\ partialdec \in
        [ElectionIds \X ContestIds \X TrusteeIds -> PartialMsgs \union {None}]
    /\ tally \in [ElectionIds -> TallyMsgs \union {None}]

Init ==
    /\ election = [e \in ElectionIds |-> None]
    /\ dkg = [e \in ElectionIds |-> None]
    /\ status = [e \in ElectionIds |-> None]
    /\ ballot = [k \in ElectionIds \X NullifierIds |-> None]
    /\ nullifier = [k \in ElectionIds \X NullifierIds |-> None]
    /\ partialdec = [k \in ElectionIds \X ContestIds \X TrusteeIds |-> None]
    /\ tally = [e \in ElectionIds |-> None]

-----------------------------------------------------------------------------

CreateElection(p) ==
    /\ CreateElectionAccepts(election[p.election], p)
    /\ election' = [election EXCEPT ![p.election] = p]
    /\ status' = [status EXCEPT ![p.election] = Open]
    /\ UNCHANGED <<dkg, ballot, nullifier, partialdec, tally>>

PublishDKGTranscript(t) ==
    /\ PublishDKGAccepts(election[t.election], dkg[t.election], t)
    /\ dkg' = [dkg EXCEPT ![t.election] = t]
    /\ UNCHANGED <<election, status, ballot, nullifier, partialdec, tally>>

SubmitBallot(b) ==
    /\ SubmitBallotAccepts(election[b.election], status[b.election],
            nullifier[<<b.election, b.nullifier>>], dkg[b.election], b)
    /\ ballot' = [ballot EXCEPT ![<<b.election, b.nullifier>>] = b]
    /\ nullifier' = [nullifier EXCEPT ![<<b.election, b.nullifier>>] = 1]
    /\ UNCHANGED <<election, dkg, status, partialdec, tally>>

CloseElection(e) ==
    /\ CloseElectionAccepts(status[e])
    /\ status' = [status EXCEPT ![e] = Closed]
    /\ UNCHANGED <<election, dkg, ballot, nullifier, partialdec, tally>>

SubmitPartialDecryption(d) ==
    /\ SubmitPartialAccepts(election[d.election], status[d.election],
            partialdec[<<d.election, d.contest, d.trustee>>], d)
    /\ partialdec' =
            [partialdec EXCEPT ![<<d.election, d.contest, d.trustee>>] = d]
    /\ UNCHANGED <<election, dkg, status, ballot, nullifier, tally>>

PublishTally(t) ==
    /\ PublishTallyAccepts(election[t.election], status[t.election],
            tally[t.election], dkg[t.election], t)
    /\ tally' = [tally EXCEPT ![t.election] = t]
    /\ UNCHANGED <<election, dkg, status, ballot, nullifier, partialdec>>

Next ==
    \/ \E p \in ParamsMsgs : CreateElection(p)
    \/ \E t \in TranscriptMsgs : PublishDKGTranscript(t)
    \/ \E b \in BallotMsgs : SubmitBallot(b)
    \/ \E e \in ElectionIds : CloseElection(e)
    \/ \E d \in PartialMsgs : SubmitPartialDecryption(d)
    \/ \E t \in TallyMsgs : PublishTally(t)

Spec == Init /\ [][Next]_boardVars

-----------------------------------------------------------------------------
(* Safety.                                                                 *)

\* The ballot of a spent nullifier is on the board, and only those: the two
\* writes of SubmitBallot never come apart, and each record lies under its
\* own nullifier.
BallotsMatchNullifiers ==
    \A e \in ElectionIds, n \in NullifierIds :
        /\ ballot[<<e, n>>] # None <=> nullifier[<<e, n>>] = 1
        /\ ballot[<<e, n>>] # None =>
              ballot[<<e, n>>].election = e /\ ballot[<<e, n>>].nullifier = n

\* What an auditor recomputes from the board agrees with what was checked at
\* submission: every recorded ballot still passes every check (as if the
\* election were open and its nullifier unspent) against the parameters and
\* the transcript now on the board.
BallotsReverify ==
    \A e \in ElectionIds, n \in NullifierIds :
        ballot[<<e, n>>] # None =>
            SubmitBallotAccepts(election[e], Open, None, dkg[e], ballot[<<e, n>>])

\* So do the published tallies, and their elections are closed.
TalliesReverify ==
    \A e \in ElectionIds :
        tally[e] # None =>
            /\ tally[e].election = e
            /\ status[e] = Closed
            /\ PublishTallyAccepts(election[e], Closed, None, dkg[e], tally[e])

\* No decryption share of an election is on the board while ballots are still
\* accepted.
SharesOnlyAfterClose ==
    \A e \in ElectionIds, c \in ContestIds, t \in TrusteeIds :
        partialdec[<<e, c, t>>] # None => status[e] = Closed

\* The inductive strengthening: an election has parameters exactly when it
\* has a status.
StatusMatchesElection ==
    \A e \in ElectionIds : status[e] = None <=> election[e] = None

BoardInv ==
    /\ TypeOK
    /\ BallotsMatchNullifiers
    /\ BallotsReverify
    /\ TalliesReverify
    /\ SharesOnlyAfterClose
    /\ StatusMatchesElection

\* Nothing recorded is ever changed or removed, and a closed election stays
\* closed with the ballots it had.
Permanent(f) == \A k \in DOMAIN f : f[k] # None => f'[k] = f[k]

BoardAppendOnly ==
    /\ Permanent(election) /\ Permanent(dkg) /\ Permanent(ballot)
    /\ Permanent(nullifier) /\ Permanent(partialdec) /\ Permanent(tally)
    /\ \A e \in ElectionIds :
          status[e] = Closed =>
            /\ status'[e] = Closed
            /\ \A n \in NullifierIds : ballot'[<<e, n>>] = ballot[<<e, n>>]

AppendOnly == [][BoardAppendOnly]_boardVars
=============================================================================
