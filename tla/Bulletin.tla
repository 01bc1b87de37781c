------------------------------- MODULE Bulletin -------------------------------
(***************************************************************************)
(* The bulletin board as Hyperledger Fabric runs it.  A client's           *)
(* transaction is simulated on the committed world state (the contract's   *)
(* checks run here, against what is committed now), waits to be ordered    *)
(* for any length of time while others commit, and is validated when its   *)
(* turn comes: it takes effect only if every key it read still has the     *)
(* version it read.  The contract's own guards are evaluated only at       *)
(* simulation, so every promise of the board rests on each operation       *)
(* having READ every key its decision depends on.                          *)
(*                                                                         *)
(* The world state is one map from composite keys to versioned values, as  *)
(* in Fabric; the contract never deletes a key.                            *)
(***************************************************************************)
EXTENDS Chaincode

CONSTANTS
    Clients,      \* each has at most one transaction in flight
    NoTx          \* a client with no transaction in flight

VARIABLES
    ledger,       \* ledger[key] = [val, ver], version 0 for a key never written
    pending       \* pending[c] = the endorsed transaction of c, or NoTx

vars == <<ledger, pending>>

-----------------------------------------------------------------------------
(* Composite keys.                                                         *)

ElectionKey(e)      == <<"election", e>>
DKGKey(e)           == <<"dkg", e>>
StatusKey(e)        == <<"status", e>>
BallotKey(e, n)     == <<"ballot", e, n>>
NullifierKey(e, n)  == <<"nullifier", e, n>>
PartialKey(e, c, t) == <<"partialdec", e, c, t>>
TallyKey(e)         == <<"tally", e>>

Keys ==
    ({"election", "dkg", "status", "tally"} \X ElectionIds)
    \union ({"ballot", "nullifier"} \X ElectionIds \X NullifierIds)
    \union ({"partialdec"} \X ElectionIds \X ContestIds \X TrusteeIds)

Val(k) == ledger[k].val

-----------------------------------------------------------------------------
(* The keys an accepted call reads (GetState) and the values it writes     *)
(* (PutState).                                                             *)

CreateElectionReads(p) == {ElectionKey(p.election)}
CreateElectionWrites(p) ==
    [k \in {ElectionKey(p.election), StatusKey(p.election)} |->
        IF k = ElectionKey(p.election) THEN p ELSE Open]

PublishDKGReads_NoDuplicateCheck(t) == {ElectionKey(t.election)}
PublishDKGReads(t) == {ElectionKey(t.election), DKGKey(t.election)}
PublishDKGWrites(t) == [k \in {DKGKey(t.election)} |-> t]

SubmitBallotReads_NoStatus(b) ==
    {ElectionKey(b.election), NullifierKey(b.election, b.nullifier),
     DKGKey(b.election)}
SubmitBallotReads_NoNullifier(b) ==
    {ElectionKey(b.election), StatusKey(b.election), DKGKey(b.election)}
SubmitBallotReads(b) ==
    {ElectionKey(b.election), StatusKey(b.election),
     NullifierKey(b.election, b.nullifier), DKGKey(b.election)}
SubmitBallotWrites(b) ==
    [k \in {BallotKey(b.election, b.nullifier),
            NullifierKey(b.election, b.nullifier)} |->
        IF k = BallotKey(b.election, b.nullifier) THEN b ELSE 1]

CloseElectionReads(e) == {StatusKey(e)}
CloseElectionWrites(e) == [k \in {StatusKey(e)} |-> Closed]

SubmitPartialReads(d) ==
    {StatusKey(d.election), ElectionKey(d.election),
     PartialKey(d.election, d.contest, d.trustee)}
SubmitPartialWrites(d) ==
    [k \in {PartialKey(d.election, d.contest, d.trustee)} |-> d]

PublishTallyReads(t) ==
    {StatusKey(t.election), ElectionKey(t.election), TallyKey(t.election),
     DKGKey(t.election)}
PublishTallyWrites(t) == [k \in {TallyKey(t.election)} |-> t]

-----------------------------------------------------------------------------
(* Endorsement: the call's checks pass on the committed state, and its read *)
(* and write sets travel on as the client's pending transaction.  A refused *)
(* call leaves no trace.  The values read are kept with their versions for  *)
(* the proofs; validation looks at the versions only.                       *)

Endorse(c, request, reads, writes) ==
    /\ pending[c] = NoTx
    /\ pending' = [pending EXCEPT ![c] =
            [req |-> request, reads |-> [k \in reads |-> ledger[k]],
             writes |-> writes]]
    /\ UNCHANGED ledger

EndorseCreateElection(c, p) ==
    /\ CreateElectionAccepts(Val(ElectionKey(p.election)), p)
    /\ Endorse(c, [fn |-> "CreateElection", msg |-> p],
               CreateElectionReads(p), CreateElectionWrites(p))

EndorsePublishDKG(c, t) ==
    /\ PublishDKGAccepts(Val(ElectionKey(t.election)), Val(DKGKey(t.election)), t)
    /\ Endorse(c, [fn |-> "PublishDKGTranscript", msg |-> t],
               PublishDKGReads(t), PublishDKGWrites(t))

EndorseSubmitBallot_StatusUnread(c, b) ==
    /\ SubmitBallotAccepts(Val(ElectionKey(b.election)), Open,
            Val(NullifierKey(b.election, b.nullifier)),
            Val(DKGKey(b.election)), b)
    /\ Endorse(c, [fn |-> "SubmitBallot", msg |-> b],
               SubmitBallotReads(b), SubmitBallotWrites(b))
EndorseSubmitBallot(c, b) ==
    /\ SubmitBallotAccepts(Val(ElectionKey(b.election)),
            Val(StatusKey(b.election)),
            Val(NullifierKey(b.election, b.nullifier)),
            Val(DKGKey(b.election)), b)
    /\ Endorse(c, [fn |-> "SubmitBallot", msg |-> b],
               SubmitBallotReads(b), SubmitBallotWrites(b))

EndorseCloseElection(c, e) ==
    /\ CloseElectionAccepts(Val(StatusKey(e)))
    /\ Endorse(c, [fn |-> "CloseElection", election |-> e],
               CloseElectionReads(e), CloseElectionWrites(e))

EndorseSubmitPartial(c, d) ==
    /\ SubmitPartialAccepts(Val(ElectionKey(d.election)),
            Val(StatusKey(d.election)),
            Val(PartialKey(d.election, d.contest, d.trustee)), d)
    /\ Endorse(c, [fn |-> "SubmitPartialDecryption", msg |-> d],
               SubmitPartialReads(d), SubmitPartialWrites(d))

EndorsePublishTally(c, t) ==
    /\ PublishTallyAccepts(Val(ElectionKey(t.election)),
            Val(StatusKey(t.election)), Val(TallyKey(t.election)),
            Val(DKGKey(t.election)), t)
    /\ Endorse(c, [fn |-> "PublishTally", msg |-> t],
               PublishTallyReads(t), PublishTallyWrites(t))

-----------------------------------------------------------------------------
(* Ordering and validation.                                                *)

\* MVCC validation: no key of the read set was written since simulation.
ReadsCurrent(tx) ==
    \A k \in DOMAIN tx.reads : ledger[k].ver = tx.reads[k].ver

\* A valid transaction: all its writes take effect at once.
CommitValid(c) ==
    /\ pending[c] # NoTx
    /\ ReadsCurrent(pending[c])
    /\ ledger' = [k \in Keys |->
            IF k \in DOMAIN pending[c].writes
            THEN [val |-> pending[c].writes[k], ver |-> ledger[k].ver + 1]
            ELSE ledger[k]]
    /\ pending' = [pending EXCEPT ![c] = NoTx]

\* An invalidated transaction: ordered, recorded in a block, without effect.
CommitInvalid(c) ==
    /\ pending[c] # NoTx
    /\ ~ReadsCurrent(pending[c])
    /\ pending' = [pending EXCEPT ![c] = NoTx]
    /\ UNCHANGED ledger

\* The client dies, or the gateway fails, between endorsement and ordering.
LoseTransaction(c) ==
    /\ pending[c] # NoTx
    /\ pending' = [pending EXCEPT ![c] = NoTx]
    /\ UNCHANGED ledger

Init ==
    /\ ledger = [k \in Keys |-> [val |-> None, ver |-> 0]]
    /\ pending = [c \in Clients |-> NoTx]

ClientStep(c) ==
    \/ \E p \in ParamsMsgs : EndorseCreateElection(c, p)
    \/ \E t \in TranscriptMsgs : EndorsePublishDKG(c, t)
    \/ \E b \in BallotMsgs : EndorseSubmitBallot(c, b)
    \/ \E e \in ElectionIds : EndorseCloseElection(c, e)
    \/ \E d \in PartialMsgs : EndorseSubmitPartial(c, d)
    \/ \E t \in TallyMsgs : EndorsePublishTally(c, t)

Next ==
    \E c \in Clients :
        \/ ClientStep(c)
        \/ CommitValid(c)
        \/ CommitInvalid(c)
        \/ LoseTransaction(c)

Spec == Init /\ [][Next]_vars

-----------------------------------------------------------------------------
(* The board that the ledger implements.                                   *)

election   == [e \in ElectionIds |-> Val(ElectionKey(e))]
dkg        == [e \in ElectionIds |-> Val(DKGKey(e))]
status     == [e \in ElectionIds |-> Val(StatusKey(e))]
ballot     == [k \in ElectionIds \X NullifierIds |-> Val(BallotKey(k[1], k[2]))]
nullifier  == [k \in ElectionIds \X NullifierIds |-> Val(NullifierKey(k[1], k[2]))]
partialdec == [k \in ElectionIds \X ContestIds \X TrusteeIds |->
                    Val(PartialKey(k[1], k[2], k[3]))]
tally      == [e \in ElectionIds |-> Val(TallyKey(e))]

Board == INSTANCE BulletinBoardProofs
         WITH election <- election, dkg <- dkg, status <- status, ballot <- ballot,
              nullifier <- nullifier, partialdec <- partialdec, tally <- tally

-----------------------------------------------------------------------------
(* Properties.                                                             *)

\* Type invariant: versioned values under the known keys, and every index of
\* the ledger holds values of its kind.
TypeOK ==
    /\ DOMAIN ledger = Keys
    /\ \A k \in Keys : ledger[k].ver \in Nat
    /\ DOMAIN pending = Clients
    /\ Board!TypeOK

\* While a transaction waits, the keys it read only move forward, and a key
\* that still has the version it read still has the value it read: versions
\* are as good as values for validation.
SnapshotSound(tx) ==
    \A k \in DOMAIN tx.reads :
        /\ tx.reads[k].ver \in Nat
        /\ tx.reads[k].ver <= ledger[k].ver
        /\ tx.reads[k].ver = ledger[k].ver => tx.reads[k].val = ledger[k].val

\* A waiting transaction has the read and write set of a call whose checks
\* pass on the values it read.
AcceptedCreateElection(tx, p) ==
    /\ tx.req = [fn |-> "CreateElection", msg |-> p]
    /\ DOMAIN tx.reads = CreateElectionReads(p)
    /\ tx.writes = CreateElectionWrites(p)
    /\ CreateElectionAccepts(tx.reads[ElectionKey(p.election)].val, p)

AcceptedPublishDKG(tx, t) ==
    /\ tx.req = [fn |-> "PublishDKGTranscript", msg |-> t]
    /\ DOMAIN tx.reads = PublishDKGReads(t)
    /\ tx.writes = PublishDKGWrites(t)
    /\ PublishDKGAccepts(tx.reads[ElectionKey(t.election)].val,
                         tx.reads[DKGKey(t.election)].val, t)

AcceptedSubmitBallot(tx, b) ==
    /\ tx.req = [fn |-> "SubmitBallot", msg |-> b]
    /\ DOMAIN tx.reads = SubmitBallotReads(b)
    /\ tx.writes = SubmitBallotWrites(b)
    /\ SubmitBallotAccepts(tx.reads[ElectionKey(b.election)].val,
            tx.reads[StatusKey(b.election)].val,
            tx.reads[NullifierKey(b.election, b.nullifier)].val,
            tx.reads[DKGKey(b.election)].val, b)

AcceptedCloseElection(tx, e) ==
    /\ tx.req = [fn |-> "CloseElection", election |-> e]
    /\ DOMAIN tx.reads = CloseElectionReads(e)
    /\ tx.writes = CloseElectionWrites(e)
    /\ CloseElectionAccepts(tx.reads[StatusKey(e)].val)

AcceptedSubmitPartial(tx, d) ==
    /\ tx.req = [fn |-> "SubmitPartialDecryption", msg |-> d]
    /\ DOMAIN tx.reads = SubmitPartialReads(d)
    /\ tx.writes = SubmitPartialWrites(d)
    /\ SubmitPartialAccepts(tx.reads[ElectionKey(d.election)].val,
            tx.reads[StatusKey(d.election)].val,
            tx.reads[PartialKey(d.election, d.contest, d.trustee)].val, d)

AcceptedPublishTally(tx, t) ==
    /\ tx.req = [fn |-> "PublishTally", msg |-> t]
    /\ DOMAIN tx.reads = PublishTallyReads(t)
    /\ tx.writes = PublishTallyWrites(t)
    /\ PublishTallyAccepts(tx.reads[ElectionKey(t.election)].val,
            tx.reads[StatusKey(t.election)].val,
            tx.reads[TallyKey(t.election)].val,
            tx.reads[DKGKey(t.election)].val, t)

AcceptedOnReads(tx) ==
    \/ \E p \in ParamsMsgs : AcceptedCreateElection(tx, p)
    \/ \E t \in TranscriptMsgs : AcceptedPublishDKG(tx, t)
    \/ \E b \in BallotMsgs : AcceptedSubmitBallot(tx, b)
    \/ \E e \in ElectionIds : AcceptedCloseElection(tx, e)
    \/ \E d \in PartialMsgs : AcceptedSubmitPartial(tx, d)
    \/ \E t \in TallyMsgs : AcceptedPublishTally(tx, t)

\* The inductive invariant of the endorse-order-validate protocol.
SerialInv ==
    /\ DOMAIN ledger = Keys
    /\ \A k \in Keys : ledger[k].ver \in Nat
    /\ DOMAIN pending = Clients
    /\ \A c \in Clients : pending[c] # NoTx =>
          SnapshotSound(pending[c]) /\ AcceptedOnReads(pending[c])

\* Serializability: endorsing against a state that others change before the
\* commit never shows.  Every valid commit is one atomic operation of the
\* board, allowed in the state in which it takes effect.
ImplementsBoard == Board!Spec

\* The board's safety, of the ledger (see BulletinBoard).
BallotsMatchNullifiers == Board!BallotsMatchNullifiers
BallotsReverify        == Board!BallotsReverify
SharesOnlyAfterClose   == Board!SharesOnlyAfterClose
AppendOnly             == Board!AppendOnly

\* What the contract promises of its records, whatever commits between a check and
\* its commit: a ballot and its spent nullifier come together, a recorded ballot
\* still verifies against the election and the transcript on the board, and no
\* decryption share precedes the close.
LedgerSound == BallotsMatchNullifiers /\ BallotsReverify /\ SharesOnlyAfterClose

\* A published tally, in a closed election, is endorsed by at least threshold
\* distinct trustees under the transcript now on the board, and carries no
\* signature that an auditor would reject.
PublishedTalliesEndorsed ==
    \A e \in ElectionIds :
        tally[e] # None =>
            LET endorsers == Endorsers(election[e], dkg[e], tally[e])
            IN  /\ status[e] = Closed
                /\ election[e] # None /\ dkg[e] # None
                /\ Cardinality(endorsers) >= election[e].threshold
                /\ Signers(tally[e]) \subseteq endorsers

\* In an election bound to an issuer every recorded ballot is a vote for
\* exactly one of its position's candidates, cast with a credential of that
\* issuer; where contests belong to positions it names one.
RecordsAreSingleVotes ==
    \A e \in ElectionIds, n \in NullifierIds :
        LET b == ballot[<<e, n>>]
            p == election[e]
        IN  b # None /\ IssuerBound(p) =>
              /\ \E l \in DOMAIN b.votes :
                    /\ b.votes[l] = 1
                    /\ \A m \in DOMAIN b.votes \ {l} : b.votes[m] = 0
              /\ b.signer = p.issuer
              /\ positionedContests(p.contests) => b.position # << >>

\* A ballot endorsed and then invalidated at commit was beaten by a ballot
\* with its nullifier or by the close of the election, by nothing else: ballots
\* of different nullifiers never invalidate each other.  The campaign runner
\* counts on it when it decides whether a failed submission is a drop.
StaleBallotExplained ==
    \A c \in Clients :
        LET tx == pending[c]
        IN  tx # NoTx /\ tx.req.fn = "SubmitBallot" /\ ~ReadsCurrent(tx) =>
              LET b == tx.req.msg
              IN  \/ Val(NullifierKey(b.election, b.nullifier)) = 1
                  \/ Val(StatusKey(b.election)) = Closed

\* An endorsed close is never starved by the ballots still arriving: it is
\* invalidated only when another close came first.
CloseNeverStarved ==
    \A c \in Clients :
        LET tx == pending[c]
        IN  tx # NoTx /\ tx.req.fn = "CloseElection" /\ ~ReadsCurrent(tx) =>
              Val(StatusKey(tx.req.election)) = Closed

\* Both: a client whose endorsed transaction did not take effect knows who beat it.
LosersExplained == StaleBallotExplained /\ CloseNeverStarved
=============================================================================
