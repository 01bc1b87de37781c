--------------------------- MODULE BulletinProofs ---------------------------
(***************************************************************************)
(* The endorse-order-validate execution of the contract implements the     *)
(* atomic board, for every number of clients, elections and messages.  The *)
(* last section is about the record that the console reads back off the    *)
(* ledger (LedgerDump), for every number of ballots and size of page.      *)
(***************************************************************************)
EXTENDS Bulletin, LedgerDump, FiniteSetTheorems, WellFoundedInduction, TLAPS

\* Every key that a call reads or writes is a key of the ledger, and keys of
\* different indexes differ.
LEMMA KeyFacts ==
    /\ \A e \in ElectionIds : {ElectionKey(e), DKGKey(e), StatusKey(e), TallyKey(e)}
                                 \subseteq Keys
    /\ \A e \in ElectionIds, n \in NullifierIds :
            {BallotKey(e, n), NullifierKey(e, n)} \subseteq Keys
    /\ \A e \in ElectionIds, c \in ContestIds, t \in TrusteeIds :
            PartialKey(e, c, t) \in Keys
BY DEF Keys, ElectionKey, DKGKey, StatusKey, TallyKey, BallotKey,
       NullifierKey, PartialKey

\* The read set and the write set of a waiting transaction are keys of the
\* ledger.
LEMMA TxKeys ==
    ASSUME NEW tx, AcceptedOnReads(tx)
    PROVE  DOMAIN tx.reads \subseteq Keys /\ DOMAIN tx.writes \subseteq Keys
<1> USE KeyFacts, MessagesAssumption
<1> DEFINE Goal == DOMAIN tx.reads \subseteq Keys /\ DOMAIN tx.writes \subseteq Keys
<1>1. ASSUME NEW p \in ParamsMsgs, AcceptedCreateElection(tx, p) PROVE Goal
  BY <1>1 DEF AcceptedCreateElection, CreateElectionReads, CreateElectionWrites
<1>2. ASSUME NEW t \in TranscriptMsgs, AcceptedPublishDKG(tx, t) PROVE Goal
  BY <1>2 DEF AcceptedPublishDKG, PublishDKGReads, PublishDKGWrites
<1>3. ASSUME NEW b \in BallotMsgs, AcceptedSubmitBallot(tx, b) PROVE Goal
  BY <1>3 DEF AcceptedSubmitBallot, SubmitBallotReads, SubmitBallotWrites
<1>4. ASSUME NEW e \in ElectionIds, AcceptedCloseElection(tx, e) PROVE Goal
  BY <1>4 DEF AcceptedCloseElection, CloseElectionReads, CloseElectionWrites
<1>5. ASSUME NEW d \in PartialMsgs, AcceptedSubmitPartial(tx, d) PROVE Goal
  BY <1>5 DEF AcceptedSubmitPartial, SubmitPartialReads, SubmitPartialWrites
<1>6. ASSUME NEW t \in TallyMsgs, AcceptedPublishTally(tx, t) PROVE Goal
  BY <1>6 DEF AcceptedPublishTally, PublishTallyReads, PublishTallyWrites
<1> QED
  BY <1>1, <1>2, <1>3, <1>4, <1>5, <1>6 DEF AcceptedOnReads

-----------------------------------------------------------------------------
(* SerialInv is inductive.                                                 *)

\* Endorsing records the values just read, on which the checks just passed.
LEMMA EndorseSound ==
    ASSUME SerialInv, NEW c \in Clients, NEW req, NEW reads, NEW writes,
           Endorse(c, req, reads, writes),
           AcceptedOnReads([req |-> req, reads |-> [k \in reads |-> ledger[k]],
                            writes |-> writes])
    PROVE  SerialInv'
<1> DEFINE tx == [req |-> req, reads |-> [k \in reads |-> ledger[k]],
                  writes |-> writes]
<1>1. /\ ledger' = ledger
      /\ DOMAIN pending' = Clients
      /\ pending'[c] = tx
      /\ \A d \in Clients \ {c} : pending'[d] = pending[d]
  BY DEF Endorse, SerialInv
<1>2. DOMAIN tx.reads \subseteq Keys
  BY TxKeys
<1>3. SnapshotSound(tx)
  BY <1>2 DEF SnapshotSound, SerialInv
<1>4. \A d \in Clients : pending'[d] # NoTx =>
            SnapshotSound(pending'[d]) /\ AcceptedOnReads(pending'[d])
  BY <1>1, <1>3 DEF SerialInv
<1> QED
  BY <1>1, <1>4 DEF SerialInv, SnapshotSound

\* The six calls endorse only what their checks accept.
LEMMA ClientStepSound ==
    ASSUME SerialInv, NEW c \in Clients, ClientStep(c)
    PROVE  SerialInv'
<1> USE KeyFacts, MessagesAssumption
<1>1. ASSUME NEW p \in ParamsMsgs, EndorseCreateElection(c, p) PROVE SerialInv'
  <2> DEFINE req == [fn |-> "CreateElection", msg |-> p]
             tx == [req |-> req, writes |-> CreateElectionWrites(p),
                    reads |-> [k \in CreateElectionReads(p) |-> ledger[k]]]
  <2>1. AcceptedCreateElection(tx, p)
    BY <1>1 DEF EndorseCreateElection, AcceptedCreateElection, Val, CreateElectionReads
  <2>2. AcceptedOnReads(tx)
    BY <2>1 DEF AcceptedOnReads
  <2> QED
    BY <1>1, <2>2, EndorseSound DEF EndorseCreateElection
<1>2. ASSUME NEW t \in TranscriptMsgs, EndorsePublishDKG(c, t) PROVE SerialInv'
  <2> DEFINE req == [fn |-> "PublishDKGTranscript", msg |-> t]
             tx == [req |-> req, writes |-> PublishDKGWrites(t),
                    reads |-> [k \in PublishDKGReads(t) |-> ledger[k]]]
  <2>1. AcceptedPublishDKG(tx, t)
    BY <1>2 DEF EndorsePublishDKG, AcceptedPublishDKG, Val, PublishDKGReads
  <2>2. AcceptedOnReads(tx)
    BY <2>1 DEF AcceptedOnReads
  <2> QED
    BY <1>2, <2>2, EndorseSound DEF EndorsePublishDKG
<1>3. ASSUME NEW b \in BallotMsgs, EndorseSubmitBallot(c, b) PROVE SerialInv'
  <2> DEFINE req == [fn |-> "SubmitBallot", msg |-> b]
             tx == [req |-> req, writes |-> SubmitBallotWrites(b),
                    reads |-> [k \in SubmitBallotReads(b) |-> ledger[k]]]
  <2>1. AcceptedSubmitBallot(tx, b)
    BY <1>3 DEF EndorseSubmitBallot, AcceptedSubmitBallot, Val, SubmitBallotReads
  <2>2. AcceptedOnReads(tx)
    BY <2>1 DEF AcceptedOnReads
  <2> QED
    BY <1>3, <2>2, EndorseSound DEF EndorseSubmitBallot
<1>4. ASSUME NEW e \in ElectionIds, EndorseCloseElection(c, e) PROVE SerialInv'
  <2> DEFINE req == [fn |-> "CloseElection", election |-> e]
             tx == [req |-> req, writes |-> CloseElectionWrites(e),
                    reads |-> [k \in CloseElectionReads(e) |-> ledger[k]]]
  <2>1. AcceptedCloseElection(tx, e)
    BY <1>4 DEF EndorseCloseElection, AcceptedCloseElection, Val, CloseElectionReads
  <2>2. AcceptedOnReads(tx)
    BY <2>1 DEF AcceptedOnReads
  <2> QED
    BY <1>4, <2>2, EndorseSound DEF EndorseCloseElection
<1>5. ASSUME NEW d \in PartialMsgs, EndorseSubmitPartial(c, d) PROVE SerialInv'
  <2> DEFINE req == [fn |-> "SubmitPartialDecryption", msg |-> d]
             tx == [req |-> req, writes |-> SubmitPartialWrites(d),
                    reads |-> [k \in SubmitPartialReads(d) |-> ledger[k]]]
  <2>1. AcceptedSubmitPartial(tx, d)
    BY <1>5 DEF EndorseSubmitPartial, AcceptedSubmitPartial, Val, SubmitPartialReads
  <2>2. AcceptedOnReads(tx)
    BY <2>1 DEF AcceptedOnReads
  <2> QED
    BY <1>5, <2>2, EndorseSound DEF EndorseSubmitPartial
<1>6. ASSUME NEW t \in TallyMsgs, EndorsePublishTally(c, t) PROVE SerialInv'
  <2> DEFINE req == [fn |-> "PublishTally", msg |-> t]
             tx == [req |-> req, writes |-> PublishTallyWrites(t),
                    reads |-> [k \in PublishTallyReads(t) |-> ledger[k]]]
  <2>1. AcceptedPublishTally(tx, t)
    BY <1>6 DEF EndorsePublishTally, AcceptedPublishTally, Val, PublishTallyReads
  <2>2. AcceptedOnReads(tx)
    BY <2>1 DEF AcceptedOnReads
  <2> QED
    BY <1>6, <2>2, EndorseSound DEF EndorsePublishTally
<1> QED
  BY <1>1, <1>2, <1>3, <1>4, <1>5, <1>6 DEF ClientStep

\* A valid commit moves the versions of the keys it writes forward, so the
\* snapshots of the others stay sound.
LEMMA CommitSound ==
    ASSUME SerialInv, NEW c \in Clients, CommitValid(c)
    PROVE  SerialInv'
<1> DEFINE w == pending[c].writes
<1>1. DOMAIN w \subseteq Keys
  BY TxKeys DEF CommitValid, SerialInv
<1>2. /\ DOMAIN ledger' = Keys
      /\ DOMAIN pending' = Clients
      /\ pending'[c] = NoTx
      /\ \A d \in Clients \ {c} : pending'[d] = pending[d]
  BY DEF CommitValid, SerialInv
<1>3. \A k \in Keys : /\ ledger[k].ver \in Nat
                      /\ \/ ledger'[k] = ledger[k]
                         \/ ledger'[k].ver = ledger[k].ver + 1
  BY DEF CommitValid, SerialInv
<1>4. ASSUME NEW d \in Clients \ {c}, pending[d] # NoTx
      PROVE  SnapshotSound(pending[d])'
  <2>1. DOMAIN pending[d].reads \subseteq Keys
    BY <1>4, TxKeys DEF SerialInv
  <2>2. SnapshotSound(pending[d])
    BY <1>4 DEF SerialInv
  <2> QED
    BY <1>2, <1>3, <2>1, <2>2 DEF SnapshotSound
<1>5. \A k \in Keys : ledger'[k].ver \in Nat
  BY <1>3
<1>6. \A d \in Clients : pending'[d] # NoTx =>
          SnapshotSound(pending[d])' /\ AcceptedOnReads(pending'[d])
  BY <1>2, <1>4 DEF SerialInv
<1> QED
  BY <1>2, <1>5, <1>6 DEF SerialInv

\* The protocol invariant holds in every reachable state.
THEOREM Serial == Spec => []SerialInv
<1>1. Init => SerialInv
  BY DEF Init, SerialInv
<1>2. ASSUME SerialInv, [Next]_vars PROVE SerialInv'
  <2>1. ASSUME NEW c \in Clients, CommitInvalid(c) PROVE SerialInv'
    BY <1>2, <2>1 DEF CommitInvalid, SerialInv, SnapshotSound
  <2>2. ASSUME NEW c \in Clients, LoseTransaction(c) PROVE SerialInv'
    BY <1>2, <2>2 DEF LoseTransaction, SerialInv, SnapshotSound
  <2>3. CASE UNCHANGED vars
    BY <1>2, <2>3 DEF vars, SerialInv, SnapshotSound
  <2> QED
    BY <1>2, <2>1, <2>2, <2>3, ClientStepSound, CommitSound DEF Next
<1> QED
  BY <1>1, <1>2, PTL DEF Spec

-----------------------------------------------------------------------------
(* Refinement.                                                             *)

\* What a valid commit does to the values of the ledger.
LEMMA CommitEffect ==
    ASSUME SerialInv, NEW c \in Clients, CommitValid(c)
    PROVE  /\ AcceptedOnReads(pending[c])
           /\ \A k \in DOMAIN pending[c].reads :
                  pending[c].reads[k].val = ledger[k].val
           /\ \A k \in Keys : ledger'[k].val =
                  IF k \in DOMAIN pending[c].writes
                  THEN pending[c].writes[k] ELSE ledger[k].val
BY DEF SerialInv, SnapshotSound, CommitValid, ReadsCurrent

\* A board variable changes only where the writes carry its index's tag.
LEMMA Untouched ==
    ASSUME NEW w,
           \A k \in Keys : k \notin DOMAIN w => ledger'[k].val = ledger[k].val
    PROVE  /\ (\A k \in DOMAIN w : k[1] # "election") => election' = election
           /\ (\A k \in DOMAIN w : k[1] # "dkg") => dkg' = dkg
           /\ (\A k \in DOMAIN w : k[1] # "status") => status' = status
           /\ (\A k \in DOMAIN w : k[1] # "ballot") => ballot' = ballot
           /\ (\A k \in DOMAIN w : k[1] # "nullifier") => nullifier' = nullifier
           /\ (\A k \in DOMAIN w : k[1] # "partialdec") => partialdec' = partialdec
           /\ (\A k \in DOMAIN w : k[1] # "tally") => tally' = tally
<1>1. ASSUME \A k \in DOMAIN w : k[1] # "election" PROVE election' = election
  <2>1. \A e \in ElectionIds : ledger'[ElectionKey(e)].val = ledger[ElectionKey(e)].val
    BY <1>1, KeyFacts DEF ElectionKey
  <2> QED BY <2>1 DEF election, Val
<1>2. ASSUME \A k \in DOMAIN w : k[1] # "dkg" PROVE dkg' = dkg
  <2>1. \A e \in ElectionIds : ledger'[DKGKey(e)].val = ledger[DKGKey(e)].val
    BY <1>2, KeyFacts DEF DKGKey
  <2> QED BY <2>1 DEF dkg, Val
<1>3. ASSUME \A k \in DOMAIN w : k[1] # "status" PROVE status' = status
  <2>1. \A e \in ElectionIds : ledger'[StatusKey(e)].val = ledger[StatusKey(e)].val
    BY <1>3, KeyFacts DEF StatusKey
  <2> QED BY <2>1 DEF status, Val
<1>4. ASSUME \A k \in DOMAIN w : k[1] # "ballot" PROVE ballot' = ballot
  <2>1. \A e \in ElectionIds, n \in NullifierIds :
            ledger'[BallotKey(e, n)].val = ledger[BallotKey(e, n)].val
    BY <1>4, KeyFacts DEF BallotKey
  <2> QED BY <2>1 DEF ballot, Val
<1>5. ASSUME \A k \in DOMAIN w : k[1] # "nullifier" PROVE nullifier' = nullifier
  <2>1. \A e \in ElectionIds, n \in NullifierIds :
            ledger'[NullifierKey(e, n)].val = ledger[NullifierKey(e, n)].val
    BY <1>5, KeyFacts DEF NullifierKey
  <2> QED BY <2>1 DEF nullifier, Val
<1>6. ASSUME \A k \in DOMAIN w : k[1] # "partialdec" PROVE partialdec' = partialdec
  <2>1. \A e \in ElectionIds, c \in ContestIds, t \in TrusteeIds :
            ledger'[PartialKey(e, c, t)].val = ledger[PartialKey(e, c, t)].val
    BY <1>6, KeyFacts DEF PartialKey
  <2> QED BY <2>1 DEF partialdec, Val
<1>7. ASSUME \A k \in DOMAIN w : k[1] # "tally" PROVE tally' = tally
  <2>1. \A e \in ElectionIds : ledger'[TallyKey(e)].val = ledger[TallyKey(e)].val
    BY <1>7, KeyFacts DEF TallyKey
  <2> QED BY <2>1 DEF tally, Val
<1> QED
  BY <1>1, <1>2, <1>3, <1>4, <1>5, <1>6, <1>7

\* A write to one key of an index updates the board variable at that key.
LEMMA WroteAt ==
    ASSUME NEW w,
           \A k \in Keys : ledger'[k].val =
               IF k \in DOMAIN w THEN w[k] ELSE ledger[k].val
    PROVE  /\ \A e \in ElectionIds :
                 DOMAIN w = {ElectionKey(e), StatusKey(e)} =>
                    /\ election' = [election EXCEPT ![e] = w[ElectionKey(e)]]
                    /\ status' = [status EXCEPT ![e] = w[StatusKey(e)]]
           /\ \A e \in ElectionIds : DOMAIN w = {DKGKey(e)} =>
                    dkg' = [dkg EXCEPT ![e] = w[DKGKey(e)]]
           /\ \A e \in ElectionIds : DOMAIN w = {StatusKey(e)} =>
                    status' = [status EXCEPT ![e] = w[StatusKey(e)]]
           /\ \A e \in ElectionIds : DOMAIN w = {TallyKey(e)} =>
                    tally' = [tally EXCEPT ![e] = w[TallyKey(e)]]
           /\ \A e \in ElectionIds, n \in NullifierIds :
                 DOMAIN w = {BallotKey(e, n), NullifierKey(e, n)} =>
                    /\ ballot' = [ballot EXCEPT ![<<e, n>>] = w[BallotKey(e, n)]]
                    /\ nullifier' =
                        [nullifier EXCEPT ![<<e, n>>] = w[NullifierKey(e, n)]]
           /\ \A e \in ElectionIds, c \in ContestIds, t \in TrusteeIds :
                 DOMAIN w = {PartialKey(e, c, t)} =>
                    partialdec' =
                        [partialdec EXCEPT ![<<e, c, t>>] = w[PartialKey(e, c, t)]]
<1>1. ASSUME NEW e \in ElectionIds, DOMAIN w = {ElectionKey(e), StatusKey(e)}
      PROVE  /\ election' = [election EXCEPT ![e] = w[ElectionKey(e)]]
             /\ status' = [status EXCEPT ![e] = w[StatusKey(e)]]
  <2>1. \A x \in ElectionIds :
            /\ ledger'[ElectionKey(x)].val =
                  IF x = e THEN w[ElectionKey(x)] ELSE ledger[ElectionKey(x)].val
            /\ ledger'[StatusKey(x)].val =
                  IF x = e THEN w[StatusKey(x)] ELSE ledger[StatusKey(x)].val
    BY <1>1, KeyFacts DEF ElectionKey, StatusKey
  <2> QED BY <2>1 DEF election, status, Val
<1>2. ASSUME NEW e \in ElectionIds, DOMAIN w = {DKGKey(e)}
      PROVE  dkg' = [dkg EXCEPT ![e] = w[DKGKey(e)]]
  <2>1. \A x \in ElectionIds : ledger'[DKGKey(x)].val =
            IF x = e THEN w[DKGKey(x)] ELSE ledger[DKGKey(x)].val
    BY <1>2, KeyFacts DEF DKGKey
  <2> QED BY <2>1 DEF dkg, Val
<1>3. ASSUME NEW e \in ElectionIds, DOMAIN w = {StatusKey(e)}
      PROVE  status' = [status EXCEPT ![e] = w[StatusKey(e)]]
  <2>1. \A x \in ElectionIds : ledger'[StatusKey(x)].val =
            IF x = e THEN w[StatusKey(x)] ELSE ledger[StatusKey(x)].val
    BY <1>3, KeyFacts DEF StatusKey
  <2> QED BY <2>1 DEF status, Val
<1>4. ASSUME NEW e \in ElectionIds, DOMAIN w = {TallyKey(e)}
      PROVE  tally' = [tally EXCEPT ![e] = w[TallyKey(e)]]
  <2>1. \A x \in ElectionIds : ledger'[TallyKey(x)].val =
            IF x = e THEN w[TallyKey(x)] ELSE ledger[TallyKey(x)].val
    BY <1>4, KeyFacts DEF TallyKey
  <2> QED BY <2>1 DEF tally, Val
<1>5. ASSUME NEW e \in ElectionIds, NEW n \in NullifierIds,
             DOMAIN w = {BallotKey(e, n), NullifierKey(e, n)}
      PROVE  /\ ballot' = [ballot EXCEPT ![<<e, n>>] = w[BallotKey(e, n)]]
             /\ nullifier' = [nullifier EXCEPT ![<<e, n>>] = w[NullifierKey(e, n)]]
  <2>1. \A x \in ElectionIds, m \in NullifierIds :
            /\ ledger'[BallotKey(x, m)].val =
                  IF x = e /\ m = n THEN w[BallotKey(x, m)]
                  ELSE ledger[BallotKey(x, m)].val
            /\ ledger'[NullifierKey(x, m)].val =
                  IF x = e /\ m = n THEN w[NullifierKey(x, m)]
                  ELSE ledger[NullifierKey(x, m)].val
    BY <1>5, KeyFacts DEF BallotKey, NullifierKey
  <2>2. \A k \in ElectionIds \X NullifierIds :
            /\ k[1] \in ElectionIds /\ k[2] \in NullifierIds
            /\ k = <<e, n>> <=> k[1] = e /\ k[2] = n
    OBVIOUS
  <2>3. \A k \in ElectionIds \X NullifierIds :
            /\ ledger'[BallotKey(k[1], k[2])].val =
                  IF k = <<e, n>> THEN w[BallotKey(e, n)]
                  ELSE ledger[BallotKey(k[1], k[2])].val
            /\ ledger'[NullifierKey(k[1], k[2])].val =
                  IF k = <<e, n>> THEN w[NullifierKey(e, n)]
                  ELSE ledger[NullifierKey(k[1], k[2])].val
    BY <2>1, <2>2
  <2>4. ballot' = [ballot EXCEPT ![<<e, n>>] = w[BallotKey(e, n)]]
    BY <2>3 DEF ballot, Val
  <2>5. nullifier' = [nullifier EXCEPT ![<<e, n>>] = w[NullifierKey(e, n)]]
    BY <2>3 DEF nullifier, Val
  <2> QED BY <2>4, <2>5
<1>6. ASSUME NEW e \in ElectionIds, NEW c \in ContestIds, NEW t \in TrusteeIds,
             DOMAIN w = {PartialKey(e, c, t)}
      PROVE  partialdec' = [partialdec EXCEPT ![<<e, c, t>>] = w[PartialKey(e, c, t)]]
  <2>1. \A x \in ElectionIds, y \in ContestIds, z \in TrusteeIds :
            ledger'[PartialKey(x, y, z)].val =
                IF x = e /\ y = c /\ z = t THEN w[PartialKey(x, y, z)]
                ELSE ledger[PartialKey(x, y, z)].val
    BY <1>6, KeyFacts DEF PartialKey
  <2>2. \A k \in ElectionIds \X ContestIds \X TrusteeIds :
            /\ k[1] \in ElectionIds /\ k[2] \in ContestIds /\ k[3] \in TrusteeIds
            /\ k = <<e, c, t>> <=> k[1] = e /\ k[2] = c /\ k[3] = t
    OBVIOUS
  <2>3. \A k \in ElectionIds \X ContestIds \X TrusteeIds :
            ledger'[PartialKey(k[1], k[2], k[3])].val =
                IF k = <<e, c, t>> THEN w[PartialKey(e, c, t)]
                ELSE ledger[PartialKey(k[1], k[2], k[3])].val
    BY <2>1, <2>2
  <2> QED BY <2>3 DEF partialdec, Val
<1> QED
  BY <1>1, <1>2, <1>3, <1>4, <1>5, <1>6

\* A valid commit is a step of the atomic board: by CommitEffect the values
\* read are still the values on the board, so the checks hold of the board.
LEMMA CommitRefines ==
    ASSUME SerialInv, NEW c \in Clients, CommitValid(c)
    PROVE  Board!Next
<1> DEFINE tx == pending[c]
           w == pending[c].writes
<1>1. /\ AcceptedOnReads(tx)
      /\ \A k \in DOMAIN tx.reads : tx.reads[k].val = ledger[k].val
      /\ \A k \in Keys : ledger'[k].val =
            IF k \in DOMAIN w THEN w[k] ELSE ledger[k].val
  BY CommitEffect
<1>2. /\ \A k \in Keys : k \notin DOMAIN w => ledger'[k].val = ledger[k].val
      /\ w = tx.writes
  BY <1>1
<1> HIDE DEF tx, w
<1>3. ASSUME NEW p \in ParamsMsgs, AcceptedCreateElection(tx, p)
      PROVE  Board!CreateElection(p)
  <2>1. p.election \in ElectionIds
    BY MessagesAssumption
  <2>2. CreateElectionAccepts(election[p.election], p)
    BY <1>1, <1>3, <2>1
       DEF AcceptedCreateElection, CreateElectionReads, election, Val
  <2>3. /\ DOMAIN w = {ElectionKey(p.election), StatusKey(p.election)}
        /\ w[ElectionKey(p.election)] = p
        /\ w[StatusKey(p.election)] = Open
    BY <1>2, <1>3 DEF AcceptedCreateElection, CreateElectionWrites,
                      ElectionKey, StatusKey
  <2>4. /\ election' = [election EXCEPT ![p.election] = p]
        /\ status' = [status EXCEPT ![p.election] = Open]
    BY <1>1, <2>1, <2>3, WroteAt
  <2>5. \A k \in DOMAIN w : k[1] \in {"election", "status"}
    BY <2>3 DEF ElectionKey, StatusKey
  <2>6. UNCHANGED <<dkg, ballot, nullifier, partialdec, tally>>
    BY <1>2, <2>5, Untouched
  <2> QED
    BY <2>2, <2>4, <2>6 DEF Board!CreateElection, Board!Open, Open
<1>4. ASSUME NEW t \in TranscriptMsgs, AcceptedPublishDKG(tx, t)
      PROVE  Board!PublishDKGTranscript(t)
  <2>1. t.election \in ElectionIds
    BY MessagesAssumption
  <2>2. PublishDKGAccepts(election[t.election], dkg[t.election], t)
    BY <1>1, <1>4, <2>1
       DEF AcceptedPublishDKG, PublishDKGReads, election, dkg, Val
  <2>3. DOMAIN w = {DKGKey(t.election)} /\ w[DKGKey(t.election)] = t
    BY <1>2, <1>4 DEF AcceptedPublishDKG, PublishDKGWrites
  <2>4. dkg' = [dkg EXCEPT ![t.election] = t]
    BY <1>1, <2>1, <2>3, WroteAt
  <2>5. \A k \in DOMAIN w : k[1] = "dkg"
    BY <2>3 DEF DKGKey
  <2>6. UNCHANGED <<election, status, ballot, nullifier, partialdec, tally>>
    BY <1>2, <2>5, Untouched
  <2> QED
    BY <2>2, <2>4, <2>6 DEF Board!PublishDKGTranscript
<1>5. ASSUME NEW b \in BallotMsgs, AcceptedSubmitBallot(tx, b)
      PROVE  Board!SubmitBallot(b)
  <2>1. b.election \in ElectionIds /\ b.nullifier \in NullifierIds
    BY MessagesAssumption
  <2>2. SubmitBallotAccepts(election[b.election], status[b.election],
            nullifier[<<b.election, b.nullifier>>], dkg[b.election], b)
    BY <1>1, <1>5, <2>1
       DEF AcceptedSubmitBallot, SubmitBallotReads, election, status, nullifier,
           dkg, Val
  <2>3. /\ DOMAIN w = {BallotKey(b.election, b.nullifier),
                       NullifierKey(b.election, b.nullifier)}
        /\ w[BallotKey(b.election, b.nullifier)] = b
        /\ w[NullifierKey(b.election, b.nullifier)] = 1
    BY <1>2, <1>5 DEF AcceptedSubmitBallot, SubmitBallotWrites, BallotKey,
                      NullifierKey
  <2>4. /\ ballot' = [ballot EXCEPT ![<<b.election, b.nullifier>>] = b]
        /\ nullifier' = [nullifier EXCEPT ![<<b.election, b.nullifier>>] = 1]
    BY <1>1, <2>1, <2>3, WroteAt
  <2>5. \A k \in DOMAIN w : k[1] \in {"ballot", "nullifier"}
    BY <2>3 DEF BallotKey, NullifierKey
  <2>6. UNCHANGED <<election, dkg, status, partialdec, tally>>
    BY <1>2, <2>5, Untouched
  <2> QED
    BY <2>2, <2>4, <2>6 DEF Board!SubmitBallot
<1>6. ASSUME NEW e \in ElectionIds, AcceptedCloseElection(tx, e)
      PROVE  Board!CloseElection(e)
  <2>1. CloseElectionAccepts(status[e])
    BY <1>1, <1>6 DEF AcceptedCloseElection, CloseElectionReads, status, Val
  <2>2. DOMAIN w = {StatusKey(e)} /\ w[StatusKey(e)] = Closed
    BY <1>2, <1>6 DEF AcceptedCloseElection, CloseElectionWrites
  <2>3. status' = [status EXCEPT ![e] = Closed]
    BY <1>1, <2>2, WroteAt
  <2>4. \A k \in DOMAIN w : k[1] = "status"
    BY <2>2 DEF StatusKey
  <2>5. UNCHANGED <<election, dkg, ballot, nullifier, partialdec, tally>>
    BY <1>2, <2>4, Untouched
  <2> QED
    BY <2>1, <2>3, <2>5 DEF Board!CloseElection, Board!Closed, Closed
<1>7. ASSUME NEW d \in PartialMsgs, AcceptedSubmitPartial(tx, d)
      PROVE  Board!SubmitPartialDecryption(d)
  <2>1. /\ d.election \in ElectionIds
        /\ d.contest \in ContestIds
        /\ d.trustee \in TrusteeIds
    BY MessagesAssumption
  <2>2. SubmitPartialAccepts(election[d.election], status[d.election],
            partialdec[<<d.election, d.contest, d.trustee>>], d)
    BY <1>1, <1>7, <2>1
       DEF AcceptedSubmitPartial, SubmitPartialReads, election, status,
           partialdec, Val
  <2>3. /\ DOMAIN w = {PartialKey(d.election, d.contest, d.trustee)}
        /\ w[PartialKey(d.election, d.contest, d.trustee)] = d
    BY <1>2, <1>7 DEF AcceptedSubmitPartial, SubmitPartialWrites
  <2>4. partialdec' =
            [partialdec EXCEPT ![<<d.election, d.contest, d.trustee>>] = d]
    BY <1>1, <2>1, <2>3, WroteAt
  <2>5. \A k \in DOMAIN w : k[1] = "partialdec"
    BY <2>3 DEF PartialKey
  <2>6. UNCHANGED <<election, dkg, status, ballot, nullifier, tally>>
    BY <1>2, <2>5, Untouched
  <2> QED
    BY <2>2, <2>4, <2>6 DEF Board!SubmitPartialDecryption
<1>8. ASSUME NEW t \in TallyMsgs, AcceptedPublishTally(tx, t)
      PROVE  Board!PublishTally(t)
  <2>1. t.election \in ElectionIds
    BY MessagesAssumption
  <2>2. PublishTallyAccepts(election[t.election], status[t.election],
            tally[t.election], dkg[t.election], t)
    BY <1>1, <1>8, <2>1
       DEF AcceptedPublishTally, PublishTallyReads, election, status, tally,
           dkg, Val
  <2>3. DOMAIN w = {TallyKey(t.election)} /\ w[TallyKey(t.election)] = t
    BY <1>2, <1>8 DEF AcceptedPublishTally, PublishTallyWrites
  <2>4. tally' = [tally EXCEPT ![t.election] = t]
    BY <1>1, <2>1, <2>3, WroteAt
  <2>5. \A k \in DOMAIN w : k[1] = "tally"
    BY <2>3 DEF TallyKey
  <2>6. UNCHANGED <<election, dkg, status, ballot, nullifier, partialdec>>
    BY <1>2, <2>5, Untouched
  <2> QED
    BY <2>2, <2>4, <2>6 DEF Board!PublishTally
<1> QED
  BY <1>1, <1>3, <1>4, <1>5, <1>6, <1>7, <1>8 DEF AcceptedOnReads, Board!Next

\* A step that leaves the ledger alone leaves the board alone.
LEMMA BoardStutters ==
    ASSUME UNCHANGED ledger
    PROVE  UNCHANGED Board!boardVars
BY DEF Board!boardVars, election, dkg, status, ballot, nullifier, partialdec,
       tally, Val

\* The ledger implements the atomic board: endorsing, losing and invalidating
\* a transaction are invisible, committing one is the operation it asked for.
THEOREM Implements == Spec => ImplementsBoard
<1>1. Init => Board!Init
  BY KeyFacts DEF Init, Board!Init, election, dkg, status, ballot, nullifier,
                  partialdec, tally, Val
<1>2. ASSUME SerialInv, [Next]_vars PROVE [Board!Next]_(Board!boardVars)
  <2>1. ASSUME NEW c \in Clients, ClientStep(c) PROVE UNCHANGED ledger
    BY <2>1 DEF ClientStep, Endorse, EndorseCreateElection, EndorsePublishDKG,
                EndorseSubmitBallot, EndorseCloseElection,
                EndorseSubmitPartial, EndorsePublishTally
  <2>2. CASE \E c \in Clients : CommitValid(c)
    BY <1>2, <2>2, CommitRefines
  <2>3. CASE UNCHANGED ledger
    BY <2>3, BoardStutters
  <2> QED
    BY <1>2, <2>1, <2>2, <2>3 DEF Next, CommitInvalid, LoseTransaction, vars
<1> QED
  BY <1>1, <1>2, Serial, PTL DEF Spec, ImplementsBoard, Board!Spec

-----------------------------------------------------------------------------
(* What an accepted call implies.                                          *)

\* A ballot that passes every gate of SubmitBallot met an open election with
\* stored parameters and transcript, and an unspent nullifier.
LEMMA AcceptedBallot ==
    ASSUME NEW p, NEW s, NEW n, NEW d, NEW b,
           SubmitBallotAccepts(p, s, n, d, b)
    PROVE  p # None /\ s = Open /\ n = None /\ d # None
<1> DEFINE gates == BallotGates(p, s, n, d, b)
<1>1. \A i \in DOMAIN gates : gates[i][2]
  BY DEF SubmitBallotAccepts
<1>2. /\ {6, 7, 8, 12} \subseteq DOMAIN gates
      /\ gates[6][2] = (s = Open)
      /\ gates[7][2] = (n = None)
      /\ gates[8][2] = (p # None)
      /\ gates[12][2] = (d # None)
  BY DEF BallotGates, LifecycleGates
<1>3. QED
  BY <1>1, <1>2

\* A tally that passes the threshold gate of PublishTally is endorsed by at
\* least threshold distinct trustees, and all its signers are among them.
LEMMA AcceptedTally ==
    ASSUME NEW p \in ParamsMsgs, NEW d, NEW t \in TallyMsgs,
           verifyTallySignatures(p, d, t)
    PROVE  /\ d # None
           /\ Cardinality(Endorsers(p, d, t)) >= p.threshold
           /\ Signers(t) \subseteq Endorsers(p, d, t)
<1> DEFINE sigs == t.signatures
           n == Len(sigs)
           E == Endorsers(p, d, t)
           f == [i \in 1..n |-> sigs[i].trustee]
<1>1. /\ Repeated(p.trustees)
      /\ Repeated(sigs)
      /\ p.threshold \in Int
  BY MessagesAssumption
<1>2. /\ n \in Nat
      /\ DOMAIN sigs = 1..n
  BY <1>1 DEF Repeated
<1>3. /\ d # None
      /\ \A i \in 1..n : sigs[i].trustee \in E
      /\ \A i \in 1..n : \A j \in 1..(i - 1) : sigs[j].trustee # sigs[i].trustee
      /\ n >= p.threshold
  <2>1. \A i \in 1..n : Contains(p.trustees, sigs[i].trustee)
    BY <1>2 DEF verifyTallySignatures
  <2>2. \A i \in 1..n : sigs[i].trustee \in ToSet(p.trustees)
    BY <2>1, <1>1 DEF Contains, ToSet, Repeated
  <2>3. QED
    BY <2>2, <1>2 DEF verifyTallySignatures, Endorsers
<1>4. Signers(t) \subseteq E
  BY <1>2, <1>3 DEF Signers
<1>5. IsFiniteSet(ToSet(p.trustees))
  <2>1. /\ Len(p.trustees) \in Nat
        /\ DOMAIN p.trustees = 1..Len(p.trustees)
    BY <1>1 DEF Repeated
  <2>2. ToSet(p.trustees) = {p.trustees[i] : i \in 1..Len(p.trustees)}
    BY <2>1 DEF ToSet
  <2>3. IsFiniteSet(1..Len(p.trustees))
    BY <2>1, FS_Interval
  <2>4. p.trustees \in [1..Len(p.trustees) -> ToSet(p.trustees)]
    BY <1>1, <2>1 DEF Repeated, ToSet
  <2>5. p.trustees \in Surjection(1..Len(p.trustees), ToSet(p.trustees))
    BY <2>2, <2>4 DEF Surjection
  <2>6. QED
    BY <2>3, <2>5, FS_Surjection
<1>6. IsFiniteSet(E)
  BY <1>5, FS_Subset DEF Endorsers
<1>7. f \in Injection(1..n, E)
  BY <1>2, <1>3 DEF Injection, IsInjective
<1>8. Cardinality(1..n) = n /\ IsFiniteSet(1..n)
  BY <1>2, FS_Interval
<1>9. Cardinality(1..n) <= Cardinality(E)
  BY <1>6, <1>7, FS_Injection
<1>10. Cardinality(E) \in Nat
  BY <1>6, FS_CardinalityType
<1> QED
  BY <1>1, <1>2, <1>3, <1>4, <1>8, <1>9, <1>10

\* The contract's rules are sound in the sense of BulletinBoard.
LEMMA ContractRulesSound == Board!RulesSound
<1>1. Board!CreateElectionRule
  BY DEF Board!CreateElectionRule, CreateElectionAccepts
<1>2. Board!PublishDKGRule
  BY DEF Board!PublishDKGRule, PublishDKGAccepts
<1>3. Board!SubmitBallotRule
  BY AcceptedBallot DEF Board!SubmitBallotRule, Board!Open, Open
<1>4. Board!CloseElectionRule
  BY DEF Board!CloseElectionRule, CloseElectionAccepts, Board!Open, Board!Closed, Closed
<1>5. Board!SubmitPartialRule
  BY DEF Board!SubmitPartialRule, SubmitPartialAccepts, Board!Closed, Closed
<1>6. Board!PublishTallyRule
  BY DEF Board!PublishTallyRule, PublishTallyAccepts, verifyTallySignatures,
         Board!Closed, Closed
<1> QED
  BY <1>1, <1>2, <1>3, <1>4, <1>5, <1>6 DEF Board!RulesSound

-----------------------------------------------------------------------------
(* The board's safety, of the ledger.                                      *)

\* The board is instantiated with messages that meet its assumption.
LEMMA BoardMessages == Board!MessagesAssumption
BY MessagesAssumption
   DEF Repeated, Open, Closed, Board!Repeated, Board!Open, Board!Closed

\* The board invariant holds of the ledger in every reachable state: the
\* indexes are well typed, ballots match spent nullifiers, ballots and tallies
\* re-verify, and shares follow the close.
THEOREM LedgerSafe == Spec => []Board!BoardInv
<1>1. Board!MessagesAssumption
  BY MessagesAssumption DEF Repeated, Open, Closed, Board!Repeated, Board!Open, Board!Closed
<1>2. Board!Spec => []Board!BoardInv
  BY <1>1, ContractRulesSound, Board!BoardSafe, PTL
<1> QED
  BY <1>2, Implements, PTL DEF ImplementsBoard

\* The type invariant and the three safety properties of the board that the
\* runs check, for every instance.
THEOREM LedgerPromises ==
    Spec => [](TypeOK /\ LedgerSound)
<1>1. SerialInv /\ Board!BoardInv => TypeOK /\ LedgerSound
  BY DEF SerialInv, Board!BoardInv, TypeOK, LedgerSound, BallotsMatchNullifiers,
         BallotsReverify, SharesOnlyAfterClose
<1> QED
  BY <1>1, Serial, LedgerSafe, PTL

\* No commit changes or removes a recorded value, reopens a closed election or
\* adds a ballot to one.
THEOREM LedgerIsAppendOnly == Spec => AppendOnly
<1>1. Board!Spec => Board!AppendOnly
  BY BoardMessages, ContractRulesSound, Board!BoardIsAppendOnly, PTL
<1> QED
  BY <1>1, Implements, PTL DEF ImplementsBoard, AppendOnly

\* Every published tally is endorsed by at least threshold distinct trustees
\* of its election, and all its signatures verify: the threshold cannot be met
\* by repeating a signature.
THEOREM TalliesEndorsed == Spec => []PublishedTalliesEndorsed
<1>1. ASSUME Board!BoardInv PROVE PublishedTalliesEndorsed
  <2> SUFFICES ASSUME NEW e \in ElectionIds, tally[e] # None
               PROVE  LET endorsers == Endorsers(election[e], dkg[e], tally[e])
                      IN  /\ status[e] = Closed
                          /\ election[e] # None /\ dkg[e] # None
                          /\ Cardinality(endorsers) >= election[e].threshold
                          /\ Signers(tally[e]) \subseteq endorsers
    BY DEF PublishedTalliesEndorsed
  <2>1. /\ status[e] = Closed
        /\ PublishTallyAccepts(election[e], Closed, None, dkg[e], tally[e])
    BY <1>1 DEF Board!BoardInv, Board!TalliesReverify, Board!Closed, Closed
  <2>2. election[e] # None /\ verifyTallySignatures(election[e], dkg[e], tally[e])
    BY <2>1 DEF PublishTallyAccepts
  <2>3. election[e] \in ParamsMsgs /\ tally[e] \in TallyMsgs
    BY <1>1, <2>2 DEF Board!BoardInv, Board!TypeOK
  <2> HIDE DEF election, dkg, status, tally
  <2> QED
    BY <2>1, <2>2, <2>3, AcceptedTally
<1> QED
  BY <1>1, LedgerSafe, PTL
-----------------------------------------------------------------------------
(* What a losing transaction lost to.                                      *)

\* A valid commit writes only absent keys, but for the status that a close
\* replaces; it writes 1 to nullifiers.
LEMMA WritesFresh ==
    ASSUME SerialInv, Board!BoardInv, NEW c \in Clients, CommitValid(c),
           NEW k \in DOMAIN pending[c].writes
    PROVE  /\ k \in Keys
           /\ ledger[k].val = None
                \/ (k[1] = "status" /\ pending[c].writes[k] = Closed)
           /\ k[1] = "nullifier" => pending[c].writes[k] = 1
<1> DEFINE tx == pending[c]
           w == pending[c].writes
           Goal == /\ ledger[k].val = None \/ (k[1] = "status" /\ w[k] = Closed)
                   /\ k[1] = "nullifier" => w[k] = 1
<1>1. /\ AcceptedOnReads(tx)
      /\ \A j \in DOMAIN tx.reads : tx.reads[j].val = ledger[j].val
  BY CommitEffect
<1>2. k \in Keys
  BY <1>1, TxKeys
<1>3. w = tx.writes /\ k \in DOMAIN w
  OBVIOUS
<1> HIDE DEF tx, w
<1>4. ASSUME NEW p \in ParamsMsgs, AcceptedCreateElection(tx, p) PROVE Goal
  <2>1. p.election \in ElectionIds
    BY MessagesAssumption
  <2>2. ledger[ElectionKey(p.election)].val = None
    BY <1>1, <1>4 DEF AcceptedCreateElection, CreateElectionReads,
                      CreateElectionAccepts
  <2>3. ledger[StatusKey(p.election)].val = None
    BY <2>1, <2>2 DEF Board!BoardInv, Board!StatusMatchesElection, status,
                      election, Val
  <2>4. k \in {ElectionKey(p.election), StatusKey(p.election)}
    BY <1>3, <1>4 DEF AcceptedCreateElection, CreateElectionWrites
  <2> QED
    BY <2>2, <2>3, <2>4 DEF ElectionKey, StatusKey
<1>5. ASSUME NEW t \in TranscriptMsgs, AcceptedPublishDKG(tx, t) PROVE Goal
  <2>1. ledger[DKGKey(t.election)].val = None
    BY <1>1, <1>5 DEF AcceptedPublishDKG, PublishDKGReads, PublishDKGAccepts
  <2>2. k = DKGKey(t.election)
    BY <1>3, <1>5 DEF AcceptedPublishDKG, PublishDKGWrites
  <2> QED
    BY <2>1, <2>2 DEF DKGKey
<1>6. ASSUME NEW b \in BallotMsgs, AcceptedSubmitBallot(tx, b) PROVE Goal
  <2>1. b.election \in ElectionIds /\ b.nullifier \in NullifierIds
    BY MessagesAssumption
  <2>2. ledger[NullifierKey(b.election, b.nullifier)].val = None
    BY <1>1, <1>6, AcceptedBallot DEF AcceptedSubmitBallot, SubmitBallotReads
  <2>3. ledger[BallotKey(b.election, b.nullifier)].val = None
    BY <2>1, <2>2, MessagesAssumption
       DEF Board!BoardInv, Board!BallotsMatchNullifiers, ballot, nullifier, Val
  <2>4. /\ k \in {BallotKey(b.election, b.nullifier),
                  NullifierKey(b.election, b.nullifier)}
        /\ w[NullifierKey(b.election, b.nullifier)] = 1
    BY <1>3, <1>6 DEF AcceptedSubmitBallot, SubmitBallotWrites, BallotKey,
                      NullifierKey
  <2> QED
    BY <2>2, <2>3, <2>4 DEF BallotKey, NullifierKey
<1>7. ASSUME NEW e \in ElectionIds, AcceptedCloseElection(tx, e) PROVE Goal
  BY <1>3, <1>7 DEF AcceptedCloseElection, CloseElectionWrites, StatusKey
<1>8. ASSUME NEW d \in PartialMsgs, AcceptedSubmitPartial(tx, d) PROVE Goal
  <2>1. ledger[PartialKey(d.election, d.contest, d.trustee)].val = None
    BY <1>1, <1>8 DEF AcceptedSubmitPartial, SubmitPartialReads,
                      SubmitPartialAccepts
  <2>2. k = PartialKey(d.election, d.contest, d.trustee)
    BY <1>3, <1>8 DEF AcceptedSubmitPartial, SubmitPartialWrites
  <2> QED
    BY <2>1, <2>2 DEF PartialKey
<1>9. ASSUME NEW t \in TallyMsgs, AcceptedPublishTally(tx, t) PROVE Goal
  <2>1. ledger[TallyKey(t.election)].val = None
    BY <1>1, <1>9 DEF AcceptedPublishTally, PublishTallyReads,
                      PublishTallyAccepts
  <2>2. k = TallyKey(t.election)
    BY <1>3, <1>9 DEF AcceptedPublishTally, PublishTallyWrites
  <2> QED
    BY <2>1, <2>2 DEF TallyKey
<1>10. Goal
  BY <1>1, <1>4, <1>5, <1>6, <1>7, <1>8, <1>9 DEF AcceptedOnReads
<1> QED
  BY <1>2, <1>10 DEF w
\* The invariant behind the two theorems below: a read of a waiting
\* transaction that has gone stale either found its key absent, or is of the
\* status of an election that has been closed since.
StaleReadsExplained ==
    \A c \in Clients : pending[c] # NoTx =>
        \A k \in DOMAIN pending[c].reads :
            \/ ledger[k] = pending[c].reads[k]
            \/ /\ pending[c].reads[k].val = None
               /\ k[1] = "nullifier" => ledger[k].val = 1
            \/ k[1] = "status" /\ ledger[k].val = Closed

\* A commit that makes a read stale is one of those that explain it.
LEMMA CommitExplained ==
    ASSUME SerialInv, Board!BoardInv, StaleReadsExplained,
           NEW c \in Clients, CommitValid(c)
    PROVE  StaleReadsExplained'
<1> DEFINE w == pending[c].writes
<1>1. SUFFICES ASSUME NEW d \in Clients, pending'[d] # NoTx,
                      NEW k \in DOMAIN pending'[d].reads
               PROVE  \/ ledger'[k] = pending'[d].reads[k]
                      \/ /\ pending'[d].reads[k].val = None
                         /\ k[1] = "nullifier" => ledger'[k].val = 1
                      \/ k[1] = "status" /\ ledger'[k].val = Closed
  BY DEF StaleReadsExplained
<1>2. d # c /\ pending'[d] = pending[d]
  BY <1>1 DEF CommitValid, SerialInv
<1>3. k \in Keys
  BY <1>1, <1>2, TxKeys DEF SerialInv
<1>4. \/ ledger[k] = pending[d].reads[k]
      \/ /\ pending[d].reads[k].val = None
         /\ k[1] = "nullifier" => ledger[k].val = 1
      \/ k[1] = "status" /\ ledger[k].val = Closed
  BY <1>1, <1>2 DEF StaleReadsExplained
<1>5. CASE k \notin DOMAIN w
  <2>1. ledger'[k] = ledger[k]
    BY <1>3, <1>5 DEF CommitValid
  <2> QED
    BY <1>2, <1>4, <2>1
<1>6. CASE k \in DOMAIN w
  <2>1. ledger'[k].val = w[k]
    BY <1>3, <1>6 DEF CommitValid
  <2>2. /\ ledger[k].val = None \/ (k[1] = "status" /\ w[k] = Closed)
        /\ k[1] = "nullifier" => w[k] = 1
    BY <1>6, WritesFresh
  <2>3. None # Closed
    BY MessagesAssumption
  <2> QED
    BY <1>2, <1>4, <2>1, <2>2, <2>3
<1> QED
  BY <1>5, <1>6

\* A fresh endorsement has read nothing stale.
LEMMA EndorseExplained ==
    ASSUME SerialInv, StaleReadsExplained, NEW c \in Clients, NEW req,
           NEW reads, NEW writes, Endorse(c, req, reads, writes)
    PROVE  StaleReadsExplained'
<1>1. /\ ledger' = ledger
      /\ pending'[c].reads = [k \in reads |-> ledger[k]]
      /\ \A d \in Clients \ {c} : pending'[d] = pending[d]
  BY DEF Endorse, SerialInv
<1> QED
  BY <1>1 DEF StaleReadsExplained

\* The invariant behind LosersKnowWhy.
LEMMA Explained == Spec => []StaleReadsExplained
<1>1. Init => StaleReadsExplained
  BY DEF Init, StaleReadsExplained
<1>2. ASSUME SerialInv, Board!BoardInv, StaleReadsExplained, [Next]_vars
      PROVE  StaleReadsExplained'
  <2>1. ASSUME NEW c \in Clients, ClientStep(c) PROVE StaleReadsExplained'
    BY <1>2, <2>1, EndorseExplained
       DEF ClientStep, EndorseCreateElection, EndorsePublishDKG,
           EndorseSubmitBallot, EndorseCloseElection, EndorseSubmitPartial,
           EndorsePublishTally
  <2>2. ASSUME NEW c \in Clients, CommitInvalid(c) \/ LoseTransaction(c)
        PROVE  StaleReadsExplained'
    BY <1>2, <2>2 DEF CommitInvalid, LoseTransaction, StaleReadsExplained,
                      SerialInv
  <2>3. CASE UNCHANGED vars
    BY <1>2, <2>3 DEF vars, StaleReadsExplained
  <2> QED
    BY <1>2, <2>1, <2>2, <2>3, CommitExplained DEF Next
<1> QED
  BY <1>1, <1>2, Serial, LedgerSafe, PTL DEF Spec

\* A waiting transaction carries the name of the call that made it.
LEMMA RequestNames ==
    ASSUME NEW tx
    PROVE  /\ \A p : AcceptedCreateElection(tx, p) => tx.req.fn = "CreateElection"
           /\ \A t : AcceptedPublishDKG(tx, t) => tx.req.fn = "PublishDKGTranscript"
           /\ \A b : AcceptedSubmitBallot(tx, b) =>
                        tx.req.fn = "SubmitBallot" /\ tx.req.msg = b
           /\ \A e : AcceptedCloseElection(tx, e) =>
                        tx.req.fn = "CloseElection" /\ tx.req.election = e
           /\ \A d : AcceptedSubmitPartial(tx, d) =>
                        tx.req.fn = "SubmitPartialDecryption"
           /\ \A t : AcceptedPublishTally(tx, t) => tx.req.fn = "PublishTally"
BY DEF AcceptedCreateElection, AcceptedPublishDKG, AcceptedSubmitBallot,
       AcceptedCloseElection, AcceptedSubmitPartial, AcceptedPublishTally

\* An endorsed ballot is invalidated only by a ballot with its nullifier or by
\* the close of its election, and an endorsed close only by another close, for
\* any number of concurrent clients.
THEOREM LosersKnowWhy == Spec => []LosersExplained
<1>1. ASSUME SerialInv, StaleReadsExplained PROVE StaleBallotExplained
  <2>1. SUFFICES ASSUME NEW c \in Clients, pending[c] # NoTx,
                        pending[c].req.fn = "SubmitBallot",
                        ~ReadsCurrent(pending[c])
                 PROVE  LET b == pending[c].req.msg
                        IN  \/ Val(NullifierKey(b.election, b.nullifier)) = 1
                            \/ Val(StatusKey(b.election)) = Closed
    BY DEF StaleBallotExplained
  <2> DEFINE tx == pending[c]
  <2>2. PICK b \in BallotMsgs : AcceptedSubmitBallot(tx, b)
    BY <1>1, <2>1, RequestNames DEF SerialInv, AcceptedOnReads
  <2>3. /\ tx.req.msg = b
        /\ DOMAIN tx.reads = SubmitBallotReads(b)
        /\ tx.reads[ElectionKey(b.election)].val # None
        /\ tx.reads[DKGKey(b.election)].val # None
        /\ tx.reads[StatusKey(b.election)].val # None
    BY <2>2, AcceptedBallot, RequestNames, MessagesAssumption DEF AcceptedSubmitBallot
  <2>4. PICK k \in DOMAIN tx.reads : ledger[k] # tx.reads[k]
    BY <2>1 DEF ReadsCurrent
  <2>5. \/ /\ tx.reads[k].val = None
           /\ k[1] = "nullifier" => ledger[k].val = 1
        \/ k[1] = "status" /\ ledger[k].val = Closed
    BY <1>1, <2>1, <2>4 DEF StaleReadsExplained
  <2> QED
    BY <2>3, <2>4, <2>5
       DEF SubmitBallotReads, ElectionKey, DKGKey, StatusKey, NullifierKey, Val
<1>2. ASSUME SerialInv, StaleReadsExplained PROVE CloseNeverStarved
  <2>1. SUFFICES ASSUME NEW c \in Clients, pending[c] # NoTx,
                        pending[c].req.fn = "CloseElection",
                        ~ReadsCurrent(pending[c])
                 PROVE  Val(StatusKey(pending[c].req.election)) = Closed
    BY DEF CloseNeverStarved
  <2> DEFINE tx == pending[c]
  <2>2. PICK e \in ElectionIds : AcceptedCloseElection(tx, e)
    BY <1>2, <2>1, RequestNames DEF SerialInv, AcceptedOnReads
  <2>3. /\ tx.req.election = e
        /\ DOMAIN tx.reads = {StatusKey(e)}
        /\ tx.reads[StatusKey(e)].val # None
    BY <2>2, RequestNames
       DEF AcceptedCloseElection, CloseElectionReads, CloseElectionAccepts
  <2>4. ledger[StatusKey(e)] # tx.reads[StatusKey(e)]
    BY <2>1, <2>3 DEF ReadsCurrent
  <2> QED
    BY <1>2, <2>1, <2>3, <2>4 DEF StaleReadsExplained, Val
<1> QED
  BY <1>1, <1>2, Serial, Explained, PTL DEF LosersExplained
-----------------------------------------------------------------------------
(* What the selection proof adds: exactly one vote.                        *)

\* A set of naturals has a least element: induction over the naturals, from
\* the well-foundedness of strict inclusion on finite sets.
LEMMA LeastNatural ==
    ASSUME NEW T \in SUBSET Nat, T # {}
    PROVE  \E m \in T : \A k \in T : m <= k
<1> DEFINE F == {0..k : k \in T}
           R == StrictSubsetOrdering(Nat)
<1>1. IsWellFoundedOn(R, FiniteSubsetsOf(Nat))
  BY FS_StrictSubsetOrderingWellFounded, Zenon
<1>2. F \subseteq FiniteSubsetsOf(Nat)
  <2>1. ASSUME NEW k \in T PROVE 0..k \subseteq Nat /\ IsFiniteSet(0..k)
    BY FS_Interval
  <2> QED
    BY <2>1 DEF FiniteSubsetsOf
<1>3. F # {}
  OBVIOUS
<1> HIDE DEF F, R
<1>4. PICK x \in F : \A y \in F : ~ (<<y, x>> \in R)
  BY <1>1, <1>2, <1>3, WFMin
<1> USE DEF F, R
<1>5. PICK m \in T : x = 0..m
  OBVIOUS
<1>6. ASSUME NEW k \in T, k < m PROVE FALSE
  <2>1. /\ 0..k \subseteq 0..m /\ 0..k # 0..m
        /\ 0..k \in SUBSET Nat /\ 0..m \in SUBSET Nat
    <3>1. m \in 0..m /\ m \notin 0..k
      BY <1>6
    <3> QED
      BY <3>1, <1>6
  <2>2. <<0..k, 0..m>> \in StrictSubsetOrdering(Nat)
    BY <2>1 DEF StrictSubsetOrdering
  <2> QED
    BY <2>2, <1>4, <1>5
<1> QED
  BY <1>6

\* The partial sums of a record's plaintexts.
PartialSums(g, votes, m) ==
    g = [l \in 0..m |-> IF l = 0 THEN 0 ELSE g[l - 1] + votes[l]]

\* They exist, up to any contest: VoteSum's recursion defines a function.
LEMMA PartialSumsExist ==
    ASSUME NEW votes, NEW n \in Nat
    PROVE  \E g : PartialSums(g, votes, n)
<1> DEFINE T == {m \in Nat : ~ \E g : PartialSums(g, votes, m)}
<1> SUFFICES ASSUME T # {} PROVE FALSE
  OBVIOUS
<1>1. PICK m \in T : \A k \in T : m <= k
  BY LeastNatural
<1>2. m # 0
  <2>1. PartialSums([l \in 0..0 |-> 0], votes, 0)
    BY DEF PartialSums
  <2> QED
    BY <2>1
<1>3. PICK g : PartialSums(g, votes, m - 1)
  BY <1>1, <1>2
<1> DEFINE h == [l \in 0..m |-> IF l = m THEN g[m - 1] + votes[m] ELSE g[l]]
<1>4. ASSUME NEW l \in 0..m
      PROVE  h[l] = IF l = 0 THEN 0 ELSE h[l - 1] + votes[l]
  <2>1. CASE l = m
    BY <1>2, <2>1
  <2>2. CASE l # m
    <3>1. l \in 0..(m - 1) /\ h[l] = g[l]
      BY <2>2
    <3>2. g[l] = IF l = 0 THEN 0 ELSE g[l - 1] + votes[l]
      BY <1>3, <3>1 DEF PartialSums
    <3>3. l # 0 => h[l - 1] = g[l - 1]
      BY <3>1
    <3> QED
      BY <3>1, <3>2, <3>3
  <2> QED
    BY <2>1, <2>2
<1>5. PartialSums(h, votes, m)
  BY <1>4 DEF PartialSums
<1> QED
  BY <1>5

\* Plaintexts of 0 and 1 that sum to one hold a single 1.
LEMMA SumOfOne ==
    ASSUME NEW votes, Repeated(votes), \A l \in DOMAIN votes : votes[l] \in {0, 1},
           VoteSum(votes) = 1
    PROVE  \E l \in DOMAIN votes :
              votes[l] = 1 /\ \A m \in DOMAIN votes \ {l} : votes[m] = 0
<1> DEFINE n == Len(votes)
           sum == CHOOSE g : PartialSums(g, votes, n)
<1>1. n \in Nat /\ DOMAIN votes = 1..n
  BY DEF Repeated
<1>2. VoteSum(votes) = sum[n]
  BY DEF VoteSum, PartialSums
<1> HIDE DEF n
<1>3. PartialSums(sum, votes, n)
  BY <1>1, PartialSumsExist
<1> HIDE DEF sum
<1>4. /\ sum[0] = 0
      /\ \A l \in 1..n : sum[l] = sum[l - 1] + votes[l]
  BY <1>1, <1>3 DEF PartialSums
<1> DEFINE Single(m) ==
              /\ sum[m] \in Nat
              /\ sum[m] = 0 => \A l \in 1..m : votes[l] = 0
              /\ sum[m] = 1 => \E l \in 1..m :
                    votes[l] = 1 /\ \A k \in (1..m) \ {l} : votes[k] = 0
           T == {m \in 0..n : ~Single(m)}
<1>5. ASSUME T # {} PROVE FALSE
  <2>1. PICK m \in T : \A k \in T : m <= k
    <3>1. T \in SUBSET Nat
      BY <1>1
    <3> HIDE DEF T
    <3> QED
      BY <1>5, <3>1, LeastNatural
  <2>2. m # 0
    BY <1>4
  <2>3. m \in 1..n /\ Single(m - 1)
    BY <1>1, <2>1, <2>2
  <2>4. sum[m] = sum[m - 1] + votes[m] /\ votes[m] \in {0, 1}
    BY <1>1, <1>4, <2>3
  <2>5. \A k \in 1..m : k = m \/ k \in 1..(m - 1)
    BY <2>3
  <2>6. CASE votes[m] = 0
    <3>1. sum[m] = sum[m - 1]
      BY <2>3, <2>4, <2>6
    <3>2. sum[m] = 0 => \A l \in 1..m : votes[l] = 0
      BY <2>3, <2>5, <2>6, <3>1
    <3>3. ASSUME sum[m] = 1
          PROVE  \E l \in 1..m : votes[l] = 1 /\ \A k \in (1..m) \ {l} : votes[k] = 0
      <4>1. PICK l \in 1..(m - 1) :
                votes[l] = 1 /\ \A k \in (1..(m - 1)) \ {l} : votes[k] = 0
        BY <2>3, <3>1, <3>3
      <4>2. l \in 1..m
        BY <2>3
      <4>3. \A k \in (1..m) \ {l} : votes[k] = 0
        BY <2>5, <2>6, <4>1
      <4> QED
        BY <4>1, <4>2, <4>3
    <3> QED
      BY <2>1, <2>3, <3>1, <3>2, <3>3
  <2>7. CASE votes[m] = 1
    <3>1. sum[m] = sum[m - 1] + 1
      BY <2>3, <2>4, <2>7
    <3>2. sum[m] \in Nat /\ sum[m] # 0
      BY <2>3, <3>1
    <3>3. ASSUME sum[m] = 1
          PROVE  \E l \in 1..m : votes[l] = 1 /\ \A k \in (1..m) \ {l} : votes[k] = 0
      <4>1. sum[m - 1] = 0
        BY <2>3, <3>1, <3>3
      <4>2. \A l \in 1..(m - 1) : votes[l] = 0
        BY <2>3, <4>1
      <4> QED
        BY <2>3, <2>5, <2>7, <4>2
    <3> QED
      BY <2>1, <2>3, <3>2, <3>3
  <2> QED
    BY <2>4, <2>6, <2>7
<1>6. Single(n)
  BY <1>1, <1>5
<1> QED
  BY <1>1, <1>2, <1>6

\* What SubmitBallot demands of a record in an election bound to an issuer.
LEMMA AcceptedSelection ==
    ASSUME NEW p, NEW s, NEW n, NEW d, NEW b \in BallotMsgs,
           SubmitBallotAccepts(p, s, n, d, b), IssuerBound(p)
    PROVE  /\ b.signer = p.issuer
           /\ positionedContests(p.contests) => b.position # << >>
           /\ \A l \in DOMAIN b.votes : b.votes[l] \in {0, 1}
           /\ VoteSum(b.votes) = 1
<1> DEFINE gates == BallotGates(p, s, n, d, b)
           keyed == d # None /\ deriveElectionPublicKey(d) # None
           bad == BadContests(p, d, b)
<1>1. \A i \in DOMAIN gates : gates[i][2]
  BY DEF SubmitBallotAccepts
<1>2. p # None /\ d # None
  BY AcceptedBallot
<1>3. /\ {3, 4, 9, 11, 13, 14, 15} \subseteq DOMAIN gates
      /\ gates[3][2] = (IssuerBound(p) => b.issuer = p.issuer)
      /\ gates[4][2] = VerifyIssuerSignature(b)
      /\ gates[9][2] = ~(/\ b.position = << >>
                         /\ IssuerBound(p)
                         /\ positionedContests(p.contests))
      /\ gates[11][2] = (p # None => p # None /\ CountsMatch(p, b))
      /\ gates[13][2] = (d # None => keyed)
      /\ gates[14][2] = ((p # None /\ CountsMatch(p, b)) /\ keyed => bad = {})
      /\ gates[15][2] = (keyed /\ IssuerBound(p) =>
                            verifySelection(b, deriveElectionPublicKey(d)))
  BY DEF BallotGates
<1> HIDE DEF gates, keyed, bad
<1>4. /\ b.issuer = p.issuer /\ VerifyIssuerSignature(b)
      /\ ~(b.position = << >> /\ IssuerBound(p) /\ positionedContests(p.contests))
      /\ CountsMatch(p, b) /\ keyed
      /\ bad = {}
      /\ verifySelection(b, deriveElectionPublicKey(d))
  BY <1>1, <1>2, <1>3
<1>5. DOMAIN b.votes = DOMAIN b.proofs
  BY <1>4, MessagesAssumption DEF CountsMatch, Repeated
<1>6. \A l \in DOMAIN b.votes : b.votes[l] \in {0, 1}
  BY <1>4, <1>5 DEF bad, BadContests, VerifyBinaryCDS
<1> QED
  BY <1>4, <1>6 DEF VerifyIssuerSignature, verifySelection

\* In an election bound to an issuer every recorded ballot is a vote for exactly
\* one candidate, cast with a credential of that issuer, for any number of
\* contests: the per-contest proofs and the selection proof together leave no
\* other plaintext, and the record was checked against the issuer and the
\* transcript that are on the board.
THEOREM RecordsSingle == Spec => []RecordsAreSingleVotes
<1>1. ASSUME Board!BoardInv PROVE RecordsAreSingleVotes
  <2>1. SUFFICES ASSUME NEW e \in ElectionIds, NEW n \in NullifierIds,
                        ballot[<<e, n>>] # None, IssuerBound(election[e])
                 PROVE  /\ \E l \in DOMAIN ballot[<<e, n>>].votes :
                              /\ ballot[<<e, n>>].votes[l] = 1
                              /\ \A m \in DOMAIN ballot[<<e, n>>].votes \ {l} :
                                    ballot[<<e, n>>].votes[m] = 0
                        /\ ballot[<<e, n>>].signer = election[e].issuer
                        /\ positionedContests(election[e].contests) =>
                              ballot[<<e, n>>].position # << >>
    BY DEF RecordsAreSingleVotes
  <2>2. /\ ballot[<<e, n>>] \in BallotMsgs
        /\ SubmitBallotAccepts(election[e], Open, None, dkg[e], ballot[<<e, n>>])
    BY <1>1, <2>1 DEF Board!BoardInv, Board!TypeOK, Board!BallotsReverify, Board!Open, Open
  <2> HIDE DEF ballot, election, dkg
  <2>3. Repeated(ballot[<<e, n>>].votes)
    BY <2>2, MessagesAssumption
  <2> QED
    BY <2>1, <2>2, <2>3, AcceptedSelection, SumOfOne
<1> QED
  BY <1>1, LedgerSafe, PTL

-----------------------------------------------------------------------------
(* The record read back: what the pages read so far are of the chain.      *)

\* A tally was sent: from then on no ballot is recorded any more.
TallySent == chain.tally \/ [tx |-> "tally"] \in flight

\* A nullifier is on the chain once, and a tally was only sent after the close.
ChainInv ==
    /\ \A b, c \in chain.ballots : nul(b) = nul(c) => b = c
    /\ TallySent => chain.status = "closed"

\* The keys that the pages up to the current one hold, and those whose ballots are
\* written.
Below(k) == {j \in Nullifiers : j < k}
Limit == IF walkOver THEN End ELSE dump.next
Done == Below(Limit) \ dump.rest

\* The file written so far holds the ballots of these keys once each, and is counted.
Written(keys) ==
    /\ dump.out = fileOf(ballotsOf(keys))
    /\ dump.n = Cardinality(keys)

\* The ledger's audit shows the chain's own sum, of shares that verified, or nothing.
EvidenceIsOfChain ==
    lc.aggregate # NoEvidence =>
        SamePads /\ lc.aggregate = {dataSum(fileOf(chain.ballots))}

\* A walk that began after the tally was sent reads a chain that no longer changes;
\* any other never gets past its header.
WalkInv ==
    /\ TallySent /\ pc = "list" => Written(Below(dump.bookmark))
    /\ TallySent /\ pc = "fetch" => dump.rest \subseteq Below(Limit) /\ Written(Done)
    /\ TallySent /\ pc = "header" => Written(Nullifiers) /\ dir.lines = dump.out
    /\ pc = "auditLedger" \/ (pc \in {"audit", "compare"} /\ lc.status = "ok") =>
            chain.tally /\ dir.lines = fileOf(chain.ballots)
    /\ pc \in {"audit", "compare"} /\ lc.status = "ok" => EvidenceIsOfChain
    /\ DumpIsWholeLedger

\* The verdict in hand is not given yet; the one on file was given after the tally.
VerdictInv ==
    /\ pc \in {"audit", "compare"} => lc.matches = ""
    /\ csv.status = "ok" => chain.tally
    /\ VerdictIsTrueOfChain

Aggregates == {NoEvidence} \cup {{dataSum(lines)} : lines \in Files}
Checks == [status : {"no chain", "not run", "ok"}, aggregate : Aggregates,
           matches : {"", "true", "false"}]
Dirs  == [lines : Files,
          header : [n : Nat \cup {-1}, voters : Nat \cup {-1}, shares : SUBSET Trustees]]
Walks == [bookmark : Nat, rest : SUBSET Ranks, next : Nat, batched : BOOLEAN,
          out : Files, n : Nat]

DumpTypes ==
    /\ chain \in Chains
    /\ flight \subseteq Tx
    /\ pc \in {"idle", "list", "fetch", "header", "auditLedger", "audit", "compare"}
    /\ dump \in Walks
    /\ dir \in Dirs
    /\ lc \in Checks /\ csv \in Checks

LedgerInv == DumpTypes /\ ChainInv /\ WalkInv /\ VerdictInv

USE DEF Chains, Dirs, Walks

\* The ballots, the keys and every part of them are finite.
LEMMA BallotsFinite ==
    /\ \A S \in SUBSET Ballots : IsFiniteSet(S) /\ Cardinality(S) \in Nat
    /\ \A S \in SUBSET Ranks : IsFiniteSet(S) /\ Cardinality(S) \in Nat
    /\ Ranks \subseteq 1 .. Cardinality(Ballots) /\ End \in Nat
    /\ \A k \in Ranks : k \in Nat /\ 0 < k /\ k < End
<1>1. \A S \in SUBSET Ballots : IsFiniteSet(S) /\ Cardinality(S) \in Nat
  BY LedgerDumpAssumption, FS_Subset, FS_CardinalityType
<1>2. Ranks \subseteq 1 .. Cardinality(Ballots) /\ Cardinality(Ballots) \in Nat
  BY <1>1, LedgerDumpAssumption DEF Ranks
<1>3. IsFiniteSet(1 .. Cardinality(Ballots))
  BY <1>2, FS_Interval
<1>4. \A S \in SUBSET Ranks : IsFiniteSet(S) /\ Cardinality(S) \in Nat
  BY <1>2, <1>3, FS_Subset, FS_CardinalityType
<1> QED
  BY <1>1, <1>2, <1>4 DEF End

\* The first n of a set of keys: some of them, and none without the ones before it.
LEMMA FirstKeys ==
    ASSUME NEW S \in SUBSET Ranks, NEW n \in Nat
    PROVE  /\ First(S, n) \subseteq S
           /\ \A k \in First(S, n), j \in S : j < k => j \in First(S, n)
           /\ n # 0 => \A k \in S : (\A j \in S : k <= j) => k \in First(S, n)
<1>1. First(S, n) \subseteq S
  BY DEF First
<1>2. ASSUME NEW k \in First(S, n), NEW j \in S, j < k PROVE j \in First(S, n)
  <2> DEFINE P == {i \in S : i < k}
             Q == {i \in S : i < j}
  <2>1. k \in Nat /\ j \in Nat /\ \A i \in S : i \in Nat
    BY <1>1, BallotsFinite
  <2>2. Q \in SUBSET P
    <3>1. \A i \in S : i < j => i < k
      BY <1>2, <2>1
    <3> QED
      BY <3>1
  <2>3. P \in SUBSET Ranks
    OBVIOUS
  <2>4. IsFiniteSet(P) /\ Cardinality(P) \in Nat /\ Cardinality(Q) \in Nat
    BY <2>2, <2>3, BallotsFinite
  <2>5. Cardinality(Q) <= Cardinality(P)
    BY <2>2, <2>4, FS_Subset
  <2>6. Cardinality(P) < n
    BY DEF First
  <2>7. Cardinality(Q) < n
    BY <2>4, <2>5, <2>6
  <2> QED
    BY <2>7 DEF First
<1>3. ASSUME n # 0, NEW k \in S, \A j \in S : k <= j PROVE k \in First(S, n)
  <2>1. {j \in S : j < k} = {}
    <3>1. \A j \in S : j \in Nat /\ ~(j < k)
      BY <1>3, BallotsFinite
    <3> QED
      BY <3>1
  <2>2. Cardinality({j \in S : j < k}) = 0
    BY <2>1, FS_EmptySet
  <2> QED
    BY <1>3, <2>2 DEF First
<1> QED
  BY <1>1, <1>2, <1>3

\* The chain's keys.
LEMMA ChainKeys ==
    ASSUME LedgerInv
    PROVE  /\ chain.ballots \in SUBSET Ballots /\ Nullifiers \in SUBSET Ranks
           /\ ballotsOf(Nullifiers) = chain.ballots
           /\ Cardinality(Nullifiers) = Cardinality(chain.ballots)
<1>1. chain.ballots \in SUBSET Ballots
  BY DEF LedgerInv, DumpTypes
<1>2. Nullifiers \in SUBSET Ranks /\ ballotsOf(Nullifiers) = chain.ballots
  BY <1>1 DEF Nullifiers, Ranks, ballotsOf
<1>3. Cardinality(Nullifiers) = Cardinality(chain.ballots)
  <2> DEFINE f == [b \in chain.ballots |-> nul(b)]
  <2>1. f \in [chain.ballots -> Nullifiers]
    BY DEF Nullifiers
  <2>2. f \in Surjection(chain.ballots, Nullifiers)
    BY <2>1 DEF Surjection, Nullifiers
  <2>3. f \in Injection(chain.ballots, Nullifiers)
    <3>1. \A b \in chain.ballots : f[b] = nul(b)
      OBVIOUS
    <3>2. \A b, c \in chain.ballots : nul(b) = nul(c) => b = c
      BY DEF LedgerInv, ChainInv
    <3> HIDE DEF f
    <3>3. \A b, c \in chain.ballots : f[b] = f[c] => b = c
      BY <3>1, <3>2
    <3> QED
      BY <2>1, <3>3 DEF Injection, IsInjective
  <2>4. IsFiniteSet(chain.ballots)
    BY <1>1, BallotsFinite
  <2> HIDE DEF f
  <2> QED
    BY <2>2, <2>3, <2>4, FS_Surjection
<1> QED
  BY <1>1, <1>2, <1>3

\* A page and its bookmark: the keys below the next bookmark are those below the last
\* one and the page's, and a walk that ends has read every key.
LEMMA PageCovers ==
    ASSUME LedgerInv, NEW next \in NextBookmarks(dump.bookmark),
           NEW limit,
           limit = IF next = 0 \/ next = dump.bookmark THEN End ELSE next
    PROVE  /\ next \in Nat
           /\ ListNullifiers(dump.bookmark) \in SUBSET Ranks
           /\ ListNullifiers(dump.bookmark) \subseteq Below(limit)
           /\ Below(limit) \ ListNullifiers(dump.bookmark) = Below(dump.bookmark)
<1> DEFINE bm == dump.bookmark
           S == From(bm)
           page == ListNullifiers(bm)
           left == S \ page
<1>1. /\ bm \in Nat /\ Nullifiers \in SUBSET Ranks /\ S \in SUBSET Ranks
      /\ nullifierPageSize \in Nat /\ nullifierPageSize # 0
  BY ChainKeys, LedgerDumpAssumption DEF LedgerInv, DumpTypes, From
<1>2. /\ page \subseteq S
      /\ \A k \in page, j \in S : j < k => j \in page
      /\ \A k \in S : (\A j \in S : k <= j) => k \in page
  BY <1>1, FirstKeys DEF ListNullifiers
<1>3. \A k \in Nullifiers : k \in Nat /\ 0 < k /\ k < End /\ (k \in S <=> k >= bm)
  BY <1>1, BallotsFinite DEF From
<1>4. End \in Nat /\ S \subseteq Nullifiers
  BY BallotsFinite DEF From
<1>5. CASE left # {}
  <2>1. next \in left /\ \A j \in left : next <= j
    BY <1>5 DEF NextBookmarks
  <2>2. next \in Nat /\ 0 < next /\ next >= bm
    BY <1>3, <1>4, <2>1
  <2>3. next # bm
    <3>1. SUFFICES ASSUME next = bm PROVE FALSE
      OBVIOUS
    <3>2. \A j \in S : next <= j
      BY <1>1, <1>3, <1>4, <3>1
    <3> QED
      BY <1>2, <2>1, <3>2
  <2>4. limit = next
    BY <2>2, <2>3
  <2>5. \A k \in page : k < next
    BY <1>2, <1>3, <1>4, <2>1, <2>2
  <2>6. page \subseteq Below(limit)
    BY <1>2, <1>4, <2>4, <2>5 DEF Below
  <2>7. \A k \in Nullifiers : k < next /\ k \notin page => k < bm
    BY <1>1, <1>3, <2>1, <2>2
  <2>8. \A k \in Nullifiers : k < bm => k < next /\ k \notin page
    BY <1>1, <1>2, <1>3, <1>4, <2>2
  <2>9. Below(limit) \ page = Below(bm)
    BY <2>4, <2>7, <2>8 DEF Below
  <2> QED
    BY <1>1, <1>2, <2>2, <2>6, <2>9
<1>6. CASE left = {}
  <2>1. next \in {0, bm, End} /\ page = S
    BY <1>2, <1>6 DEF NextBookmarks
  <2>2. limit = End /\ next \in Nat
    BY <1>1, <1>4, <2>1
  <2>3. Below(End) = Nullifiers
    BY <1>3 DEF Below
  <2>4. \A k \in Nullifiers : k \notin S <=> k < bm
    BY <1>1, <1>3
  <2>5. Nullifiers \ S = Below(bm)
    BY <2>4 DEF Below
  <2> QED
    BY <1>1, <1>4, <2>1, <2>2, <2>3, <2>5
<1> QED
  BY <1>5, <1>6

\* A step of the phase: the chain and what is in flight are not its to change.
LEMMA ChainStays ==
    ASSUME LedgerInv, UNCHANGED <<chain, flight>>
    PROVE  /\ ChainInv' /\ TallySent' = TallySent /\ Nullifiers' = Nullifiers
           /\ \A k : Below(k)' = Below(k)
           /\ \A keys : ballotsOf(keys)' = ballotsOf(keys)
BY DEF LedgerInv, ChainInv, TallySent, Nullifiers, Below, ballotsOf

\* What the file says of the chain goes on being true while neither changes.
LEMMA VerdictKeeps ==
    ASSUME LedgerInv, chain'.ballots = chain.ballots
    PROVE  /\ csv' = csv => VerdictIsTrueOfChain'
           /\ lc' = lc /\ EvidenceIsOfChain => EvidenceIsOfChain'
           /\ (SameNullifiers' <=> SameNullifiers) /\ (SamePads' <=> SamePads) /\ (SameData' <=> SameData)
<1>1. /\ (SameNullifiers' <=> SameNullifiers) /\ (SamePads' <=> SamePads) /\ (SameData' <=> SameData)
  BY DEF SameNullifiers, SamePads, SameData, Nullifiers
<1>2. ASSUME csv' = csv PROVE VerdictIsTrueOfChain'
  BY <1>1, <1>2 DEF LedgerInv, VerdictInv, VerdictIsTrueOfChain
<1>3. ASSUME lc' = lc, EvidenceIsOfChain PROVE EvidenceIsOfChain'
  BY <1>1, <1>3 DEF EvidenceIsOfChain
<1> QED
  BY <1>1, <1>2, <1>3

\* A file of no ballots, and of more of them.
LEMMA FileFacts ==
    /\ \A S \in SUBSET Ballots : fileOf(S) \in Files
    /\ \A S, T \in SUBSET Ballots : fileOf(S) = fileOf(T) => S = T
    /\ \A S, T \in SUBSET Ballots : S \cap T = {} =>
            [b \in Ballots |-> fileOf(S)[b] + fileOf(T)[b]] = fileOf(S \cup T)
<1>1. \A S \in SUBSET Ballots : fileOf(S) \in Files
  BY DEF fileOf, Files
<1>2. ASSUME NEW S \in SUBSET Ballots, NEW T \in SUBSET Ballots, fileOf(S) = fileOf(T)
      PROVE  S = T
  <2>1. \A b \in Ballots : (b \in S <=> fileOf(S)[b] = 1) /\ (b \in T <=> fileOf(T)[b] = 1)
    BY DEF fileOf
  <2> QED
    BY <1>2, <2>1
<1>3. ASSUME NEW S \in SUBSET Ballots, NEW T \in SUBSET Ballots, S \cap T = {}
      PROVE  [b \in Ballots |-> fileOf(S)[b] + fileOf(T)[b]] = fileOf(S \cup T)
  BY <1>3 DEF fileOf
<1> QED
  BY <1>1, <1>2, <1>3

\* A step of the network that records no ballot.
LEMMA FrozenKeeps ==
    ASSUME LedgerInv, flight' \subseteq Tx,
           chain' \in Chains,
           chain'.ballots = chain.ballots, chain.tally => chain'.tally,
           chain.shares \subseteq chain'.shares,
           TallySent' => chain'.status = "closed",
           pc # "idle" /\ TallySent' => TallySent,
           UNCHANGED <<pc, dump, dir, lc, csv>>
    PROVE  LedgerInv'
<1>1. /\ Nullifiers' = Nullifiers /\ \A k : Below(k)' = Below(k)
      /\ \A keys : ballotsOf(keys)' = ballotsOf(keys)
  BY DEF Nullifiers, Below, ballotsOf
<1>2. DumpTypes'
  BY DEF LedgerInv, DumpTypes
<1>3. ChainInv'
  BY DEF LedgerInv, ChainInv
<1>4. VerdictInv'
  BY VerdictKeeps DEF LedgerInv, VerdictInv
<1>5. WalkInv'
  <2>1. /\ TallySent' /\ pc' = "list" => Written(Below(dump.bookmark))'
        /\ TallySent' /\ pc' = "header" => Written(Nullifiers)' /\ dir'.lines = dump'.out
    BY <1>1 DEF LedgerInv, WalkInv, Written
  <2>2. Limit' = Limit /\ Done' = Done
    BY <1>1 DEF Limit, walkOver, Done
  <2>3. TallySent' /\ pc' = "fetch" => dump'.rest \subseteq Below(Limit)' /\ Written(Done)'
    BY <1>1, <2>2 DEF LedgerInv, WalkInv, Written, Below
  <2>4. pc' = "auditLedger" \/ (pc' \in {"audit", "compare"} /\ lc'.status = "ok") =>
            chain'.tally /\ dir'.lines = fileOf(chain'.ballots)
    BY DEF LedgerInv, WalkInv
  <2>5. DumpIsWholeLedger'
    BY DEF LedgerInv, WalkInv, DumpIsWholeLedger
  <2>6. pc' \in {"audit", "compare"} /\ lc'.status = "ok" => EvidenceIsOfChain'
    BY VerdictKeeps DEF LedgerInv, WalkInv
  <2> QED
    BY <2>1, <2>3, <2>4, <2>5, <2>6 DEF WalkInv
<1> QED
  BY <1>2, <1>3, <1>4, <1>5 DEF LedgerInv

\* A transaction is sent: a tally only between two phases, of a closed election.
LEMMA SendKeeps ==
    ASSUME LedgerInv, NEW t \in Tx, Send(t)
    PROVE  LedgerInv'
<1>1. /\ flight' = flight \cup {t} /\ UNCHANGED <<chain, pc, dump, dir, lc, csv>>
      /\ t.tx = "tally" => pc = "idle" /\ chain.status = "closed"
  BY DEF Send
<1>2. TallySent' => TallySent \/ t.tx = "tally"
  BY <1>1 DEF TallySent
<1>3. /\ TallySent' => chain'.status = "closed"
      /\ pc # "idle" /\ TallySent' => TallySent
  BY <1>1, <1>2 DEF LedgerInv, ChainInv
<1>4. /\ flight' \subseteq Tx /\ chain' = chain
      /\ chain' \in Chains
  BY <1>1 DEF LedgerInv, DumpTypes
<1> QED
  BY <1>1, <1>3, <1>4, FrozenKeeps

\* A ballot is recorded: no tally was sent yet, so no dump has got past its header.
LEMMA RecordKeeps ==
    ASSUME LedgerInv, NEW b \in Ballots, chain.status = "open", nul(b) \notin Nullifiers,
           chain' = [chain EXCEPT !.ballots = @ \cup {b}],
           flight' \subseteq flight, UNCHANGED <<pc, dump, dir, lc, csv>>
    PROVE  LedgerInv'
<1>1. chain \in Chains
  BY DEF LedgerInv, DumpTypes
<1>2. /\ chain'.ballots = chain.ballots \cup {b} /\ chain'.status = chain.status
      /\ chain'.tally = chain.tally
  BY <1>1
<1>3. ~TallySent /\ ~chain.tally /\ ~TallySent'
  BY <1>2 DEF LedgerInv, ChainInv, TallySent
<1>4. DumpTypes'
  <2>1. chain' \in Chains
    BY <1>1
  <2> QED
    BY <2>1 DEF LedgerInv, DumpTypes
<1>5. ChainInv'
  <2>1. \A c \in chain.ballots : nul(c) # nul(b)
    BY DEF Nullifiers
  <2>2. \A c, d \in chain.ballots : nul(c) = nul(d) => c = d
    BY DEF LedgerInv, ChainInv
  <2> QED
    BY <1>2, <1>3, <2>1, <2>2 DEF ChainInv
<1>6. WalkInv'
  <2>1. ~(pc = "auditLedger" \/ (pc \in {"audit", "compare"} /\ lc.status = "ok"))
    BY <1>3 DEF LedgerInv, WalkInv
  <2>2. DumpIsWholeLedger'
    BY <2>1 DEF DumpIsWholeLedger
  <2> QED
    BY <1>3, <2>1, <2>2 DEF WalkInv
<1>7. VerdictInv'
  <2>1. csv.status # "ok" /\ csv.matches = ""
    BY <1>3 DEF LedgerInv, VerdictInv, VerdictIsTrueOfChain
  <2> QED
    BY <2>1 DEF LedgerInv, VerdictInv, VerdictIsTrueOfChain
<1> QED
  BY <1>4, <1>5, <1>6, <1>7 DEF LedgerInv

\* A transaction in flight is ordered.
LEMMA LandKeeps ==
    ASSUME LedgerInv, NEW t \in Tx, Land(t)
    PROVE  LedgerInv'
<1>1. /\ t \in flight /\ flight' = flight \ {t} /\ UNCHANGED <<pc, dump, dir, lc, csv>>
      /\ flight' \subseteq Tx
  BY DEF Land, LedgerInv, DumpTypes
<1>2. chain \in Chains
  BY DEF LedgerInv, DumpTypes
<1>3. CASE t.tx = "ballot"
  <2>1. t.ballot \in Ballots
    BY <1>3 DEF Tx
  <2>2. CASE chain.status = "open" /\ nul(t.ballot) \notin Nullifiers
    <3>1. chain' = [chain EXCEPT !.ballots = @ \cup {t.ballot}]
      BY <1>3, <2>2 DEF Land
    <3> QED
      BY <1>1, <2>1, <2>2, <3>1, RecordKeeps
  <2>3. CASE ~(chain.status = "open" /\ nul(t.ballot) \notin Nullifiers)
    <3>1. chain' = chain
      BY <1>3, <2>3 DEF Land
    <3>2. TallySent' => TallySent
      BY <1>1, <3>1 DEF TallySent
    <3>3. TallySent' => chain'.status = "closed"
      BY <3>1, <3>2 DEF LedgerInv, ChainInv
    <3> QED
      BY <1>1, <1>2, <3>1, <3>2, <3>3, FrozenKeeps
  <2> QED
    BY <2>2, <2>3
<1>4. CASE t.tx = "close"
  <2>1. chain' = [chain EXCEPT !.status = "closed"]
    BY <1>4 DEF Land
  <2>2. /\ chain'.ballots = chain.ballots /\ chain'.tally = chain.tally
        /\ chain'.status = "closed" /\ chain'.shares = chain.shares
        /\ chain' \in Chains
    BY <1>2, <2>1
  <2>3. TallySent' => TallySent
    BY <1>1, <2>2 DEF TallySent
  <2> QED
    BY <1>1, <2>2, <2>3, FrozenKeeps
<1>6. CASE t.tx = "share"
  <2>1. chain' = [chain EXCEPT !.shares = @ \cup {t.trustee}] /\ t.trustee \in Trustees
    BY <1>6 DEF Land, Tx
  <2>2. /\ chain'.ballots = chain.ballots /\ chain'.tally = chain.tally
        /\ chain'.status = chain.status /\ chain.shares \subseteq chain'.shares
        /\ chain' \in Chains
    BY <1>2, <2>1
  <2>3. TallySent' => TallySent
    BY <1>1, <2>2 DEF TallySent
  <2>4. TallySent' => chain'.status = "closed"
    BY <2>2, <2>3 DEF LedgerInv, ChainInv
  <2> QED
    BY <1>1, <2>2, <2>3, <2>4, FrozenKeeps
<1>5. CASE t.tx = "tally"
  <2>1. chain' = [chain EXCEPT !.tally = TRUE]
    BY <1>5 DEF Land
  <2>2. /\ chain'.ballots = chain.ballots /\ chain'.tally
        /\ chain'.status = chain.status /\ chain'.shares = chain.shares
        /\ chain' \in Chains
    BY <1>2, <2>1
  <2>3. TallySent
    <3>1. t = [tx |-> "tally"]
      BY <1>5 DEF Tx
    <3> QED
      BY <1>1, <3>1 DEF TallySent
  <2>4. chain'.status = "closed"
    BY <2>2, <2>3 DEF LedgerInv, ChainInv
  <2> QED
    BY <1>1, <2>2, <2>3, <2>4, FrozenKeeps
<1> QED
  BY <1>3, <1>4, <1>5, <1>6 DEF Tx

\* A step of the phase from one of its places to another.
LEMMA PhaseKeeps ==
    ASSUME LedgerInv, UNCHANGED <<chain, flight>>, DumpTypes', WalkInv', VerdictInv'
    PROVE  LedgerInv'
BY ChainStays DEF LedgerInv

\* The phase begins, with an empty file and nothing read.
LEMMA VerifyKeeps ==
    ASSUME LedgerInv, NEW connected \in BOOLEAN, Verify(connected)
    PROVE  LedgerInv'
<1>1. /\ lc' = NoCheck /\ UNCHANGED <<chain, flight, csv>>
      /\ connected => /\ pc' = "list" /\ dump' = Walk
                      /\ dir' = [dir EXCEPT !.lines = fileOf({})]
      /\ ~connected => pc' = "audit" /\ UNCHANGED <<dump, dir>>
  BY DEF Verify
<1>2. Walk \in Walks
  BY FileFacts DEF Walk
<1>3. DumpTypes'
  <2>1. dir' \in Dirs
    <3>1. dir \in Dirs
      BY DEF LedgerInv, DumpTypes
    <3>2. fileOf({}) \in Files
      BY FileFacts
    <3> QED
      BY <1>1, <3>1, <3>2
  <2>2. NoCheck \in Checks
    BY DEF NoCheck, Checks, Aggregates
  <2>3. dump' \in Walks
    BY <1>1, <1>2 DEF LedgerInv, DumpTypes
  <2> QED
    BY <1>1, <2>1, <2>2, <2>3 DEF LedgerInv, DumpTypes
<1>4. VerdictInv'
  BY <1>1, VerdictKeeps DEF LedgerInv, VerdictInv, NoCheck
<1>5. WalkInv'
  <2>1. connected => Written(Below(dump.bookmark))'
    <3>1. SUFFICES ASSUME connected PROVE Written(Below(dump.bookmark))'
      OBVIOUS
    <3>2. dump'.bookmark = 0 /\ dump'.out = fileOf({}) /\ dump'.n = 0
      BY <1>1, <3>1 DEF Walk
    <3>3. Below(0)' = {}
      BY <1>1, ChainStays, ChainKeys, BallotsFinite DEF Below
    <3>4. Below(dump.bookmark)' = {}
      BY <3>2, <3>3 DEF Below
    <3>5. ballotsOf({})' = {}
      BY DEF ballotsOf
    <3> QED
      BY <3>2, <3>4, <3>5, FS_EmptySet DEF Written, ballotsOf
  <2>2. lc'.status # "ok"
    BY <1>1 DEF NoCheck
  <2> QED
    BY <1>1, <2>1, <2>2 DEF WalkInv, DumpIsWholeLedger
<1> QED
  BY <1>1, <1>3, <1>4, <1>5, PhaseKeeps

\* A failed read, or a header without its tally: the phase goes on without a ledger.
LEMMA DumpFailsKeeps ==
    ASSUME LedgerInv, dumpFails
    PROVE  LedgerInv'
<1>1. /\ dir' = NoDir /\ lc' = NotRun /\ pc' = "audit" /\ dump' = Walk
      /\ UNCHANGED <<chain, flight, csv>>
  BY DEF dumpFails
<1>2. Walk \in Walks
  BY FileFacts DEF Walk
<1>3. NoDir \in Dirs
  BY FileFacts DEF NoDir, NoHeader
<1>4. DumpTypes'
  BY <1>1, <1>2, <1>3 DEF LedgerInv, DumpTypes, Checks, NotRun, Aggregates
<1>5. VerdictInv'
  BY <1>1, VerdictKeeps DEF LedgerInv, VerdictInv, NotRun
<1>6. WalkInv'
  BY <1>1 DEF WalkInv, DumpIsWholeLedger, NotRun
<1> QED
  BY <1>1, <1>4, <1>5, <1>6, PhaseKeeps

\* A page is read.
LEMMA ReadPageKeeps ==
    ASSUME LedgerInv, ReadPage
    PROVE  LedgerInv'
<1> DEFINE bm == dump.bookmark
           page == ListNullifiers(bm)
<1>1. PICK next \in NextBookmarks(bm) :
          dump' = [dump EXCEPT !.rest = page, !.next = next]
  BY DEF ReadPage
<1>2. pc = "list" /\ pc' = "fetch" /\ UNCHANGED <<chain, flight, dir, lc, csv>>
  BY DEF ReadPage
<1>3. dump \in Walks
  BY DEF LedgerInv, DumpTypes
<1>4. /\ dump'.rest = page /\ dump'.next = next /\ dump'.bookmark = bm
      /\ dump'.out = dump.out /\ dump'.n = dump.n
  BY <1>1, <1>3
<1> DEFINE limit == IF next = 0 \/ next = bm THEN End ELSE next
<1>5. /\ next \in Nat /\ page \in SUBSET Ranks /\ page \subseteq Below(limit)
      /\ Below(limit) \ page = Below(bm)
  BY PageCovers
<1>6. Limit' = limit
  BY <1>4 DEF Limit, walkOver
<1>7. DumpTypes'
  <2>1. dump' \in Walks
    BY <1>1, <1>3, <1>5
  <2> QED
    BY <1>2, <2>1 DEF LedgerInv, DumpTypes
<1>8. VerdictInv'
  BY <1>2, VerdictKeeps DEF LedgerInv, VerdictInv
<1> HIDE DEF limit, page
<1>9. WalkInv'
  <2>1. ASSUME TallySent' PROVE dump'.rest \subseteq Below(Limit)' /\ Written(Done)'
    <3>1. Written(Below(bm))
      BY <1>2, <2>1, ChainStays DEF LedgerInv, WalkInv
    <3>2. Below(Limit)' = Below(limit)
      BY <1>2, <1>6 DEF Below, Nullifiers
    <3>3. Done' = Below(bm)
      BY <1>4, <1>5, <3>2 DEF Done
    <3>4. ballotsOf(Done)' = ballotsOf(Below(bm))
      BY <1>2, <3>3 DEF ballotsOf
    <3> QED
      BY <1>4, <1>5, <3>1, <3>2, <3>3, <3>4 DEF Written
  <2> QED
    BY <1>2, <2>1 DEF WalkInv, DumpIsWholeLedger
<1> QED
  BY <1>2, <1>7, <1>8, <1>9, PhaseKeeps

\* The deployed contract has no GetBallots: the same page, one by one.
LEMMA FallBackKeeps ==
    ASSUME LedgerInv, FallBack
    PROVE  LedgerInv'
<1>1. /\ pc = "fetch" /\ dump' = [dump EXCEPT !.batched = FALSE]
      /\ UNCHANGED <<chain, flight, pc, dir, lc, csv>>
  BY DEF FallBack
<1>2. dump \in Walks
  BY DEF LedgerInv, DumpTypes
<1>3. /\ dump'.rest = dump.rest /\ dump'.next = dump.next /\ dump'.bookmark = dump.bookmark
      /\ dump'.out = dump.out /\ dump'.n = dump.n
      /\ dump' \in Walks
  BY <1>1, <1>2
<1>4. DumpTypes'
  BY <1>1, <1>3 DEF LedgerInv, DumpTypes
<1>5. VerdictInv'
  BY <1>1, VerdictKeeps DEF LedgerInv, VerdictInv
<1>6. WalkInv'
  <2>1. Limit' = Limit
    BY <1>3 DEF Limit, walkOver
  <2>2. Below(Limit)' = Below(Limit)
    BY <1>1, <2>1 DEF Below, Nullifiers
  <2>3. Done' = Done
    BY <1>3, <2>2 DEF Done
  <2>4. ballotsOf(Done)' = ballotsOf(Done)
    BY <1>1, <2>3 DEF ballotsOf
  <2>5. ASSUME TallySent' PROVE dump'.rest \subseteq Below(Limit)' /\ Written(Done)'
    <3>1. dump.rest \subseteq Below(Limit) /\ Written(Done)
      BY <1>1, <2>5, ChainStays DEF LedgerInv, WalkInv
    <3> QED
      BY <1>3, <2>2, <2>3, <2>4, <3>1 DEF Written
  <2> QED
    BY <1>1, <2>5 DEF WalkInv, DumpIsWholeLedger
<1> QED
  BY <1>1, <1>4, <1>5, <1>6, PhaseKeeps

\* Ballots of the page are written, each of them still to be read.
LEMMA FetchKeeps ==
    ASSUME LedgerInv, Fetch
    PROVE  LedgerInv'
<1>1. /\ pc = "fetch" /\ UNCHANGED <<chain, flight, pc, dir, lc, csv>>
      /\ dump' = [dump EXCEPT
            !.out = [b \in Ballots |-> @[b] + fileOf(ballotsOf(chunk))[b]],
            !.n = @ + Cardinality(chunk), !.rest = @ \ chunk]
  BY DEF Fetch
<1>2. dump \in Walks
  BY DEF LedgerInv, DumpTypes
<1>3. chunk \in SUBSET dump.rest /\ chunk \in SUBSET Ranks
  BY <1>2, FirstKeys, LedgerDumpAssumption DEF chunk
<1>4. IsFiniteSet(chunk) /\ Cardinality(chunk) \in Nat /\ ballotsOf(chunk) \in SUBSET Ballots
  BY <1>3, BallotsFinite, ChainKeys DEF ballotsOf
<1> DEFINE new == [b \in Ballots |-> dump.out[b] + fileOf(ballotsOf(chunk))[b]]
<1>5. new \in Files
  <2>1. fileOf(ballotsOf(chunk)) \in [Ballots -> Nat] /\ dump.out \in [Ballots -> Nat]
    BY <1>2, <1>4, FileFacts DEF Files
  <2>2. \A b \in Ballots : dump.out[b] + fileOf(ballotsOf(chunk))[b] \in Nat
    BY <2>1
  <2> QED
    BY <2>2 DEF Files
<1>6. /\ dump'.rest = dump.rest \ chunk /\ dump'.next = dump.next
      /\ dump'.bookmark = dump.bookmark
      /\ dump'.out = new /\ dump'.n = dump.n + Cardinality(chunk)
  BY <1>1, <1>2
<1>7. dump' \in Walks
  <2>1. /\ dump.rest \ chunk \in SUBSET Ranks /\ dump.n + Cardinality(chunk) \in Nat
    BY <1>2, <1>4
  <2>2. dump' = [dump EXCEPT !.out = new, !.n = dump.n + Cardinality(chunk),
                             !.rest = dump.rest \ chunk]
    BY <1>1, <1>2
  <2> HIDE DEF new
  <2> QED
    BY <1>2, <1>5, <2>1, <2>2
<1>8. DumpTypes'
  BY <1>1, <1>7 DEF LedgerInv, DumpTypes
<1>9. VerdictInv'
  BY <1>1, VerdictKeeps DEF LedgerInv, VerdictInv
<1>10. WalkInv'
  <2>1. ASSUME TallySent' PROVE dump'.rest \subseteq Below(Limit)' /\ Written(Done)'
    <3>1. dump.rest \subseteq Below(Limit) /\ Written(Done)
      BY <1>1, <2>1, ChainStays DEF LedgerInv, WalkInv
    <3>2. Limit' = Limit
      BY <1>6 DEF Limit, walkOver
    <3>3. Below(Limit)' = Below(Limit)
      BY <1>1, <3>2 DEF Below, Nullifiers
    <3>4. Done' = Done \cup chunk /\ Done \cap chunk = {}
      BY <1>3, <1>6, <3>1, <3>3 DEF Done
    <3>5. Done \in SUBSET Ranks
      BY ChainKeys DEF Done, Below
    <3>6. Cardinality(Done \cup chunk) = Cardinality(Done) + Cardinality(chunk)
      <4>1. IsFiniteSet(Done) /\ Cardinality(Done) \in Nat
        BY <3>5, BallotsFinite
      <4>2. Cardinality(Done \cap chunk) = 0
        BY <3>4, FS_EmptySet
      <4>3. Cardinality(Done \cup chunk) =
                Cardinality(Done) + Cardinality(chunk) - Cardinality(Done \cap chunk)
        BY <1>4, <4>1, FS_Union
      <4> QED
        BY <1>4, <4>1, <4>2, <4>3
    <3>7. dump'.n = Cardinality(Done')
      BY <1>6, <3>1, <3>4, <3>6 DEF Written
    <3>8. /\ ballotsOf(Done \cup chunk) = ballotsOf(Done) \cup ballotsOf(chunk)
          /\ ballotsOf(Done) \cap ballotsOf(chunk) = {}
          /\ ballotsOf(Done) \in SUBSET Ballots
      BY <3>4, ChainKeys DEF ballotsOf
    <3>9. new = fileOf(ballotsOf(Done) \cup ballotsOf(chunk))
      <4>1. new = [b \in Ballots |-> fileOf(ballotsOf(Done))[b] + fileOf(ballotsOf(chunk))[b]]
        BY <3>1 DEF Written
      <4> QED
        BY <1>4, <3>8, <4>1, FileFacts
    <3>10. ballotsOf(Done)' = ballotsOf(Done \cup chunk)
      BY <1>1, <3>4 DEF ballotsOf
    <3>11. dump'.out = fileOf(ballotsOf(Done)')
      BY <1>6, <3>8, <3>9, <3>10
    <3> QED
      BY <1>6, <3>1, <3>3, <3>7, <3>11 DEF Written, fileOf
  <2> QED
    BY <1>1, <2>1 DEF WalkInv, DumpIsWholeLedger
<1> QED
  BY <1>1, <1>8, <1>9, <1>10, PhaseKeeps

\* The page is over: the walk goes on behind it, or every key has been read.
LEMMA PageEndsKeeps ==
    ASSUME LedgerInv, PageEnds
    PROVE  LedgerInv'
<1>1. /\ pc = "fetch" /\ dump.rest = {} /\ UNCHANGED <<chain, flight, lc, csv>>
      /\ walkOver => /\ pc' = "header" /\ dir' = [dir EXCEPT !.lines = dump.out]
                     /\ dump' = dump
      /\ ~walkOver => /\ pc' = "list" /\ dump' = [dump EXCEPT !.bookmark = dump.next]
                      /\ dir' = dir
  BY DEF PageEnds
<1>2. /\ dump \in Walks
      /\ dir \in Dirs
  BY DEF LedgerInv, DumpTypes
<1>3. DumpTypes'
  <2>1. /\ dump' \in Walks
        /\ dir' \in Dirs
    BY <1>1, <1>2
  <2> QED
    BY <1>1, <2>1 DEF LedgerInv, DumpTypes
<1>4. VerdictInv'
  BY <1>1, VerdictKeeps DEF LedgerInv, VerdictInv
<1>5. ASSUME TallySent' PROVE Written(Below(Limit))
  <2>1. Written(Done)
    BY <1>1, <1>5, ChainStays DEF LedgerInv, WalkInv
  <2>2. Done = Below(Limit)
    BY <1>1 DEF Done
  <2> QED
    BY <2>1, <2>2
<1>6. WalkInv'
  <2>1. CASE walkOver
    <3>1. Below(Limit) = Nullifiers
      BY <2>1, ChainKeys, BallotsFinite DEF Limit, Below
    <3>2. dir'.lines = dump'.out
      BY <1>1, <1>2, <2>1
    <3>3. ASSUME TallySent' PROVE Written(Nullifiers)'
      <4>1. Written(Nullifiers)
        BY <1>5, <3>1, <3>3
      <4>2. ballotsOf(Nullifiers)' = ballotsOf(Nullifiers) /\ Nullifiers' = Nullifiers
        BY <1>1 DEF ballotsOf, Nullifiers
      <4> QED
        BY <1>1, <2>1, <4>1, <4>2 DEF Written
    <3> QED
      BY <1>1, <2>1, <3>2, <3>3 DEF WalkInv, DumpIsWholeLedger
  <2>2. CASE ~walkOver
    <3>1. Limit = dump.next /\ dump'.bookmark = dump.next
          /\ dump'.out = dump.out /\ dump'.n = dump.n
      BY <1>1, <1>2, <2>2 DEF Limit
    <3>2. ASSUME TallySent' PROVE Written(Below(dump.bookmark))'
      <4>1. Below(dump.bookmark)' = Below(Limit)
        BY <1>1, <3>1 DEF Below, Nullifiers
      <4>2. ballotsOf(Below(dump.bookmark))' = ballotsOf(Below(Limit))
        BY <1>1, <4>1 DEF ballotsOf
      <4> QED
        BY <1>5, <3>1, <3>2, <4>1, <4>2 DEF Written
    <3> QED
      BY <1>1, <2>2, <3>2 DEF WalkInv, DumpIsWholeLedger
  <2> QED
    BY <2>1, <2>2
<1> QED
  BY <1>1, <1>3, <1>4, <1>6, PhaseKeeps

\* The header counts the ballots of the file.
LEMMA HeaderKeeps ==
    ASSUME LedgerInv, writeLedgerHeader
    PROVE  LedgerInv'
<1>1. CASE ~headerReady
  BY <1>1, DumpFailsKeeps DEF writeLedgerHeader
<1>2. CASE headerReady
  <2>1. /\ pc = "header" /\ chain.tally /\ pc' = "auditLedger"
        /\ UNCHANGED <<chain, flight, dump, lc, csv>>
    BY <1>2 DEF writeLedgerHeader, headerReady
  <2>2. PICK shares \in SUBSET chain.shares : dir' = [dir EXCEPT !.header =
            [n |-> dump.n, voters |-> ledgerVoterIDs(dump.n), shares |-> shares]]
    BY <1>2 DEF writeLedgerHeader, chainPartials
  <2>3. dump.n \in Nat /\ dir \in Dirs /\ shares \in SUBSET Trustees
    BY DEF LedgerInv, DumpTypes
  <2>4. ledgerVoterIDs(dump.n) = dump.n
    <3>1. Cardinality(Own) \in Nat
      BY BallotsFinite DEF Ballots
    <3> QED
      BY <2>3, <3>1 DEF ledgerVoterIDs
  <2>5. dump.out = fileOf(chain.ballots) /\ dump.n = Cardinality(chain.ballots)
        /\ dir.lines = dump.out
    <3>1. Written(Nullifiers) /\ dir.lines = dump.out
      BY <2>1 DEF LedgerInv, WalkInv, TallySent
    <3> QED
      BY <3>1, ChainKeys DEF Written
  <2>6. /\ dir'.lines = fileOf(chain'.ballots)
        /\ dir'.header.n = Cardinality(chain'.ballots)
        /\ dir'.header.voters = Cardinality(chain'.ballots)
        /\ dir'.header.shares \subseteq chain'.shares
    BY <2>1, <2>2, <2>3, <2>4, <2>5
  <2>7. DumpTypes'
    <3>1. dir' \in Dirs
      BY <2>2, <2>3, <2>4
    <3> QED
      BY <2>1, <3>1 DEF LedgerInv, DumpTypes
  <2>8. VerdictInv'
    BY <2>1, VerdictKeeps DEF LedgerInv, VerdictInv
  <2>9. WalkInv'
    BY <2>1, <2>6 DEF WalkInv, DumpIsWholeLedger
  <2> QED
    BY <2>1, <2>7, <2>8, <2>9, PhaseKeeps
<1> QED
  BY <1>1, <1>2

\* The dump is audited, or the auditor crashes.
LEMMA AuditLedgerKeeps ==
    ASSUME LedgerInv, NEW parsed \in BOOLEAN, auditLedger(parsed)
    PROVE  LedgerInv'
<1> DEFINE shown == auditStream(dir.lines, dir.header.shares)
<1>1. /\ pc = "auditLedger" /\ pc' = "audit"
      /\ lc' = IF parsed THEN [status |-> "ok", matches |-> "", aggregate |-> shown] ELSE NotRun
      /\ UNCHANGED <<chain, flight, dump, dir, csv>>
  BY DEF auditLedger
<1>2. dir.lines \in Files /\ dir.lines = fileOf(chain.ballots)
  BY <1>1 DEF LedgerInv, DumpTypes, WalkInv
<1>3. shown \in Aggregates
  BY <1>2 DEF auditStream, Aggregates
<1>4. shown # NoEvidence => SamePads /\ shown = {dataSum(fileOf(chain.ballots))}
  BY <1>2 DEF auditStream, SamePads
<1> HIDE DEF shown
<1>5. lc' \in Checks /\ lc'.matches = "" /\ (lc'.status = "ok" => lc'.aggregate = shown)
  BY <1>1, <1>3 DEF Checks, NotRun, Aggregates
<1>6. DumpTypes' /\ VerdictInv'
  BY <1>1, <1>5, VerdictKeeps DEF LedgerInv, DumpTypes, VerdictInv
<1>7. lc'.status = "ok" => EvidenceIsOfChain'
  BY <1>1, <1>4, <1>5, VerdictKeeps DEF EvidenceIsOfChain
<1>8. WalkInv'
  BY <1>1, <1>7 DEF LedgerInv, WalkInv, DumpIsWholeLedger
<1> QED
  BY <1>1, <1>6, <1>8, PhaseKeeps

\* The run's own directory is audited.
LEMMA AuditRunKeeps ==
    ASSUME LedgerInv, NEW parsed \in BOOLEAN, auditRun(parsed)
    PROVE  LedgerInv'
<1>1. /\ pc = "audit" /\ pc' \in {"compare", "idle"}
      /\ UNCHANGED <<chain, flight, dump, dir, lc, csv>>
  BY DEF auditRun
<1>2. DumpTypes' /\ VerdictInv'
  BY <1>1, VerdictKeeps DEF LedgerInv, DumpTypes, VerdictInv
<1>3. WalkInv'
  BY <1>1, VerdictKeeps DEF LedgerInv, WalkInv, DumpIsWholeLedger
<1> QED
  BY <1>1, <1>2, <1>3, PhaseKeeps

\* A nullifier that one ballot has counts once in the digest, and one that none has
\* does not count.
LEMMA DigestCounts ==
    ASSUME NEW S \in SUBSET Ballots, \A b, c \in S : nul(b) = nul(c) => b = c,
           NEW k \in Ranks
    PROVE  nullifierSetDigest(fileOf(S))[k] = IF \E b \in S : nul(b) = k THEN 1 ELSE 0
<1> DEFINE lines == UNION {{b} \X (1 .. fileOf(S)[b]) : b \in {c \in Ballots : nul(c) = k}}
<1>1. nullifierSetDigest(fileOf(S))[k] = Cardinality(lines)
  BY DEF nullifierSetDigest
<1>2. \A b \in Ballots : fileOf(S)[b] = IF b \in S THEN 1 ELSE 0
  BY DEF fileOf
<1>3. CASE \E b \in S : nul(b) = k
  <2>1. PICK b \in S : nul(b) = k
    BY <1>3
  <2>2. b \in Ballots /\ \A c \in Ballots : nul(c) = k /\ c # b => c \notin S
    BY <2>1
  <2>3. \A c \in Ballots : nul(c) = k /\ c # b => {c} \X (1 .. fileOf(S)[c]) = {}
    BY <1>2, <2>2
  <2>4. {b} \X (1 .. fileOf(S)[b]) = {<<b, 1>>}
    <3>1. fileOf(S)[b] = 1
      BY <1>2, <2>2
    <3>2. 1 .. fileOf(S)[b] = {1}
      BY <3>1
    <3> QED
      BY <3>2
  <2>5. lines = {<<b, 1>>}
    BY <2>1, <2>2, <2>3, <2>4
  <2>6. Cardinality(lines) = 1
    BY <2>5, FS_Singleton
  <2> QED
    BY <1>1, <1>3, <2>6
<1>4. CASE ~ \E b \in S : nul(b) = k
  <2>1. \A c \in Ballots : nul(c) = k => {c} \X (1 .. fileOf(S)[c]) = {}
    BY <1>2, <1>4
  <2>2. lines = {}
    BY <2>1
  <2>3. Cardinality(lines) = 0
    BY <2>2, FS_EmptySet
  <2> QED
    BY <1>1, <1>4, <2>3
<1> QED
  BY <1>3, <1>4

\* The digests of the run's file and of the chain's agree just when the nullifiers do.
LEMMA DigestTells ==
    ASSUME LedgerInv
    PROVE  nullifierSetDigest(fileOf(Own)) = nullifierSetDigest(fileOf(chain.ballots))
              <=> SameNullifiers
<1> DEFINE own == nullifierSetDigest(fileOf(Own))
           theirs == nullifierSetDigest(fileOf(chain.ballots))
           on(S, k) == \E b \in S : nul(b) = k
<1>1. /\ Own \in SUBSET Ballots /\ chain.ballots \in SUBSET Ballots
      /\ \A b, c \in Own : nul(b) = nul(c) => b = c
      /\ \A b, c \in chain.ballots : nul(b) = nul(c) => b = c
  BY ChainKeys, LedgerDumpAssumption DEF Ballots, LedgerInv, ChainInv
<1>2. ASSUME NEW k \in Ranks
      PROVE  /\ own[k] = IF on(Own, k) THEN 1 ELSE 0
             /\ theirs[k] = IF on(chain.ballots, k) THEN 1 ELSE 0
  <2>1. own[k] = IF on(Own, k) THEN 1 ELSE 0
    BY <1>1, DigestCounts
  <2>2. theirs[k] = IF on(chain.ballots, k) THEN 1 ELSE 0
    BY <1>1, DigestCounts
  <2> QED
    BY <2>1, <2>2
<1>3. own = [k \in Ranks |-> own[k]] /\ theirs = [k \in Ranks |-> theirs[k]]
  BY DEF nullifierSetDigest
<1>4. SameNullifiers <=> \A k \in Ranks : on(Own, k) <=> on(chain.ballots, k)
  <2>1. /\ \A k : k \in Nullifiers <=> k \in Ranks /\ on(chain.ballots, k)
        /\ \A k : k \in {nul(b) : b \in Own} <=> k \in Ranks /\ on(Own, k)
    BY <1>1 DEF Nullifiers, Ranks
  <2> HIDE DEF on
  <2> QED
    BY <2>1 DEF SameNullifiers
<1> HIDE DEF own, theirs, on
<1>5. \A k \in Ranks : own[k] = theirs[k] <=> (on(Own, k) <=> on(chain.ballots, k))
  <2>1. TAKE k \in Ranks
  <2>2. /\ own[k] = IF on(Own, k) THEN 1 ELSE 0
        /\ theirs[k] = IF on(chain.ballots, k) THEN 1 ELSE 0
    BY <1>2
  <2>3. on(Own, k) \in BOOLEAN /\ on(chain.ballots, k) \in BOOLEAN
    BY DEF on
  <2> QED
    BY <2>2, <2>3
<1>6. own = theirs <=> \A k \in Ranks : own[k] = theirs[k]
  BY <1>3
<1> QED
  BY <1>4, <1>5, <1>6 DEF own, theirs

\* The local audit always has its evidence.
LEMMA LocalEvidence == localAggregate = {dataSum(fileOf(Own))} /\ localAggregate # NoEvidence
<1>1. Cardinality(Trustees) >= Threshold
  BY LedgerDumpAssumption, FS_CardinalityType
<1> QED
  BY <1>1 DEF localAggregate, auditStream, NoEvidence

\* A comparison of a whole dump.
LEMMA CompareTells ==
    ASSUME LedgerInv, dir.lines = fileOf(chain.ballots), EvidenceIsOfChain
    PROVE  /\ compareLedger => SameNullifiers /\ SamePads /\ SameData
           /\ ~ compareLedger /\ lc.aggregate # NoEvidence => ~ (SameNullifiers /\ SameData)
<1>1. compareLedger <=> SameNullifiers /\ {dataSum(fileOf(Own))} = lc.aggregate
  BY DigestTells, LocalEvidence DEF compareLedger, sameAggregates
<1>2. lc.aggregate # NoEvidence => SamePads /\ lc.aggregate = {dataSum(fileOf(chain.ballots))}
  BY DEF EvidenceIsOfChain
<1>3. compareLedger => lc.aggregate # NoEvidence
  BY <1>1 DEF NoEvidence
<1>4. lc.aggregate # NoEvidence => (SameData <=> {dataSum(fileOf(Own))} = lc.aggregate)
  BY <1>2 DEF SameData
<1> QED
  BY <1>1, <1>2, <1>3, <1>4

\* The verdict is written.
LEMMA CorrectnessKeeps ==
    ASSUME LedgerInv, NEW readable \in BOOLEAN, WriteCorrectness(readable)
    PROVE  LedgerInv'
<1>1. /\ pc = "compare" /\ pc' = "idle" /\ lc' = recordLedgerVerdict(readable) /\ csv' = lc'
      /\ UNCHANGED <<chain, flight, dump, dir>>
  BY DEF WriteCorrectness
<1>2. lc \in Checks /\ lc.matches = ""
  BY <1>1 DEF LedgerInv, DumpTypes, VerdictInv
<1>3. /\ lc' \in Checks
      /\ lc'.status = "ok" => chain.tally
      /\ lc'.matches = "true" => SameNullifiers /\ SamePads /\ SameData
      /\ lc'.matches = "false" /\ lc'.aggregate # NoEvidence => ~ (SameNullifiers /\ SameData)
      /\ lc'.status = "ok" <=> lc'.matches # ""
  <2>1. CASE lc.status # "ok"
    <3>1. lc' = lc
      BY <1>1, <2>1 DEF recordLedgerVerdict
    <3> QED
      BY <1>2, <2>1, <3>1
  <2>2. CASE lc.status = "ok" /\ ~readable
    <3>1. lc' = NotRun
      BY <1>1, <2>2 DEF recordLedgerVerdict
    <3> QED
      BY <3>1 DEF NotRun, Checks, Aggregates
  <2>3. CASE lc.status = "ok" /\ readable
    <3>1. chain.tally /\ dir.lines = fileOf(chain.ballots) /\ EvidenceIsOfChain
      BY <1>1, <2>3 DEF LedgerInv, WalkInv
    <3>2. lc' = [lc EXCEPT !.matches = IF compareLedger THEN "true" ELSE "false"]
      BY <1>1, <2>3 DEF recordLedgerVerdict
    <3>3. /\ lc'.status = "ok" /\ lc'.aggregate = lc.aggregate /\ lc' \in Checks
          /\ lc'.matches = IF compareLedger THEN "true" ELSE "false"
      BY <1>2, <2>3, <3>2 DEF Checks
    <3>4. /\ compareLedger => SameNullifiers /\ SamePads /\ SameData
          /\ ~ compareLedger /\ lc.aggregate # NoEvidence => ~ (SameNullifiers /\ SameData)
      BY <3>1, CompareTells
    <3> QED
      BY <3>1, <3>3, <3>4
  <2> QED
    BY <2>1, <2>2, <2>3
<1>4. DumpTypes'
  BY <1>1, <1>3 DEF LedgerInv, DumpTypes
<1>5. VerdictInv'
  BY <1>1, <1>3, VerdictKeeps DEF VerdictInv, VerdictIsTrueOfChain
<1>6. WalkInv'
  BY <1>1 DEF WalkInv, DumpIsWholeLedger
<1> QED
  BY <1>1, <1>4, <1>5, <1>6, PhaseKeeps

\* A kill leaves a part of the file, which no phase reads again.
LEMMA CrashKeeps ==
    ASSUME LedgerInv, Crash
    PROVE  LedgerInv'
<1>1. /\ pc' = "idle" /\ dump' = Walk /\ lc' = NoCheck /\ UNCHANGED <<chain, flight, csv>>
  BY DEF Crash
<1>2. dir \in Dirs
  BY DEF LedgerInv, DumpTypes
<1>3. dir' \in Dirs
  <2>1. CASE dir' = dir
    BY <1>2, <2>1
  <2>2. CASE dir' # dir
    <3>1. PICK k \in 1 .. End :
              dir' = [dir EXCEPT !.lines = [b \in Ballots |-> IF nul(b) < k THEN dump.out[b] ELSE 0]]
      BY <2>2 DEF Crash
    <3>2. [b \in Ballots |-> IF nul(b) < k THEN dump.out[b] ELSE 0] \in Files
      BY DEF LedgerInv, DumpTypes, Files
    <3> QED
      BY <1>2, <3>1, <3>2
  <2> QED
    BY <2>1, <2>2
<1>4. Walk \in Walks
  BY FileFacts DEF Walk
<1>5. DumpTypes'
  BY <1>1, <1>3, <1>4 DEF LedgerInv, DumpTypes, Checks, NoCheck, Aggregates
<1>6. VerdictInv'
  BY <1>1, VerdictKeeps DEF LedgerInv, VerdictInv
<1>7. WalkInv'
  BY <1>1 DEF WalkInv, DumpIsWholeLedger
<1> QED
  BY <1>1, <1>5, <1>6, <1>7, PhaseKeeps

\* Before anything is sent.
LEMMA LedgerInvInit ==
    ASSUME DumpInit
    PROVE  LedgerInv
<1>1. Walk \in Walks
  BY FileFacts DEF Walk
<1>2. NoDir \in Dirs
  BY FileFacts DEF NoDir, NoHeader
<1>3. DumpTypes
  BY <1>1, <1>2 DEF DumpInit, DumpTypes, Checks, NoCheck, Aggregates
<1>4. ChainInv /\ VerdictInv /\ WalkInv
  BY DEF DumpInit, ChainInv, TallySent, VerdictInv, VerdictIsTrueOfChain, WalkInv,
         DumpIsWholeLedger, NoCheck
<1> QED
  BY <1>3, <1>4 DEF LedgerInv

\* Every step of the phase and of the network.
LEMMA LedgerInvStep ==
    ASSUME LedgerInv, [DumpNext]_dumpVars
    PROVE  LedgerInv'
<1>1. ASSUME NEW t \in Tx, Send(t) PROVE LedgerInv'
  BY <1>1, SendKeeps
<1>2. ASSUME NEW t \in Tx, Land(t) PROVE LedgerInv'
  BY <1>2, LandKeeps
<1>3. ASSUME NEW connected \in BOOLEAN, Verify(connected) PROVE LedgerInv'
  BY <1>3, VerifyKeeps
<1>4. CASE ReadPage
  BY <1>4, ReadPageKeeps
<1>5. CASE FallBack
  BY <1>5, FallBackKeeps
<1>6. CASE Fetch
  BY <1>6, FetchKeeps
<1>7. CASE PageEnds
  BY <1>7, PageEndsKeeps
<1>8. CASE writeLedgerHeader
  BY <1>8, HeaderKeeps
<1>9. ASSUME NEW parsed \in BOOLEAN, auditLedger(parsed) PROVE LedgerInv'
  BY <1>9, AuditLedgerKeeps
<1>10. ASSUME NEW parsed \in BOOLEAN, auditRun(parsed) PROVE LedgerInv'
  BY <1>10, AuditRunKeeps
<1>11. ASSUME NEW readable \in BOOLEAN, WriteCorrectness(readable) PROVE LedgerInv'
  BY <1>11, CorrectnessKeeps
<1>12. CASE ReadFails
  BY <1>12, DumpFailsKeeps DEF ReadFails
<1>13. CASE Crash
  BY <1>13, CrashKeeps
<1>14. CASE UNCHANGED dumpVars
  <2>1. UNCHANGED <<chain, flight, pc, dump, dir, lc, csv>>
    BY <1>14 DEF dumpVars
  <2>2. /\ flight' \subseteq Tx
        /\ chain' \in Chains
    BY <2>1 DEF LedgerInv, DumpTypes
  <2>3. TallySent' = TallySent /\ (TallySent' => chain'.status = "closed")
    BY <2>1, ChainStays DEF ChainInv
  <2> QED
    BY <2>1, <2>2, <2>3, FrozenKeeps
<1> QED
  BY <1>1, <1>2, <1>3, <1>4, <1>5, <1>6, <1>7, <1>8, <1>9, <1>10, <1>11, <1>12, <1>13, <1>14
     DEF DumpNext, Progress

\* What the pages of a dump are of the chain, whatever lands meanwhile
\* (dumpLedgerBallots, writeLedgerHeader).
THEOREM DumpInvariant == DumpSpec => []LedgerInv
<1>1. DumpInit => LedgerInv
  BY LedgerInvInit
<1>2. LedgerInv /\ [DumpNext]_dumpVars => LedgerInv'
  BY LedgerInvStep
<1> QED
  BY <1>1, <1>2, PTL DEF DumpSpec

\* A dump that is audited is the whole ledger, each ballot once, under a header that
\* counts it: for any number of ballots and any size of page and of batch.
THEOREM DumpWhole == DumpSpec => []DumpInv
<1>1. LedgerInv => DumpInv
  <2>1. DumpTypes => DumpTypeOK
    BY DEF DumpTypes, DumpTypeOK, Checks
  <2> QED
    BY <2>1 DEF LedgerInv, WalkInv, DumpInv
<1> QED
  BY <1>1, DumpInvariant, PTL

\* What correctness.csv says of the chain is true of the chain: a match means that the
\* ledger holds the run's nullifiers and the sums of its ciphertexts, and a mismatch whose
\* ledger row shows an aggregate means that it does not (compareLedger,
\* recordLedgerVerdict), whichever shares could not be read.
THEOREM VerdictTrue == DumpSpec => []VerdictIsTrueOfChain
<1>1. LedgerInv => VerdictIsTrueOfChain
  BY DEF LedgerInv, VerdictInv
<1> QED
  BY <1>1, DumpInvariant, PTL
=============================================================================
