------------------------------ MODULE Chaincode ------------------------------
(***************************************************************************)
(* The checks of the bulletin-board smart contract, as pure operators of   *)
(* the message under test and the values the contract reads from the world *)
(* state.  Nothing here has state: BulletinBoard applies these checks      *)
(* atomically, Bulletin applies them to a read set that may be stale when  *)
(* the transaction commits.                                                *)
(*                                                                         *)
(* Data abstraction.  A message is a record; its field "wire" names the    *)
(* check on its bytes alone (hex and protobuf decoding, wire version,      *)
(* field lengths) that refuses it, or is "ok".  A contest or position id   *)
(* "a/b/1" is the sequence of its "/"-separated segments.  A ciphertext is *)
(* its plaintext.  A zero-knowledge proof or signature is the statement it *)
(* was made for: it verifies exactly when the verifier reconstructs the    *)
(* same statement and the statement is true (soundness of the primitive).  *)
(***************************************************************************)
EXTENDS BulletinMessages, SequencesExt

-----------------------------------------------------------------------------
(* Positions and contests.                                                 *)

\* The indices of the contests a ballot of this position covers: all of them
\* for the empty position, else those whose id starts with "<position>/".
contestIndicesForPosition(contests, position) ==
    {i \in DOMAIN contests :
        \/ position = << >>
        \/ IsStrictPrefix(position, contests[i])}

\* Some contest id has the "<position>/<candidate>" layout.
positionedContests(contests) ==
    \E i \in DOMAIN contests : Len(contests[i]) > 1

\* The index of the l-th contest that the position covers.
NthContest(contests, position, l) ==
    LET idxs == contestIndicesForPosition(contests, position)
    IN  CHOOSE i \in idxs : Cardinality({j \in idxs : j <= i}) = l

-----------------------------------------------------------------------------
(* CreateElection, PublishDKGTranscript and CloseElection.                 *)

\* A trustee id or a contest id may repeat: the contract does not look.
CreateElectionAccepts(existing, p) ==
    /\ p.wire = "ok"
    /\ Len(p.contests) > 0
    /\ Len(p.trustees) > 0
    /\ p.threshold \in 1..Len(p.trustees)
    /\ p.issuer = None \/ p.issuerCanonical
    /\ existing = None

PublishDKGAccepts_Republish(params, existing, t) ==
    /\ t.wire = "ok"
    /\ t.commitments > 0
    /\ params # None
    /\ t.threshold = params.threshold
    /\ t.commitments = Len(params.trustees)

\* A transcript may be published in a closed election: no status is read.
PublishDKGAccepts(params, existing, t) ==
    /\ t.wire = "ok"
    /\ t.commitments > 0
    /\ params # None
    /\ t.threshold = params.threshold
    /\ t.commitments = Len(params.trustees)
    /\ existing = None

CloseElectionAccepts(status) ==
    status \notin {None, Closed}

-----------------------------------------------------------------------------
(* SubmitBallot.                                                           *)

\* The joint key, or None when a constant term is not a canonical point.
deriveElectionPublicKey(dkg) == dkg.key

\* A credential signature verifies under the key that made it.
VerifyIssuerSignature(b) == b.signer = b.issuer

\* The CDS proof of a 0/1 ciphertext, bound to election, contest, nullifier
\* and joint key.
VerifyBinaryCDS(proof, b, contest, pk, vote) ==
    /\ proof.context = <<b.election, contest, b.nullifier>>
    /\ proof.key = pk
    /\ vote \in {0, 1}

\* Sum of a ballot's plaintexts.
VoteSum(votes) ==
    LET sum[l \in 0..Len(votes)] == IF l = 0 THEN 0 ELSE sum[l - 1] + votes[l]
    IN  sum[Len(votes)]

verifySelection_ContextOnly(b, pk) ==
    /\ b.selection # None
    /\ b.selection.version = "v1"
    /\ b.selection.context = <<b.election, b.position, b.nullifier>>
    /\ b.selection.key = pk

\* The selection proof shows that the record's ciphertexts sum to one.
verifySelection(b, pk) ==
    /\ b.selection # None
    /\ b.selection.version = "v1"
    /\ b.selection.context = <<b.election, b.position, b.nullifier>>
    /\ b.selection.key = pk
    /\ VoteSum(b.votes) = 1

IssuerBound(params) == params # None /\ params.issuer # None

\* The number of ciphertexts and of proofs is the number of contests covered.
CountsMatch(params, b) ==
    LET n == Cardinality(contestIndicesForPosition(params.contests, b.position))
    IN  Len(b.votes) = n /\ Len(b.proofs) = n

\* The per-contest proof loop stops at the first contest that fails.
BadContests(params, dkg, b) ==
    {l \in DOMAIN b.proofs :
        \/ b.proofs[l].version # "v1"
        \/ ~VerifyBinaryCDS(b.proofs[l], b,
                params.contests[NthContest(params.contests, b.position, l)],
                deriveElectionPublicKey(dkg), b.votes[l])}

ProofLoopGate(params, dkg, b) ==
    LET bad == BadContests(params, dkg, b)
    IN  IF bad # {} /\ b.proofs[Min(bad)].version # "v1" THEN "shape" ELSE "cds"

\* The gates on the election's lifecycle, in the contract's order.
LifecycleGates(status, spent) ==
    << <<"election-exists", status # None>>,
       <<"election-open", status = Open>>,
       <<"nullifier", spent = None>> >>

\* All gates in the order the contract applies them, each with the condition
\* under which it lets the ballot through.  A gate that is not reached (a
\* later one reads what an earlier one found missing) is vacuously open.
\* "internal" is a failure that carries no gate id.
BallotGates(params, status, spent, dkg, b) ==
    LET found   == params # None
        counted == found /\ CountsMatch(params, b)
        keyed   == dkg # None /\ deriveElectionPublicKey(dkg) # None
        loops   == counted /\ keyed
        life    == LifecycleGates(status, spent)
    IN  << <<"decode", b.wire # "decode">>,
           <<"shape", b.wire # "shape" /\ Len(b.votes) > 0>>,
           <<"issuer", IssuerBound(params) => b.issuer = params.issuer>>,
           <<"credential", VerifyIssuerSignature(b)>>,
           life[1], life[2], life[3],
           <<"internal", found>>,
           <<"shape", ~( /\ b.position = << >>
                         /\ IssuerBound(params)
                         /\ positionedContests(params.contests))>>,
           <<"shape", found =>
                contestIndicesForPosition(params.contests, b.position) # {}>>,
           <<"shape", found => counted>>,
           <<"dkg-missing", dkg # None>>,
           <<"internal", dkg # None => keyed>>,
           <<IF loops THEN ProofLoopGate(params, dkg, b) ELSE "cds",
                loops => BadContests(params, dkg, b) = {}>>,
           <<"selection", keyed /\ IssuerBound(params) =>
                verifySelection(b, deriveElectionPublicKey(dkg))>> >>

SubmitBallotAccepts(params, status, spent, dkg, b) ==
    LET gates == BallotGates(params, status, spent, dkg, b)
    IN  \A i \in DOMAIN gates : gates[i][2]

\* The gate that refuses the ballot, the machine-readable part of the error.
rejectAt(params, status, spent, dkg, b) ==
    LET gates == BallotGates(params, status, spent, dkg, b)
    IN  gates[Min({i \in DOMAIN gates : ~gates[i][2]})][1]

-----------------------------------------------------------------------------
(* SubmitPartialDecryption and PublishTally.                               *)

\* The Chaum-Pedersen proof of a share is only required to be present.
SubmitPartialAccepts(params, status, existing, d) ==
    /\ d.wire = "ok"
    /\ status = Closed
    /\ params # None
    /\ Contains(params.contests, d.contest)
    /\ Contains(params.trustees, d.trustee)
    /\ existing = None

\* A trustee's 1-based index is its first position in the trustee list.
TrusteeIndex(trustees, id) == SelectInSeq(trustees, LAMBDA t : t = id)

\* The verification key of a trustee is its share of this transcript; a
\* non-canonical coefficient leaves none.
DeriveVerificationKey(dkg, trustees, id) ==
    IF dkg.interpolable THEN <<dkg.key, TrusteeIndex(trustees, id)>> ELSE None

\* A Schnorr signature over the stored election id and these exact totals.
VerifySchnorr(vk, election, totals, sig) ==
    /\ vk # None
    /\ sig.share = vk
    /\ sig.context = <<election, totals>>

Signers(tally) == {tally.signatures[i].trustee : i \in DOMAIN tally.signatures}

verifyTallySignatures_CountRepeats(params, dkg, tally) ==
    LET sigs == tally.signatures
    IN  /\ Len(sigs) > 0
        /\ dkg # None
        /\ \A i \in DOMAIN sigs :
             /\ Contains(params.trustees, sigs[i].trustee)
             /\ VerifySchnorr(
                    DeriveVerificationKey(dkg, params.trustees, sigs[i].trustee),
                    params.election, tally.totals, sigs[i])
        /\ Len(sigs) >= params.threshold

\* Every signature is a known trustee's, unrepeated and valid, and at least
\* threshold trustees signed.
verifyTallySignatures(params, dkg, tally) ==
    LET sigs == tally.signatures
    IN  /\ Len(sigs) > 0
        /\ dkg # None
        /\ \A i \in DOMAIN sigs :
             /\ Contains(params.trustees, sigs[i].trustee)
             /\ \A j \in 1..(i - 1) : sigs[j].trustee # sigs[i].trustee
             /\ VerifySchnorr(
                    DeriveVerificationKey(dkg, params.trustees, sigs[i].trustee),
                    params.election, tally.totals, sigs[i])
        /\ Len(sigs) >= params.threshold

PublishTallyAccepts(params, status, existing, dkg, t) ==
    /\ t.wire = "ok"
    /\ status = Closed
    /\ params # None
    /\ Len(t.totals) = Len(params.contests)
    /\ existing = None
    /\ verifyTallySignatures(params, dkg, t)

\* The distinct trustees of the election whose signature over these exact
\* totals verifies under the transcript.
Endorsers(params, transcript, result) ==
    {id \in ToSet(params.trustees) :
        \E i \in DOMAIN result.signatures :
            /\ result.signatures[i].trustee = id
            /\ VerifySchnorr(
                  DeriveVerificationKey(transcript, params.trustees, id),
                  params.election, result.totals, result.signatures[i])}
=============================================================================
