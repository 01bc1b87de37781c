----------------------------- MODULE MCBulletin -----------------------------
(***************************************************************************)
(* Messages for model checking Bulletin.  The sets mix messages that an    *)
(* honest client submits with, for each gate, one that only that gate      *)
(* refuses.                                                                *)
(***************************************************************************)
EXTENDS Bulletin

MCElectionIds  == {"e1"}
MCNullifierIds == {"n1", "n2"}
MCContestIds   == {<<"m", "1">>, <<"m", "2">>, <<"x">>}
MCTrusteeIds   == {"A", "B", "Z"}

\* An election with per-position contests bound to issuer I1, 2 of 3.
BoundParams ==
    [wire |-> "ok", election |-> "e1", contests |-> << <<"m", "1">>, <<"m", "2">> >>,
     trustees |-> <<"A", "B", "C">>, threshold |-> 2,
     issuer |-> "I1", issuerCanonical |-> TRUE]

\* A legacy election: one contest without a position, no issuer, 1 of 2.
LegacyParams ==
    [BoundParams EXCEPT !.contests = << <<"x">> >>, !.trustees = <<"A", "B">>,
                        !.threshold = 1, !.issuer = None]

MCParamsMsgs ==
    {BoundParams, LegacyParams,
     [BoundParams EXCEPT !.threshold = 0],
     [BoundParams EXCEPT !.threshold = 4],
     [BoundParams EXCEPT !.issuerCanonical = FALSE]}

Transcript(threshold, n, key) ==
    [wire |-> "ok", election |-> "e1", threshold |-> threshold,
     commitments |-> n, key |-> key, interpolable |-> key # None]

MCTranscriptMsgs ==
    {Transcript(2, 3, "K1"), Transcript(2, 3, "K2"), Transcript(2, 3, None),
     Transcript(1, 2, "K3"), Transcript(1, 3, "K1"),
     [Transcript(2, 3, "K1") EXCEPT !.commitments = 0]}

\* The ballot an honest voter makes for the bound election.
BoundBallot(n, votes, key) ==
    [wire |-> "ok", election |-> "e1", nullifier |-> n,
     issuer |-> "I1", signer |-> "I1", position |-> <<"m">>, votes |-> votes,
     proofs |-> [l \in DOMAIN votes |->
        [version |-> "v1", key |-> key,
         context |-> <<"e1", BoundParams.contests[l], n>>]],
     selection |-> [version |-> "v1", key |-> key,
                    context |-> <<"e1", <<"m">>, n>>]]

LegacyBallot(n) ==
    [BoundBallot(n, <<1>>, "K3") EXCEPT
        !.issuer = "I9", !.signer = "I9", !.position = << >>, !.selection = None,
        !.proofs = << [version |-> "v1", key |-> "K3",
                       context |-> <<"e1", <<"x">>, n>>] >>]

Good == BoundBallot("n1", <<1, 0>>, "K1")

MCBallotMsgs ==
    {Good, BoundBallot("n1", <<0, 1>>, "K1"), BoundBallot("n2", <<0, 1>>, "K1"),
     BoundBallot("n2", <<1, 0>>, "K2"), LegacyBallot("n1"),
     BoundBallot("n2", <<1, 1>>, "K1"),
     BoundBallot("n2", <<2, 0>>, "K1"),
     [Good EXCEPT !.wire = "decode"],
     [Good EXCEPT !.wire = "shape"],
     [Good EXCEPT !.issuer = "I2", !.signer = "I2"],
     [Good EXCEPT !.signer = "I2"],
     [Good EXCEPT !.position = << >>],
     [Good EXCEPT !.position = <<"q">>],
     [Good EXCEPT !.votes = <<1>>],
     [Good EXCEPT !.nullifier = "n2"],
     [Good EXCEPT !.proofs[2].version = "v0"],
     [Good EXCEPT !.selection = None],
     [Good EXCEPT !.selection.version = "v0"]}

Share(c, t) == [wire |-> "ok", election |-> "e1", contest |-> c, trustee |-> t]

MCPartialMsgs ==
    {Share(<<"m", "1">>, "A"), Share(<<"m", "1">>, "B"),
     Share(<<"m", "1">>, "Z"), Share(<<"x">>, "A"),
     [Share(<<"m", "1">>, "A") EXCEPT !.wire = "cp-presence"]}

Sig(t, i, key, totals) ==
    [trustee |-> t, share |-> <<key, i>>, context |-> <<"e1", totals>>]

Tally(totals, sigs) ==
    [wire |-> "ok", election |-> "e1", totals |-> totals, signatures |-> sigs]

MCTallyMsgs ==
    LET SigA == Sig("A", 1, "K1", <<1, 0>>)
        SigB == Sig("B", 2, "K1", <<1, 0>>)
    IN  {Tally(<<1, 0>>, <<SigA, SigB>>),
         Tally(<<0, 1>>, <<Sig("C", 3, "K1", <<0, 1>>), Sig("B", 2, "K1", <<0, 1>>)>>),
         Tally(<<1, 0>>, <<Sig("A", 1, "K2", <<1, 0>>), Sig("B", 2, "K2", <<1, 0>>)>>),
         Tally(<<1, 0>>, << >>),
         Tally(<<1, 0>>, <<SigA>>),
         Tally(<<1, 0>>, <<SigA, SigA>>),
         Tally(<<0, 1>>, <<SigA, SigB>>),
         Tally(<<1, 0>>, <<SigA, SigB, Sig("Z", 3, "K1", <<1, 0>>)>>),
         Tally(<<1>>, <<Sig("A", 1, "K3", <<1>>)>>)}

Symmetry == Permutations(Clients)
=============================================================================
