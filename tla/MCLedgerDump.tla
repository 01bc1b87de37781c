---------------------------- MODULE MCLedgerDump ----------------------------
(***************************************************************************)
(* Three ballots of the run, so that a page of two is followed by another  *)
(* and a batch splits a page; two ballots by others under nullifiers of    *)
(* the run, whose ciphertexts sum to what the run's own two sum to, and    *)
(* each of which alone has the same pad and other data.  Two trustees, and *)
(* both must decrypt, so that one share whose read fails is one too many.  *)
(***************************************************************************)
EXTENDS LedgerDump

MCOwn == {<<1, 10, 10>>, <<2, 20, 20>>, <<3, 30, 30>>}
MCForeign == {<<1, 10, 15>>, <<2, 20, 15>>}
=============================================================================
