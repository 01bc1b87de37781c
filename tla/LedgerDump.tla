----------------------------- MODULE LedgerDump -----------------------------
(***************************************************************************)
(* The verify phase of an on-chain run: the chain's own record is paged    *)
(* off the ledger into <run>/ledger/ (ledger_dump.go), audited, and        *)
(* compared with the console's record of the same election (executor.go,   *)
(* verify).  Transactions sent before the phase may still be in flight and *)
(* land between two pages, the deployed chaincode may predate GetBallots,  *)
(* every read may fail, and the console may be killed half way.            *)
(*                                                                         *)
(* A nullifier is its rank in the chain's key order.  A ballot is its      *)
(* nullifier and the two components of its ciphertext, pad and data, as    *)
(* integers: all that is done with group elements here is to add them.     *)
(* There is one contest.  A page is the set of its nullifiers, read in     *)
(* that order.  A file is modelled by how many of its lines hold each      *)
(* ballot; an empty ledger directory is not told from a missing one.       *)
(***************************************************************************)
EXTENDS Integers, FiniteSets, FiniteSetsExt

CONSTANTS
    Own,               \* the ballots of the run's own ballots file
    Foreign,           \* ballots another holder of a credential may cast
    nullifierPageSize, \* nullifiers asked for in one page
    BallotBatchSize,   \* ballots asked for in one GetBallots
    Trustees,          \* trustees of the election
    Threshold,         \* shares that decrypt the aggregate
    MaxCrashes         \* bound: kills of the console

Ballots == Own \cup Foreign
nul(b)  == b[1]
pad(b)  == b[2]
data(b) == b[3]

ASSUME LedgerDumpAssumption ==
    /\ IsFiniteSet(Ballots)
    /\ \A b \in Ballots : /\ nul(b) \in 1 .. Cardinality(Ballots)
                          /\ pad(b) \in Int /\ data(b) \in Int
    /\ \A b, c \in Own : nul(b) = nul(c) => b = c
    /\ nullifierPageSize \in Nat \ {0} /\ BallotBatchSize \in Nat \ {0}
    /\ IsFiniteSet(Trustees) /\ Threshold \in 1 .. Cardinality(Trustees)

VARIABLES
    chain,    \* ballots, status, shares and tally the ledger holds
    flight,   \* transactions sent and not yet ordered
    deployed, \* whether the deployed chaincode has GetBallots
    pc,       \* where the verify phase is
    dump,     \* dumpLedgerBallots' locals
    dir,      \* <run>/ledger/: the ballots on its lines and its header
    lc,       \* the ledgerCheck threaded through verify
    csv,      \* the ledger's rows and columns of correctness.csv
    crashes

dumpVars == <<chain, flight, deployed, pc, dump, dir, lc, csv, crashes>>

Ranks    == {nul(b) : b \in Ballots}
Files    == [Ballots -> Nat]
fileOf(S) == [b \in Ballots |-> IF b \in S THEN 1 ELSE 0]   \* each ballot on a line

NoHeader == [n |-> -1, voters |-> -1, shares |-> {}]
NoDir    == [lines |-> fileOf({}), header |-> NoHeader]

\* What an audit shows of the aggregate: a sum, or nothing ("") for want of shares.
NoEvidence == {}
NoCheck  == [status |-> "no chain", aggregate |-> NoEvidence, matches |-> ""]
NotRun   == [status |-> "not run", aggregate |-> NoEvidence, matches |-> ""]
Walk     == [bookmark |-> 0, rest |-> {}, next |-> 0, batched |-> TRUE,
             out |-> fileOf({}), n |-> 0]

Tx == [tx : {"close", "tally"}] \cup [tx : {"ballot"}, ballot : Ballots]
        \cup [tx : {"share"}, trustee : Trustees]
Chains == [ballots : SUBSET Ballots, status : {"open", "closed"},
           shares : SUBSET Trustees, tally : BOOLEAN]

DumpTypeOK ==
    /\ chain \in Chains
    /\ flight \subseteq Tx
    /\ pc \in {"idle", "list", "fetch", "header", "auditLedger", "audit", "compare"}
    /\ dump \in [bookmark : Nat, rest : SUBSET Ranks, next : Nat, batched : BOOLEAN,
                 out : Files, n : Nat]
    /\ dir.lines \in Files /\ dir.header.n \in Nat \cup {-1}
    /\ {lc.status, csv.status} \subseteq {"no chain", "not run", "ok"}
    /\ {lc.matches, csv.matches} \subseteq {"", "true", "false"}

-----------------------------------------------------------------------------
(***************************************************************************)
(* The chain as the readers see it.                                        *)
(***************************************************************************)
Nullifiers == {nul(b) : b \in chain.ballots}
End == 1 + Cardinality(Ballots)   \* a bookmark past the last key

\* GetBallot and GetBallots.
ballotsOf(keys) == {b \in chain.ballots : nul(b) \in keys}

\* The first n of a set of keys.
First(S, n) == {k \in S : Cardinality({j \in S : j < k}) < n}

From(bookmark) == {k \in Nullifiers : k >= bookmark}
ListNullifiers(bookmark) == First(From(bookmark), nullifierPageSize)

\* The peer's bookmark is the first key it did not return.  After the last key
\* it is empty (0), or on a state database that always gives one, a bookmark
\* past the end or the one it was given.
NextBookmarks(bookmark) ==
    LET left == From(bookmark) \ ListNullifiers(bookmark)
    IN  IF left # {} THEN {k \in left : \A j \in left : k <= j} ELSE {0, bookmark, End}

-----------------------------------------------------------------------------
(***************************************************************************)
(* What the console and others sent before: the contract accepted it at    *)
(* its endorsement, and looks again when it lands.  A transaction whose    *)
(* client gave up is still ordered.  Ballots and the close are sent by     *)
(* the submit phase, the shares and the tally by the ceremony: the run's   *)
(* claim keeps both out of a verify phase.                                 *)
(***************************************************************************)
Send(t) ==
    /\ t \notin flight
    /\ \/ /\ t.tx = "ballot" /\ (t.ballot \in Foreign \/ pc = "idle")
          /\ chain.status = "open" /\ nul(t.ballot) \notin Nullifiers
       \/ t.tx = "close" /\ pc = "idle" /\ chain.status = "open"
       \/ t.tx = "share" /\ pc = "idle" /\ chain.status = "closed" /\ t.trustee \notin chain.shares
       \/ /\ t.tx = "tally" /\ pc = "idle" /\ chain.status = "closed" /\ ~ chain.tally
          /\ Cardinality(chain.shares) >= Threshold
    /\ flight' = flight \cup {t}
    /\ UNCHANGED <<chain, deployed, pc, dump, dir, lc, csv, crashes>>

Land(t) ==
    /\ t \in flight
    /\ flight' = flight \ {t}
    /\ chain' =
         CASE t.tx = "ballot" ->
                IF chain.status = "open" /\ nul(t.ballot) \notin Nullifiers
                THEN [chain EXCEPT !.ballots = @ \cup {t.ballot}] ELSE chain
           [] t.tx = "close" -> [chain EXCEPT !.status = "closed"]
           [] t.tx = "share" -> [chain EXCEPT !.shares = @ \cup {t.trustee}]
           [] t.tx = "tally" -> [chain EXCEPT !.tally = TRUE]
    /\ UNCHANGED <<deployed, pc, dump, dir, lc, csv, crashes>>

-----------------------------------------------------------------------------
(***************************************************************************)
(* The dump.                                                               *)
(***************************************************************************)
\* Verify connects, and dumps the ledger first; without a network there is no
\* ledger audit at all.
Verify(connected) ==
    /\ pc = "idle"
    /\ lc' = NoCheck
    /\ IF connected
       THEN /\ pc' = "list" /\ dump' = Walk
            /\ dir' = [dir EXCEPT !.lines = fileOf({})]    \* os.Create truncates
       ELSE pc' = "audit" /\ UNCHANGED <<dump, dir>>
    /\ UNCHANGED <<chain, flight, deployed, csv, crashes>>

\* Any failure of the dump removes the directory.
dumpFails ==
    /\ dir' = NoDir /\ lc' = NotRun /\ pc' = "audit" /\ dump' = Walk
    /\ UNCHANGED <<chain, flight, deployed, csv, crashes>>

ReadPage ==
    /\ pc = "list"
    /\ \E next \in NextBookmarks(dump.bookmark) :
         dump' = [dump EXCEPT !.rest = ListNullifiers(dump.bookmark), !.next = next]
    /\ pc' = "fetch"
    /\ UNCHANGED <<chain, flight, deployed, dir, lc, csv, crashes>>

ReadFails == pc \in {"list", "fetch", "header"} /\ dumpFails

\* The page's ballots, a batch at a time, or all that is left of the page one by
\* one.  A chaincode without GetBallots moves the dump to the second path.
chunk == IF dump.batched THEN First(dump.rest, BallotBatchSize) ELSE dump.rest

FallBack ==
    /\ pc = "fetch" /\ dump.rest # {} /\ dump.batched /\ ~ deployed
    /\ dump' = [dump EXCEPT !.batched = FALSE]
    /\ UNCHANGED <<chain, flight, deployed, pc, dir, lc, csv, crashes>>

Fetch ==
    /\ pc = "fetch" /\ dump.rest # {} /\ (dump.batched => deployed)
    /\ dump' = [dump EXCEPT
         !.out = [b \in Ballots |-> @[b] + fileOf(ballotsOf(chunk))[b]],
         !.n = @ + Cardinality(chunk),
         !.rest = @ \ chunk]
    /\ UNCHANGED <<chain, flight, deployed, pc, dir, lc, csv, crashes>>

walkOver_EmptyOnly == dump.next = 0
walkOver == dump.next = 0 \/ dump.next = dump.bookmark

\* The walk goes on from the next bookmark, or the file is flushed.
PageEnds ==
    /\ pc = "fetch" /\ dump.rest = {}
    /\ IF walkOver
       THEN pc' = "header" /\ dir' = [dir EXCEPT !.lines = dump.out] /\ UNCHANGED dump
       ELSE pc' = "list" /\ dump' = [dump EXCEPT !.bookmark = dump.next] /\ UNCHANGED dir
    /\ UNCHANGED <<chain, flight, deployed, lc, csv, crashes>>

ledgerVoterIDs_Roster(n) == Cardinality(Own)
ledgerVoterIDs(n) == LET kept == IF Cardinality(Own) < n THEN Cardinality(Own) ELSE n
                     IN  kept + (n - kept)

headerReady_Always == TRUE
headerReady == chain.tally   \* GetTally fails before there is one

\* Every trustee is asked for; one whose read fails, for whatever reason, is skipped
\* as one whose share is not there.
chainPartials == SUBSET chain.shares

writeLedgerHeader ==
    /\ pc = "header"
    /\ IF headerReady
       THEN /\ \E shares \in chainPartials : dir' = [dir EXCEPT !.header =
                  [n |-> dump.n, voters |-> ledgerVoterIDs(dump.n), shares |-> shares]]
            /\ pc' = "auditLedger"
            /\ UNCHANGED <<chain, flight, deployed, dump, lc, csv, crashes>>
       ELSE dumpFails

-----------------------------------------------------------------------------
(***************************************************************************)
(* The audits and the comparison.                                          *)
(***************************************************************************)
\* The homomorphic sums over a file.
padSum(lines)  == MapThenSumSet(LAMBDA b : lines[b] * pad(b), Ballots)
dataSum(lines) == MapThenSumSet(LAMBDA b : lines[b] * data(b), Ballots)

\* audit-stream: the shares, which the trustees made for the run's own ballots, verify
\* against the pads of the file; with fewer than a threshold of verified ones there is
\* no evidence, and the aggregate is left empty.
auditStream(lines, shares) ==
    IF padSum(lines) = padSum(fileOf(Own)) /\ Cardinality(shares) >= Threshold
    THEN {dataSum(lines)} ELSE NoEvidence

\* audit-stream over the dump: a result, or output that does not parse.
auditLedger(parsed) ==
    /\ pc = "auditLedger"
    /\ lc' = IF parsed
             THEN [status |-> "ok", matches |-> "",
                   aggregate |-> auditStream(dir.lines, dir.header.shares)]
             ELSE NotRun
    /\ pc' = "audit"
    /\ UNCHANGED <<chain, flight, deployed, dump, dir, csv, crashes>>

\* audit-stream over the run's own directory; a crash of it ends the phase
\* before correctness.csv is written.
auditRun(parsed) ==
    /\ pc = "audit"
    /\ pc' = IF parsed THEN "compare" ELSE "idle"
    /\ UNCHANGED <<chain, flight, deployed, dump, dir, lc, csv, crashes>>

\* A sum of hashes: what it keeps of a file is how often each nullifier is in it.
nullifierSetDigest(lines) ==
    [k \in Ranks |->
        Cardinality(UNION {{b} \X (1 .. lines[b]) : b \in {c \in Ballots : nul(c) = k}})]

\* Two audits have the same digest of their aggregates.
sameAggregates(local, ledger) == local = ledger

\* The run's own header holds every trustee's share.
localAggregate == auditStream(fileOf(Own), Trustees)

compareLedger_NullifiersOnly ==
    nullifierSetDigest(fileOf(Own)) = nullifierSetDigest(dir.lines)
compareLedger ==
    /\ nullifierSetDigest(fileOf(Own)) = nullifierSetDigest(dir.lines)
    /\ sameAggregates(localAggregate, lc.aggregate)

recordLedgerVerdict(readable) ==
    CASE lc.status # "ok" -> lc
      [] lc.status = "ok" /\ ~ readable -> NotRun
      [] OTHER -> [lc EXCEPT !.matches = IF compareLedger THEN "true" ELSE "false"]

WriteCorrectness(readable) ==
    /\ pc = "compare"
    /\ lc' = recordLedgerVerdict(readable)
    /\ csv' = lc'
    /\ pc' = "idle"
    /\ UNCHANGED <<chain, flight, deployed, dump, dir, crashes>>

\* A kill leaves of the ballots file what the buffered writer had flushed.
Crash ==
    /\ pc # "idle" /\ crashes < MaxCrashes
    /\ crashes' = crashes + 1
    /\ pc' = "idle"
    /\ dir' \in IF pc \in {"list", "fetch"}
                THEN {[dir EXCEPT !.lines = [b \in Ballots |-> IF nul(b) < k THEN dump.out[b] ELSE 0]]
                        : k \in 1 .. End}
                ELSE {dir}
    /\ dump' = Walk /\ lc' = NoCheck
    /\ UNCHANGED <<chain, flight, deployed, csv>>

-----------------------------------------------------------------------------
DumpInit ==
    /\ chain = [ballots |-> {}, status |-> "open", shares |-> {}, tally |-> FALSE]
    /\ flight = {}
    /\ deployed \in BOOLEAN
    /\ pc = "idle" /\ dump = Walk /\ dir = NoDir
    /\ lc = NoCheck /\ csv = NoCheck
    /\ crashes = 0

Progress ==
    \/ ReadPage \/ FallBack \/ Fetch \/ PageEnds \/ writeLedgerHeader
    \/ auditLedger(TRUE) \/ auditRun(TRUE) \/ WriteCorrectness(TRUE)

DumpNext ==
    \/ \E t \in Tx : Send(t) \/ Land(t)
    \/ \E connected \in BOOLEAN : Verify(connected)
    \/ Progress
    \/ ReadFails
    \/ auditLedger(FALSE) \/ auditRun(FALSE) \/ WriteCorrectness(FALSE)
    \/ Crash

DumpSpec == DumpInit /\ [][DumpNext]_dumpVars

\* Reads answer and the auditor returns: every step of the phase is taken.
DumpFairSpec == DumpSpec /\ WF_dumpVars(Progress)

-----------------------------------------------------------------------------
(***************************************************************************)
(* Properties.                                                             *)
(***************************************************************************)
\* ledger_dump.go, dumpLedger: a dump that gets as far as its audit is the whole
\* ledger, each ballot once, under a header that counts it, although ballots and
\* the close were landing while earlier pages were being read: the header needs a
\* tally, a tally needs the election closed, and the claim keeps the ceremony out.
\* Of the shares it may hold fewer than the chain, never others (chainPartials).
DumpIsWholeLedger ==
    pc = "auditLedger" =>
        /\ dir.lines = fileOf(chain.ballots)
        /\ dir.header.n = Cardinality(chain.ballots)
        /\ dir.header.voters = Cardinality(chain.ballots)
        /\ dir.header.shares \subseteq chain.shares

\* With the type invariant.
DumpInv == DumpTypeOK /\ DumpIsWholeLedger

\* The chain holds the run's nullifiers and the same sums of ciphertexts: all that the
\* comparison can tell of two elections.  Which ciphertext came under which nullifier
\* it cannot.
SameNullifiers == Nullifiers = {nul(b) : b \in Own}
SamePads == padSum(fileOf(chain.ballots)) = padSum(fileOf(Own))
SameData == dataSum(fileOf(chain.ballots)) = dataSum(fileOf(Own))

\* executor.go, recordLedgerVerdict: what correctness.csv says of the chain, whatever
\* failed, was killed, was skipped or was read by the older path before.  A match means
\* that the chain holds the run's nullifiers and sums.  A mismatch means that it holds
\* others, unless the ledger's own row shows no aggregate, as it does when too few
\* shares were read: the file then shows that the chain was not decrypted at all.
VerdictIsTrueOfChain ==
    /\ csv.matches = "true" => SameNullifiers /\ SamePads /\ SameData
    /\ csv.matches = "false" /\ csv.aggregate # NoEvidence => ~ (SameNullifiers /\ SameData)
    /\ csv.status = "ok" <=> csv.matches # ""

\* Violated by a share whose read fails.  "A read failure aborts the dump on the spot: a
\* partial ledger directory audited as if it were complete would report a false mismatch"
\* (ledger_dump.go, dumpLedger).
NoFalseMismatch == csv.matches = "false" => chain.ballots # Own

\* Violated by two ballots whose ciphertexts are changed for others of the same sum.
\* "whether the chain holds the same ballots" (executor.go, recordLedgerVerdict).
MatchIsSameBallots == csv.matches = "true" => chain.ballots = Own

\* ledger_dump.go, dumpLedgerBallots: the walk ends, also on a chain whose last
\* bookmark is never empty.
DumpEnds == pc = "list" ~> pc \in {"header", "idle", "audit"}
=============================================================================
