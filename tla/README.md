# A TLA+ verification of saksi

Saksi is an end-to-end verifiable election system.  Its bulletin board is a
Hyperledger Fabric chaincode; a Go console (`saksi-campaign`) drives whole
elections against it, measures them, survives interruptions and passes judgement
on each run; a Rust auditor re-verifies everything from the board.

This directory holds TLA+ models of that code, the TLC runs that check them on
small instances, and TLAPS proofs for every instance.  Definitions keep the
source's names; `PROJECT.json` maps each one to its lines.

## 1. Inventory

| Component | State | Operations | Hard because |
|---|---|---|---|
| chaincode (`saksi-bulletin/chaincode`) | per election: parameters, DKG transcript, status, ballots, spent nullifiers, partial decryptions, tally | `CreateElection`, `PublishDKGTranscript`, `SubmitBallot`, `CloseElection`, `SubmitPartialDecryption`, `PublishTally`, queries | a transaction checks one state and takes effect in a later one |
| client SDK (`client-sdk`) | connection | endorse, submit, wait for the commit status | an answer can be lost after the commit |
| bench driver (`client-sdk/bench`) | indices dispatched, outcome per index | `Run`, `Reconcile` | workers finish out of order; a deadline or cancellation stops dispatch, not the submissions in flight |
| journal (`journal.go`) | file, bounded progress queue, sticky error, coalesced count | `Stamp`, `stampProgress`, `writeProgress`, `await`, `Close`, `Finalise` | three goroutines, one file, drop-oldest at the limit, failures off the stamping goroutine |
| run and resume (`executor.go`) | journal, `submit-metrics.json`, receipts, `ceremony.json`, the chain | `Submit`, `CeremonyStart`, `Resume`, `Verify` | kills at any step, cancellations, lost answers, partial writes |
| ceremony (`ceremony.go`) | `ceremony.json`, submission in progress | start, submit a trustee's shares, publish, status | a cache beside the chain; retried and partial submissions |
| server (`server.go`, `jobs.go`, `reset.go`) | claims per run, the exclusive job, the cached chain connection | claim, finish, claimAlone, cancel, resume, jobs, reset | check-then-claim between handlers |
| fault injection (`fault.go`) | armed plan, stopped peer | arm, fire, stop, restore | a peer that must come back however the window ends |
| attack pauses (`timeline.go`) | decision queue, deadline, closed flag | pause, decide, time out, cancel | decisions racing the end of the pause |
| ballot reader (`ballots.go`) | scan position, lines parked ahead | `At` | callers out of order |
| receipts (`receipts.go`) | shared writer with a reference count | open, append, close | shared by concurrent steps |
| ledger dump (`ledger_dump.go`) | dump folder | page, fall back, compare | bookmarks, half-written dumps |
| login (`auth.go`) | sessions, failure records per address and user | attempt, settle, lookup, prune | reservations of concurrent attempts |
| event hub (`sse.go`) | subscribers and their buffers | subscribe, publish, cancel | slow or leaving subscribers |
| repetitions (`repeat.go`, `campaign.go`, `internal.go`) | `campaign.json`, `ladder.json`, the repetition in progress | run a repetition, campaign, sweep, ladder, cancel | an operator may touch the same runs; stopping rules, cancellation, restarts |
| auditor (`saksi-auditor`) | none (pure) | audit, canvass, aggregate precincts, decode tallies | what it accepts must be what the board promises |
| crypto, credentials | keys, transcripts | DKG, proofs, blind issuance, presentation | arithmetic |
| demo CLI, FFI, protocol, web pages, scripts | none | conversions and front ends | |

**Interactions.**  The console's executor calls the chaincode through the client
SDK.  Inside a window the bench driver's workers submit ballots concurrently and
its dispatcher stamps progress into the journal.  A resume, possibly in another
process, learns what happened from the journal and the chain; verify learns it
from the journal and `submit-metrics.json`.  The auditor reads the run folder, or
a dump of the chain.

**What makes each part correct.**  The board: it behaves like an atomic,
append-only object with the contract's rules, and what it records re-verifies.
The journal: what is in the file is in order and accounts for what is missing; no
caller is held up for ever, and the dispatcher not at all.  The run: no ballot is
shut out of a closed election, verdicts and counters are true, an interrupted run
can be finished.  The ceremony: a tally published carries exactly the trustees
whose shares are on the chain.  The server: one phase per run, one exclusive job.
The pauses: an accepted decision is acted on, and an attack on the live election
changes nothing there and is refused by the gate it was written for.  Campaigns:
what they report of their runs is what those runs did.  The dump: what is audited
is the whole ledger.  The login: overlapping requests cannot outrun the limits.
The auditor: it accepts a run iff its reference definition does.

The hazards, each at its line, are in `PROJECT.json`.

## 2. Plan

In order of importance.  Parts 1 to 8 are built.

1. **Board**: `BulletinBoard` (abstract), `Bulletin` (endorse, order, validate),
   `BulletinBoardProofs`, `BulletinProofs`.
2. **Journal**: `Journal`, `JournalProofs`.
3. **One run**: `BallotRun`, over an atomic board, and `BallotRunProofs`.
4. **Ceremony**: `Ceremony`, the start, submit, publish and status over the chain
   and `ceremony.json`, and `CeremonyProofs`.
5. **Server and fault**: `Console`, run claims, exclusive jobs, the reset and the
   peer fault, which compete for one network, and `ConsoleProofs`.
6. **Attacks**: `AttackWindow`, the paused window with the bench driver's workers,
   the ballot reader and the contract's gates (an instance of `Chaincode`), and
   `AttackWindowProofs`.
7. **Campaigns**: `Campaign`, `CampaignProofs`.
8. **Verify against the chain**: `LedgerDump`, proved about in `BulletinProofs`, beside
   the ledger it reads; and **login**: `Login`, proved about in `ConsoleProofs`.

The code is a campaign console around one chaincode; what is left of it (section 6)
is sequential, pure or arithmetic.

## 3. The modules

### Board

`BulletinMessages` declares the messages (parameters, transcripts, ballots,
shares, tallies) as constants with the facts about them that the code reads.
`Chaincode` states, operation by operation, when the contract accepts: the gates
of `SubmitBallot` in the code's order, the election key derived from the
transcript, the proofs as statements about the key, context and value they were
made for, the tally's signatures counted per distinct trustee.

`BulletinBoard` is the abstract specification: one atomic step per operation,
guarded by admission rules that are a parameter.  `Bulletin` is the real thing: a
client endorses (reads keys with their versions, checks, computes writes), the
transaction waits, other transactions commit, and at its turn it is valid iff
every version it read is still current.  The read sets are those the code makes,
key by key: that is what the refinement depends on.

### Journal

One window's journal: the dispatcher in `stampProgress` (load the coalesced count,
try to send, pop the oldest, send again, each a separate step), other goroutines
in `Stamp`, the writer goroutine in `writeProgress`, a racing `Close`, and write
or sync failures.  `stamped` and `owed` are history for the properties: the progress
events stamped by all dispatchers, and what a `Stamp` found handed over and not yet
written.

### One run

`BallotRun` models one on-chain run of N ballots.  The journal appears as what its
readers fold out of it: one operator per event, in the words of `planResume`,
`segmentsFromJournal` and `ballotStageErr`.  `pc` is the console's place in the
current phase; each journal stamp, file write and chain call is a step, so a kill
can fall between any two.  A submission ends in a commit, a refusal, a lost answer
(the ballot stays on `wire`, to land later or never) or an unreadable line.
`past` is history for the properties only.

### Ceremony

`Ceremony` models the trustee ceremony of one run, on-chain or local (`OnChain`).
A goroutine is an HTTP handler or the run's one active phase; `at` is its place
and `loc` its locals.  `CeremonyStatus` is the steps `readCeremony`, `StatFile`,
`ProbeTrustee` (once per trustee not yet recorded) and `ProbeTally`, shared by
polls, by the handlers that ask before they act, and by the publish phase.  Every
writer of `ceremony.json` takes `ceremonyMu` and reads the file (`LockFile`),
truncates it (`TruncateFile`) and writes it (`PutFile`); readers take no lock, so a
poll may find the file empty.  `CeremonySubmit` is `ProbeShare` and `SendShare` per
contest, then `SharesDone`; `CeremonyPublish` is a status of its own,
`CheckThreshold` and `PublishTally`.  A call to the chain succeeds, is refused, or
loses its answer, and then its transaction stays on `wire` and may commit any time
later.  `Kill` may fall between any two steps and leaves a file being rewritten
torn.  A read of `ceremony.json` that fails is, to `readCeremony`, a file that is not
there: a rewrite behind it starts from nothing.  `bundle.json` is created and then
filled (`StartBundle`, `FillBundle`); one whose writing was cut short is taken for the
run's bundle by every later start, and no submit can read it.  On the chain such a start
fails before the close; the local one still records itself as ready, and then never
completes (`LocalStartIsReady`, section 4).  `CeremonyCompletes` is therefore stated over
a bundle that was written to its end (`Bundled`).  Shares may also be recorded by others (`SubmitElsewhere`): the bundle's own
by the run's `Submit`, different ones by an attack scenario.

The election's set-up before the close is one step here, because `BallotRun` has
it in detail.  What the page is sent is abstracted to who is listed, published and
ready.

### Console

`Console` is the state the handlers share: `busy` (one phase per run), the job
board's slot, the cached chain connection, and the peer fault.  A handler decides
its refusals on a record it read earlier and then claims under `s.mu`; a claiming
step therefore takes what was read from any earlier moment.  A phase is its ballot
window here (`win`): `OpenWindow`, its end, the wait for its fault, the release.
The fault is the steps of `peerFault`: armed, the two reads of `faultGate` (`GateJobs`
and the busy runs, two critical sections), `Fire`, the stop, `StartPeer` (attempted once),
`PeerReady`.  A job is a reset, with its script and the connection it drops, or a
measurement.  `Exit` stops the console at any step.

### Campaign

`Campaign` is the job's goroutine driving repetitions: `/generate`, phase after phase
until the run is idle, ceremony, verify, `CollectPerf` and `CollectJournal`, then the
next repetition, sweep step or ladder tier.  `rows` and `file` are `campaign.json` in
memory and on disk, saved as each repetition starts (`Generate`) and ends (`endRep`) and
in `EndJob`, which saves and frees the slot in one critical section.  Beside it an
operator may run a phase on the same run (`OperatorPhase`; what it touched is
`meddled`), cancel, and read; the console may stop and come back as the same or as
another build.  The summary's writing may fail, and then the job does.  `FiguresTrue`
leaves out the meddled runs: the code does not guard against a phase between a run's
verify and the reading of its files, and what was collected of such a run may be of two
moments.

### Attack window

`AttackWindow` is one security run.  `Registry` is the scenario table reduced to the
stage of an attack, the gate it is meant for and what it tampers with; `mountBallotLive`
puts that ballot through `Chaincode`'s gates.  The window is two `bench.Run` halves over
`Workers`, which share a `ballotReader` (`At`), joined by `joinWindows`.  A pause is
`pauseForAttacks`: `DecidePause` queues, `Timeout`, cancellation and `MountNext` race.
What a pause has still to mount is a set (`todo`), taken in the catalogue's order
(`Foremost`); `rest` says that it is the remainder of the stage (`RunRest`), which a
cancellation cuts short, and not one attack the operator asked for.  `legacy` elections
carry no issuer key, so that the issuer and selection gates do not exist there.  The save of
a verdict may fail or be cut short (`saveScenarioResult`); the pause reports that and
goes on with the attack marked as run.  `store` says whether `scenarios.json` is whole,
misses a verdict, or is torn, after which no save succeeds any more.  `PauseHonoured` is
stated over what the pause ran (`pause.ran`), and over the saved rows only while the
file is whole; `StagedVerdictKept` only of a file that is not torn.  Of `At` the errors for
a missing or unreadable line are left out: `validateBallots` has read the whole file before
the window opens, and here every line of it is wanted.

### Login

`Login` keeps both failure maps of `auth.go` with ages and lockouts in ticks.  A
login is `attempt` (reserve in both counters), the password check, `settle`, and
the creation of a session, each under the mutex and interleaved with others.  A
password check takes less than a lockout.  `ipWrong` and
`userWrong` are history: how many wrong passwords were let through less than t ticks
ago, for every t up to a lockout.  The bound on wrong passwords per address
is two limits (one in the record before it lapses, one after) and the requests in
flight, because a login whose check outlives the record it reserved in hands back a
reservation of the next one; per name it is two limits.  `Authorize` is the check of a
request from outside on a console with logins: calls the console makes to itself and a
console started without logins need no session, and `ServedUnderLiveSession` does not
speak of them.

### Ledger dump

`LedgerDump` is the verify phase of an on-chain run: pages of nullifiers, ballots in
batches or, on a contract without `GetBallots`, one by one, the header, the audit of the
dump, the comparison with the run's own ballots, the verdict in `correctness.csv`.  A
page is the set of the next keys after its bookmark, and a file is how often it holds
each ballot: the walk's order is the keys' order, and the comparison's digests do not
depend on the order of lines.  Ballots, the close, shares and the tally sent earlier land
in between, reads fail, the console is killed.

A ballot is its nullifier and the two components of its ciphertext, as integers, because
what the audit does with them is add them up.  The comparison is of the set of
nullifiers and of one number per audit, the sum of the data components; the sum of the
pads enters because shares are verified against it.  `chainPartials` skips a share whose
read fails, for whatever reason; with fewer than a threshold left the audit has no
evidence and its aggregate is empty.  So a "true" says that nullifiers and both sums
agree, not which ciphertext came under which nullifier (`MatchIsSameBallots`), and a
"false" beside an empty aggregate says nothing of the ballots (`NoFalseMismatch`);
`VerdictIsTrueOfChain` is what remains, and the two stronger claims are among the
disagreements of section 4.
A ballot cast by somebody else under a
nullifier of the run is what the comparison is for.  Two things the model shows besides:
a kill in mid-dump leaves an earlier header beside a truncated ballots file until the
next verify, and an audit that crashed leaves its directory although the status says
"not run".

## 4. The runs

| Run | Instance | Shows |
|---|---|---|
| `bulletin` | 2 clients, every operation, messages that pass and fail each gate | the ledger implements the board; its promises; losers learn why |
| `journal` | queue of 1, two goroutines stamping 3 progress lines, one other stamper, failures, Close | order, accounting, no dispatcher waits, every call returns |
| `ballot_run` | 2 ballots, 2 workers, 6 configurations, 2 faults, fair | no ballot shut out, true verdicts and counters, distinct segments, an interrupted run is finished |
| `nothing_submitted` | the same with 1 fault | a disagreement, below |
| `ceremony` | on-chain, 2 trustees of 2 shares, 1 handler beside the phase, threshold 1, 1 fault, 2 shares recorded elsewhere | the record, the status and the tally claim no more than the chain holds; nothing recorded is lost; nobody is ready before the close |
| `ceremony_offline` | local, threshold 2 of 3, 2 faults, fair | the console's own gate: never below the threshold, and over a whole bundle it completes |
| `ceremony_live` | on-chain, threshold 2, 2 faults, fair | a closed election's tally gets published |
| `console` | 2 runs, every request, job and fault step, fair | jobs, phases, resets and faults exclude each other, a fault hits its own window only, a resume opens no second window, connections are fresh, nothing hangs |
| `campaign` | 1 warm-up, 1 repetition, a sweep of 2, a ladder of 2 tiers, 2 jobs, 1 meddled run, 1 stop, fair | true interruptions, rows, summaries and plateaus; cancellation between repetitions, which frees the slot; large tiers need this build's ladder |
| `attack_window` | 4 ballots, pause at half, 2 workers, 3 decisions, 1 fault (a lost submission or save), 1 re-run, fair | live attacks change nothing and meet their gate; parked lines; joined halves; decisions kept; the run ends |
| `login` | 1 address, 2 names, 3 overlapping requests, limits 2 and 3 | limits hold; right passwords lock neither an address nor a name out |
| `ledger_dump` | 3 ballots and 2 foreign ones of the same sums, 2 trustees who must both decrypt, pages of 2, batches of 1, 1 kill, fair | an audited dump holds the whole ledger; the verdict says no more than is true; the walk ends |

Most invariants are conjunctions of named parts, one of which is the module's type
invariant (`RecordComplete`, `RunRecordTrue`, `StatusTrue`, `Exclusion`, ...); the parts are
commented where they are defined.

**Bounds.**  Two clients are enough for a check and a conflicting commit, and the
message sets hold, for each gate, one message only that gate refuses.  A queue of one
overflows with the second line, and the third races for the slot that is freed.  In
`BallotRun` two ballots distinguish none, some and all, and each fault of interest
(`MaxFaults`) is a kill, cancellation, lost answer, broken journal or I/O error: two
allow a first interruption and a second one in the resume.  Resumes and verifies are
unbounded.  The checkpoint of every thousandth ballot is one that may come after any
ballot.  In `Ceremony` two contests make a trustee's submission partial, two trustees
leave one out of the tally, and one handler beside the phase is enough for a poll, or
another operation's status, to race the phase's rewrite.  In `Console` two runs are a
faulted one and the other that it must not meet; requests are unbounded.  In `Campaign`
two jobs let a campaign follow a ladder, and one stop brings another build.  In
`AttackWindow` two workers ask for lines out of order, two ballots in each half
distinguish none, some and all, and three decisions queue behind one another. In `Login`
the third request meets limits that the first two have reserved.  In `LedgerDump` three
ballots make a second page, a batch of one splits a page, the two foreign ballots differ
from the run's own one by one and not in their sums, and with both trustees needed one
skipped share is one too many.

**Fairness.**  `Journal`: each goroutine that can step does, and disk operations
return; `DispatchNeverWaits` needs none of it, as it says that a step is enabled.
`BallotRun`: the console's own steps are weakly fair, as goroutines are; `Resume`
is strongly fair, which is the operator who keeps resuming.  `Ceremony`: the phase
and the handlers are weakly fair; each trustee's submit and the publish are
requested strongly fairly while no phase runs, by an operator (`Patient`) who waits
for the page to show the run idle before asking for the next operation, as the page
makes them do.  It is one operator: two could take the run from each other for ever.
`Console`: the goroutines of phases and faults; no operator, job or script
is made to act.  `Campaign`: the driver, and phases end by the console's timeout; the
ceremony's loop over finitely many trustees is left (strong fairness).
`AttackWindow`: workers return, because chain calls have deadlines, and the
lifecycle runs, its pause's timer included; the operator owes nothing.  `LedgerDump`: reads
answer, with a result or an error, and the auditor returns.
Nothing is assumed of
the network, of kills or of lost answers, except that their number is bounded.

**Disagreements found.**

* `nothing_submitted`: a kill inside the first window leaves no
  `submit-metrics.json`, and no later step writes one.  Every verify then records
  "nothing submitted", also when a resume has put all ballots on the chain.

Nine more properties state what a comment says and are refuted by TLC when they are added to
the named configuration; they are the definitions marked "Violated":

* `CloseIsRetryable` (`BallotRun.cfg`): a resume cancelled in the close stage's pause
  has closed the election and written the receipt; the operator is told to resume
  again, and that is refused (`executor.go:1433`, `executor.go:1394`).
* `RemainingCovers` (`BallotRun.cfg`): the estimate for a run killed early in a resumed
  window uses an earlier window's checkpoint (`executor.go:1794`).
* `OnlyACloseCreatesTheRecord` (`Ceremony.cfg`): publishing a tally that the chain alone
  unlocked creates `ceremony.json`, which two comments say only a recorded close
  does (`ceremony.go:883`).
* `FaultAlone` (`Console.cfg`): `faultGate` looks at the job slot and then at the busy
  runs, and the peer is stopped after it let go of the lock: a phase claimed in
  between, also on another run, meets the outage.  Its comment says the fault is
  refused while anything else uses the network (`fault.go:209`).
* `LadderShutAfterFailure` (`Campaign.cfg`): "A single failing tier leaves no
  ladder.json" (`repeat.go:711`) is true of that ladder only; one an earlier ladder
  of the same build wrote stays and keeps the gate open.
* `NeverAcceptedThenDropped` (`AttackWindow.cfg`): a decision accepted just before the
  run is cancelled is dropped (`timeline.go:279`), where the comment at
  `timeline.go:100` says it cannot be.

* `LocalStartIsReady` (`CeremonyOffline.cfg`): "local ceremony ready" (`ceremony.go:327`) is
  also said, and recorded, over a `bundle.json` whose first writing was cut short; every
  submit then fails to parse it, and no later start writes it again.
* `NoFalseMismatch` (`LedgerDump.cfg`): the comment of `dumpLedger` says a read failure aborts
  the dump, because a partial one would report a false mismatch; a failed read of a
  share does not abort it (`ledger_dump.go:312`), and the mismatch is reported.
* `MatchIsSameBallots` (`LedgerDump.cfg`): "whether the chain holds the same ballots"
  (`executor.go:498`) is decided from nullifiers and sums; ciphertexts exchanged for
  others of the same sum are not noticed.

One further case is outside `VerdictSound`, and said so there: a time-bounded run
whose journal breaks and which is killed before the error is recorded.

## 5. The proofs

`BulletinBoardProofs` proves, for every set of sound admission rules, that the
atomic board keeps its safety invariant and only grows.

`BulletinProofs` proves that `Bulletin` implements `BulletinBoard` and inherits
those facts, for any number of clients and any messages satisfying
`MessagesAssumption`.  The inductive invariant is `SerialInv`: each waiting
transaction was accepted on the values it read, and a key whose version has not
moved since still has the value read then.  It is needed because acceptance was
decided in a past state.  A valid commit finds all its versions current, so
the values are those of the present state, the acceptance condition holds now
(it depends on the keys read and nothing else), and the commit is an atomic step
of the board.  From this: `Implements`, `LedgerPromises`, `LedgerIsAppendOnly`,
`TalliesEndorsed`, and `LosersKnowWhy` (what can have invalidated a ballot or a
close).  `RecordsSingle` says that what is recorded is a vote for exactly one
candidate: each contest's proof leaves 0 or 1, the selection proof leaves a sum of one,
and that a sum of such numbers is one only when exactly one of them is needs induction
over the contests, by the least-number principle (`LeastNatural`, from the library's
well-foundedness of strict inclusion).

Its last section proves `DumpInv` and `VerdictIsTrueOfChain` of `LedgerDump`, for any
number of ballots and any size of page and batch.  A dump is read while ballots land, so
what it holds is in general of no single state.  `LedgerInv` finds the moment that
matters: once the tally has been sent the election is closed and the ballots cannot
change, and while a verify has the run's one phase no tally is sent; a walk that began
then has written, at any place, the ballots of the keys behind it once each (`Below`,
`Done`, `Written`), and a walk that began earlier fails at its header, which needs the
tally.  What the audit's aggregate is worth is carried from the audit to the verdict (`EvidenceIsOfChain`):
empty, or the sum over the chain's ballots, whose pads then sum to the run's.

`CeremonyProofs` proves, for any number of trustees, contests, handlers and faults,
`TypeOK`, `RecordedIsOnChain`, `TallyEndorsedByContributors` and `RecordSurvives` of
`Ceremony`.  The first three rest on `ClaimsInv`: what a file or a status says is
copied through several hands before it is used, so the invariant follows it through
all of them, in each goroutine's locals (who it believes submitted, what it is about
to write, which of its trustee's contests it has seen accepted), on the wire and on
the disk, and says that each is true of the chain.  It is preserved by the others'
steps because shares are never taken back (`Grows`), which is also why a tally
that lands late is still endorsed.  `RecordSurvives` rests on `LockInv`: only the
holder of `ceremonyMu` is between reading and writing the file, what it will write
covers all that was recorded (or, when its own read failed, is known to start from
nothing), and while nobody writes the file itself does.
`StatusTrue` and `PublishedAboveThreshold` rest on `StatusInv`: what the shared file
says (`SharedStatus`) and what each goroutine carries of it, towards a write
(`LocalRecord`) or towards an answer (`LocalPoll`).  A poll remembers who was complete
when it came in, and every place between there and the answer either still has to
probe such a trustee or already lists it, also when it caught the file truncated.

`JournalProofs` proves `RecordComplete` of `Journal`, for any number of dispatchers and
other goroutines and any queue capacity.  `JournalInv` follows a progress line from the
dispatcher's hands through the queue and the writer's hand to the disk.  `Numbers` and
`WayInv` say that a line on its way was handed over and how far each dispatcher is;
`OrderInv` that the lines of one dispatcher stay in order, on the way and on the disk;
`OwedInv` that a goroutine past its barrier owes nothing that is still on its way, which
is what the writer's second drain is for; `Flow` that the window's closing event, its
reading of the error, the close and the retirement of the writer come in this order,
and that nothing is on the way once the closing event has passed its barrier.  The
newest line accounts for the gaps because a line whose number is the total of all
events stamped is the last of the only goroutine that stamped: nothing follows it
(`NewestAlone`).  Every step of `stampProgress` has the same shape (`DispatcherStep`),
of which the accounting equation is one conjunct.

`BallotRunProofs` proves `NoneShutOut` and `RunRecordTrue` of `BallotRun`, for any
number of ballots, workers, faults, kills and resumes.  Neither is inductive: whether
the election may be closed is decided from a journal written before the last kill.
`BallotRunInv` therefore says what each place of the phase may rely on.  The heart is
`OpenInv` and `CloseInv`: the journal shows the window open unless it ended with every
ballot it sent accounted for, and only then is the close reached.  `WindowInv` ties the
locals of a window to the chain, `RouteInv`, `FirstInv` and `ResumeInv` say by which way
the phase got where it is, `SegmentInv` and `MetricsInv` that the numbers in the journal
and the metrics file are those of the windows there were, `VerdictInv` why a verdict
lasts although later verifies may write another.

`ConsoleProofs` proves `Exclusion`, `FaultContained`, `SegmentOverOpenWindow` and
`ConnOfThisNetwork` of `Console`, for any finite set of runs.  `ConsoleInv` ties
together what the code keeps in four places under different locks: a run's claim, its
window and its fault (`RunInv`), the fault and the job slot (`FaultInv`: past the gate's
first reading the slot stays free, because a job refuses to start beside a claimed run),
the slot and the connection (`JobInv`), and the counter of stopped peers, which is the
number of faults between its two updates (`PeerInv`).

Its second half proves `LimitsHold` and `HonestNeverLocked` of `Login`, for any limits,
windows, addresses and names and any finite set of requests.  `RecordHolds` ties a
failure record to the guesses let through: those since the record began are counted in
it, and before it lies at most one other record within a lockout.  Right passwords still
being checked stand on the side of the guesses, because settling one hands a reservation
back, and `AddressInv` allows as many of them as there are requests to hand it back to a
later record than they took it from; a name's record needs no such slack (`NameInv`),
because a right password deletes it.  `HonestInv` adds that, without a wrong password, a
counter is at most the number of logins being checked.

`CampaignProofs` proves `NoFalseInterruption`, `CancelBetweenRepetitions`, `FiguresTrue`
and `LargeNeedsLadder` of `Campaign`, for any number of warm-ups, repetitions, sweep
steps, tiers, jobs and stops.  `CampaignInv` keeps rows and run folders in step
(`RowsInv`: a row per run, only the newest unsettled), what was collected of the newest
run so far (`GotInv`), the position of a measured repetition among all runs
(`MeasuredInv`), the sweep (`SweepInv`: it goes on only while no step beat the
plateau) and the file (`FileInv`).  The proof found a flaw in the model: two `CASE`
expressions had overlapping guards, whose value TLA+ leaves open and TLC takes from the
first that holds.  They are now chains of `IF`, in the order of the code.

`AttackWindowProofs` proves `ParkedLinesAreAwaited` and `JoinedIsTruth` of `AttackWindow`,
for any number of ballots and workers and any plan, pause point and deadline.
`WindowInv`: no two workers have the same line (`JobsInv`), every line handed out is
behind the reader or some worker has still to ask for it (`ReaderInv`), and each half
counts from its own start (`HalvesInv`).  When a half ends all workers are idle, so
nothing is parked and the reader stands where the half ended.

It also proves `LiveAttacksHarmless` and `DecisionsKept`.  The first part evaluates the
contract: the gates of `SubmitBallot` are taken one by one (`GatesAre`), each attack's ballot
is described field by field (`AttackBallots`), and the answer is the first gate that
refuses (`RejectsAt`, `AnswersAre`).  Which gate that is depends on the state: a closed
election or a spent nullifier is noticed before any proof.  So `AttackInv` carries, beside
`WindowInv`, that the election is open until the window is over and holds only ballots of
the run that were handed out (`ChainInv`): at the pause the donor of a reused nullifier has
landed and the target of the other attacks has not been handed out.  `RowsInv` is about the
verdicts kept.  `PauseInv` is what the decisions need: one that ends the stage is the last of
its queue and has closed it, and the rest of a stage is mounted with the queue closed
and empty, so that nothing accepted is left behind unless the run was cancelled; and
every attack run at a pause has its row, unless `store` says that a save failed.

The proofs assume of the constants what the modules' `ASSUME`s say: that runs,
dispatchers, trustees, ballots and requests are finite sets, bounds are natural numbers,
the goroutines' names differ, a campaign has something to do, a lockout is no longer than
the window in which failures count, the run's own ballots have different nullifiers, and
the value that stands for an absent entry is none of those it is compared with.

**Only model-checked.**  Everything about liveness, which needs fairness (`CallsReturn`,
`ResumeFinishes`, `CeremonyCompletes`, `NothingHangs`, `CancelFrees`, `RunEnds`,
`DumpEnds`), and `DispatchNeverWaits`, which is about `ENABLED`.  Every other invariant
and action property of the passing runs is a theorem.  Induction over data is done by
the least-number principle where it is needed; what stays out of reach is what a
recursive operator or a fold over an operator computes, so the proved modules define
sums as recursive functions and state order by quantifiers.

## 6. Not modelled

Group arithmetic and hashing (a proof is the statement it proves), protobuf
encoding, queries that change nothing, connection set-up, logging, CSV layout,
latency statistics, preflight estimates, web pages, network scripts, FFI.
The auditor is a pure function whose verdict is an input of `BallotRun` and
`LedgerDump`; the canvass driver, the demo CLI and the cryptography run one thing at
a time; the event hub does everything under one mutex and never blocks.
In `BallotRun`: the offline and ground-truth modes, a journal that cannot be
opened, `verifyOnly`, the stamp `interrupted_at`, which no reader modelled here
uses; the pause inside the ballot window is `AttackWindow`'s and the ledger dump
inside verify `LedgerDump`'s.
In `Ceremony`: `Submit`'s own way to the tally (its shares appear as recorded
elsewhere), the pauses of the attack scenarios, the time stamps in the file, the
views built from it.
In `Console`: handlers that only read, uploads of configurations, the content of a
phase beyond its window.  In `Campaign`: the statistics of the repetitions and the
time between bursts.  In `AttackWindow`: how a scenario rewrites a ballot's bytes.
In `Login`: the password file, cookies and their transport.  In `LedgerDump`: the
resumption of receipts, and the audit's own checks.
