----------------------------- MODULE AttackWindow -----------------------------
(***************************************************************************)
(* A security run of the campaign console: the ballot window that pauses   *)
(* half way, the stages at which attacks are mounted, the operator who     *)
(* decides what to mount, and the verdicts that are kept (timeline.go,     *)
(* scenarios.go), over the bench driver's workers and the ballot reader    *)
(* they share (bench/driver.go, ballots.go).                               *)
(*                                                                         *)
(* A live attack is a tampered ballot sent to the contract: the gates that *)
(* answer it are those of module Chaincode, so a verdict is about the      *)
(* contract's own order of checks.  A simulated attack is judged by the    *)
(* auditor, of which only the ids of the failed checks matter here.        *)
(*                                                                         *)
(* The lifecycle goroutine, the workers, the operator's requests, the      *)
(* cancellation, the window's deadline and the pause's timer interleave.   *)
(* Ballot i is line i of ballots.ndjson and has nullifier i.               *)
(***************************************************************************)
EXTENDS Integers, Sequences, FiniteSets, SequencesExt, FiniteSetsExt

CONSTANTS
    None,           \* absent value
    N,              \* ballots of the run
    BallotsAt,      \* the plan's ballots_at, in percent
    Plan,           \* the stages of the attack plan
    Timed,          \* whether the window has a maximum duration
    Workers,        \* the bench driver's workers
    QueueCap,       \* decisions a pause holds (8 in the code)
    MaxDecisions,   \* bound: decisions the operator sends
    MaxFaults,      \* bound: failed submissions, tools and saves, and lagging peers
    MaxReruns       \* bound: attacks run again outside a pause

ASSUME AttackWindowAssumption ==
    /\ N \in Nat /\ N >= 2
    /\ BallotsAt \in 0..100
    /\ QueueCap \in Nat \ {0}
    /\ None \notin 0..N

VARIABLES
    legacy,      \* the election's parameters carry no issuer key
    pc,          \* where the lifecycle is: a stage, a half of the window, "over"
    cancelled,   \* ctx.Err() # nil
    expired,     \* the window's maximum duration has elapsed
    half,        \* the bench.Run in progress
    job,         \* what each worker holds: an index and a step
    reader,      \* ballotReader: next and ahead
    landed,      \* indices whose submission returned nil
    ledger,      \* the ballots on the chain
    closed,      \* the election is closed
    first,       \* the first half's RunResult
    window,      \* the joined RunResult
    pause,       \* stagePause and the locals of pauseForAttacks
    results,     \* scenarios.json, as last saved: the verdict kept for each attack
    store,       \* whether every save of it went through, one failed, or one tore it
    lost,        \* decisions accepted and still queued when a pause ended
    decisions, faults, reruns   \* counters for the bounds

vars == <<legacy, pc, cancelled, expired, half, job, reader, landed, ledger,
          closed, first, window, pause, results, store, lost, decisions, faults, reruns>>
bench == <<half, job, reader, landed>>
counters == <<decisions, faults, reruns>>

Indices == 0..(N - 1)
Unstaged == "unstaged"

-----------------------------------------------------------------------------
(* The catalogue.                                                          *)

Stages == {"dkg", "ballots", "close", "ceremony"}

\* The gates of the contract and the checks of the auditor that attacks are written for.
Gates == {"cds", "nullifier", "decode", "issuer", "selection"}
Checks == {"ballot.cds_proof", "nullifier.unique", "stream.completeness", "ballot.decode",
           "decryption.cp_proof", "dkg.decode", "ballot.issuer_binding",
           "ballot.selection_sum"}

Verdicts == {"PASS", "FAIL", "INCONCLUSIVE", "SKIPPED"}

Attack(stage, chain, audit) == [stage |-> stage, chain |-> chain, audit |-> audit]

\* In the order of the code; an empty gate is None.
RegistryOrder ==
    <<"tamper-ballot-proof", "reused-nullifier", "dropped-ballot",
      "reordered-ballots", "corrupted-ballot-bytes", "tamper-partial-decryption",
      "tamper-dkg-transcript", "self-issued-credential", "overvote">>

Scenarios == ToSet(RegistryOrder)

Registry ==
    [s \in Scenarios |->
        CASE s = "tamper-ballot-proof" -> Attack("ballots", "cds", "ballot.cds_proof")
          [] s = "reused-nullifier" -> Attack("ballots", "nullifier", "nullifier.unique")
          [] s = "dropped-ballot" -> Attack("close", None, "stream.completeness")
          [] s = "reordered-ballots" -> Attack("close", None, None)
          [] s = "corrupted-ballot-bytes" -> Attack("ballots", "decode", "ballot.decode")
          [] s = "tamper-partial-decryption" ->
                Attack("ceremony", None, "decryption.cp_proof")
          [] s = "tamper-dkg-transcript" -> Attack("dkg", None, "dkg.decode")
          [] s = "self-issued-credential" ->
                Attack("ballots", "issuer", "ballot.issuer_binding")
          [] s = "overvote" -> Attack("ballots", "selection", "ballot.selection_sum")]

ScenariosForStage(stage) == {s \in Scenarios : Registry[s].stage = stage}

\* The members of this set that no other member precedes in the catalogue: one.
Foremost(todo) ==
    {s \in todo : \E i \in DOMAIN RegistryOrder :
        RegistryOrder[i] = s /\ \A j \in 1..(i - 1) : RegistryOrder[j] \notin todo}

LiveCapable(s) == Registry[s].chain # None

legacyChainSkips_Never(s) == FALSE
legacyChainSkips(s) == Registry[s].chain \in {"issuer", "selection"} /\ legacy

-----------------------------------------------------------------------------
(* The contract as the run meets it: one election with one position.       *)

Contract == INSTANCE Chaincode WITH
    ElectionIds <- {}, NullifierIds <- {}, ContestIds <- {}, TrusteeIds <- {},
    ParamsMsgs <- {}, TranscriptMsgs <- {}, BallotMsgs <- {}, PartialMsgs <- {},
    TallyMsgs <- {}

Contests == << <<"president", "ana">>, <<"president", "ben">> >>
Params(old) == [contests |-> Contests, issuer |-> IF old THEN None ELSE "issuer"]
Transcript == [key |-> "joint"]

\* Nothing that is present is the absent value.
ASSUME AbsentAssumption ==
    /\ None \notin Gates \union Checks \union {"open", "closed", "joint"}
    /\ None \notin {Params(TRUE), Params(FALSE), Transcript}
    /\ None \notin [verdict : Verdicts, gates : SUBSET (Gates \union Checks),
                   onChain : BOOLEAN, stage : Stages]

\* A ballot as the generator writes it, with this issuer and these votes.  Its
\* proofs and its own nullifier stand for those of any ballot of the run.
MakeBallot(issuer, votes) ==
    [wire |-> "ok", election |-> "e", position |-> <<"president">>,
     nullifier |-> "own", issuer |-> issuer, signer |-> issuer, votes |-> votes,
     proofs |-> [l \in 1..2 |-> [version |-> "v1", key |-> "joint",
                    context |-> <<"e", Contests[l], "own">>]],
     selection |-> [version |-> "v1", key |-> "joint",
                    context |-> <<"e", <<"president">>, "own">>]]

Genuine == MakeBallot("issuer", <<1, 0>>)

\* The bytes that each ballot attack submits in the place of a genuine ballot.
Bytes ==
    [kind \in {"genuine"} \union {s \in Scenarios : LiveCapable(s)} |->
        CASE kind = "genuine" -> Genuine
          [] kind = "tamper-ballot-proof" -> [Genuine EXCEPT !.proofs[1].key = "flipped"]
          [] kind = "reused-nullifier" -> [Genuine EXCEPT !.nullifier = "donor"]
          [] kind = "corrupted-ballot-bytes" -> [Genuine EXCEPT !.wire = "decode"]
          [] kind = "self-issued-credential" -> MakeBallot("forged", <<1, 0>>)
          [] kind = "overvote" -> MakeBallot("issuer", <<1, 1>>)]

\* A submission: what is sent, and the index of the ballot whose nullifier it
\* carries; a forged credential has one of its own.
Submission(kind, i) == [kind |-> kind, nullifier |-> i]
Ballot(i) == Submission("genuine", i)

\* The tampered copy of ballot i.  Only reused-nullifier looks at the donor.
Tampered(s, i, d) ==
    Submission(s, CASE s = "reused-nullifier" -> d
                    [] s = "self-issued-credential" -> N
                    [] OTHER -> i)

\* What the contract says of each kind of submission: "accept", or the gate.
Answers ==
    [old \in BOOLEAN |-> [shut \in BOOLEAN |-> [used \in BOOLEAN |->
        [kind \in DOMAIN Bytes |->
            LET status == IF shut THEN "closed" ELSE "open"
                spent  == IF used THEN 1 ELSE None
            IN  IF Contract!SubmitBallotAccepts(Params(old), status, spent,
                                                Transcript, Bytes[kind])
                THEN "accept"
                ELSE Contract!rejectAt(Params(old), status, spent, Transcript,
                                       Bytes[kind])]]]]

\* What a peer that has committed these records answers.
AnswerOver(records, m) ==
    LET used == \E r \in records : r.nullifier = m.nullifier
    IN  Answers[legacy][closed][used][m.kind]
Accepts(records, m) == AnswerOver(records, m) = "accept"

-----------------------------------------------------------------------------
(* Verdicts.                                                               *)

\* One row: the verdict, what refused the attack, and how it was mounted.
Row(verdict, gates, onChain) ==
    [verdict |-> verdict, gates |-> gates, onChain |-> onChain]

\* Every gate the endorsers named must be the declared one.
classifyLive(s, gates) ==
    Row(IF gates = {Registry[s].chain} THEN "PASS" ELSE "INCONCLUSIVE", gates, TRUE)

\* The ids of the checks that the auditor fails on a tampered copy: external.
AuditFails(s) ==
    (CASE s = "reused-nullifier" -> {"nullifier.unique", "ballot.cds_proof"}
       [] OTHER -> {Registry[s].audit})
    \union (IF legacy THEN {"parameters.issuer_binding"} ELSE {})

withoutLegacyFinding(checks) ==
    IF legacy THEN checks \ {"parameters.issuer_binding"} ELSE checks

classifyAudit(s, checks) ==
    Row(CASE checks = {} -> "FAIL"
          [] checks # {} /\ Registry[s].audit \in checks -> "PASS"
          [] OTHER -> "INCONCLUSIVE", checks, FALSE)

\* A simulated attack: not mounted, refused before the audit, or audited.
runOneScenario(s) ==
    IF \/ Registry[s].audit = None
       \/ Registry[s].audit = "ballot.selection_sum" /\ legacy
    THEN {Row("SKIPPED", {}, FALSE)}
    ELSE {classifyAudit(s, withoutLegacyFinding(AuditFails(s)))}
         \union (IF faults < MaxFaults THEN {Row("INCONCLUSIVE", {}, FALSE)} ELSE {})

\* A live attack: what it leaves on the chain and the row it yields.  The
\* tampered ballot may fail to be built or sent, and of two endorsers one may
\* lag behind the window; the ballot lands only when every endorser takes it.
LiveOutcomes(s, b) ==
    LET unsent == [chain |-> ledger, row |-> Row("INCONCLUSIVE", {}, TRUE)]
        answer == IF Accepts(ledger, b)
                  THEN [chain |-> ledger \union {b}, row |-> Row("FAIL", {}, TRUE)]
                  ELSE [chain |-> ledger, row |-> classifyLive(s, {AnswerOver(ledger, b)})]
        behind == [chain |-> ledger, row |->
                     classifyLive(s, {AnswerOver(r, b) : r \in {ledger, {}}})]
    IN  {answer}
        \union (IF faults < MaxFaults THEN {unsent} ELSE {})
        \union (IF faults < MaxFaults /\ ~Accepts(ledger, b) /\ ~Accepts({}, b)
                THEN {behind} ELSE {})

\* The attack's outcomes against the ballots pause: the target is the first
\* ballot not sent, the donor the first that committed.
mountBallotLive(s, target, donor) ==
    IF s = "reused-nullifier" /\ donor = -1
    THEN {[chain |-> ledger, row |-> Row("INCONCLUSIVE", {}, TRUE)]}
    ELSE LiveOutcomes(s, Tampered(s, target, donor))

Simulated(s) == {[chain |-> ledger, row |-> r] : r \in runOneScenario(s)}

staged(r) == r # None /\ r.stage # Unstaged

mergeScenarioResults_Latest(s, row, stage) ==
    results' = [results EXCEPT ![s] =
                    [verdict |-> row.verdict, gates |-> row.gates,
                     onChain |-> row.onChain, stage |-> stage]]

\* A result mounted outside any pause never replaces one mounted at its pause.
mergeScenarioResults(s, row, stage) ==
    results' = IF staged(results[s]) /\ stage = Unstaged
               THEN results
               ELSE [results EXCEPT ![s] =
                        [verdict |-> row.verdict, gates |-> row.gates,
                         onChain |-> row.onChain, stage |-> stage]]

\* The save, which fails when the file cannot be read or written, and for good once a
\* write was cut short: what is left of the file does not parse.
saveScenarioResult(s, row, stage, saved) ==
    IF saved
    THEN /\ store # "torn"
         /\ mergeScenarioResults(s, row, stage)
         /\ UNCHANGED store
    ELSE /\ store = "torn" \/ faults < MaxFaults
         /\ store' \in IF store = "torn" THEN {"torn"} ELSE {"missing", "torn"}
         /\ UNCHANGED results

-----------------------------------------------------------------------------
(* The window.                                                             *)

\* How many ballots are dispatched before the pause, 0 for no pause.
pauseIndex ==
    IF "ballots" \notin Plan THEN 0
    ELSE LET at == IF BallotsAt = 0 THEN 50 ELSE BallotsAt
         IN  Min({Max({(at * N) \div 100, 1}), N - 1})

Idle == [index |-> -1, step |-> "idle"]
NoHalf == [from |-> 0, upto |-> 0, next |-> 0, ok |-> {}, last |-> -1,
           stopped |-> FALSE]
Half(from, upto) == [NoHalf EXCEPT !.from = from, !.upto = upto, !.next = from]

\* bench.Run's result; ok and last count from the start of the half.
RunResult(h) ==
    [submitted |-> h.next - h.from, ok |-> h.ok, last |-> h.last, stopped |-> h.stopped]
NotRun == [submitted |-> 0, ok |-> {}, last |-> -1, stopped |-> TRUE]

joinWindows_LastAboveZero(at, a, b) ==
    [submitted |-> a.submitted + b.submitted,
     ok |-> a.ok \union {at + k : k \in b.ok},
     stopped |-> a.stopped \/ b.stopped,
     last |-> IF b.last > 0 THEN at + b.last ELSE a.last]

joinWindows(at, a, b) ==
    [submitted |-> a.submitted + b.submitted,
     ok |-> a.ok \union {at + k : k \in b.ok},
     stopped |-> a.stopped \/ b.stopped,
     last |-> IF b.last >= 0 THEN at + b.last ELSE a.last]

\* The dispatcher hands the next index to a free worker.  Its select may do so
\* although the context is done.
Dispatch(w) ==
    /\ pc \in {"first", "second"}
    /\ ~half.stopped /\ half.next < half.upto
    /\ job[w] = Idle
    /\ job' = [job EXCEPT ![w] = [index |-> half.next, step |-> "read"]]
    /\ half' = [half EXCEPT !.next = @ + 1, !.last = half.next - half.from]
    /\ UNCHANGED <<legacy, pc, cancelled, expired, reader, landed, ledger, closed,
                   first, window, pause, results, store, lost, counters>>

StopDispatch ==
    /\ pc \in {"first", "second"}
    /\ ~half.stopped /\ half.next < half.upto
    /\ cancelled \/ expired
    /\ half' = [half EXCEPT !.stopped = TRUE]
    /\ UNCHANGED <<legacy, pc, cancelled, expired, job, reader, landed, ledger,
                   closed, first, window, pause, results, store, lost, counters>>

\* ballotReader.At: the line at this index, or an error; lines scanned past on
\* the way are parked.  Every line is wanted, and is there and well-formed:
\* validateBallots has read the file to its end.
At_ParksAll(w) ==
    LET i == job[w].index
    IN  /\ reader' = [next |-> Max({reader.next, i + 1}),
                      ahead |-> reader.ahead \union (reader.next..i)]
        /\ job' = [job EXCEPT ![w].step = "send"]
At(w) ==
    LET i == job[w].index
    IN  IF i \in reader.ahead
        THEN /\ reader' = [reader EXCEPT !.ahead = @ \ {i}]
             /\ job' = [job EXCEPT ![w].step = "send"]
        ELSE IF i < reader.next
        THEN /\ job' = [job EXCEPT ![w] = Idle]
             /\ UNCHANGED reader
        ELSE /\ reader' = [next |-> i + 1,
                           ahead |-> reader.ahead \union (reader.next..(i - 1))]
             /\ job' = [job EXCEPT ![w].step = "send"]

ReadLine(w) ==
    /\ job[w].step = "read"
    /\ At(w)
    /\ UNCHANGED <<legacy, pc, cancelled, expired, half, landed, ledger, closed,
                   first, window, pause, results, store, lost, counters>>

\* The submission commits and says so, or is refused by a gate.
Submit(w) ==
    LET b == Ballot(job[w].index)
    IN  /\ job[w].step = "send"
        /\ IF Accepts(ledger, b)
           THEN /\ ledger' = ledger \union {b}
                /\ landed' = landed \union {job[w].index}
                /\ half' = [half EXCEPT !.ok = @ \union {job[w].index - half.from}]
           ELSE UNCHANGED <<ledger, landed, half>>
        /\ job' = [job EXCEPT ![w] = Idle]
        /\ UNCHANGED <<legacy, pc, cancelled, expired, reader, closed, first,
                       window, pause, results, store, lost, counters>>

\* The submission fails; the ballot is on the chain or is not.
SubmitFails(w) ==
    LET b == Ballot(job[w].index)
    IN  /\ job[w].step = "send"
        /\ faults < MaxFaults
        /\ faults' = faults + 1
        /\ ledger' \in {ledger} \union
                (IF Accepts(ledger, b) THEN {ledger \union {b}} ELSE {})
        /\ job' = [job EXCEPT ![w] = Idle]
        /\ UNCHANGED <<legacy, pc, cancelled, expired, half, reader, landed, closed,
                       first, window, pause, results, store, lost, decisions, reruns>>

HalfDone ==
    /\ half.stopped \/ half.next = half.upto
    /\ \A w \in Workers : job[w] = Idle

-----------------------------------------------------------------------------
(* The lifecycle and its pauses.                                           *)

\* queue holds the decisions accepted, todo the attacks to mount now, rest says that
\* they are the rest of the stage, after which the pause ends.
NoPause == [open |-> FALSE, closed |-> TRUE, queue |-> << >>, todo |-> {},
            rest |-> FALSE, ran |-> {}, timer |-> FALSE]

\* pauseForAttacks begins, at a stage the plan lists.
OpenPause == [NoPause EXCEPT !.open = TRUE, !.closed = FALSE, !.timer = TRUE]

\* The lifecycle arrives at a stage and holds there if the plan says so.
Arrive(stage) ==
    /\ pc' = stage
    /\ pause' = IF stage \in Plan THEN OpenPause ELSE NoPause

\* The lifecycle goes on from a stage at which it does not hold.  A step of the
\* lifecycle that finds the context done ends the phase.
Continue(stage) ==
    CASE stage = "dkg" ->
            /\ pc' = IF cancelled THEN "over" ELSE "first"
            /\ half' = Half(0, IF pauseIndex > 0 THEN pauseIndex ELSE N)
            /\ UNCHANGED <<pause, window, closed>>
      [] stage = "ballots" ->
            IF Timed /\ expired
            THEN /\ pc' = "window"
                 /\ window' = joinWindows(pauseIndex, first, NotRun)
                 /\ UNCHANGED <<half, pause, closed>>
            ELSE /\ pc' = "second"
                 /\ half' = Half(pauseIndex, N)
                 /\ UNCHANGED <<pause, window, closed>>
      [] stage = "window" ->
            IF cancelled \/ Cardinality(window.ok) < window.submitted
            THEN /\ pc' = "over"
                 /\ UNCHANGED <<half, pause, window, closed>>
            ELSE /\ closed' = TRUE
                 /\ Arrive("close")
                 /\ UNCHANGED <<half, window>>
      [] stage = "close" ->
            IF cancelled
            THEN pc' = "over" /\ UNCHANGED <<half, pause, window, closed>>
            ELSE Arrive("ceremony") /\ UNCHANGED <<half, window, closed>>
      [] stage = "ceremony" ->
            pc' = "over" /\ UNCHANGED <<half, pause, window, closed>>

GoOn ==
    /\ pc \in {"dkg", "ballots", "window", "close", "ceremony"}
    /\ ~pause.open
    /\ Continue(pc)
    /\ UNCHANGED <<legacy, cancelled, expired, job, reader, landed, ledger, first,
                   results, store, lost, counters>>

\* pausedWindow after its first half: the pause point is reached, or the window
\* ended before it and the stage is never mounted.  Without a pause the first
\* half is the whole window.
FirstHalfEnds ==
    /\ pc = "first" /\ HalfDone
    /\ first' = RunResult(half)
    /\ IF pauseIndex = 0
       THEN /\ pc' = "window"
            /\ window' = RunResult(half)
            /\ UNCHANGED pause
       ELSE IF half.stopped \/ cancelled
       THEN /\ pc' = "window"
            /\ window' = joinWindows(pauseIndex, RunResult(half), NotRun)
            /\ UNCHANGED pause
       ELSE Arrive("ballots") /\ UNCHANGED window
    /\ UNCHANGED <<legacy, cancelled, expired, bench, ledger, closed, results, store, lost,
                   counters>>

SecondHalfEnds ==
    /\ pc = "second" /\ HalfDone
    /\ pc' = "window"
    /\ window' = joinWindows(pauseIndex, first, RunResult(half))
    /\ UNCHANGED <<legacy, cancelled, expired, bench, ledger, closed, first, pause,
                   results, store, lost, counters>>

\* The pause ends, whatever is queued.
Resume ==
    /\ pause' = NoPause
    /\ lost' = lost \o pause.queue

-----------------------------------------------------------------------------
(* pauseForAttacks: one select, and the attacks it mounts.                 *)

Holding == pause.open /\ pause.todo = {} /\ ~pause.rest

\* The first ballot of the first half that committed, -1 if none did.
donor_FirstCast == 0
donor == IF first.ok = {} THEN -1 ELSE Min(first.ok)

\* An attack mounted at this stage, live where a gate refuses it.
Mount(s) ==
    IF pc = "ballots" /\ LiveCapable(s) /\ ~legacyChainSkips(s)
    THEN mountBallotLive(s, pauseIndex, donor)
    ELSE Simulated(s)

\* runOne: the attack, its row and the faults it may have met.  A verdict that could
\* not be saved is reported and the pause goes on: the attack has run.
RunOne(s) ==
    \E o \in Mount(s), saved \in BOOLEAN :
        /\ ledger' = o.chain
        /\ saveScenarioResult(s, o.row, pc, saved)
        /\ faults' = IF saved /\ o.row.verdict \in {"PASS", "FAIL", "SKIPPED"} THEN faults
                     ELSE Min({faults + 1, MaxFaults})

Cancelled ==
    /\ Holding /\ cancelled
    /\ Resume
    /\ UNCHANGED <<legacy, pc, cancelled, expired, bench, ledger, closed, first,
                   window, results, store, counters>>

\* The attacks of the stage not yet run become the work to do.
RunRest(p) == [p EXCEPT !.todo = ScenariosForStage(pc) \ p.ran, !.rest = TRUE]

Timeout_IgnoresQueue ==
    /\ Holding /\ pause.timer
    /\ pause' = RunRest([pause EXCEPT !.closed = TRUE])
    /\ UNCHANGED <<legacy, pc, cancelled, expired, bench, ledger, closed, first,
                   window, results, store, lost, counters>>

\* The timer fires; a decision accepted before goes first.
Timeout ==
    /\ Holding /\ pause.timer
    /\ pause' = IF pause.queue # << >>
                THEN [pause EXCEPT !.timer = FALSE]
                ELSE RunRest([pause EXCEPT !.closed = TRUE])
    /\ UNCHANGED <<legacy, pc, cancelled, expired, bench, ledger, closed, first,
                   window, results, store, lost, counters>>

\* The next decision is taken off the queue.
TakeDecision ==
    /\ Holding /\ pause.queue # << >>
    /\ LET d == Head(pause.queue)
           q == [pause EXCEPT !.queue = Tail(@)]
       IN  CASE d = "run-all" ->
                    /\ pause' = RunRest(q)
                    /\ UNCHANGED lost
             [] d = "skip" -> pause' = NoPause /\ lost' = lost \o q.queue
             [] OTHER ->
                    /\ pause' = [q EXCEPT !.todo = {d}]
                    /\ UNCHANGED lost
    /\ UNCHANGED <<legacy, pc, cancelled, expired, bench, ledger, closed, first,
                   window, results, store, counters>>

MountNext_NoRelease ==
    /\ \E s \in Foremost(pause.todo) :
          IF pause.rest /\ cancelled
          THEN /\ pause' = [pause EXCEPT !.todo = @ \ {s}]
               /\ UNCHANGED <<ledger, results, store, faults>>
          ELSE /\ RunOne(s)
               /\ pause' = [pause EXCEPT !.todo = @ \ {s}, !.ran = @ \union {s}]
    /\ UNCHANGED <<legacy, pc, cancelled, expired, bench, closed, first, window, lost,
                   decisions, reruns>>

\* One attack of the work to do, in the order of the catalogue.  The rest of a stage
\* stops at a cancellation; a single decision is carried out, and the wait restarts
\* after it.
MountNext ==
    /\ \E s \in Foremost(pause.todo) :
          IF pause.rest /\ cancelled
          THEN /\ pause' = [pause EXCEPT !.todo = @ \ {s}]
               /\ UNCHANGED <<ledger, results, store, faults>>
          ELSE /\ RunOne(s)
               /\ pause' = [pause EXCEPT !.todo = @ \ {s}, !.ran = @ \union {s},
                                         !.timer = @ \/ ~pause.rest]
    /\ UNCHANGED <<legacy, pc, cancelled, expired, bench, closed, first, window, lost,
                   decisions, reruns>>

RestDone ==
    /\ pause.rest /\ pause.todo = {}
    /\ Resume
    /\ UNCHANGED <<legacy, pc, cancelled, expired, bench, ledger, closed, first,
                   window, results, store, counters>>

-----------------------------------------------------------------------------
(* The operator, the clock and what runs outside a pause.                  *)

DecidePause_StaysOpen(d) ==
    pause' = [pause EXCEPT !.queue = Append(@, d)]

\* An accepted decision is queued; one that ends the stage closes it.
DecidePause(d) ==
    pause' = [pause EXCEPT !.queue = Append(@, d),
                           !.closed = @ \/ d \in {"run-all", "skip"}]

Decide ==
    /\ pause.open /\ ~pause.closed
    /\ Len(pause.queue) < QueueCap
    /\ decisions < MaxDecisions
    /\ decisions' = decisions + 1
    /\ \E d \in ScenariosForStage(pc) \union {"run-all", "skip"} : DecidePause(d)
    /\ UNCHANGED <<legacy, pc, cancelled, expired, bench, ledger, closed, first,
                   window, results, store, lost, faults, reruns>>

Cancel ==
    /\ pc # "over" /\ ~cancelled
    /\ cancelled' = TRUE
    /\ UNCHANGED <<legacy, pc, expired, bench, ledger, closed, first, window, pause,
                   results, store, lost, counters>>

\* The window's time is up while a half of it runs.
Expire ==
    /\ Timed /\ ~expired /\ pc \in {"first", "second"}
    /\ expired' = TRUE
    /\ UNCHANGED <<legacy, pc, cancelled, bench, ledger, closed, first, window, pause,
                   results, store, lost, counters>>

\* /attack after the phase: the mutated copy changes ballot 0, and ballot 1 when
\* it reuses the nullifier of ballot 0; the election is as the run left it.
RunStagedAttack(s) ==
    /\ pc = "over" /\ reruns < MaxReruns
    /\ reruns' = reruns + 1
    /\ \E o \in IF LiveCapable(s) /\ ~legacyChainSkips(s)
                THEN LiveOutcomes(s, Tampered(s, IF s = "reused-nullifier" THEN 1 ELSE 0, 0))
                ELSE Simulated(s),
          saved \in BOOLEAN :
            /\ ledger' = o.chain
            /\ saveScenarioResult(s, o.row, Unstaged, saved)
    /\ UNCHANGED <<legacy, pc, cancelled, expired, bench, closed, first, window, pause,
                   lost, decisions, faults>>

-----------------------------------------------------------------------------
Init ==
    /\ legacy \in BOOLEAN
    /\ pc = "dkg"
    /\ pause = IF "dkg" \in Plan THEN OpenPause ELSE NoPause
    /\ cancelled = FALSE /\ expired = FALSE /\ closed = FALSE
    /\ half = NoHalf
    /\ job = [w \in Workers |-> Idle]
    /\ reader = [next |-> 0, ahead |-> {}]
    /\ landed = {} /\ ledger = {}
    /\ first = NotRun /\ window = NotRun
    /\ results = [s \in Scenarios |-> None] /\ store = "whole"
    /\ lost = << >>
    /\ decisions = 0 /\ faults = 0 /\ reruns = 0

WorkerStep ==
    \E w \in Workers : Dispatch(w) \/ ReadLine(w) \/ Submit(w)

LifecycleStep ==
    \/ StopDispatch \/ FirstHalfEnds \/ SecondHalfEnds \/ GoOn
    \/ Cancelled \/ Timeout \/ TakeDecision \/ MountNext \/ RestDone

Next ==
    \/ WorkerStep
    \/ LifecycleStep
    \/ \E w \in Workers : SubmitFails(w)
    \/ Decide \/ Cancel \/ Expire
    \/ \E s \in Scenarios : RunStagedAttack(s)

Spec == Init /\ [][Next]_vars

\* Workers return (Fabric calls have deadlines), the lifecycle goroutine runs,
\* and the timer of a pause fires.  The operator owes nothing.
FairSpec == Spec /\ WF_vars(WorkerStep) /\ WF_vars(LifecycleStep)

-----------------------------------------------------------------------------
(* Properties.                                                             *)

\* Every variable has its type: the reader has parked nothing it has not scanned,
\* and the queue of a pause stays within its channel's capacity.
TypeOK ==
    /\ pc \in Stages \union {"first", "second", "window", "over"}
    /\ legacy \in BOOLEAN /\ cancelled \in BOOLEAN /\ expired \in BOOLEAN
    /\ closed \in BOOLEAN
    /\ \A w \in Workers : job[w].index \in Indices \union {-1}
    /\ reader.next \in 0..N /\ reader.ahead \subseteq 0..(reader.next - 1)
    /\ landed \subseteq Indices
    /\ Len(pause.queue) <= QueueCap /\ pause.ran \subseteq Scenarios
    /\ store \in {"whole", "missing", "torn"}
    /\ \A s \in Scenarios : results[s] # None =>
            results[s].verdict \in Verdicts

\* An attack leaves nothing behind: whatever was mounted, at a pause or after the
\* phase, on an election with or without an issuer key, the chain holds ballots
\* of the run only, so the tampered target is still free to be cast.
AttacksLeaveNoTrace == ledger \subseteq {Ballot(i) : i \in Indices}

\* An attack mounted live at its pause meets the gate it was written for: some
\* endorser refuses it there, whatever was dropped before the pause, and none
\* accepts it.  Sent earlier or later it would be refused by another gate.
StagedReachesItsGate ==
    \A s \in Scenarios :
        staged(results[s]) /\ results[s].onChain =>
            /\ results[s].verdict # "FAIL"
            /\ results[s].gates # {} => Registry[s].chain \in results[s].gates

\* What an attack on the live election does and reports; and every variable has its type.
LiveAttacksHarmless == TypeOK /\ AttacksLeaveNoTrace /\ StagedReachesItsGate

\* Lines parked by the shared reader are exactly lines that a worker in flight
\* has still to ask for: at most one per other worker, none after the window.
ParkedLinesAreAwaited ==
    reader.ahead \subseteq
        {job[w].index : w \in {v \in Workers : job[v].step = "read"}}

\* The stitched result of a paused window is the window's truth: the ballots it
\* calls committed are those whose submission returned, and its last index is the
\* last line any worker was given.
JoinedIsTruth ==
    pc \in {"window", "close", "ceremony"} =>
        /\ window.ok = landed
        /\ window.last = reader.next - 1
        /\ window.submitted = reader.next

\* A pause that is not cancelled honours what it accepted: it ends with nothing
\* queued, and unless the operator skipped, with every attack of its stage run, failed
\* saves notwithstanding, and its verdict kept if no save failed.
PauseHonoured ==
    [][pause.open /\ ~pause'.open /\ ~cancelled =>
            /\ lost' = lost
            /\ \/ pause.queue # << >> /\ Head(pause.queue) = "skip"
               \/ \A s \in ScenariosForStage(pc) :
                    s \in pause.ran /\ (store = "whole" => staged(results[s]))]_vars

\* A verdict mounted at its pause is never replaced by a later unstaged re-run, nor lost
\* to a save that fails without cutting the file short.
StagedVerdictKept ==
    [][store' # "torn" =>
            \A s \in Scenarios : staged(results[s]) => staged(results'[s])]_vars

\* What the operator decided at a pause is done there, and its verdict stands.
DecisionsKept == PauseHonoured /\ StagedVerdictKept

\* No pause holds the run for ever: with or without an operator, cancelled or not,
\* the lifecycle comes to its end.
RunEnds == <>(pc = "over")

\* Violated by a cancellation.  What the comment on stagePause.closed says of every
\* decision: queued before the stage is closed and applied, or refused; never accepted
\* and then dropped.
NeverAcceptedThenDropped == lost = << >>
=============================================================================
