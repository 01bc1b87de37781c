------------------------------ MODULE Campaign ------------------------------
(***************************************************************************)
(* Measurement campaigns and the validation ladder: the driver of          *)
(* repeat.go, run as the console's job (jobs.go) through the in-process     *)
(* transport of internal.go, with the record campaign.go keeps of it.      *)
(*                                                                         *)
(* The driver is one goroutine that posts a phase, polls until the run is  *)
(* idle and posts the next.  Beside it an operator may run a phase on the   *)
(* campaign's own run (claim does not refuse it), cancel the campaign, or  *)
(* read it; a save of campaign.json may fail; the console may stop at any  *)
(* step and be started again, as the same build or another.                *)
(***************************************************************************)
EXTENDS Naturals, Sequences, FiniteSets

CONSTANTS
    Warmups, Reps,  \* CampaignOptions
    Sweep,          \* CampaignOptions.Sweep > 1
    Burst,          \* CampaignOptions.Burst > 0
    Tiers,          \* the ladder's tiers (LadderTiers has four)
    maxSweepSteps,  \* the bound of a sweep that never degrades (12 in the code)
    MaxTps,         \* bound: the throughputs a step may measure
    MaxJobs,        \* bound: jobs started
    MaxMeddled,     \* bound: a job's runs an operator runs a phase on
    MaxStops        \* bound: times the console stops

ASSUME OptionsAssumption ==
    /\ Warmups \in Nat /\ Reps \in Nat /\ Sweep \in BOOLEAN /\ Burst \in BOOLEAN
    /\ Reps >= 1 \/ Sweep \/ Burst      \* handleCampaigns refuses a campaign of nothing
ASSUME BoundsAssumption ==
    /\ Tiers \in Nat \ {0} /\ maxSweepSteps \in Nat \ {0}
    /\ MaxTps \in Nat /\ MaxJobs \in Nat /\ MaxMeddled \in Nat /\ MaxStops \in Nat

VARIABLES
    job,      \* the job slot: its kind, "none" when it is free
    cancel,   \* job.cancel
    large,    \* the job's elections are above LadderVoterCeiling
    pc,       \* where the driver stands in once
    stage,    \* the kind of repetition being driven
    index,    \* its index within the stage
    runs,     \* the job's runs, in order: what each one's folder holds
    phase,    \* the phase running on the newest run, and who asked for it
    got,      \* repResult of the repetition being collected
    gate,     \* its GatePass
    measured, \* the measured repetitions' Failed
    steps,    \* the sweep's steps so far
    plateau,
    clean,    \* no tier of the ladder has failed so far (history)
    rows,     \* the live record's rows: campaignRep.Status
    file,     \* campaign.json
    saveErr,  \* a save of campaign.json has failed
    summary,  \* summary.csv
    ladder,   \* ladder.json: the commit it names, 0: no file
    head,     \* the running build's commit
    passed,   \* commits a ladder has passed on (history)
    started, stops,    \* counters of the two bounds
    meddled   \* runs an operator has run a phase on (history)

driver == <<large, pc, stage, index, got, gate, measured, steps, plateau, clean>>
board  == <<job, cancel>>
record == <<rows, file, saveErr, summary>>
ladderVars == <<ladder, head, passed>>
bounds == <<started, stops>>
vars == <<board, driver, runs, phase, record, ladderVars, bounds, meddled>>

NoFile == [status |-> "absent", rows |-> <<>>]
NoPhase == [name |-> "none", by |-> "none"]
NoSummary == [measured |-> 0, failed |-> 0, written |-> FALSE]
NothingGot == [perf |-> FALSE, failed |-> FALSE]
Fresh == [perf |-> FALSE, end |-> "none"]

Stages == {"warmup", "measured", "sweep", "burst", "ladder"}
RowStates == {"running", "done", "failed"}
MaxRuns == Warmups + Reps + maxSweepSteps + 1 + Tiers

TypeOK ==
    /\ job \in {"none", "campaign", "ladder"}
    /\ cancel \in BOOLEAN /\ large \in BOOLEAN
    /\ pc \in {"idle", "create", "generating", "submit", "submitting", "ceremony", "verify",
               "verifying", "perf", "journal", "next"}
    /\ stage \in Stages /\ index \in 0..MaxRuns
    /\ DOMAIN runs = 1..Len(runs)
    /\ \A i \in 1..Len(runs) : runs[i] \in [perf: BOOLEAN, end: {"none", "ok", "failed"}]
    /\ phase \in [name: {"none", "generate", "submit", "ceremony", "verify"}, by: {"none", "driver", "operator"}]
    /\ got \in [perf: BOOLEAN, failed: BOOLEAN] /\ gate \in BOOLEAN
    /\ \A i \in 1..Len(measured) : measured[i] \in BOOLEAN
    /\ plateau \in 0..MaxTps
    /\ Len(rows) <= Len(runs) /\ \A i \in 1..Len(rows) : rows[i] \in RowStates
    /\ file.status \in {"absent", "running", "done", "failed", "cancelled", "interrupted"}
    /\ saveErr \in BOOLEAN
    /\ ladder \in 0..(MaxStops + 1) /\ head \in 1..(MaxStops + 1)
    /\ meddled \subseteq 1..Len(runs)

Init ==
    /\ job = "none" /\ cancel = FALSE /\ large = FALSE
    /\ pc = "idle" /\ stage = "warmup" /\ index = 0
    /\ runs = <<>> /\ phase = NoPhase
    /\ got = NothingGot /\ gate = FALSE
    /\ measured = <<>> /\ steps = <<>> /\ plateau = 0 /\ clean = TRUE
    /\ rows = <<>> /\ file = NoFile /\ saveErr = FALSE /\ summary = NoSummary
    /\ ladder = 0 /\ head = 1 /\ passed = {}
    /\ started = 0 /\ stops = 0 /\ meddled = {}

(***************************************************************************)
(* The record: campaign.go.                                                *)
(***************************************************************************)
\* A run that ended without failing and has its perf.csv row.
Good(folder) == folder.end = "ok" /\ folder.perf

\* One row as its run folder reports it: final once done or failed.
settle(row, folder) ==
    IF row # "running" THEN row
    ELSE IF Good(folder) THEN "done" ELSE "failed"

\* refreshReps with active unset: every row that is not final is settled.
refreshReps(rs) == [i \in 1..Len(rs) |-> settle(rs[i], runs[i])]

\* persistCampaign: the temp file and its rename, or nothing and save_error (bound: one save of a
\* campaign fails).
persistCampaign(status, rs) ==
    \/ file' = [status |-> status, rows |-> rs] /\ UNCHANGED saveErr
    \/ ~saveErr /\ saveErr' = TRUE /\ UNCHANGED file

\* recordRep: the earlier rows are settled, the new one appended, and the record saved.  A ladder
\* keeps no record.
recordRep ==
    IF job = "ladder" THEN UNCHANGED <<rows, file, saveErr>>
    ELSE /\ rows' = Append(refreshReps(rows), "running")
         /\ persistCampaign("running", rows')

\* Mutant: the repetition's end gets a row of its own.
endRep_OwnRow ==
    IF job = "ladder" THEN UNCHANGED <<rows, file, saveErr>>
    ELSE /\ rows' = Append(rows, "done")
         /\ persistCampaign("running", rows')

\* endRep, as the driver downloads perf.csv: the row is settled and the record saved.
endRep ==
    IF job = "ladder" THEN UNCHANGED <<rows, file, saveErr>>
    ELSE /\ rows' = refreshReps(rows)
         /\ persistCampaign("running", rows')

(***************************************************************************)
(* The job slot: jobs.go.                                                  *)
(***************************************************************************)
\* Mutant: the slot is freed before the record is saved.
EndJob_Unsaved(status) ==
    /\ job' = "none" /\ cancel' = FALSE
    /\ pc' = "idle"
    /\ UNCHANGED <<rows, file, saveErr>>

\* run's closing critical section: the record settled and saved, and the slot freed, in one step.
EndJob(status) ==
    /\ job' = "none" /\ cancel' = FALSE
    /\ pc' = "idle"
    /\ IF job = "ladder" THEN UNCHANGED <<rows, file, saveErr>>
       ELSE rows' = refreshReps(rows) /\ persistCampaign(status, rows')

\* The driver's and the runs' variables as a new job finds them.
ResetDriver(s) ==
    /\ stage' = s /\ index' = 1
    /\ runs' = <<>> /\ phase' = NoPhase /\ got' = NothingGot /\ gate' = FALSE
    /\ measured' = <<>> /\ steps' = <<>> /\ plateau' = 0 /\ clean' = TRUE
    /\ summary' = NoSummary /\ meddled' = {}

FirstStage ==
    IF Warmups > 0 THEN "warmup" ELSE IF Reps > 0 THEN "measured" ELSE IF Sweep THEN "sweep" ELSE "burst"

\* handleCampaigns: the slot, then createCampaign.  A first campaign.json that cannot be saved ends
\* the job with no folder; a log that cannot be created ends it with the failure on record.
StartCampaign ==
    /\ job = "none" /\ phase = NoPhase /\ started < MaxJobs
    /\ started' = started + 1
    /\ rows' = <<>> /\ large' \in BOOLEAN
    /\ ResetDriver(FirstStage)
    /\ \/ /\ job' = "campaign" /\ pc' = "create"
          /\ file' = [status |-> "running", rows |-> <<>>] /\ saveErr' = FALSE
          /\ UNCHANGED cancel
       \/ /\ file' = NoFile /\ saveErr' = TRUE
          /\ UNCHANGED <<board, pc>>
       \/ /\ \/ file' = [status |-> "failed", rows |-> <<>>] /\ saveErr' = FALSE
             \/ file' = [status |-> "running", rows |-> <<>>] /\ saveErr' = TRUE
          /\ UNCHANGED <<board, pc>>
    /\ UNCHANGED <<ladderVars, stops>>

\* handleLadder.
StartLadder ==
    /\ job = "none" /\ phase = NoPhase /\ started < MaxJobs
    /\ started' = started + 1
    /\ job' = "ladder" /\ large' = FALSE /\ pc' = "create"
    /\ rows' = <<>> /\ file' = NoFile /\ saveErr' = FALSE
    /\ ResetDriver("ladder")
    /\ UNCHANGED <<cancel, ladderVars, stops>>

\* requestCancel: the flag of the job holding the slot (the route is the campaigns').
RequestCancel ==
    /\ job = "campaign" /\ ~cancel
    /\ cancel' = TRUE
    /\ UNCHANGED <<job, driver, runs, phase, record, ladderVars, bounds, meddled>>

(***************************************************************************)
(* One repetition: once, create, phase, ceremony and collect.              *)
(***************************************************************************)
\* Mutant: a cancelled job also stops waiting for the verify it started.
CancelAnswered_MidVerify ==
    /\ pc \in {"create", "verifying"} /\ cancel
    /\ EndJob("cancelled")
    /\ UNCHANGED <<large, stage, index, got, gate, measured, steps, plateau, clean, runs, phase, summary,
                   ladderVars, bounds, meddled>>

\* Mutant: the driver returns and the slot is left to it.
CancelAnswered_KeepsSlot ==
    /\ pc = "create" /\ cancel
    /\ pc' = "idle"
    /\ UNCHANGED <<board, large, stage, index, got, gate, measured, steps, plateau, clean, runs, phase,
                   record, ladderVars, bounds, meddled>>

\* RoundTrip of a /generate: a cancelled job's is answered with errJobCancelled.
CancelAnswered ==
    /\ pc = "create" /\ cancel
    /\ EndJob("cancelled")
    /\ UNCHANGED <<large, stage, index, got, gate, measured, steps, plateau, clean, runs, phase, summary,
                   ladderVars, bounds, meddled>>

\* /generate refused (admit, a disk that filled): the error ends the job.
GenerateRefused ==
    /\ pc = "create" /\ ~cancel
    /\ EndJob("failed")
    /\ UNCHANGED <<large, stage, index, got, gate, measured, steps, plateau, clean, runs, phase, summary,
                   ladderVars, bounds, meddled>>

\* Mutant: any build's ladder opens the gate.
ladderGate_AnyBuild == large => ladder # 0

\* ladderGate: a large tier needs a ladder.json that names this build.
ladderGate == large => ladder = head

\* All that is asked of an earlier run's folder: whether it is good.
Over(folder) == IF Good(folder) THEN folder ELSE [perf |-> FALSE, end |-> "failed"]

\* /generate accepted: the run is claimed before the 202, and onRun records it.
Generate ==
    /\ pc = "create" /\ ~cancel
    /\ ladderGate
    /\ pc' = "generating"
    /\ runs' = Append([i \in 1..Len(runs) |-> Over(runs[i])], Fresh)
    /\ phase' = [name |-> "generate", by |-> "driver"]
    /\ got' = NothingGot /\ gate' = FALSE
    /\ recordRep
    /\ UNCHANGED <<board, large, stage, index, measured, steps, plateau, clean, summary, ladderVars, bounds,
                   meddled>>

\* waitIdle: the status route says the run is not busy.
Idle == phase = NoPhase

\* The phase the driver posts, or the 409 it gets when an operator's phase holds the run.
Post(name, waiting, after) ==
    IF Idle THEN phase' = [name |-> name, by |-> "driver"] /\ pc' = waiting
    ELSE UNCHANGED phase /\ pc' = after

\* create returns; the check gate is read for its verdict, which only the ladder looks at.
CheckGate ==
    /\ pc = "generating" /\ Idle
    /\ pc' = "submit"
    /\ gate' \in {FALSE, job = "ladder"}
    /\ UNCHANGED <<board, large, stage, index, got, measured, steps, plateau, clean, runs, phase, record,
                   ladderVars, bounds, meddled>>

\* An on-chain run's submit drove the ceremony too; another mode's ceremony follows it.
Submit ==
    /\ pc = "submit"
    /\ \E after \in {"ceremony", "verify"} : Post("submit", "submitting", after)
    /\ UNCHANGED <<board, large, stage, index, got, gate, measured, steps, plateau, clean, runs, record,
                   ladderVars, bounds, meddled>>

Submitted ==
    /\ pc = "submitting" /\ Idle
    /\ pc' \in {"ceremony", "verify"}
    /\ UNCHANGED <<board, large, stage, index, got, gate, measured, steps, plateau, clean, runs, phase, record,
                   ladderVars, bounds, meddled>>

\* ceremony: start, each trustee's submit, publish, until the first refusal; after the last, verify.
Ceremony ==
    /\ pc = "ceremony"
    /\ \/ Idle /\ phase' = [name |-> "ceremony", by |-> "driver"] /\ pc' = "submitting"
       \/ pc' = "verify" /\ UNCHANGED phase
    /\ UNCHANGED <<board, large, stage, index, got, gate, measured, steps, plateau, clean, runs, record,
                   ladderVars, bounds, meddled>>

Verify ==
    /\ pc = "verify"
    /\ Post("verify", "verifying", "perf")
    /\ UNCHANGED <<board, large, stage, index, got, gate, measured, steps, plateau, clean, runs, record,
                   ladderVars, bounds, meddled>>

Verified ==
    /\ pc = "verifying" /\ Idle
    /\ pc' = "perf"
    /\ UNCHANGED <<board, large, stage, index, got, gate, measured, steps, plateau, clean, runs, phase, record,
                   ladderVars, bounds, meddled>>

Newest == runs[Len(runs)]

\* collect, first half: perf.csv is downloaded, and the transport ends the repetition's row.
CollectPerf ==
    /\ pc = "perf"
    /\ pc' = "journal"
    /\ got' = [perf |-> Newest.perf, failed |-> ~Newest.perf]
    /\ endRep
    /\ UNCHANGED <<board, large, stage, index, gate, measured, steps, plateau, clean, runs, phase, summary,
                   ladderVars, bounds, meddled>>

\* Mutant: run.end alone decides, a missing perf.csv is forgotten.
CollectJournal_EndOnly ==
    /\ pc = "journal"
    /\ pc' = "next"
    /\ got' = [got EXCEPT !.failed = Newest.end # "ok"]
    /\ UNCHANGED <<board, large, stage, index, gate, measured, steps, plateau, clean, runs, phase, record,
                   ladderVars, bounds, meddled>>

\* collect, second half: the journal's last run.end.
CollectJournal ==
    /\ pc = "journal"
    /\ pc' = "next"
    /\ got' = [got EXCEPT !.failed = @ \/ Newest.end # "ok"]
    /\ UNCHANGED <<board, large, stage, index, gate, measured, steps, plateau, clean, runs, phase, record,
                   ladderVars, bounds, meddled>>

(***************************************************************************)
(* What a phase leaves in the run's folder.                                *)
(***************************************************************************)
PhaseEnds ==
    /\ ~Idle
    /\ phase' = NoPhase
    /\ \E perf \in BOOLEAN, end \in {"ok", "failed"} :
          runs' = [runs EXCEPT ![Len(runs)] =
                     IF phase.name = "verify" THEN [perf |-> @.perf \/ perf, end |-> end]
                     ELSE IF end = "failed" THEN [@ EXCEPT !.end = "failed"] ELSE @]
    /\ UNCHANGED <<board, driver, record, ladderVars, bounds, meddled>>

\* An operator's verify of the campaign's newest run, between two of the driver's phases (once
\* on a run, so that the driver's poll meets an idle run in the end).
OperatorPhase ==
    /\ job # "none" /\ runs # <<>> /\ Idle
    /\ Len(runs) \notin meddled /\ Cardinality(meddled) < MaxMeddled
    /\ phase' = [name |-> "verify", by |-> "operator"]
    /\ meddled' = meddled \cup {Len(runs)}
    /\ UNCHANGED <<board, driver, runs, record, ladderVars, bounds>>

(***************************************************************************)
(* Repeat: the next repetition, or the summary.                            *)
(***************************************************************************)
\* The stages in the order Repeat runs them, the ones the options leave out skipped.
After(s) ==
    IF s = "warmup" /\ Reps > 0 THEN "measured"
    ELSE IF s \in {"warmup", "measured"} /\ Sweep THEN "sweep"
    ELSE IF s \in {"warmup", "measured", "sweep"} /\ Burst THEN "burst"
    ELSE "summary"

\* writeSummaryCSV: failed repetitions are counted and contribute to nothing else.
writeSummary(ms) ==
    [measured |-> Len(ms), failed |-> Cardinality({i \in 1..Len(ms) : ms[i]}), written |-> TRUE]

\* Repeat goes on with stage s, or writes the summary and returns; a summary that cannot
\* be written fails the job.
Proceed(s, ms) ==
    IF s = "summary"
    THEN /\ \/ summary' = writeSummary(ms) /\ EndJob("done")
            \/ UNCHANGED summary /\ EndJob("failed")
         /\ UNCHANGED <<stage, index>>
    ELSE /\ stage' = s /\ index' = 1 /\ pc' = "create"
         /\ UNCHANGED <<board, record>>

Again == index' = index + 1 /\ pc' = "create" /\ UNCHANGED <<stage, board, record>>

\* Warm-ups and the one burst: their results are discarded.
NextDiscarded ==
    /\ pc = "next" /\ stage \in {"warmup", "burst"}
    /\ IF stage = "warmup" /\ index < Warmups THEN Again ELSE Proceed(After(stage), measured)
    /\ UNCHANGED <<large, got, gate, measured, steps, plateau, clean, runs, phase, ladderVars, bounds, meddled>>

NextMeasured ==
    /\ pc = "next" /\ stage = "measured"
    /\ measured' = Append(measured, got.failed)
    /\ IF index < Reps THEN Again ELSE Proceed(After("measured"), measured')
    /\ UNCHANGED <<large, got, gate, steps, plateau, clean, runs, phase, ladderVars, bounds, meddled>>

\* A step as its perf.csv row reads: no row, or a cell that does not parse, is absent.
Step == [tps: 0..MaxTps, have: BOOLEAN, dropped: BOOLEAN]

\* Mutant: a step that dropped ballots is climbed on.
StepStops_DropsForgiven(st) ==
    \/ ~st.have
    \/ index > 1 /\ st.tps < plateau

\* The sweep returns the plateau so far: ballots dropped, nothing measured, or throughput fell.
StepStops(st) ==
    \/ st.dropped
    \/ ~st.have
    \/ index > 1 /\ st.tps < plateau

NextSweep ==
    /\ pc = "next" /\ stage = "sweep"
    /\ \E st \in Step :
          /\ ~got.perf => ~st.have /\ ~st.dropped
          /\ steps' = Append(steps, st)
          /\ plateau' = IF StepStops(st) THEN plateau ELSE st.tps
          /\ IF StepStops(st) \/ index = maxSweepSteps
             THEN Proceed(After("sweep"), measured)
             ELSE Again
    /\ UNCHANGED <<large, got, gate, measured, clean, runs, phase, ladderVars, bounds, meddled>>

(***************************************************************************)
(* RunLadder.                                                              *)
(***************************************************************************)
\* Mutant: the data-validation gate's verdict is not looked at.
TierPasses_Ungated == ~got.failed

TierPasses == gate /\ ~got.failed

\* A failing tier ends the ladder with an error; after the last, ladder.json is pinned to the
\* build's commit, unless the write or the commit's lookup fails.
NextTier ==
    /\ pc = "next" /\ stage = "ladder"
    /\ clean' = (clean /\ gate /\ ~got.failed)
    /\ \/ /\ TierPasses /\ index < Tiers
          /\ Again
          /\ UNCHANGED <<ladder, passed>>
       \/ /\ TierPasses /\ index = Tiers
          /\ passed' = IF clean' THEN passed \cup {head} ELSE passed
          /\ ladder' \in {head, ladder}
          /\ EndJob("done")
          /\ UNCHANGED <<stage, index, summary>>
       \/ /\ ~TierPasses
          /\ EndJob("failed")
          /\ UNCHANGED <<stage, index, summary, ladder, passed>>
    /\ UNCHANGED <<large, got, gate, measured, steps, plateau, runs, phase, head, bounds, meddled>>

(***************************************************************************)
(* The console stops, and is read after it was started again.              *)
(***************************************************************************)
\* A restart forgets the job, its driver and the live record; the build may be another one.
Stop ==
    /\ stops < MaxStops
    /\ stops' = stops + 1
    /\ job' = "none" /\ cancel' = FALSE /\ large' = FALSE /\ pc' = "idle" /\ phase' = NoPhase
    /\ head' \in {head, head + 1}
    /\ stage' = "warmup" /\ index' = 0 /\ got' = NothingGot /\ gate' = FALSE
    /\ measured' = <<>> /\ steps' = <<>> /\ plateau' = 0 /\ clean' = TRUE /\ rows' = <<>>
    /\ UNCHANGED <<runs, file, saveErr, summary, ladder, passed, started, meddled>>

\* loadCampaign: a file that says running and that no job owns is marked interrupted, its rows
\* settled from their folders.
LoadCampaign ==
    /\ job # "campaign" /\ file.status = "running"
    /\ persistCampaign("interrupted", refreshReps(file.rows))
    /\ UNCHANGED <<board, driver, runs, phase, rows, summary, ladderVars, bounds, meddled>>

DriverStep ==
    \/ CancelAnswered \/ GenerateRefused \/ Generate \/ CheckGate \/ Submit \/ Submitted \/ Ceremony
    \/ Verify \/ Verified \/ CollectPerf \/ CollectJournal
    \/ NextDiscarded \/ NextMeasured \/ NextSweep \/ NextTier

Next ==
    \/ StartCampaign \/ StartLadder \/ RequestCancel
    \/ DriverStep \/ PhaseEnds \/ OperatorPhase
    \/ Stop \/ LoadCampaign

Spec == Init /\ [][Next]_vars

\* The driver's goroutine runs, and a phase ends (every phase has the console's timeout).  The
\* ceremony's trustees are finite, so its loop is left in the end.
Fairness ==
    /\ WF_vars(DriverStep) /\ WF_vars(PhaseEnds)
    /\ SF_vars(Ceremony /\ pc' = "verify")

FairSpec == Spec /\ Fairness

(***************************************************************************)
(* Properties.                                                             *)
(***************************************************************************)
\* A campaign whose file claims to run while no job owns it, or that was marked interrupted, is one
\* the console stopped under or could not save: the save and the freeing of the slot are one
\* critical section (jobs.go:112-113).
NoFalseInterruption ==
    job # "campaign" /\ file.status \in {"running", "interrupted"} => stops > 0 \/ saveErr

\* A cancelled campaign stopped between repetitions: no phase of its own is running, and every row
\* it recorded is settled by the repetition's own end (internal.go:69-70).
CancelBetweenRepetitions ==
    file.status = "cancelled" =>
        /\ phase.by # "driver"
        /\ "running" \notin {file.rows[i] : i \in 1..Len(file.rows)}
        /\ \A i \in 1..Len(file.rows) : i \notin meddled =>
              (file.rows[i] = "done" <=> Good(runs[i]))

\* The campaign's rows and its summary agree on every measured repetition no one else touched,
\* though they are read from the run's folder at three different moments.
SummaryMatchesRows ==
    summary.written => \A i \in 1..Len(measured) :
        Warmups + i \in meddled \/ (measured[i] <=> rows[Warmups + i] = "failed")

\* The plateau a sweep reports is the best throughput of the steps that shed no load.
PlateauIsBestStep ==
    \/ plateau = 0
    \/ \E i \in 1..Len(steps) :
          /\ steps[i].tps = plateau /\ steps[i].have /\ ~steps[i].dropped
          /\ \A k \in 1..i : steps[k].tps <= plateau

\* The figures a campaign or a sweep publishes are those of its runs; and every variable has
\* its type.
FiguresTrue == TypeOK /\ SummaryMatchesRows /\ PlateauIsBestStep

\* A large tier is run only by a build on which every tier of a ladder has passed: ladder.json is
\* written after the last tier only, and the gate compares its commit with the running build's.
LargeNeedsLadder == job = "campaign" /\ large /\ runs # <<>> => head \in passed

\* A cancelled job lets go of the slot in the end, after the repetition it is in.
CancelFrees == cancel ~> job = "none"

\* Violated, see README.  "A single failing tier leaves no ladder.json, so the large-tier gate stays shut"
\* (repeat.go:711-712): the gate is shut once the latest ladder on this build has failed.
LadderShutAfterFailure ==
    [][(pc = "next" /\ stage = "ladder" /\ ~TierPasses /\ job' = "none") => ladder' # head]_vars
=============================================================================
