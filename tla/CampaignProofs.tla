---------------------------- MODULE CampaignProofs ----------------------------
(***************************************************************************)
(* Proofs about campaigns, sweeps and the ladder, for any options, any     *)
(* number of tiers, sweep steps and jobs, and any number of stops.         *)
(***************************************************************************)
EXTENDS Campaign, TLAPS, SequenceTheorems

Folder == [perf: BOOLEAN, end: {"none", "ok", "failed"}]
FileStates == {"absent", "running", "done", "failed", "cancelled", "interrupted"}

\* The types of the driver's variables, of the runs' and their figures', of the
\* record's and of the ladder's.
DriverTypes ==
    /\ job \in {"none", "campaign", "ladder"}
    /\ cancel \in BOOLEAN /\ large \in BOOLEAN
    /\ pc \in {"idle", "create", "generating", "submit", "submitting", "ceremony", "verify",
               "verifying", "perf", "journal", "next"}
    /\ stage \in Stages /\ index \in 0..MaxRuns
    /\ phase \in [name: {"none", "generate", "submit", "ceremony", "verify"},
                  by: {"none", "driver", "operator"}]
    /\ got \in [perf: BOOLEAN, failed: BOOLEAN] /\ gate \in BOOLEAN

RunTypes ==
    /\ runs \in Seq(Folder) /\ meddled \subseteq 1..Len(runs)
    /\ measured \in Seq(BOOLEAN) /\ steps \in Seq(Step) /\ plateau \in 0..MaxTps

RecordTypes ==
    /\ rows \in Seq(RowStates)
    /\ file \in [status: FileStates, rows: Seq(RowStates)]
    /\ saveErr \in BOOLEAN

LadderTypes ==
    stops \in 0..MaxStops /\ head \in 1..(stops + 1) /\ ladder \in 0..(stops + 1)

\* Where the driver's own phases run, and where the newest row is not settled yet.
Waiting == {"generating", "submitting", "verifying"}
Driving == Waiting \cup {"submit", "ceremony", "verify", "perf"}

\* How many repetitions a stage has.
Limit(s) ==
    CASE s = "warmup" -> Warmups [] s = "measured" -> Reps [] s = "sweep" -> maxSweepSteps
      [] s = "burst" -> 1 [] s = "ladder" -> Tiers

\* The driver, the slot and the phase on the newest run belong together.
DriverInv ==
    /\ pc = "idle" <=> job = "none"
    /\ pc # "idle" => (stage = "ladder" <=> job = "ladder") /\ index \in 1..Limit(stage)
    /\ pc \notin {"idle", "create"} => runs # <<>>
    /\ phase # NoPhase => phase.by # "none"
    /\ phase.by = "driver" => pc \in Waiting
    /\ phase.by = "operator" => Len(runs) \in meddled

\* The live record has a row per run, only the newest may be unsettled, and a settled
\* one still agrees with its folder unless an operator went over that run.
RowsInv ==
    /\ Len(rows) <= Len(runs)
    /\ job = "campaign" => Len(rows) = Len(runs)
    /\ job = "ladder" => rows = <<>>
    /\ job = "campaign" /\ pc \in Driving => rows[Len(rows)] = "running"
    /\ \A i \in 1..Len(rows) :
          /\ rows[i] = "running" => i = Len(rows) /\ pc \in Driving
          /\ rows[i] # "running" /\ i \notin meddled => (rows[i] = "done" <=> Good(runs[i]))

\* What collect has read of the newest run so far is still what the folder says.
GotInv ==
    /\ pc = "journal" => Len(runs) \in meddled \/ (got.failed <=> ~Newest.perf)
    /\ pc = "next" => Len(runs) \in meddled \/ (got.failed <=> ~Good(Newest))

\* Measured repetition i is run Warmups + i, and was judged as its row was.
MeasuredInv ==
    /\ pc # "idle" /\ stage \in {"warmup", "measured"} =>
          Len(runs) = (IF stage = "warmup" THEN 0 ELSE Warmups) + (IF pc = "create" THEN index - 1 ELSE index)
    /\ pc # "idle" /\ stage = "warmup" => measured = <<>>
    /\ pc # "idle" /\ stage = "measured" => Len(measured) = index - 1
    /\ \A i \in 1..Len(measured) :
          /\ Warmups + i <= Len(rows) /\ rows[Warmups + i] # "running"
          /\ Warmups + i \in meddled \/ (measured[i] <=> rows[Warmups + i] = "failed")

\* A sweep goes on only over steps none of which fell below the plateau.
SweepInv ==
    /\ pc # "idle" /\ stage \in {"warmup", "measured"} => steps = <<>>
    /\ pc # "idle" /\ stage = "sweep" =>
          Len(steps) = index - 1 /\ \A k \in 1..Len(steps) : steps[k].tps <= plateau
    /\ PlateauIsBestStep

\* A ladder.json names a commit whose ladder passed, and the gate was passed by what
\* now runs.
LadderInv ==
    /\ pc # "idle" => clean = TRUE
    /\ ladder # 0 => ladder \in passed
    /\ LargeNeedsLadder

\* What the file may say when no campaign holds the slot.
FileInv ==
    /\ NoFalseInterruption
    /\ file.status = "cancelled" =>
          /\ job = "none" /\ Len(file.rows) <= Len(runs)
          /\ \A i \in 1..Len(file.rows) :
                /\ file.rows[i] # "running"
                /\ i \notin meddled => (file.rows[i] = "done" <=> Good(runs[i]))

CampaignInv ==
    /\ DriverTypes /\ RunTypes /\ RecordTypes /\ LadderTypes
    /\ DriverInv /\ RowsInv /\ GotInv /\ MeasuredInv /\ SweepInv /\ LadderInv /\ FileInv

-----------------------------------------------------------------------------
(* The record's operators.                                                   *)

\* A function over 1..n is a sequence of length n.
LEMMA SeqOfFun ==
    ASSUME NEW S, NEW n \in Nat, NEW f \in [1..n -> S]
    PROVE  f \in Seq(S) /\ Len(f) = n
BY IsASeq

\* What a save writes.
LEMMA FileType ==
    ASSUME NEW st \in FileStates, NEW rs \in Seq(RowStates)
    PROVE  [status |-> st, rows |-> rs] \in [status: FileStates, rows: Seq(RowStates)]
OBVIOUS

\* A job has room for a run.
LEMMA MaxRunsNat == MaxRuns \in Nat /\ 1 <= MaxRuns
BY OptionsAssumption, BoundsAssumption DEF MaxRuns

\* A folder that is over is as good as it was.
LEMMA OverGood ==
    ASSUME NEW f \in Folder
    PROVE  Over(f) \in Folder /\ (Good(Over(f)) <=> Good(f))
BY DEF Over, Good, Folder

\* A refreshed record has a settled row for each row it had, and the settled ones stay
\* as they are.
LEMMA RefreshReps ==
    ASSUME NEW rs \in Seq(RowStates)
    PROVE  /\ refreshReps(rs) \in Seq(RowStates)
           /\ Len(refreshReps(rs)) = Len(rs)
           /\ \A i \in 1..Len(rs) :
                /\ refreshReps(rs)[i] # "running"
                /\ rs[i] # "running" => refreshReps(rs)[i] = rs[i]
                /\ rs[i] = "running" => (refreshReps(rs)[i] = "done" <=> Good(runs[i]))
<1>1. \A i \in 1..Len(rs) : rs[i] \in RowStates
  OBVIOUS
<1>2. refreshReps(rs) \in [1..Len(rs) -> RowStates]
  BY <1>1 DEF refreshReps, settle, RowStates
<1>3. Len(rs) \in Nat
  OBVIOUS
<1>4. refreshReps(rs) \in Seq(RowStates) /\ Len(refreshReps(rs)) = Len(rs)
  BY <1>2, <1>3, SeqOfFun
<1> QED
  BY <1>1, <1>4 DEF refreshReps, settle, RowStates

\* A record whose rows are all settled is not changed by a refresh.
LEMMA RefreshSettled ==
    ASSUME NEW rs \in Seq(RowStates), \A i \in 1..Len(rs) : rs[i] # "running"
    PROVE  refreshReps(rs) = rs
<1>1. rs = [i \in 1..Len(rs) |-> rs[i]]
  OBVIOUS
<1> QED
  BY <1>1 DEF refreshReps, settle

\* A job that ends between two repetitions has its rows settled already: the save is of
\* the record as it stands, or fails; a ladder saves nothing.
LEMMA EndJobRecord ==
    ASSUME CampaignInv, NEW st, EndJob(st), pc \in {"create", "next"}
    PROVE  /\ rows' = rows /\ job' = "none" /\ pc' = "idle" /\ cancel' = FALSE
           /\ \/ job = "ladder" /\ file' = file /\ saveErr' = saveErr
              \/ file' = [status |-> st, rows |-> rows] /\ saveErr' = saveErr
              \/ file' = file /\ saveErr' = TRUE
<1>1. refreshReps(rows) = rows
  BY RefreshSettled DEF CampaignInv, DriverTypes, RunTypes, RecordTypes, RowsInv,
     Driving, Waiting
<1> QED
  BY <1>1 DEF EndJob, persistCampaign

-----------------------------------------------------------------------------
(* The invariant, action by action.                                          *)

\* A campaign starts from nothing: no runs, no rows, no figures.
LEMMA StartCampaignKeeps ==
    ASSUME CampaignInv, StartCampaign
    PROVE  CampaignInv'
<1> USE DEF StartCampaign, ResetDriver, board, driver, record, ladderVars, bounds, NoFile,
    NoPhase, NoSummary, NothingGot
<1>0. /\ FirstStage \in {"warmup", "measured", "sweep", "burst"}
      /\ 1 \in 1..Limit(FirstStage)
      /\ FirstStage # "warmup" => Warmups = 0
  <2>1. CASE Warmups > 0
    BY <2>1, OptionsAssumption DEF FirstStage, Limit
  <2>2. CASE Warmups = 0 /\ Reps > 0
    BY <2>2, OptionsAssumption DEF FirstStage, Limit
  <2>3. CASE Warmups = 0 /\ Reps = 0 /\ Sweep
    BY <2>3, OptionsAssumption, BoundsAssumption DEF FirstStage, Limit
  <2>4. CASE Warmups = 0 /\ Reps = 0 /\ ~Sweep
    BY <2>4, OptionsAssumption DEF FirstStage, Limit
  <2> QED
    BY <2>1, <2>2, <2>3, <2>4, OptionsAssumption
<1>1. DriverTypes'
  <2>1. index' \in 0..MaxRuns /\ stage' \in Stages
    BY <1>0, MaxRunsNat DEF Stages
  <2>2. /\ phase' \in [name: {"none", "generate", "submit", "ceremony", "verify"},
                     by: {"none", "driver", "operator"}]
        /\ got' \in [perf: BOOLEAN, failed: BOOLEAN]
    OBVIOUS
  <2> QED
    BY <2>1, <2>2 DEF CampaignInv, DriverTypes
<1>2. RunTypes'
  BY <1>0, OptionsAssumption, BoundsAssumption, EmptySeq DEF CampaignInv, RunTypes
<1>3. RecordTypes'
  BY <1>0, OptionsAssumption, BoundsAssumption, EmptySeq, FileType DEF FileStates,
     CampaignInv, RecordTypes
<1>4. LadderTypes'
  BY <1>0, OptionsAssumption, BoundsAssumption DEF CampaignInv, LadderTypes
<1>5. DriverInv'
  BY <1>0, OptionsAssumption, BoundsAssumption DEF CampaignInv, DriverTypes, RunTypes,
     RecordTypes, DriverInv, NoPhase, Waiting
<1>6. RowsInv'
  BY <1>0, OptionsAssumption, BoundsAssumption DEF CampaignInv, DriverTypes, RunTypes,
     RecordTypes, DriverInv, RowsInv, Waiting, Driving
<1>7. GotInv'
  BY <1>0, OptionsAssumption, BoundsAssumption DEF CampaignInv, DriverTypes, RunTypes,
     RecordTypes, DriverInv, GotInv, Newest, Waiting
<1>8. MeasuredInv'
  BY <1>0, OptionsAssumption, BoundsAssumption DEF CampaignInv, DriverTypes, RunTypes,
     RecordTypes, DriverInv, RowsInv, MeasuredInv
<1>9. SweepInv'
  BY <1>0, OptionsAssumption, BoundsAssumption, EmptySeq DEF CampaignInv, DriverTypes,
     RunTypes, RecordTypes, DriverInv, SweepInv, PlateauIsBestStep
<1>10. LadderInv'
  BY <1>0, OptionsAssumption, BoundsAssumption DEF CampaignInv, LadderTypes,
     DriverTypes, RunTypes, RecordTypes, DriverInv, LadderInv, LargeNeedsLadder
<1>11. FileInv'
  BY <1>0, OptionsAssumption, BoundsAssumption DEF CampaignInv, LadderTypes,
     DriverTypes, RunTypes, RecordTypes, DriverInv, FileInv, NoFalseInterruption
<1> QED
  BY <1>1, <1>2, <1>3, <1>4, <1>5, <1>6, <1>7, <1>8, <1>9, <1>10, <1>11 DEF CampaignInv

\* So does a ladder.
LEMMA StartLadderKeeps ==
    ASSUME CampaignInv, StartLadder
    PROVE  CampaignInv'
<1> USE DEF StartLadder, ResetDriver, board, driver, record, ladderVars, bounds, NoFile,
    NoPhase, NoSummary, NothingGot
<1>1. DriverTypes'
  <2>1. index' \in 0..MaxRuns /\ stage' \in Stages
    BY MaxRunsNat DEF Stages
  <2>2. /\ phase' \in [name: {"none", "generate", "submit", "ceremony", "verify"},
                     by: {"none", "driver", "operator"}]
        /\ got' \in [perf: BOOLEAN, failed: BOOLEAN]
    OBVIOUS
  <2> QED
    BY <2>1, <2>2 DEF CampaignInv, DriverTypes
<1>2. RunTypes'
  BY OptionsAssumption, BoundsAssumption, EmptySeq DEF CampaignInv, RunTypes
<1>3. RecordTypes'
  BY OptionsAssumption, BoundsAssumption, EmptySeq, FileType DEF FileStates,
     CampaignInv, RecordTypes
<1>4. LadderTypes'
  BY OptionsAssumption, BoundsAssumption DEF CampaignInv, LadderTypes
<1>5. DriverInv'
  BY OptionsAssumption, BoundsAssumption DEF Limit, CampaignInv, DriverTypes,
     RunTypes, RecordTypes, DriverInv, NoPhase, Waiting
<1>6. RowsInv'
  BY OptionsAssumption, BoundsAssumption DEF CampaignInv, DriverTypes, RunTypes,
     RecordTypes, DriverInv, RowsInv, Waiting, Driving
<1>7. GotInv'
  BY OptionsAssumption, BoundsAssumption DEF CampaignInv, DriverTypes, RunTypes,
     RecordTypes, DriverInv, GotInv, Newest, Waiting
<1>8. MeasuredInv'
  BY OptionsAssumption, BoundsAssumption DEF CampaignInv, DriverTypes, RunTypes,
     RecordTypes, DriverInv, RowsInv, MeasuredInv
<1>9. SweepInv'
  BY OptionsAssumption, BoundsAssumption DEF CampaignInv, DriverTypes, RunTypes,
     RecordTypes, DriverInv, SweepInv, PlateauIsBestStep
<1>10. LadderInv'
  BY OptionsAssumption, BoundsAssumption DEF CampaignInv, LadderTypes, DriverTypes,
     RunTypes, RecordTypes, DriverInv, LadderInv, LargeNeedsLadder
<1>11. FileInv'
  BY OptionsAssumption, BoundsAssumption DEF CampaignInv, LadderTypes, DriverTypes,
     RunTypes, RecordTypes, DriverInv, FileInv, NoFalseInterruption
<1> QED
  BY <1>1, <1>2, <1>3, <1>4, <1>5, <1>6, <1>7, <1>8, <1>9, <1>10, <1>11 DEF CampaignInv

\* A cancel sets a flag.
LEMMA RequestCancelKeeps ==
    ASSUME CampaignInv, RequestCancel
    PROVE  CampaignInv'
<1> USE DEF RequestCancel, board, driver, record, ladderVars, bounds
<1>1. DriverTypes'
  BY DEF CampaignInv, DriverTypes
<1>2. RunTypes'
  BY DEF CampaignInv, RunTypes
<1>3. RecordTypes'
  BY DEF CampaignInv, RecordTypes
<1>4. LadderTypes'
  BY DEF CampaignInv, LadderTypes
<1>5. DriverInv'
  BY DEF CampaignInv, DriverTypes, RunTypes, RecordTypes, DriverInv, NoPhase, Waiting
<1>6. RowsInv'
  BY DEF CampaignInv, DriverTypes, RunTypes, RecordTypes, DriverInv, RowsInv, Waiting,
     Driving
<1>7. GotInv'
  BY DEF CampaignInv, DriverTypes, RunTypes, RecordTypes, DriverInv, GotInv, Newest,
     Waiting
<1>8. MeasuredInv'
  BY DEF CampaignInv, DriverTypes, RunTypes, RecordTypes, DriverInv, RowsInv,
     MeasuredInv
<1>9. SweepInv'
  BY DEF CampaignInv, DriverTypes, RunTypes, RecordTypes, DriverInv, SweepInv,
     PlateauIsBestStep
<1>10. LadderInv'
  BY DEF CampaignInv, LadderTypes, DriverTypes, RunTypes, RecordTypes, DriverInv,
     LadderInv, LargeNeedsLadder
<1>11. FileInv'
  BY DEF CampaignInv, LadderTypes, DriverTypes, RunTypes, RecordTypes, DriverInv,
     FileInv, NoFalseInterruption
<1> QED
  BY <1>1, <1>2, <1>3, <1>4, <1>5, <1>6, <1>7, <1>8, <1>9, <1>10, <1>11 DEF CampaignInv

\* A job ends between two repetitions: nothing of its own runs, and the record is
\* settled.
LEMMA JobEndsKeeps ==
    ASSUME CampaignInv, pc \in {"create", "next"},
           NEW st \in {"done", "failed", "cancelled"}, EndJob(st),
           UNCHANGED <<large, stage, index, got, gate, runs, phase, bounds, meddled>>
    PROVE  DriverTypes' /\ RecordTypes' /\ DriverInv' /\ RowsInv' /\ GotInv' /\ FileInv'
<1>1. /\ rows' = rows /\ job' = "none" /\ pc' = "idle" /\ cancel' = FALSE
      /\ \/ job = "ladder" /\ file' = file /\ saveErr' = saveErr
         \/ file' = [status |-> st, rows |-> rows] /\ saveErr' = saveErr
         \/ file' = file /\ saveErr' = TRUE
  BY EndJobRecord
<1>2. DriverTypes'
  BY <1>1 DEF CampaignInv, DriverTypes
<1>3. RecordTypes'
  <2>1. [status |-> st, rows |-> rows] \in [status: FileStates, rows: Seq(RowStates)]
    BY FileType DEF FileStates, CampaignInv, RecordTypes
  <2> QED
    BY <1>1, <2>1 DEF CampaignInv, RecordTypes
<1>4. DriverInv' /\ GotInv'
  BY <1>1 DEF CampaignInv, DriverInv, GotInv, Waiting
<1>5. RowsInv'
  BY <1>1 DEF CampaignInv, RowsInv, Driving, Waiting
<1>6. FileInv'
  BY <1>1 DEF CampaignInv, RunTypes, RecordTypes, DriverInv, FileInv,
     NoFalseInterruption, RowsInv,
              Driving, Waiting, bounds
<1> QED
  BY <1>2, <1>3, <1>4, <1>5, <1>6

\* The driver goes on to another repetition.
LEMMA GoesOnKeeps ==
    ASSUME CampaignInv, pc = "next", pc' = "create", stage' \in Stages,
           stage' = "ladder" <=> stage = "ladder", index' \in 1..Limit(stage'),
           UNCHANGED <<board, record, large, got, gate, runs, phase, bounds, meddled>>
    PROVE  DriverTypes' /\ RecordTypes' /\ DriverInv' /\ RowsInv' /\ GotInv' /\ FileInv'
<1>1. index' \in 0..MaxRuns
  BY OptionsAssumption, BoundsAssumption DEF Limit, Stages, MaxRuns
<1>2. DriverTypes'
  BY <1>1 DEF CampaignInv, DriverTypes, board
<1>3. RecordTypes'
  BY DEF CampaignInv, RecordTypes, record
<1>4. DriverInv' /\ GotInv'
  BY DEF CampaignInv, DriverInv, GotInv, Waiting, board
<1>5. RowsInv'
  BY DEF CampaignInv, RowsInv, Driving, Waiting, board, record
<1>6. FileInv'
  BY DEF CampaignInv, FileInv, NoFalseInterruption, board, record, bounds
<1> QED
  BY <1>2, <1>3, <1>4, <1>5, <1>6

\* What comes after a stage is one the options ask for.
LEMMA AfterStage ==
    ASSUME NEW s \in {"warmup", "measured", "sweep", "burst"}, After(s) # "summary"
    PROVE  /\ After(s) \in {"measured", "sweep", "burst"} /\ After(s) # s
           /\ 1 \in 1..Limit(After(s))
           /\ After(s) = "measured" => s = "warmup"
           /\ After(s) = "sweep" => s \in {"warmup", "measured"}
BY OptionsAssumption, BoundsAssumption DEF After, Limit

\* A job that ends before its next /generate keeps its figures as they were.
LEMMA CreateEndsKeeps ==
    ASSUME CampaignInv, CancelAnswered \/ GenerateRefused
    PROVE  CampaignInv'
<1>1. /\ pc = "create" /\ \E st \in {"done", "failed", "cancelled"} : EndJob(st)
      /\ UNCHANGED <<large, stage, index, got, gate, measured, steps, plateau, clean, runs, phase,
                     summary, ladderVars, bounds, meddled>>
  BY DEF CancelAnswered, GenerateRefused
<1>2. rows' = rows /\ pc' = "idle" /\ job' = "none"
  BY <1>1, EndJobRecord
<1>3. DriverTypes' /\ RecordTypes' /\ DriverInv' /\ RowsInv' /\ GotInv' /\ FileInv'
  BY <1>1, JobEndsKeeps
<1>4. RunTypes' /\ LadderTypes'
  BY <1>1 DEF CampaignInv, RunTypes, LadderTypes, ladderVars, bounds
<1>5. MeasuredInv'
  BY <1>1, <1>2 DEF CampaignInv, MeasuredInv
<1>6. SweepInv' /\ LadderInv'
  BY <1>1, <1>2 DEF CampaignInv, SweepInv, PlateauIsBestStep, LadderInv,
     LargeNeedsLadder, ladderVars
<1> QED
  BY <1>3, <1>4, <1>5, <1>6 DEF CampaignInv

\* What a stage's end does, the figures apart.
LEMMA ProceedKeeps ==
    ASSUME CampaignInv, pc = "next", stage \in {"warmup", "measured", "sweep", "burst"},
           NEW ms, Proceed(After(stage), ms),
           UNCHANGED <<large, got, gate, runs, phase, bounds, meddled>>
    PROVE  /\ DriverTypes' /\ RecordTypes' /\ DriverInv' /\ RowsInv' /\ GotInv' /\ FileInv'
           /\ rows' = rows
           /\ \/ pc' = "idle" /\ job' = "none"
              \/ pc' = "create" /\ job' = job /\ stage' = After(stage) /\ index' = 1 /\ After(stage) # "summary"
<1>1. CASE After(stage) = "summary"
  <2>1. (EndJob("done") \/ EndJob("failed")) /\ UNCHANGED <<stage, index>>
    BY <1>1 DEF Proceed
  <2> QED
    BY <2>1, JobEndsKeeps, EndJobRecord
<1>2. CASE After(stage) # "summary"
  <2>1. stage' = After(stage) /\ index' = 1 /\ pc' = "create" /\ UNCHANGED <<board, record>>
    BY <1>2 DEF Proceed
  <2>2. stage' \in Stages /\ stage' # "ladder" /\ stage # "ladder" /\ index' \in 1..Limit(stage')
    BY <1>2, <2>1, AfterStage DEF Stages
  <2> QED
    BY <1>2, <2>1, <2>2, GoesOnKeeps DEF board, record
<1> QED
  BY <1>1, <1>2

\* What another repetition of the same stage does, the figures apart.
LEMMA AgainKeeps ==
    ASSUME CampaignInv, pc = "next", Again, index < Limit(stage),
           UNCHANGED <<large, got, gate, runs, phase, bounds, meddled>>
    PROVE  /\ DriverTypes' /\ RecordTypes' /\ DriverInv' /\ RowsInv' /\ GotInv' /\ FileInv'
           /\ rows' = rows /\ pc' = "create" /\ job' = job /\ stage' = stage /\ index' = index + 1
<1>1. index' = index + 1 /\ pc' = "create" /\ stage' = stage /\ UNCHANGED <<board, record>>
  BY DEF Again
<1>2. stage \in Stages /\ index \in 1..Limit(stage) /\ Limit(stage) \in Nat
  BY OptionsAssumption, BoundsAssumption DEF CampaignInv, DriverTypes, DriverInv,
     Stages, Limit
<1>3. index' \in 1..Limit(stage')
  BY <1>1, <1>2
<1> QED
  BY <1>1, <1>2, <1>3, GoesOnKeeps DEF board, record

\* Warm-ups and bursts leave no figures.
LEMMA NextDiscardedKeeps ==
    ASSUME CampaignInv, NextDiscarded
    PROVE  CampaignInv'
<1>1. /\ pc = "next" /\ stage \in {"warmup", "burst"}
      /\ UNCHANGED <<large, got, gate, measured, steps, plateau, clean, runs, phase, ladderVars,
                     bounds, meddled>>
  BY DEF NextDiscarded
<1>2. /\ DriverTypes' /\ RecordTypes' /\ DriverInv' /\ RowsInv' /\ GotInv' /\ FileInv'
      /\ rows' = rows
      /\ \/ pc' = "idle" /\ job' = "none"
         \/ pc' = "create" /\ job' = job /\ stage' = "warmup" /\ stage = "warmup" /\ index' = index + 1
         \/ /\ pc' = "create" /\ job' = job /\ stage' = After(stage) /\ index' = 1
            /\ After(stage) # "summary" /\ (stage = "warmup" => index = Warmups)
  <2>1. CASE stage = "warmup" /\ index < Warmups
    BY <1>1, <2>1, AgainKeeps DEF NextDiscarded, Limit
  <2>2. CASE ~(stage = "warmup" /\ index < Warmups)
    <3>1. stage = "warmup" => index = Warmups
      BY <1>1, <2>2, OptionsAssumption DEF CampaignInv, DriverTypes, DriverInv, Limit
    <3> QED
      BY <1>1, <2>2, <3>1, ProceedKeeps DEF NextDiscarded
  <2> QED
    BY <2>1, <2>2
<1>3. RunTypes' /\ LadderTypes'
  BY <1>1 DEF CampaignInv, RunTypes, LadderTypes, ladderVars, bounds
<1>4. MeasuredInv'
  <2>1. \A i \in 1..Len(measured') :
          /\ Warmups + i <= Len(rows') /\ rows'[Warmups + i] # "running"
          /\ Warmups + i \in meddled' \/ (measured'[i] <=> rows'[Warmups + i] = "failed")
    BY <1>1, <1>2 DEF CampaignInv, MeasuredInv
  <2>2. stage = "warmup" => Len(runs) = index /\ measured = <<>>
    BY <1>1, OptionsAssumption DEF CampaignInv, DriverTypes, MeasuredInv
  <2>3. CASE pc' = "idle"
    BY <2>1, <2>3 DEF MeasuredInv
  <2>4. CASE pc' = "create" /\ stage' = "warmup" /\ stage = "warmup" /\ index' = index + 1
    BY <1>1, <2>1, <2>2, <2>4 DEF CampaignInv, DriverTypes, MeasuredInv
  <2>5. CASE /\ pc' = "create" /\ stage' = After(stage) /\ index' = 1
             /\ After(stage) # "summary" /\ (stage = "warmup" => index = Warmups)
    <3>1. stage' # "warmup" /\ (stage' = "measured" => stage = "warmup")
      BY <1>1, <2>5, AfterStage
    <3> QED
      BY <1>1, <2>1, <2>2, <2>5, <3>1, OptionsAssumption DEF MeasuredInv
  <2> QED
    BY <1>2, <2>3, <2>4, <2>5
<1>5. SweepInv'
  BY <1>1, <1>2, AfterStage DEF CampaignInv, RunTypes, SweepInv, PlateauIsBestStep
<1>6. LadderInv'
  BY <1>1, <1>2 DEF CampaignInv, LadderInv, LargeNeedsLadder, ladderVars
<1> QED
  BY <1>2, <1>3, <1>4, <1>5, <1>6 DEF CampaignInv

\* A measured repetition is judged as its row was, the run being the row's.
LEMMA NextMeasuredKeeps ==
    ASSUME CampaignInv, NextMeasured
    PROVE  CampaignInv'
<1>1. /\ pc = "next" /\ stage = "measured" /\ measured' = Append(measured, got.failed)
      /\ UNCHANGED <<large, got, gate, steps, plateau, clean, runs, phase, ladderVars, bounds, meddled>>
  BY DEF NextMeasured
<1>2. /\ DriverTypes' /\ RecordTypes' /\ DriverInv' /\ RowsInv' /\ GotInv' /\ FileInv'
      /\ rows' = rows
      /\ \/ pc' = "idle" /\ job' = "none"
         \/ pc' = "create" /\ job' = job /\ stage' = "measured" /\ index' = index + 1
         \/ pc' = "create" /\ job' = job /\ stage' \in {"sweep", "burst"} /\ index' = 1
  <2>1. CASE index < Reps
    BY <1>1, <2>1, AgainKeeps DEF NextMeasured, Limit
  <2>2. CASE ~(index < Reps)
    BY <1>1, <2>2, ProceedKeeps, AfterStage DEF NextMeasured
  <2> QED
    BY <2>1, <2>2
<1>3. /\ measured' \in Seq(BOOLEAN) /\ Len(measured') = Len(measured) + 1
      /\ \A i \in 1..Len(measured) : measured'[i] = measured[i]
      /\ measured'[Len(measured) + 1] = got.failed
  <2>1. measured \in Seq(BOOLEAN) /\ got.failed \in BOOLEAN
    BY DEF CampaignInv, DriverTypes, RunTypes
  <2> QED
    BY <1>1, <2>1
<1>4. RunTypes' /\ LadderTypes'
  BY <1>1, <1>3 DEF CampaignInv, RunTypes, LadderTypes, ladderVars, bounds
<1>5. Warmups + Len(measured) + 1 = Len(runs) /\ Len(rows) = Len(runs) /\ Len(measured) = index - 1
  <2>1. job = "campaign"
    BY <1>1 DEF CampaignInv, DriverTypes, DriverInv
  <2>2. Len(rows) = Len(runs)
    BY <2>1 DEF CampaignInv, RowsInv
  <2>3. Len(runs) = Warmups + index /\ Len(measured) = index - 1
    BY <1>1 DEF CampaignInv, MeasuredInv
  <2>4. Len(runs) \in Nat /\ index \in Nat
    BY DEF CampaignInv, DriverTypes, RunTypes
  <2> QED
    BY <2>2, <2>3, <2>4, OptionsAssumption
<1>6. /\ rows[Len(runs)] \in {"done", "failed"}
      /\ Len(runs) \in meddled \/ (got.failed <=> rows[Len(runs)] = "failed")
  <2>1. Len(runs) \in 1..Len(rows)
    BY <1>1, <1>5 DEF CampaignInv, RunTypes, DriverInv
  <2>2. rows[Len(runs)] # "running" /\ rows[Len(runs)] \in RowStates
    BY <1>1, <2>1 DEF CampaignInv, RecordTypes, RowsInv, Driving, Waiting
  <2> QED
    BY <1>1, <2>1, <2>2 DEF CampaignInv, RowsInv, GotInv, Newest, RowStates
<1>7. MeasuredInv'
  <2>1. ASSUME NEW i \in 1..Len(measured')
        PROVE  /\ Warmups + i <= Len(rows') /\ rows'[Warmups + i] # "running"
               /\ Warmups + i \in meddled' \/ (measured'[i] <=> rows'[Warmups + i] = "failed")
    <3>1. CASE i = Len(measured) + 1
      BY <1>1, <1>2, <1>3, <1>5, <1>6, <3>1, OptionsAssumption
    <3>2. CASE i \in 1..Len(measured)
      BY <1>1, <1>2, <1>3, <3>2 DEF CampaignInv, MeasuredInv
    <3> QED
      BY <1>3, <3>1, <3>2 DEF CampaignInv, RunTypes
  <2> QED
    <3>1. index \in Nat /\ Len(measured) \in Nat /\ Len(runs') = Len(runs)
      BY <1>1 DEF CampaignInv, DriverTypes, RunTypes
    <3>2. CASE pc' = "create" /\ stage' = "measured" /\ index' = index + 1
      BY <1>3, <1>5, <2>1, <3>1, <3>2, OptionsAssumption DEF MeasuredInv
    <3>3. CASE pc' = "idle" \/ stage' \in {"sweep", "burst"}
      BY <2>1, <3>3 DEF MeasuredInv
    <3> QED
      BY <1>2, <3>2, <3>3
<1>8. SweepInv'
  BY <1>1, <1>2 DEF CampaignInv, RunTypes, SweepInv, PlateauIsBestStep
<1>9. LadderInv'
  BY <1>1, <1>2 DEF CampaignInv, LadderInv, LargeNeedsLadder, ladderVars
<1> QED
  BY <1>2, <1>4, <1>7, <1>8, <1>9 DEF CampaignInv

\* A step the sweep climbs on is the best so far, and one it stops at leaves the
\* plateau.
LEMMA NextSweepKeeps ==
    ASSUME CampaignInv, NextSweep
    PROVE  CampaignInv'
<1>1. PICK st \in Step :
        /\ pc = "next" /\ stage = "sweep" /\ steps' = Append(steps, st)
        /\ plateau' = IF StepStops(st) THEN plateau ELSE st.tps
        /\ IF StepStops(st) \/ index = maxSweepSteps THEN Proceed(After("sweep"), measured) ELSE Again
        /\ UNCHANGED <<large, got, gate, measured, clean, runs, phase, ladderVars, bounds, meddled>>
  BY DEF NextSweep
<1>2. /\ DriverTypes' /\ RecordTypes' /\ DriverInv' /\ RowsInv' /\ GotInv' /\ FileInv'
      /\ rows' = rows
      /\ \/ pc' = "idle" /\ job' = "none"
         \/ /\ pc' = "create" /\ job' = job /\ stage' = "sweep" /\ index' = index + 1
            /\ ~StepStops(st)
         \/ pc' = "create" /\ job' = job /\ stage' = "burst"
  <2>1. CASE StepStops(st) \/ index = maxSweepSteps
    BY <1>1, <2>1, ProceedKeeps, AfterStage
  <2>2. CASE ~(StepStops(st) \/ index = maxSweepSteps)
    <3>1. index < maxSweepSteps
      BY <1>1, <2>2, BoundsAssumption DEF CampaignInv, DriverTypes, DriverInv, Limit
    <3> QED
      BY <1>1, <2>2, <3>1, AgainKeeps DEF Limit
  <2> QED
    BY <2>1, <2>2
<1>3. /\ steps' \in Seq(Step) /\ Len(steps') = Len(steps) + 1
      /\ \A i \in 1..Len(steps) : steps'[i] = steps[i]
      /\ steps'[Len(steps) + 1] = st
  BY <1>1 DEF CampaignInv, RunTypes
<1>4. /\ st.tps \in 0..MaxTps /\ plateau \in 0..MaxTps /\ Len(steps) = index - 1
      /\ index \in Nat \ {0}
      /\ \A k \in 1..Len(steps) : steps[k].tps \in 0..MaxTps /\ steps[k].tps <= plateau
  <2>1. \A k \in 1..Len(steps) : steps[k] \in Step
    BY DEF CampaignInv, RunTypes
  <2> QED
    BY <1>1, <2>1 DEF CampaignInv, DriverTypes, RunTypes, DriverInv, SweepInv, Step
<1>5. RunTypes' /\ LadderTypes'
  BY <1>1, <1>3, <1>4 DEF CampaignInv, RunTypes, LadderTypes, ladderVars, bounds
<1>6. MeasuredInv'
  BY <1>1, <1>2 DEF CampaignInv, MeasuredInv
<1>7. ~StepStops(st) => \A k \in 1..Len(steps') : steps'[k].tps <= plateau'
  BY <1>1, <1>3, <1>4, BoundsAssumption DEF StepStops
<1>8. PlateauIsBestStep'
  <2>1. CASE StepStops(st)
    BY <1>1, <1>3, <1>4, <2>1 DEF CampaignInv, RunTypes, SweepInv, PlateauIsBestStep
  <2>2. CASE ~StepStops(st)
    <3>1. st.have /\ ~st.dropped /\ plateau' = st.tps
      BY <1>1, <2>2 DEF StepStops
    <3>2. Len(steps) + 1 \in 1..Len(steps')
      BY <1>3, <1>4
    <3> QED
      BY <1>3, <1>7, <2>2, <3>1, <3>2 DEF PlateauIsBestStep
  <2> QED
    BY <2>1, <2>2
<1>9. SweepInv' /\ LadderInv'
  BY <1>1, <1>2, <1>3, <1>4, <1>7, <1>8
     DEF CampaignInv, SweepInv, LadderInv, LargeNeedsLadder, ladderVars
<1> QED
  BY <1>2, <1>5, <1>6, <1>9 DEF CampaignInv

\* The commit is pinned after the last tier of a ladder none of whose tiers failed.
LEMMA NextTierKeeps ==
    ASSUME CampaignInv, NextTier
    PROVE  CampaignInv'
<1>1. /\ pc = "next" /\ stage = "ladder" /\ clean' = (clean /\ gate /\ ~got.failed)
      /\ UNCHANGED <<large, got, gate, measured, steps, plateau, runs, phase, head, bounds, meddled>>
  BY DEF NextTier
<1>2. job = "ladder" /\ clean = TRUE
  BY <1>1 DEF CampaignInv, DriverInv, LadderInv
<1>3. CASE TierPasses /\ index < Tiers /\ Again /\ UNCHANGED <<ladder, passed>>
  <2>1. /\ DriverTypes' /\ RecordTypes' /\ DriverInv' /\ RowsInv' /\ GotInv' /\ FileInv'
        /\ rows' = rows /\ pc' = "create" /\ job' = job /\ stage' = stage
    BY <1>1, <1>3, AgainKeeps DEF Limit
  <2>2. RunTypes' /\ LadderTypes'
    BY <1>1, <1>3 DEF CampaignInv, RunTypes, LadderTypes, bounds
  <2>3. MeasuredInv' /\ SweepInv'
    BY <1>1, <2>1 DEF CampaignInv, MeasuredInv, SweepInv, PlateauIsBestStep
  <2>4. LadderInv'
    BY <1>1, <1>2, <1>3, <2>1 DEF CampaignInv, LadderInv, LargeNeedsLadder, TierPasses
  <2> QED
    BY <2>1, <2>2, <2>3, <2>4 DEF CampaignInv
<1>4. CASE /\ \E st \in {"done", "failed", "cancelled"} : EndJob(st)
           /\ UNCHANGED <<stage, index>>
           /\ \/ ladder' = ladder /\ passed' = passed
              \/ ladder' \in {head, ladder} /\ passed' = passed \cup {head}
  <2>1. /\ DriverTypes' /\ RecordTypes' /\ DriverInv' /\ RowsInv' /\ GotInv' /\ FileInv'
    BY <1>1, <1>4, JobEndsKeeps
  <2>2. rows' = rows /\ pc' = "idle" /\ job' = "none"
    BY <1>1, <1>4, EndJobRecord
  <2>3. RunTypes' /\ LadderTypes'
    BY <1>1, <1>4 DEF CampaignInv, RunTypes, LadderTypes, bounds
  <2>4. MeasuredInv' /\ SweepInv'
    BY <1>1, <2>2 DEF CampaignInv, MeasuredInv, SweepInv, PlateauIsBestStep
  <2>5. LadderInv'
    BY <1>1, <1>4, <2>2 DEF CampaignInv, LadderInv, LargeNeedsLadder
  <2> QED
    BY <2>1, <2>3, <2>4, <2>5 DEF CampaignInv
<1> QED
  BY <1>1, <1>2, <1>3, <1>4 DEF NextTier, TierPasses

\* Between its /generate and its perf.csv a repetition only moves on and starts phases.
LEMMA DriveKeeps ==
    ASSUME CampaignInv, CheckGate \/ Submit \/ Submitted \/ Ceremony \/ Verify \/ Verified
    PROVE  CampaignInv'
<1>a. /\ pc \in Driving \ {"perf"} /\ pc' \in Driving
      /\ \/ phase' = phase
         \/ /\ pc' \in Waiting
            /\ \E n \in {"submit", "ceremony", "verify"} : phase' = [name |-> n, by |-> "driver"]
      /\ phase' = phase => phase = NoPhase \/ pc \notin Waiting
      /\ gate' \in BOOLEAN
  BY DEF CampaignInv, DriverTypes, CheckGate, Submit, Submitted, Ceremony, Verify,
     Verified, Post,
         Idle, Driving, Waiting
<1>b. UNCHANGED <<board, large, stage, index, got, measured, steps, plateau, clean, runs, record,
                  ladderVars, bounds, meddled>>
  BY DEF CheckGate, Submit, Submitted, Ceremony, Verify, Verified
<1> USE <1>a, <1>b DEF board, record, ladderVars, bounds, Driving, Waiting
<1>1. DriverTypes'
  BY DEF CampaignInv, DriverTypes
<1>2. RunTypes'
  BY DEF CampaignInv, RunTypes
<1>3. RecordTypes'
  BY DEF CampaignInv, RecordTypes
<1>4. LadderTypes'
  BY DEF CampaignInv, LadderTypes
<1>5. DriverInv'
  BY DEF CampaignInv, DriverTypes, RunTypes, RecordTypes, DriverInv, NoPhase, Waiting
<1>6. RowsInv'
  BY DEF CampaignInv, DriverTypes, RunTypes, RecordTypes, DriverInv, RowsInv, Waiting,
     Driving
<1>7. GotInv'
  BY DEF CampaignInv, DriverTypes, RunTypes, RecordTypes, DriverInv, GotInv, Newest,
     Waiting
<1>8. MeasuredInv'
  BY DEF CampaignInv, DriverTypes, RunTypes, RecordTypes, DriverInv, RowsInv,
     MeasuredInv
<1>9. SweepInv'
  BY DEF CampaignInv, DriverTypes, RunTypes, RecordTypes, DriverInv, SweepInv,
     PlateauIsBestStep
<1>10. LadderInv'
  BY DEF CampaignInv, LadderTypes, DriverTypes, RunTypes, RecordTypes, DriverInv,
     LadderInv, LargeNeedsLadder
<1>11. FileInv'
  BY DEF CampaignInv, LadderTypes, DriverTypes, RunTypes, RecordTypes, DriverInv,
     FileInv, NoFalseInterruption
<1> QED
  BY <1>1, <1>2, <1>3, <1>4, <1>5, <1>6, <1>7, <1>8, <1>9, <1>10, <1>11 DEF CampaignInv

\* A /generate settles what came before it: a new run, a new unsettled row, and every
\* earlier folder as good as it was.
LEMMA GenerateKeeps ==
    ASSUME CampaignInv, Generate
    PROVE  CampaignInv'
<1> USE DEF Generate, board, driver, record, ladderVars, bounds
<1>a. DEFINE overs == [i \in 1..Len(runs) |-> Over(runs[i])]
<1>b. /\ overs \in Seq(Folder) /\ Len(overs) = Len(runs)
      /\ \A i \in 1..Len(runs) : Good(overs[i]) <=> Good(runs[i])
  <2>0. \A i \in 1..Len(runs) : runs[i] \in Folder
    BY DEF CampaignInv, RunTypes
  <2>1. \A i \in 1..Len(runs) : Over(runs[i]) \in Folder /\ (Good(Over(runs[i])) <=> Good(runs[i]))
    BY <2>0, OverGood
  <2>2. overs \in [1..Len(runs) -> Folder] /\ Len(runs) \in Nat
    BY <2>1 DEF CampaignInv, RunTypes
  <2> QED
    BY <2>1, <2>2, SeqOfFun
<1>c. /\ runs' \in Seq(Folder) /\ Len(runs') = Len(runs) + 1
      /\ \A i \in 1..Len(runs) : Good(runs'[i]) <=> Good(runs[i])
  <2>1. runs' = Append(overs, Fresh) /\ Fresh \in Folder
    BY DEF Fresh, Folder
  <2> HIDE DEF overs, Generate
  <2> QED
    BY <1>b, <2>1
<1>d. refreshReps(rows) = rows
  BY RefreshSettled DEF CampaignInv, RecordTypes, RowsInv, Driving, Waiting
<1>e. \/ /\ job = "ladder" /\ UNCHANGED <<rows, file, saveErr>>
      \/ /\ job = "campaign" /\ rows' = Append(rows, "running")
         /\ \/ file' = [status |-> "running", rows |-> rows'] /\ saveErr' = saveErr
            \/ file' = file /\ saveErr' = TRUE
  BY <1>d DEF recordRep, persistCampaign, CampaignInv, DriverTypes, DriverInv
<1>f. /\ rows' \in Seq(RowStates)
      /\ \A i \in 1..Len(rows) : rows'[i] = rows[i]
      /\ job = "campaign" => Len(rows') = Len(rows) + 1 /\ rows'[Len(rows')] = "running"
      /\ job = "ladder" => rows' = rows
  <2>1. rows \in Seq(RowStates) /\ "running" \in RowStates
    BY DEF CampaignInv, RecordTypes, RowStates
  <2> HIDE DEF Generate
  <2> QED
    BY <1>e, <2>1
<1>g. /\ pc = "create" /\ pc' = "generating" /\ ladderGate
      /\ phase' = [name |-> "generate", by |-> "driver"]
      /\ got' = NothingGot /\ gate' = FALSE
      /\ UNCHANGED <<board, large, stage, index, measured, steps, plateau, clean, summary, ladderVars,
                     bounds, meddled>>
  OBVIOUS
<1> HIDE DEF Generate
<1>1. DriverTypes'
  BY <1>g DEF CampaignInv, DriverTypes, NothingGot
<1>2. RunTypes'
  BY <1>c, <1>g DEF CampaignInv, RunTypes
<1>3. RecordTypes'
  BY <1>e, <1>f, FileType DEF CampaignInv, RecordTypes, FileStates
<1>4. LadderTypes'
  BY <1>g DEF CampaignInv, LadderTypes
<1>5. DriverInv'
  BY <1>c, <1>e, <1>f, <1>g DEF CampaignInv, DriverTypes, RunTypes, RecordTypes,
     DriverInv, NoPhase, Waiting
<1>6. RowsInv'
  <2>1. /\ rows \in Seq(RowStates) /\ Len(rows) <= Len(runs) /\ Len(runs) \in Nat
        /\ job \in {"campaign", "ladder"} /\ job' = job
        /\ job = "campaign" => Len(rows) = Len(runs)
        /\ job = "ladder" => rows = <<>>
    BY <1>g DEF CampaignInv, DriverTypes, RunTypes, RecordTypes, DriverInv, RowsInv
  <2>2. \A i \in 1..Len(rows) : rows[i] # "running" /\ (i \notin meddled => (rows[i] = "done" <=> Good(runs[i])))
    BY <1>g DEF CampaignInv, RowsInv, Driving, Waiting
  <2>3. CASE job = "ladder"
    BY <1>c, <1>f, <2>1, <2>3 DEF RowsInv
  <2>4. CASE job = "campaign"
    <3>1. ASSUME NEW i \in 1..Len(rows'), rows'[i] = "running" PROVE i = Len(rows')
      BY <1>f, <2>1, <2>2, <2>4, <3>1
    <3>2. ASSUME NEW i \in 1..Len(rows'), rows'[i] # "running", i \notin meddled
          PROVE  rows'[i] = "done" <=> Good(runs'[i])
      BY <1>c, <1>f, <2>1, <2>2, <2>4, <3>2
    <3> QED
      BY <1>c, <1>f, <1>g, <2>1, <2>4, <3>1, <3>2 DEF RowsInv, Driving, Waiting
  <2> QED
    BY <2>1, <2>3, <2>4
<1>7. GotInv'
  BY <1>g DEF GotInv
<1>8. MeasuredInv'
  <2>1. job \in {"campaign", "ladder"} /\ Len(rows) <= Len(rows')
    BY <1>f, <1>g DEF CampaignInv, DriverTypes, RecordTypes, DriverInv
  <2>2. \A i \in 1..Len(measured) : Warmups + i \in 1..Len(rows)
    BY OptionsAssumption DEF CampaignInv, RunTypes, RecordTypes, MeasuredInv
  <2> QED
    BY <1>c, <1>f, <1>g, <2>1, <2>2, OptionsAssumption
    DEF CampaignInv, DriverTypes, RunTypes, RecordTypes, MeasuredInv
<1>9. SweepInv'
  BY <1>g DEF CampaignInv, SweepInv, PlateauIsBestStep
<1>10. LadderInv'
  BY <1>c, <1>e, <1>f, <1>g DEF ladderGate, CampaignInv, LadderTypes, DriverTypes,
     RunTypes, RecordTypes, DriverInv, LadderInv, LargeNeedsLadder
<1>11. FileInv'
  BY <1>c, <1>e, <1>f, <1>g DEF CampaignInv, LadderTypes, DriverTypes, RunTypes,
     RecordTypes, DriverInv, FileInv, NoFalseInterruption
<1> QED
  BY <1>1, <1>2, <1>3, <1>4, <1>5, <1>6, <1>7, <1>8, <1>9, <1>10, <1>11 DEF CampaignInv

\* With perf.csv the row is settled by the folder the repetition left.
LEMMA CollectPerfKeeps ==
    ASSUME CampaignInv, CollectPerf
    PROVE  CampaignInv'
<1> USE DEF CollectPerf, board, driver, record, ladderVars, bounds
<1>a. \/ /\ job = "ladder" /\ UNCHANGED <<rows, file, saveErr>>
      \/ /\ job = "campaign" /\ rows' = refreshReps(rows)
         /\ \/ file' = [status |-> "running", rows |-> rows'] /\ saveErr' = saveErr
            \/ file' = file /\ saveErr' = TRUE
  BY DEF endRep, persistCampaign, CampaignInv, DriverTypes, DriverInv
<1>b. /\ rows' \in Seq(RowStates) /\ Len(rows') = Len(rows)
      /\ \A i \in 1..Len(rows) :
            /\ rows[i] # "running" => rows'[i] = rows[i]
            /\ job = "campaign" => rows'[i] # "running"
            /\ rows[i] = "running" /\ job = "campaign" => (rows'[i] = "done" <=> Good(runs[i]))
  BY <1>a, RefreshReps DEF CampaignInv, RecordTypes
<1>c. Len(runs) \in 1..Len(runs) /\ Newest \in Folder
  BY DEF CampaignInv, RunTypes, DriverInv, Newest
<1>g. /\ pc = "perf" /\ pc' = "journal"
      /\ got' = [perf |-> Newest.perf, failed |-> ~Newest.perf]
      /\ UNCHANGED <<board, large, stage, index, gate, measured, steps, plateau, clean, runs, phase,
                     summary, ladderVars, bounds, meddled>>
  OBVIOUS
<1> HIDE DEF CollectPerf
<1>1. DriverTypes'
  BY <1>c, <1>g DEF CampaignInv, DriverTypes, Folder
<1>2. RunTypes'
  BY <1>g DEF CampaignInv, RunTypes
<1>3. RecordTypes'
  BY <1>a, <1>b, FileType DEF CampaignInv, RecordTypes, FileStates
<1>4. LadderTypes'
  BY <1>g DEF CampaignInv, LadderTypes
<1>5. DriverInv'
  BY <1>a, <1>b, <1>c, <1>g DEF CampaignInv, DriverTypes, RunTypes, RecordTypes,
     DriverInv, NoPhase, Waiting
<1>6. RowsInv'
  BY <1>a, <1>b, <1>c, <1>g DEF CampaignInv, DriverTypes, RunTypes, RecordTypes,
     DriverInv, RowsInv, Waiting, Driving
<1>7. GotInv'
  BY <1>a, <1>b, <1>c, <1>g DEF CampaignInv, DriverTypes, RunTypes, RecordTypes,
     DriverInv, GotInv, Newest, Waiting
<1>8. MeasuredInv'
  <2>1. \A i \in 1..Len(measured) : Warmups + i \in 1..Len(rows)
    BY OptionsAssumption DEF CampaignInv, RunTypes, RecordTypes, MeasuredInv
  <2> QED
    BY <1>b, <1>g, <2>1, OptionsAssumption
    DEF CampaignInv, DriverTypes, RunTypes, RecordTypes, MeasuredInv
<1>9. SweepInv'
  BY <1>g DEF CampaignInv, SweepInv, PlateauIsBestStep
<1>10. LadderInv'
  BY <1>g DEF CampaignInv, LadderInv, LargeNeedsLadder
<1>11. FileInv'
  BY <1>a, <1>b, <1>c, <1>g DEF CampaignInv, LadderTypes, DriverTypes, RunTypes,
     RecordTypes, DriverInv, FileInv, NoFalseInterruption
<1> QED
  BY <1>1, <1>2, <1>3, <1>4, <1>5, <1>6, <1>7, <1>8, <1>9, <1>10, <1>11 DEF CampaignInv

\* The journal is read off the same folder, unless an operator went over it in between.
LEMMA CollectJournalKeeps ==
    ASSUME CampaignInv, CollectJournal
    PROVE  CampaignInv'
<1> USE DEF CollectJournal, board, driver, record, ladderVars, bounds
<1>c. Len(runs) \in 1..Len(runs) /\ Newest \in Folder
  BY DEF CampaignInv, RunTypes, DriverInv, Newest
<1>1. DriverTypes'
  BY <1>c DEF Folder, CampaignInv, DriverTypes
<1>2. RunTypes'
  BY <1>c DEF CampaignInv, RunTypes
<1>3. RecordTypes'
  BY <1>c DEF CampaignInv, RecordTypes
<1>4. LadderTypes'
  BY <1>c DEF CampaignInv, LadderTypes
<1>5. DriverInv'
  BY <1>c DEF CampaignInv, DriverTypes, RunTypes, RecordTypes, DriverInv, NoPhase,
     Waiting
<1>6. RowsInv'
  BY <1>c DEF CampaignInv, DriverTypes, RunTypes, RecordTypes, DriverInv, RowsInv,
     Waiting, Driving
<1>7. GotInv'
  BY <1>c DEF Folder, Good, CampaignInv, DriverTypes, RunTypes, RecordTypes,
     DriverInv, GotInv, Newest, Waiting
<1>8. MeasuredInv'
  BY <1>c DEF CampaignInv, DriverTypes, RunTypes, RecordTypes, DriverInv, RowsInv,
     MeasuredInv
<1>9. SweepInv'
  BY <1>c DEF CampaignInv, DriverTypes, RunTypes, RecordTypes, DriverInv, SweepInv,
     PlateauIsBestStep
<1>10. LadderInv'
  BY <1>c DEF CampaignInv, LadderTypes, DriverTypes, RunTypes, RecordTypes, DriverInv,
     LadderInv, LargeNeedsLadder
<1>11. FileInv'
  BY <1>c DEF CampaignInv, LadderTypes, DriverTypes, RunTypes, RecordTypes, DriverInv,
     FileInv, NoFalseInterruption
<1> QED
  BY <1>1, <1>2, <1>3, <1>4, <1>5, <1>6, <1>7, <1>8, <1>9, <1>10, <1>11 DEF CampaignInv

\* A phase changes the newest folder: the driver's own before its row is settled, an
\* operator's on a run that counts as meddled with.
LEMMA PhaseEndsKeeps ==
    ASSUME CampaignInv, PhaseEnds
    PROVE  CampaignInv'
<1> USE DEF PhaseEnds, Idle, NoPhase, board, driver, record, ladderVars, bounds
<1>1. DriverTypes'
  BY DEF CampaignInv, DriverTypes
<1>2. RunTypes'
  <2>1. Len(runs) \in 1..Len(runs) /\ runs[Len(runs)] \in Folder
    BY DEF CampaignInv, DriverTypes, RunTypes, DriverInv, Waiting
  <2>2. PICK f \in Folder : runs' = [runs EXCEPT ![Len(runs)] = f]
    BY <2>1 DEF Folder
  <2>3. runs \in Seq(Folder)
    BY DEF CampaignInv, RunTypes
  <2>4. runs' \in Seq(Folder) /\ Len(runs') = Len(runs)
    <3> HIDE DEF PhaseEnds
    <3> QED
      BY <2>1, <2>2, <2>3, ExceptSeq
  <2> QED
    BY <2>4 DEF CampaignInv, RunTypes
<1>3. RecordTypes'
  BY DEF CampaignInv, RecordTypes
<1>4. LadderTypes'
  BY DEF CampaignInv, LadderTypes
<1>5. DriverInv'
  BY DEF CampaignInv, DriverTypes, RunTypes, RecordTypes, DriverInv, NoPhase, Waiting
<1>6. RowsInv'
  BY DEF CampaignInv, DriverTypes, RunTypes, RecordTypes, DriverInv, RowsInv, Waiting,
     Driving
<1>7. GotInv'
  BY DEF CampaignInv, DriverTypes, RunTypes, RecordTypes, DriverInv, GotInv, Newest,
     Waiting
<1>8. MeasuredInv'
  BY DEF CampaignInv, DriverTypes, RunTypes, RecordTypes, DriverInv, RowsInv,
     MeasuredInv
<1>9. SweepInv'
  BY DEF CampaignInv, DriverTypes, RunTypes, RecordTypes, DriverInv, SweepInv,
     PlateauIsBestStep
<1>10. LadderInv'
  BY DEF CampaignInv, LadderTypes, DriverTypes, RunTypes, RecordTypes, DriverInv,
     LadderInv, LargeNeedsLadder
<1>11. FileInv'
  BY DEF Waiting, CampaignInv, LadderTypes, DriverTypes, RunTypes, RecordTypes,
     DriverInv, FileInv, NoFalseInterruption
<1> QED
  BY <1>1, <1>2, <1>3, <1>4, <1>5, <1>6, <1>7, <1>8, <1>9, <1>10, <1>11 DEF CampaignInv

\* An operator's phase marks its run.
LEMMA OperatorPhaseKeeps ==
    ASSUME CampaignInv, OperatorPhase
    PROVE  CampaignInv'
<1> USE DEF OperatorPhase, Idle, NoPhase, board, driver, record, ladderVars, bounds
<1>1. DriverTypes'
  BY DEF CampaignInv, DriverTypes
<1>2. RunTypes'
  <2>1. Len(runs) \in 1..Len(runs)
    BY DEF CampaignInv, RunTypes
  <2>2. meddled' \subseteq 1..Len(runs) /\ runs' = runs
    BY <2>1 DEF CampaignInv, RunTypes
  <2> QED
    BY <2>2 DEF CampaignInv, RunTypes
<1>3. RecordTypes'
  BY DEF CampaignInv, RecordTypes
<1>4. LadderTypes'
  BY DEF CampaignInv, LadderTypes
<1>5. DriverInv'
  BY DEF CampaignInv, DriverTypes, RunTypes, RecordTypes, DriverInv, NoPhase, Waiting
<1>6. RowsInv'
  BY DEF CampaignInv, DriverTypes, RunTypes, RecordTypes, DriverInv, RowsInv, Waiting,
     Driving
<1>7. GotInv'
  BY DEF CampaignInv, DriverTypes, RunTypes, RecordTypes, DriverInv, GotInv, Newest,
     Waiting
<1>8. MeasuredInv'
  BY DEF CampaignInv, DriverTypes, RunTypes, RecordTypes, DriverInv, RowsInv,
     MeasuredInv
<1>9. SweepInv'
  BY DEF CampaignInv, DriverTypes, RunTypes, RecordTypes, DriverInv, SweepInv,
     PlateauIsBestStep
<1>10. LadderInv'
  BY DEF CampaignInv, LadderTypes, DriverTypes, RunTypes, RecordTypes, DriverInv,
     LadderInv, LargeNeedsLadder
<1>11. FileInv'
  BY DEF CampaignInv, LadderTypes, DriverTypes, RunTypes, RecordTypes, DriverInv,
     FileInv, NoFalseInterruption
<1> QED
  BY <1>1, <1>2, <1>3, <1>4, <1>5, <1>6, <1>7, <1>8, <1>9, <1>10, <1>11 DEF CampaignInv

\* A stop forgets the job and its figures and leaves the files.
LEMMA StopKeeps ==
    ASSUME CampaignInv, Stop
    PROVE  CampaignInv'
<1> USE DEF Stop, NoPhase, NothingGot, board, driver, record, ladderVars, bounds
<1>1. DriverTypes'
  <2>1. index' \in 0..MaxRuns /\ stage' \in Stages
    BY MaxRunsNat DEF Stages
  <2>2. /\ phase' \in [name: {"none", "generate", "submit", "ceremony", "verify"},
                     by: {"none", "driver", "operator"}]
        /\ got' \in [perf: BOOLEAN, failed: BOOLEAN]
    OBVIOUS
  <2> QED
    BY <2>1, <2>2 DEF CampaignInv, DriverTypes
<1>2. RunTypes'
  BY OptionsAssumption, BoundsAssumption DEF CampaignInv, RunTypes
<1>3. RecordTypes'
  BY OptionsAssumption, BoundsAssumption DEF CampaignInv, RecordTypes
<1>4. LadderTypes'
  BY OptionsAssumption, BoundsAssumption DEF CampaignInv, LadderTypes
<1>5. DriverInv'
  BY OptionsAssumption, BoundsAssumption DEF CampaignInv, DriverTypes, RunTypes,
     RecordTypes, DriverInv, NoPhase, Waiting
<1>6. RowsInv'
  BY OptionsAssumption, BoundsAssumption DEF CampaignInv, DriverTypes, RunTypes,
     RecordTypes, DriverInv, RowsInv, Waiting, Driving
<1>7. GotInv'
  BY OptionsAssumption, BoundsAssumption DEF CampaignInv, DriverTypes, RunTypes,
     RecordTypes, DriverInv, GotInv, Newest, Waiting
<1>8. MeasuredInv'
  BY OptionsAssumption, BoundsAssumption DEF CampaignInv, DriverTypes, RunTypes,
     RecordTypes, DriverInv, RowsInv, MeasuredInv
<1>9. SweepInv'
  BY OptionsAssumption, BoundsAssumption DEF CampaignInv, DriverTypes, RunTypes,
     RecordTypes, DriverInv, SweepInv, PlateauIsBestStep
<1>10. LadderInv'
  BY OptionsAssumption, BoundsAssumption DEF CampaignInv, LadderTypes, DriverTypes,
     RunTypes, RecordTypes, DriverInv, LadderInv, LargeNeedsLadder
<1>11. FileInv'
  BY OptionsAssumption, BoundsAssumption DEF CampaignInv, LadderTypes, DriverTypes,
     RunTypes, RecordTypes, DriverInv, FileInv, NoFalseInterruption
<1> QED
  BY <1>1, <1>2, <1>3, <1>4, <1>5, <1>6, <1>7, <1>8, <1>9, <1>10, <1>11 DEF CampaignInv

\* A campaign that no job owns is marked interrupted when it is read.
LEMMA LoadCampaignKeeps ==
    ASSUME CampaignInv, LoadCampaign
    PROVE  CampaignInv'
<1> USE DEF LoadCampaign, persistCampaign, board, driver, record, ladderVars, bounds
<1>1. DriverTypes'
  BY DEF CampaignInv, DriverTypes
<1>2. RunTypes'
  BY DEF CampaignInv, RunTypes
<1>3. RecordTypes'
  BY RefreshReps, FileType DEF FileStates, CampaignInv, RecordTypes
<1>4. LadderTypes'
  BY DEF CampaignInv, LadderTypes
<1>5. DriverInv'
  BY DEF CampaignInv, DriverTypes, RunTypes, RecordTypes, DriverInv, NoPhase, Waiting
<1>6. RowsInv'
  BY DEF CampaignInv, DriverTypes, RunTypes, RecordTypes, DriverInv, RowsInv, Waiting,
     Driving
<1>7. GotInv'
  BY DEF CampaignInv, DriverTypes, RunTypes, RecordTypes, DriverInv, GotInv, Newest,
     Waiting
<1>8. MeasuredInv'
  BY DEF CampaignInv, DriverTypes, RunTypes, RecordTypes, DriverInv, RowsInv,
     MeasuredInv
<1>9. SweepInv'
  BY DEF CampaignInv, DriverTypes, RunTypes, RecordTypes, DriverInv, SweepInv,
     PlateauIsBestStep
<1>10. LadderInv'
  BY DEF CampaignInv, LadderTypes, DriverTypes, RunTypes, RecordTypes, DriverInv,
     LadderInv, LargeNeedsLadder
<1>11. FileInv'
  BY DEF CampaignInv, LadderTypes, DriverTypes, RunTypes, RecordTypes, DriverInv,
     FileInv, NoFalseInterruption
<1> QED
  BY <1>1, <1>2, <1>3, <1>4, <1>5, <1>6, <1>7, <1>8, <1>9, <1>10, <1>11 DEF CampaignInv

-----------------------------------------------------------------------------
(* The invariant, and what it gives.                                         *)

\* Initially no job has run.
LEMMA CampaignInvInit == Init => CampaignInv
<1> SUFFICES ASSUME Init PROVE CampaignInv
  OBVIOUS
<1>1. DriverTypes /\ LadderTypes
  <2>1. /\ NoPhase \in [name: {"none", "generate", "submit", "ceremony", "verify"},
                        by: {"none", "driver", "operator"}]
        /\ NothingGot \in [perf: BOOLEAN, failed: BOOLEAN]
    BY DEF NoPhase, NothingGot
  <2>2. index \in 0..MaxRuns
    BY MaxRunsNat DEF Init
  <2>3. LadderTypes
    BY BoundsAssumption DEF Init, LadderTypes
  <2> QED
    BY <2>1, <2>2, <2>3 DEF Init, DriverTypes, Stages
<1>2. RunTypes /\ RecordTypes
  <2>1. <<>> \in Seq(Folder) /\ <<>> \in Seq(BOOLEAN) /\ <<>> \in Seq(Step) /\ <<>> \in Seq(RowStates)
    BY EmptySeq
  <2>2. NoFile \in [status: FileStates, rows: Seq(RowStates)]
    BY <2>1, FileType DEF NoFile, FileStates
  <2>3. plateau \in 0..MaxTps
    BY BoundsAssumption DEF Init
  <2>4. RunTypes
    BY <2>1, <2>3 DEF Init, RunTypes
  <2> QED
    BY <2>1, <2>2, <2>4 DEF Init, RecordTypes
<1>3. DriverInv /\ RowsInv /\ GotInv /\ MeasuredInv
  BY DEF Init, DriverInv, RowsInv, GotInv, MeasuredInv, NoPhase
<1>4. SweepInv /\ LadderInv /\ FileInv
  BY DEF Init, SweepInv, PlateauIsBestStep, LadderInv, LargeNeedsLadder, FileInv,
     NoFalseInterruption, NoFile
<1> QED
  BY <1>1, <1>2, <1>3, <1>4 DEF CampaignInv

\* Every step keeps the invariant.
LEMMA CampaignInvNext == CampaignInv /\ [Next]_vars => CampaignInv'
<1> SUFFICES ASSUME CampaignInv, [Next]_vars PROVE CampaignInv'
  OBVIOUS
<1>1. CASE DriverStep
  BY <1>1, CreateEndsKeeps, GenerateKeeps, DriveKeeps, CollectPerfKeeps,
     CollectJournalKeeps,
     NextDiscardedKeeps, NextMeasuredKeeps, NextSweepKeeps, NextTierKeeps DEF DriverStep
<1>2. CASE StartCampaign \/ StartLadder \/ RequestCancel
  BY <1>2, StartCampaignKeeps, StartLadderKeeps, RequestCancelKeeps
<1>3. CASE PhaseEnds \/ OperatorPhase \/ Stop \/ LoadCampaign
  BY <1>3, PhaseEndsKeeps, OperatorPhaseKeeps, StopKeeps, LoadCampaignKeeps
<1>4. CASE UNCHANGED vars
  <2> USE <1>4 DEF vars, board, driver, record, ladderVars, bounds
  <2>1. DriverTypes' /\ RunTypes' /\ RecordTypes' /\ LadderTypes'
    BY DEF CampaignInv, DriverTypes, RunTypes, RecordTypes, LadderTypes
  <2>2. DriverInv' /\ RowsInv' /\ GotInv' /\ MeasuredInv'
    BY DEF CampaignInv, DriverInv, RowsInv, GotInv, MeasuredInv, Newest
  <2>3. SweepInv' /\ LadderInv' /\ FileInv'
    BY DEF CampaignInv, SweepInv, PlateauIsBestStep, LadderInv, LargeNeedsLadder,
       FileInv, NoFalseInterruption
  <2> QED
    BY <2>1, <2>2, <2>3 DEF CampaignInv
<1> QED
  BY <1>1, <1>2, <1>3, <1>4 DEF Next

\* The driver, the record and the runs agree in every reachable state.
THEOREM CampaignInvariant == Spec => []CampaignInv
BY CampaignInvInit, CampaignInvNext, PTL DEF Spec

\* A campaign is called interrupted only when the console stopped under it or could not
\* save it: its record is saved and the slot freed in one critical section.
THEOREM CampaignInterruption == Spec => []NoFalseInterruption
<1>1. CampaignInv => NoFalseInterruption
  BY DEF CampaignInv, FileInv
<1> QED
  BY <1>1, CampaignInvariant, PTL

\* A cancel is answered between repetitions only: nothing of the campaign's own is
\* running and the rows on file are the ones the repetitions ended with.
THEOREM CampaignCancel == Spec => []CancelBetweenRepetitions
<1>1. CampaignInv => CancelBetweenRepetitions
  <2> SUFFICES ASSUME CampaignInv, file.status = "cancelled" PROVE CancelBetweenRepetitions
    BY DEF CancelBetweenRepetitions
  <2>1. phase.by # "driver"
    BY DEF CampaignInv, DriverInv, FileInv, Waiting
  <2> QED
    BY <2>1 DEF CampaignInv, FileInv, CancelBetweenRepetitions
<1> QED
  BY <1>1, CampaignInvariant, PTL

\* The summary's verdicts are the rows' verdicts, and a sweep's plateau is the best of
\* the steps it climbed, whatever the operator, the disk or a stop does in between.
THEOREM CampaignFigures == Spec => []FiguresTrue
<1>1. CampaignInv => FiguresTrue
  <2> SUFFICES ASSUME CampaignInv PROVE FiguresTrue
    OBVIOUS
  <2>1. /\ DOMAIN runs = 1..Len(runs)
        /\ \A i \in 1..Len(runs) : runs[i] \in [perf: BOOLEAN, end: {"none", "ok", "failed"}]
        /\ \A i \in 1..Len(measured) : measured[i] \in BOOLEAN
        /\ \A i \in 1..Len(rows) : rows[i] \in RowStates
    <3>1. runs \in Seq(Folder) /\ measured \in Seq(BOOLEAN) /\ rows \in Seq(RowStates)
      BY DEF CampaignInv, RunTypes, RecordTypes
    <3>2. \A i \in 1..Len(runs) : runs[i] \in Folder
      BY <3>1
    <3> QED
      BY <3>1, <3>2 DEF Folder
  <2>2. ladder \in 0..(MaxStops + 1) /\ head \in 1..(MaxStops + 1)
    BY BoundsAssumption DEF CampaignInv, LadderTypes
  <2>3. TypeOK
    BY <2>1, <2>2 DEF CampaignInv, DriverTypes, RunTypes, RecordTypes, RowsInv,
       FileStates, TypeOK
  <2>4. SummaryMatchesRows
    BY DEF CampaignInv, MeasuredInv, SummaryMatchesRows
  <2>5. PlateauIsBestStep
    BY DEF CampaignInv, SweepInv
  <2> QED
    BY <2>3, <2>4, <2>5 DEF FiguresTrue
<1> QED
  BY <1>1, CampaignInvariant, PTL

\* A large tier runs only on a build that a whole ladder passed on.
THEOREM CampaignLadder == Spec => []LargeNeedsLadder
<1>1. CampaignInv => LargeNeedsLadder
  BY DEF CampaignInv, LadderInv
<1> QED
  BY <1>1, CampaignInvariant, PTL

=============================================================================
