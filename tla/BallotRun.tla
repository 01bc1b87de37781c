------------------------------- MODULE BallotRun -------------------------------
(***************************************************************************)
(* One on-chain run of the console (executor.go): the submit or ceremony   *)
(* stage that opens the election, submits the ballots in a measured        *)
(* window and closes it, the resume of a window that was interrupted, and  *)
(* the verify phase that passes judgement on the run.                      *)
(*                                                                         *)
(* The console can die at any step.  What survives is the chain, the       *)
(* transactions already handed to the network, the journal, and the files  *)
(* submit-metrics.json, receipts.csv and ceremony.json.  A submission can  *)
(* fail and still land, during the window or long after it.                *)
(*                                                                         *)
(* The journal is represented by what its readers (planResume,             *)
(* segmentsFromJournal, ballotStageErr) fold out of it, event by event.    *)
(***************************************************************************)
EXTENDS Integers, FiniteSets, FiniteSetsExt

CONSTANTS
    N,              \* the ballots of the run are 1..N
    Concurrency,    \* submissions in flight at once
    Configs,        \* the election configurations considered
    MaxFaults       \* bound: crashes, cancellations, lost answers, I/O errors

ASSUME BallotRunAssumption ==
    /\ N \in Nat \ {0} /\ Concurrency \in Nat \ {0} /\ MaxFaults \in Nat
    /\ Configs \subseteq [bounded : BOOLEAN, pauseAtClose : BOOLEAN, peerFault : BOOLEAN]

Ballots == 1..N

VARIABLES
    config,     \* WindowS > 0; the attack plan lists the close stage; a fault is armed
    chain,      \* the election on the ledger: its status and the ballots recorded
    wire,       \* ballots handed to the network whose answer was lost
    jr,         \* what the journal's readers learn from it
    files,      \* submit-metrics.json, the CloseElection receipt, ceremony.json
    pc,         \* where the console is in the run's current phase
    cur,        \* the locals of that phase
    reply,      \* what the last resume told the operator
    faults,     \* faults so far
    past        \* history: what really happened, see InitPast

vars == <<config, chain, wire, jr, files, pc, cur, reply, faults, past>>

NoMetrics == [have |-> FALSE, submitted |-> 0, committed |-> 0, dropped |-> 0,
              stopped |-> FALSE, bounded |-> FALSE, journalError |-> FALSE]

NoEnd == [stamped |-> FALSE, failed |-> TRUE, reason |-> "", sustained |-> FALSE]

InitJournal ==
    [open |-> FALSE, resumed |-> FALSE, n |-> 0, committed |-> -1, endDropped |-> 0,
     lastDone |-> 0, segment |-> 1, segments |-> 0, stageErr |-> FALSE, end |-> NoEnd]

NoPhase ==
    [by |-> "", segment |-> 0, segments |-> 0, pending |-> {},
     sent |-> {}, busy |-> {}, ok |-> {}, replays |-> {}, stopped |-> FALSE,
     fired |-> FALSE, cancelled |-> FALSE, readErr |-> FALSE, broken |-> FALSE]

\* Windows opened, the segment numbers they used, whether one was used twice, the
\* ballots ever dispatched, how many the latest window dispatched, and whether a
\* window's journal ever broke.
InitPast ==
    [windows |-> 0, used |-> {}, reused |-> FALSE, dispatched |-> {}, sent |-> 0,
     broke |-> FALSE]

Init ==
    /\ config \in Configs
    /\ chain = [status |-> "none", ballots |-> {}, tally |-> FALSE]
    /\ wire = {}
    /\ jr = InitJournal
    /\ files = [metrics |-> NoMetrics, closeReceipt |-> FALSE, ceremony |-> FALSE]
    /\ pc = "idle" /\ cur = NoPhase /\ reply = "none"
    /\ faults = 0 /\ past = InitPast

MayFail == faults < MaxFaults /\ faults' = faults + 1
NoFault == UNCHANGED faults

Fresh(by) == [NoPhase EXCEPT !.by = by]

-----------------------------------------------------------------------------
(* The journal: one operator per event, giving what its readers then know. *)

BallotsStart(n) == [jr EXCEPT !.open = TRUE, !.n = n, !.committed = -1]
BallotsProgress(done) == [jr EXCEPT !.open = TRUE, !.lastDone = done]
BallotsInterrupted(committed) == [jr EXCEPT !.open = TRUE, !.committed = committed]
BallotsEnd(dropped) == [jr EXCEPT !.open = FALSE, !.endDropped = dropped]
SegmentStart_Forgotten(index) ==
    [jr EXCEPT !.resumed = @ \/ index >= 1]
SegmentStart(index) ==
    [jr EXCEPT !.segment = index + 1, !.resumed = @ \/ index >= 1]
SegmentEnd == [jr EXCEPT !.segments = @ + 1]
StageEnd(failed) == [jr EXCEPT !.stageErr = failed]
ResumeClose(ok) == [jr EXCEPT !.stageErr = @ /\ ~ok]
RunEnd(end) == [jr EXCEPT !.end = end]

\* A window's journal that broke refuses every later line; the stage's own
\* journal is another handle.
StampInWindow(j) == jr' = IF cur.broken THEN jr ELSE j

closeRecorded == files.closeReceipt \/ files.ceremony

CloseOnly == ~jr.open /\ jr.resumed /\ jr.endDropped = 0 /\ ~closeRecorded

\* planResume accepts.
Resumable == jr.open \/ CloseOnly

\* Its estimate of the ballots the window left pending.
Remaining ==
    Max({0, jr.n - (IF jr.committed >= 0 THEN jr.committed ELSE jr.lastDone)})

-----------------------------------------------------------------------------
(* The ballot stage: Submit, or CeremonyStart, up to the window.           *)

BeginStage(by) ==
    /\ pc = "idle"
    /\ pc' = "create" /\ cur' = Fresh(by) /\ reply' = "none"
    /\ UNCHANGED <<config, chain, wire, jr, files, faults, past>>

Submit == BeginStage("submit")
CeremonyStart == BeginStage("ceremony")

\* The stage returns, and is stamped with its outcome; a resume returns its error
\* to the operator instead.
Return(failed) ==
    /\ pc' = "idle" /\ cur' = NoPhase
    /\ jr' = IF cur.by = "resume" THEN jr ELSE StageEnd(failed)
    /\ reply' = IF cur.by = "resume" /\ failed THEN "failed" ELSE "none"

\* A lifecycle step returns an error: the chaincode refused it, the context was
\* cancelled before it, or the call failed, before or after the commit.
StepFails(refused, committed) ==
    /\ \/ (refused \/ cur.cancelled) /\ NoFault /\ UNCHANGED chain
       \/ ~refused /\ ~cur.cancelled /\ MayFail /\ chain' \in {chain, committed}
    /\ Return(TRUE)
    /\ UNCHANGED <<config, wire, files, past>>

CreateElection ==
    /\ pc = "create"
    /\ LET opened == [chain EXCEPT !.status = "open"]
       IN \/ /\ chain.status = "none" /\ ~cur.cancelled
             /\ chain' = opened
             /\ pc' = "dkg"
             /\ UNCHANGED <<config, wire, jr, files, cur, reply, faults, past>>
          \/ StepFails(chain.status # "none", opened)

\* Then the population is validated and the receipts and the journal opened.
PublishDKGTranscript ==
    /\ pc = "dkg"
    /\ \/ /\ ~cur.cancelled
          /\ pc' = "start" /\ cur' = [cur EXCEPT !.pending = Ballots]
          /\ UNCHANGED <<config, chain, wire, jr, files, reply, faults, past>>
       \/ StepFails(FALSE, chain)

\* The population or the receipts cannot be opened, so the window never starts.
OpenWindow(next) ==
    /\ \/ /\ pc' = next
          /\ past' = [past EXCEPT !.windows = @ + 1, !.sent = 0,
                                  !.used = @ \union {cur.segment},
                                  !.reused = @ \/ cur.segment \in past.used]
          /\ StampInWindow(BallotsStart(Cardinality(cur.pending)))
          /\ NoFault /\ UNCHANGED <<cur, reply>>
       \/ MayFail /\ Return(TRUE) /\ UNCHANGED past
    /\ UNCHANGED <<config, chain, wire, files>>

StampSegmentStart(next) ==
    /\ pc' = next
    /\ StampInWindow(SegmentStart(cur.segment))
    /\ UNCHANGED <<config, chain, wire, files, cur, reply, faults, past>>

StampStart == pc = "start" /\ OpenWindow("seg0")
StampSegmentZero == pc = "seg0" /\ StampSegmentStart("window")

-----------------------------------------------------------------------------
(* The ballot window, first or resumed: bench.Run and its submit function. *)

\* The dispatcher hands out the next index; every so often it stamps progress,
\* which the journal may coalesce away or still hold when the console dies.
Dispatch ==
    /\ pc = "window" /\ ~cur.stopped
    /\ cur.sent # cur.pending /\ Cardinality(cur.busy) < Concurrency
    /\ LET b == Min(cur.pending \ cur.sent)
           done == Cardinality(cur.sent) + 1
       IN /\ cur' = [cur EXCEPT !.sent = @ \union {b}, !.busy = @ \union {b}]
          /\ past' = [past EXCEPT !.dispatched = @ \union {b}, !.sent = done]
          /\ StampInWindow(BallotsProgress(done)) \/ UNCHANGED jr
    /\ UNCHANGED <<config, chain, wire, files, pc, reply, faults>>

\* The context was cancelled or the first window's time bound reached: nothing more is
\* dispatched, what is in flight finishes.
StopDispatch ==
    /\ pc = "window" /\ ~cur.stopped /\ cur.sent # cur.pending
    /\ cur.cancelled \/ (config.bounded /\ cur.by # "resume")
    /\ cur' = [cur EXCEPT !.stopped = TRUE]
    /\ UNCHANGED <<config, chain, wire, jr, files, pc, reply, faults, past>>

Done(b) == [cur EXCEPT !.busy = @ \ {b}]

Commit(b) ==
    /\ pc = "window" /\ b \in cur.busy
    /\ chain.status = "open" /\ b \notin chain.ballots
    /\ chain' = [chain EXCEPT !.ballots = @ \union {b}]
    /\ cur' = [Done(b) EXCEPT !.ok = @ \union {b}]
    /\ UNCHANGED <<config, wire, jr, files, pc, reply, faults, past>>

\* The chaincode refuses a nullifier it holds, and any ballot once closed.
Refuse(b) ==
    /\ pc = "window" /\ b \in cur.busy
    /\ chain.status # "open" \/ b \in chain.ballots
    /\ cur' = Done(b)
    /\ UNCHANGED <<config, chain, wire, jr, files, pc, reply, faults, past>>

\* The submission fails, and may or may not land later.
LoseAnswer(b) ==
    /\ pc = "window" /\ b \in cur.busy
    /\ MayFail
    /\ wire' \in {wire, wire \union {b}}
    /\ cur' = Done(b)
    /\ UNCHANGED <<config, chain, jr, files, pc, reply, past>>

\* The ballot's line cannot be read.
ReadFails(b) ==
    /\ pc = "window" /\ b \in cur.busy
    /\ MayFail
    /\ cur' = [Done(b) EXCEPT !.readErr = TRUE]
    /\ UNCHANGED <<config, chain, wire, jr, files, pc, reply, past>>

\* The peer is stopped at the fault plan's index.
FirePeerFault ==
    /\ pc = "window" /\ config.peerFault /\ cur.by # "resume" /\ ~cur.fired
    /\ cur' = [cur EXCEPT !.fired = TRUE]
    /\ UNCHANGED <<config, chain, wire, jr, files, pc, reply, faults, past>>

JournalBreaks ==
    /\ pc \in {"start", "seg0", "rSegment", "rStart", "window", "replay", "end", "segend"}
    /\ ~cur.broken
    /\ MayFail
    /\ cur' = [cur EXCEPT !.broken = TRUE]
    /\ past' = [past EXCEPT !.broke = TRUE]
    /\ UNCHANGED <<config, chain, wire, jr, files, pc, reply>>

\* bench.Run returns, after a last progress event for what it dispatched.
RunReturns ==
    /\ pc = "window"
    /\ cur.busy = {} /\ (cur.stopped \/ cur.sent = cur.pending)
    /\ StampInWindow(BallotsProgress(Cardinality(cur.sent)))
    /\ pc' = IF cur.by = "resume" THEN "replay" ELSE "end"
    /\ UNCHANGED <<config, chain, wire, files, cur, reply, faults, past>>

\* A ballot whose answer was lost lands, or never will.
Land(b) ==
    /\ b \in wire
    /\ chain' = IF chain.status = "open" THEN [chain EXCEPT !.ballots = @ \union {b}]
                ELSE chain
    /\ wire' = wire \ {b}
    /\ UNCHANGED <<config, jr, files, pc, cur, reply, faults, past>>

Expire(b) ==
    /\ b \in wire
    /\ wire' = wire \ {b}
    /\ UNCHANGED <<config, chain, jr, files, pc, cur, reply, faults, past>>

-----------------------------------------------------------------------------
(* The end of a window.                                                    *)

Failed == cur.sent \ cur.ok
Dropped == Cardinality(Failed \ cur.replays)
OnChain == Cardinality(cur.ok) + Cardinality(cur.replays)

\* Ballots lost to the peer outage leave the window unfinished.
Stopped == cur.stopped \/ (cur.fired /\ Dropped > 0)

windowWasBounded ==
    config.bounded /\ Stopped /\ Dropped = 0 /\ ~cur.cancelled /\ cur.by # "resume"

Interrupted_StoppedOnly == Stopped /\ ~windowWasBounded
Interrupted ==
    IF cur.by = "resume" THEN Stopped \/ Dropped > 0 ELSE Stopped /\ ~windowWasBounded

stampWindowEnd ==
    /\ pc = "end"
    /\ StampInWindow(IF Interrupted THEN BallotsInterrupted(Cardinality(cur.ok))
                     ELSE BallotsEnd(Dropped))
    /\ pc' = "segend"
    /\ UNCHANGED <<config, chain, wire, files, cur, reply, faults, past>>

stampSegmentEnd ==
    /\ pc = "segend"
    /\ StampInWindow(SegmentEnd)
    /\ pc' = IF cur.by = "resume" THEN "rEnd" ELSE "metrics"
    /\ UNCHANGED <<config, chain, wire, files, cur, reply, faults, past>>

\* An unreadable population, or latencies that cannot be written, return before any
\* metrics are written.
WindowLost ==
    /\ \/ cur.readErr /\ NoFault
       \/ ~cur.readErr /\ MayFail
    /\ Return(TRUE)

writeSubmitMetrics ==
    /\ pc = "metrics"
    /\ \/ WindowLost /\ UNCHANGED files
       \/ /\ ~cur.readErr
          /\ files' = [files EXCEPT !.metrics =
                [have |-> TRUE, submitted |-> Cardinality(cur.sent),
                 committed |-> Cardinality(cur.ok), dropped |-> Dropped,
                 stopped |-> Stopped, bounded |-> windowWasBounded,
                 journalError |-> FALSE]]
          /\ pc' = "jerr"
          /\ NoFault /\ UNCHANGED <<jr, cur, reply>>
    /\ UNCHANGED <<config, chain, wire, past>>

\* A window whose journal broke, or that dropped a ballot, fails its stage; a resume that
\* was cancelled does not close either.
WindowFails_DropsForgiven == cur.broken \/ (cur.by = "resume" /\ cur.cancelled)
WindowFails == cur.broken \/ Dropped > 0 \/ (cur.by = "resume" /\ cur.cancelled)

recordJournalError ==
    /\ pc = "jerr"
    /\ files' = IF cur.broken /\ files.metrics.have
                THEN [files EXCEPT !.metrics.journalError = TRUE] ELSE files
    /\ IF WindowFails THEN Return(TRUE)
       ELSE pc' = "close" /\ UNCHANGED <<jr, cur, reply>>
    /\ UNCHANGED <<config, chain, wire, faults, past>>

-----------------------------------------------------------------------------
(* CloseElection, and what each route does after it.                       *)

\* On the resume route a failed close is stamped and the operator told to retry it.
CloseFails ==
    \/ cur.by # "resume" /\ Return(TRUE)
    \/ /\ cur.by = "resume"
       /\ jr' = ResumeClose(FALSE)
       /\ pc' = "idle" /\ cur' = NoPhase /\ reply' = "retry the close"

\* The call commits and its receipt is written; or the call, or its receipt, fails,
\* before or after the commit.  Only a resume can meet a closed election, for which
\* CreateElection refuses a second stage, and it counts that close as done.
CloseElection ==
    /\ pc = "close"
    /\ LET closed == [chain EXCEPT !.status = "closed"]
       IN \/ /\ cur.cancelled
             /\ CloseFails /\ NoFault /\ UNCHANGED <<chain, files>>
          \/ /\ ~cur.cancelled /\ chain.status = "open"
             /\ chain' = closed /\ files' = [files EXCEPT !.closeReceipt = TRUE]
             /\ pc' = IF config.pauseAtClose THEN "closePause" ELSE "closed"
             /\ NoFault /\ UNCHANGED <<jr, cur, reply>>
          \/ /\ ~cur.cancelled /\ chain.status = "open" /\ MayFail
             /\ chain' \in {chain, closed}
             /\ CloseFails /\ UNCHANGED files
          \/ /\ ~cur.cancelled /\ chain.status = "closed"
             /\ pc' = "closed"
             /\ NoFault /\ UNCHANGED <<chain, jr, files, cur, reply>>
    /\ UNCHANGED <<config, wire, past>>

\* The attack pause of the close stage ends, by decision or timeout or because the run
\* was cancelled.
EndClosePause ==
    /\ pc = "closePause"
    /\ IF cur.cancelled THEN CloseFails
       ELSE pc' = "closed" /\ UNCHANGED <<jr, cur, reply>>
    /\ UNCHANGED <<config, chain, wire, files, faults, past>>

\* Submit goes on to the partial decryptions and the tally; the ceremony and the
\* resume leave those to the trustees.
AfterClose ==
    /\ pc = "closed"
    /\ pc' = IF cur.by = "submit" THEN "tally" ELSE "ceremony"
    /\ jr' = IF cur.by = "resume" THEN ResumeClose(TRUE) ELSE jr
    /\ UNCHANGED <<config, chain, wire, files, cur, reply, faults, past>>

PublishTally ==
    /\ pc = "tally"
    /\ LET tallied == [chain EXCEPT !.tally = TRUE]
       IN \/ /\ ~cur.cancelled
             /\ chain' = tallied
             /\ Return(FALSE)
             /\ UNCHANGED <<config, wire, files, faults, past>>
          \/ StepFails(FALSE, tallied)

WriteCeremony ==
    /\ pc = "ceremony"
    /\ \/ files' = [files EXCEPT !.ceremony = TRUE] /\ NoFault /\ Return(FALSE)
       \/ UNCHANGED files /\ MayFail /\ Return(TRUE)
    /\ UNCHANGED <<config, chain, wire, past>>

-----------------------------------------------------------------------------
(* Resume.                                                                 *)

Resume ==
    /\ pc = "idle" /\ Resumable
    /\ pc' = IF CloseOnly THEN "close" ELSE "rRead"
    /\ cur' = [Fresh("resume") EXCEPT !.segment = jr.segment,
                                      !.segments = Max({1, jr.segments})]
    /\ reply' = "none"
    /\ UNCHANGED <<config, chain, wire, jr, files, faults, past>>

\* The chain's nullifiers, not the journal, say what is pending.
ReadCommitted ==
    /\ pc = "rRead"
    /\ \/ /\ pc' = "rSegment"
          /\ cur' = [cur EXCEPT !.pending = Ballots \ chain.ballots]
          /\ NoFault /\ UNCHANGED <<jr, reply>>
       \/ MayFail /\ Return(TRUE)
    /\ UNCHANGED <<config, chain, wire, files, past>>

StampResumedSegment == pc = "rSegment" /\ StampSegmentStart("rStart")
StampResumedStart == pc = "rStart" /\ OpenWindow("window")

\* A failure whose ballot the chain holds after all is a replay.  If the chain cannot
\* be read again, every failure stays a drop.
Replays == Failed \intersect chain.ballots

ClassifyFailures ==
    /\ pc = "replay"
    /\ \/ cur' = [cur EXCEPT !.replays = Replays] /\ NoFault
       \/ Failed # {} /\ MayFail /\ UNCHANGED cur
    /\ pc' = "end"
    /\ UNCHANGED <<config, chain, wire, jr, files, reply, past>>

-----------------------------------------------------------------------------
(* The verdict.                                                            *)

runFailed_DropsIgnored(f) ==
    CASE f.stageErr -> "stage_error"
      [] ~f.stageErr /\ f.nothingSubmitted -> "nothing_submitted"
      [] ~f.stageErr /\ ~f.nothingSubmitted /\ f.interrupted /\ ~f.bounded -> "interrupted"
      [] OTHER -> ""

\* The first clause that holds is the reason; none, and the run did not fail.
runFailed(f) ==
    IF f.stageErr THEN "stage_error"
    ELSE IF f.nothingSubmitted THEN "nothing_submitted"
    ELSE IF f.dropped > 0 THEN "dropped"
    ELSE IF ~f.reconciled THEN "reconcile_mismatch"
    ELSE IF f.eNonzero THEN "e_nonzero"
    ELSE IF f.interrupted /\ ~f.bounded THEN "interrupted"
    ELSE ""

Sustained_AnySegments(f) == f.segments >= 1 /\ ~f.interrupted
Sustained(f) == f.segments = 1 /\ ~f.interrupted /\ ~f.resumed

Finalise(f) ==
    [stamped |-> TRUE, failed |-> runFailed(f) # "", reason |-> runFailed(f),
     sustained |-> Sustained(f)]

Reconcile(submitted, committed, expected) ==
    committed = submitted /\ submitted = expected

resumeFinaliseInput ==
    [stageErr |-> cur.broken, nothingSubmitted |-> FALSE, dropped |-> Dropped,
     reconciled |-> Reconcile(Cardinality(cur.sent), OnChain, Cardinality(cur.pending)),
     eNonzero |-> FALSE, interrupted |-> cur.stopped, bounded |-> FALSE,
     segments |-> cur.segments + 1, resumed |-> TRUE]

rollUp_AllCommitted(m) ==
    [m EXCEPT !.submitted = N + Cardinality(cur.sent), !.committed = N + OnChain,
              !.dropped = Dropped, !.stopped = cur.stopped]

\* The run's counters after the resumed window.
rollUp(m) ==
    LET already == N - Cardinality(cur.pending)
    IN [m EXCEPT !.submitted = already + Cardinality(cur.sent),
                 !.committed = already + OnChain,
                 !.dropped = Dropped, !.stopped = cur.stopped]

FinaliseResume ==
    /\ pc = "rEnd"
    /\ \/ WindowLost
       \/ /\ ~cur.readErr
          /\ StampInWindow(RunEnd(Finalise(resumeFinaliseInput)))
          /\ pc' = "rollUp"
          /\ NoFault /\ UNCHANGED <<cur, reply>>
    /\ UNCHANGED <<config, chain, wire, files, past>>

rollUpSubmitMetrics ==
    /\ pc = "rollUp"
    /\ files' = IF files.metrics.have
                THEN [files EXCEPT !.metrics = rollUp(files.metrics)] ELSE files
    /\ pc' = "jerr"
    /\ UNCHANGED <<config, chain, wire, jr, cur, reply, faults, past>>

finaliseInput(audit) ==
    LET m == files.metrics
        expected == IF m.bounded THEN m.submitted ELSE N
    IN [stageErr |-> audit = "crashed" \/ m.journalError \/ jr.stageErr,
        nothingSubmitted |-> m.submitted = 0,
        dropped |-> m.dropped,
        reconciled |-> m.have => Reconcile(m.submitted, m.committed, expected),
        eNonzero |-> audit = "nonzero",
        interrupted |-> m.stopped, bounded |-> m.bounded,
        segments |-> IF ~m.have THEN 0 ELSE Max({1, jr.segments}),
        resumed |-> jr.resumed]

\* The verify phase, which audits the population and judges the run.  The audit finds
\* every contest's error zero, or one nonzero, or its process crashes.
Verify ==
    /\ pc = "idle"
    /\ \E audit \in {"zero", "nonzero", "crashed"} :
          jr' = RunEnd(Finalise(finaliseInput(audit)))
    /\ reply' = "none"
    /\ UNCHANGED <<config, chain, wire, files, pc, cur, faults, past>>

-----------------------------------------------------------------------------
(* The environment of a phase.                                             *)

\* The operator cancels the phase, or it times out.
Cancel ==
    /\ pc # "idle" /\ ~cur.cancelled
    /\ MayFail
    /\ cur' = [cur EXCEPT !.cancelled = TRUE]
    /\ UNCHANGED <<config, chain, wire, jr, files, pc, reply, past>>

\* The console is killed: what was in flight may still land.
Crash ==
    /\ pc # "idle"
    /\ MayFail
    /\ wire' = wire \union cur.busy
    /\ pc' = "idle" /\ cur' = NoPhase /\ reply' = "none"
    /\ UNCHANGED <<config, chain, jr, files, past>>

Console ==
    \/ CreateElection
    \/ PublishDKGTranscript
    \/ StampStart
    \/ StampSegmentZero
    \/ Dispatch
    \/ StopDispatch
    \/ \E b \in Ballots : Commit(b) \/ Refuse(b)
    \/ RunReturns
    \/ stampWindowEnd
    \/ stampSegmentEnd
    \/ writeSubmitMetrics
    \/ recordJournalError
    \/ CloseElection
    \/ EndClosePause
    \/ AfterClose
    \/ PublishTally
    \/ WriteCeremony
    \/ ReadCommitted
    \/ StampResumedSegment
    \/ StampResumedStart
    \/ ClassifyFailures
    \/ FinaliseResume
    \/ rollUpSubmitMetrics

Environment ==
    \/ \E b \in Ballots : LoseAnswer(b) \/ ReadFails(b) \/ Land(b) \/ Expire(b)
    \/ FirePeerFault
    \/ JournalBreaks
    \/ Cancel
    \/ Crash

Next ==
    \/ Submit
    \/ CeremonyStart
    \/ Resume
    \/ Verify
    \/ Console
    \/ Environment

Spec == Init /\ [][Next]_vars

\* The console's goroutines run, and the operator keeps resuming what can be resumed.
FairSpec == Spec /\ WF_vars(Console) /\ SF_vars(Resume)

-----------------------------------------------------------------------------
(* Properties.                                                             *)

Phases == {"idle", "create", "dkg", "start", "seg0", "window", "end", "segend",
           "metrics", "jerr", "close", "closePause", "closed", "tally", "ceremony",
           "rRead", "rSegment", "rStart", "replay", "rEnd", "rollUp"}

\* Type invariant.  A phase holds no more submissions than its workers, and every count
\* recorded is one the run can reach.
TypeOK ==
    /\ chain.status \in {"none", "open", "closed"} /\ chain.ballots \subseteq Ballots
    /\ wire \subseteq Ballots
    /\ pc \in Phases /\ cur.by \in {"", "submit", "ceremony", "resume"}
    /\ cur.busy \subseteq cur.sent /\ cur.sent \subseteq cur.pending
    /\ cur.pending \subseteq Ballots /\ cur.ok \subseteq cur.sent \ cur.busy
    /\ Cardinality(cur.busy) <= Concurrency
    /\ jr.n \in 0..N /\ jr.lastDone \in 0..N /\ jr.committed \in -1..N
    /\ files.metrics.committed \in 0..N /\ files.metrics.submitted \in 0..N

AllIn ==
    /\ past.dispatched \subseteq chain.ballots
    /\ ~config.bounded => chain.ballots = Ballots

\* The console never shuts a ballot out: whatever was killed, cancelled, lost or
\* resumed before, when the election is closed every ballot ever dispatched is
\* on the chain, and unless the window was time-bounded that is all of them.
NoneShutOut == chain.status = "closed" => AllIn

\* A run.end that says the run did not fail is right: every ballot dispatched is on the
\* chain, and unless the window was time-bounded that is all of them.  Only a bounded
\* run whose journal broke can escape this: killed before the error is recorded, it
\* leaves clean metrics beside a window that still looks open.
VerdictSound ==
    jr.end.stamped /\ ~jr.end.failed /\ (config.bounded => ~past.broke) => AllIn

\* A sustained figure is only ever published for a run that had a single window, even
\* when a kill left no record of the first one.
SustainedIsOneWindow == jr.end.sustained /\ ~past.broke => past.windows = 1

\* As long as the journal could be written, no two windows write under one segment
\* number, wherever the console was killed in between.
SegmentsDistinct == past.reused => past.broke

\* The committed count that the verify phase judges never exceeds what the chain holds.
CommittedOnChain == files.metrics.committed <= Cardinality(chain.ballots)

\* What the run's files say of it is true, and of the type they have.
RunRecordTrue ==
    /\ TypeOK
    /\ VerdictSound
    /\ SustainedIsOneWindow
    /\ SegmentsDistinct
    /\ CommittedOnChain

\* An interrupted run is never stranded: once a phase has left it resumable, resuming it
\* often enough gets its election closed, whatever else goes wrong meanwhile.
ResumeFinishes == pc = "idle" /\ Resumable ~> chain.status = "closed"

\* Violated.  A verify that judges that the run submitted nothing judges one with nothing on the
\* chain.
NothingSubmittedIsTrue ==
    [][Verify /\ jr'.end.reason = "nothing_submitted" => chain.ballots = {}]_vars

\* Violated: CloseElection has committed when its pause is cancelled, and planResume then
\* refuses.  An operator told to retry the close can: the run is still planned for a resume.
CloseIsRetryable == reply = "retry the close" => Resumable

\* Violated: an earlier window's checkpoint survives.  The estimate of a resume covers at
\* least the ballots that the interrupted window never dispatched.
RemainingCovers == pc = "idle" /\ jr.open => Remaining >= jr.n - past.sent
=============================================================================
