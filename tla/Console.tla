------------------------------ MODULE Console ------------------------------
(***************************************************************************)
(* The console's shared state: the per-run lock (server.go), the single    *)
(* job slot (jobs.go), the network reset (reset.go) and the peer-restart    *)
(* fault (fault.go), with the request handlers that compete for them.      *)
(*                                                                         *)
(* A handler reads the run's record and decides its refusals, then claims  *)
(* the run under s.mu.  What it read may be as old as the request: a step   *)
(* that claims takes it from any earlier moment of the run, and no table    *)
(* of requests is kept.  A phase runs in a goroutine of its own and frees   *)
(* the run when it returns.  What a phase does to the chain is modelled in *)
(* BallotRun and Ceremony: here it is its ballot window, which is what the *)
(* fault fires in, and what its journal says at the end.                   *)
(***************************************************************************)
EXTENDS Naturals, FiniteSets

CONSTANT Runs       \* on-chain runs of the store

ASSUME RunsAssumption == IsFiniteSet(Runs)

VARIABLES
    run,        \* run -> what its folder and journal say of it
    armed,      \* run -> run.json carries a fault plan
    busy,       \* s.busy: run -> the phase holding it, or "none"
    plan,       \* run -> the phase's config carried the fault plan
    cancelled,  \* run -> the phase's context is cancelled
    win,        \* run -> where its ballot window stands
    fault,      \* run -> where the window's peerFault stands
    faulting,   \* e.faulting
    peersDown,  \* e.peersDown
    peer,       \* the Fabric peer's container; "lost" when docker could not start it again
    job,        \* the job board's slot
    chainConn,  \* the cached connection: none, or the network whose identities it carries
    console     \* the console process

runVars   == <<run, armed, busy, plan, cancelled, win>>
faultVars == <<fault, faulting, peersDown, peer>>
netVars   == <<job, chainConn>>
vars == <<runVars, faultVars, netVars, console>>

NoJob  == [kind |-> "none", at |-> "none"]

\* What the run's folder says: "started" is a ballot window its journal leaves open (running,
\* interrupted, or stamped so), "landed" a resume's window that ended with the close still to do,
\* "ended" any other window that ended.
RunStates == {"absent", "new", "generated", "started", "landed", "ended"}
Phases == {"generate", "runall", "submit", "verify", "resume"}

FaultStates == {"none", "armed", "gateJobs", "gateRuns", "firing", "counted", "down", "waiting",
                "refused", "over"}

TypeOK ==
    /\ run \in [Runs -> RunStates]
    /\ armed \in [Runs -> BOOLEAN]
    /\ busy \in [Runs -> Phases \cup {"none", "arm", "armChecked"}]
    /\ plan \in [Runs -> BOOLEAN]
    /\ cancelled \in [Runs -> BOOLEAN]
    /\ win \in [Runs -> {"none", "open", "past", "segment", "closed"}]
    /\ fault \in [Runs -> FaultStates]
    /\ faulting \subseteq Runs
    /\ peersDown \in 0..Cardinality(Runs)
    /\ peer \in {"up", "down", "lost"}
    /\ job \in [kind: {"none", "reset", "measure"}, at: {"none", "queued", "script", "read"}]
    /\ chainConn \in {"none", "current", "replaced"}
    /\ console \in {"up", "stopping", "exited"}

Init ==
    /\ run = [r \in Runs |-> "absent"]
    /\ armed = [r \in Runs |-> FALSE]
    /\ busy = [r \in Runs |-> "none"]
    /\ plan = [r \in Runs |-> FALSE]
    /\ cancelled = [r \in Runs |-> FALSE]
    /\ win = [r \in Runs |-> "none"]
    /\ fault = [r \in Runs |-> "none"]
    /\ faulting = {}
    /\ peersDown = 0
    /\ peer = "up"
    /\ job = NoJob
    /\ chainConn = "none"
    /\ console = "up"

\* The process runs until os.Exit, a console stopping on a signal included.
Alive == console # "exited"

(***************************************************************************)
(* The run lock.                                                           *)
(***************************************************************************)
busyRuns(except) == {r \in Runs \ {except} : busy[r] # "none"}

\* claim: refused while the run is busy, the network is being reset, or a fault is active.
claimRefused(r) ==
    \/ busy[r] # "none"
    \/ job.kind = "reset"
    \/ faulting # {}

\* claimAlone: refused beside any job and any other run's phase.
claimAloneRefused(r) ==
    \/ busy[r] # "none"
    \/ job.kind # "none"
    \/ busyRuns(r) # {}

\* finish, and the window's own state with the goroutine that held it.
finish(r) ==
    /\ busy' = [busy EXCEPT ![r] = "none"]
    /\ plan' = [plan EXCEPT ![r] = FALSE]
    /\ cancelled' = [cancelled EXCEPT ![r] = FALSE]
    /\ win' = [win EXCEPT ![r] = "none"]
    /\ fault' = [fault EXCEPT ![r] = "none"]

\* planResume: the journal's last ballot-window checkpoint left the window open, or a resume
\* landed every ballot and only the close is left.
Resumable(r) == run[r] \in {"started", "landed"}

\* What a route's own checks may have read, at any moment since the run was created: a resume
\* passes planResume while the journal leaves the window open, which every window does at first.
\* A verify, a scenario run, a staged attack and a verify-only are one kind: they claim the run and
\* leave its window alone.
RouteAccepts(k, r) ==
    IF k = "resume" THEN run[r] \in {"started", "landed", "ended"} ELSE run[r] # "absent"

\* claim, taken by dispatchClaimed and handleResume: the phase starts as the run's only one, or the
\* request gets a 409 and changes nothing.
Claim(k, r, p) ==
    /\ ~claimRefused(r)
    /\ busy' = [busy EXCEPT ![r] = k]
    /\ plan' = [plan EXCEPT ![r] = p]

\* handleSubmit, handleVerify, handleScenarios, handleStagedAttack, handleVerifyOnly and
\* handleResume.  Only a submit looks at the fault plan of the config it was dispatched with, and a
\* record read before the plan was written does not carry it.
Dispatch(k, r) ==
    /\ Alive
    /\ RouteAccepts(k, r)
    /\ \E p \in {FALSE, k = "submit" /\ armed[r]} : Claim(k, r, p)
    /\ UNCHANGED <<run, armed, cancelled, win, faultVars, netVars, console>>

\* handleGenerate and handleRunAll: the run folder is created, then the run is claimed; refused,
\* the folder stays.
Create(k, r) ==
    /\ Alive
    /\ run[r] = "absent"
    /\ run' = [run EXCEPT ![r] = "new"]
    /\ \/ Claim(k, r, FALSE)
       \/ claimRefused(r) /\ UNCHANGED <<busy, plan>>
    /\ UNCHANGED <<armed, cancelled, win, faultVars, netVars, console>>

\* handleCancel: the phase's context.
Cancel(r) ==
    /\ Alive
    /\ busy[r] \in Phases /\ ~cancelled[r]
    /\ cancelled' = [cancelled EXCEPT ![r] = TRUE]
    /\ UNCHANGED <<run, armed, busy, plan, win, faultVars, netVars, console>>

(***************************************************************************)
(* Arming a fault: handleFault after its refusals.                         *)
(***************************************************************************)
ArmClaim(r) ==
    /\ Alive
    /\ run[r] # "absent"
    /\ ~claimAloneRefused(r)
    /\ busy' = [busy EXCEPT ![r] = "arm"]
    /\ UNCHANGED <<run, armed, plan, cancelled, win, faultVars, netVars, console>>

\* The journal is read: no journal yet, or a window already started, is a refusal.
ArmCheck(r) ==
    /\ Alive
    /\ busy[r] = "arm"
    /\ busy' = [busy EXCEPT ![r] = IF run[r] = "generated" THEN "armChecked" ELSE "none"]
    /\ UNCHANGED <<run, armed, plan, cancelled, win, faultVars, netVars, console>>

\* run.json is written with the plan, or the write fails; either way the run is freed.
ArmWrite(r) ==
    /\ Alive
    /\ busy[r] = "armChecked"
    /\ \E ok \in BOOLEAN : armed' = [armed EXCEPT ![r] = @ \/ ok]
    /\ busy' = [busy EXCEPT ![r] = "none"]
    /\ UNCHANGED <<run, plan, cancelled, win, faultVars, netVars, console>>

(***************************************************************************)
(* The phases.                                                             *)
(***************************************************************************)
\* Generate, alone or as the first phase of a run-all.
GenerateEnds(r, ok) ==
    /\ Alive
    /\ busy[r] \in {"generate", "runall"} /\ run[r] = "new"
    /\ run' = [run EXCEPT ![r] = IF ok THEN "generated" ELSE @]
    /\ IF busy[r] = "runall" /\ ok /\ ~cancelled[r]
       THEN UNCHANGED <<busy, plan, cancelled, win, fault>>
       ELSE finish(r)
    /\ UNCHANGED <<armed, faulting, peersDown, peer, netVars, console>>

\* Mutant: only the dispatched config is looked at.
armedFault_PlanOnly(r) == plan[r]

\* armedFault: run.json's plan, read when the window opens, else the dispatched config's.
armedFault(r) == armed[r] \/ plan[r]

\* submitBallots: stage.ballots.start, then the window with its fault.
OpenWindow(r) ==
    /\ Alive
    /\ busy[r] \in {"submit", "runall"} /\ run[r] = "generated"
    /\ run' = [run EXCEPT ![r] = "started"]
    /\ win' = [win EXCEPT ![r] = "open"]
    /\ fault' = [fault EXCEPT ![r] = IF armedFault(r) THEN "armed" ELSE "none"]
    /\ plan' = [plan EXCEPT ![r] = FALSE]
    /\ UNCHANGED <<armed, busy, cancelled, faulting, peersDown, peer, netVars, console>>

\* A phase that never gets to its window (the chain refuses the election, the bundle is missing),
\* one that has none, and a generate of a folder another one already generated.
PhaseEnds(r) ==
    /\ Alive
    /\ \/ busy[r] = "verify"
       \/ busy[r] = "submit" /\ win[r] = "none"
       \/ busy[r] = "runall" /\ win[r] = "none" /\ run[r] # "new"
       \/ busy[r] = "generate" /\ run[r] # "new"
    /\ finish(r)
    /\ UNCHANGED <<run, armed, faulting, peersDown, peer, netVars, console>>

\* The worker holding ballot at x N: the first ballot at or past the index decides the fault.
ReachIndex(r) ==
    /\ Alive
    /\ win[r] = "open"
    /\ win' = [win EXCEPT ![r] = "past"]
    /\ fault' = [fault EXCEPT ![r] = IF @ = "armed" THEN "gateJobs" ELSE @]
    /\ UNCHANGED <<run, armed, busy, plan, cancelled, faulting, peersDown, peer, netVars, console>>

\* Mutant: the job slot is not looked at.
GateJobs_Unread(r) ==
    /\ Alive
    /\ fault[r] = "gateJobs"
    /\ fault' = [fault EXCEPT ![r] = "gateRuns"]
    /\ UNCHANGED <<runVars, faulting, peersDown, peer, netVars, console>>

\* faultGate reads the job slot, then the busy runs under s.mu.
GateJobs(r) ==
    /\ Alive
    /\ fault[r] = "gateJobs"
    /\ fault' = [fault EXCEPT ![r] = IF job.kind # "none" THEN "refused" ELSE "gateRuns"]
    /\ UNCHANGED <<runVars, faulting, peersDown, peer, netVars, console>>

GateRuns(r) ==
    /\ Alive
    /\ fault[r] = "gateRuns"
    /\ fault' = [fault EXCEPT ![r] = IF busyRuns(r) # {} THEN "refused" ELSE "firing"]
    /\ UNCHANGED <<runVars, faulting, peersDown, peer, netVars, console>>

\* Mutant: setFaulting is forgotten.
Fire_Unmarked(r) ==
    /\ Alive
    /\ fault[r] = "firing"
    /\ fault' = [fault EXCEPT ![r] = "counted"]
    /\ peersDown' = peersDown + 1
    /\ UNCHANGED <<runVars, faulting, peer, netVars, console>>

\* setFaulting and peersDown.Add(1), before the stop.
Fire(r) ==
    /\ Alive
    /\ fault[r] = "firing"
    /\ fault' = [fault EXCEPT ![r] = "counted"]
    /\ faulting' = faulting \cup {r}
    /\ peersDown' = peersDown + 1
    /\ UNCHANGED <<runVars, peer, netVars, console>>

\* docker stop under stopMu; it may fail, and the fault goes on either way.
StopPeer(r) ==
    /\ Alive
    /\ fault[r] = "counted"
    /\ fault' = [fault EXCEPT ![r] = "down"]
    /\ \E ok \in BOOLEAN : peer' = IF ok THEN "down" ELSE peer
    /\ UNCHANGED <<runVars, faulting, peersDown, netVars, console>>

\* docker start: it may fail, and a stopped peer is then left to the operator.
DockerStart == peer' \in {"up", IF peer = "up" THEN "up" ELSE "lost"}

\* restore, when the sleep is over or the window cancelled: the start is attempted once and
\* counted as done whether or not it worked.
StartPeer(r) ==
    /\ Alive
    /\ fault[r] = "down"
    /\ fault' = [fault EXCEPT ![r] = "waiting"]
    /\ DockerStart
    /\ peersDown' = peersDown - 1
    /\ UNCHANGED <<runVars, faulting, netVars, console>>

\* waitReady returns, the peer answering or its deadline passed; the fault is over.
PeerReady(r) ==
    /\ Alive
    /\ fault[r] = "waiting"
    /\ fault' = [fault EXCEPT ![r] = "over"]
    /\ faulting' = faulting \ {r}
    /\ UNCHANGED <<runVars, peersDown, peer, netVars, console>>

\* The worker stopping the peer is one of the window's: bench.Run returns after it.
FaultInWorker(r) == fault[r] \in {"gateJobs", "gateRuns", "firing", "counted"}

\* bench.Run has returned: the window is stamped interrupted when it was cancelled, or when
\* ballots were lost to an outage; otherwise it ended, with whatever drops it had.
WindowReturns(r) ==
    /\ Alive
    /\ win[r] \in {"open", "past"}
    /\ ~FaultInWorker(r)
    /\ win[r] = "open" => cancelled[r]
    /\ win' = [win EXCEPT ![r] = "closed"]
    /\ \/ /\ cancelled[r] \/ fault[r] \in {"down", "waiting", "over"}
          /\ UNCHANGED run
       \/ run' = [run EXCEPT ![r] = "ended"]
    /\ UNCHANGED <<armed, busy, plan, cancelled, faultVars, netVars, console>>

\* Mutant: a fault the window never reached is waited for.
FaultWaited_ArmedToo(r) == fault[r] \in {"none", "refused", "over"}

\* fault.wait: nothing after the window runs until the peer is back or the fault cannot fire.
FaultWaited(r) == fault[r] \in {"none", "armed", "refused", "over"}

\* The rest of the phase: receipts, metrics, and the close when every ballot landed.
WindowPhaseEnds(r) ==
    /\ Alive
    /\ win[r] = "closed" /\ busy[r] # "resume"
    /\ FaultWaited(r)
    /\ finish(r)
    /\ UNCHANGED <<run, armed, faulting, peersDown, peer, netVars, console>>

\* Mutant: the plan made before the claim is trusted.
ResumePlans_Stale(r) ==
    /\ Alive
    /\ busy[r] = "resume" /\ win[r] = "none"
    /\ win' = [win EXCEPT ![r] = IF run[r] = "landed" THEN "closed" ELSE "segment"]
    /\ UNCHANGED <<run, armed, busy, plan, cancelled, faultVars, netVars, console>>

\* resumeAndClose plans again under the claim; no fault is set up for a resumed segment.
ResumePlans(r) ==
    /\ Alive
    /\ busy[r] = "resume" /\ win[r] = "none"
    /\ IF Resumable(r)
       THEN /\ win' = [win EXCEPT ![r] = IF run[r] = "landed" THEN "closed" ELSE "segment"]
            /\ UNCHANGED <<busy, plan, cancelled, fault>>
       ELSE finish(r)
    /\ UNCHANGED <<run, armed, faulting, peersDown, peer, netVars, console>>

\* The resumed segment returns: stopped part-way or with drops it is interrupted again.
SegmentReturns(r) ==
    /\ Alive
    /\ win[r] = "segment"
    /\ \/ UNCHANGED run /\ finish(r)
       \/ /\ ~cancelled[r]
          /\ run' = [run EXCEPT ![r] = "landed"]
          /\ win' = [win EXCEPT ![r] = "closed"]
          /\ UNCHANGED <<busy, plan, cancelled, fault>>
    /\ UNCHANGED <<armed, faulting, peersDown, peer, netVars, console>>

\* CloseElection of a resume: committed, or left for another resume.
ResumeCloses(r) ==
    /\ Alive
    /\ busy[r] = "resume" /\ win[r] = "closed"
    /\ run' = [run EXCEPT ![r] = "ended"] \/ UNCHANGED run
    /\ finish(r)
    /\ UNCHANGED <<armed, faulting, peersDown, peer, netVars, console>>

(***************************************************************************)
(* The job slot and the network reset.                                     *)
(***************************************************************************)
\* Mutant: only the slot is checked.
JobRefused_SlotOnly == job.kind # "none"

\* startExclusiveJob: no job and no phase on any run, checked and claimed under s.mu.
JobRefused == job.kind # "none" \/ \E r \in Runs : busy[r] # "none"

StartJob(k) ==
    /\ Alive
    /\ ~JobRefused
    /\ job' = [kind |-> k, at |-> "queued"]
    /\ UNCHANGED <<runVars, faultVars, chainConn, console>>

\* A campaign or a ladder drives runs through the same routes; its end frees the slot.
JobEnds ==
    /\ Alive
    /\ job.kind = "measure" \/ job.at = "read"
    /\ job' = NoJob
    /\ UNCHANGED <<runVars, faultVars, chainConn, console>>

\* runReset: the log opens or the reset is not run, then tools/tier.sh starts.
ResetStarts ==
    /\ Alive
    /\ job.kind = "reset" /\ job.at = "queued"
    /\ \/ job' = [job EXCEPT !.at = "script"]
       \/ job' = NoJob
    /\ UNCHANGED <<runVars, faultVars, chainConn, console>>

\* The script regenerates the identity files at some point of its run.
Regenerate ==
    /\ Alive
    /\ job.at = "script" /\ chainConn = "current"
    /\ chainConn' = "replaced"
    /\ UNCHANGED <<runVars, faultVars, job, console>>

\* Mutant: the connection is dropped only for a reset that worked.
ScriptEnds_KeepsConn ==
    /\ Alive
    /\ job.at = "script"
    /\ \/ job' = [job EXCEPT !.at = "read"] /\ chainConn' = "none"
       \/ job' = NoJob /\ UNCHANGED chainConn
    /\ UNCHANGED <<runVars, faultVars, console>>

\* The script is over: exit 0, another code, or killed at its timeout.  The cached connection is
\* dropped whatever the outcome; only after an exit 0 is the new chain read.
ScriptEnds ==
    /\ Alive
    /\ job.at = "script"
    /\ chainConn' = "none"
    /\ \/ job' = [job EXCEPT !.at = "read"]
       \/ job' = NoJob
    /\ UNCHANGED <<runVars, faultVars, console>>

\* dialChain, for /api/trail and for readNewChain: the cached connection, or a new one.
DialChain ==
    /\ Alive
    /\ chainConn = "none"
    /\ chainConn' = "current"
    /\ UNCHANGED <<runVars, faultVars, job, console>>

\* readNewChain drops a connection that cannot read, and dials again until its deadline.
DropChainConn ==
    /\ Alive
    /\ job.at = "read" /\ chainConn # "none"
    /\ chainConn' = "none"
    /\ UNCHANGED <<runVars, faultVars, job, console>>

(***************************************************************************)
(* Shutting down: restorePeerOnSignal.                                     *)
(***************************************************************************)
\* RestorePeer under stopMu: a peer some fault counts as down is started again.
RestorePeer ==
    /\ console = "up"
    /\ console' = "stopping"
    /\ IF peersDown = 0 THEN UNCHANGED peer ELSE DockerStart
    /\ UNCHANGED <<runVars, fault, faulting, peersDown, netVars>>

\* os.Exit: what was in memory is gone; the run folders and the peer's container stay.
Exit ==
    /\ console = "stopping"
    /\ console' = "exited"
    /\ busy' = [r \in Runs |-> "none"] /\ plan' = [r \in Runs |-> FALSE]
    /\ cancelled' = [r \in Runs |-> FALSE] /\ win' = [r \in Runs |-> "none"]
    /\ fault' = [r \in Runs |-> "none"]
    /\ faulting' = {} /\ peersDown' = 0
    /\ job' = NoJob /\ chainConn' = "none"
    /\ UNCHANGED <<run, armed, peer>>

FaultStep(r) ==
    \/ GateJobs(r) \/ GateRuns(r) \/ Fire(r) \/ StopPeer(r) \/ StartPeer(r) \/ PeerReady(r)

PhaseStep(r) ==
    \/ \E ok \in BOOLEAN : GenerateEnds(r, ok)
    \/ OpenWindow(r) \/ ReachIndex(r) \/ WindowReturns(r) \/ WindowPhaseEnds(r) \/ PhaseEnds(r)
    \/ ResumePlans(r) \/ SegmentReturns(r) \/ ResumeCloses(r)

RequestStep(r) ==
    \/ \E k \in {"generate", "runall"} : Create(k, r)
    \/ \E k \in {"submit", "verify", "resume"} : Dispatch(k, r)
    \/ Cancel(r) \/ ArmClaim(r) \/ ArmCheck(r) \/ ArmWrite(r)

JobStep == JobEnds \/ ResetStarts \/ Regenerate \/ ScriptEnds

Next ==
    \/ \E r \in Runs : RequestStep(r) \/ FaultStep(r) \/ PhaseStep(r)
    \/ \E k \in {"reset", "measure"} : StartJob(k)
    \/ JobStep \/ DialChain \/ DropChainConn \/ RestorePeer \/ Exit

Spec == Init /\ [][Next]_vars

\* The goroutines of a live process run; nothing makes an operator or a script act.
Fairness == \A r \in Runs : WF_vars(FaultStep(r)) /\ WF_vars(PhaseStep(r))

FairSpec == Spec /\ Fairness

(***************************************************************************)
(* Properties.                                                             *)
(***************************************************************************)
\* While the reset's script tears the network down, no phase runs on any run, no fault is active
\* and the peer is not one a fault has stopped: startExclusiveJob and claim exclude each other
\* under s.mu, and a faulted window holds its run until the peer is back (fault.wait).
ResetAlone ==
    job.at = "script" =>
        /\ \A r \in Runs : busy[r] = "none"
        /\ faulting = {} /\ peersDown = 0

\* No campaign, ladder or reset ever holds the job slot while a fault has the peer stopped or
\* recovering: a measurement never meets an outage (faultGate, fault.go:209).
JobsNeverMeetAFault == faulting # {} => job.kind = "none"

\* Jobs, phases and faults keep out of each other's way; and every variable has its type.
Exclusion == TypeOK /\ ResetAlone /\ JobsNeverMeetAFault

\* A fault the operator was told is armed is the window's: a phase dispatched with a record read
\* before the arming still opens its window with the plan (fault.go:155-157).
ArmedFaultIsSeen ==
    \A r \in Runs : armed[r] /\ win[r] = "open" => fault[r] # "none"

\* Once no run is faulting the peer has been started again, unless docker refused to: claim lets
\* the next phase onto a network whose peer is up.
PeerUpWhenCalm == faulting = {} /\ Alive => peer # "down"

\* A fault hits the window it was armed for, and nothing after it.
FaultContained == ArmedFaultIsSeen /\ PeerUpWhenCalm

\* A resume never opens a segment over a window that already ended: its plan, made before the
\* claim, is made again under it (executor.go:1407).
SegmentOverOpenWindow ==
    \A r \in Runs : win[r] = "segment" => run[r] = "started"

\* The cached chain connection never carries the identities of a network a reset has replaced.
ConnOfThisNetwork == job.at # "script" => chainConn # "replaced"

\* A fault that fires is over in the end, whatever the window, its cancellation or docker does.
FaultEnds == \A r \in Runs : r \in faulting ~> (r \notin faulting \/ ~Alive)

\* A phase ends: its run is free again, a window waiting for its fault included.
PhaseFrees == \A r \in Runs : busy[r] \in Phases ~> (busy[r] = "none" \/ ~Alive)

\* Neither a fault nor a phase holds its run for ever.
NothingHangs == FaultEnds /\ PhaseFrees

\* Violated, see README.  "faultGate refuses to fire runID's fault while anything else uses the network"
\* (fault.go:209-210): the peer is never stopped under another run's phase.
FaultAlone == \A r \in faulting : busyRuns(r) = {}
=============================================================================
