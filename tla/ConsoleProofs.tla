---------------------------- MODULE ConsoleProofs -----------------------------
(***************************************************************************)
(* Proofs about the console's run lock, job slot, network reset and peer   *)
(* fault, for any finite set of runs; and, in the second half, about its   *)
(* login, for any finite set of requests in flight.                        *)
(***************************************************************************)
EXTENDS Console, Login, TLAPS, FiniteSetTheorems

\* The runs whose fault is between peersDown.Add(1) and its Add(-1).
Down == {r \in Runs : fault[r] \in {"counted", "down"}}

\* A run's lock, window and fault agree: only a window's own phase has the window, a
\* fault lives in a window its phase still holds, and a resumed segment continues a
\* window left open.
RunInv(r) ==
    /\ run[r] = "absent" => busy[r] = "none"
    /\ win[r] # "none" => /\ busy[r] \in {"submit", "runall", "resume"}
                          /\ run[r] \in {"started", "landed", "ended"}
    /\ win[r] \in {"open", "past"} => busy[r] # "resume"
    /\ win[r] = "segment" => busy[r] = "resume" /\ run[r] = "started"
    /\ fault[r] # "none" => win[r] # "none" /\ busy[r] # "resume"
    /\ win[r] = "open" => fault[r] \in {"none", "armed"}
    /\ armed[r] /\ win[r] = "open" => fault[r] # "none"

\* A fault past the job gate has the slot to itself, and e.faulting names the ones
\* firing.
FaultInv(r) ==
    /\ r \in faulting <=> fault[r] \in {"counted", "down", "waiting"}
    /\ fault[r] \in {"gateRuns", "firing", "counted", "down", "waiting"} => job.kind = "none"

\* The slot's stages, and what a reset keeps out.
JobInv ==
    /\ job.kind = "none" <=> job.at = "none"
    /\ job.at \in {"script", "read"} => job.kind = "reset"
    /\ job.kind = "reset" => \A r \in Runs : busy[r] = "none"
    /\ chainConn = "replaced" => job.at = "script"

\* The counter counts, and a peer that is down is some fault's to start again.
PeerInv ==
    /\ peersDown = Cardinality(Down)
    /\ peer = "down" /\ Alive => \E r \in Runs : fault[r] = "down"

ConsoleInv ==
    /\ TypeOK
    /\ \A r \in Runs : RunInv(r) /\ FaultInv(r)
    /\ JobInv
    /\ PeerInv
-----------------------------------------------------------------------------
(* What the counter counts.                                                  *)

\* A step that moves no fault into or out of the counted part leaves the set alone.
LEMMA DownSame ==
    ASSUME \A q \in Runs : fault'[q] \in {"counted", "down"} <=> fault[q] \in {"counted", "down"}
    PROVE  Down' = Down
BY DEF Down

\* The counted faults are at most one per run.
LEMMA DownFinite ==
    /\ IsFiniteSet(Down)
    /\ Cardinality(Down) \in 0..Cardinality(Runs)
<1>1. IsFiniteSet(Down) /\ Cardinality(Down) <= Cardinality(Runs)
  BY RunsAssumption, FS_Subset DEF Down
<1>2. Cardinality(Down) \in Nat /\ Cardinality(Runs) \in Nat
  BY <1>1, RunsAssumption, FS_CardinalityType
<1> QED
  BY <1>1, <1>2

\* The same after a step.
LEMMA DownFinitePrime ==
    /\ IsFiniteSet(Down')
    /\ Cardinality(Down') \in 0..Cardinality(Runs)
<1>1. IsFiniteSet(Down') /\ Cardinality(Down') <= Cardinality(Runs)
  BY RunsAssumption, FS_Subset DEF Down
<1>2. Cardinality(Down') \in Nat /\ Cardinality(Runs) \in Nat
  BY <1>1, RunsAssumption, FS_CardinalityType
<1> QED
  BY <1>1, <1>2

\* A request claims its run while no job resets the network and no fault is active.
LEMMA DispatchKeeps ==
    ASSUME ConsoleInv, NEW r \in Runs, NEW k \in {"submit", "verify", "resume"}, Dispatch(k, r)
    PROVE  ConsoleInv'
<1> USE DEF Dispatch, RouteAccepts, Claim, claimRefused, runVars, faultVars, netVars
<1>0. PICK p \in BOOLEAN : Claim(k, r, p)
  OBVIOUS
<1>1. TypeOK'
  BY <1>0 DEF ConsoleInv, TypeOK, RunStates, Phases, FaultStates
<1>2. \A q \in Runs : RunInv(q)' /\ FaultInv(q)'
  BY <1>0 DEF ConsoleInv, TypeOK, RunInv, FaultInv, JobInv
<1>3. JobInv'
  BY <1>0 DEF ConsoleInv, TypeOK, JobInv, RunInv
<1>4. PeerInv'
  BY <1>0, DownSame DEF ConsoleInv, TypeOK, PeerInv, Alive
<1> QED
  BY <1>1, <1>2, <1>3, <1>4 DEF ConsoleInv

\* A new run is claimed, or only its folder is created.
LEMMA CreateKeeps ==
    ASSUME ConsoleInv, NEW r \in Runs, NEW k \in {"generate", "runall"}, Create(k, r)
    PROVE  ConsoleInv'
<1> USE DEF Create, Claim, claimRefused, runVars, faultVars, netVars
<1>0. /\ busy' \in {busy, [busy EXCEPT ![r] = k]}
      /\ plan' \in {plan, [plan EXCEPT ![r] = FALSE]}
  OBVIOUS
<1>1. TypeOK'
  <2>1. busy' \in [Runs -> Phases \cup {"none", "arm", "armChecked"}]
    BY <1>0 DEF ConsoleInv, TypeOK, Phases
  <2>2. plan' \in [Runs -> BOOLEAN]
    BY <1>0 DEF ConsoleInv, TypeOK
  <2> QED
    BY <2>1, <2>2 DEF ConsoleInv, TypeOK, RunStates
<1>2. \A q \in Runs : RunInv(q)' /\ FaultInv(q)'
  BY <1>0 DEF ConsoleInv, TypeOK, RunInv, FaultInv, JobInv
<1>3. JobInv'
  BY <1>0 DEF ConsoleInv, TypeOK, JobInv, RunInv
<1>4. PeerInv'
  BY <1>0, DownSame DEF ConsoleInv, TypeOK, PeerInv, Alive
<1> QED
  BY <1>1, <1>2, <1>3, <1>4 DEF ConsoleInv

\* A cancel touches the context alone.
LEMMA CancelKeeps ==
    ASSUME ConsoleInv, NEW r \in Runs, Cancel(r)
    PROVE  ConsoleInv'
<1> USE DEF Cancel, runVars, faultVars, netVars
<1>1. TypeOK'
  BY DEF ConsoleInv, TypeOK, RunStates, Phases, FaultStates
<1>2. \A q \in Runs : RunInv(q)' /\ FaultInv(q)'
  BY DEF ConsoleInv, TypeOK, RunInv, FaultInv, JobInv
<1>3. JobInv'
  BY DEF ConsoleInv, TypeOK, JobInv, RunInv
<1>4. PeerInv'
  BY DownSame DEF ConsoleInv, TypeOK, PeerInv, Alive
<1> QED
  BY <1>1, <1>2, <1>3, <1>4 DEF ConsoleInv

\* Arming claims the run alone.
LEMMA ArmClaimKeeps ==
    ASSUME ConsoleInv, NEW r \in Runs, ArmClaim(r)
    PROVE  ConsoleInv'
<1> USE DEF ArmClaim, claimAloneRefused, runVars, faultVars, netVars
<1>1. TypeOK'
  BY DEF ConsoleInv, TypeOK, RunStates, Phases, FaultStates
<1>2. \A q \in Runs : RunInv(q)' /\ FaultInv(q)'
  BY DEF ConsoleInv, TypeOK, RunInv, FaultInv, JobInv
<1>3. JobInv'
  BY DEF ConsoleInv, TypeOK, JobInv, RunInv
<1>4. PeerInv'
  BY DownSame DEF ConsoleInv, TypeOK, PeerInv, Alive
<1> QED
  BY <1>1, <1>2, <1>3, <1>4 DEF ConsoleInv

\* The journal check of an arming keeps or frees the run.
LEMMA ArmCheckKeeps ==
    ASSUME ConsoleInv, NEW r \in Runs, ArmCheck(r)
    PROVE  ConsoleInv'
<1> USE DEF ArmCheck, runVars, faultVars, netVars
<1>1. TypeOK'
  BY DEF ConsoleInv, TypeOK, RunStates, Phases, FaultStates
<1>2. \A q \in Runs : RunInv(q)' /\ FaultInv(q)'
  BY DEF ConsoleInv, TypeOK, RunInv, FaultInv, JobInv
<1>3. JobInv'
  BY DEF ConsoleInv, TypeOK, JobInv, RunInv
<1>4. PeerInv'
  BY DownSame DEF ConsoleInv, TypeOK, PeerInv, Alive
<1> QED
  BY <1>1, <1>2, <1>3, <1>4 DEF ConsoleInv

\* The plan is written while no window of the run is open.
LEMMA ArmWriteKeeps ==
    ASSUME ConsoleInv, NEW r \in Runs, ArmWrite(r)
    PROVE  ConsoleInv'
<1> USE DEF ArmWrite, runVars, faultVars, netVars
<1>1. TypeOK'
  BY DEF ConsoleInv, TypeOK, RunStates, Phases, FaultStates
<1>2. \A q \in Runs : RunInv(q)' /\ FaultInv(q)'
  BY DEF ConsoleInv, TypeOK, RunInv, FaultInv, JobInv
<1>3. JobInv'
  BY DEF ConsoleInv, TypeOK, JobInv, RunInv
<1>4. PeerInv'
  BY DownSame DEF ConsoleInv, TypeOK, PeerInv, Alive
<1> QED
  BY <1>1, <1>2, <1>3, <1>4 DEF ConsoleInv

\* A generate ends before the run has any window.
LEMMA GenerateEndsKeeps ==
    ASSUME ConsoleInv, NEW r \in Runs, NEW ok \in BOOLEAN, GenerateEnds(r, ok)
    PROVE  ConsoleInv'
<1> USE DEF GenerateEnds, finish, runVars, faultVars, netVars
<1>1. TypeOK'
  BY DEF ConsoleInv, TypeOK, RunStates, Phases, FaultStates
<1>2. \A q \in Runs : RunInv(q)' /\ FaultInv(q)'
  BY DEF ConsoleInv, TypeOK, RunInv, FaultInv, JobInv
<1>3. JobInv'
  BY DEF ConsoleInv, TypeOK, JobInv, RunInv
<1>4. PeerInv'
  <2>1. fault[r] \notin {"counted", "down"}
    BY DEF ConsoleInv, TypeOK, RunInv
  <2>2. Down' = Down
    BY <2>1, DownSame DEF ConsoleInv, TypeOK
  <2> QED
    BY <2>1, <2>2 DEF ConsoleInv, TypeOK, PeerInv, Alive
<1> QED
  BY <1>1, <1>2, <1>3, <1>4 DEF ConsoleInv

\* The window opens with the plan run.json or the config carries.
LEMMA OpenWindowKeeps ==
    ASSUME ConsoleInv, NEW r \in Runs, OpenWindow(r)
    PROVE  ConsoleInv'
<1> USE DEF OpenWindow, runVars, faultVars, netVars
<1>0. PICK f \in {"none", "armed"} :
        fault' = [fault EXCEPT ![r] = f] /\ (armed[r] => f = "armed")
  BY DEF armedFault
<1>1. TypeOK'
  BY <1>0 DEF ConsoleInv, TypeOK, RunStates, Phases, FaultStates
<1>2. \A q \in Runs : RunInv(q)' /\ FaultInv(q)'
  BY <1>0 DEF ConsoleInv, TypeOK, RunInv, FaultInv, JobInv
<1>3. JobInv'
  BY <1>0 DEF ConsoleInv, TypeOK, JobInv, RunInv
<1>4. PeerInv'
  <2>1. fault[r] \notin {"counted", "down"}
    BY DEF ConsoleInv, TypeOK, RunInv
  <2>2. Down' = Down
    BY <1>0, <2>1, DownSame DEF ConsoleInv, TypeOK
  <2> QED
    BY <1>0, <2>1, <2>2 DEF ConsoleInv, TypeOK, PeerInv, Alive
<1> QED
  BY <1>1, <1>2, <1>3, <1>4 DEF ConsoleInv

\* A phase without a window frees a run that has no fault.
LEMMA PhaseEndsKeeps ==
    ASSUME ConsoleInv, NEW r \in Runs, PhaseEnds(r)
    PROVE  ConsoleInv'
<1> USE DEF PhaseEnds, finish, runVars, faultVars, netVars
<1>1. TypeOK'
  BY DEF ConsoleInv, TypeOK, RunStates, Phases, FaultStates
<1>2. \A q \in Runs : RunInv(q)' /\ FaultInv(q)'
  BY DEF ConsoleInv, TypeOK, RunInv, FaultInv, JobInv
<1>3. JobInv'
  BY DEF ConsoleInv, TypeOK, JobInv, RunInv
<1>4. PeerInv'
  <2>1. fault[r] \notin {"counted", "down"}
    BY DEF ConsoleInv, TypeOK, RunInv
  <2>2. Down' = Down
    BY <2>1, DownSame DEF ConsoleInv, TypeOK
  <2> QED
    BY <2>1, <2>2 DEF ConsoleInv, TypeOK, PeerInv, Alive
<1> QED
  BY <1>1, <1>2, <1>3, <1>4 DEF ConsoleInv

\* An armed fault goes to its gate when the window reaches the index.
LEMMA ReachIndexKeeps ==
    ASSUME ConsoleInv, NEW r \in Runs, ReachIndex(r)
    PROVE  ConsoleInv'
<1> USE DEF ReachIndex, runVars, faultVars, netVars
<1>1. TypeOK'
  BY DEF ConsoleInv, TypeOK, RunStates, Phases, FaultStates
<1>2. \A q \in Runs : RunInv(q)' /\ FaultInv(q)'
  BY DEF ConsoleInv, TypeOK, RunInv, FaultInv, JobInv
<1>3. JobInv'
  BY DEF ConsoleInv, TypeOK, JobInv, RunInv
<1>4. PeerInv'
  BY DownSame DEF ConsoleInv, TypeOK, PeerInv, Alive
<1> QED
  BY <1>1, <1>2, <1>3, <1>4 DEF ConsoleInv

\* The job slot is read empty, and no job starts beside the window.
LEMMA GateJobsKeeps ==
    ASSUME ConsoleInv, NEW r \in Runs, GateJobs(r)
    PROVE  ConsoleInv'
<1> USE DEF GateJobs, runVars, faultVars, netVars
<1>1. TypeOK'
  BY DEF ConsoleInv, TypeOK, RunStates, Phases, FaultStates
<1>2. \A q \in Runs : RunInv(q)' /\ FaultInv(q)'
  BY DEF ConsoleInv, TypeOK, RunInv, FaultInv, JobInv
<1>3. JobInv'
  BY DEF ConsoleInv, TypeOK, JobInv, RunInv
<1>4. PeerInv'
  BY DownSame DEF ConsoleInv, TypeOK, PeerInv, Alive
<1> QED
  BY <1>1, <1>2, <1>3, <1>4 DEF ConsoleInv

\* The busy runs are read.
LEMMA GateRunsKeeps ==
    ASSUME ConsoleInv, NEW r \in Runs, GateRuns(r)
    PROVE  ConsoleInv'
<1> USE DEF GateRuns, runVars, faultVars, netVars
<1>1. TypeOK'
  BY DEF ConsoleInv, TypeOK, RunStates, Phases, FaultStates
<1>2. \A q \in Runs : RunInv(q)' /\ FaultInv(q)'
  BY DEF ConsoleInv, TypeOK, RunInv, FaultInv, JobInv
<1>3. JobInv'
  BY DEF ConsoleInv, TypeOK, JobInv, RunInv
<1>4. PeerInv'
  BY DownSame DEF ConsoleInv, TypeOK, PeerInv, Alive
<1> QED
  BY <1>1, <1>2, <1>3, <1>4 DEF ConsoleInv

\* The fault is marked and counted before the peer is stopped.
LEMMA FireKeeps ==
    ASSUME ConsoleInv, NEW r \in Runs, Fire(r)
    PROVE  ConsoleInv'
<1> USE DEF Fire, runVars, faultVars, netVars
<1>0. peersDown' = Cardinality(Down')
  <2>1. Down' = Down \cup {r} /\ r \notin Down
    BY DEF ConsoleInv, TypeOK, Down
  <2>2. Cardinality(Down') = Cardinality(Down) + 1
    BY <2>1, DownFinite, FS_AddElement
  <2> QED
    BY <2>2 DEF ConsoleInv, PeerInv
<1>1. TypeOK'
  BY <1>0, DownFinitePrime DEF ConsoleInv, TypeOK, RunStates, Phases, FaultStates
<1>2. \A q \in Runs : RunInv(q)' /\ FaultInv(q)'
  BY <1>0 DEF ConsoleInv, TypeOK, RunInv, FaultInv, JobInv
<1>3. JobInv'
  BY <1>0 DEF ConsoleInv, TypeOK, JobInv, RunInv
<1>4. PeerInv'
  BY <1>0 DEF ConsoleInv, TypeOK, PeerInv, Alive
<1> QED
  BY <1>1, <1>2, <1>3, <1>4 DEF ConsoleInv

\* The peer is stopped by a fault that will start it again.
LEMMA StopPeerKeeps ==
    ASSUME ConsoleInv, NEW r \in Runs, StopPeer(r)
    PROVE  ConsoleInv'
<1> USE DEF StopPeer, runVars, faultVars, netVars
<1>1. TypeOK'
  BY DEF ConsoleInv, TypeOK, RunStates, Phases, FaultStates
<1>2. \A q \in Runs : RunInv(q)' /\ FaultInv(q)'
  BY DEF ConsoleInv, TypeOK, RunInv, FaultInv, JobInv
<1>3. JobInv'
  BY DEF ConsoleInv, TypeOK, JobInv, RunInv
<1>4. PeerInv'
  BY DownSame DEF ConsoleInv, TypeOK, PeerInv, Alive
<1> QED
  BY <1>1, <1>2, <1>3, <1>4 DEF ConsoleInv

\* The start is attempted and counted, whether or not it worked.
LEMMA StartPeerKeeps ==
    ASSUME ConsoleInv, NEW r \in Runs, StartPeer(r)
    PROVE  ConsoleInv'
<1> USE DEF StartPeer, DockerStart, runVars, faultVars, netVars
<1>0. peersDown' = Cardinality(Down')
  <2>1. Down' = Down \ {r} /\ r \in Down
    BY DEF ConsoleInv, TypeOK, Down
  <2>2. Cardinality(Down') = Cardinality(Down) - 1
    BY <2>1, DownFinite, FS_RemoveElement
  <2> QED
    BY <2>2 DEF ConsoleInv, PeerInv
<1>1. TypeOK'
  BY <1>0, DownFinitePrime DEF ConsoleInv, TypeOK, RunStates, Phases, FaultStates
<1>2. \A q \in Runs : RunInv(q)' /\ FaultInv(q)'
  BY <1>0 DEF ConsoleInv, TypeOK, RunInv, FaultInv, JobInv
<1>3. JobInv'
  BY <1>0 DEF ConsoleInv, TypeOK, JobInv, RunInv
<1>4. PeerInv'
  BY <1>0 DEF ConsoleInv, TypeOK, PeerInv, Alive
<1> QED
  BY <1>1, <1>2, <1>3, <1>4 DEF ConsoleInv

\* A fault whose peer was started again is unmarked.
LEMMA PeerReadyKeeps ==
    ASSUME ConsoleInv, NEW r \in Runs, PeerReady(r)
    PROVE  ConsoleInv'
<1> USE DEF PeerReady, runVars, faultVars, netVars
<1>1. TypeOK'
  BY DEF ConsoleInv, TypeOK, RunStates, Phases, FaultStates
<1>2. \A q \in Runs : RunInv(q)' /\ FaultInv(q)'
  BY DEF ConsoleInv, TypeOK, RunInv, FaultInv, JobInv
<1>3. JobInv'
  BY DEF ConsoleInv, TypeOK, JobInv, RunInv
<1>4. PeerInv'
  BY DownSame DEF ConsoleInv, TypeOK, PeerInv, Alive
<1> QED
  BY <1>1, <1>2, <1>3, <1>4 DEF ConsoleInv

\* The window returns, its fault possibly still outside.
LEMMA WindowReturnsKeeps ==
    ASSUME ConsoleInv, NEW r \in Runs, WindowReturns(r)
    PROVE  ConsoleInv'
<1> USE DEF WindowReturns, runVars, faultVars, netVars, FaultInWorker
<1>1. TypeOK'
  BY DEF ConsoleInv, TypeOK, RunStates, Phases, FaultStates
<1>2. \A q \in Runs : RunInv(q)' /\ FaultInv(q)'
  BY DEF ConsoleInv, TypeOK, RunInv, FaultInv, JobInv
<1>3. JobInv'
  BY DEF ConsoleInv, TypeOK, JobInv, RunInv
<1>4. PeerInv'
  BY DownSame DEF ConsoleInv, TypeOK, PeerInv, Alive
<1> QED
  BY <1>1, <1>2, <1>3, <1>4 DEF ConsoleInv

\* The phase frees its run after its fault was waited for.
LEMMA WindowPhaseEndsKeeps ==
    ASSUME ConsoleInv, NEW r \in Runs, WindowPhaseEnds(r)
    PROVE  ConsoleInv'
<1> USE DEF WindowPhaseEnds, finish, FaultWaited, runVars, faultVars, netVars
<1>1. TypeOK'
  BY DEF ConsoleInv, TypeOK, RunStates, Phases, FaultStates
<1>2. \A q \in Runs : RunInv(q)' /\ FaultInv(q)'
  BY DEF ConsoleInv, TypeOK, RunInv, FaultInv, JobInv
<1>3. JobInv'
  BY DEF ConsoleInv, TypeOK, JobInv, RunInv
<1>4. PeerInv'
  BY DownSame DEF ConsoleInv, TypeOK, PeerInv, Alive
<1> QED
  BY <1>1, <1>2, <1>3, <1>4 DEF ConsoleInv

\* A resume opens a segment over a window its fresh plan found open.
LEMMA ResumePlansKeeps ==
    ASSUME ConsoleInv, NEW r \in Runs, ResumePlans(r)
    PROVE  ConsoleInv'
<1> USE DEF ResumePlans, finish, Resumable, runVars, faultVars, netVars
<1>1. TypeOK'
  <2>1. CASE Resumable(r)
    <3>1. win' \in [Runs -> {"none", "open", "past", "segment", "closed"}]
      BY <2>1 DEF ConsoleInv, TypeOK
    <3> QED
      BY <2>1, <3>1 DEF ConsoleInv, TypeOK
  <2>2. CASE ~Resumable(r)
    <3>1. /\ busy' \in [Runs -> Phases \cup {"none", "arm", "armChecked"}]
          /\ plan' \in [Runs -> BOOLEAN] /\ cancelled' \in [Runs -> BOOLEAN]
          /\ win' \in [Runs -> {"none", "open", "past", "segment", "closed"}]
          /\ fault' \in [Runs -> FaultStates]
      BY <2>2 DEF ConsoleInv, TypeOK, Phases, FaultStates
    <3> QED
      BY <2>2, <3>1 DEF ConsoleInv, TypeOK
  <2> QED
    BY <2>1, <2>2
<1>2. \A q \in Runs : RunInv(q)' /\ FaultInv(q)'
  BY DEF ConsoleInv, TypeOK, RunInv, FaultInv, JobInv
<1>3. JobInv'
  BY DEF ConsoleInv, TypeOK, JobInv, RunInv
<1>4. PeerInv'
  <2>1. fault[r] \notin {"counted", "down"}
    BY DEF ConsoleInv, TypeOK, RunInv
  <2>2. Down' = Down
    BY <2>1, DownSame DEF ConsoleInv, TypeOK
  <2> QED
    BY <2>1, <2>2 DEF ConsoleInv, TypeOK, PeerInv, Alive
<1> QED
  BY <1>1, <1>2, <1>3, <1>4 DEF ConsoleInv

\* A segment returns to its resume.
LEMMA SegmentReturnsKeeps ==
    ASSUME ConsoleInv, NEW r \in Runs, SegmentReturns(r)
    PROVE  ConsoleInv'
<1> USE DEF SegmentReturns, finish, runVars, faultVars, netVars
<1>1. TypeOK'
  <2>1. run' \in [Runs -> RunStates]
    BY DEF ConsoleInv, TypeOK, RunStates
  <2>2. /\ busy' \in [Runs -> Phases \cup {"none", "arm", "armChecked"}]
        /\ plan' \in [Runs -> BOOLEAN] /\ cancelled' \in [Runs -> BOOLEAN]
        /\ win' \in [Runs -> {"none", "open", "past", "segment", "closed"}]
    BY DEF ConsoleInv, TypeOK, Phases
  <2>3. fault' \in [Runs -> FaultStates]
    BY DEF ConsoleInv, TypeOK, FaultStates
  <2> QED
    BY <2>1, <2>2, <2>3 DEF ConsoleInv, TypeOK
<1>2. \A q \in Runs : RunInv(q)' /\ FaultInv(q)'
  BY DEF ConsoleInv, TypeOK, RunInv, FaultInv, JobInv
<1>3. JobInv'
  BY DEF ConsoleInv, TypeOK, JobInv, RunInv
<1>4. PeerInv'
  <2>1. fault[r] \notin {"counted", "down"}
    BY DEF ConsoleInv, TypeOK, RunInv
  <2>2. Down' = Down
    BY <2>1, DownSame DEF ConsoleInv, TypeOK
  <2> QED
    BY <2>1, <2>2 DEF ConsoleInv, TypeOK, PeerInv, Alive
<1> QED
  BY <1>1, <1>2, <1>3, <1>4 DEF ConsoleInv

\* A resume closes the election and frees the run.
LEMMA ResumeClosesKeeps ==
    ASSUME ConsoleInv, NEW r \in Runs, ResumeCloses(r)
    PROVE  ConsoleInv'
<1> USE DEF ResumeCloses, finish, runVars, faultVars, netVars
<1>1. TypeOK'
  BY DEF ConsoleInv, TypeOK, RunStates, Phases, FaultStates
<1>2. \A q \in Runs : RunInv(q)' /\ FaultInv(q)'
  BY DEF ConsoleInv, TypeOK, RunInv, FaultInv, JobInv
<1>3. JobInv'
  BY DEF ConsoleInv, TypeOK, JobInv, RunInv
<1>4. PeerInv'
  <2>1. fault[r] \notin {"counted", "down"}
    BY DEF ConsoleInv, TypeOK, RunInv
  <2>2. Down' = Down
    BY <2>1, DownSame DEF ConsoleInv, TypeOK
  <2> QED
    BY <2>1, <2>2 DEF ConsoleInv, TypeOK, PeerInv, Alive
<1> QED
  BY <1>1, <1>2, <1>3, <1>4 DEF ConsoleInv

\* A job starts only beside no phase, hence beside no fault.
LEMMA StartJobKeeps ==
    ASSUME ConsoleInv, NEW k \in {"reset", "measure"}, StartJob(k)
    PROVE  ConsoleInv'
<1> USE DEF StartJob, JobRefused, runVars, faultVars, netVars
<1>1. TypeOK'
  BY DEF ConsoleInv, TypeOK, RunStates, Phases, FaultStates
<1>2. \A q \in Runs : RunInv(q)' /\ FaultInv(q)'
  BY DEF ConsoleInv, TypeOK, RunInv, FaultInv, JobInv
<1>3. JobInv'
  BY DEF ConsoleInv, TypeOK, JobInv, RunInv
<1>4. PeerInv'
  BY DownSame DEF ConsoleInv, TypeOK, PeerInv, Alive
<1> QED
  BY <1>1, <1>2, <1>3, <1>4 DEF ConsoleInv

\* A job ends.
LEMMA JobEndsKeeps ==
    ASSUME ConsoleInv, JobEnds
    PROVE  ConsoleInv'
<1> USE DEF JobEnds, NoJob, runVars, faultVars, netVars
<1>1. TypeOK'
  BY DEF ConsoleInv, TypeOK, RunStates, Phases, FaultStates
<1>2. \A q \in Runs : RunInv(q)' /\ FaultInv(q)'
  BY DEF ConsoleInv, TypeOK, RunInv, FaultInv, JobInv
<1>3. JobInv'
  BY DEF ConsoleInv, TypeOK, JobInv, RunInv
<1>4. PeerInv'
  BY DownSame DEF ConsoleInv, TypeOK, PeerInv, Alive
<1> QED
  BY <1>1, <1>2, <1>3, <1>4 DEF ConsoleInv

\* A reset starts its script or is given up.
LEMMA ResetStartsKeeps ==
    ASSUME ConsoleInv, ResetStarts
    PROVE  ConsoleInv'
<1> USE DEF ResetStarts, NoJob, runVars, faultVars, netVars
<1>1. TypeOK'
  BY DEF ConsoleInv, TypeOK, RunStates, Phases, FaultStates
<1>2. \A q \in Runs : RunInv(q)' /\ FaultInv(q)'
  BY DEF ConsoleInv, TypeOK, RunInv, FaultInv, JobInv
<1>3. JobInv'
  BY DEF ConsoleInv, TypeOK, JobInv, RunInv
<1>4. PeerInv'
  BY DownSame DEF ConsoleInv, TypeOK, PeerInv, Alive
<1> QED
  BY <1>1, <1>2, <1>3, <1>4 DEF ConsoleInv

\* The identities change while the script runs.
LEMMA RegenerateKeeps ==
    ASSUME ConsoleInv, Regenerate
    PROVE  ConsoleInv'
<1> USE DEF Regenerate, runVars, faultVars, netVars
<1>1. TypeOK'
  BY DEF ConsoleInv, TypeOK, RunStates, Phases, FaultStates
<1>2. \A q \in Runs : RunInv(q)' /\ FaultInv(q)'
  BY DEF ConsoleInv, TypeOK, RunInv, FaultInv, JobInv
<1>3. JobInv'
  BY DEF ConsoleInv, TypeOK, JobInv, RunInv
<1>4. PeerInv'
  BY DownSame DEF ConsoleInv, TypeOK, PeerInv, Alive
<1> QED
  BY <1>1, <1>2, <1>3, <1>4 DEF ConsoleInv

\* The connection goes with the script, whatever its outcome.
LEMMA ScriptEndsKeeps ==
    ASSUME ConsoleInv, ScriptEnds
    PROVE  ConsoleInv'
<1> USE DEF ScriptEnds, NoJob, runVars, faultVars, netVars
<1>1. TypeOK'
  BY DEF ConsoleInv, TypeOK, RunStates, Phases, FaultStates
<1>2. \A q \in Runs : RunInv(q)' /\ FaultInv(q)'
  BY DEF ConsoleInv, TypeOK, RunInv, FaultInv, JobInv
<1>3. JobInv'
  BY DEF ConsoleInv, TypeOK, JobInv, RunInv
<1>4. PeerInv'
  BY DownSame DEF ConsoleInv, TypeOK, PeerInv, Alive
<1> QED
  BY <1>1, <1>2, <1>3, <1>4 DEF ConsoleInv

\* A dial.
LEMMA DialChainKeeps ==
    ASSUME ConsoleInv, DialChain
    PROVE  ConsoleInv'
<1> USE DEF DialChain, runVars, faultVars, netVars
<1>1. TypeOK'
  BY DEF ConsoleInv, TypeOK, RunStates, Phases, FaultStates
<1>2. \A q \in Runs : RunInv(q)' /\ FaultInv(q)'
  BY DEF ConsoleInv, TypeOK, RunInv, FaultInv, JobInv
<1>3. JobInv'
  BY DEF ConsoleInv, TypeOK, JobInv, RunInv
<1>4. PeerInv'
  BY DownSame DEF ConsoleInv, TypeOK, PeerInv, Alive
<1> QED
  BY <1>1, <1>2, <1>3, <1>4 DEF ConsoleInv

\* A drop.
LEMMA DropChainConnKeeps ==
    ASSUME ConsoleInv, DropChainConn
    PROVE  ConsoleInv'
<1> USE DEF DropChainConn, runVars, faultVars, netVars
<1>1. TypeOK'
  BY DEF ConsoleInv, TypeOK, RunStates, Phases, FaultStates
<1>2. \A q \in Runs : RunInv(q)' /\ FaultInv(q)'
  BY DEF ConsoleInv, TypeOK, RunInv, FaultInv, JobInv
<1>3. JobInv'
  BY DEF ConsoleInv, TypeOK, JobInv, RunInv
<1>4. PeerInv'
  BY DownSame DEF ConsoleInv, TypeOK, PeerInv, Alive
<1> QED
  BY <1>1, <1>2, <1>3, <1>4 DEF ConsoleInv

\* The shutdown starts a peer that is counted as down.
LEMMA RestorePeerKeeps ==
    ASSUME ConsoleInv, RestorePeer
    PROVE  ConsoleInv'
<1> USE DEF RestorePeer, DockerStart, runVars, faultVars, netVars
<1>1. TypeOK'
  BY DEF ConsoleInv, TypeOK, RunStates, Phases, FaultStates
<1>2. \A q \in Runs : RunInv(q)' /\ FaultInv(q)'
  BY DEF ConsoleInv, TypeOK, RunInv, FaultInv, JobInv
<1>3. JobInv'
  BY DEF ConsoleInv, TypeOK, JobInv, RunInv
<1>4. PeerInv'
  BY DownSame DEF ConsoleInv, TypeOK, PeerInv, Alive
<1> QED
  BY <1>1, <1>2, <1>3, <1>4 DEF ConsoleInv

\* The process is gone, and what it held with it.
LEMMA ExitKeeps ==
    ASSUME ConsoleInv, Exit
    PROVE  ConsoleInv'
<1> USE DEF Exit, NoJob, runVars, faultVars, netVars
<1>0. peersDown' = Cardinality(Down')
  <2>1. Down' = {}
    BY DEF Down
  <2> QED
    BY <2>1, FS_EmptySet
<1>1. TypeOK'
  BY <1>0, DownFinitePrime DEF ConsoleInv, TypeOK, RunStates, Phases, FaultStates
<1>2. \A q \in Runs : RunInv(q)' /\ FaultInv(q)'
  BY <1>0 DEF ConsoleInv, TypeOK, RunInv, FaultInv, JobInv
<1>3. JobInv'
  BY <1>0 DEF ConsoleInv, TypeOK, JobInv, RunInv
<1>4. PeerInv'
  BY <1>0 DEF ConsoleInv, TypeOK, PeerInv, Alive
<1> QED
  BY <1>1, <1>2, <1>3, <1>4 DEF ConsoleInv

-----------------------------------------------------------------------------
(* The invariant, and what it gives.                                         *)

\* Initially nothing is held.
LEMMA ConsoleInvInit == Init => ConsoleInv
<1> SUFFICES ASSUME Init PROVE ConsoleInv
  OBVIOUS
<1>1. Down = {}
  BY DEF Init, Down
<1>2. peersDown = Cardinality(Down)
  BY <1>1, FS_EmptySet DEF Init
<1>3. TypeOK
  BY <1>2, DownFinite DEF Init, TypeOK, NoJob, RunStates, Phases, FaultStates
<1> QED
  BY <1>2, <1>3 DEF Init, ConsoleInv, RunInv, FaultInv, JobInv, PeerInv, NoJob

\* Every step keeps the invariant.
LEMMA ConsoleInvNext == ConsoleInv /\ [Next]_vars => ConsoleInv'
<1> SUFFICES ASSUME ConsoleInv, [Next]_vars PROVE ConsoleInv'
  OBVIOUS
<1>1. ASSUME NEW r \in Runs, RequestStep(r) PROVE ConsoleInv'
  BY <1>1, CreateKeeps, DispatchKeeps, CancelKeeps, ArmClaimKeeps, ArmCheckKeeps,
     ArmWriteKeeps
     DEF RequestStep
<1>2. ASSUME NEW r \in Runs, FaultStep(r) PROVE ConsoleInv'
  BY <1>2, GateJobsKeeps, GateRunsKeeps, FireKeeps, StopPeerKeeps, StartPeerKeeps,
     PeerReadyKeeps
     DEF FaultStep
<1>3. ASSUME NEW r \in Runs, PhaseStep(r) PROVE ConsoleInv'
  BY <1>3, GenerateEndsKeeps, OpenWindowKeeps, ReachIndexKeeps, WindowReturnsKeeps,
     WindowPhaseEndsKeeps, PhaseEndsKeeps, ResumePlansKeeps, SegmentReturnsKeeps, ResumeClosesKeeps
     DEF PhaseStep
<1>4. ASSUME NEW k \in {"reset", "measure"}, StartJob(k) PROVE ConsoleInv'
  BY <1>4, StartJobKeeps
<1>5. CASE JobStep
  BY <1>5, JobEndsKeeps, ResetStartsKeeps, RegenerateKeeps, ScriptEndsKeeps DEF JobStep
<1>6. CASE DialChain \/ DropChainConn \/ RestorePeer \/ Exit
  BY <1>6, DialChainKeeps, DropChainConnKeeps, RestorePeerKeeps, ExitKeeps
<1>7. CASE UNCHANGED vars
  <2> USE <1>7 DEF vars, runVars, faultVars, netVars
  <2>1. TypeOK' /\ JobInv' /\ \A q \in Runs : RunInv(q)' /\ FaultInv(q)'
    BY DEF ConsoleInv, TypeOK, JobInv, RunInv, FaultInv
  <2>2. PeerInv'
    BY DownSame DEF ConsoleInv, PeerInv, Alive
  <2> QED
    BY <2>1, <2>2 DEF ConsoleInv
<1> QED
  BY <1>1, <1>2, <1>3, <1>4, <1>5, <1>6, <1>7 DEF Next

\* The lock, the windows, the faults, the slot and the counter agree in every reachable
\* state.
THEOREM ConsoleInvariant == Spec => []ConsoleInv
BY ConsoleInvInit, ConsoleInvNext, PTL DEF Spec

\* A job that must be alone is: under the reset's script no phase, no fault and no
\* counted peer; and no job of any kind beside an active fault (startExclusiveJob,
\* claim, faultGate, fault.wait).
THEOREM ConsoleExclusion == Spec => []Exclusion
<1>1. ConsoleInv => Exclusion
  <2> SUFFICES ASSUME ConsoleInv PROVE Exclusion
    OBVIOUS
  <2>1. ASSUME job.at = "script" PROVE faulting = {} /\ Down = {}
    BY <2>1 DEF ConsoleInv, TypeOK, JobInv, RunInv, FaultInv, Down
  <2>2. ResetAlone
    BY <2>1, FS_EmptySet DEF ConsoleInv, JobInv, PeerInv, ResetAlone
  <2>3. JobsNeverMeetAFault
    BY DEF ConsoleInv, TypeOK, FaultInv, JobsNeverMeetAFault
  <2> QED
    BY <2>2, <2>3 DEF ConsoleInv, Exclusion
<1> QED
  BY <1>1, ConsoleInvariant, PTL

\* An armed fault is the one its window opens with, and once no fault is active the
\* peer is up or docker refused to start it (armedFault, restore, RestorePeer).
THEOREM ConsoleFaultContained == Spec => []FaultContained
<1>1. ConsoleInv => FaultContained
  <2> SUFFICES ASSUME ConsoleInv PROVE FaultContained
    OBVIOUS
  <2>1. ArmedFaultIsSeen
    BY DEF ConsoleInv, RunInv, ArmedFaultIsSeen
  <2>2. PeerUpWhenCalm
    BY DEF ConsoleInv, FaultInv, PeerInv, PeerUpWhenCalm
  <2> QED
    BY <2>1, <2>2 DEF FaultContained
<1> QED
  BY <1>1, ConsoleInvariant, PTL

\* A resumed segment is never opened over a window that ended between the resume's
\* first plan and its claim (resumeAndClose plans again).
THEOREM ConsoleSegments == Spec => []SegmentOverOpenWindow
<1>1. ConsoleInv => SegmentOverOpenWindow
  BY DEF ConsoleInv, RunInv, SegmentOverOpenWindow
<1> QED
  BY <1>1, ConsoleInvariant, PTL

\* Outside the script no cached connection carries a replaced network's identities
\* (runReset drops it on every outcome).
THEOREM ConsoleConnection == Spec => []ConnOfThisNetwork
<1>1. ConsoleInv => ConnOfThisNetwork
  BY DEF ConsoleInv, JobInv, ConnOfThisNetwork
<1> QED
  BY <1>1, ConsoleInvariant, PTL

-----------------------------------------------------------------------------
(* The login: what a failure record says of the guesses let through.       *)

\* Guesses let through by age: none less than 0 ticks ago, and more the further back.
GuessLog(w) ==
    /\ w \in [Within -> Nat]
    /\ w[0] = 0
    /\ \A i, j \in Within : i <= j => w[i] <= w[j]

\* How far back a record reaches, within a lockout.
Reach(rec) == IF rec.age < loginLockout THEN rec.age ELSE loginLockout

\* A record and the guesses w it let through, where g right passwords are still
\* being checked and at most s of them reserved in an earlier record.  Every guess
\* since the record began is counted in it, so that those of the last lockout are
\* its own and the ones of a single record before it.  A locked record counts
\* nothing, and no guess was let through since its lock was set.
RecordHolds(rec, w, limit, s, g) ==
    /\ rec = None => w[loginLockout] + g <= limit + s
    /\ rec # None =>
        /\ rec.count <= limit
        /\ rec.lock = 0 => /\ w[Reach(rec)] + g <= rec.count + s
                           /\ w[loginLockout] + g <= limit + s + rec.count
        /\ rec.lock > 0 => /\ rec.count = 0
                           /\ w[loginLockout - rec.lock] = 0
                           /\ w[loginLockout] <= 2 * limit + s

\* A record of the map of failures, or none.
Entries == Record \cup {None}

\* The bound that both limits come from.
LEMMA GuessesBounded ==
    ASSUME NEW rec \in Entries, NEW w, GuessLog(w), NEW limit \in Nat,
           NEW s \in Nat, NEW g \in Nat, RecordHolds(rec, w, limit, s, g)
    PROVE  w[loginLockout] <= 2 * limit + s
<1>1. loginLockout \in Within /\ w[loginLockout] \in Nat
  BY LoginAssumption DEF Within, GuessLog
<1> QED
  BY <1>1 DEF RecordHolds, Entries, Record

\* A fresh record, and one whose count is changed, are not the absent one.
LEMMA RecordsPresent ==
    /\ \A rec \in Record : rec # None
    /\ Fresh \in Record /\ [Fresh EXCEPT !.lock = loginLockout] \in Record
    /\ \A rec \in Record, c \in Nat : [rec EXCEPT !.count = c] \in Record
<1>1. Record \subseteq [count : Nat, age : Nat, lock : Nat]
  BY LoginAssumption DEF Record
<1>2. \A rec \in Record : rec # None
  BY <1>1, LoginAssumption
<1>3. Fresh \in Record /\ [Fresh EXCEPT !.lock = loginLockout] \in Record
  BY LoginAssumption DEF Record, Fresh
<1>4. \A rec \in Record, c \in Nat : [rec EXCEPT !.count = c] \in Record
  BY DEF Record
<1> QED
  BY <1>2, <1>3, <1>4

\* A record that lapsed is older than a lockout: what it let through lately is its own.
LEMMA PruneHolds ==
    ASSUME NEW rec \in Entries, NEW w, GuessLog(w), NEW limit \in Nat,
           NEW s \in Nat, NEW g \in Nat, RecordHolds(rec, w, limit, s, g)
    PROVE  RecordHolds(IF rec # None /\ lapsed(rec) THEN None ELSE rec, w, limit, s, g)
<1>1. CASE rec # None /\ lapsed(rec)
  <2>1. rec.lock = 0 /\ Reach(rec) = loginLockout /\ rec \in Record
    BY <1>1, LoginAssumption DEF lapsed, Reach, Entries, Record
  <2>2. w[loginLockout] \in Nat
    BY LoginAssumption DEF GuessLog, Within
  <2>3. w[loginLockout] + g <= rec.count + s /\ rec.count <= limit
    BY <1>1, <2>1 DEF RecordHolds
  <2>4. w[loginLockout] + g <= limit + s
    BY <2>1, <2>2, <2>3 DEF Record
  <2> QED
    BY <1>1, <2>4 DEF RecordHolds
<1>2. CASE ~(rec # None /\ lapsed(rec))
  BY <1>2
<1> QED
  BY <1>1, <1>2

\* A new record begins with nothing let through.
LEMMA FreshHolds ==
    ASSUME NEW w, GuessLog(w), NEW limit \in Nat, NEW s \in Nat, NEW g \in Nat, g <= s,
           RecordHolds(None, w, limit, s, g)
    PROVE  RecordHolds(Fresh, w, limit, s, g)
<1>1. Fresh # None /\ Fresh.lock = 0 /\ Fresh.count = 0 /\ Reach(Fresh) = 0
  BY RecordsPresent, LoginAssumption DEF Fresh, Reach
<1>2. w[0] = 0 /\ w[loginLockout] \in Nat
  BY LoginAssumption DEF GuessLog, Within
<1> QED
  BY <1>1, <1>2 DEF RecordHolds

\* An admitted wrong password is let through and counted.
LEMMA GuessHolds ==
    ASSUME NEW rec \in Record, NEW w, GuessLog(w), NEW limit \in Nat,
           NEW s \in Nat, NEW g \in Nat, RecordHolds(rec, w, limit, s, g),
           ~blocked(rec, limit)
    PROVE  RecordHolds([rec EXCEPT !.count = @ + 1], Guessed(w), limit, s, g)
<1> DEFINE new == [rec EXCEPT !.count = @ + 1]
<1>1. /\ new \in Record /\ new # None /\ rec # None
      /\ new.count = rec.count + 1 /\ new.lock = 0 /\ rec.lock = 0 /\ new.age = rec.age
      /\ rec.count \in Nat /\ rec.count + 1 <= limit
  BY RecordsPresent DEF blocked, Record
<1>2. Reach(new) = Reach(rec) /\ Reach(rec) \in Within /\ loginLockout \in Within \ {0}
  BY <1>1, LoginAssumption DEF Reach, Record, Within
<1>3. /\ Guessed(w)[loginLockout] = w[loginLockout] + 1
      /\ Guessed(w)[Reach(rec)] <= w[Reach(rec)] + 1
      /\ Guessed(w)[Reach(rec)] \in Nat
      /\ w[loginLockout] \in Nat /\ w[Reach(rec)] \in Nat
  BY <1>2 DEF Guessed, GuessLog
<1>4. /\ w[Reach(rec)] + g <= rec.count + s
      /\ w[loginLockout] + g <= limit + s + rec.count
  BY <1>1 DEF RecordHolds
<1> HIDE DEF new
<1> QED
  BY <1>1, <1>2, <1>3, <1>4 DEF RecordHolds, new

\* An admitted right password is counted too, and being checked.
LEMMA ReserveHolds ==
    ASSUME NEW rec \in Record, NEW w, GuessLog(w), NEW limit \in Nat,
           NEW s \in Nat, NEW g \in Nat, NEW h \in Nat, h <= g + 1,
           RecordHolds(rec, w, limit, s, g), ~blocked(rec, limit)
    PROVE  RecordHolds([rec EXCEPT !.count = @ + 1], w, limit, s, h)
<1> DEFINE new == [rec EXCEPT !.count = @ + 1]
<1>1. /\ new \in Record /\ new # None /\ rec # None
      /\ new.count = rec.count + 1 /\ new.lock = 0 /\ rec.lock = 0 /\ new.age = rec.age
      /\ rec.count \in Nat /\ rec.count + 1 <= limit
  BY RecordsPresent DEF blocked, Record
<1>2. Reach(new) = Reach(rec) /\ Reach(rec) \in Within /\ loginLockout \in Within \ {0}
  BY <1>1, LoginAssumption DEF Reach, Record, Within
<1>3. w[loginLockout] \in Nat /\ w[Reach(rec)] \in Nat
  BY <1>2 DEF GuessLog
<1>4. /\ w[Reach(rec)] + g <= rec.count + s
      /\ w[loginLockout] + g <= limit + s + rec.count
  BY <1>1 DEF RecordHolds
<1> HIDE DEF new
<1> QED
  BY <1>1, <1>2, <1>3, <1>4 DEF RecordHolds, new

\* A record at its limit locks; everything let through is from before the lock.
LEMMA LockHolds ==
    ASSUME NEW rec \in Entries, NEW w, GuessLog(w), NEW limit \in Nat \ {0},
           NEW s \in Nat, NEW g \in Nat, RecordHolds(rec, w, limit, s, g)
    PROVE  lockAt(rec, limit) \in Entries /\ RecordHolds(lockAt(rec, limit), w, limit, s, g)
<1>1. CASE rec # None /\ rec.count >= limit
  <2> DEFINE new == [Fresh EXCEPT !.lock = loginLockout]
  <2>1. /\ new \in Record /\ new # None /\ new.count = 0 /\ new.lock = loginLockout
        /\ loginLockout > 0 /\ loginLockout - loginLockout = 0
    BY RecordsPresent, LoginAssumption DEF Fresh
  <2>2. rec \in Record /\ rec.count \in Nat /\ rec.lock \in Nat /\ w[loginLockout] \in Nat
    BY <1>1, LoginAssumption DEF Entries, Record, GuessLog, Within
  <2>3. rec.lock = 0 /\ w[loginLockout] <= 2 * limit + s
    BY <1>1, <2>2 DEF RecordHolds
  <2>4. lockAt(rec, limit) = new /\ w[0] = 0
    BY <1>1 DEF lockAt, GuessLog
  <2> HIDE DEF new
  <2>5. RecordHolds(new, w, limit, s, g)
    BY <2>1, <2>3, <2>4, LoginAssumption DEF RecordHolds
  <2> QED
    BY <2>1, <2>4, <2>5 DEF Entries
<1>2. CASE ~(rec # None /\ rec.count >= limit)
  BY <1>2 DEF lockAt
<1> QED
  BY <1>1, <1>2

\* A login hands its reservation back, if the record still counts one.
LEMMA HandBackHolds ==
    ASSUME NEW rec \in Entries, NEW w, GuessLog(w), NEW limit \in Nat,
           NEW s \in Nat, NEW g \in Nat, NEW h \in Nat, g = h + 1,
           RecordHolds(rec, w, limit, s, g)
    PROVE  /\ rec # None /\ rec.count > 0 =>
                /\ [rec EXCEPT !.count = @ - 1] \in Record
                /\ RecordHolds([rec EXCEPT !.count = @ - 1], w, limit, s, h)
           /\ ~(rec # None /\ rec.count > 0) => RecordHolds(rec, w, limit, s, h)
<1>1. loginLockout \in Within /\ w[loginLockout] \in Nat
  BY LoginAssumption DEF Within, GuessLog
<1>2. CASE rec # None /\ rec.count > 0
  <2> DEFINE new == [rec EXCEPT !.count = @ - 1]
  <2>1. rec \in Record /\ rec.count \in Nat /\ rec.count - 1 \in Nat /\ rec.lock \in Nat /\ rec.age \in Nat
    BY <1>2, LoginAssumption DEF Entries, Record
  <2>2. new \in Record /\ new # None /\ new.count = rec.count - 1 /\ new.lock = rec.lock
        /\ Reach(new) = Reach(rec) /\ Reach(rec) \in Within
    BY <2>1, RecordsPresent, LoginAssumption DEF Record, Reach, Within
  <2>3. w[Reach(rec)] \in Nat
    BY <2>2 DEF GuessLog
  <2>4. rec.lock = 0 /\ rec.count <= limit
        /\ w[Reach(rec)] + g <= rec.count + s /\ w[loginLockout] + g <= limit + s + rec.count
    BY <1>2, <2>1 DEF RecordHolds
  <2>5. /\ new.lock = 0 /\ new.count <= limit
        /\ w[Reach(new)] + h <= new.count + s
        /\ w[loginLockout] + h <= limit + s + new.count
    BY <1>1, <2>1, <2>2, <2>3, <2>4
  <2> HIDE DEF new
  <2>6. RecordHolds(new, w, limit, s, h)
    BY <2>2, <2>5 DEF RecordHolds
  <2> QED
    BY <1>2, <2>2, <2>6 DEF new
<1>3. CASE ~(rec # None /\ rec.count > 0)
  <2>1. CASE rec = None
    BY <1>1, <2>1 DEF RecordHolds
  <2>2. CASE rec # None
    <3>1. rec \in Record /\ rec.count = 0 /\ rec.lock \in Nat /\ rec.age \in Nat
      BY <1>3, <2>2, LoginAssumption DEF Entries, Record
    <3>2. Reach(rec) \in Within
      BY <3>1, LoginAssumption DEF Reach, Within
    <3>3. w[Reach(rec)] \in Nat
      BY <3>2 DEF GuessLog
    <3> QED
      BY <1>1, <1>3, <2>2, <3>1, <3>3 DEF RecordHolds
  <2> QED
    BY <1>3, <2>1, <2>2
<1> QED
  BY <1>2, <1>3

\* A tick of the clock, for the log.
LEMMA ShiftLog ==
    ASSUME NEW w, GuessLog(w)
    PROVE  /\ GuessLog(Shift(w)) /\ GuessLog(Guessed(w)) /\ GuessLog(NoGuess)
           /\ \A i \in Within \ {0} : Shift(w)[i] = w[i - 1]
           /\ Shift(w)[0] = 0
<1>1. \A i \in Within \ {0} : i - 1 \in Within /\ Shift(w)[i] = w[i - 1]
  BY LoginAssumption DEF Within, Shift
<1>2. Shift(w)[0] = 0 /\ Guessed(w)[0] = 0 /\ NoGuess[0] = 0
  BY LoginAssumption DEF Within, Shift, Guessed, NoGuess
<1>3. Shift(w) \in [Within -> Nat] /\ Guessed(w) \in [Within -> Nat] /\ NoGuess \in [Within -> Nat]
  BY LoginAssumption DEF Within, Shift, Guessed, NoGuess, GuessLog
<1>4. \A i, j \in Within : i <= j => Shift(w)[i] <= Shift(w)[j]
  <2> SUFFICES ASSUME NEW i \in Within, NEW j \in Within, i <= j
               PROVE  Shift(w)[i] <= Shift(w)[j]
    OBVIOUS
  <2>1. Shift(w)[j] \in Nat
    BY <1>3
  <2>2. CASE i = 0
    BY <1>2, <2>1, <2>2
  <2>3. CASE i # 0
    <3>1. j # 0 /\ i - 1 <= j - 1
      BY <2>3 DEF Within
    <3> QED
      BY <1>1, <2>3, <3>1 DEF GuessLog
  <2> QED
    BY <2>2, <2>3
<1>5. \A i, j \in Within : i <= j => Guessed(w)[i] <= Guessed(w)[j]
  <2> SUFFICES ASSUME NEW i \in Within, NEW j \in Within, i <= j
               PROVE  Guessed(w)[i] <= Guessed(w)[j]
    OBVIOUS
  <2>1. Guessed(w)[j] \in Nat
    BY <1>3
  <2>2. CASE i = 0
    BY <1>2, <2>1, <2>2
  <2>3. CASE i # 0
    <3>1. j # 0 /\ Guessed(w)[i] = w[i] + 1 /\ Guessed(w)[j] = w[j] + 1
      BY <2>3 DEF Within, Guessed
    <3>2. w[i] <= w[j] /\ w[i] \in Nat /\ w[j] \in Nat
      BY DEF GuessLog
    <3> QED
      BY <3>1, <3>2
  <2> QED
    BY <2>2, <2>3
<1> QED
  BY <1>1, <1>2, <1>3, <1>4, <1>5 DEF GuessLog, NoGuess

\* An entry of either map, one tick older.
Aged(rec) ==
    IF rec = None THEN None
    ELSE [rec EXCEPT !.age = IF @ > loginFailWindow THEN @ ELSE @ + 1,
                     !.lock = IF @ = 0 THEN 0 ELSE @ - 1]

\* A tick for a record: it ages, and what is left of its lock runs down.
LEMMA TickHolds ==
    ASSUME NEW rec \in Record, NEW w, GuessLog(w), NEW limit \in Nat,
           NEW s \in Nat, NEW g \in Nat, g <= s, RecordHolds(rec, w, limit, s, g)
    PROVE  Aged(rec) \in Record /\ RecordHolds(Aged(rec), Shift(w), limit, s, g)
<1> DEFINE new == Aged(rec)
<1>1. /\ rec.count \in Nat /\ rec.age \in 0..(loginFailWindow + 1)
      /\ rec.lock \in 0..loginLockout
      /\ new.count = rec.count
      /\ new.age = IF rec.age > loginFailWindow THEN rec.age ELSE rec.age + 1
      /\ new.lock = IF rec.lock = 0 THEN 0 ELSE rec.lock - 1
      /\ new \in Record
  <2>1. /\ rec.count \in Nat /\ rec.age \in 0..(loginFailWindow + 1)
        /\ rec.lock \in 0..loginLockout
    BY DEF Record
  <2>2. new = [count |-> rec.count,
               age |-> IF rec.age > loginFailWindow THEN rec.age ELSE rec.age + 1,
               lock |-> IF rec.lock = 0 THEN 0 ELSE rec.lock - 1]
    BY RecordsPresent DEF Record, Aged
  <2>3. /\ (IF rec.age > loginFailWindow THEN rec.age ELSE rec.age + 1)
              \in 0..(loginFailWindow + 1)
        /\ (IF rec.lock = 0 THEN 0 ELSE rec.lock - 1) \in 0..loginLockout
    BY <2>1, LoginAssumption
  <2> QED
    BY <2>1, <2>2, <2>3 DEF Record
<1>2. new # None /\ rec # None
  BY <1>1, RecordsPresent
<1> SUFFICES RecordHolds(new, Shift(w), limit, s, g)
  BY <1>1
<1> HIDE DEF new
<1>3. /\ loginLockout \in Within \ {0} /\ loginLockout - 1 \in Within
      /\ Reach(rec) \in Within /\ Reach(new) \in Within \ {0}
      /\ Reach(new) - 1 \in Within /\ Reach(new) - 1 <= Reach(rec)
  BY <1>1, LoginAssumption DEF Within, Reach
<1>4. /\ Shift(w)[loginLockout] = w[loginLockout - 1]
      /\ Shift(w)[Reach(new)] = w[Reach(new) - 1]
      /\ w[loginLockout - 1] \in Nat /\ w[loginLockout - 1] <= w[loginLockout]
      /\ w[Reach(new) - 1] \in Nat /\ w[Reach(new) - 1] <= w[Reach(rec)]
      /\ w[Reach(new) - 1] <= w[loginLockout - 1]
      /\ w[loginLockout] \in Nat /\ w[Reach(rec)] \in Nat
  <2>1. loginLockout - 1 <= loginLockout /\ Reach(new) - 1 <= loginLockout - 1
    BY <1>3, LoginAssumption DEF Within
  <2> QED
    BY <1>3, <2>1, ShiftLog DEF GuessLog
<1>5. CASE rec.lock = 0
  BY <1>1, <1>2, <1>4, <1>5 DEF RecordHolds
<1>6. CASE rec.lock = 1
  <2>1. w[loginLockout - 1] = 0 /\ rec.count = 0 /\ new.lock = 0
    BY <1>1, <1>2, <1>6 DEF RecordHolds
  <2>2. Shift(w)[loginLockout] = 0 /\ Shift(w)[Reach(new)] = 0
    BY <1>4, <2>1
  <2> QED
    BY <1>1, <1>2, <2>1, <2>2 DEF RecordHolds
<1>7. CASE rec.lock > 1
  <2>1. /\ w[loginLockout - rec.lock] = 0 /\ rec.count = 0 /\ new.lock = rec.lock - 1
        /\ w[loginLockout] <= 2 * limit + s
    BY <1>1, <1>2, <1>7 DEF RecordHolds
  <2>2. /\ loginLockout - new.lock \in Within \ {0}
        /\ (loginLockout - new.lock) - 1 = loginLockout - rec.lock
    BY <1>1, <1>7, <2>1, LoginAssumption DEF Within
  <2>3. Shift(w)[loginLockout - new.lock] = 0
    BY <2>1, <2>2, ShiftLog
  <2> QED
    BY <1>1, <1>2, <1>4, <1>7, <2>1, <2>3 DEF RecordHolds
<1> QED
  BY <1>1, <1>5, <1>6, <1>7

\* The right passwords being checked from an address.
Honest(a) == {r \in Checking(a) : request[r].good}

\* A request past its reservation.
Logins == [step : {"check", "create"}, addr : Addresses, name : Names,
           good : BOOLEAN, age : Nat]

Sessions == [name : Names, left : 0..sessionTTL]

LoginTypes ==
    /\ ipFails \in [Addresses -> Entries] /\ userFails \in [Keys -> Entries]
    /\ request \in [Requests -> {Waiting} \cup Logins]
    /\ sessions \in [Tokens -> Sessions \cup {None}]
    /\ ipWrong \in [Addresses -> [Within -> Nat]]
    /\ userWrong \in [Keys -> [Within -> Nat]]
    /\ anyWrong \in BOOLEAN

\* Each address: the guesses of its log went through its record, and logins of right
\* passwords still being checked may have reserved in an earlier one.
AddressInv ==
    \A a \in Addresses :
        /\ GuessLog(ipWrong[a])
        /\ RecordHolds(ipFails[a], ipWrong[a], maxIPLoginFailures,
                       Cardinality(Requests), Cardinality(Honest(a)))

\* Each name from an address, unless it is too long to have a record.
NameInv ==
    \A a \in Addresses, n \in Names :
        /\ GuessLog(userWrong[<<a, n>>])
        /\ IF n \in LongNames THEN userFails[<<a, n>>] = None
           ELSE RecordHolds(userFails[<<a, n>>], userWrong[<<a, n>>], maxLoginFailures, 0, 0)

\* Without a wrong password every login being checked is right.
HonestInv ==
    /\ ~anyWrong => \A r \in Requests : request[r].step = "check" => request[r].good
    /\ HonestNeverLocked

\* The inductive invariant of the login.
LoginInv == LoginTypes /\ AddressInv /\ NameInv /\ HonestInv

\* Sets of requests are finite, and no larger than the requests in flight.
LEMMA CountRequests ==
    ASSUME NEW S \in SUBSET Requests
    PROVE  /\ IsFiniteSet(S) /\ Cardinality(S) \in Nat
           /\ Cardinality(Requests) \in Nat /\ Cardinality(S) <= Cardinality(Requests)
BY LoginAssumption, FS_Subset, FS_CardinalityType

\* Pruning keeps every record that is not lapsed and its invariant.
LEMMA CurrentHolds ==
    ASSUME LoginInv
    PROVE  /\ Current(ipFails) \in [Addresses -> Entries]
           /\ Current(userFails) \in [Keys -> Entries]
           /\ \A a \in Addresses :
                /\ Current(ipFails)[a] \in {None, ipFails[a]}
                /\ RecordHolds(Current(ipFails)[a], ipWrong[a], maxIPLoginFailures,
                               Cardinality(Requests), Cardinality(Honest(a)))
           /\ \A a \in Addresses, n \in Names :
                /\ Current(userFails)[<<a, n>>] \in {None, userFails[<<a, n>>]}
                /\ n \in LongNames => Current(userFails)[<<a, n>>] = None
                /\ n \notin LongNames =>
                      RecordHolds(Current(userFails)[<<a, n>>], userWrong[<<a, n>>],
                                  maxLoginFailures, 0, 0)
<1>1. DOMAIN ipFails = Addresses /\ DOMAIN userFails = Keys
  BY DEF LoginInv, LoginTypes
<1>2. ASSUME NEW a \in Addresses
      PROVE  /\ Current(ipFails)[a] \in Entries
             /\ Current(ipFails)[a] \in {None, ipFails[a]}
             /\ RecordHolds(Current(ipFails)[a], ipWrong[a], maxIPLoginFailures,
                            Cardinality(Requests), Cardinality(Honest(a)))
  <2>1. ipFails[a] \in Entries
    BY DEF LoginInv, LoginTypes
  <2>2. Current(ipFails)[a] =
            IF ipFails[a] # None /\ lapsed(ipFails[a]) THEN None ELSE ipFails[a]
    BY <1>1 DEF Current
  <2>3. Cardinality(Requests) \in Nat /\ Cardinality(Honest(a)) \in Nat
    BY CountRequests DEF Honest, Checking
  <2>4. /\ GuessLog(ipWrong[a])
        /\ RecordHolds(ipFails[a], ipWrong[a], maxIPLoginFailures,
                       Cardinality(Requests), Cardinality(Honest(a)))
    BY DEF LoginInv, AddressInv
  <2>5. maxIPLoginFailures \in Nat
    BY LoginAssumption
  <2> QED
    BY <2>1, <2>2, <2>3, <2>4, <2>5, PruneHolds DEF Entries
<1>3. ASSUME NEW a \in Addresses, NEW n \in Names
      PROVE  /\ Current(userFails)[<<a, n>>] \in Entries
             /\ Current(userFails)[<<a, n>>] \in {None, userFails[<<a, n>>]}
             /\ n \in LongNames => Current(userFails)[<<a, n>>] = None
             /\ n \notin LongNames =>
                   RecordHolds(Current(userFails)[<<a, n>>], userWrong[<<a, n>>],
                               maxLoginFailures, 0, 0)
  <2>1. <<a, n>> \in Keys /\ userFails[<<a, n>>] \in Entries
    BY DEF LoginInv, LoginTypes, Keys
  <2>2. Current(userFails)[<<a, n>>] =
            IF userFails[<<a, n>>] # None /\ lapsed(userFails[<<a, n>>])
            THEN None ELSE userFails[<<a, n>>]
    BY <1>1, <2>1 DEF Current
  <2>3. /\ GuessLog(userWrong[<<a, n>>])
        /\ IF n \in LongNames THEN userFails[<<a, n>>] = None
           ELSE RecordHolds(userFails[<<a, n>>], userWrong[<<a, n>>], maxLoginFailures, 0, 0)
    BY DEF LoginInv, NameInv
  <2>4. maxLoginFailures \in Nat /\ 0 \in Nat
    BY LoginAssumption
  <2>5. n \notin LongNames =>
            RecordHolds(Current(userFails)[<<a, n>>], userWrong[<<a, n>>],
                        maxLoginFailures, 0, 0)
    BY <2>1, <2>2, <2>3, <2>4, PruneHolds
  <2> QED
    BY <2>1, <2>2, <2>3, <2>5 DEF Entries
<1>4. Current(ipFails) \in [Addresses -> Entries]
  BY <1>1, <1>2 DEF Current
<1>5. Current(userFails) \in [Keys -> Entries]
  <2>1. \A k \in Keys : Current(userFails)[k] \in Entries
    BY <1>3 DEF Keys
  <2> QED
    BY <1>1, <2>1 DEF Current
<1> QED
  BY <1>2, <1>3, <1>4, <1>5

\* The requests being checked stay the same ones.
SameChecks ==
    \A r \in Requests :
        /\ request'[r].step = "check" <=> request[r].step = "check"
        /\ request[r].step = "check" =>
              /\ request'[r].addr = request[r].addr /\ request'[r].name = request[r].name
              /\ request'[r].good = request[r].good

\* So do the sets that the counters are compared with.
LEMMA SameSets ==
    ASSUME SameChecks
    PROVE  /\ \A a : Checking(a)' = Checking(a) /\ Honest(a)' = Honest(a)
           /\ \A a, n : CheckingName(a, n)' = CheckingName(a, n)
BY DEF SameChecks, Checking, Honest, CheckingName

\* A live session map is well typed.
LEMMA LiveTyped ==
    ASSUME LoginInv
    PROVE  LiveSessions \in [Tokens -> Sessions \cup {None}]
BY DEF LoginInv, LoginTypes, LiveSessions

\* A step that only prunes, and leaves the checks alone.
LEMMA PruningKeeps ==
    ASSUME LoginInv, ipFails' = Current(ipFails), userFails' = Current(userFails),
           request' \in [Requests -> {Waiting} \cup Logins], SameChecks,
           sessions' \in [Tokens -> Sessions \cup {None}], UNCHANGED ghosts
    PROVE  LoginInv'
<1>1. UNCHANGED <<ipWrong, userWrong, anyWrong>>
  BY DEF ghosts
<1>2. LoginTypes'
  BY <1>1, CurrentHolds DEF LoginInv, LoginTypes
<1>3. AddressInv'
  BY <1>1, CurrentHolds, SameSets DEF LoginInv, AddressInv
<1>4. NameInv'
  BY <1>1, CurrentHolds DEF LoginInv, NameInv
<1>5. ASSUME ~anyWrong'
      PROVE  \A r \in Requests : request'[r].step = "check" => request'[r].good
  BY <1>1, <1>5 DEF LoginInv, HonestInv, SameChecks
<1>6. ASSUME ~anyWrong', NEW a \in Addresses, ipFails'[a] # None
      PROVE  ipFails'[a].lock = 0 /\ ipFails'[a].count <= Cardinality(Checking(a)')
  <2>1. ipFails'[a] = ipFails[a]
    BY <1>6, CurrentHolds
  <2> QED
    BY <1>1, <1>6, <2>1, SameSets DEF LoginInv, HonestInv, HonestNeverLocked
<1>7. ASSUME ~anyWrong', NEW a \in Addresses, NEW n \in Names, userFails'[<<a, n>>] # None
      PROVE  /\ userFails'[<<a, n>>].lock = 0
             /\ userFails'[<<a, n>>].count <= Cardinality(CheckingName(a, n)')
  <2>1. userFails'[<<a, n>>] = userFails[<<a, n>>]
    BY <1>7, CurrentHolds
  <2> QED
    BY <1>1, <1>7, <2>1, SameSets DEF LoginInv, HonestInv, HonestNeverLocked
<1>8. HonestInv'
  BY <1>5, <1>6, <1>7 DEF HonestInv, HonestNeverLocked
<1> QED
  BY <1>2, <1>3, <1>4, <1>8 DEF LoginInv

\* A session is created.
LEMMA CreateSessionKeeps ==
    ASSUME LoginInv, NEW r \in Requests, create(r)
    PROVE  LoginInv'
<1>1. /\ request[r].step = "create" /\ request' = [request EXCEPT ![r] = Waiting]
      /\ userFails' = Current(userFails) /\ ipFails' = Current(ipFails) /\ UNCHANGED ghosts
  BY DEF create
<1>2. request \in [Requests -> {Waiting} \cup Logins]
  BY DEF LoginInv, LoginTypes
<1>3. request' \in [Requests -> {Waiting} \cup Logins]
  BY <1>1, <1>2
<1>4. SameChecks
  BY <1>1, <1>2 DEF SameChecks, Waiting
<1>5. request[r].name \in Names
  BY <1>1, <1>2 DEF Waiting, Logins
<1>6. sessions' \in [Tokens -> Sessions \cup {None}]
  <2>1. CASE sessions' = LiveSessions
    BY <2>1, LiveTyped
  <2>2. ASSUME NEW t \in Tokens,
               sessions' = [LiveSessions EXCEPT ![t] =
                                [name |-> request[r].name, left |-> sessionTTL]]
        PROVE  sessions' \in [Tokens -> Sessions \cup {None}]
    <3>1. [name |-> request[r].name, left |-> sessionTTL] \in Sessions
      BY <1>5, LoginAssumption DEF Sessions
    <3> QED
      BY <2>2, <3>1, LiveTyped
  <2> QED
    BY <2>1, <2>2 DEF create
<1> QED
  BY <1>1, <1>3, <1>4, <1>6, PruningKeeps

\* A request is served.
LEMMA AuthorizeKeeps ==
    ASSUME LoginInv, NEW t \in Tokens, NEW access, Authorize(t, access)
    PROVE  LoginInv'
<1>1. /\ sessions' = LiveSessions /\ userFails' = Current(userFails)
      /\ ipFails' = Current(ipFails) /\ request' = request /\ UNCHANGED ghosts
  BY DEF Authorize
<1>2. request' \in [Requests -> {Waiting} \cup Logins] /\ SameChecks
  BY <1>1 DEF LoginInv, LoginTypes, SameChecks
<1> QED
  BY <1>1, <1>2, LiveTyped, PruningKeeps

\* A step that leaves the login alone but for its sessions.
LEMMA LoginStill ==
    ASSUME LoginInv, UNCHANGED <<ipFails, userFails, request, ipWrong, userWrong, anyWrong>>,
           sessions' \in [Tokens -> Sessions \cup {None}]
    PROVE  LoginInv'
<1>1. SameChecks
  BY DEF SameChecks
<1>2. LoginTypes'
  BY DEF LoginInv, LoginTypes
<1>3. AddressInv' /\ NameInv'
  BY <1>1, SameSets DEF LoginInv, AddressInv, NameInv
<1>4. HonestInv'
  BY <1>1, SameSets DEF LoginInv, HonestInv, HonestNeverLocked
<1> QED
  BY <1>2, <1>3, <1>4 DEF LoginInv

\* A session ends.
LEMMA LogoutKeeps ==
    ASSUME LoginInv, NEW t \in Tokens, Logout(t)
    PROVE  LoginInv'
<1>1. sessions' \in [Tokens -> Sessions \cup {None}]
  BY DEF Logout, LoginInv, LoginTypes
<1>2. UNCHANGED <<ipFails, userFails, request, ipWrong, userWrong, anyWrong>>
  BY DEF Logout, ghosts
<1> QED
  BY <1>1, <1>2, LoginStill

\* An entry of either map still accounts for the guesses it let through.
LEMMA TickEntry ==
    ASSUME NEW rec \in Entries, NEW w, GuessLog(w), NEW limit \in Nat,
           NEW s \in Nat, NEW g \in Nat, g <= s, RecordHolds(rec, w, limit, s, g)
    PROVE  Aged(rec) \in Entries /\ RecordHolds(Aged(rec), Shift(w), limit, s, g)
<1>1. CASE rec = None
  <2>1. loginLockout \in Within \ {0} /\ loginLockout - 1 \in Within
    BY LoginAssumption DEF Within
  <2>2. /\ Shift(w)[loginLockout] = w[loginLockout - 1]
        /\ w[loginLockout - 1] \in Nat /\ w[loginLockout] \in Nat
    BY <2>1, ShiftLog DEF GuessLog
  <2>3. w[loginLockout - 1] <= w[loginLockout]
    BY <2>1, LoginAssumption DEF GuessLog
  <2> QED
    BY <1>1, <2>2, <2>3 DEF RecordHolds, Entries, Aged
<1>2. CASE rec # None
  <2>1. rec \in Record
    BY <1>2 DEF Entries
  <2> QED
    BY <1>2, <2>1, TickHolds DEF Entries
<1> QED
  BY <1>1, <1>2

\* Time passes.
LEMMA TickKeeps ==
    ASSUME LoginInv, Tick
    PROVE  LoginInv'
<1>1. /\ ipFails' = Older(ipFails) /\ userFails' = Older(userFails)
      /\ ipWrong' = [a \in Addresses |-> Shift(ipWrong[a])]
      /\ userWrong' = [k \in Keys |-> Shift(userWrong[k])]
      /\ anyWrong' = anyWrong
  BY DEF Tick
<1>2. request' \in [Requests -> {Waiting} \cup Logins] /\ SameChecks
  <2>1. request \in [Requests -> {Waiting} \cup Logins]
    BY DEF LoginInv, LoginTypes
  <2>2. ASSUME NEW r \in Requests
        PROVE  /\ request'[r] \in {Waiting} \cup Logins
               /\ request'[r].step = "check" <=> request[r].step = "check"
               /\ request[r].step = "check" =>
                     /\ request'[r].addr = request[r].addr
                     /\ request'[r].name = request[r].name
                     /\ request'[r].good = request[r].good
    <3>1. request'[r] = IF request[r].step = "check"
                        THEN [request[r] EXCEPT !.age = @ + 1] ELSE request[r]
      BY DEF Tick
    <3>2. CASE request[r].step = "check"
      <4>1. request[r] \in Logins
        BY <2>1, <3>2 DEF Waiting
      <4> QED
        BY <3>1, <3>2, <4>1 DEF Logins
    <3>3. CASE request[r].step # "check"
      BY <2>1, <3>1, <3>3
    <3> QED
      BY <3>2, <3>3
  <2>3. request' = [r \in Requests |-> request'[r]]
    BY DEF Tick
  <2> QED
    BY <2>2, <2>3 DEF SameChecks
<1>3. sessions' \in [Tokens -> Sessions \cup {None}]
  <2>1. ASSUME NEW t \in Tokens PROVE sessions'[t] \in Sessions \cup {None}
    <3>1. sessions[t] \in Sessions \cup {None}
      BY DEF LoginInv, LoginTypes
    <3>2. sessions'[t] = IF sessions[t] = None \/ (sessions[t] # None /\ sessions[t].left = 0)
                         THEN sessions[t] ELSE [sessions[t] EXCEPT !.left = @ - 1]
      BY DEF Tick
    <3> QED
      BY <3>1, <3>2, LoginAssumption DEF Sessions
  <2> QED
    BY <2>1 DEF Tick
<1>4. ASSUME NEW a \in Addresses
      PROVE  /\ ipFails'[a] \in Entries /\ GuessLog(ipWrong'[a])
             /\ RecordHolds(ipFails'[a], ipWrong'[a], maxIPLoginFailures,
                            Cardinality(Requests), Cardinality(Honest(a)))
  <2>1. /\ ipFails[a] \in Entries /\ GuessLog(ipWrong[a])
        /\ RecordHolds(ipFails[a], ipWrong[a], maxIPLoginFailures,
                       Cardinality(Requests), Cardinality(Honest(a)))
    BY DEF LoginInv, LoginTypes, AddressInv
  <2>2. /\ Cardinality(Requests) \in Nat /\ Cardinality(Honest(a)) \in Nat
        /\ Cardinality(Honest(a)) <= Cardinality(Requests) /\ maxIPLoginFailures \in Nat
    BY CountRequests, LoginAssumption DEF Honest, Checking
  <2>3. /\ ipWrong'[a] = Shift(ipWrong[a])
        /\ ipFails'[a] = Aged(ipFails[a])
    BY <1>1 DEF Older, LoginInv, LoginTypes, Aged
  <2>4. GuessLog(ipWrong'[a])
    BY <2>1, <2>3, ShiftLog
  <2>5. /\ Aged(ipFails[a]) \in Entries
        /\ RecordHolds(Aged(ipFails[a]), Shift(ipWrong[a]), maxIPLoginFailures,
                       Cardinality(Requests), Cardinality(Honest(a)))
    BY <2>1, <2>2, TickEntry
  <2> QED
    BY <2>3, <2>4, <2>5
<1>5. ASSUME NEW a \in Addresses, NEW n \in Names
      PROVE  /\ userFails'[<<a, n>>] \in Entries /\ GuessLog(userWrong'[<<a, n>>])
             /\ IF n \in LongNames THEN userFails'[<<a, n>>] = None
                ELSE RecordHolds(userFails'[<<a, n>>], userWrong'[<<a, n>>],
                                 maxLoginFailures, 0, 0)
  <2>1. /\ <<a, n>> \in Keys
        /\ userFails[<<a, n>>] \in Entries /\ GuessLog(userWrong[<<a, n>>])
        /\ IF n \in LongNames THEN userFails[<<a, n>>] = None
           ELSE RecordHolds(userFails[<<a, n>>], userWrong[<<a, n>>], maxLoginFailures, 0, 0)
    BY DEF LoginInv, LoginTypes, NameInv, Keys
  <2>2. maxLoginFailures \in Nat /\ 0 \in Nat /\ 0 <= 0
    BY LoginAssumption
  <2>3. /\ userWrong'[<<a, n>>] = Shift(userWrong[<<a, n>>])
        /\ userFails'[<<a, n>>] = Aged(userFails[<<a, n>>])
    BY <1>1, <2>1 DEF Older, LoginInv, LoginTypes, Aged
  <2>4. CASE n \in LongNames
    BY <2>1, <2>3, <2>4, ShiftLog DEF Entries, Aged
  <2>5. CASE n \notin LongNames
    <3>1. GuessLog(userWrong'[<<a, n>>])
      BY <2>1, <2>3, ShiftLog
    <3>2. /\ Aged(userFails[<<a, n>>]) \in Entries
          /\ RecordHolds(Aged(userFails[<<a, n>>]), Shift(userWrong[<<a, n>>]),
                         maxLoginFailures, 0, 0)
      BY <2>1, <2>2, <2>5, TickEntry
    <3> QED
      BY <2>3, <2>5, <3>1, <3>2
  <2> QED
    BY <2>4, <2>5
<1>6. LoginTypes'
  <2>1. DOMAIN ipFails' = Addresses /\ DOMAIN userFails' = Keys
    BY <1>1 DEF Older, LoginInv, LoginTypes
  <2>2. ipFails' \in [Addresses -> Entries] /\ userFails' \in [Keys -> Entries]
    <3>1. \A k \in Keys : userFails'[k] \in Entries
      BY <1>5 DEF Keys
    <3> QED
      BY <1>1, <1>4, <2>1, <3>1 DEF Older
  <2>3. ipWrong' \in [Addresses -> [Within -> Nat]]
    BY <1>1, <1>4 DEF GuessLog
  <2>4. userWrong' \in [Keys -> [Within -> Nat]]
    <3>1. \A k \in Keys : userWrong'[k] \in [Within -> Nat]
      BY <1>5 DEF Keys, GuessLog
    <3> QED
      BY <1>1, <3>1
  <2> QED
    BY <1>1, <1>2, <1>3, <2>2, <2>3, <2>4 DEF LoginTypes, LoginInv
<1>7. AddressInv' /\ NameInv'
  BY <1>2, <1>4, <1>5, SameSets DEF AddressInv, NameInv
<1>8. ASSUME ~anyWrong'
      PROVE  \A r \in Requests : request'[r].step = "check" => request'[r].good
  BY <1>1, <1>2, <1>8 DEF LoginInv, HonestInv, SameChecks
<1>9. ASSUME ~anyWrong', NEW a \in Addresses, ipFails'[a] # None
      PROVE  ipFails'[a].lock = 0 /\ ipFails'[a].count <= Cardinality(Checking(a)')
  <2>1. /\ ipFails[a] # None /\ ipFails[a] \in Entries
        /\ ipFails'[a] = [ipFails[a] EXCEPT !.age = IF @ > loginFailWindow THEN @ ELSE @ + 1,
                                            !.lock = IF @ = 0 THEN 0 ELSE @ - 1]
    BY <1>1, <1>9 DEF Older, LoginInv, LoginTypes
  <2>2. ipFails[a].lock = 0 /\ ipFails[a].count <= Cardinality(Checking(a))
    BY <1>1, <1>9, <2>1 DEF LoginInv, HonestInv, HonestNeverLocked
  <2> QED
    BY <1>2, <2>1, <2>2, SameSets DEF Entries, Record
<1>10. ASSUME ~anyWrong', NEW a \in Addresses, NEW n \in Names, userFails'[<<a, n>>] # None
       PROVE  /\ userFails'[<<a, n>>].lock = 0
              /\ userFails'[<<a, n>>].count <= Cardinality(CheckingName(a, n)')
  <2> DEFINE old == userFails[<<a, n>>]
  <2>1. /\ old # None /\ old \in Entries
        /\ userFails'[<<a, n>>] = [old EXCEPT !.age = IF @ > loginFailWindow THEN @ ELSE @ + 1,
                                              !.lock = IF @ = 0 THEN 0 ELSE @ - 1]
    BY <1>1, <1>10 DEF Older, LoginInv, LoginTypes, Keys
  <2>2. old.lock = 0 /\ old.count <= Cardinality(CheckingName(a, n))
    BY <1>1, <1>10, <2>1 DEF LoginInv, HonestInv, HonestNeverLocked
  <2> QED
    BY <1>2, <2>1, <2>2, SameSets DEF Entries, Record
<1>11. HonestInv'
  BY <1>8, <1>9, <1>10 DEF HonestInv, HonestNeverLocked
<1> QED
  BY <1>6, <1>7, <1>11 DEF LoginInv

\* A request leaves the check, in one of two ways.
LEMMA LeaveCheck ==
    ASSUME LoginInv, NEW r \in Requests, request[r].step = "check",
           NEW gone, gone.step # "check", request' = [request EXCEPT ![r] = gone]
    PROVE  /\ request[r] \in Logins
           /\ \A a : Checking(a)' = Checking(a) \ {r} /\ Honest(a)' = Honest(a) \ {r}
           /\ \A a, n : CheckingName(a, n)' = CheckingName(a, n) \ {r}
           /\ r \in Checking(request[r].addr) /\ r \in CheckingName(request[r].addr, request[r].name)
           /\ \A a : r \in Honest(a) <=> a = request[r].addr /\ request[r].good
<1>1. request \in [Requests -> {Waiting} \cup Logins]
  BY DEF LoginInv, LoginTypes
<1>2. request[r] \in Logins
  BY <1>1 DEF Waiting
<1>3. request'[r] = gone /\ \A q \in Requests \ {r} : request'[q] = request[q]
  BY <1>1
<1> QED
  BY <1>2, <1>3 DEF Checking, Honest, CheckingName

\* A wrong password settles.
LEMMA SettleFailureKeeps ==
    ASSUME LoginInv, NEW r \in Requests, SettleFailure(r)
    PROVE  LoginInv'
<1> DEFINE b == request[r].addr
           m == request[r].name
<1>1. /\ request[r].step = "check" /\ ~request[r].good
      /\ ipFails' = [ipFails EXCEPT ![b] = lockAt(@, maxIPLoginFailures)]
      /\ userFails' = IF m \in LongNames THEN userFails
                      ELSE [userFails EXCEPT ![<<b, m>>] = lockAt(@, maxLoginFailures)]
      /\ request' = [request EXCEPT ![r] = Waiting]
      /\ UNCHANGED <<sessions, ipWrong, userWrong, anyWrong>>
  BY DEF SettleFailure, ghosts
<1>2. /\ request[r] \in Logins /\ b \in Addresses /\ m \in Names
      /\ \A a : Honest(a)' = Honest(a)
  <2>1. Waiting.step # "check"
    BY DEF Waiting
  <2>2. /\ request[r] \in Logins
        /\ \A a : Honest(a)' = Honest(a) \ {r}
        /\ \A a : r \in Honest(a) <=> a = request[r].addr /\ request[r].good
    BY <1>1, <2>1, LeaveCheck
  <2>3. \A a : Honest(a)' = Honest(a)
    BY <1>1, <2>2
  <2> QED
    BY <2>2, <2>3 DEF Logins
<1> HIDE DEF b, m
<1>3. anyWrong
  BY <1>1 DEF LoginInv, HonestInv, LoginTypes
<1>4. ASSUME NEW a \in Addresses
      PROVE  /\ ipFails'[a] \in Entries
             /\ RecordHolds(ipFails'[a], ipWrong[a], maxIPLoginFailures,
                            Cardinality(Requests), Cardinality(Honest(a)))
  <2>1. /\ ipFails[a] \in Entries /\ GuessLog(ipWrong[a])
        /\ RecordHolds(ipFails[a], ipWrong[a], maxIPLoginFailures,
                       Cardinality(Requests), Cardinality(Honest(a)))
    BY DEF LoginInv, LoginTypes, AddressInv
  <2>2. /\ Cardinality(Requests) \in Nat /\ Cardinality(Honest(a)) \in Nat
        /\ maxIPLoginFailures \in Nat \ {0}
    BY CountRequests, LoginAssumption DEF Honest, Checking
  <2>3. ipFails'[a] = IF a = b THEN lockAt(ipFails[a], maxIPLoginFailures) ELSE ipFails[a]
    BY <1>1, <1>2 DEF LoginInv, LoginTypes
  <2> QED
    BY <2>1, <2>2, <2>3, LockHolds
<1>5. ASSUME NEW a \in Addresses, NEW n \in Names
      PROVE  /\ userFails'[<<a, n>>] \in Entries
             /\ IF n \in LongNames THEN userFails'[<<a, n>>] = None
                ELSE RecordHolds(userFails'[<<a, n>>], userWrong[<<a, n>>],
                                 maxLoginFailures, 0, 0)
  <2>1. /\ <<a, n>> \in Keys
        /\ userFails[<<a, n>>] \in Entries /\ GuessLog(userWrong[<<a, n>>])
        /\ IF n \in LongNames THEN userFails[<<a, n>>] = None
           ELSE RecordHolds(userFails[<<a, n>>], userWrong[<<a, n>>], maxLoginFailures, 0, 0)
    BY DEF LoginInv, LoginTypes, NameInv, Keys
  <2>2. maxLoginFailures \in Nat \ {0} /\ 0 \in Nat
    BY LoginAssumption
  <2>3. CASE n \notin LongNames /\ a = b /\ n = m
    <3>1. userFails'[<<a, n>>] = lockAt(userFails[<<a, n>>], maxLoginFailures)
      BY <1>1, <2>1, <2>3 DEF LoginInv, LoginTypes
    <3> QED
      BY <2>1, <2>2, <2>3, <3>1, LockHolds
  <2>4. CASE ~(n \notin LongNames /\ a = b /\ n = m)
    <3>1. userFails'[<<a, n>>] = userFails[<<a, n>>]
      BY <1>1, <2>1, <2>4 DEF LoginInv, LoginTypes
    <3> QED
      BY <2>1, <3>1
  <2> QED
    BY <2>3, <2>4
<1>6. LoginTypes'
  <2>1. ipFails' \in [Addresses -> Entries]
    BY <1>1, <1>4 DEF LoginInv, LoginTypes
  <2>2. userFails' \in [Keys -> Entries]
    <3>1. DOMAIN userFails' = Keys /\ userFails' = [k \in Keys |-> userFails'[k]]
      BY <1>1 DEF LoginInv, LoginTypes
    <3>2. \A k \in Keys : userFails'[k] \in Entries
      BY <1>5 DEF Keys
    <3> QED
      BY <3>1, <3>2
  <2>3. request' \in [Requests -> {Waiting} \cup Logins]
    BY <1>1 DEF LoginInv, LoginTypes
  <2> QED
    BY <1>1, <2>1, <2>2, <2>3 DEF LoginTypes, LoginInv
<1>7. AddressInv' /\ NameInv'
  BY <1>1, <1>2, <1>4, <1>5 DEF AddressInv, NameInv, LoginInv
<1>8. HonestInv'
  BY <1>1, <1>3 DEF HonestInv, HonestNeverLocked
<1> QED
  BY <1>6, <1>7, <1>8 DEF LoginInv

\* A right password settles.
LEMMA SettleSuccessKeeps ==
    ASSUME LoginInv, NEW r \in Requests, SettleSuccess(r)
    PROVE  LoginInv'
<1> DEFINE b == request[r].addr
           m == request[r].name
<1>1. /\ request[r].step = "check" /\ request[r].good
      /\ ipFails' = IF ipFails[b] # None /\ ipFails[b].count > 0
                    THEN [ipFails EXCEPT ![b].count = @ - 1] ELSE ipFails
      /\ userFails' = [userFails EXCEPT ![<<b, m>>] = None]
      /\ userWrong' = [userWrong EXCEPT ![<<b, m>>] = NoGuess]
      /\ request' = [request EXCEPT ![r].step = "create"]
      /\ UNCHANGED <<sessions, ipWrong, anyWrong>>
  BY DEF SettleSuccess
<1>2. /\ request[r] \in Logins /\ b \in Addresses /\ m \in Names
      /\ \A a : Checking(a)' = Checking(a) \ {r} /\ Honest(a)' = Honest(a) \ {r}
      /\ \A a, n : CheckingName(a, n)' = CheckingName(a, n) \ {r}
      /\ r \in Checking(b) /\ r \in CheckingName(b, m)
      /\ \A a : r \in Honest(a) <=> a = b
  <2> DEFINE gone == [request[r] EXCEPT !.step = "create"]
  <2>1. request \in [Requests -> {Waiting} \cup Logins]
    BY DEF LoginInv, LoginTypes
  <2>2. request[r] \in Logins
    BY <1>1, <2>1 DEF Waiting
  <2>3. gone.step # "check" /\ request' = [request EXCEPT ![r] = gone]
    BY <1>1, <2>1, <2>2 DEF Logins
  <2> HIDE DEF gone
  <2> QED
    BY <1>1, <2>2, <2>3, LeaveCheck DEF Logins
<1> HIDE DEF b, m
<1>3. ASSUME NEW a \in Addresses
      PROVE  /\ ipFails'[a] \in Entries
             /\ RecordHolds(ipFails'[a], ipWrong[a], maxIPLoginFailures,
                            Cardinality(Requests), Cardinality(Honest(a)'))
  <2> DEFINE rec == ipFails[a]
             g == Cardinality(Honest(a))
             h == Cardinality(Honest(a)')
  <2>1. /\ rec \in Entries /\ GuessLog(ipWrong[a])
        /\ RecordHolds(rec, ipWrong[a], maxIPLoginFailures, Cardinality(Requests), g)
    BY DEF LoginInv, LoginTypes, AddressInv
  <2>2. /\ Cardinality(Requests) \in Nat /\ g \in Nat /\ IsFiniteSet(Honest(a))
        /\ maxIPLoginFailures \in Nat
    BY CountRequests, LoginAssumption DEF Honest, Checking
  <2>3. CASE a = b
    <3>1. g = h + 1 /\ h \in Nat
      <4>1. r \in Honest(a) /\ Honest(a)' = Honest(a) \ {r}
        BY <1>2, <2>3
      <4>2. h = g - 1 /\ IsFiniteSet(Honest(a)')
        BY <2>2, <4>1, FS_RemoveElement
      <4>3. h \in Nat
        BY <4>2, FS_CardinalityType
      <4> QED
        BY <2>2, <4>2, <4>3
    <3>2. ipFails'[a] = IF rec # None /\ rec.count > 0
                        THEN [rec EXCEPT !.count = @ - 1] ELSE rec
      BY <1>1, <1>2, <2>3 DEF LoginInv, LoginTypes
    <3> HIDE DEF rec, g, h
    <3>3. /\ rec # None /\ rec.count > 0 =>
                /\ [rec EXCEPT !.count = @ - 1] \in Record
                /\ RecordHolds([rec EXCEPT !.count = @ - 1], ipWrong[a], maxIPLoginFailures,
                               Cardinality(Requests), h)
          /\ ~(rec # None /\ rec.count > 0) =>
                RecordHolds(rec, ipWrong[a], maxIPLoginFailures, Cardinality(Requests), h)
      BY <2>1, <2>2, <3>1, HandBackHolds
    <3>4. ipFails'[a] \in Entries
          /\ RecordHolds(ipFails'[a], ipWrong[a], maxIPLoginFailures, Cardinality(Requests), h)
      BY <2>1, <3>2, <3>3 DEF Entries
    <3> QED
      BY <3>4 DEF h
  <2>4. CASE a # b
    <3>1. ipFails'[a] = rec /\ Honest(a)' = Honest(a)
      BY <1>1, <1>2, <2>4 DEF LoginInv, LoginTypes
    <3> QED
      BY <2>1, <3>1
  <2> QED
    BY <2>3, <2>4
<1>4. ASSUME NEW a \in Addresses, NEW n \in Names
      PROVE  /\ GuessLog(userWrong'[<<a, n>>])
             /\ IF n \in LongNames THEN userFails'[<<a, n>>] = None
                ELSE RecordHolds(userFails'[<<a, n>>], userWrong'[<<a, n>>],
                                 maxLoginFailures, 0, 0)
             /\ userFails'[<<a, n>>] \in {None, userFails[<<a, n>>]}
             /\ a = b /\ n = m => userFails'[<<a, n>>] = None
  <2>1. /\ <<a, n>> \in Keys /\ GuessLog(userWrong[<<a, n>>])
        /\ IF n \in LongNames THEN userFails[<<a, n>>] = None
           ELSE RecordHolds(userFails[<<a, n>>], userWrong[<<a, n>>], maxLoginFailures, 0, 0)
    BY DEF LoginInv, NameInv, Keys
  <2>2. CASE a = b /\ n = m
    <3>1. userFails'[<<a, n>>] = None /\ userWrong'[<<a, n>>] = NoGuess
      BY <1>1, <2>1, <2>2 DEF LoginInv, LoginTypes
    <3>2. GuessLog(NoGuess) /\ NoGuess[loginLockout] = 0
      <4>1. GuessLog(NoGuess)
        BY <2>1, ShiftLog
      <4> QED
        BY <4>1, LoginAssumption DEF NoGuess, Within
    <3>3. RecordHolds(None, NoGuess, maxLoginFailures, 0, 0)
      BY <3>2, LoginAssumption DEF RecordHolds
    <3> QED
      BY <3>1, <3>2, <3>3
  <2>3. CASE ~(a = b /\ n = m)
    <3>1. userFails'[<<a, n>>] = userFails[<<a, n>>] /\ userWrong'[<<a, n>>] = userWrong[<<a, n>>]
      BY <1>1, <2>1, <2>3 DEF LoginInv, LoginTypes
    <3> QED
      BY <2>1, <2>3, <3>1
  <2> QED
    BY <2>2, <2>3
<1>5. LoginTypes'
  <2>1. ipFails' \in [Addresses -> Entries]
    <3>1. DOMAIN ipFails' = Addresses /\ ipFails' = [a \in Addresses |-> ipFails'[a]]
      BY <1>1 DEF LoginInv, LoginTypes
    <3> QED
      BY <1>3, <3>1
  <2>2. userFails' \in [Keys -> Entries]
    BY <1>1 DEF LoginInv, LoginTypes, Entries
  <2>3. userWrong' \in [Keys -> [Within -> Nat]]
    BY <1>1, LoginAssumption DEF LoginInv, LoginTypes, NoGuess
  <2>4. request' \in [Requests -> {Waiting} \cup Logins]
    BY <1>1, <1>2 DEF LoginInv, LoginTypes, Logins
  <2> QED
    BY <1>1, <2>1, <2>2, <2>3, <2>4 DEF LoginTypes, LoginInv
<1>6. AddressInv'
  BY <1>1, <1>3 DEF LoginInv, AddressInv
<1>7. NameInv'
  BY <1>4 DEF NameInv
<1>8. ASSUME ~anyWrong'
      PROVE  \A q \in Requests : request'[q].step = "check" => request'[q].good
  BY <1>1, <1>2, <1>8 DEF LoginInv, HonestInv, LoginTypes, Logins
<1>9. ASSUME ~anyWrong', NEW a \in Addresses, ipFails'[a] # None
      PROVE  ipFails'[a].lock = 0 /\ ipFails'[a].count <= Cardinality(Checking(a)')
  <2> DEFINE rec == ipFails[a]
  <2>1. rec \in Entries /\ (rec # None => rec.lock = 0 /\ rec.count <= Cardinality(Checking(a)))
    BY <1>1, <1>9 DEF LoginInv, LoginTypes, HonestInv, HonestNeverLocked
  <2>2. IsFiniteSet(Checking(a)) /\ Cardinality(Checking(a)) \in Nat
    BY CountRequests DEF Checking
  <2>3. CASE a = b
    <3>1. /\ ipFails'[a] = IF rec # None /\ rec.count > 0
                           THEN [rec EXCEPT !.count = @ - 1] ELSE rec
          /\ rec # None
      BY <1>1, <1>2, <1>9, <2>3, RecordsPresent DEF LoginInv, LoginTypes
    <3>2. /\ Cardinality(Checking(a)') = Cardinality(Checking(a)) - 1
          /\ Cardinality(Checking(a)') \in Nat
      <4>1. Checking(a)' = Checking(a) \ {r} /\ r \in Checking(a)
        BY <1>2, <2>3
      <4>2. /\ Cardinality(Checking(a)') = Cardinality(Checking(a)) - 1
            /\ IsFiniteSet(Checking(a)')
        BY <2>2, <4>1, FS_RemoveElement
      <4> QED
        BY <4>2, FS_CardinalityType
    <3>3. rec \in Record /\ rec.count \in Nat
      BY <2>1, <3>1 DEF Entries, Record
    <3>4. CASE rec.count > 0
      <4>1. ipFails'[a].lock = rec.lock /\ ipFails'[a].count = rec.count - 1
        BY <3>1, <3>3, <3>4 DEF Record
      <4> QED
        BY <2>1, <2>2, <3>1, <3>2, <3>3, <4>1
    <3>5. CASE ~(rec.count > 0)
      <4>1. ipFails'[a] = rec /\ rec.count = 0
        BY <3>1, <3>3, <3>5
      <4> QED
        BY <2>1, <3>1, <3>2, <4>1
    <3> QED
      BY <3>4, <3>5
  <2>4. CASE a # b
    <3>1. ipFails'[a] = rec /\ Checking(a)' = Checking(a)
      BY <1>1, <1>2, <2>4 DEF LoginInv, LoginTypes, Checking, b
    <3> QED
      BY <1>9, <2>1, <3>1
  <2> QED
    BY <2>3, <2>4
<1>10. ASSUME ~anyWrong', NEW a \in Addresses, NEW n \in Names, userFails'[<<a, n>>] # None
       PROVE  /\ userFails'[<<a, n>>].lock = 0
              /\ userFails'[<<a, n>>].count <= Cardinality(CheckingName(a, n)')
  <2>1. userFails'[<<a, n>>] = userFails[<<a, n>>] /\ ~(a = b /\ n = m)
    BY <1>4, <1>10
  <2>2. CheckingName(a, n)' = CheckingName(a, n)
    <3>1. r \notin CheckingName(a, n)
      BY <2>1 DEF CheckingName, Checking, b, m
    <3> QED
      BY <1>2, <3>1
  <2> QED
    BY <1>1, <1>10, <2>1, <2>2 DEF LoginInv, HonestInv, HonestNeverLocked
<1>11. HonestInv'
  BY <1>8, <1>9, <1>10 DEF HonestInv, HonestNeverLocked
<1> QED
  BY <1>5, <1>6, <1>7, <1>11 DEF LoginInv

\* The record that a login of one address is counted in, fresh or not.
LEMMA AddressRecord ==
    ASSUME LoginInv, NEW b \in Addresses
    PROVE  LET ip == RecordOf(Current(ipFails), b)
           IN  /\ ip \in Record
               /\ RecordHolds(ip, ipWrong[b], maxIPLoginFailures,
                              Cardinality(Requests), Cardinality(Honest(b)))
               /\ ~anyWrong => ip.lock = 0 /\ ip.count <= Cardinality(Checking(b))
<1> DEFINE old == Current(ipFails)[b]
           ip == RecordOf(Current(ipFails), b)
           s == Cardinality(Requests)
           g == Cardinality(Honest(b))
<1>1. /\ old \in Entries /\ old \in {None, ipFails[b]}
      /\ RecordHolds(old, ipWrong[b], maxIPLoginFailures, s, g)
      /\ GuessLog(ipWrong[b])
  BY CurrentHolds DEF LoginInv, AddressInv
<1>2. s \in Nat /\ g \in Nat /\ g <= s /\ maxIPLoginFailures \in Nat
      /\ Cardinality(Checking(b)) \in Nat
  BY CountRequests, LoginAssumption DEF Honest, Checking
<1>3. ip = IF old = None THEN Fresh ELSE old
  BY DEF RecordOf
<1>4. Fresh \in Record /\ Fresh.lock = 0 /\ Fresh.count = 0
  BY RecordsPresent DEF Fresh
<1>5. old # None /\ ~anyWrong => old.lock = 0 /\ old.count <= Cardinality(Checking(b))
  BY <1>1 DEF LoginInv, HonestInv, HonestNeverLocked
<1> HIDE DEF old, ip, s, g
<1>6. CASE old = None
  <2>1. ip = Fresh /\ RecordHolds(Fresh, ipWrong[b], maxIPLoginFailures, s, g)
    BY <1>1, <1>2, <1>3, <1>6, FreshHolds
  <2> QED
    BY <1>2, <1>4, <2>1 DEF ip, s, g
<1>7. CASE old # None
  BY <1>1, <1>3, <1>5, <1>7 DEF Entries, ip, s, g
<1> QED
  BY <1>6, <1>7

\* The same for a name of the address.
LEMMA NameRecord ==
    ASSUME LoginInv, NEW b \in Addresses, NEW m \in Names \ LongNames
    PROVE  LET user == RecordOf(Current(userFails), <<b, m>>)
           IN  /\ user \in Record
               /\ RecordHolds(user, userWrong[<<b, m>>], maxLoginFailures, 0, 0)
               /\ ~anyWrong => user.lock = 0 /\ user.count <= Cardinality(CheckingName(b, m))
<1> DEFINE old == Current(userFails)[<<b, m>>]
           user == RecordOf(Current(userFails), <<b, m>>)
<1>1. /\ old \in Entries /\ old \in {None, userFails[<<b, m>>]}
      /\ RecordHolds(old, userWrong[<<b, m>>], maxLoginFailures, 0, 0)
      /\ GuessLog(userWrong[<<b, m>>])
  BY CurrentHolds DEF LoginInv, NameInv, Keys
<1>2. 0 \in Nat /\ 0 <= 0 /\ maxLoginFailures \in Nat
      /\ Cardinality(CheckingName(b, m)) \in Nat
  BY CountRequests, LoginAssumption DEF CheckingName, Checking
<1>3. user = IF old = None THEN Fresh ELSE old
  BY DEF RecordOf
<1>4. Fresh \in Record /\ Fresh.lock = 0 /\ Fresh.count = 0
  BY RecordsPresent DEF Fresh
<1>5. old # None /\ ~anyWrong => old.lock = 0 /\ old.count <= Cardinality(CheckingName(b, m))
  BY <1>1 DEF LoginInv, HonestInv, HonestNeverLocked
<1> HIDE DEF old, user
<1>6. CASE old = None
  <2>1. user = Fresh /\ RecordHolds(Fresh, userWrong[<<b, m>>], maxLoginFailures, 0, 0)
    BY <1>1, <1>2, <1>3, <1>6, FreshHolds
  <2> QED
    BY <1>2, <1>4, <2>1 DEF user
<1>7. CASE old # None
  BY <1>1, <1>3, <1>5, <1>7 DEF Entries, user
<1> QED
  BY <1>6, <1>7

\* A login that either limit refuses leaves at most a fresh record behind.
LEMMA RefusedKeeps ==
    ASSUME LoginInv, NEW b \in Addresses, NEW m \in Names, NEW wrong \in BOOLEAN,
           sessions' = LiveSessions, UNCHANGED <<request, ipWrong, userWrong>>,
           anyWrong' = (anyWrong \/ wrong),
           ipFails' = [Current(ipFails) EXCEPT ![b] = RecordOf(Current(ipFails), b)],
           \/ userFails' = Current(userFails)
           \/ /\ m \notin LongNames
              /\ userFails' = [Current(userFails) EXCEPT
                                   ![<<b, m>>] = RecordOf(Current(userFails), <<b, m>>)]
    PROVE  LoginInv'
<1>1. SameChecks
  BY DEF SameChecks
<1>2. /\ Current(ipFails) \in [Addresses -> Entries]
      /\ Current(userFails) \in [Keys -> Entries]
      /\ \A n \in Names : <<b, n>> \in Keys
  BY CurrentHolds DEF Keys
<1>3. ASSUME NEW a \in Addresses
      PROVE  /\ ipFails'[a] \in Entries
             /\ RecordHolds(ipFails'[a], ipWrong[a], maxIPLoginFailures,
                            Cardinality(Requests), Cardinality(Honest(a)))
             /\ ~anyWrong /\ ipFails'[a] # None =>
                    ipFails'[a].lock = 0 /\ ipFails'[a].count <= Cardinality(Checking(a))
  <2>1. CASE a = b
    <3>1. ipFails'[a] = RecordOf(Current(ipFails), b)
      BY <1>2, <2>1
    <3> QED
      BY <2>1, <3>1, AddressRecord DEF Entries
  <2>2. CASE a # b
    <3>1. ipFails'[a] = Current(ipFails)[a]
      BY <1>2, <2>2
    <3>2. Current(ipFails)[a] \in {None, ipFails[a]}
      BY CurrentHolds
    <3>3. ~anyWrong /\ ipFails[a] # None =>
              ipFails[a].lock = 0 /\ ipFails[a].count <= Cardinality(Checking(a))
      BY DEF LoginInv, HonestInv, HonestNeverLocked
    <3> QED
      BY <3>1, <3>2, <3>3, CurrentHolds
  <2> QED
    BY <2>1, <2>2
<1>4. ASSUME NEW a \in Addresses, NEW n \in Names
      PROVE  /\ userFails'[<<a, n>>] \in Entries
             /\ IF n \in LongNames THEN userFails'[<<a, n>>] = None
                ELSE RecordHolds(userFails'[<<a, n>>], userWrong[<<a, n>>],
                                 maxLoginFailures, 0, 0)
             /\ ~anyWrong /\ userFails'[<<a, n>>] # None =>
                    /\ userFails'[<<a, n>>].lock = 0
                    /\ userFails'[<<a, n>>].count <= Cardinality(CheckingName(a, n))
  <2>1. <<a, n>> \in Keys
    BY DEF Keys
  <2>2. CASE userFails'[<<a, n>>] = Current(userFails)[<<a, n>>]
    <3>1. Current(userFails)[<<a, n>>] \in {None, userFails[<<a, n>>]}
      BY CurrentHolds
    <3>2. ~anyWrong /\ userFails[<<a, n>>] # None =>
              /\ userFails[<<a, n>>].lock = 0
              /\ userFails[<<a, n>>].count <= Cardinality(CheckingName(a, n))
      BY DEF LoginInv, HonestInv, HonestNeverLocked
    <3> QED
      BY <2>1, <2>2, <3>1, <3>2, CurrentHolds
  <2>3. CASE userFails'[<<a, n>>] # Current(userFails)[<<a, n>>]
    <3>1. /\ a = b /\ n = m /\ n \notin LongNames
          /\ userFails'[<<a, n>>] = RecordOf(Current(userFails), <<b, m>>)
      BY <1>2, <2>1, <2>3
    <3> QED
      BY <3>1, NameRecord DEF Entries
  <2> QED
    BY <2>2, <2>3
<1>5. LoginTypes'
  <2>1. ipFails' \in [Addresses -> Entries]
    BY <1>2, <1>3
  <2>2. userFails' \in [Keys -> Entries]
    <3>1. \A k \in Keys : userFails'[k] \in Entries
      BY <1>4 DEF Keys
    <3>2. userFails' = [k \in Keys |-> userFails'[k]]
      BY <1>2
    <3> QED
      BY <3>1, <3>2
  <2> QED
    BY <2>1, <2>2, LiveTyped DEF LoginTypes, LoginInv
<1>6. AddressInv' /\ NameInv'
  BY <1>1, <1>3, <1>4, SameSets DEF AddressInv, NameInv, LoginInv
<1>7. HonestInv'
  <2>1. ASSUME ~anyWrong' PROVE ~anyWrong
    BY <2>1 DEF LoginInv, LoginTypes
  <2>2. ~anyWrong' => \A q \in Requests : request'[q].step = "check" => request'[q].good
    BY <2>1 DEF LoginInv, HonestInv
  <2> QED
    BY <1>1, <1>3, <1>4, <2>1, <2>2, SameSets DEF HonestInv, HonestNeverLocked
<1> QED
  BY <1>5, <1>6, <1>7 DEF LoginInv

\* A login enters the check.
Enters(r, b, m, good) ==
    request' = [request EXCEPT ![r] =
        [step |-> "check", addr |-> b, name |-> m, good |-> good, age |-> 0]]

\* It is counted among those being checked.
LEMMA EnterCheck ==
    ASSUME LoginInv, NEW r \in Requests, request[r] = Waiting,
           NEW b \in Addresses, NEW m \in Names, NEW good \in BOOLEAN,
           Enters(r, b, m, good)
    PROVE  /\ request' \in [Requests -> {Waiting} \cup Logins]
           /\ \A a : r \notin Checking(a) /\ r \notin Honest(a)
           /\ \A a, n : r \notin CheckingName(a, n)
           /\ \A a : Checking(a)' = IF a = b THEN Checking(a) \cup {r} ELSE Checking(a)
           /\ \A a : Honest(a)' = IF a = b /\ good THEN Honest(a) \cup {r} ELSE Honest(a)
           /\ CheckingName(b, m)' = CheckingName(b, m) \cup {r}
           /\ \A a, n : a # b \/ n # m => CheckingName(a, n)' = CheckingName(a, n)
           /\ \A q \in Requests : request'[q].step = "check" =>
                  \/ q = r /\ request'[q].good = good
                  \/ request[q].step = "check" /\ request'[q].good = request[q].good
<1> DEFINE new == [step |-> "check", addr |-> b, name |-> m, good |-> good, age |-> 0]
<1>1. request \in [Requests -> {Waiting} \cup Logins]
  BY DEF LoginInv, LoginTypes
<1>2. new \in Logins
  BY DEF Logins
<1>3. /\ new.step = "check" /\ new.addr = b /\ new.name = m /\ new.good = good
      /\ request[r].step = "none"
  BY DEF Waiting
<1>4. request' = [request EXCEPT ![r] = new]
  BY DEF Enters
<1> HIDE DEF new
<1>5. request'[r] = new /\ \A q \in Requests \ {r} : request'[q] = request[q]
  BY <1>1, <1>4
<1>6. request' \in [Requests -> {Waiting} \cup Logins]
  BY <1>1, <1>2, <1>4
<1>7. \A q \in Requests : request'[q].step = "check" =>
          \/ q = r /\ request'[q].good = good
          \/ request[q].step = "check" /\ request'[q].good = request[q].good
  BY <1>3, <1>5
<1>8. /\ \A a : r \notin Checking(a) /\ r \notin Honest(a)
      /\ \A a, n : r \notin CheckingName(a, n)
  BY <1>3 DEF Checking, Honest, CheckingName
<1>9. \A a : Checking(a)' = IF a = b THEN Checking(a) \cup {r} ELSE Checking(a)
  BY <1>3, <1>5 DEF Checking
<1>10. \A a : Honest(a)' = IF a = b /\ good THEN Honest(a) \cup {r} ELSE Honest(a)
  BY <1>3, <1>5 DEF Checking, Honest
<1>11. /\ CheckingName(b, m)' = CheckingName(b, m) \cup {r}
       /\ \A a, n : a # b \/ n # m => CheckingName(a, n)' = CheckingName(a, n)
  BY <1>3, <1>5 DEF Checking, CheckingName
<1> QED
  BY <1>6, <1>7, <1>8, <1>9, <1>10, <1>11

\* One more element, counted.
LEMMA CountOneMore ==
    ASSUME NEW S \in SUBSET Requests, NEW r \in Requests \ S
    PROVE  /\ Cardinality(S) \in Nat /\ Cardinality(S \cup {r}) = Cardinality(S) + 1
           /\ Cardinality(S \cup {r}) \in Nat
BY CountRequests, FS_AddElement

\* An attempt that both limits admit.
Admits(r, b, m, good) ==
    LET ip   == RecordOf(Current(ipFails), b)
        user == RecordOf(Current(userFails), <<b, m>>)
    IN  /\ ~blocked(ip, maxIPLoginFailures)
        /\ m \notin LongNames => ~blocked(user, maxLoginFailures)
        /\ sessions' = LiveSessions
        /\ Enters(r, b, m, good)
        /\ ipWrong' = IF good THEN ipWrong ELSE [ipWrong EXCEPT ![b] = Guessed(@)]
        /\ userWrong' = IF good THEN userWrong
                        ELSE [userWrong EXCEPT ![<<b, m>>] = Guessed(@)]
        /\ anyWrong' = (anyWrong \/ ~good)
        /\ ipFails' = [Current(ipFails) EXCEPT ![b] = [ip EXCEPT !.count = @ + 1]]
        /\ userFails' = IF m \in LongNames THEN Current(userFails)
                        ELSE [Current(userFails) EXCEPT
                                ![<<b, m>>] = [user EXCEPT !.count = @ + 1]]

\* A login that both limits admit is counted by both while it is being checked.
LEMMA AdmittedKeeps ==
    ASSUME LoginInv, NEW r \in Requests, request[r] = Waiting,
           NEW b \in Addresses, NEW m \in Names, NEW good \in BOOLEAN,
           good => m \notin LongNames, Admits(r, b, m, good)
    PROVE  LoginInv'
<1> DEFINE ip == RecordOf(Current(ipFails), b)
           user == RecordOf(Current(userFails), <<b, m>>)
<1>admits. /\ ~blocked(ip, maxIPLoginFailures)
           /\ m \notin LongNames => ~blocked(user, maxLoginFailures)
           /\ sessions' = LiveSessions
           /\ ipWrong' = IF good THEN ipWrong ELSE [ipWrong EXCEPT ![b] = Guessed(@)]
           /\ userWrong' = IF good THEN userWrong
                           ELSE [userWrong EXCEPT ![<<b, m>>] = Guessed(@)]
           /\ anyWrong' = (anyWrong \/ ~good)
           /\ ipFails' = [Current(ipFails) EXCEPT ![b] = [ip EXCEPT !.count = @ + 1]]
           /\ userFails' = IF m \in LongNames THEN Current(userFails)
                           ELSE [Current(userFails) EXCEPT
                                   ![<<b, m>>] = [user EXCEPT !.count = @ + 1]]
  BY DEF Admits
<1>enter. Enters(r, b, m, good)
  BY DEF Admits
<1>sets. /\ request' \in [Requests -> {Waiting} \cup Logins]
         /\ \A a : r \notin Checking(a) /\ r \notin Honest(a)
         /\ \A a, n : r \notin CheckingName(a, n)
         /\ \A a : Checking(a)' = IF a = b THEN Checking(a) \cup {r} ELSE Checking(a)
         /\ \A a : Honest(a)' = IF a = b /\ good THEN Honest(a) \cup {r} ELSE Honest(a)
         /\ CheckingName(b, m)' = CheckingName(b, m) \cup {r}
         /\ \A a, n : a # b \/ n # m => CheckingName(a, n)' = CheckingName(a, n)
         /\ \A q \in Requests : request'[q].step = "check" =>
                \/ q = r /\ request'[q].good = good
                \/ request[q].step = "check" /\ request'[q].good = request[q].good
  BY <1>enter, EnterCheck
<1> HIDE DEF ip, user
<1>1. /\ Current(ipFails) \in [Addresses -> Entries]
      /\ Current(userFails) \in [Keys -> Entries]
      /\ ipWrong \in [Addresses -> [Within -> Nat]]
      /\ userWrong \in [Keys -> [Within -> Nat]]
      /\ <<b, m>> \in Keys
  BY CurrentHolds DEF LoginInv, LoginTypes, Keys
<1>2. ASSUME NEW a \in Addresses
      PROVE  /\ ipFails'[a] \in Entries /\ GuessLog(ipWrong'[a])
             /\ RecordHolds(ipFails'[a], ipWrong'[a], maxIPLoginFailures,
                            Cardinality(Requests), Cardinality(Honest(a)'))
             /\ ~anyWrong /\ ipFails'[a] # None =>
                    ipFails'[a].lock = 0 /\ ipFails'[a].count <= Cardinality(Checking(a)')
  <2>1. GuessLog(ipWrong[a])
    BY DEF LoginInv, AddressInv
  <2>2. CASE a = b
    <3> DEFINE s == Cardinality(Requests)
               g == Cardinality(Honest(a))
               h == Cardinality(Honest(a)')
               new == [ip EXCEPT !.count = @ + 1]
               w == ipWrong[a]
    <3>1. /\ ip \in Record
          /\ RecordHolds(ip, w, maxIPLoginFailures, s, g)
          /\ ~anyWrong => ip.lock = 0 /\ ip.count <= Cardinality(Checking(a))
      BY <2>2, AddressRecord DEF ip
    <3>2. ipFails'[a] = new /\ ipWrong'[a] = IF good THEN w ELSE Guessed(w)
      BY <1>admits, <1>1, <2>2
    <3>3. /\ s \in Nat /\ g \in Nat /\ h \in Nat
          /\ good => h <= g + 1
          /\ ~good => h = g
          /\ maxIPLoginFailures \in Nat
          /\ Cardinality(Checking(a)) \in Nat
          /\ Cardinality(Checking(a)') = Cardinality(Checking(a)) + 1
      <4>1. Checking(a) \in SUBSET Requests /\ Honest(a) \in SUBSET Requests
        BY DEF Checking, Honest
      <4>2. /\ r \notin Checking(a) /\ r \notin Honest(a)
            /\ Checking(a)' = Checking(a) \cup {r}
            /\ Honest(a)' = IF good THEN Honest(a) \cup {r} ELSE Honest(a)
        BY <2>2, <1>sets
      <4>3. /\ Cardinality(Checking(a)) \in Nat
            /\ Cardinality(Checking(a)') = Cardinality(Checking(a)) + 1
        BY <4>1, <4>2, CountOneMore
      <4>4. g \in Nat /\ s \in Nat
        BY <4>1, CountRequests
      <4>5. CASE good
        <5>1. h = g + 1
          BY <4>1, <4>2, <4>5, CountOneMore
        <5> QED
          BY <4>3, <4>4, <4>5, <5>1, LoginAssumption
      <4>6. CASE ~good
        BY <4>2, <4>3, <4>4, <4>6, LoginAssumption
      <4> QED
        BY <4>5, <4>6
    <3>4. /\ new \in Record /\ new.lock = ip.lock /\ new.count = ip.count + 1
          /\ ip.count \in Nat
      BY <3>1, RecordsPresent DEF Record
    <3>5. GuessLog(ipWrong'[a])
      BY <2>1, <3>2, ShiftLog
    <3> HIDE DEF s, g, h, w
    <3>6. RecordHolds(new, IF good THEN w ELSE Guessed(w), maxIPLoginFailures, s, h)
      <4>1. CASE good
        BY <2>1, <3>1, <3>3, <4>1, <1>admits, ReserveHolds DEF w
      <4>2. CASE ~good
        BY <2>1, <3>1, <3>3, <4>2, <1>admits, GuessHolds DEF w
      <4> QED
        BY <4>1, <4>2
    <3> HIDE DEF new
    <3>7. RecordHolds(ipFails'[a], ipWrong'[a], maxIPLoginFailures, s, h)
      BY <3>2, <3>6
    <3>8. ipFails'[a] \in Entries
      BY <3>2, <3>4 DEF Entries
    <3>9. ~anyWrong => ipFails'[a].lock = 0 /\ ipFails'[a].count <= Cardinality(Checking(a)')
      BY <3>1, <3>2, <3>3, <3>4
    <3> QED
      BY <3>5, <3>7, <3>8, <3>9 DEF s, h
  <2>3. CASE a # b
    <3>1. ipFails'[a] = Current(ipFails)[a] /\ ipWrong'[a] = ipWrong[a]
      BY <1>admits, <1>1, <2>3
    <3>2. Honest(a)' = Honest(a) /\ Checking(a)' = Checking(a)
      BY <2>3, <1>sets
    <3>3. Current(ipFails)[a] \in {None, ipFails[a]}
      BY CurrentHolds
    <3>4. ~anyWrong /\ ipFails[a] # None =>
              ipFails[a].lock = 0 /\ ipFails[a].count <= Cardinality(Checking(a))
      BY DEF LoginInv, HonestInv, HonestNeverLocked
    <3> QED
      BY <1>1, <2>1, <3>1, <3>2, <3>3, <3>4, CurrentHolds
  <2> QED
    BY <2>2, <2>3
<1>3. ASSUME NEW a \in Addresses, NEW n \in Names
      PROVE  /\ userFails'[<<a, n>>] \in Entries /\ GuessLog(userWrong'[<<a, n>>])
             /\ IF n \in LongNames THEN userFails'[<<a, n>>] = None
                ELSE RecordHolds(userFails'[<<a, n>>], userWrong'[<<a, n>>],
                                 maxLoginFailures, 0, 0)
             /\ ~anyWrong /\ userFails'[<<a, n>>] # None =>
                    /\ userFails'[<<a, n>>].lock = 0
                    /\ userFails'[<<a, n>>].count <= Cardinality(CheckingName(a, n)')
  <2>1. <<a, n>> \in Keys /\ GuessLog(userWrong[<<a, n>>])
    BY DEF LoginInv, NameInv, Keys
  <2>2. CASE a = b /\ n = m /\ n \notin LongNames
    <3> DEFINE new == [user EXCEPT !.count = @ + 1]
               w == userWrong[<<a, n>>]
    <3>1. /\ user \in Record
          /\ RecordHolds(user, w, maxLoginFailures, 0, 0)
          /\ ~anyWrong => user.lock = 0 /\ user.count <= Cardinality(CheckingName(a, n))
      BY <2>2, NameRecord DEF user
    <3>2. /\ userFails'[<<a, n>>] = new
          /\ userWrong'[<<a, n>>] = IF good THEN w ELSE Guessed(w)
      BY <1>admits, <1>1, <2>2
    <3>3. /\ Cardinality(CheckingName(a, n)) \in Nat
          /\ Cardinality(CheckingName(a, n)') = Cardinality(CheckingName(a, n)) + 1
      <4>1. CheckingName(a, n) \in SUBSET Requests
        BY DEF CheckingName, Checking
      <4>2. /\ r \notin CheckingName(a, n)
            /\ CheckingName(a, n)' = CheckingName(a, n) \cup {r}
        BY <2>2, <1>sets
      <4> QED
        BY <4>1, <4>2, CountOneMore
    <3>4. /\ new \in Record /\ new.lock = user.lock /\ new.count = user.count + 1
          /\ user.count \in Nat
      BY <3>1, RecordsPresent DEF Record
    <3>5. GuessLog(userWrong'[<<a, n>>])
      BY <2>1, <3>2, ShiftLog
    <3>6. maxLoginFailures \in Nat /\ 0 \in Nat /\ 0 <= 0 + 1
      BY LoginAssumption
    <3> HIDE DEF w
    <3>7. RecordHolds(new, IF good THEN w ELSE Guessed(w), maxLoginFailures, 0, 0)
      <4>1. CASE good
        BY <2>1, <2>2, <3>1, <3>6, <4>1, <1>admits, ReserveHolds DEF w
      <4>2. CASE ~good
        BY <2>1, <2>2, <3>1, <3>6, <4>2, <1>admits, GuessHolds DEF w
      <4> QED
        BY <4>1, <4>2
    <3> HIDE DEF new
    <3>8. RecordHolds(userFails'[<<a, n>>], userWrong'[<<a, n>>], maxLoginFailures, 0, 0)
      BY <3>2, <3>7
    <3>9. userFails'[<<a, n>>] \in Entries
      BY <3>2, <3>4 DEF Entries
    <3>10. ~anyWrong => /\ userFails'[<<a, n>>].lock = 0
                        /\ userFails'[<<a, n>>].count <= Cardinality(CheckingName(a, n)')
      BY <3>1, <3>2, <3>3, <3>4
    <3> QED
      BY <2>2, <3>5, <3>8, <3>9, <3>10
  <2>3. CASE ~(a = b /\ n = m /\ n \notin LongNames)
    <3>1. userFails'[<<a, n>>] = Current(userFails)[<<a, n>>]
      BY <1>admits, <1>1, <2>1, <2>3
    <3>2. /\ GuessLog(userWrong'[<<a, n>>])
          /\ n \notin LongNames => userWrong'[<<a, n>>] = userWrong[<<a, n>>]
      <4>1. userWrong'[<<a, n>>] \in {userWrong[<<a, n>>], Guessed(userWrong[<<a, n>>])}
        BY <1>admits, <1>1, <2>1
      <4>2. n \notin LongNames => userWrong'[<<a, n>>] = userWrong[<<a, n>>]
        BY <1>admits, <1>1, <2>1, <2>3
      <4> QED
        BY <2>1, <4>1, <4>2, ShiftLog
    <3>3. n \notin LongNames => CheckingName(a, n)' = CheckingName(a, n)
      BY <2>3, <1>sets
    <3>4. Current(userFails)[<<a, n>>] \in {None, userFails[<<a, n>>]}
          /\ (n \in LongNames => Current(userFails)[<<a, n>>] = None)
      BY CurrentHolds
    <3>5. ~anyWrong /\ userFails[<<a, n>>] # None =>
              /\ userFails[<<a, n>>].lock = 0
              /\ userFails[<<a, n>>].count <= Cardinality(CheckingName(a, n))
      BY DEF LoginInv, HonestInv, HonestNeverLocked
    <3>6. userFails'[<<a, n>>] \in Entries
      BY <1>1, <2>1, <3>1
    <3>7. n \notin LongNames => RecordHolds(Current(userFails)[<<a, n>>],
                                            userWrong[<<a, n>>], maxLoginFailures, 0, 0)
      BY CurrentHolds
    <3> QED
      BY <3>1, <3>2, <3>3, <3>4, <3>5, <3>6, <3>7
  <2> QED
    BY <2>2, <2>3
<1>4. LoginTypes'
  <2>1. ipFails' \in [Addresses -> Entries] /\ ipWrong' \in [Addresses -> [Within -> Nat]]
    <3>1. /\ ipFails' = [a \in Addresses |-> ipFails'[a]]
          /\ ipWrong' = [a \in Addresses |-> ipWrong'[a]]
      BY <1>admits, <1>1
    <3>2. \A a \in Addresses : ipWrong'[a] \in [Within -> Nat]
      BY <1>2 DEF GuessLog
    <3> QED
      BY <1>2, <3>1, <3>2
  <2>2. userFails' \in [Keys -> Entries] /\ userWrong' \in [Keys -> [Within -> Nat]]
    <3>1. /\ userFails' = [k \in Keys |-> userFails'[k]]
          /\ userWrong' = [k \in Keys |-> userWrong'[k]]
      BY <1>admits, <1>1
    <3>2. \A k \in Keys : userFails'[k] \in Entries /\ userWrong'[k] \in [Within -> Nat]
      BY <1>3 DEF GuessLog, Keys
    <3> QED
      BY <3>1, <3>2
  <2>3. request' \in [Requests -> {Waiting} \cup Logins]
    BY <1>sets
  <2> QED
    BY <2>1, <2>2, <2>3, LiveTyped, <1>admits DEF LoginTypes, LoginInv
<1>5. AddressInv' /\ NameInv'
  BY <1>2, <1>3 DEF AddressInv, NameInv
<1>6. HonestInv'
  <2>1. ASSUME ~anyWrong' PROVE ~anyWrong /\ good
    BY <2>1, <1>admits DEF LoginInv, LoginTypes
  <2>2. ASSUME ~anyWrong', NEW q \in Requests, request'[q].step = "check"
        PROVE  request'[q].good
    <3>1. \/ q = r /\ request'[q].good = good
          \/ request[q].step = "check" /\ request'[q].good = request[q].good
      BY <2>2, <1>sets
    <3> QED
      BY <2>1, <2>2, <3>1 DEF LoginInv, HonestInv
  <2> QED
    BY <1>2, <1>3, <2>1, <2>2 DEF HonestInv, HonestNeverLocked
<1> QED
  BY <1>4, <1>5, <1>6 DEF LoginInv

\* A login arrives.
LEMMA LoginArrivesKeeps ==
    ASSUME LoginInv, NEW r \in Requests, LoginArrives(r)
    PROVE  LoginInv'
<1>1. request[r] = Waiting
  BY DEF LoginArrives
<1>2. PICK b \in Addresses, m \in Names, good \in BOOLEAN :
          (good => m \notin LongNames) /\ attempt(r, b, m, good)
  BY DEF LoginArrives
<1> DEFINE ip == RecordOf(Current(ipFails), b)
           user == RecordOf(Current(userFails), <<b, m>>)
           admitted == ~blocked(ip, maxIPLoginFailures)
                       /\ (m \notin LongNames => ~blocked(user, maxLoginFailures))
<1>3. /\ sessions' = LiveSessions
      /\ ipFails' = [Current(ipFails) EXCEPT ![b] =
              IF admitted THEN [ip EXCEPT !.count = @ + 1] ELSE ip]
      /\ userFails' =
              IF m \notin LongNames /\ ~blocked(ip, maxIPLoginFailures)
              THEN [Current(userFails) EXCEPT ![<<b, m>>] =
                      IF admitted THEN [user EXCEPT !.count = @ + 1] ELSE user]
              ELSE Current(userFails)
      /\ admitted =>
            /\ request' = [request EXCEPT ![r] =
                    [step |-> "check", addr |-> b, name |-> m, good |-> good, age |-> 0]]
            /\ ipWrong' = IF good THEN ipWrong ELSE [ipWrong EXCEPT ![b] = Guessed(@)]
            /\ userWrong' = IF good THEN userWrong
                            ELSE [userWrong EXCEPT ![<<b, m>>] = Guessed(@)]
      /\ ~admitted => UNCHANGED <<request, ipWrong, userWrong>>
      /\ anyWrong' = (anyWrong \/ ~good)
  BY <1>2 DEF attempt
<1> HIDE DEF ip, user
<1>4. CASE admitted
  <2>1. Admits(r, b, m, good)
    BY <1>3, <1>4 DEF Admits, Enters, ip, user
  <2> QED
    BY <1>1, <1>2, <2>1, AdmittedKeeps
<1>5. CASE ~admitted
  <2>1. ipFails' = [Current(ipFails) EXCEPT ![b] = RecordOf(Current(ipFails), b)]
    BY <1>3, <1>5 DEF ip
  <2>2. \/ userFails' = Current(userFails)
        \/ /\ m \notin LongNames
           /\ userFails' = [Current(userFails) EXCEPT
                                ![<<b, m>>] = RecordOf(Current(userFails), <<b, m>>)]
    BY <1>3, <1>5 DEF user
  <2>3. UNCHANGED <<request, ipWrong, userWrong>> /\ (~good) \in BOOLEAN
    BY <1>3, <1>5
  <2> QED
    BY <1>3, <2>1, <2>2, <2>3, RefusedKeeps
<1> QED
  BY <1>4, <1>5

\* Before any login.
LEMMA LoginInvInit ==
    ASSUME LoginInit
    PROVE  LoginInv
<1>1. /\ GuessLog(NoGuess) /\ NoGuess[loginLockout] = 0
      /\ NoGuess \in [Within -> Nat]
  BY LoginAssumption DEF GuessLog, NoGuess, Within
<1>2. LoginTypes
  BY <1>1 DEF LoginInit, LoginTypes, Entries
<1>3. \A q \in Requests : request[q].step # "check"
  BY DEF LoginInit, Waiting
<1>4. ASSUME NEW a \in Addresses
      PROVE  GuessLog(ipWrong[a]) /\ RecordHolds(ipFails[a], ipWrong[a], maxIPLoginFailures,
                 Cardinality(Requests), Cardinality(Honest(a)))
  <2>1. Honest(a) \in SUBSET Requests
    BY DEF Honest, Checking
  <2>2. /\ Cardinality(Honest(a)) \in Nat /\ Cardinality(Requests) \in Nat
        /\ Cardinality(Honest(a)) <= Cardinality(Requests)
    BY <2>1, CountRequests
  <2>3. ipWrong[a] = NoGuess /\ ipFails[a] = None
    BY DEF LoginInit
  <2> QED
    BY <1>1, <2>2, <2>3, LoginAssumption DEF RecordHolds
<1>5. ASSUME NEW a \in Addresses, NEW n \in Names
      PROVE  /\ GuessLog(userWrong[<<a, n>>]) /\ userFails[<<a, n>>] = None
             /\ RecordHolds(userFails[<<a, n>>], userWrong[<<a, n>>], maxLoginFailures, 0, 0)
  <2>1. userWrong[<<a, n>>] = NoGuess /\ userFails[<<a, n>>] = None
    BY DEF LoginInit, Keys
  <2> QED
    BY <1>1, <2>1, LoginAssumption DEF RecordHolds
<1>6. HonestInv
  <2>1. \A a \in Addresses : ipFails[a] = None
    BY DEF LoginInit
  <2> QED
    BY <1>3, <1>5, <2>1 DEF HonestInv, HonestNeverLocked
<1> QED
  BY <1>2, <1>4, <1>5, <1>6 DEF LoginInv, AddressInv, NameInv

\* Every step of the login.
LEMMA LoginInvStep ==
    ASSUME LoginInv, [LoginNext]_loginVars
    PROVE  LoginInv'
<1>1. CASE LoginNext
  <2>1. ASSUME NEW r \in Requests, LoginArrives(r) PROVE LoginInv'
    BY <2>1, LoginArrivesKeeps
  <2>2. ASSUME NEW r \in Requests, SettleFailure(r) PROVE LoginInv'
    BY <2>2, SettleFailureKeeps
  <2>3. ASSUME NEW r \in Requests, SettleSuccess(r) PROVE LoginInv'
    BY <2>3, SettleSuccessKeeps
  <2>4. ASSUME NEW r \in Requests, create(r) PROVE LoginInv'
    BY <2>4, CreateSessionKeeps
  <2>5. ASSUME NEW t \in Tokens, Logout(t) PROVE LoginInv'
    BY <2>5, LogoutKeeps
  <2>6. ASSUME NEW t \in Tokens, NEW access, Authorize(t, access) PROVE LoginInv'
    BY <2>6, AuthorizeKeeps
  <2>7. CASE Tick
    BY <2>7, TickKeeps
  <2> QED
    BY <1>1, <2>1, <2>2, <2>3, <2>4, <2>5, <2>6, <2>7 DEF LoginNext
<1>2. CASE UNCHANGED loginVars
  <2>1. /\ UNCHANGED <<ipFails, userFails, request, ipWrong, userWrong, anyWrong>>
        /\ sessions' \in [Tokens -> Sessions \cup {None}]
    BY <1>2 DEF loginVars, LoginInv, LoginTypes
  <2> QED
    BY <2>1, LoginStill
<1> QED
  BY <1>1, <1>2

\* What the invariant says of the limits and of the sessions.
LEMMA LimitsFollow ==
    ASSUME LoginInv
    PROVE  LimitsHold
<1>1. LoginTypeOK
  <2>1. ASSUME NEW a \in Addresses, ipFails[a] # None
        PROVE  ipFails[a] \in Record /\ ipFails[a].count <= maxIPLoginFailures
    BY <2>1 DEF LoginInv, LoginTypes, AddressInv, Entries, RecordHolds
  <2>2. ASSUME NEW k \in Keys, userFails[k] # None
        PROVE  userFails[k] \in Record /\ userFails[k].count <= maxLoginFailures
    <3>1. PICK a \in Addresses, n \in Names : k = <<a, n>>
      BY DEF Keys
    <3> QED
      BY <2>2, <3>1 DEF LoginInv, LoginTypes, NameInv, Entries, RecordHolds
  <2>3. \A r \in Requests : request[r].step \in {"none", "check", "create"}
    BY DEF LoginInv, LoginTypes, Waiting, Logins
  <2>4. \A t \in Tokens : sessions[t] # None => sessions[t].left \in 0..sessionTTL
    BY DEF LoginInv, LoginTypes, Sessions
  <2> QED
    BY <2>1, <2>2, <2>3, <2>4 DEF LoginTypeOK
<1>2. GuessesPerNameBounded
  <2> SUFFICES ASSUME NEW a \in Addresses, NEW n \in Names \ LongNames
               PROVE  userWrong[<<a, n>>][loginLockout] <= 2 * maxLoginFailures
    BY DEF GuessesPerNameBounded
  <2>1. /\ userFails[<<a, n>>] \in Entries /\ GuessLog(userWrong[<<a, n>>])
        /\ RecordHolds(userFails[<<a, n>>], userWrong[<<a, n>>], maxLoginFailures, 0, 0)
    BY DEF LoginInv, LoginTypes, NameInv, Keys
  <2>2. maxLoginFailures \in Nat /\ 0 \in Nat
    BY LoginAssumption
  <2>3. userWrong[<<a, n>>][loginLockout] <= 2 * maxLoginFailures + 0
    BY <2>1, <2>2, GuessesBounded
  <2> QED
    BY <2>2, <2>3
<1>3. GuessesPerAddressBounded
  <2> SUFFICES ASSUME NEW a \in Addresses
               PROVE  ipWrong[a][loginLockout] <= 2 * maxIPLoginFailures + Cardinality(Requests)
    BY DEF GuessesPerAddressBounded
  <2>1. /\ ipFails[a] \in Entries /\ GuessLog(ipWrong[a])
        /\ RecordHolds(ipFails[a], ipWrong[a], maxIPLoginFailures,
                       Cardinality(Requests), Cardinality(Honest(a)))
    BY DEF LoginInv, LoginTypes, AddressInv
  <2>2. /\ Cardinality(Requests) \in Nat /\ Cardinality(Honest(a)) \in Nat
        /\ maxIPLoginFailures \in Nat
    BY CountRequests, LoginAssumption DEF Honest, Checking
  <2> QED
    BY <2>1, <2>2, GuessesBounded
<1>4. ServedUnderLiveSession
  <2> SUFFICES ASSUME NEW t \in Tokens, NEW access \in {"signed-in", "trustee", "admin"},
                      ~denial(access, LiveSessions[t])
               PROVE  sessions[t] # None /\ sessions[t].left > 0
    BY DEF ServedUnderLiveSession
  <2>1. LiveSessions[t] # None
    BY DEF denial
  <2>2. sessions[t] \in Sessions \cup {None}
    BY DEF LoginInv, LoginTypes
  <2>3. sessions[t] # None /\ sessions[t].left # 0
    BY <2>1 DEF LiveSessions
  <2> QED
    BY <2>2, <2>3, LoginAssumption DEF Sessions
<1> QED
  BY <1>1, <1>2, <1>3, <1>4 DEF LimitsHold

\* What each failure record says of the guesses let through, and of the requests
\* still being checked, survives every overlap of attempts, settlements and clock
\* ticks (auth.go).
THEOREM LoginInvariant == LoginSpec => []LoginInv
<1>1. LoginInit => LoginInv
  BY LoginInvInit
<1>2. LoginInv /\ [LoginNext]_loginVars => LoginInv'
  BY LoginInvStep
<1> QED
  BY <1>1, <1>2, PTL DEF LoginSpec

\* However login requests overlap, an address gets at most two limits' worth of
\* guesses per name within a lockout, and two limits' worth and one per request in
\* flight over all names; a request behind a role is served only under a live session.
THEOREM LoginLimits == LoginSpec => []LimitsHold
<1>1. LoginInv => LimitsHold
  BY LimitsFollow
<1> QED
  BY <1>1, LoginInvariant, PTL

\* Right passwords alone never lock an address or a name out (attempt and settle).
THEOREM LoginHonest == LoginSpec => []HonestNeverLocked
<1>1. LoginInv => HonestNeverLocked
  BY DEF LoginInv, HonestInv
<1> QED
  BY <1>1, LoginInvariant, PTL

=============================================================================
