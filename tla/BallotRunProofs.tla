---------------------------- MODULE BallotRunProofs ----------------------------
(***************************************************************************)
(* Proofs about a run of the console, for any number of ballots, any       *)
(* concurrency, any set of configurations and any number of faults.        *)
(***************************************************************************)
EXTENDS BallotRun, TLAPS, FiniteSetTheorems, WellFoundedInduction

(* The inductive invariant.                                                  *)

Reasons == {"", "stage_error", "nothing_submitted", "dropped", "reconcile_mismatch",
            "e_nonzero", "interrupted"}

Verdicts == [stamped : BOOLEAN, failed : BOOLEAN, reason : Reasons, sustained : BOOLEAN]

Journals ==
    [open : BOOLEAN, resumed : BOOLEAN, n : 0..N, committed : -1..N, endDropped : Nat,
     lastDone : 0..N, segment : Nat \ {0}, segments : Nat, stageErr : BOOLEAN,
     end : Verdicts]

Metrics ==
    [have : BOOLEAN, submitted : 0..N, committed : 0..N, dropped : Nat,
     stopped : BOOLEAN, bounded : BOOLEAN, journalError : BOOLEAN]

Locals ==
    [by : {"", "submit", "ceremony", "resume"}, segment : Nat, segments : Nat,
     pending : SUBSET Ballots, sent : SUBSET Ballots, busy : SUBSET Ballots,
     ok : SUBSET Ballots, replays : SUBSET Ballots, stopped : BOOLEAN,
     fired : BOOLEAN, cancelled : BOOLEAN, readErr : BOOLEAN, broken : BOOLEAN]

Chains ==
    [status : {"none", "open", "closed"}, ballots : SUBSET Ballots, tally : BOOLEAN]

Folders == [metrics : Metrics, closeReceipt : BOOLEAN, ceremony : BOOLEAN]

Pasts ==
    [windows : Nat, used : SUBSET Nat, reused : BOOLEAN, dispatched : SUBSET Ballots,
     sent : Nat, broke : BOOLEAN]

\* Every variable has its shape.
Types ==
    /\ config \in [bounded : BOOLEAN, pauseAtClose : BOOLEAN, peerFault : BOOLEAN]
    /\ chain \in Chains /\ wire \subseteq Ballots
    /\ jr \in Journals /\ files \in Folders
    /\ pc \in Phases /\ cur \in Locals /\ past \in Pasts

\* The places of a window, before and after its last submission came back, and after
\* its end was stamped; and those of the first window and of a resumed one.
Window == {"start", "seg0", "rSegment", "rStart", "window"}
Returned == {"replay", "end", "segend", "metrics", "jerr", "rEnd", "rollUp"}
Stamped == {"segend", "metrics", "jerr", "rEnd", "rollUp"}
FirstOnly == {"create", "dkg", "start", "seg0", "metrics"}
ResumeOnly == {"rRead", "rSegment", "rStart", "replay", "rEnd", "rollUp"}
InFirst == cur.by # "resume" /\ pc \in {"dkg", "start", "seg0", "window"} \cup Returned
InResume == cur.by = "resume" /\ pc \in {"rRead"} \cup Window \cup Returned

Everything == chain.ballots = Ballots

\* The locals of a window: what came back committed is on the chain, what is not
\* pending is too, and dispatching stops early only for the time bound of a first
\* window or a cancelled one.
WindowInv ==
    /\ cur.busy \subseteq cur.sent /\ cur.sent \subseteq cur.pending
    /\ cur.ok \subseteq cur.sent \ cur.busy /\ cur.ok \subseteq chain.ballots
    /\ cur.replays \subseteq cur.sent \ cur.ok /\ cur.replays \subseteq chain.ballots
    /\ Cardinality(cur.busy) <= Concurrency
    /\ cur.broken => past.broke
    /\ cur.stopped => cur.cancelled \/ (config.bounded /\ cur.by # "resume")
    /\ pc \in Window \cup Returned =>
        /\ Ballots \ cur.pending \subseteq chain.ballots
        /\ cur.by # "resume" => cur.pending = Ballots
    /\ pc \in Returned => cur.busy = {} /\ (cur.stopped \/ cur.sent = cur.pending)

\* Where the phase is, and by which route.
RouteInv ==
    /\ pc \in FirstOnly => cur.by # "resume"
    /\ pc \in ResumeOnly => cur.by = "resume"
    /\ cur.by # "resume" => cur.segment = 0 /\ cur.replays = {}
    /\ cur.by = "resume" => cur.segment >= 1
    /\ pc \in {"create", "dkg", "rRead"} => cur.sent = {}
    /\ pc \in {"rRead"} \cup Window => cur.replays = {}

\* Before CreateElection nothing happened; the first window is the first thing that
\* does.
FirstInv ==
    /\ chain.status = "none" =>
        /\ past.dispatched = {} /\ past.used = {} /\ past.windows = 0
        /\ ~jr.open /\ ~jr.resumed /\ jr.end.failed /\ ~jr.end.sustained
        /\ ~files.metrics.have
    /\ InFirst =>
        /\ chain.status = "open" /\ past.dispatched = cur.sent
        /\ ~jr.resumed /\ jr.end.failed /\ ~jr.end.sustained
        /\ pc # "jerr" => ~files.metrics.have
        /\ IF pc \in {"dkg", "start"} THEN past.used = {} /\ past.windows = 0
           ELSE past.used = {0} /\ past.windows = 1

\* A resumed window runs on an open election whose journal shows an open window until
\* its own end is stamped.
ResumeInv ==
    InResume =>
        /\ chain.status = "open"
        /\ pc \notin Stamped => jr.open
        /\ pc \in {"rRead", "rSegment"} => cur.segment = jr.segment
        /\ ~past.broke /\ pc \notin {"rRead", "rSegment"} => jr.resumed
        /\ ~past.broke /\ pc = "rStart" => cur.segment = jr.segment - 1
                                           /\ cur.segment \notin past.used

\* The journal shows an open window unless the window ended with every ballot it sent
\* accounted for; once resumed, a window not open left nothing out.
OpenInv ==
    /\ jr.open => chain.status = "open"
    /\ jr.resumed /\ ~jr.open => Everything
    /\ pc \in Stamped /\ ~cur.broken /\ ~Interrupted => ~jr.open

\* The election is about to be closed, or is, only when everything is in.
CloseInv ==
    /\ pc = "close" => cur.cancelled \/ (~jr.open /\ AllIn)
    /\ chain.status = "closed" => ~jr.open /\ AllIn

\* Segment numbers and windows, while the journal could be written.
SegmentInv ==
    ~past.broke =>
        /\ ~past.reused
        /\ \A s \in past.used : s < jr.segment
        /\ ~jr.resumed => past.windows <= 1

\* The metrics file, and what it implies of the journal.
MetricsInv ==
    LET m == files.metrics IN
    /\ m.committed <= Cardinality(chain.ballots)
    /\ ~m.have => m.submitted = 0 /\ ~m.bounded
    /\ m.have => past.windows >= 1 /\ chain.status # "none"
    /\ m.bounded => config.bounded
    /\ m.bounded /\ ~past.broke =>
        past.dispatched \subseteq chain.ballots /\ ~jr.open /\ ~jr.resumed
    /\ m.have /\ ~m.stopped /\ ~jr.resumed /\ ~past.broke => ~jr.open

\* A verdict, and why it lasts.
VerdictInv ==
    /\ jr.end.sustained /\ ~past.broke => past.windows = 1 /\ ~jr.open /\ ~jr.resumed
    /\ ~jr.end.failed /\ (config.bounded => ~past.broke) =>
        \/ Everything
        \/ /\ config.bounded /\ past.dispatched \subseteq chain.ballots
           /\ ~jr.open /\ ~jr.resumed

BallotRunInv ==
    /\ Types /\ WindowInv /\ RouteInv /\ FirstInv /\ ResumeInv
    /\ OpenInv /\ CloseInv /\ SegmentInv /\ MetricsInv /\ VerdictInv


-----------------------------------------------------------------------------
(* Counting ballots.                                                         *)

\* A set of naturals has a least member, which is what Min picks.
LEMMA MinInSet == ASSUME NEW S \in SUBSET Nat, S # {} PROVE Min(S) \in S
<1>1. \E x \in S : \A y \in S : ~(<<y, x>> \in OpToRel(<, Nat))
  BY NatLessThanWellFounded, WFMin
<1>2. ASSUME NEW x \in Nat, NEW y \in Nat, y < x PROVE <<y, x>> \in OpToRel(<, Nat)
  BY <1>2, Zenon DEF OpToRel
<1>3. PICK R : /\ \E x \in S : \A y \in S : ~(<<y, x>> \in R)
               /\ \A x \in Nat, y \in Nat : y < x => <<y, x>> \in R
  BY <1>1, <1>2, Zenon
<1>4. PICK x \in S : \A y \in S : ~(<<y, x>> \in R)
  BY <1>3
<1>5. ASSUME NEW y \in S PROVE x <= y
  <2>1. x \in Nat /\ y \in Nat /\ ~(y < x)
    BY <1>3, <1>4
  <2> QED
    BY <2>1
<1> QED
  BY <1>5 DEF Min

\* The larger of two.
LEMMA MaxInSet == ASSUME NEW a \in Nat, NEW b \in Nat PROVE Max({a, b}) \in Nat
<1>1. \E x \in {a, b} : \A y \in {a, b} : x >= y
  OBVIOUS
<1> QED
  BY <1>1 DEF Max

\* A set of ballots has between no and N of them.
LEMMA BallotCount ==
    ASSUME NEW S \in SUBSET Ballots
    PROVE  /\ IsFiniteSet(S) /\ Cardinality(S) \in 0..N
           /\ Cardinality(S) = 0 <=> S = {}
           /\ Cardinality(S) = N <=> S = Ballots
<1>1. IsFiniteSet(Ballots) /\ Cardinality(Ballots) = N
  BY FS_Interval, BallotRunAssumption DEF Ballots
<1>2. IsFiniteSet(S) /\ Cardinality(S) <= N /\ (Cardinality(S) = N => S = Ballots)
  BY <1>1, FS_Subset
<1>3. Cardinality(S) \in Nat
  BY <1>2, FS_CardinalityType
<1>4. Cardinality(S) = 0 <=> S = {}
  BY <1>2, FS_EmptySet
<1> QED
  BY <1>1, <1>2, <1>3, <1>4, BallotRunAssumption

\* More ballots, no smaller count.
LEMMA CountGrows ==
    ASSUME NEW S \in SUBSET Ballots, NEW T \in SUBSET Ballots, S \subseteq T
    PROVE  Cardinality(S) <= Cardinality(T)
BY BallotCount, FS_Subset

\* A proper part is smaller.
LEMMA CountProper ==
    ASSUME NEW S \in SUBSET Ballots, NEW T \in SUBSET Ballots, S \subseteq T, S # T
    PROVE  Cardinality(S) + 1 <= Cardinality(T)
<1>1. Cardinality(S) <= Cardinality(T) /\ (Cardinality(S) = Cardinality(T) => S = T)
  BY BallotCount, FS_Subset
<1> QED
  BY <1>1, BallotCount

\* One more ballot.
LEMMA CountAdd ==
    ASSUME NEW S \in SUBSET Ballots, NEW b \in Ballots, b \notin S
    PROVE  Cardinality(S \cup {b}) = Cardinality(S) + 1
BY BallotCount, FS_AddElement

\* Disjoint sets add up.
LEMMA CountUnion ==
    ASSUME NEW S \in SUBSET Ballots, NEW T \in SUBSET Ballots, S \cap T = {}
    PROVE  Cardinality(S \cup T) = Cardinality(S) + Cardinality(T)
<1>1. IsFiniteSet(S) /\ IsFiniteSet(T) /\ Cardinality({}) = 0
  BY BallotCount, FS_EmptySet
<1>2. Cardinality(S \cup T) = Cardinality(S) + Cardinality(T) - Cardinality(S \cap T)
  BY <1>1, FS_Union
<1> QED
  BY <1>1, <1>2, BallotCount


\* A window, or the way to one, finds the election open.
LEMMA StatusOpen ==
    ASSUME BallotRunInv, pc \in {"dkg", "rRead"} \cup Window \cup Returned
    PROVE  chain.status = "open"
<1>1. cur.by = "resume" => pc # "dkg"
  BY DEF BallotRunInv, RouteInv, FirstOnly
<1>2. cur.by # "resume" => pc \notin {"rRead", "rSegment", "rStart"}
  BY DEF BallotRunInv, RouteInv, ResumeOnly
<1> QED
  BY <1>1, <1>2 DEF BallotRunInv, FirstInv, InFirst, ResumeInv, InResume, Window

\* The types of the state at hand.
LEMMA TypesOf ==
    ASSUME BallotRunInv
    PROVE  /\ chain \in Chains /\ jr \in Journals /\ files \in Folders
           /\ cur \in Locals /\ past \in Pasts /\ wire \subseteq Ballots
           /\ pc \in Phases /\ config.bounded \in BOOLEAN
BY DEF BallotRunInv, Types

\* NoPhase is a phase that holds nothing.
LEMMA NoPhaseType == NoPhase \in Locals
BY DEF NoPhase, Locals

\* What a phase that returns leaves of the journal and the files.
JournalStands ==
    /\ jr' \in Journals /\ jr'.open = jr.open /\ jr'.resumed = jr.resumed
    /\ jr'.segment = jr.segment /\ jr'.end = jr.end

FilesStand ==
    LET m == files.metrics
        n == files'.metrics
    IN /\ files' \in Folders /\ n.have = m.have /\ n.submitted = m.submitted
       /\ n.committed = m.committed /\ n.stopped = m.stopped /\ n.bounded = m.bounded

\* The election moves on, to its close only when everything is in.
ChainSteps ==
    /\ chain' \in Chains /\ chain'.ballots = chain.ballots
    /\ \/ chain'.status = chain.status
       \/ chain.status = "none" /\ chain'.status = "open"
       \/ chain'.status = "closed" /\ ~jr.open /\ AllIn

\* Back to idle, whatever the phase was doing.
LEMMA IdleKeeps ==
    ASSUME BallotRunInv, UNCHANGED <<config, past>>, wire' \subseteq Ballots,
           pc' = "idle", cur' = NoPhase, JournalStands, FilesStand, ChainSteps
    PROVE  BallotRunInv'
<1>0. /\ cur'.by = "" /\ cur'.segment = 0 /\ cur'.pending = {} /\ cur'.sent = {}
      /\ cur'.busy = {} /\ cur'.ok = {} /\ cur'.replays = {} /\ cur'.stopped = FALSE
      /\ cur'.broken = FALSE
  BY DEF NoPhase
<1>1. Types'
  BY TypesOf, NoPhaseType DEF Types, Phases, BallotRunInv, JournalStands, FilesStand,
     ChainSteps
<1>2. WindowInv'
  <2>1. Cardinality({}) = 0 /\ 0 <= Concurrency
    BY FS_EmptySet, BallotRunAssumption
  <2>2. pc' \notin Window \cup Returned
    BY DEF Window, Returned
  <2> QED
    BY <1>0, <2>1, <2>2 DEF WindowInv
<1>3. RouteInv'
  BY <1>0 DEF RouteInv, FirstOnly, ResumeOnly, Window
<1>4. FirstInv'
  BY <1>0 DEF FirstInv, InFirst, Returned, BallotRunInv, JournalStands, FilesStand,
     ChainSteps
<1>5. ResumeInv'
  BY <1>0 DEF ResumeInv, InResume
<1>6. OpenInv'
  BY <1>0 DEF OpenInv, Everything, Stamped, BallotRunInv, JournalStands, ChainSteps
<1>7. CloseInv'
  BY <1>0 DEF CloseInv, AllIn, BallotRunInv, JournalStands, ChainSteps
<1>8. SegmentInv'
  BY DEF SegmentInv, BallotRunInv, JournalStands
<1>9. MetricsInv'
  BY TypesOf DEF MetricsInv, BallotRunInv, JournalStands, FilesStand, ChainSteps, Chains
<1>10. VerdictInv'
  BY DEF VerdictInv, Everything, BallotRunInv, JournalStands, ChainSteps
<1> QED
  BY <1>1, <1>2, <1>3, <1>4, <1>5, <1>6, <1>7, <1>8, <1>9, <1>10 DEF BallotRunInv

\* A stage is stamped with its outcome and nothing else.
LEMMA ReturnStands ==
    ASSUME BallotRunInv, NEW failed \in BOOLEAN, Return(failed)
    PROVE  JournalStands /\ pc' = "idle" /\ cur' = NoPhase
BY TypesOf DEF Return, StageEnd, JournalStands, Journals

\* An unchanged chain or folder.
LEMMA StillStands ==
    ASSUME BallotRunInv
    PROVE  /\ files' = files => FilesStand
           /\ chain' = chain => ChainSteps
           /\ jr' = jr => JournalStands
BY TypesOf DEF FilesStand, ChainSteps, JournalStands

\* A lifecycle step that fails, where the step itself would be allowed.
LEMMA StepFailsKeeps ==
    ASSUME BallotRunInv, NEW refused, NEW committed, StepFails(refused, committed),
           chain' = committed => ChainSteps
    PROVE  BallotRunInv'
<1>1. /\ UNCHANGED <<config, wire, files, past>> /\ Return(TRUE)
      /\ chain' = chain \/ chain' = committed
  BY DEF StepFails
<1> QED
  BY <1>1, IdleKeeps, ReturnStands, StillStands, TypesOf

\* A window's first line in the journal.
LEMMA JournalStarts ==
    ASSUME NEW j \in Journals, NEW n \in 0..N
    PROVE  LET k == [j EXCEPT !.open = TRUE, !.n = n, !.committed = -1]
           IN  /\ k \in Journals /\ k.open = TRUE /\ k.resumed = j.resumed
               /\ k.segment = j.segment /\ k.end = j.end
<1>1. -1 \in -1..N
  BY BallotRunAssumption
<1> QED
  BY <1>1 DEF Journals

-----------------------------------------------------------------------------
(* The actions, one by one.                                                  *)

\* A stage starts from nothing.
LEMMA BeginStageKeeps ==
    ASSUME BallotRunInv, NEW by \in {"submit", "ceremony"}, BeginStage(by)
    PROVE  BallotRunInv'
<1>0. /\ UNCHANGED <<config, chain, wire, jr, files, past>> /\ pc' = "create"
      /\ cur' \in Locals /\ cur'.by = by /\ cur'.segment = 0 /\ cur'.pending = {}
      /\ cur'.sent = {} /\ cur'.busy = {} /\ cur'.ok = {} /\ cur'.replays = {}
      /\ cur'.stopped = FALSE /\ cur'.broken = FALSE
  BY NoPhaseType DEF BeginStage, Fresh, NoPhase, Locals
<1>1. Types'
  BY TypesOf, <1>0 DEF Types, Phases, BallotRunInv
<1>2. WindowInv'
  BY <1>0, FS_EmptySet, BallotRunAssumption DEF BallotRunInv, Types, WindowInv, Window,
         Returned
<1>3. RouteInv'
  BY <1>0 DEF BallotRunInv, Types, RouteInv, FirstOnly, ResumeOnly, Window
<1>4. FirstInv'
  BY <1>0 DEF BallotRunInv, Types, FirstInv, InFirst, Returned, RouteInv
<1>5. ResumeInv'
  BY <1>0 DEF BallotRunInv, Types, ResumeInv, InResume, Window, Returned, Stamped,
         RouteInv, SegmentInv, OpenInv
<1>6. OpenInv'
  BY <1>0 DEF BallotRunInv, Types, OpenInv, Everything, Stamped, Interrupted, Stopped,
         windowWasBounded, Dropped, Failed, ResumeInv, InResume, FirstInv, InFirst, Window,
         Returned
<1>7. CloseInv'
  BY <1>0 DEF BallotRunInv, Types, CloseInv, AllIn, OpenInv
<1>8. SegmentInv'
  BY <1>0 DEF BallotRunInv, Types, SegmentInv, FirstInv, InFirst, ResumeInv, InResume,
         Window, Returned
<1>9. MetricsInv'
  BY <1>0 DEF BallotRunInv, Types, MetricsInv, FirstInv, InFirst, ResumeInv, InResume,
         Window, Returned
<1>10. VerdictInv'
  BY <1>0 DEF BallotRunInv, Types, VerdictInv, Everything, FirstInv, InFirst, ResumeInv,
         InResume, Window, Returned
<1> QED
  BY <1>1, <1>2, <1>3, <1>4, <1>5, <1>6, <1>7, <1>8, <1>9, <1>10 DEF BallotRunInv

\* The election opens, for the first time, or the stage fails.
LEMMA CreateElectionKeeps == ASSUME BallotRunInv, CreateElection PROVE BallotRunInv'
<1> DEFINE opened == [chain EXCEPT !.status = "open"]
<1>a. /\ opened \in Chains /\ opened.status = "open" /\ opened.ballots = chain.ballots
  BY TypesOf DEF Chains
<1>b. CASE StepFails(chain.status # "none", opened)
  <2>1. chain' = opened => chain.status = "none" \/ chain' = chain
    BY <1>b DEF StepFails
  <2>2. chain' = opened => ChainSteps
    BY <1>a, <2>1, StillStands DEF ChainSteps
  <2> QED
    BY <1>b, <2>2, StepFailsKeeps
<1>c. CASE /\ chain.status = "none" /\ chain' = opened /\ pc' = "dkg"
           /\ UNCHANGED <<config, wire, jr, files, cur, reply, faults, past>>
  <2>0. /\ chain' \in Chains /\ chain'.status = "open" /\ chain'.ballots = chain.ballots
        /\ pc = "create" /\ cur.by # "resume" /\ cur.sent = {}
    BY <1>a, <1>c DEF CreateElection, BallotRunInv, RouteInv, FirstOnly
  <2> HIDE DEF opened
  <2>1. Types'
    BY <1>c, <2>0, TypesOf DEF Types, Phases, BallotRunInv
  <2>2. WindowInv'
    BY <1>c, <2>0 DEF WindowInv, Window, Returned, BallotRunInv
  <2>3. RouteInv'
    BY <1>c, <2>0 DEF RouteInv, FirstOnly, ResumeOnly, Window, BallotRunInv
  <2>4. FirstInv' /\ ResumeInv'
    BY <1>c, <2>0 DEF FirstInv, InFirst, ResumeInv, InResume, Returned, BallotRunInv
  <2>5. OpenInv' /\ CloseInv'
    BY <1>c, <2>0 DEF OpenInv, CloseInv, Everything, Stamped, AllIn, BallotRunInv
  <2>6. SegmentInv'
    BY <1>c DEF SegmentInv, BallotRunInv
  <2>7. MetricsInv' /\ VerdictInv'
    BY <1>c, <2>0 DEF MetricsInv, VerdictInv, Everything, BallotRunInv
  <2> QED
    BY <2>1, <2>2, <2>3, <2>4, <2>5, <2>6, <2>7 DEF BallotRunInv
<1> QED
  BY <1>b, <1>c DEF CreateElection

\* The stage's window is over all ballots.
LEMMA PublishDKGTranscriptKeeps ==
    ASSUME BallotRunInv, PublishDKGTranscript
    PROVE  BallotRunInv'
<1>a. CASE StepFails(FALSE, chain)
  BY <1>a, StepFailsKeeps, StillStands
<1>b. CASE /\ pc' = "start" /\ cur' = [cur EXCEPT !.pending = Ballots]
           /\ UNCHANGED <<config, chain, wire, jr, files, reply, faults, past>>
  <2>0. /\ pc = "dkg" /\ cur.by # "resume" /\ cur.sent = {} /\ cur' \in Locals
        /\ cur'.by = cur.by /\ cur'.segment = cur.segment /\ cur'.pending = Ballots
        /\ cur'.sent = cur.sent /\ cur'.busy = cur.busy /\ cur'.ok = cur.ok
        /\ cur'.replays = cur.replays /\ cur'.stopped = cur.stopped
        /\ cur'.fired = cur.fired /\ cur'.cancelled = cur.cancelled
        /\ cur'.broken = cur.broken
    BY <1>b, TypesOf DEF PublishDKGTranscript, BallotRunInv, RouteInv, FirstOnly, Locals
  <2>1. Types'
    BY <1>b, <2>0, TypesOf DEF Types, Phases, BallotRunInv
  <2>2. WindowInv'
    BY <1>b, <2>0 DEF WindowInv, Window, Returned, BallotRunInv
  <2>3. RouteInv'
    BY <1>b, <2>0 DEF RouteInv, FirstOnly, ResumeOnly, Window, BallotRunInv
  <2>4. FirstInv' /\ ResumeInv'
    BY <1>b, <2>0 DEF FirstInv, InFirst, ResumeInv, InResume, Returned, BallotRunInv
  <2>5. OpenInv' /\ CloseInv'
    BY <1>b, <2>0 DEF OpenInv, CloseInv, Everything, Stamped, AllIn, BallotRunInv
  <2>6. SegmentInv'
    BY <1>b DEF SegmentInv, BallotRunInv
  <2>7. MetricsInv' /\ VerdictInv'
    BY <1>b, <2>0 DEF MetricsInv, VerdictInv, Everything, BallotRunInv
  <2> QED
    BY <2>1, <2>2, <2>3, <2>4, <2>5, <2>6, <2>7 DEF BallotRunInv
<1> QED
  BY <1>a, <1>b DEF PublishDKGTranscript

\* A window opens under its segment's number, or cannot be.
LEMMA OpenWindowKeeps ==
    ASSUME BallotRunInv, NEW next, OpenWindow(next),
           \/ pc = "start" /\ next = "seg0"
           \/ pc = "rStart" /\ next = "window"
    PROVE  BallotRunInv'
<1>a. CASE MayFail /\ Return(TRUE) /\ UNCHANGED past
  <2>1. UNCHANGED <<config, chain, wire, files>>
    BY DEF OpenWindow
  <2> QED
    BY <1>a, <2>1, IdleKeeps, ReturnStands, StillStands, TypesOf
<1>b. CASE /\ pc' = next /\ NoFault /\ UNCHANGED <<cur, reply>>
           /\ past' = [past EXCEPT !.windows = @ + 1, !.sent = 0,
                                   !.used = @ \union {cur.segment},
                                   !.reused = @ \/ cur.segment \in past.used]
           /\ StampInWindow(BallotsStart(Cardinality(cur.pending)))
  <2>0. /\ UNCHANGED <<config, chain, wire, files, cur>> /\ pc' = next
        /\ past' \in Pasts /\ past'.windows = past.windows + 1
        /\ past'.used = past.used \cup {cur.segment}
        /\ (past'.reused <=> past.reused \/ cur.segment \in past.used)
        /\ past'.dispatched = past.dispatched /\ past'.broke = past.broke
        /\ jr' \in Journals /\ jr'.open \in {jr.open, TRUE} /\ jr'.resumed = jr.resumed
        /\ jr'.segment = jr.segment /\ jr'.end = jr.end /\ chain.status = "open"
        /\ (cur.by = "resume" <=> pc = "rStart")
    <3>1. Cardinality(cur.pending) \in 0..N
      BY TypesOf, BallotCount DEF Locals
    <3>2. chain.status = "open"
      BY StatusOpen DEF Window
    <3>3. (cur.by = "resume" <=> pc = "rStart")
      BY DEF BallotRunInv, RouteInv, FirstOnly, ResumeOnly
    <3>4. UNCHANGED <<config, chain, wire, files, cur>>
      BY <1>b DEF OpenWindow
    <3>5. /\ past' \in Pasts /\ past'.windows = past.windows + 1
          /\ past'.used = past.used \cup {cur.segment}
          /\ (past'.reused <=> past.reused \/ cur.segment \in past.used)
          /\ past'.dispatched = past.dispatched /\ past'.broke = past.broke
      <4>1. cur.segment \in Nat
        BY TypesOf DEF Locals
      <4> DEFINE r == past.reused \/ cur.segment \in past.used
      <4>2. /\ past.windows + 1 \in Nat /\ past.used \cup {cur.segment} \in SUBSET Nat
            /\ r \in BOOLEAN
        BY <4>1, TypesOf DEF Pasts
      <4>3. past' = [past EXCEPT !.windows = past.windows + 1, !.sent = 0,
                                 !.used = past.used \cup {cur.segment}, !.reused = r]
        BY <1>b
      <4>4. /\ past' \in Pasts /\ past'.windows = past.windows + 1
            /\ past'.used = past.used \cup {cur.segment} /\ past'.reused = r
            /\ past'.dispatched = past.dispatched /\ past'.broke = past.broke
        <5> HIDE DEF r
        <5> QED
          BY <4>2, <4>3, TypesOf DEF Pasts
      <4> QED
        BY <4>4
    <3>6. /\ jr' \in Journals /\ jr'.open \in {jr.open, TRUE} /\ jr'.resumed = jr.resumed
          /\ jr'.segment = jr.segment /\ jr'.end = jr.end
      BY <1>b, <3>1, TypesOf, JournalStarts DEF StampInWindow, BallotsStart
    <3> QED
      BY <1>b, <3>2, <3>3, <3>4, <3>5, <3>6
  <2>1. Types'
    BY <2>0, TypesOf DEF Types, Phases, BallotRunInv
  <2>2. WindowInv'
    BY <2>0 DEF WindowInv, Window, Returned, BallotRunInv
  <2>3. RouteInv'
    BY <2>0 DEF RouteInv, FirstOnly, ResumeOnly, Window, BallotRunInv
  <2>4. FirstInv'
    BY <2>0 DEF FirstInv, InFirst, Returned, RouteInv, BallotRunInv
  <2>5. ResumeInv'
    BY <2>0 DEF ResumeInv, InResume, Window, Returned, Stamped, BallotRunInv
  <2>6. OpenInv' /\ CloseInv'
    BY <2>0 DEF OpenInv, CloseInv, Everything, Stamped, AllIn, BallotRunInv,
                ResumeInv, InResume, Window, FirstInv, InFirst
  <2>7. SegmentInv'
    <3>1. pc = "rStart" /\ ~past.broke =>
            jr.resumed /\ cur.segment = jr.segment - 1 /\ cur.segment \notin past.used
      BY <2>0 DEF BallotRunInv, ResumeInv, InResume, Window
    <3>2. pc = "start" => cur.segment = 0 /\ past.used = {} /\ past.windows = 0
      BY <2>0 DEF BallotRunInv, RouteInv, FirstInv, InFirst
    <3>3. jr.segment \in Nat \ {0} /\ cur.segment \in Nat /\ past.windows \in Nat
      BY TypesOf DEF Journals, Locals, Pasts
    <3> QED
      BY <2>0, <3>1, <3>2, <3>3 DEF BallotRunInv, SegmentInv
  <2>8. MetricsInv' /\ VerdictInv'
    BY <2>0, TypesOf DEF MetricsInv, VerdictInv, Everything, BallotRunInv, ResumeInv,
                InResume, Window, FirstInv, InFirst, Pasts
  <2> QED
    BY <2>1, <2>2, <2>3, <2>4, <2>5, <2>6, <2>7, <2>8 DEF BallotRunInv
<1> QED
  BY <1>a, <1>b DEF OpenWindow

\* A segment is stamped with its number; the next resume takes the one after.
LEMMA StampSegmentKeeps ==
    ASSUME BallotRunInv, NEW next, StampSegmentStart(next),
           \/ pc = "seg0" /\ next = "window"
           \/ pc = "rSegment" /\ next = "rStart"
    PROVE  BallotRunInv'
<1>0. /\ UNCHANGED <<config, chain, wire, files, cur, past>> /\ pc' = next
      /\ jr' \in Journals /\ jr'.open = jr.open /\ jr'.end = jr.end
      /\ cur.broken => jr' = jr
      /\ ~cur.broken => /\ jr'.segment = cur.segment + 1
                        /\ (jr'.resumed <=> jr.resumed \/ pc = "rSegment")
      /\ chain.status = "open" /\ (cur.by = "resume" <=> pc = "rSegment")
      /\ pc = "seg0" => cur.segment = 0
  <2>1. chain.status = "open"
    BY StatusOpen DEF Window
  <2>2. /\ (cur.by = "resume" <=> pc = "rSegment") /\ cur.segment \in Nat
        /\ pc = "seg0" => cur.segment = 0
        /\ pc = "rSegment" => cur.segment >= 1
    BY TypesOf DEF BallotRunInv, RouteInv, FirstOnly, ResumeOnly, Locals
  <2>3. /\ UNCHANGED <<config, chain, wire, files, cur, past>> /\ pc' = next
        /\ jr' = IF cur.broken THEN jr
                 ELSE [jr EXCEPT !.segment = cur.segment + 1, !.resumed = @ \/ cur.segment >= 1]
    BY DEF StampSegmentStart, StampInWindow, SegmentStart
  <2>4. /\ jr' \in Journals /\ jr'.open = jr.open /\ jr'.end = jr.end
        /\ ~cur.broken => /\ jr'.segment = cur.segment + 1
                          /\ (jr'.resumed <=> jr.resumed \/ cur.segment >= 1)
    <3> DEFINE r == jr.resumed \/ cur.segment >= 1
    <3>1. cur.segment + 1 \in Nat \ {0} /\ r \in BOOLEAN
      BY <2>2, TypesOf DEF Journals
    <3>2. jr' = IF cur.broken THEN jr
                ELSE [jr EXCEPT !.segment = cur.segment + 1, !.resumed = r]
      BY <2>3
    <3>3. /\ jr' \in Journals /\ jr'.open = jr.open /\ jr'.end = jr.end
          /\ ~cur.broken => jr'.segment = cur.segment + 1 /\ jr'.resumed = r
      <4> HIDE DEF r
      <4> QED
        BY <3>1, <3>2, TypesOf DEF Journals
    <3> QED
      BY <3>3
  <2> QED
    BY <2>1, <2>2, <2>3, <2>4
<1>1. Types'
  BY <1>0, TypesOf DEF Types, Phases, BallotRunInv
<1>2. WindowInv'
  BY <1>0 DEF WindowInv, Window, Returned, BallotRunInv
<1>3. RouteInv'
  BY <1>0 DEF RouteInv, FirstOnly, ResumeOnly, Window, BallotRunInv
<1>4. FirstInv'
  BY <1>0 DEF FirstInv, InFirst, Returned, RouteInv, BallotRunInv
<1>a. /\ jr.segment \in Nat \ {0} /\ cur.segment \in Nat
      /\ \A s \in past.used : s \in Nat
      /\ ~past.broke => ~cur.broken /\ \A s \in past.used : s < jr.segment
  BY TypesOf DEF Journals, Locals, Pasts, BallotRunInv, SegmentInv, WindowInv
<1>b. pc = "rSegment" => jr.open /\ cur.segment = jr.segment
  BY <1>0 DEF BallotRunInv, ResumeInv, InResume, Window, Stamped
<1>c. pc = "seg0" => past.used = {0} /\ past.windows = 1 /\ ~jr.resumed
  BY <1>0 DEF BallotRunInv, FirstInv, InFirst
<1>5. ResumeInv'
  <2>1. InResume' => pc = "rSegment" /\ pc' = "rStart"
    BY <1>0 DEF InResume
  <2>2. pc = "rSegment" /\ ~past.broke =>
          /\ jr'.resumed /\ jr'.segment = cur.segment + 1 /\ cur.segment \notin past.used
    BY <1>0, <1>a, <1>b
  <2> QED
    BY <1>0, <1>a, <1>b, <2>1, <2>2 DEF ResumeInv
<1>6. OpenInv' /\ CloseInv'
  BY <1>0 DEF OpenInv, CloseInv, Everything, Stamped, AllIn, BallotRunInv,
              ResumeInv, InResume, Window, FirstInv, InFirst
<1>7. SegmentInv'
  BY <1>0, <1>a, <1>b, <1>c DEF SegmentInv, BallotRunInv
<1>8. MetricsInv'
  BY <1>0, <1>b, <1>c DEF MetricsInv, BallotRunInv
<1>9. VerdictInv'
  BY <1>0, <1>b, <1>c DEF VerdictInv, Everything, BallotRunInv
<1> QED
  BY <1>1, <1>2, <1>3, <1>4, <1>5, <1>6, <1>7, <1>8, <1>9 DEF BallotRunInv

\* A pending ballot is handed out.
LEMMA DispatchKeeps ==
    ASSUME BallotRunInv, Dispatch
    PROVE  BallotRunInv'
<1>0. PICK b \in cur.pending \ cur.sent :
      /\ UNCHANGED <<config, chain, wire, files, pc>>
      /\ pc = "window" /\ ~cur.stopped /\ chain.status = "open" /\ cur' \in Locals
      /\ cur'.by = cur.by /\ cur'.segment = cur.segment /\ cur'.pending = cur.pending
      /\ cur'.sent = cur.sent \cup {b} /\ cur'.busy = cur.busy \cup {b}
      /\ cur'.ok = cur.ok /\ cur'.replays = cur.replays /\ cur'.stopped = cur.stopped
      /\ cur'.fired = cur.fired /\ cur'.cancelled = cur.cancelled
      /\ cur'.broken = cur.broken
      /\ past' \in Pasts /\ past'.dispatched = past.dispatched \cup {b}
      /\ past'.windows = past.windows /\ past'.used = past.used
      /\ past'.reused = past.reused /\ past'.broke = past.broke
      /\ jr' \in Journals /\ jr'.open \in {jr.open, TRUE} /\ jr'.resumed = jr.resumed
      /\ jr'.segment = jr.segment /\ jr'.end = jr.end
  <2> DEFINE b == Min(cur.pending \ cur.sent)
             done == Cardinality(cur.sent) + 1
  <2>1. b \in cur.pending \ cur.sent
    <3>1. cur.pending \ cur.sent \in SUBSET Nat
      <4>1. cur.pending \subseteq Ballots
        BY TypesOf DEF Locals
      <4>2. Ballots \subseteq Nat
        BY BallotRunAssumption DEF Ballots
      <4> QED
        BY <4>1, <4>2
    <3>2. cur.pending \ cur.sent # {}
      BY DEF Dispatch, BallotRunInv, WindowInv
    <3> QED
      BY <3>1, <3>2, MinInSet
  <2>2. done \in 0..N
    <3>1. /\ cur.sent \in SUBSET Ballots /\ cur.pending \in SUBSET Ballots
          /\ cur.sent \subseteq cur.pending /\ cur.sent # cur.pending
      BY TypesOf DEF Locals, BallotRunInv, WindowInv, Dispatch
    <3>2. Cardinality(cur.sent) + 1 <= Cardinality(cur.pending)
      BY <3>1, CountProper
    <3> QED
      BY <3>1, <3>2, BallotCount
  <2>3. chain.status = "open"
    BY StatusOpen DEF Dispatch, Window
  <2>4. /\ UNCHANGED <<config, chain, wire, files, pc>> /\ pc = "window" /\ ~cur.stopped
        /\ cur' = [cur EXCEPT !.sent = @ \union {b}, !.busy = @ \union {b}]
        /\ past' = [past EXCEPT !.dispatched = @ \union {b}, !.sent = done]
        /\ jr' = jr \/ jr' = [jr EXCEPT !.open = TRUE, !.lastDone = done]
    BY DEF Dispatch, StampInWindow, BallotsProgress
  <2> HIDE DEF b, done
  <2>5. b \in Ballots
    BY <2>1, TypesOf DEF Locals
  <2>6. /\ cur' \in Locals
        /\ cur'.by = cur.by /\ cur'.segment = cur.segment /\ cur'.pending = cur.pending
        /\ cur'.sent = cur.sent \cup {b} /\ cur'.busy = cur.busy \cup {b}
        /\ cur'.ok = cur.ok /\ cur'.replays = cur.replays /\ cur'.stopped = cur.stopped
        /\ cur'.fired = cur.fired /\ cur'.cancelled = cur.cancelled
        /\ cur'.broken = cur.broken
    BY <2>4, <2>5, TypesOf DEF Locals
  <2>7. /\ past' \in Pasts /\ past'.dispatched = past.dispatched \cup {b}
        /\ past'.windows = past.windows /\ past'.used = past.used
        /\ past'.reused = past.reused /\ past'.broke = past.broke
    <3>1. done \in Nat
      BY <2>2
    <3> QED
      BY <2>4, <2>5, <3>1, TypesOf DEF Pasts
  <2>8. /\ jr' \in Journals /\ jr'.open \in {jr.open, TRUE} /\ jr'.resumed = jr.resumed
        /\ jr'.segment = jr.segment /\ jr'.end = jr.end
    BY <2>2, <2>4, TypesOf DEF Journals
  <2> QED
    BY <2>1, <2>3, <2>4, <2>6, <2>7, <2>8
<1>a. Cardinality(cur'.busy) <= Concurrency
  <2>1. cur.busy \in SUBSET Ballots /\ b \in Ballots /\ b \notin cur.busy
    BY <1>0, TypesOf DEF BallotRunInv, WindowInv, Locals
  <2>2. Cardinality(cur.busy \cup {b}) = Cardinality(cur.busy) + 1
    BY <2>1, CountAdd
  <2>3. Cardinality(cur.busy) < Concurrency /\ Cardinality(cur.busy) \in Nat
    BY <2>1, BallotCount DEF Dispatch
  <2> QED
    BY <1>0, <2>2, <2>3, BallotRunAssumption
<1>1. Types'
  BY TypesOf, <1>0 DEF Types, Phases, BallotRunInv
<1>2. WindowInv'
  BY <1>0, <1>a DEF BallotRunInv, Types, WindowInv, Window, Returned
<1>3. RouteInv'
  BY <1>0 DEF BallotRunInv, Types, RouteInv, FirstOnly, ResumeOnly, Window
<1>4. FirstInv'
  BY <1>0 DEF BallotRunInv, Types, FirstInv, InFirst, Returned, RouteInv
<1>5. ResumeInv'
  BY <1>0 DEF BallotRunInv, Types, ResumeInv, InResume, Window, Returned, Stamped,
         RouteInv, SegmentInv, OpenInv
<1>6. OpenInv'
  BY <1>0 DEF BallotRunInv, Types, OpenInv, Everything, Stamped, Interrupted, Stopped,
         windowWasBounded, Dropped, Failed, ResumeInv, InResume, FirstInv, InFirst, Window,
         Returned
<1>7. CloseInv'
  BY <1>0 DEF BallotRunInv, Types, CloseInv, AllIn, OpenInv
<1>8. SegmentInv'
  BY <1>0 DEF BallotRunInv, Types, SegmentInv, FirstInv, InFirst, ResumeInv, InResume,
         Window, Returned
<1>9. MetricsInv'
  BY <1>0 DEF BallotRunInv, Types, MetricsInv, FirstInv, InFirst, ResumeInv, InResume,
         Window, Returned, Stamped
<1>10. VerdictInv'
  BY <1>0, TypesOf DEF BallotRunInv, Types, VerdictInv, Everything, FirstInv, InFirst,
         ResumeInv, InResume, Window, Returned, Pasts, Stamped
<1> QED
  BY <1>1, <1>2, <1>3, <1>4, <1>5, <1>6, <1>7, <1>8, <1>9, <1>10 DEF BallotRunInv

\* Nothing more is dispatched, because of the bound or a cancellation.
LEMMA StopDispatchKeeps ==
    ASSUME BallotRunInv, StopDispatch
    PROVE  BallotRunInv'
<1> USE DEF StopDispatch
<1>1. Types'
  <2>1. cur' \in Locals
    BY TypesOf DEF Locals
  <2> QED
    BY <2>1, TypesOf DEF Types, Phases, BallotRunInv
<1>2. WindowInv'
  BY DEF BallotRunInv, Types, Locals, WindowInv, Window, Returned
<1>3. RouteInv'
  BY DEF BallotRunInv, Types, Locals, RouteInv, FirstOnly, ResumeOnly, Window
<1>4. FirstInv'
  BY DEF BallotRunInv, Types, Locals, FirstInv, InFirst, Returned, RouteInv
<1>5. ResumeInv'
  BY DEF BallotRunInv, Types, Locals, ResumeInv, InResume, Window, Returned, Stamped,
         RouteInv, SegmentInv, OpenInv
<1>6. OpenInv'
  BY DEF BallotRunInv, Types, Locals, OpenInv, Everything, Stamped, Interrupted,
     Stopped,
         windowWasBounded, Dropped, Failed, ResumeInv, InResume, FirstInv, InFirst, Window,
         Returned
<1>7. CloseInv'
  BY DEF BallotRunInv, Types, Locals, CloseInv, AllIn, OpenInv
<1>8. SegmentInv'
  BY DEF BallotRunInv, Types, Locals, SegmentInv, FirstInv, InFirst, ResumeInv,
     InResume,
         Window, Returned
<1>9. MetricsInv'
  BY DEF BallotRunInv, Types, Locals, MetricsInv, FirstInv, InFirst, ResumeInv,
     InResume,
         Window, Returned
<1>10. VerdictInv'
  BY DEF BallotRunInv, Types, Locals, VerdictInv, Everything, FirstInv, InFirst,
     ResumeInv,
         InResume, Window, Returned
<1> QED
  BY <1>1, <1>2, <1>3, <1>4, <1>5, <1>6, <1>7, <1>8, <1>9, <1>10 DEF BallotRunInv

\* A submission commits.
LEMMA CommitKeeps ==
    ASSUME BallotRunInv, NEW b \in Ballots, Commit(b)
    PROVE  BallotRunInv'
<1>0. /\ UNCHANGED <<config, wire, jr, files, pc, past>> /\ pc = "window" /\ b \in cur.busy
      /\ chain' \in Chains /\ chain'.status = chain.status /\ chain.status = "open"
      /\ chain'.ballots = chain.ballots \cup {b} /\ cur' \in Locals
      /\ cur'.by = cur.by /\ cur'.segment = cur.segment /\ cur'.pending = cur.pending
      /\ cur'.sent = cur.sent /\ cur'.busy = cur.busy \ {b}
      /\ cur'.ok = cur.ok \cup {b} /\ cur'.replays = cur.replays
      /\ cur'.stopped = cur.stopped /\ cur'.fired = cur.fired
      /\ cur'.cancelled = cur.cancelled /\ cur'.broken = cur.broken
  <2>1. /\ UNCHANGED <<config, wire, jr, files, pc, past>> /\ pc = "window" /\ b \in cur.busy
        /\ chain' = [chain EXCEPT !.ballots = @ \union {b}] /\ chain.status = "open"
        /\ cur' = [cur EXCEPT !.busy = @ \ {b}, !.ok = @ \union {b}]
    BY TypesOf DEF Commit, Done, Locals
  <2>2. /\ chain' \in Chains /\ chain'.status = chain.status
        /\ chain'.ballots = chain.ballots \cup {b}
    BY <2>1, TypesOf DEF Chains
  <2>3. /\ cur' \in Locals
        /\ cur'.by = cur.by /\ cur'.segment = cur.segment /\ cur'.pending = cur.pending
        /\ cur'.sent = cur.sent /\ cur'.busy = cur.busy \ {b}
        /\ cur'.ok = cur.ok \cup {b} /\ cur'.replays = cur.replays
        /\ cur'.stopped = cur.stopped /\ cur'.fired = cur.fired
        /\ cur'.cancelled = cur.cancelled /\ cur'.broken = cur.broken
    BY <2>1, TypesOf DEF Locals
  <2> QED
    BY <2>1, <2>2, <2>3
<1>a. /\ Cardinality(cur'.busy) <= Concurrency
      /\ Cardinality(chain.ballots) <= Cardinality(chain'.ballots)
      /\ Cardinality(chain.ballots) \in Nat /\ Cardinality(chain'.ballots) \in Nat
      /\ chain.ballots \in SUBSET Ballots
  <2>1. /\ cur.busy \in SUBSET Ballots /\ cur'.busy \in SUBSET Ballots
        /\ chain.ballots \in SUBSET Ballots /\ chain'.ballots \in SUBSET Ballots
    BY <1>0, TypesOf DEF Locals, Chains
  <2>2. /\ Cardinality(cur'.busy) <= Cardinality(cur.busy)
        /\ Cardinality(chain.ballots) <= Cardinality(chain'.ballots)
    BY <1>0, <2>1, CountGrows
  <2>3. /\ Cardinality(cur.busy) \in 0..N /\ Cardinality(cur'.busy) \in 0..N
        /\ Cardinality(chain.ballots) \in 0..N /\ Cardinality(chain'.ballots) \in 0..N
    BY <2>1, BallotCount
  <2>4. Cardinality(cur.busy) <= Concurrency
    BY DEF BallotRunInv, WindowInv
  <2> QED
    BY <2>1, <2>2, <2>3, <2>4, BallotRunAssumption
<1>b. files.metrics.committed \in 0..N
  BY TypesOf DEF Folders, Metrics
<1>1. Types'
  BY TypesOf, <1>0 DEF Types, Phases, BallotRunInv
<1>2. WindowInv'
  BY <1>0, <1>a DEF BallotRunInv, Types, WindowInv, Window, Returned, RouteInv
<1>3. RouteInv'
  BY <1>0 DEF BallotRunInv, Types, RouteInv, FirstOnly, ResumeOnly, Window
<1>4. FirstInv'
  BY <1>0 DEF BallotRunInv, Types, FirstInv, InFirst, Returned, RouteInv
<1>5. ResumeInv'
  BY <1>0 DEF BallotRunInv, Types, ResumeInv, InResume, Window, Returned, Stamped,
         RouteInv, SegmentInv, OpenInv
<1>6. OpenInv'
  BY <1>0, <1>a DEF BallotRunInv, Types, OpenInv, Everything, Stamped, Interrupted,
         Stopped, windowWasBounded, Dropped, Failed, ResumeInv, InResume, FirstInv,
         InFirst, Window, Returned
<1>7. CloseInv'
  BY <1>0 DEF BallotRunInv, Types, CloseInv, AllIn, OpenInv
<1>8. SegmentInv'
  BY <1>0 DEF BallotRunInv, Types, SegmentInv, FirstInv, InFirst, ResumeInv, InResume,
         Window, Returned
<1>9. MetricsInv'
  BY <1>0, <1>a, <1>b DEF BallotRunInv, Types, MetricsInv, FirstInv, InFirst, ResumeInv,
         InResume, Window, Returned
<1>10. VerdictInv'
  BY <1>0, <1>a DEF BallotRunInv, Types, VerdictInv, Everything, FirstInv, InFirst,
         ResumeInv, InResume, Window, Returned
<1> QED
  BY <1>1, <1>2, <1>3, <1>4, <1>5, <1>6, <1>7, <1>8, <1>9, <1>10 DEF BallotRunInv

\* A submission comes back without having committed; its place in flight is free.
SubmissionBack(b) ==
    /\ UNCHANGED <<config, chain, jr, files, pc, past>>
    /\ pc = "window" /\ b \in cur.busy /\ wire' \subseteq Ballots
    /\ \E e \in BOOLEAN : cur' = [cur EXCEPT !.busy = @ \ {b}, !.readErr = e]

\* Nothing else changes when a submission fails.
LEMMA SubmissionBackKeeps ==
    ASSUME BallotRunInv, NEW b \in Ballots, SubmissionBack(b)
    PROVE  BallotRunInv'
<1>0. /\ UNCHANGED <<config, chain, jr, files, pc, past>>
      /\ pc = "window" /\ wire' \subseteq Ballots /\ cur' \in Locals
      /\ cur'.by = cur.by /\ cur'.segment = cur.segment /\ cur'.pending = cur.pending
      /\ cur'.sent = cur.sent /\ cur'.busy = cur.busy \ {b} /\ cur'.ok = cur.ok
      /\ cur'.replays = cur.replays /\ cur'.stopped = cur.stopped
      /\ cur'.fired = cur.fired /\ cur'.cancelled = cur.cancelled
      /\ cur'.broken = cur.broken
  BY TypesOf DEF SubmissionBack, Locals
<1>a. Cardinality(cur'.busy) <= Concurrency
  <2>1. cur.busy \in SUBSET Ballots /\ cur'.busy \in SUBSET Ballots
    BY <1>0, TypesOf DEF Locals
  <2>2. Cardinality(cur'.busy) <= Cardinality(cur.busy)
    BY <1>0, <2>1, CountGrows
  <2>3. Cardinality(cur.busy) \in 0..N /\ Cardinality(cur'.busy) \in 0..N
    BY <2>1, BallotCount
  <2>4. Cardinality(cur.busy) <= Concurrency
    BY DEF BallotRunInv, WindowInv
  <2> QED
    BY <2>2, <2>3, <2>4, BallotRunAssumption
<1>1. Types'
  BY TypesOf, <1>0 DEF Types, Phases, BallotRunInv
<1>2. WindowInv'
  BY <1>0, <1>a DEF BallotRunInv, Types, WindowInv, Window, Returned
<1>3. RouteInv'
  BY <1>0 DEF BallotRunInv, Types, RouteInv, FirstOnly, ResumeOnly, Window
<1>4. FirstInv'
  BY <1>0 DEF BallotRunInv, Types, FirstInv, InFirst, Returned, RouteInv
<1>5. ResumeInv'
  BY <1>0 DEF BallotRunInv, Types, ResumeInv, InResume, Window, Returned, Stamped,
         RouteInv, SegmentInv, OpenInv
<1>6. OpenInv'
  BY <1>0 DEF BallotRunInv, Types, OpenInv, Everything, Stamped, Interrupted, Stopped,
         windowWasBounded, Dropped, Failed, ResumeInv, InResume, FirstInv, InFirst, Window,
         Returned
<1>7. CloseInv'
  BY <1>0 DEF BallotRunInv, Types, CloseInv, AllIn, OpenInv
<1>8. SegmentInv'
  BY <1>0 DEF BallotRunInv, Types, SegmentInv, FirstInv, InFirst, ResumeInv, InResume,
         Window, Returned
<1>9. MetricsInv'
  BY <1>0 DEF BallotRunInv, Types, MetricsInv, FirstInv, InFirst, ResumeInv, InResume,
         Window, Returned
<1>10. VerdictInv'
  BY <1>0 DEF BallotRunInv, Types, VerdictInv, Everything, FirstInv, InFirst, ResumeInv,
         InResume, Window, Returned
<1> QED
  BY <1>1, <1>2, <1>3, <1>4, <1>5, <1>6, <1>7, <1>8, <1>9, <1>10 DEF BallotRunInv

\* Refused, its answer lost, or never read from the population.
LEMMA FailureKeeps ==
    ASSUME BallotRunInv, NEW b \in Ballots, Refuse(b) \/ LoseAnswer(b) \/ ReadFails(b)
    PROVE  BallotRunInv'
<1>1. cur.readErr \in BOOLEAN /\ wire \subseteq Ballots
  BY TypesOf DEF Locals
<1>2. [cur EXCEPT !.busy = @ \ {b}] = [cur EXCEPT !.busy = @ \ {b}, !.readErr = cur.readErr]
  BY TypesOf DEF Locals
<1>3. CASE Refuse(b)
  BY <1>1, <1>2, <1>3, SubmissionBackKeeps DEF Refuse, Done, SubmissionBack
<1>4. CASE LoseAnswer(b)
  BY <1>1, <1>2, <1>4, SubmissionBackKeeps DEF LoseAnswer, Done, SubmissionBack
<1>5. CASE ReadFails(b)
  <2>1. [Done(b) EXCEPT !.readErr = TRUE] = [cur EXCEPT !.busy = @ \ {b}, !.readErr = TRUE]
    BY TypesOf DEF Locals, Done
  <2> QED
    BY <1>1, <1>5, <2>1, SubmissionBackKeeps DEF ReadFails, SubmissionBack
<1> QED
  BY <1>3, <1>4, <1>5

\* The peer goes away in the middle of the window.
LEMMA FirePeerFaultKeeps ==
    ASSUME BallotRunInv, FirePeerFault
    PROVE  BallotRunInv'
<1> USE DEF FirePeerFault
<1>1. Types'
  <2>1. cur' \in Locals
    BY TypesOf DEF Locals
  <2> QED
    BY <2>1, TypesOf DEF Types, Phases, BallotRunInv
<1>2. WindowInv'
  BY DEF BallotRunInv, Types, Locals, WindowInv, Window, Returned
<1>3. RouteInv'
  BY DEF BallotRunInv, Types, Locals, RouteInv, FirstOnly, ResumeOnly, Window
<1>4. FirstInv'
  BY DEF BallotRunInv, Types, Locals, FirstInv, InFirst, Returned, RouteInv
<1>5. ResumeInv'
  BY DEF BallotRunInv, Types, Locals, ResumeInv, InResume, Window, Returned, Stamped,
         RouteInv, SegmentInv, OpenInv
<1>6. OpenInv'
  BY DEF BallotRunInv, Types, Locals, OpenInv, Everything, Stamped, Interrupted,
     Stopped,
         windowWasBounded, Dropped, Failed, ResumeInv, InResume, FirstInv, InFirst, Window,
         Returned
<1>7. CloseInv'
  BY DEF BallotRunInv, Types, Locals, CloseInv, AllIn, OpenInv
<1>8. SegmentInv'
  BY DEF BallotRunInv, Types, Locals, SegmentInv, FirstInv, InFirst, ResumeInv,
     InResume,
         Window, Returned
<1>9. MetricsInv'
  BY DEF BallotRunInv, Types, Locals, MetricsInv, FirstInv, InFirst, ResumeInv,
     InResume,
         Window, Returned
<1>10. VerdictInv'
  BY DEF BallotRunInv, Types, Locals, VerdictInv, Everything, FirstInv, InFirst,
     ResumeInv,
         InResume, Window, Returned
<1> QED
  BY <1>1, <1>2, <1>3, <1>4, <1>5, <1>6, <1>7, <1>8, <1>9, <1>10 DEF BallotRunInv

\* From here on the window writes nothing.
LEMMA JournalBreaksKeeps ==
    ASSUME BallotRunInv, JournalBreaks
    PROVE  BallotRunInv'
<1>0. /\ UNCHANGED <<config, chain, wire, jr, files, pc>>
      /\ pc \notin {"close", "metrics", "jerr", "rEnd", "rollUp"} /\ cur' \in Locals
      /\ cur'.by = cur.by /\ cur'.segment = cur.segment /\ cur'.pending = cur.pending
      /\ cur'.sent = cur.sent /\ cur'.busy = cur.busy /\ cur'.ok = cur.ok
      /\ cur'.replays = cur.replays /\ cur'.stopped = cur.stopped
      /\ cur'.fired = cur.fired /\ cur'.cancelled = cur.cancelled
      /\ cur'.broken = TRUE
      /\ past' \in Pasts /\ past'.broke = TRUE /\ past'.dispatched = past.dispatched
      /\ past'.windows = past.windows /\ past'.used = past.used
  <2>1. /\ UNCHANGED <<config, chain, wire, jr, files, pc>>
        /\ pc \notin {"close", "metrics", "jerr", "rEnd", "rollUp"}
        /\ cur' = [cur EXCEPT !.broken = TRUE] /\ past' = [past EXCEPT !.broke = TRUE]
    BY DEF JournalBreaks
  <2>2. /\ cur' \in Locals
        /\ cur'.by = cur.by /\ cur'.segment = cur.segment /\ cur'.pending = cur.pending
        /\ cur'.sent = cur.sent /\ cur'.busy = cur.busy /\ cur'.ok = cur.ok
        /\ cur'.replays = cur.replays /\ cur'.stopped = cur.stopped
        /\ cur'.fired = cur.fired /\ cur'.cancelled = cur.cancelled
        /\ cur'.broken = TRUE
    BY <2>1, TypesOf DEF Locals
  <2>3. /\ past' \in Pasts /\ past'.broke = TRUE /\ past'.dispatched = past.dispatched
        /\ past'.windows = past.windows /\ past'.used = past.used
    BY <2>1, TypesOf DEF Pasts
  <2> QED
    BY <2>1, <2>2, <2>3
<1>1. Types'
  BY TypesOf, <1>0 DEF Types, Phases, BallotRunInv
<1>2. WindowInv'
  BY <1>0 DEF BallotRunInv, Types, WindowInv, Window, Returned
<1>3. RouteInv'
  BY <1>0 DEF BallotRunInv, Types, RouteInv, FirstOnly, ResumeOnly, Window
<1>4. FirstInv'
  BY <1>0 DEF BallotRunInv, Types, FirstInv, InFirst, Returned, RouteInv
<1>5. ResumeInv'
  BY <1>0 DEF BallotRunInv, Types, ResumeInv, InResume, Window, Returned, Stamped,
         RouteInv, SegmentInv, OpenInv
<1>6. OpenInv'
  BY <1>0 DEF BallotRunInv, Types, OpenInv, Everything, Stamped, Interrupted, Stopped,
         windowWasBounded, Dropped, Failed, ResumeInv, InResume, FirstInv, InFirst, Window,
         Returned
<1>7. CloseInv'
  BY <1>0 DEF BallotRunInv, Types, CloseInv, AllIn, OpenInv
<1>8. SegmentInv'
  BY <1>0 DEF BallotRunInv, Types, SegmentInv, FirstInv, InFirst, ResumeInv, InResume,
         Window, Returned
<1>9. MetricsInv'
  BY <1>0 DEF BallotRunInv, Types, MetricsInv, FirstInv, InFirst, ResumeInv, InResume,
         Window, Returned
<1>10. VerdictInv'
  BY <1>0 DEF BallotRunInv, Types, VerdictInv, Everything, FirstInv, InFirst, ResumeInv,
         InResume, Window, Returned
<1> QED
  BY <1>1, <1>2, <1>3, <1>4, <1>5, <1>6, <1>7, <1>8, <1>9, <1>10 DEF BallotRunInv

\* Nothing is in flight any more.
LEMMA RunReturnsKeeps ==
    ASSUME BallotRunInv, RunReturns
    PROVE  BallotRunInv'
<1>0. /\ UNCHANGED <<config, chain, wire, files, cur, past>>
      /\ pc = "window" /\ pc' = (IF cur.by = "resume" THEN "replay" ELSE "end")
      /\ cur.busy = {} /\ (cur.stopped \/ cur.sent = cur.pending)
      /\ jr' \in Journals /\ jr'.open \in {jr.open, TRUE} /\ jr'.resumed = jr.resumed
      /\ jr'.segment = jr.segment /\ jr'.end = jr.end
      /\ chain.status = "open"
  <2>1. Cardinality(cur.sent) \in 0..N
    BY TypesOf, BallotCount DEF Locals
  <2>2. chain.status = "open"
    BY StatusOpen DEF RunReturns, Window
  <2> QED
    BY <2>1, <2>2, TypesOf DEF RunReturns, StampInWindow, BallotsProgress, Journals
<1>1. Types'
  BY TypesOf, <1>0 DEF Types, Phases, BallotRunInv
<1>2. WindowInv'
  BY <1>0 DEF BallotRunInv, Types, WindowInv, Window, Returned
<1>3. RouteInv'
  BY <1>0 DEF BallotRunInv, Types, RouteInv, FirstOnly, ResumeOnly, Window
<1>4. FirstInv'
  BY <1>0 DEF BallotRunInv, Types, FirstInv, InFirst, Returned, RouteInv
<1>5. ResumeInv'
  BY <1>0 DEF BallotRunInv, Types, ResumeInv, InResume, Window, Returned, Stamped,
         RouteInv, SegmentInv, OpenInv
<1>6. OpenInv'
  BY <1>0 DEF BallotRunInv, Types, OpenInv, Everything, Stamped, Interrupted, Stopped,
         windowWasBounded, Dropped, Failed, ResumeInv, InResume, FirstInv, InFirst, Window,
         Returned
<1>7. CloseInv'
  BY <1>0 DEF BallotRunInv, Types, CloseInv, AllIn, OpenInv
<1>8. SegmentInv'
  BY <1>0 DEF BallotRunInv, Types, SegmentInv, FirstInv, InFirst, ResumeInv, InResume,
         Window, Returned
<1>9. MetricsInv'
  BY <1>0 DEF BallotRunInv, Types, MetricsInv, FirstInv, InFirst, ResumeInv, InResume,
         Window, Returned
<1>10. VerdictInv'
  BY <1>0 DEF BallotRunInv, Types, VerdictInv, Everything, FirstInv, InFirst, ResumeInv,
         InResume, Window, Returned
<1> QED
  BY <1>1, <1>2, <1>3, <1>4, <1>5, <1>6, <1>7, <1>8, <1>9, <1>10 DEF BallotRunInv

\* A ballot lands late: only while the election is open, and the more the better.
LEMMA LandKeeps ==
    ASSUME BallotRunInv, NEW b \in Ballots, Land(b)
    PROVE  BallotRunInv'
<1>0. /\ UNCHANGED <<config, jr, files, pc, cur, past>> /\ wire' \subseteq Ballots
      /\ chain' \in Chains /\ chain'.status = chain.status
      /\ chain.ballots \subseteq chain'.ballots /\ chain'.ballots \subseteq Ballots
      /\ chain.ballots \subseteq Ballots
  BY TypesOf DEF Land, Chains
<1>a. Cardinality(chain.ballots) <= Cardinality(chain'.ballots)
  BY <1>0, CountGrows
<1>b. /\ Cardinality(chain.ballots) \in 0..N /\ Cardinality(chain'.ballots) \in 0..N
      /\ files.metrics.committed \in 0..N
  BY <1>0, BallotCount, TypesOf DEF Folders, Metrics
<1>1. Types'
  BY TypesOf, <1>0 DEF Types, Phases, BallotRunInv
<1>2. WindowInv'
  BY <1>0 DEF BallotRunInv, Types, WindowInv, Window, Returned
<1>3. RouteInv'
  BY <1>0 DEF BallotRunInv, Types, RouteInv, FirstOnly, ResumeOnly, Window
<1>4. FirstInv'
  BY <1>0 DEF BallotRunInv, Types, FirstInv, InFirst, Returned, RouteInv
<1>5. ResumeInv'
  BY <1>0 DEF BallotRunInv, Types, ResumeInv, InResume, Window, Returned, Stamped,
         RouteInv, SegmentInv, OpenInv
<1>6. OpenInv'
  BY <1>0 DEF BallotRunInv, Types, OpenInv, Everything, Stamped, Interrupted, Stopped,
         windowWasBounded, Dropped, Failed, ResumeInv, InResume, FirstInv, InFirst, Window,
         Returned
<1>7. CloseInv'
  BY <1>0 DEF BallotRunInv, Types, CloseInv, AllIn, OpenInv
<1>8. SegmentInv'
  BY <1>0 DEF BallotRunInv, Types, SegmentInv, FirstInv, InFirst, ResumeInv, InResume,
         Window, Returned
<1>9. MetricsInv'
  BY <1>0, <1>a, <1>b DEF BallotRunInv, Types, MetricsInv, FirstInv, InFirst, ResumeInv,
         InResume, Window, Returned
<1>10. VerdictInv'
  BY <1>0 DEF BallotRunInv, Types, VerdictInv, Everything, FirstInv, InFirst, ResumeInv,
         InResume, Window, Returned
<1> QED
  BY <1>1, <1>2, <1>3, <1>4, <1>5, <1>6, <1>7, <1>8, <1>9, <1>10 DEF BallotRunInv

\* A ballot that never lands.
LEMMA ExpireKeeps ==
    ASSUME BallotRunInv, NEW b \in Ballots, Expire(b)
    PROVE  BallotRunInv'
<1> USE DEF Expire
<1>1. Types'
  BY TypesOf DEF Types, Phases, BallotRunInv
<1>2. WindowInv'
  BY DEF BallotRunInv, Types, WindowInv, Window, Returned
<1>3. RouteInv'
  BY DEF BallotRunInv, Types, RouteInv, FirstOnly, ResumeOnly, Window
<1>4. FirstInv'
  BY DEF BallotRunInv, Types, FirstInv, InFirst, Returned, RouteInv
<1>5. ResumeInv'
  BY DEF BallotRunInv, Types, ResumeInv, InResume, Window, Returned, Stamped, RouteInv,
         SegmentInv, OpenInv
<1>6. OpenInv'
  BY DEF BallotRunInv, Types, OpenInv, Everything, Stamped, Interrupted, Stopped,
         windowWasBounded, Dropped, Failed, ResumeInv, InResume, FirstInv, InFirst, Window,
         Returned
<1>7. CloseInv'
  BY DEF BallotRunInv, Types, CloseInv, AllIn, OpenInv
<1>8. SegmentInv'
  BY DEF BallotRunInv, Types, SegmentInv, FirstInv, InFirst, ResumeInv, InResume,
     Window,
         Returned
<1>9. MetricsInv'
  BY DEF BallotRunInv, Types, MetricsInv, FirstInv, InFirst, ResumeInv, InResume,
     Window,
         Returned
<1>10. VerdictInv'
  BY DEF BallotRunInv, Types, VerdictInv, Everything, FirstInv, InFirst, ResumeInv,
         InResume, Window, Returned
<1> QED
  BY <1>1, <1>2, <1>3, <1>4, <1>5, <1>6, <1>7, <1>8, <1>9, <1>10 DEF BallotRunInv

\* A cancelled phase closes nothing.
LEMMA CancelKeeps ==
    ASSUME BallotRunInv, Cancel
    PROVE  BallotRunInv'
<1> USE DEF Cancel, MayFail
<1>1. Types'
  <2>1. cur' \in Locals
    BY TypesOf DEF Locals
  <2> QED
    BY <2>1, TypesOf DEF Types, Phases, BallotRunInv
<1>2. WindowInv'
  BY DEF BallotRunInv, Types, Locals, WindowInv, Window, Returned
<1>3. RouteInv'
  BY DEF BallotRunInv, Types, Locals, RouteInv, FirstOnly, ResumeOnly, Window
<1>4. FirstInv'
  BY DEF BallotRunInv, Types, Locals, FirstInv, InFirst, Returned, RouteInv
<1>5. ResumeInv'
  BY DEF BallotRunInv, Types, Locals, ResumeInv, InResume, Window, Returned, Stamped,
         RouteInv, SegmentInv, OpenInv
<1>6. OpenInv'
  BY DEF BallotRunInv, Types, Locals, OpenInv, Everything, Stamped, Interrupted,
     Stopped,
         windowWasBounded, Dropped, Failed, ResumeInv, InResume, FirstInv, InFirst, Window,
         Returned
<1>7. CloseInv'
  BY DEF BallotRunInv, Types, Locals, CloseInv, AllIn, OpenInv
<1>8. SegmentInv'
  BY DEF BallotRunInv, Types, Locals, SegmentInv, FirstInv, InFirst, ResumeInv,
     InResume,
         Window, Returned
<1>9. MetricsInv'
  BY DEF BallotRunInv, Types, Locals, MetricsInv, FirstInv, InFirst, ResumeInv,
     InResume,
         Window, Returned
<1>10. VerdictInv'
  BY DEF BallotRunInv, Types, Locals, VerdictInv, Everything, FirstInv, InFirst,
     ResumeInv,
         InResume, Window, Returned
<1> QED
  BY <1>1, <1>2, <1>3, <1>4, <1>5, <1>6, <1>7, <1>8, <1>9, <1>10 DEF BallotRunInv

-----------------------------------------------------------------------------
(* The end of a window.                                                      *)

\* Ballots not accounted for are counted; when there are none, every failed submission
\* is a replay, and what a window sent is on the chain.
LEMMA DroppedCount ==
    ASSUME BallotRunInv
    PROVE  /\ Dropped \in Nat
           /\ Dropped = 0 => cur.sent \subseteq cur.ok \cup cur.replays
           /\ Dropped = 0 => cur.sent \subseteq chain.ballots
<1>1. Failed \ cur.replays \in SUBSET Ballots
  BY TypesOf DEF Locals, Failed
<1>2. /\ Dropped \in 0..N
      /\ Dropped = 0 => Failed \ cur.replays = {}
  BY <1>1, BallotCount DEF Dropped
<1>3. cur.ok \subseteq chain.ballots /\ cur.replays \subseteq chain.ballots
  BY DEF BallotRunInv, WindowInv
<1> QED
  BY <1>2, <1>3, BallotRunAssumption DEF Failed

\* A window that dispatched all it had and dropped nothing leaves nothing out.
LEMMA NothingMissing ==
    ASSUME BallotRunInv, pc \in Returned, ~cur.stopped, Dropped = 0
    PROVE  Everything
<1>1. /\ Ballots \ cur.pending \subseteq chain.ballots /\ cur.sent = cur.pending
      /\ chain.ballots \subseteq Ballots
  BY TypesOf DEF BallotRunInv, WindowInv, Chains
<1> QED
  BY <1>1, DroppedCount DEF Everything

\* The window is stamped ended only when it was not interrupted.
LEMMA stampWindowEndKeeps ==
    ASSUME BallotRunInv, stampWindowEnd
    PROVE  BallotRunInv'
<1>0. /\ UNCHANGED <<config, chain, wire, files, cur, past>>
      /\ pc = "end" /\ pc' = "segend" /\ chain.status = "open"
      /\ jr' \in Journals /\ jr'.resumed = jr.resumed /\ jr'.segment = jr.segment
      /\ jr'.end = jr.end /\ (cur.broken => jr' = jr)
      /\ ~cur.broken => (jr'.open <=> Interrupted)
  <2>1. Cardinality(cur.ok) \in -1..N
    <3>1. Cardinality(cur.ok) \in 0..N
      BY TypesOf, BallotCount DEF Locals
    <3> QED
      BY <3>1, BallotRunAssumption
  <2>2. chain.status = "open"
    BY StatusOpen DEF stampWindowEnd, Returned
  <2>3. CASE Interrupted
    BY <2>1, <2>2, <2>3, TypesOf DEF stampWindowEnd, StampInWindow,
       BallotsInterrupted, Journals
  <2>4. CASE ~Interrupted
    BY <2>2, <2>4, DroppedCount, TypesOf DEF stampWindowEnd, StampInWindow,
       BallotsEnd, Journals
  <2> QED
    BY <2>3, <2>4
<1>a. ~cur.broken /\ ~Interrupted /\ jr.resumed => Everything
  <2>1. jr.resumed => cur.by = "resume"
    BY <1>0 DEF BallotRunInv, FirstInv, InFirst, Returned
  <2>2. ~Interrupted /\ cur.by = "resume" => ~cur.stopped /\ Dropped = 0
    BY DroppedCount DEF Interrupted, Stopped
  <2> QED
    BY <1>0, <2>1, <2>2, NothingMissing DEF Returned
<1>b. Interrupted' <=> Interrupted
  BY <1>0 DEF Interrupted, Stopped, windowWasBounded, Dropped, Failed
<1>c. Everything' <=> Everything
  BY <1>0 DEF Everything
<1>1. Types'
  BY TypesOf, <1>0 DEF Types, Phases, BallotRunInv
<1>2. WindowInv'
  BY <1>0 DEF BallotRunInv, Types, WindowInv, Window, Returned
<1>3. RouteInv'
  BY <1>0 DEF BallotRunInv, Types, RouteInv, FirstOnly, ResumeOnly, Window
<1>4. FirstInv'
  BY <1>0 DEF BallotRunInv, Types, FirstInv, InFirst, Returned, RouteInv
<1>5. ResumeInv'
  BY <1>0 DEF BallotRunInv, Types, ResumeInv, InResume, Window, Returned, Stamped,
         RouteInv, SegmentInv, OpenInv
<1>6. OpenInv'
  BY <1>0, <1>a, <1>b, <1>c DEF BallotRunInv, OpenInv, Stamped
<1>7. CloseInv'
  BY <1>0 DEF BallotRunInv, Types, CloseInv, AllIn, OpenInv
<1>8. SegmentInv'
  BY <1>0 DEF BallotRunInv, Types, SegmentInv, FirstInv, InFirst, ResumeInv, InResume,
         Window, Returned
<1>9. MetricsInv'
  BY <1>0 DEF BallotRunInv, Types, MetricsInv, FirstInv, InFirst, ResumeInv, InResume,
         Window, Returned
<1>10. VerdictInv'
  BY <1>0 DEF BallotRunInv, Types, VerdictInv, Everything, FirstInv, InFirst, ResumeInv,
         InResume, Window, Returned
<1> QED
  BY <1>1, <1>2, <1>3, <1>4, <1>5, <1>6, <1>7, <1>8, <1>9, <1>10 DEF BallotRunInv

\* The segment is counted.
LEMMA stampSegmentEndKeeps ==
    ASSUME BallotRunInv, stampSegmentEnd
    PROVE  BallotRunInv'
<1>0. /\ UNCHANGED <<config, chain, wire, files, cur, past>>
      /\ pc = "segend" /\ pc' = (IF cur.by = "resume" THEN "rEnd" ELSE "metrics")
      /\ jr' \in Journals /\ jr'.resumed = jr.resumed /\ jr'.segment = jr.segment
      /\ jr'.end = jr.end /\ jr'.open = jr.open
  BY TypesOf DEF stampSegmentEnd, StampInWindow, SegmentEnd, Journals
<1>b. Interrupted' <=> Interrupted
  BY <1>0 DEF Interrupted, Stopped, windowWasBounded, Dropped, Failed
<1>1. Types'
  BY TypesOf, <1>0 DEF Types, Phases, BallotRunInv
<1>2. WindowInv'
  BY <1>0 DEF BallotRunInv, Types, WindowInv, Window, Returned
<1>3. RouteInv'
  BY <1>0 DEF BallotRunInv, Types, RouteInv, FirstOnly, ResumeOnly, Window
<1>4. FirstInv'
  BY <1>0 DEF BallotRunInv, Types, FirstInv, InFirst, Returned, RouteInv
<1>5. ResumeInv'
  BY <1>0 DEF BallotRunInv, Types, ResumeInv, InResume, Window, Returned, Stamped,
         RouteInv, SegmentInv, OpenInv
<1>6. OpenInv'
  BY <1>0, <1>b DEF BallotRunInv, OpenInv, Stamped, Everything
<1>7. CloseInv'
  BY <1>0 DEF BallotRunInv, Types, CloseInv, AllIn, OpenInv
<1>8. SegmentInv'
  BY <1>0 DEF BallotRunInv, Types, SegmentInv, FirstInv, InFirst, ResumeInv, InResume,
         Window, Returned
<1>9. MetricsInv'
  BY <1>0 DEF BallotRunInv, Types, MetricsInv, FirstInv, InFirst, ResumeInv, InResume,
         Window, Returned
<1>10. VerdictInv'
  BY <1>0 DEF BallotRunInv, Types, VerdictInv, Everything, FirstInv, InFirst, ResumeInv,
         InResume, Window, Returned
<1> QED
  BY <1>1, <1>2, <1>3, <1>4, <1>5, <1>6, <1>7, <1>8, <1>9, <1>10 DEF BallotRunInv

\* A window whose results cannot be kept leaves the record as it is.
LEMMA WindowLostKeeps ==
    ASSUME BallotRunInv, WindowLost, UNCHANGED <<config, chain, wire, files, past>>
    PROVE  BallotRunInv'
BY IdleKeeps, ReturnStands, StillStands, TypesOf DEF WindowLost

\* The metrics of a first window say what it did.
LEMMA writeSubmitMetricsKeeps ==
    ASSUME BallotRunInv, writeSubmitMetrics
    PROVE  BallotRunInv'
<1>a. CASE WindowLost /\ UNCHANGED files
  BY <1>a, WindowLostKeeps DEF writeSubmitMetrics
<1> DEFINE m == [have |-> TRUE, submitted |-> Cardinality(cur.sent),
                 committed |-> Cardinality(cur.ok), dropped |-> Dropped,
                 stopped |-> Stopped, bounded |-> windowWasBounded,
                 journalError |-> FALSE]
<1>b. CASE files' = [files EXCEPT !.metrics = m] /\ pc' = "jerr" /\ UNCHANGED <<jr, cur, reply>>
  <2>0. /\ UNCHANGED <<config, chain, wire, jr, cur, past>> /\ pc = "metrics" /\ pc' = "jerr"
    BY <1>b DEF writeSubmitMetrics
  <2>a. /\ cur.by # "resume" /\ chain.status = "open" /\ past.dispatched = cur.sent
        /\ ~jr.resumed /\ jr.end.failed /\ ~jr.end.sustained /\ past.used = {0}
        /\ past.windows = 1 /\ (cur.broken => past.broke)
    BY <2>0 DEF BallotRunInv, RouteInv, FirstOnly, FirstInv, InFirst, Returned,
       WindowInv
  <2>b. /\ Cardinality(cur.sent) \in 0..N /\ Cardinality(cur.ok) \in 0..N
        /\ cur.ok \in SUBSET Ballots /\ chain.ballots \in SUBSET Ballots
    BY TypesOf, BallotCount DEF Locals, Chains
  <2>c. Stopped \in BOOLEAN /\ windowWasBounded \in BOOLEAN
    BY TypesOf DEF Stopped, windowWasBounded, Locals
  <2>d. /\ files' \in Folders /\ files'.metrics.have = TRUE
        /\ files'.metrics.submitted = Cardinality(cur.sent)
        /\ files'.metrics.committed = Cardinality(cur.ok)
        /\ files'.metrics.stopped = Stopped /\ files'.metrics.bounded = windowWasBounded
    <3>1. m \in Metrics
      BY <2>b, <2>c, DroppedCount DEF Metrics
    <3>2. files' = [files EXCEPT !.metrics = m]
      BY <1>b
    <3>3. files' \in Folders /\ files'.metrics = m
      <4> HIDE DEF m
      <4> QED
        BY <3>1, <3>2, TypesOf DEF Folders
    <3> QED
      BY <3>3
  <2> HIDE DEF m
  <2>1. Types'
    BY <2>0, <2>d, TypesOf DEF Types, Phases, BallotRunInv
  <2>2. WindowInv' /\ RouteInv'
    BY <2>0 DEF WindowInv, RouteInv, Window, Returned, FirstOnly, ResumeOnly,
       BallotRunInv
  <2>3. FirstInv' /\ ResumeInv'
    BY <2>0, <2>a DEF FirstInv, ResumeInv, InFirst, InResume
  <2>4. Interrupted' <=> Interrupted
    BY <2>0 DEF Interrupted, Stopped, windowWasBounded, Dropped, Failed
  <2>5. OpenInv' /\ CloseInv'
    BY <2>0, <2>4 DEF OpenInv, CloseInv, Stamped, Everything, AllIn, BallotRunInv
  <2>6. SegmentInv' /\ VerdictInv'
    BY <2>0, <2>a DEF SegmentInv, VerdictInv, BallotRunInv
  <2>7. ~past.broke /\ ~Interrupted => ~jr.open
    BY <2>0, <2>a DEF BallotRunInv, OpenInv, Stamped
  <2>8. /\ windowWasBounded => /\ config.bounded /\ ~Interrupted
                               /\ past.dispatched \subseteq chain.ballots
        /\ ~Stopped => ~Interrupted
    BY <2>a, DroppedCount DEF windowWasBounded, Interrupted
  <2>9. Cardinality(cur.ok) <= Cardinality(chain.ballots)
    BY <2>b, CountGrows DEF BallotRunInv, WindowInv
  <2>10. MetricsInv'
    BY <2>0, <2>a, <2>b, <2>d, <2>7, <2>8, <2>9 DEF MetricsInv
  <2> QED
    BY <2>1, <2>2, <2>3, <2>5, <2>6, <2>10 DEF BallotRunInv
<1> QED
  BY <1>a, <1>b DEF writeSubmitMetrics

\* Only a window that left nothing out goes on to the close, unless it was cancelled,
\* and then the close itself refuses.
LEMMA recordJournalErrorKeeps ==
    ASSUME BallotRunInv, recordJournalError
    PROVE  BallotRunInv'
<1>0. UNCHANGED <<config, chain, wire, past>> /\ pc = "jerr"
  BY DEF recordJournalError
<1>1. FilesStand
  <2>1. CASE cur.broken /\ files.metrics.have
    <3> DEFINE m == [files.metrics EXCEPT !.journalError = TRUE]
    <3>1. /\ m \in Metrics /\ m.have = files.metrics.have
          /\ m.submitted = files.metrics.submitted /\ m.committed = files.metrics.committed
          /\ m.stopped = files.metrics.stopped /\ m.bounded = files.metrics.bounded
      BY TypesOf DEF Folders, Metrics
    <3>2. files' = [files EXCEPT !.metrics = m]
      BY <2>1 DEF recordJournalError
    <3>3. files' \in Folders /\ files'.metrics = m
      <4> HIDE DEF m
      <4> QED
        BY <3>1, <3>2, TypesOf DEF Folders
    <3> QED
      BY <3>1, <3>3 DEF FilesStand
  <2>2. CASE ~(cur.broken /\ files.metrics.have)
    BY <2>2, StillStands DEF recordJournalError
  <2> QED
    BY <2>1, <2>2
<1>a. CASE WindowFails
  BY <1>0, <1>1, <1>a, IdleKeeps, ReturnStands, StillStands, TypesOf DEF
     recordJournalError
<1>b. CASE ~WindowFails
  <2>0. /\ UNCHANGED <<config, chain, wire, past, jr, cur, files>> /\ pc' = "close"
        /\ ~cur.broken /\ Dropped = 0
        /\ cur.by = "resume" => ~cur.cancelled
    BY <1>b, DroppedCount DEF recordJournalError, WindowFails
  <2>a. /\ cur.stopped => cur.cancelled \/ (config.bounded /\ cur.by # "resume")
        /\ (Stopped <=> cur.stopped)
        /\ cur.by # "resume" => past.dispatched = cur.sent
        /\ past.dispatched \subseteq Ballots
        /\ ~Interrupted => ~jr.open
    <3>1. cur.stopped => cur.cancelled \/ (config.bounded /\ cur.by # "resume")
      BY DEF BallotRunInv, WindowInv
    <3>2. Stopped <=> cur.stopped
      BY <2>0 DEF Stopped
    <3>3. cur.by # "resume" => past.dispatched = cur.sent
      BY <1>0 DEF BallotRunInv, FirstInv, InFirst, Returned
    <3>4. past.dispatched \subseteq Ballots
      BY TypesOf DEF Pasts
    <3>5. ~Interrupted => ~jr.open
      BY <1>0, <2>0 DEF BallotRunInv, OpenInv, Stamped
    <3> QED
      BY <3>1, <3>2, <3>3, <3>4, <3>5
  <2>b. ~cur.stopped => Everything
    BY <1>0, <2>0, NothingMissing DEF Returned
  <2>c. ~cur.cancelled => ~jr.open /\ AllIn
    <3>1. CASE ~cur.stopped
      <4>1. ~Interrupted
        BY <2>0, <2>a, <3>1 DEF Interrupted
      <4> QED
        BY <2>a, <2>b, <3>1, <4>1 DEF Everything, AllIn
    <3>2. CASE cur.stopped /\ ~cur.cancelled
      <4>1. config.bounded /\ cur.by # "resume"
        BY <2>a, <3>2
      <4>2. ~Interrupted
        BY <2>0, <2>a, <3>2, <4>1 DEF Interrupted, windowWasBounded
      <4>3. past.dispatched \subseteq chain.ballots
        BY <2>0, <2>a, <4>1, DroppedCount
      <4> QED
        BY <2>a, <4>1, <4>2, <4>3 DEF AllIn
    <3> QED
      BY <3>1, <3>2
  <2>1. Types'
    BY <2>0, TypesOf DEF Types, Phases, BallotRunInv
  <2>2. WindowInv' /\ RouteInv'
    BY <2>0 DEF WindowInv, RouteInv, Window, Returned, FirstOnly, ResumeOnly,
       BallotRunInv
  <2>3. FirstInv' /\ ResumeInv'
    BY <2>0 DEF FirstInv, ResumeInv, InFirst, InResume, Window, Returned, BallotRunInv
  <2>4. OpenInv'
    BY <2>0 DEF OpenInv, Stamped, Everything, BallotRunInv
  <2>5. CloseInv'
    BY <2>0, <2>c DEF CloseInv, AllIn, BallotRunInv
  <2>6. SegmentInv' /\ VerdictInv' /\ MetricsInv'
    BY <2>0 DEF SegmentInv, VerdictInv, MetricsInv, Everything, BallotRunInv
  <2> QED
    BY <2>1, <2>2, <2>3, <2>4, <2>5, <2>6 DEF BallotRunInv
<1> QED
  BY <1>a, <1>b

-----------------------------------------------------------------------------
(* The close, and after.                                                     *)

\* Between the close and the end of the phase.
LEMMA AfterKeeps ==
    ASSUME BallotRunInv, UNCHANGED <<config, past, wire, cur>>,
           pc' \in {"closePause", "closed", "tally", "ceremony"},
           JournalStands, FilesStand, ChainSteps
    PROVE  BallotRunInv'
<1>1. Types'
  BY TypesOf DEF Types, Phases, BallotRunInv, JournalStands, FilesStand, ChainSteps
<1>2. WindowInv' /\ RouteInv'
  BY DEF WindowInv, RouteInv, Window, Returned, FirstOnly, ResumeOnly, BallotRunInv,
     ChainSteps
<1>3. FirstInv' /\ ResumeInv'
  BY DEF FirstInv, InFirst, ResumeInv, InResume, Window, Returned, BallotRunInv,
         JournalStands, FilesStand, ChainSteps
<1>4. OpenInv'
  BY DEF OpenInv, Everything, Stamped, BallotRunInv, JournalStands, ChainSteps
<1>5. CloseInv'
  BY DEF CloseInv, AllIn, BallotRunInv, JournalStands, ChainSteps
<1>6. SegmentInv'
  BY DEF SegmentInv, BallotRunInv, JournalStands
<1>7. MetricsInv'
  BY TypesOf DEF MetricsInv, BallotRunInv, JournalStands, FilesStand, ChainSteps, Chains
<1>8. VerdictInv'
  BY DEF VerdictInv, Everything, BallotRunInv, JournalStands, ChainSteps
<1> QED
  BY <1>1, <1>2, <1>3, <1>4, <1>5, <1>6, <1>7, <1>8 DEF BallotRunInv

\* A failed close ends the phase.
LEMMA CloseFailsStands ==
    ASSUME BallotRunInv, CloseFails
    PROVE  JournalStands /\ pc' = "idle" /\ cur' = NoPhase
<1>1. CASE cur.by # "resume" /\ Return(TRUE)
  BY <1>1, ReturnStands
<1>2. CASE jr' = ResumeClose(FALSE) /\ pc' = "idle" /\ cur' = NoPhase
  <2>1. jr.stageErr \in BOOLEAN
    BY TypesOf DEF Journals
  <2>2. jr' = [jr EXCEPT !.stageErr = jr.stageErr]
    BY <1>2, <2>1 DEF ResumeClose
  <2> QED
    BY <1>2, <2>1, <2>2, TypesOf DEF JournalStands, Journals
<1> QED
  BY <1>1, <1>2 DEF CloseFails

\* The election closes only with everything in.
LEMMA CloseElectionKeeps == ASSUME BallotRunInv, CloseElection PROVE BallotRunInv'
<1> DEFINE closed == [chain EXCEPT !.status = "closed"]
<1>0. pc = "close" /\ UNCHANGED <<config, wire, past>>
  BY DEF CloseElection
<1>1. ~cur.cancelled /\ chain' = closed => ChainSteps
  <2>1. ~cur.cancelled => ~jr.open /\ AllIn
    BY <1>0 DEF BallotRunInv, CloseInv
  <2>2. /\ closed \in Chains /\ closed.status = "closed" /\ closed.ballots = chain.ballots
    BY TypesOf DEF Chains
  <2> HIDE DEF closed
  <2> QED
    BY <2>1, <2>2 DEF ChainSteps
<1>2. CASE CloseFails /\ UNCHANGED files /\ (chain' = chain \/ (~cur.cancelled /\ chain' = closed))
  BY <1>0, <1>1, <1>2, CloseFailsStands, IdleKeeps, StillStands, TypesOf
<1>3. CASE /\ ~cur.cancelled /\ chain' = closed /\ files' = [files EXCEPT !.closeReceipt = TRUE]
           /\ pc' = (IF config.pauseAtClose THEN "closePause" ELSE "closed")
           /\ UNCHANGED <<jr, cur, reply>>
  <2>1. FilesStand
    BY <1>3, TypesOf DEF FilesStand, Folders
  <2> QED
    BY <1>0, <1>1, <1>3, <2>1, AfterKeeps, StillStands
<1>4. CASE pc' = "closed" /\ UNCHANGED <<chain, jr, files, cur, reply>>
  BY <1>0, <1>4, AfterKeeps, StillStands
<1> QED
  BY <1>2, <1>3, <1>4 DEF CloseElection

\* The pause after the close decides nothing about the ballots.
LEMMA EndClosePauseKeeps == ASSUME BallotRunInv, EndClosePause PROVE BallotRunInv'
<1>0. UNCHANGED <<config, chain, wire, files, past>>
  BY DEF EndClosePause
<1>1. CASE cur.cancelled
  BY <1>0, <1>1, CloseFailsStands, IdleKeeps, StillStands, TypesOf DEF EndClosePause
<1>2. CASE ~cur.cancelled
  BY <1>0, <1>2, AfterKeeps, StillStands DEF EndClosePause
<1> QED
  BY <1>1, <1>2

\* The resume's stage is no longer in error.
LEMMA AfterCloseKeeps == ASSUME BallotRunInv, AfterClose PROVE BallotRunInv'
<1>0. /\ UNCHANGED <<config, chain, wire, files, cur, past>>
      /\ pc' \in {"tally", "ceremony"}
      /\ jr' = jr \/ jr' = [jr EXCEPT !.stageErr = FALSE]
  <2>1. jr.stageErr \in BOOLEAN
    BY TypesOf DEF Journals
  <2> QED
    BY <2>1 DEF AfterClose, ResumeClose
<1>1. JournalStands
  BY <1>0, TypesOf DEF JournalStands, Journals
<1> QED
  BY <1>0, <1>1, AfterKeeps, StillStands

\* The tally is published on a closed election.
LEMMA PublishTallyKeeps == ASSUME BallotRunInv, PublishTally PROVE BallotRunInv'
<1> DEFINE tallied == [chain EXCEPT !.tally = TRUE]
<1>1. chain' = tallied => ChainSteps
  BY TypesOf DEF ChainSteps, Chains
<1> HIDE DEF tallied
<1>2. CASE StepFails(FALSE, tallied)
  BY <1>1, <1>2, StepFailsKeeps
<1>3. CASE chain' = tallied /\ Return(FALSE) /\ UNCHANGED <<config, wire, files, faults, past>>
  BY <1>1, <1>3, IdleKeeps, ReturnStands, StillStands, TypesOf
<1> QED
  BY <1>2, <1>3 DEF PublishTally, tallied

\* ceremony.json is written, or not, and the phase ends.
LEMMA WriteCeremonyKeeps == ASSUME BallotRunInv, WriteCeremony PROVE BallotRunInv'
<1>1. FilesStand
  BY TypesOf DEF WriteCeremony, FilesStand, Folders
<1>2. /\ UNCHANGED <<config, chain, wire, past>>
      /\ Return(TRUE) \/ Return(FALSE)
  BY DEF WriteCeremony
<1> QED
  BY <1>1, <1>2, IdleKeeps, ReturnStands, StillStands, TypesOf

-----------------------------------------------------------------------------
(* Resume.                                                                   *)

\* A resume starts only over an open window, or to close an election that has
\* everything.
LEMMA ResumeKeeps ==
    ASSUME BallotRunInv, Resume
    PROVE  BallotRunInv'
<1>0. /\ UNCHANGED <<config, chain, wire, jr, files, past>>
      /\ pc = "idle" /\ cur' \in Locals /\ cur'.by = "resume" /\ cur'.segment = jr.segment
      /\ cur'.pending = {} /\ cur'.sent = {} /\ cur'.busy = {} /\ cur'.ok = {}
      /\ cur'.replays = {} /\ cur'.stopped = FALSE /\ cur'.broken = FALSE
      /\ \/ pc' = "close" /\ ~jr.open /\ jr.resumed
         \/ pc' = "rRead" /\ jr.open
      /\ jr.segment \in Nat \ {0}
  <2> DEFINE k == Max({1, jr.segments})
  <2>1. k \in Nat /\ jr.segment \in Nat \ {0}
    BY MaxInSet, TypesOf DEF Journals
  <2>2. /\ UNCHANGED <<config, chain, wire, jr, files, past>> /\ pc = "idle"
        /\ cur' = [Fresh("resume") EXCEPT !.segment = jr.segment, !.segments = k]
        /\ \/ pc' = "close" /\ ~jr.open /\ jr.resumed
           \/ pc' = "rRead" /\ jr.open
    BY DEF Resume, Resumable, CloseOnly
  <2> HIDE DEF k
  <2> QED
    BY <2>1, <2>2 DEF Fresh, NoPhase, Locals
<1>a. past.dispatched \subseteq Ballots
  BY TypesOf DEF Pasts
<1>1. Types'
  BY TypesOf, <1>0 DEF Types, Phases, BallotRunInv
<1>2. WindowInv'
  BY <1>0, FS_EmptySet, BallotRunAssumption DEF BallotRunInv, Types, WindowInv, Window,
         Returned
<1>3. RouteInv'
  BY <1>0 DEF BallotRunInv, Types, RouteInv, FirstOnly, ResumeOnly, Window
<1>4. FirstInv'
  BY <1>0 DEF BallotRunInv, Types, FirstInv, InFirst, Returned, RouteInv
<1>5. ResumeInv'
  BY <1>0 DEF BallotRunInv, Types, ResumeInv, InResume, Window, Returned, Stamped,
         RouteInv, SegmentInv, OpenInv
<1>6. OpenInv'
  BY <1>0 DEF BallotRunInv, Types, OpenInv, Everything, Stamped, Interrupted, Stopped,
         windowWasBounded, Dropped, Failed, ResumeInv, InResume, FirstInv, InFirst, Window,
         Returned
<1>7. CloseInv'
  BY <1>0, <1>a DEF BallotRunInv, Types, CloseInv, AllIn, OpenInv, Everything
<1>8. SegmentInv'
  BY <1>0 DEF BallotRunInv, Types, SegmentInv, FirstInv, InFirst, ResumeInv, InResume,
         Window, Returned
<1>9. MetricsInv'
  BY <1>0 DEF BallotRunInv, Types, MetricsInv, FirstInv, InFirst, ResumeInv, InResume,
         Window, Returned
<1>10. VerdictInv'
  BY <1>0 DEF BallotRunInv, Types, VerdictInv, Everything, FirstInv, InFirst, ResumeInv,
         InResume, Window, Returned
<1> QED
  BY <1>1, <1>2, <1>3, <1>4, <1>5, <1>6, <1>7, <1>8, <1>9, <1>10 DEF BallotRunInv

\* What is pending is what the chain does not hold.
LEMMA ReadCommittedKeeps == ASSUME BallotRunInv, ReadCommitted PROVE BallotRunInv'
<1>0. UNCHANGED <<config, chain, wire, files, past>> /\ pc = "rRead"
  BY DEF ReadCommitted
<1>a. CASE MayFail /\ Return(TRUE)
  BY <1>0, <1>a, IdleKeeps, ReturnStands, StillStands, TypesOf
<1>b. CASE /\ pc' = "rSegment" /\ cur' = [cur EXCEPT !.pending = Ballots \ chain.ballots]
           /\ UNCHANGED <<jr, reply>>
  <2>0. /\ cur.by = "resume" /\ cur.sent = {} /\ cur' \in Locals
        /\ cur'.by = cur.by /\ cur'.segment = cur.segment
        /\ cur'.pending = Ballots \ chain.ballots /\ cur'.sent = cur.sent
        /\ cur'.busy = cur.busy /\ cur'.ok = cur.ok /\ cur'.replays = cur.replays
        /\ cur'.stopped = cur.stopped /\ cur'.fired = cur.fired
        /\ cur'.cancelled = cur.cancelled /\ cur'.broken = cur.broken
    BY <1>0, <1>b, TypesOf DEF BallotRunInv, RouteInv, ResumeOnly, Locals
  <2>1. Types'
    BY <1>0, <1>b, <2>0, TypesOf DEF Types, Phases, BallotRunInv
  <2>2. WindowInv'
    BY <1>0, <1>b, <2>0 DEF WindowInv, Window, Returned, BallotRunInv
  <2>3. RouteInv'
    BY <1>0, <1>b, <2>0 DEF RouteInv, FirstOnly, ResumeOnly, Window, BallotRunInv
  <2>4. FirstInv' /\ ResumeInv'
    BY <1>0, <1>b, <2>0 DEF FirstInv, InFirst, ResumeInv, InResume, Window, Returned,
                            Stamped, BallotRunInv
  <2>5. OpenInv' /\ CloseInv'
    BY <1>0, <1>b, <2>0 DEF OpenInv, CloseInv, Everything, Stamped, AllIn, BallotRunInv
  <2>6. SegmentInv'
    BY <1>0, <1>b DEF SegmentInv, BallotRunInv
  <2>7. MetricsInv' /\ VerdictInv'
    BY <1>0, <1>b DEF MetricsInv, VerdictInv, Everything, BallotRunInv
  <2> QED
    BY <2>1, <2>2, <2>3, <2>4, <2>5, <2>6, <2>7 DEF BallotRunInv
<1> QED
  BY <1>a, <1>b DEF ReadCommitted

\* A failure counts as a replay only if the chain holds the ballot.
LEMMA ClassifyFailuresKeeps ==
    ASSUME BallotRunInv, ClassifyFailures
    PROVE  BallotRunInv'
<1>0. /\ UNCHANGED <<config, chain, wire, jr, files, past>> /\ pc = "replay" /\ pc' = "end"
      /\ cur' \in Locals
      /\ cur'.by = cur.by /\ cur'.segment = cur.segment /\ cur'.pending = cur.pending
      /\ cur'.sent = cur.sent /\ cur'.busy = cur.busy /\ cur'.ok = cur.ok
      /\ cur'.replays = cur'.replays /\ cur'.stopped = cur.stopped
      /\ cur'.fired = cur.fired /\ cur'.cancelled = cur.cancelled
      /\ cur'.broken = cur.broken
      /\ cur'.replays \subseteq cur.sent \ cur.ok /\ cur'.replays \subseteq chain.ballots
      /\ cur.by = "resume"
  <2>1. /\ UNCHANGED <<config, chain, wire, jr, files, past>> /\ pc = "replay" /\ pc' = "end"
        /\ cur' = cur \/ cur' = [cur EXCEPT !.replays = Replays]
    BY DEF ClassifyFailures
  <2>2. /\ Replays \subseteq cur.sent \ cur.ok /\ Replays \subseteq chain.ballots
        /\ Replays \subseteq Ballots
    BY TypesOf DEF Replays, Failed, Chains
  <2>3. /\ cur.replays \subseteq cur.sent \ cur.ok /\ cur.replays \subseteq chain.ballots
        /\ cur.by = "resume"
    BY <2>1 DEF BallotRunInv, WindowInv, RouteInv, ResumeOnly
  <2> QED
    BY <2>1, <2>2, <2>3, TypesOf DEF Locals
<1>1. Types'
  BY TypesOf, <1>0 DEF Types, Phases, BallotRunInv
<1>2. WindowInv'
  BY <1>0 DEF BallotRunInv, Types, WindowInv, Window, Returned
<1>3. RouteInv'
  BY <1>0 DEF BallotRunInv, Types, RouteInv, FirstOnly, ResumeOnly, Window
<1>4. FirstInv'
  BY <1>0 DEF BallotRunInv, Types, FirstInv, InFirst, Returned, RouteInv
<1>5. ResumeInv'
  BY <1>0 DEF BallotRunInv, Types, ResumeInv, InResume, Window, Returned, Stamped,
         RouteInv, SegmentInv, OpenInv
<1>6. OpenInv'
  BY <1>0 DEF BallotRunInv, Types, OpenInv, Everything, Stamped, Interrupted, Stopped,
         windowWasBounded, Dropped, Failed, ResumeInv, InResume, FirstInv, InFirst, Window,
         Returned
<1>7. CloseInv'
  BY <1>0 DEF BallotRunInv, Types, CloseInv, AllIn, OpenInv
<1>8. SegmentInv'
  BY <1>0 DEF BallotRunInv, Types, SegmentInv, FirstInv, InFirst, ResumeInv, InResume,
         Window, Returned
<1>9. MetricsInv'
  BY <1>0 DEF BallotRunInv, Types, MetricsInv, FirstInv, InFirst, ResumeInv, InResume,
         Window, Returned
<1>10. VerdictInv'
  BY <1>0 DEF BallotRunInv, Types, VerdictInv, Everything, FirstInv, InFirst, ResumeInv,
         InResume, Window, Returned
<1> QED
  BY <1>1, <1>2, <1>3, <1>4, <1>5, <1>6, <1>7, <1>8, <1>9, <1>10 DEF BallotRunInv

-----------------------------------------------------------------------------
(* The verdict.                                                              *)

\* What a verdict says: it did not fail only if none of its clauses holds, and the
\* figure is sustained only over one segment that was neither interrupted nor resumed.
LEMMA VerdictSays ==
    ASSUME NEW f, f.stageErr \in BOOLEAN, f.nothingSubmitted \in BOOLEAN, f.dropped \in Nat,
           f.reconciled \in BOOLEAN, f.eNonzero \in BOOLEAN, f.interrupted \in BOOLEAN,
           f.bounded \in BOOLEAN, f.segments \in Nat, f.resumed \in BOOLEAN
    PROVE  /\ Finalise(f) \in Verdicts
           /\ ~Finalise(f).failed =>
                /\ ~f.nothingSubmitted /\ f.dropped = 0 /\ f.reconciled
                /\ f.interrupted => f.bounded
           /\ Finalise(f).sustained => f.segments = 1 /\ ~f.interrupted /\ ~f.resumed
<1>1. /\ runFailed(f) \in Reasons
      /\ runFailed(f) = "" =>
            /\ ~f.nothingSubmitted /\ f.dropped = 0 /\ f.reconciled
            /\ f.interrupted => f.bounded
  BY DEF runFailed, Reasons
<1>2. Sustained(f) \in BOOLEAN /\ (Sustained(f) => f.segments = 1 /\ ~f.interrupted /\ ~f.resumed)
  BY DEF Sustained
<1>3. (runFailed(f) # "") \in BOOLEAN
  OBVIOUS
<1>4. /\ Finalise(f) \in Verdicts /\ (Finalise(f).failed <=> runFailed(f) # "")
      /\ Finalise(f).sustained = Sustained(f)
  BY <1>1, <1>2, <1>3 DEF Finalise, Verdicts, Reasons
<1> QED
  BY <1>1, <1>2, <1>4

\* A resume judges the run by its own window.
LEMMA FinaliseResumeKeeps == ASSUME BallotRunInv, FinaliseResume PROVE BallotRunInv'
<1>0. UNCHANGED <<config, chain, wire, files, past>> /\ pc = "rEnd"
  BY DEF FinaliseResume
<1>a. CASE WindowLost
  BY <1>0, <1>a, WindowLostKeeps
<1>b. CASE /\ StampInWindow(RunEnd(Finalise(resumeFinaliseInput)))
           /\ pc' = "rollUp" /\ UNCHANGED <<cur, reply>>
  <2> DEFINE f == resumeFinaliseInput
             e == Finalise(f)
  <2>1. /\ f.stageErr = cur.broken /\ f.nothingSubmitted = FALSE /\ f.dropped = Dropped
        /\ f.eNonzero = FALSE /\ f.interrupted = cur.stopped /\ f.bounded = FALSE
        /\ f.segments = cur.segments + 1 /\ f.resumed = TRUE
    BY DEF resumeFinaliseInput
  <2>r. f.reconciled \in BOOLEAN
    BY DEF resumeFinaliseInput, Reconcile
  <2>2. cur.broken \in BOOLEAN /\ cur.stopped \in BOOLEAN /\ cur.segments \in Nat
    BY TypesOf DEF Locals
  <2>3. /\ e \in Verdicts /\ ~e.sustained
        /\ ~e.failed => Dropped = 0 /\ ~cur.stopped
    <3> HIDE DEF f
    <3>1. /\ e \in Verdicts
          /\ ~e.failed => f.dropped = 0 /\ (f.interrupted => f.bounded)
          /\ e.sustained => ~f.resumed
      <4>1. /\ f.stageErr \in BOOLEAN /\ f.nothingSubmitted \in BOOLEAN /\ f.dropped \in Nat
            /\ f.eNonzero \in BOOLEAN /\ f.interrupted \in BOOLEAN
            /\ f.bounded \in BOOLEAN /\ f.segments \in Nat /\ f.resumed \in BOOLEAN
        <5>1. f.dropped \in Nat /\ f.segments \in Nat
          <6>1. f.dropped = Dropped /\ f.segments = cur.segments + 1 /\ cur.segments \in Nat
            BY <2>1, <2>2
          <6> QED
            BY <6>1, DroppedCount
        <5>2. /\ f.stageErr \in BOOLEAN /\ f.nothingSubmitted \in BOOLEAN
              /\ f.eNonzero \in BOOLEAN /\ f.interrupted \in BOOLEAN
              /\ f.bounded \in BOOLEAN /\ f.resumed \in BOOLEAN
          BY <2>1, <2>2, Zenon
        <5> QED
          BY <5>1, <5>2, Zenon
      <4> QED
        BY <2>r, <4>1, VerdictSays
    <3> QED
      BY <2>1, <3>1
  <2>4. ~e.failed => Everything
    BY <1>0, <2>3, NothingMissing DEF Returned
  <2> HIDE DEF f, e
  <2>5. /\ jr' \in Journals /\ jr'.open = jr.open /\ jr'.resumed = jr.resumed
        /\ jr'.segment = jr.segment /\ (jr' = jr \/ jr'.end = e)
    <3>1. jr' = jr \/ jr' = [jr EXCEPT !.end = e]
      BY <1>b DEF StampInWindow, RunEnd, e, f
    <3> QED
      BY <2>3, <3>1, TypesOf DEF Journals
  <2>6. /\ UNCHANGED <<config, chain, wire, files, past, cur>> /\ pc' = "rollUp"
        /\ cur.by = "resume" /\ chain.status = "open"
    BY <1>0, <1>b, StatusOpen DEF BallotRunInv, RouteInv, ResumeOnly, Returned
  <2>7. Types'
    BY <2>5, <2>6, TypesOf DEF Types, Phases, BallotRunInv
  <2>8. WindowInv' /\ RouteInv'
    BY <1>0, <2>6 DEF WindowInv, RouteInv, Window, Returned, FirstOnly, ResumeOnly,
       BallotRunInv
  <2>9. FirstInv' /\ ResumeInv'
    BY <1>0, <2>5, <2>6 DEF FirstInv, InFirst, ResumeInv, InResume, Window, Returned,
                            Stamped, BallotRunInv
  <2>10. Interrupted' <=> Interrupted
    BY <2>6 DEF Interrupted, Stopped, windowWasBounded, Dropped, Failed
  <2>11. OpenInv' /\ CloseInv'
    BY <1>0, <2>5, <2>6, <2>10 DEF OpenInv, CloseInv, Stamped, Everything, AllIn,
       BallotRunInv
  <2>12. SegmentInv' /\ MetricsInv'
    BY <2>5, <2>6 DEF SegmentInv, MetricsInv, BallotRunInv
  <2>13. VerdictInv'
    BY <2>3, <2>4, <2>5, <2>6 DEF VerdictInv, Everything, BallotRunInv
  <2> QED
    BY <2>7, <2>8, <2>9, <2>11, <2>12, <2>13 DEF BallotRunInv
<1> QED
  BY <1>a, <1>b DEF FinaliseResume

\* The run's counters after a resume count distinct ballots of the chain.
LEMMA RollUpCount ==
    ASSUME BallotRunInv, pc = "rollUp"
    PROVE  LET already == N - Cardinality(cur.pending)
           IN  /\ already + Cardinality(cur.sent) \in 0..N
               /\ already + OnChain \in 0..N
               /\ already + OnChain <= Cardinality(chain.ballots)
<1> DEFINE rest == Ballots \ cur.pending
           good == cur.ok \cup cur.replays
<1>1. /\ cur.pending \in SUBSET Ballots /\ cur.sent \in SUBSET Ballots
      /\ cur.ok \in SUBSET Ballots /\ cur.replays \in SUBSET Ballots
      /\ chain.ballots \in SUBSET Ballots
  BY TypesOf DEF Locals, Chains
<1>2. /\ rest \subseteq chain.ballots /\ good \subseteq chain.ballots
      /\ good \subseteq cur.sent /\ cur.sent \subseteq cur.pending
      /\ cur.ok \cap cur.replays = {}
  BY DEF BallotRunInv, WindowInv, Returned
<1>3. Cardinality(rest \cup cur.pending) = Cardinality(rest) + Cardinality(cur.pending)
  BY <1>1, CountUnion
<1>4. Cardinality(rest \cup cur.pending) = N
  <2>1. rest \cup cur.pending = Ballots
    BY <1>1
  <2>2. Cardinality(Ballots) = N
    BY BallotCount
  <2> QED
    BY <2>1, <2>2
<1>5. /\ Cardinality(rest) \in 0..N /\ Cardinality(cur.pending) \in 0..N
      /\ Cardinality(cur.sent) \in 0..N /\ Cardinality(chain.ballots) \in 0..N
      /\ Cardinality(good) \in 0..N /\ Cardinality(cur.ok) \in 0..N
      /\ Cardinality(cur.replays) \in 0..N
  BY <1>1, BallotCount
<1>6. Cardinality(good) = OnChain
  BY <1>1, <1>2, CountUnion DEF OnChain
<1>7. Cardinality(cur.sent) <= Cardinality(cur.pending)
  BY <1>1, <1>2, CountGrows
<1>8. Cardinality(rest \cup good) = Cardinality(rest) + Cardinality(good)
  BY <1>1, <1>2, CountUnion
<1>9. Cardinality(rest \cup good) <= Cardinality(chain.ballots)
  BY <1>1, <1>2, CountGrows
<1> HIDE DEF rest, good
<1>10. N \in Nat /\ N - Cardinality(cur.pending) = Cardinality(rest)
  BY <1>3, <1>4, <1>5, BallotRunAssumption
<1>11. Cardinality(rest) + OnChain <= Cardinality(chain.ballots) /\ OnChain \in Nat
  BY <1>5, <1>6, <1>8, <1>9
<1>12. Cardinality(rest) + Cardinality(cur.sent) <= N
  BY <1>3, <1>4, <1>5, <1>7, <1>10
<1> QED
  BY <1>5, <1>10, <1>11, <1>12

\* The metrics file is brought up to the run after a resumed window.
LEMMA rollUpSubmitMetricsKeeps == ASSUME BallotRunInv, rollUpSubmitMetrics PROVE BallotRunInv'
<1>0. /\ UNCHANGED <<config, chain, wire, jr, cur, past>> /\ pc = "rollUp" /\ pc' = "jerr"
      /\ cur.by = "resume" /\ chain.status = "open" /\ (~past.broke => jr.resumed)
  <2>1. UNCHANGED <<config, chain, wire, jr, cur, past>> /\ pc = "rollUp" /\ pc' = "jerr"
    BY DEF rollUpSubmitMetrics
  <2>2. cur.by = "resume"
    BY <2>1 DEF BallotRunInv, RouteInv, ResumeOnly
  <2> QED
    BY <2>1, <2>2 DEF BallotRunInv, ResumeInv, InResume, Returned
<1>1. /\ files' \in Folders /\ files'.metrics.have = files.metrics.have
      /\ files'.metrics.bounded = files.metrics.bounded
      /\ files'.metrics.committed <= Cardinality(chain.ballots)
      /\ ~files.metrics.have => files'.metrics.submitted = files.metrics.submitted
  <2>1. CASE files.metrics.have
    <3> DEFINE s == N - Cardinality(cur.pending) + Cardinality(cur.sent)
               c == N - Cardinality(cur.pending) + OnChain
               d == Dropped
               m == [files.metrics EXCEPT !.submitted = s, !.committed = c,
                                          !.dropped = d, !.stopped = cur.stopped]
    <3>1. /\ s \in 0..N /\ c \in 0..N /\ c <= Cardinality(chain.ballots) /\ d \in Nat
          /\ cur.stopped \in BOOLEAN
      BY <1>0, RollUpCount, DroppedCount, TypesOf DEF Locals
    <3>2. files' = [files EXCEPT !.metrics = m]
      BY <2>1 DEF rollUpSubmitMetrics, rollUp
    <3> HIDE DEF s, c, d
    <3>3. /\ m \in Metrics /\ m.have = files.metrics.have /\ m.committed = c
          /\ m.bounded = files.metrics.bounded
      BY <3>1, TypesOf DEF Folders, Metrics
    <3> HIDE DEF m
    <3>4. files' \in Folders /\ files'.metrics = m
      BY <3>2, <3>3, TypesOf DEF Folders
    <3> QED
      BY <2>1, <3>1, <3>3, <3>4
  <2>2. CASE ~files.metrics.have
    BY <2>2, TypesOf DEF rollUpSubmitMetrics, BallotRunInv, MetricsInv
  <2> QED
    BY <2>1, <2>2
<1>2. Types'
  BY <1>0, <1>1, TypesOf DEF Types, Phases, BallotRunInv
<1>3. WindowInv' /\ RouteInv'
  BY <1>0 DEF WindowInv, RouteInv, Window, Returned, FirstOnly, ResumeOnly, BallotRunInv
<1>4. FirstInv' /\ ResumeInv'
  BY <1>0, <1>1 DEF FirstInv, InFirst, ResumeInv, InResume, Window, Returned,
                    Stamped, BallotRunInv
<1>5. Interrupted' <=> Interrupted
  BY <1>0 DEF Interrupted, Stopped, windowWasBounded, Dropped, Failed
<1>6. OpenInv' /\ CloseInv'
  BY <1>0, <1>5 DEF OpenInv, CloseInv, Stamped, Everything, AllIn, BallotRunInv
<1>7. SegmentInv' /\ VerdictInv'
  BY <1>0 DEF SegmentInv, VerdictInv, Everything, BallotRunInv
<1>8. MetricsInv'
  BY <1>0, <1>1 DEF MetricsInv, BallotRunInv
<1> QED
  BY <1>2, <1>3, <1>4, <1>6, <1>7, <1>8 DEF BallotRunInv

\* The verify phase passes judgement on what the files and the journal say.
LEMMA VerifyKeeps == ASSUME BallotRunInv, Verify PROVE BallotRunInv'
<1>1. PICK audit \in {"zero", "nonzero", "crashed"} :
        jr' = RunEnd(Finalise(finaliseInput(audit)))
  BY DEF Verify
<1> DEFINE m == files.metrics
           expected == IF m.bounded THEN m.submitted ELSE N
           f == finaliseInput(audit)
           e == Finalise(f)
<1>2. m \in Metrics /\ jr.segments \in Nat /\ jr.stageErr \in BOOLEAN /\ jr.resumed \in BOOLEAN
  BY TypesOf DEF Folders, Journals
<1>3. /\ (f.nothingSubmitted <=> m.submitted = 0) /\ f.dropped = m.dropped
      /\ f.reconciled <=> (m.have => Reconcile(m.submitted, m.committed, expected))
      /\ f.interrupted = m.stopped /\ f.bounded = m.bounded /\ f.resumed = jr.resumed
      /\ f.segments = (IF ~m.have THEN 0 ELSE Max({1, jr.segments}))
  BY DEF finaliseInput
<1>4. /\ f.stageErr \in BOOLEAN /\ f.nothingSubmitted \in BOOLEAN /\ f.dropped \in Nat
      /\ f.reconciled \in BOOLEAN /\ f.eNonzero \in BOOLEAN /\ f.interrupted \in BOOLEAN
      /\ f.bounded \in BOOLEAN /\ f.segments \in Nat /\ f.resumed \in BOOLEAN
  <2>1. Max({1, jr.segments}) \in Nat
    BY <1>2, MaxInSet
  <2>2. /\ f.stageErr \in BOOLEAN /\ f.nothingSubmitted \in BOOLEAN
        /\ f.reconciled \in BOOLEAN /\ f.eNonzero \in BOOLEAN
    BY DEF finaliseInput
  <2> HIDE DEF f
  <2> QED
    BY <1>2, <1>3, <2>1, <2>2 DEF Metrics
<1>5. /\ e \in Verdicts
      /\ ~e.failed => m.submitted # 0 /\ (m.have => m.committed = expected)
      /\ e.sustained => m.have /\ ~m.stopped /\ ~jr.resumed
  <2> HIDE DEF f
  <2>1. /\ e \in Verdicts
        /\ ~e.failed => ~f.nothingSubmitted /\ f.reconciled
        /\ e.sustained => f.segments = 1 /\ ~f.interrupted /\ ~f.resumed
    BY <1>4, VerdictSays
  <2> QED
    BY <1>3, <2>1 DEF Reconcile
<1> HIDE DEF e, f
<1>6. /\ UNCHANGED <<config, chain, wire, files, pc, cur, past>> /\ pc = "idle"
      /\ jr' = [jr EXCEPT !.end = e]
  BY <1>1 DEF Verify, RunEnd, e, f
<1>7. /\ jr' \in Journals /\ jr'.open = jr.open /\ jr'.resumed = jr.resumed
      /\ jr'.segment = jr.segment /\ jr'.end = e
  BY <1>5, <1>6, TypesOf DEF Journals
<1>8. Types'
  BY <1>6, <1>7, TypesOf DEF Types, Phases, BallotRunInv
<1>9. WindowInv' /\ RouteInv'
  BY <1>6 DEF WindowInv, RouteInv, BallotRunInv
<1>10. FirstInv' /\ ResumeInv'
  <2>1. ~m.have => e.failed /\ ~e.sustained
    BY <1>5, TypesOf DEF BallotRunInv, MetricsInv, Verdicts
  <2> QED
    BY <1>6, <1>7, <2>1 DEF FirstInv, InFirst, ResumeInv, InResume, Window, Returned,
       BallotRunInv
<1>11. OpenInv' /\ CloseInv'
  BY <1>6, <1>7 DEF OpenInv, CloseInv, Stamped, Everything, AllIn, BallotRunInv
<1>12. SegmentInv' /\ MetricsInv'
  BY <1>6, <1>7 DEF SegmentInv, MetricsInv, BallotRunInv
<1>13. VerdictInv'
  <2>1. e.sustained /\ ~past.broke => past.windows = 1 /\ ~jr.open /\ ~jr.resumed
    <3>1. past.windows \in Nat
      BY TypesOf DEF Pasts
    <3> QED
      BY <1>5, <3>1 DEF BallotRunInv, MetricsInv, SegmentInv
  <2>2. ASSUME ~e.failed, config.bounded => ~past.broke
        PROVE  \/ Everything
               \/ /\ config.bounded /\ past.dispatched \subseteq chain.ballots
                  /\ ~jr.open /\ ~jr.resumed
    <3>1. m.have /\ m.committed = expected
      BY <1>5, <2>2 DEF BallotRunInv, MetricsInv
    <3>2. CASE m.bounded
      BY <2>2, <3>2 DEF BallotRunInv, MetricsInv
    <3>3. CASE ~m.bounded
      <4>1. N <= Cardinality(chain.ballots)
        BY <3>1, <3>3 DEF BallotRunInv, MetricsInv
      <4>2. chain.ballots \in SUBSET Ballots
        BY TypesOf DEF Chains
      <4>3. /\ Cardinality(chain.ballots) \in 0..N
            /\ Cardinality(chain.ballots) = N => chain.ballots = Ballots
        BY <4>2, BallotCount
      <4> QED
        BY <4>1, <4>3, BallotRunAssumption DEF Everything
    <3> QED
      BY <3>2, <3>3
  <2> QED
    BY <1>6, <1>7, <2>1, <2>2 DEF VerdictInv, Everything
<1> QED
  BY <1>8, <1>9, <1>10, <1>11, <1>12, <1>13 DEF BallotRunInv

\* The console is killed: what was in flight may still land.
LEMMA CrashKeeps == ASSUME BallotRunInv, Crash PROVE BallotRunInv'
<1>1. wire' \subseteq Ballots
  BY TypesOf DEF Crash, Locals
<1> QED
  BY <1>1, IdleKeeps, StillStands DEF Crash

-----------------------------------------------------------------------------
(* The theorems.                                                             *)

\* A run that has not begun.
LEMMA BallotRunStarts == Init => BallotRunInv
<1> SUFFICES ASSUME Init PROVE BallotRunInv
  OBVIOUS
<1>0. /\ config \in [bounded : BOOLEAN, pauseAtClose : BOOLEAN, peerFault : BOOLEAN]
      /\ chain = [status |-> "none", ballots |-> {}, tally |-> FALSE] /\ wire = {}
      /\ jr = InitJournal /\ pc = "idle" /\ cur = NoPhase /\ past = InitPast
      /\ files = [metrics |-> NoMetrics, closeReceipt |-> FALSE, ceremony |-> FALSE]
  BY BallotRunAssumption DEF Init
<1>1. NoEnd \in Verdicts
  BY DEF NoEnd, Verdicts, Reasons
<1>2. jr \in Journals /\ ~jr.open /\ ~jr.resumed /\ jr.end = NoEnd /\ jr.segment = 1
  <2>1. -1 \in -1..N /\ 0 \in 0..N
    BY BallotRunAssumption
  <2> HIDE DEF NoEnd
  <2> QED
    BY <1>0, <1>1, <2>1 DEF InitJournal, Journals
<1>3. NoMetrics \in Metrics
  <2>1. 0 \in 0..N
    BY BallotRunAssumption
  <2> QED
    BY <2>1 DEF NoMetrics, Metrics
<1>4. files \in Folders /\ files.metrics = NoMetrics
  <2> HIDE DEF NoMetrics
  <2> QED
    BY <1>0, <1>3 DEF Folders
<1>5. Cardinality({}) = 0
  BY FS_EmptySet
<1>6. Types
  BY <1>0, <1>2, <1>4, NoPhaseType DEF Types, Phases, Chains, Pasts, InitPast
<1>7. /\ cur.by = "" /\ cur.segment = 0 /\ cur.pending = {} /\ cur.sent = {}
      /\ cur.busy = {} /\ cur.ok = {} /\ cur.replays = {} /\ cur.stopped = FALSE
      /\ cur.broken = FALSE
  BY <1>0 DEF NoPhase
<1>8. /\ chain.status = "none" /\ chain.ballots = {} /\ past.windows = 0 /\ past.used = {}
      /\ past.reused = FALSE /\ past.dispatched = {}
      /\ jr.end.failed = TRUE /\ jr.end.sustained = FALSE
  <2>1. jr.end.failed = TRUE /\ jr.end.sustained = FALSE
    <3>1. NoEnd.failed = TRUE /\ NoEnd.sustained = FALSE
      BY DEF NoEnd
    <3> QED
      BY <1>2, <3>1
  <2>2. chain.status = "none" /\ chain.ballots = {}
    BY <1>0
  <2> QED
    BY <1>0, <2>1, <2>2 DEF InitPast
<1>9. /\ files.metrics.have = FALSE /\ files.metrics.submitted = 0
      /\ files.metrics.committed = 0 /\ files.metrics.bounded = FALSE
  BY <1>4 DEF NoMetrics
<1>10. WindowInv
  <2>1. pc \notin Window \cup Returned
    BY <1>0 DEF Window, Returned
  <2>2. 0 <= Concurrency
    BY BallotRunAssumption
  <2> QED
    BY <1>5, <1>7, <2>1, <2>2 DEF WindowInv
<1>11. RouteInv
  BY <1>0, <1>7 DEF RouteInv, FirstOnly, ResumeOnly, Window
<1>12. FirstInv /\ ResumeInv
  BY <1>0, <1>2, <1>7, <1>8, <1>9 DEF FirstInv, ResumeInv, InFirst, InResume, Returned
<1>13. OpenInv /\ CloseInv
  BY <1>0, <1>2, <1>8 DEF OpenInv, CloseInv, Stamped
<1>14. SegmentInv /\ MetricsInv /\ VerdictInv
  BY <1>2, <1>5, <1>8, <1>9 DEF SegmentInv, MetricsInv, VerdictInv
<1> QED
  BY <1>6, <1>10, <1>11, <1>12, <1>13, <1>14 DEF BallotRunInv

\* A step that changes nothing.
LEMMA StutterKeeps == ASSUME BallotRunInv, UNCHANGED vars PROVE BallotRunInv'
<1>1. UNCHANGED <<config, chain, wire, jr, files, pc, cur, past>>
  BY DEF vars
<1>2. Types' /\ WindowInv' /\ RouteInv'
  BY <1>1 DEF BallotRunInv, Types, WindowInv, RouteInv
<1>3. FirstInv' /\ ResumeInv'
  BY <1>1 DEF BallotRunInv, FirstInv, InFirst, ResumeInv, InResume
<1>4. OpenInv' /\ CloseInv'
  BY <1>1 DEF BallotRunInv, OpenInv, CloseInv, Everything, AllIn, Interrupted, Stopped,
              windowWasBounded, Dropped, Failed
<1>5. SegmentInv' /\ MetricsInv' /\ VerdictInv'
  BY <1>1 DEF BallotRunInv, SegmentInv, MetricsInv, VerdictInv, Everything
<1> QED
  BY <1>2, <1>3, <1>4, <1>5 DEF BallotRunInv

\* Every step of the console, the operator or the network preserves the invariant.
LEMMA BallotRunNext == BallotRunInv /\ [Next]_vars => BallotRunInv'
<1> SUFFICES ASSUME BallotRunInv, [Next]_vars PROVE BallotRunInv'
  OBVIOUS
<1>1. CASE UNCHANGED vars
  BY <1>1, StutterKeeps
<1>2. CASE Submit \/ CeremonyStart
  BY <1>2, BeginStageKeeps DEF Submit, CeremonyStart
<1>3. CASE Resume \/ Verify
  BY <1>3, ResumeKeeps, VerifyKeeps
<1>4. CASE CreateElection \/ PublishDKGTranscript
  BY <1>4, CreateElectionKeeps, PublishDKGTranscriptKeeps
<1>5. CASE StampStart \/ StampResumedStart
  BY <1>5, OpenWindowKeeps DEF StampStart, StampResumedStart
<1>6. CASE StampSegmentZero \/ StampResumedSegment
  BY <1>6, StampSegmentKeeps DEF StampSegmentZero, StampResumedSegment
<1>7. CASE Dispatch \/ StopDispatch \/ RunReturns
  BY <1>7, DispatchKeeps, StopDispatchKeeps, RunReturnsKeeps
<1>8. CASE \E b \in Ballots : Commit(b) \/ Refuse(b)
  BY <1>8, CommitKeeps, FailureKeeps
<1>9. CASE stampWindowEnd \/ stampSegmentEnd
  BY <1>9, stampWindowEndKeeps, stampSegmentEndKeeps
<1>10. CASE writeSubmitMetrics \/ recordJournalError
  BY <1>10, writeSubmitMetricsKeeps, recordJournalErrorKeeps
<1>11. CASE CloseElection \/ EndClosePause \/ AfterClose
  BY <1>11, CloseElectionKeeps, EndClosePauseKeeps, AfterCloseKeeps
<1>12. CASE PublishTally \/ WriteCeremony
  BY <1>12, PublishTallyKeeps, WriteCeremonyKeeps
<1>13. CASE ReadCommitted \/ ClassifyFailures
  BY <1>13, ReadCommittedKeeps, ClassifyFailuresKeeps
<1>14. CASE FinaliseResume \/ rollUpSubmitMetrics
  BY <1>14, FinaliseResumeKeeps, rollUpSubmitMetricsKeeps
<1>15. CASE \E b \in Ballots : LoseAnswer(b) \/ ReadFails(b) \/ Land(b) \/ Expire(b)
  BY <1>15, FailureKeeps, LandKeeps, ExpireKeeps
<1>16. CASE FirePeerFault \/ JournalBreaks \/ Cancel \/ Crash
  BY <1>16, FirePeerFaultKeeps, JournalBreaksKeeps, CancelKeeps, CrashKeeps
<1> QED
  BY <1>1, <1>2, <1>3, <1>4, <1>5, <1>6, <1>7, <1>8, <1>9, <1>10, <1>11, <1>12, <1>13,
     <1>14, <1>15, <1>16 DEF Next, Console, Environment

\* The inductive invariant of a run holds throughout: through any number of kills,
\* cancellations, lost answers, I/O errors and resumes.
THEOREM BallotRunInvariant == Spec => []BallotRunInv
BY BallotRunStarts, BallotRunNext, PTL DEF Spec

\* NoneShutOut: CloseElection commits only after every ballot ever dispatched, and in an
\* unbounded run every ballot there is, is on the chain.
THEOREM NobodyShutOut == Spec => []NoneShutOut
<1>1. BallotRunInv => NoneShutOut
  BY DEF BallotRunInv, CloseInv, NoneShutOut
<1> QED
  BY <1>1, BallotRunInvariant, PTL

\* RunRecordTrue: whatever the console wrote about the run is so.  A verdict that it
\* did not fail means that every dispatched ballot is on the chain, a sustained figure
\* comes from one window, segment numbers are not used twice, and the committed count
\* is at most the chain's.
THEOREM RunRecordIsTrue == Spec => []RunRecordTrue
<1>1. BallotRunInv => TypeOK
  <2> SUFFICES ASSUME BallotRunInv PROVE TypeOK
    OBVIOUS
  <2>1. /\ chain.status \in {"none", "open", "closed"} /\ chain.ballots \subseteq Ballots
        /\ wire \subseteq Ballots /\ pc \in Phases
    BY TypesOf DEF Chains
  <2>2. cur.by \in {"", "submit", "ceremony", "resume"} /\ cur.pending \subseteq Ballots
    BY TypesOf DEF Locals
  <2>3. jr.n \in 0..N /\ jr.lastDone \in 0..N /\ jr.committed \in -1..N
    BY TypesOf DEF Journals
  <2>4. files.metrics.committed \in 0..N /\ files.metrics.submitted \in 0..N
    BY TypesOf DEF Folders, Metrics
  <2>5. /\ cur.busy \subseteq cur.sent /\ cur.sent \subseteq cur.pending
        /\ cur.ok \subseteq cur.sent \ cur.busy /\ Cardinality(cur.busy) <= Concurrency
    BY DEF BallotRunInv, WindowInv
  <2> QED
    BY <2>1, <2>2, <2>3, <2>4, <2>5 DEF TypeOK
<1>2. BallotRunInv => VerdictSound
  <2>1. BallotRunInv => past.dispatched \subseteq Ballots
    BY TypesOf DEF Pasts
  <2> QED
    BY <2>1 DEF BallotRunInv, VerdictInv, VerdictSound, Everything, AllIn
<1>3. BallotRunInv => SustainedIsOneWindow /\ SegmentsDistinct /\ CommittedOnChain
  BY DEF BallotRunInv, VerdictInv, SegmentInv, MetricsInv, SustainedIsOneWindow,
         SegmentsDistinct, CommittedOnChain
<1>4. BallotRunInv => RunRecordTrue
  BY <1>1, <1>2, <1>3 DEF RunRecordTrue
<1> QED
  BY <1>4, BallotRunInvariant, PTL

=============================================================================
