------------------------------- MODULE Ceremony --------------------------------
(***************************************************************************)
(* The trustee ceremony of one run (ceremony.go, and its handlers in       *)
(* server.go): after the election is closed each trustee submits its       *)
(* partial decryptions, one per contest, and once enough trustees have     *)
(* done so the tally is published with their signatures.                   *)
(*                                                                         *)
(* Progress is kept in ceremony.json, a file rewritten in place beside the *)
(* chain.  On-chain the chain is the authority and the file a cache that   *)
(* every status request may refresh; offline the file is all there is.     *)
(* HTTP handlers run concurrently with the run's one active phase, and     *)
(* only the writers of the file take a lock.                               *)
(***************************************************************************)
EXTENDS Integers, FiniteSets

CONSTANTS
    NumTrustees,    \* the trustees are 1..NumTrustees
    NumContests,    \* each owns one share per contest, in this order
    Threshold,
    OnChain,        \* the run's mode
    Handlers,       \* HTTP requests being served at once
    MaxFaults,      \* bound: kills, lost or failed calls, read and write errors
    MaxElsewhere    \* bound: shares recorded on the chain by someone else

ASSUME CeremonyAssumption ==
    /\ NumTrustees \in Nat \ {0} /\ NumContests \in Nat \ {0}
    /\ Threshold \in 1..NumTrustees /\ OnChain \in BOOLEAN
    /\ MaxFaults \in Nat /\ MaxElsewhere \in Nat
    /\ "phase" \notin Handlers /\ "nobody" \notin Handlers

Trustees == 1..NumTrustees
Contests == 1..NumContests
Phase == "phase"
Procs == Handlers \cup {Phase}
Nobody == "nobody"

VARIABLES
    chain,      \* the election's status, its shares, and the tally's signers
    wire,       \* transactions whose answer was lost and which may still commit
    disk,       \* bundle.json, the CloseElection receipt, and ceremony.json
    lock,       \* ceremonyMu
    at, loc,    \* each goroutine's place and locals
    submitting, \* the trustee whose submit phase runs, 0 if none
    submitErr,  \* the trustees whose last submit phase failed
    budget,     \* faults and foreign shares so far
    past        \* history, see InitPast

vars == <<chain, wire, disk, lock, at, loc, submitting, submitErr, budget, past>>

\* What ceremony.json holds; a torn one was truncated and never completed.
NoFile == [kind |-> "none", submitted |-> {}, published |-> FALSE]
Torn == [NoFile EXCEPT !.kind = "torn"]
File(submitted, published) == [kind |-> "ok", submitted |-> submitted, published |-> published]

\* The last two are history: the trustees already on the chain when a poll came in,
\* and whether one of its reads failed.
Idle ==
    [job |-> "", who |-> 0, submitted |-> {}, published |-> FALSE, ready |-> FALSE,
     left |-> {}, seen |-> {}, op |-> "", next |-> NoFile, contest |-> 1, failed |-> FALSE,
     since |-> {}, blind |-> FALSE]

\* The trustees that ever contributed, whether CeremonyStart or a resume got as far
\* as recording the close, and all that ceremony.json recorded since a rewrite of it
\* last failed to read it or was cut short.
InitPast == [acted |-> {}, closed |-> FALSE, kept |-> NoFile]

Init ==
    /\ chain = [status |-> "absent", tallied |-> FALSE, signers |-> {},
                share |-> [t \in Trustees |-> [c \in Contests |-> "none"]]]
    /\ wire = [shares |-> {}, tallies |-> {}]
    /\ disk = [bundle |-> "none", receipt |-> FALSE, file |-> NoFile]
    /\ lock = Nobody
    /\ at = [p \in Procs |-> "idle"] /\ loc = [p \in Procs |-> Idle]
    /\ submitting = 0 /\ submitErr = {}
    /\ budget = [faults |-> 0, elsewhere |-> 0]
    /\ past = InitPast

-----------------------------------------------------------------------------
Fault ==
    /\ budget.faults < MaxFaults
    /\ budget' = [budget EXCEPT !.faults = @ + 1]

\* A goroutine moves on, with new locals.
Go(p, place, locals) ==
    /\ at' = [at EXCEPT ![p] = place]
    /\ loc' = [loc EXCEPT ![p] = locals]

Return(p) == Go(p, "idle", Idle)

\* The phase is over; End settles its outcome.
Fail(p) == Go(p, "end", [loc[p] EXCEPT !.failed = TRUE])

Holds(t) == \A c \in Contests : chain.share[t][c] = "ours"

Complete == {t \in Trustees : Holds(t)}

\* readBundle parses bundle.json.
Bundled == disk.bundle = "whole"

Unlocked_OffByOne(submitted) == Cardinality(submitted) + 1 >= Threshold
Unlocked(submitted) == Cardinality(submitted) >= Threshold

-----------------------------------------------------------------------------
(* A request: a status poll, or an operation, which first asks for the      *)
(* status (submit, publish) or only claims the run (start, resume).          *)

Poll(h) ==
    /\ at[h] = "idle"
    /\ Go(h, "read", [Idle EXCEPT !.job = "poll", !.since = Complete])
    /\ UNCHANGED <<chain, wire, disk, lock, submitting, submitErr, budget, past>>

handleCeremonyStart(h) ==
    /\ at[h] = "idle"
    /\ Go(h, "claim", [Idle EXCEPT !.job = "start"])
    /\ UNCHANGED <<chain, wire, disk, lock, submitting, submitErr, budget, past>>

\* What planResume asks of the journal is BallotRun's; of the close it asks that
\* neither ceremony.json nor the receipt records it.
handleResume(h) ==
    /\ at[h] = "idle"
    /\ OnChain /\ chain.status # "absent"
    /\ ~disk.receipt /\ disk.file.kind = "none"
    /\ Go(h, "claim", [Idle EXCEPT !.job = "resume"])
    /\ UNCHANGED <<chain, wire, disk, lock, submitting, submitErr, budget, past>>

\* A second click on a trustee whose shares are being recorded is refused.
handleCeremonySubmit(h, t) ==
    /\ at[h] = "idle"
    /\ submitting # t
    /\ Go(h, "read", [Idle EXCEPT !.job = "submit", !.who = t])
    /\ UNCHANGED <<chain, wire, disk, lock, submitting, submitErr, budget, past>>

handleCeremonyPublish(h) ==
    /\ at[h] = "idle"
    /\ Go(h, "read", [Idle EXCEPT !.job = "publish"])
    /\ UNCHANGED <<chain, wire, disk, lock, submitting, submitErr, budget, past>>

-----------------------------------------------------------------------------
(* CeremonyStatus.                                                          *)

\* readCeremony, without the lock: a file caught between truncation and rewrite, or
\* whose read fails, reads as a fresh roster.
readCeremony(p) ==
    /\ at[p] = "read"
    /\ \E f \in {disk.file, NoFile} :
        /\ Go(p, "stat", [loc[p] EXCEPT !.submitted = f.submitted, !.published = f.published,
                                        !.ready = f.kind = "ok"])
        /\ IF f = disk.file THEN UNCHANGED budget ELSE Fault
    /\ UNCHANGED <<chain, wire, disk, lock, submitting, submitErr, past>>

StatFile_ProbesWhenRecorded(p) ==
    LET l == [loc[p] EXCEPT !.ready = Bundled /\ (@ \/ disk.file.kind # "none"),
                            !.left = IF loc[p].ready /\ OnChain
                                     THEN Trustees \ loc[p].submitted ELSE {}]
    IN
    /\ at[p] = "stat"
    /\ Go(p, IF loc[p].ready /\ OnChain THEN "probe" ELSE "answer", l)
    /\ UNCHANGED <<chain, wire, disk, lock, submitting, submitErr, budget, past>>

\* Ready needs the bundle, and the close recorded in the file or by its presence.
\* On-chain, the trustees not recorded yet are looked up; without a connection the
\* local view stands.
StatFile(p) ==
    LET l == [loc[p] EXCEPT !.ready = Bundled /\ (@ \/ disk.file.kind # "none"),
                            !.left = IF Bundled /\ OnChain
                                     THEN Trustees \ loc[p].submitted ELSE {}]
    IN
    /\ at[p] = "stat"
    /\ \/ /\ Go(p, IF Bundled /\ OnChain THEN "probe" ELSE "answer", l)
          /\ UNCHANGED budget
       \/ /\ Bundled /\ OnChain
          /\ Fault
          /\ Go(p, "answer", [l EXCEPT !.left = {}, !.blind = TRUE])
    /\ UNCHANGED <<chain, wire, disk, lock, submitting, submitErr, past>>

ProbeHolds_Any(t) == \E c \in Contests : chain.share[t][c] = "ours"

\* refreshFromChain, one trustee: it counts when every share of it on the chain has
\* the bundle's bytes.  A read that fails counts as a share that is not there.
ProbeHolds(t) == Holds(t)

ProbeTrustee(p) ==
    /\ at[p] = "probe"
    /\ \E t \in loc[p].left :
        LET l == [loc[p] EXCEPT !.left = @ \ {t}]
        IN
        /\ \A u \in loc[p].left : t <= u
        /\ \/ /\ IF ProbeHolds(t)
                 THEN Go(p, "probe", [l EXCEPT !.submitted = @ \cup {t}, !.seen = @ \cup {t}])
                 ELSE Go(p, "probe", l)
              /\ UNCHANGED budget
           \/ Fault /\ Go(p, "probe", [l EXCEPT !.blind = TRUE])
    /\ UNCHANGED <<chain, wire, disk, lock, submitting, submitErr, past>>

\* refreshFromChain, the tally; what was newly seen is to be recorded.
ProbeTally(p) ==
    LET place == IF loc[p].seen = {} THEN "answer" ELSE "lock"
        l == [loc[p] EXCEPT !.op = IF loc[p].seen = {} THEN "" ELSE "record"]
    IN
    /\ at[p] = "probe" /\ loc[p].left = {}
    /\ \/ Go(p, place, [l EXCEPT !.published = @ \/ chain.tallied]) /\ UNCHANGED budget
       \/ Fault /\ Go(p, place, [l EXCEPT !.blind = TRUE])
    /\ UNCHANGED <<chain, wire, disk, lock, submitting, submitErr, past>>

\* The handler of a poll answers with what it found.
handleCeremonyStatus(h) ==
    /\ at[h] = "answer" /\ loc[h].job = "poll"
    /\ Return(h)
    /\ UNCHANGED <<chain, wire, disk, lock, submitting, submitErr, budget, past>>

\* The handler of an operation goes on to claim the run, or refuses.
AnswerOperation(h) ==
    LET allowed == IF loc[h].job = "submit" THEN loc[h].ready ELSE Unlocked(loc[h].submitted)
    IN
    /\ at[h] = "answer" /\ h # Phase /\ loc[h].job \in {"submit", "publish"}
    /\ IF allowed THEN Go(h, "claim", [Idle EXCEPT !.job = loc[h].job, !.who = loc[h].who])
       ELSE Return(h)
    /\ UNCHANGED <<chain, wire, disk, lock, submitting, submitErr, budget, past>>

\* dispatchClaimed: one phase per run.  A submit is marked before the phase starts.
ClaimRun(h) ==
    LET first == CASE loc[h].job = "start" -> "bundle"
                   [] loc[h].job = "resume" -> "close"
                   [] loc[h].job = "submit" -> "share"
                   [] loc[h].job = "publish" -> "read"
        l == [Idle EXCEPT !.job = loc[h].job, !.who = loc[h].who]
    IN
    /\ at[h] = "claim" /\ at[Phase] = "idle"
    /\ at' = [at EXCEPT ![h] = "idle", ![Phase] = first]
    /\ loc' = [loc EXCEPT ![h] = Idle, ![Phase] = l]
    /\ IF loc[h].job = "submit"
       THEN submitting' = loc[h].who /\ submitErr' = submitErr \ {loc[h].who}
       ELSE UNCHANGED <<submitting, submitErr>>
    /\ UNCHANGED <<chain, wire, disk, lock, budget, past>>

ClaimRefused(h) ==
    /\ at[h] = "claim" /\ at[Phase] # "idle"
    /\ Return(h)
    /\ UNCHANGED <<chain, wire, disk, lock, submitting, submitErr, budget, past>>

-----------------------------------------------------------------------------
(* Rewriting ceremony.json under ceremonyMu: read it, truncate it, write    *)
(* it.  op is the writer: "record" recordChainSubmitted, "submitted"        *)
(* markSubmitted, "published" markPublished, "closed" writeCeremony.        *)

\* What the writer makes of the record f it reads.
Rewritten(p, f) ==
    File(CASE loc[p].op = "record" -> f.submitted \cup loc[p].seen
           [] loc[p].op = "submitted" -> f.submitted \cup {loc[p].who}
           [] OTHER -> f.submitted,
         f.published \/ loc[p].op = "published")

\* Only a close creates the file: the others do nothing without it.
NeedsFile(op) == op \in {"record", "submitted"}

LockFile_NoLock(p) ==
    /\ at[p] = "lock"
    /\ IF NeedsFile(loc[p].op) /\ disk.file.kind = "none"
       THEN IF loc[p].op = "record" THEN Go(p, "answer", loc[p]) ELSE Fail(p)
       ELSE Go(p, "truncate", [loc[p] EXCEPT !.next = Rewritten(p, disk.file)])
    /\ UNCHANGED <<chain, wire, disk, lock, submitting, submitErr, budget, past>>

\* A writer whose read of the record fails goes on from a fresh one.
LockFile(p) ==
    /\ at[p] = "lock" /\ lock = Nobody
    /\ \/ /\ NeedsFile(loc[p].op) /\ disk.file.kind = "none"
          /\ IF loc[p].op = "record" THEN Go(p, "answer", loc[p]) ELSE Fail(p)
          /\ UNCHANGED <<lock, budget, past>>
       \/ /\ ~(NeedsFile(loc[p].op) /\ disk.file.kind = "none")
          /\ \E f \in {disk.file, NoFile} :
               /\ Go(p, "truncate", [loc[p] EXCEPT !.next = Rewritten(p, f)])
               /\ IF f = disk.file THEN UNCHANGED <<budget, past>>
                  ELSE Fault /\ past' = [past EXCEPT !.kept = NoFile]
          /\ lock' = p
    /\ UNCHANGED <<chain, wire, disk, submitting, submitErr>>

WriteFailed_StillLocked(p) ==
    /\ Fault
    /\ UNCHANGED lock
    /\ IF loc[p].op = "record" THEN Go(p, "answer", loc[p]) ELSE Fail(p)

\* A write that fails is an error to a phase and nothing to a status request.
WriteFailed(p) ==
    /\ Fault
    /\ lock' = Nobody
    /\ IF loc[p].op = "record" THEN Go(p, "answer", loc[p]) ELSE Fail(p)

TruncateFile(p) ==
    /\ at[p] = "truncate"
    /\ \/ /\ disk' = [disk EXCEPT !.file = Torn]
          /\ Go(p, "put", loc[p])
          /\ UNCHANGED <<lock, budget>>
       \/ WriteFailed(p) /\ UNCHANGED disk
    /\ UNCHANGED <<chain, wire, submitting, submitErr, past>>

PutFile(p) ==
    /\ at[p] = "put"
    /\ \/ /\ disk' = [disk EXCEPT !.file = loc[p].next]
          /\ past' = [past EXCEPT !.kept = File(@.submitted \cup loc[p].next.submitted,
                                                @.published \/ loc[p].next.published)]
          /\ submitErr' = CASE loc[p].op = "record" -> submitErr \ loc[p].seen
                            [] loc[p].op = "submitted" -> submitErr \ {loc[p].who}
                            [] OTHER -> submitErr
          /\ lock' = Nobody
          /\ Go(p, IF loc[p].op = "record" THEN "answer" ELSE "end", loc[p])
          /\ UNCHANGED budget
       \/ /\ WriteFailed(p)
          /\ past' = [past EXCEPT !.kept = NoFile]
          /\ UNCHANGED <<disk, submitErr>>
    /\ UNCHANGED <<chain, wire, submitting>>

-----------------------------------------------------------------------------
(* The phases.                                                              *)

Write(op) == Go(Phase, "lock", [loc[Phase] EXCEPT !.op = op])

\* CeremonyStart goes on from its bundle.  Offline it also ends here, cancelled or with
\* the record written.
AfterBundle ==
    \/ /\ IF OnChain THEN Go(Phase, "close", loc[Phase]) ELSE Write("closed")
       /\ past' = [past EXCEPT !.closed = @ \/ ~OnChain]
       /\ UNCHANGED budget
    \/ Fault /\ Fail(Phase) /\ UNCHANGED past

\* bundleFrom: a bundle.json that exists is reused, whatever it holds; otherwise it is
\* created, empty, and then filled.
StartBundle ==
    /\ at[Phase] = "bundle"
    /\ \/ disk.bundle # "none" /\ AfterBundle /\ UNCHANGED disk
       \/ /\ disk.bundle = "none"
          /\ disk' = [disk EXCEPT !.bundle = "torn"]
          /\ Go(Phase, "fill", loc[Phase])
          /\ UNCHANGED <<budget, past>>
       \/ disk.bundle = "none" /\ Fault /\ Fail(Phase) /\ UNCHANGED <<disk, past>>
    /\ UNCHANGED <<chain, wire, lock, submitting, submitErr>>

FillBundle ==
    /\ at[Phase] = "fill"
    /\ \/ disk' = [disk EXCEPT !.bundle = "whole"] /\ AfterBundle
       \/ Fault /\ Fail(Phase) /\ UNCHANGED <<disk, past>>
    /\ UNCHANGED <<chain, wire, lock, submitting, submitErr>>

CloseElection_IgnoresFailure ==
    /\ at[Phase] = "close"
    /\ \E s \in {chain.status, "open", "closed"} :
          /\ s # "closed" => budget.faults < MaxFaults
          /\ chain.status = "closed" => s = "closed"
          /\ chain' = [chain EXCEPT !.status = s]
    /\ past' = [past EXCEPT !.closed = TRUE]
    /\ Write("closed")
    /\ UNCHANGED <<wire, disk, lock, submitting, submitErr, budget>>

\* setupOnChain up to CloseElection (its steps are BallotRun's), and the close of a
\* resume.  The setup needs a bundle that parses, and is refused when the election
\* already exists; a close already on the chain is accepted by a resume.  A failure
\* leaves the election open, or closed with or without a receipt.
CloseElection ==
    LET start == loc[Phase].job = "start"
        refused == start /\ (~Bundled \/ chain.status # "absent")
    IN
    /\ at[Phase] = "close"
    /\ \/ /\ ~refused
          /\ chain' = [chain EXCEPT !.status = "closed"]
          /\ disk' = [disk EXCEPT !.receipt = @ \/ chain.status # "closed"]
          /\ past' = [past EXCEPT !.closed = TRUE]
          /\ Write("closed")
          /\ UNCHANGED budget
       \/ refused /\ Fail(Phase) /\ UNCHANGED <<chain, disk, past, budget>>
       \/ /\ ~refused /\ Fault
          /\ \E s \in {chain.status, "open", "closed"}, r \in {disk.receipt, TRUE} :
                /\ chain.status = "closed" => s = "closed"
                /\ r => disk.receipt \/ s = "closed"
                /\ chain' = [chain EXCEPT !.status = s]
                /\ disk' = [disk EXCEPT !.receipt = r]
          /\ Fail(Phase)
          /\ UNCHANGED past
    /\ UNCHANGED <<wire, lock, submitting, submitErr>>

ProbeShare_NoProbe ==
    /\ at[Phase] = "share" /\ OnChain /\ loc[Phase].contest <= NumContests
    /\ Go(Phase, "send", loc[Phase])
    /\ UNCHANGED <<chain, wire, disk, lock, submitting, submitErr, budget, past>>

\* CeremonySubmit, one contest: a share the chain holds is skipped, a different one
\* is an error, and a share that cannot be read is sent.
ProbeShare ==
    LET l == loc[Phase]
        held == chain.share[l.who][l.contest]
    IN
    /\ at[Phase] = "share" /\ OnChain /\ l.contest <= NumContests
    /\ \/ /\ CASE held = "ours" -> Go(Phase, "share", [l EXCEPT !.contest = @ + 1])
               [] held = "foreign" -> Fail(Phase)
               [] OTHER -> Go(Phase, "send", l)
          /\ UNCHANGED budget
       \/ Fault /\ Go(Phase, "send", l)
    /\ UNCHANGED <<chain, wire, disk, lock, submitting, submitErr, past>>

\* The chaincode takes one share per trustee and contest, of a closed election.
SendShare ==
    LET l == loc[Phase]
        accepted == chain.status = "closed" /\ chain.share[l.who][l.contest] = "none"
    IN
    /\ at[Phase] = "send"
    /\ \/ /\ accepted
          /\ chain' = [chain EXCEPT !.share[l.who][l.contest] = "ours"]
          /\ Go(Phase, "share", [l EXCEPT !.contest = @ + 1])
          /\ UNCHANGED <<wire, budget>>
       \/ ~accepted /\ Fail(Phase) /\ UNCHANGED <<chain, wire, budget>>
       \/ /\ Fault /\ Fail(Phase)
          /\ \E w \in SUBSET {<<l.who, l.contest>>} :
                wire' = [wire EXCEPT !.shares = @ \cup (IF accepted THEN w ELSE {})]
          /\ UNCHANGED chain
    /\ UNCHANGED <<disk, lock, submitting, submitErr, past>>

\* The trustee's last share is in place, or the ceremony is local: record it.
SharesDone ==
    /\ at[Phase] = "share" /\ (OnChain => loc[Phase].contest > NumContests)
    /\ past' = [past EXCEPT !.acted = @ \cup {loc[Phase].who}]
    /\ Write("submitted")
    /\ UNCHANGED <<chain, wire, disk, lock, submitting, submitErr, budget>>

\* CeremonyPublish checks the threshold again on its own status.  The local ceremony
\* may be cancelled in its pause.
CheckThreshold ==
    /\ at[Phase] = "answer"
    /\ \/ ~Unlocked(loc[Phase].submitted) /\ Fail(Phase) /\ UNCHANGED budget
       \/ /\ Unlocked(loc[Phase].submitted)
          /\ IF OnChain THEN Go(Phase, "tally", loc[Phase]) ELSE Write("published")
          /\ UNCHANGED budget
       \/ Unlocked(loc[Phase].submitted) /\ Fault /\ Fail(Phase)
    /\ UNCHANGED <<chain, wire, disk, lock, submitting, submitErr, past>>

tallyToPublish_Unfiltered(submitted) == Trustees

\* The bundle's tally is signed by every trustee; the signatures kept are those of
\* the trustees that submitted.
tallyToPublish(submitted) == submitted

PublishAccepts(signers) ==
    /\ chain.status = "closed" /\ ~chain.tallied
    /\ Cardinality(signers) >= Threshold

PublishTally ==
    LET signers == tallyToPublish(loc[Phase].submitted)
        accepted == PublishAccepts(signers)
    IN
    /\ at[Phase] = "tally"
    /\ \/ /\ accepted
          /\ chain' = [chain EXCEPT !.tallied = TRUE, !.signers = signers]
          /\ Write("published")
          /\ UNCHANGED <<wire, budget>>
       \/ ~accepted /\ Fail(Phase) /\ UNCHANGED <<chain, wire, budget>>
       \/ /\ Fault /\ Fail(Phase)
          /\ \E w \in SUBSET {signers} :
                wire' = [wire EXCEPT !.tallies = @ \cup (IF accepted THEN w ELSE {})]
          /\ UNCHANGED chain
    /\ UNCHANGED <<disk, lock, submitting, submitErr, past>>

\* endSubmit keeps a submit's error; then the run is released.
EndPhase ==
    /\ at[Phase] = "end"
    /\ IF loc[Phase].job = "submit"
       THEN /\ submitting' = 0
            /\ submitErr' = IF loc[Phase].failed THEN submitErr \cup {loc[Phase].who}
                            ELSE submitErr \ {loc[Phase].who}
       ELSE UNCHANGED <<submitting, submitErr>>
    /\ Return(Phase)
    /\ UNCHANGED <<chain, wire, disk, lock, budget, past>>

-----------------------------------------------------------------------------
(* The world.                                                               *)

\* A transaction whose answer was lost commits after all, or is found invalid.
LandShare(t, c) ==
    /\ <<t, c>> \in wire.shares
    /\ wire' = [wire EXCEPT !.shares = @ \ {<<t, c>>}]
    /\ chain' = IF chain.share[t][c] = "none"
                THEN [chain EXCEPT !.share[t][c] = "ours"] ELSE chain
    /\ UNCHANGED <<disk, lock, at, loc, submitting, submitErr, budget, past>>

LandTally(signers) ==
    /\ signers \in wire.tallies
    /\ wire' = [wire EXCEPT !.tallies = @ \ {signers}]
    /\ chain' = IF ~chain.tallied
                THEN [chain EXCEPT !.tallied = TRUE, !.signers = signers] ELSE chain
    /\ UNCHANGED <<disk, lock, at, loc, submitting, submitErr, budget, past>>

\* Someone else records a share: the run's own Submit the bundle's, an attack scenario
\* against the live ledger another.
SubmitElsewhere(t, c) ==
    /\ OnChain /\ chain.status = "closed" /\ chain.share[t][c] = "none"
    /\ budget.elsewhere < MaxElsewhere
    /\ budget' = [budget EXCEPT !.elsewhere = @ + 1]
    /\ \E share \in {"ours", "foreign"} : chain' = [chain EXCEPT !.share[t][c] = share]
    /\ UNCHANGED <<wire, disk, lock, at, loc, submitting, submitErr, past>>

\* The console is killed and started again: a file being rewritten stays torn.
Kill ==
    /\ \E p \in Procs : at[p] # "idle"
    /\ Fault
    /\ lock' = Nobody
    /\ at' = [p \in Procs |-> "idle"] /\ loc' = [p \in Procs |-> Idle]
    /\ submitting' = 0 /\ submitErr' = {}
    /\ past' = [past EXCEPT !.kept = IF disk.file.kind = "torn" THEN NoFile ELSE @]
    /\ UNCHANGED <<chain, wire, disk>>

-----------------------------------------------------------------------------
Status(p) ==
    \/ readCeremony(p)
    \/ StatFile(p)
    \/ ProbeTrustee(p)
    \/ ProbeTally(p)
    \/ LockFile(p)
    \/ TruncateFile(p)
    \/ PutFile(p)

Serve(h) ==
    \/ Status(h)
    \/ handleCeremonyStatus(h)
    \/ AnswerOperation(h)
    \/ ClaimRun(h)
    \/ ClaimRefused(h)

RunPhase ==
    \/ Status(Phase)
    \/ StartBundle
    \/ FillBundle
    \/ CloseElection
    \/ ProbeShare
    \/ SendShare
    \/ SharesDone
    \/ CheckThreshold
    \/ PublishTally
    \/ EndPhase

Request(h) ==
    \/ Poll(h)
    \/ handleCeremonyStart(h)
    \/ handleResume(h)
    \/ \E t \in Trustees : handleCeremonySubmit(h, t)
    \/ handleCeremonyPublish(h)

World ==
    \/ \E t \in Trustees, c \in Contests : LandShare(t, c) \/ SubmitElsewhere(t, c)
    \/ \E signers \in SUBSET Trustees : LandTally(signers)
    \/ Kill

Next ==
    \/ \E h \in Handlers : Request(h) \/ Serve(h)
    \/ RunPhase
    \/ World

Spec == Init /\ [][Next]_vars

\* An operator who asks for an operation only while the page shows no phase running.
Patient ==
    \A h \in Handlers :
        at[h] = "idle" /\ at'[h] # "idle" => loc'[h].job = "poll" \/ at[Phase] = "idle"

\* The goroutines run; and given the chance again and again, sooner or later each
\* trustee tries to submit and someone tries to publish.
FairSpec ==
    /\ Init /\ [][Next /\ Patient]_vars
    /\ WF_vars(RunPhase)
    /\ \A h \in Handlers :
        /\ WF_vars(Serve(h))
        /\ \A t \in Trustees : SF_vars(at[Phase] = "idle" /\ handleCeremonySubmit(h, t))
        /\ SF_vars(at[Phase] = "idle" /\ handleCeremonyPublish(h))

-----------------------------------------------------------------------------
(* Properties.                                                              *)

Places == {"idle", "read", "stat", "probe", "answer", "claim", "lock", "truncate", "put",
           "bundle", "fill", "close", "share", "send", "tally", "end"}

Files == [kind : {"none", "torn", "ok"}, submitted : SUBSET Trustees, published : BOOLEAN]

Locals ==
    [job : {"", "poll", "start", "resume", "submit", "publish"}, who : {0} \cup Trustees,
     submitted : SUBSET Trustees, published : BOOLEAN, ready : BOOLEAN,
     left : SUBSET Trustees, seen : SUBSET Trustees,
     op : {"", "record", "submitted", "published", "closed"}, next : Files,
     contest : 1..(NumContests + 1), failed : BOOLEAN, since : SUBSET Trustees, blind : BOOLEAN]

Chains ==
    [status : {"absent", "open", "closed"}, tallied : BOOLEAN, signers : SUBSET Trustees,
     share : [Trustees -> [Contests -> {"none", "ours", "foreign"}]]]

Wires == [shares : SUBSET (Trustees \X Contests), tallies : SUBSET SUBSET Trustees]

Disks == [bundle : {"none", "torn", "whole"}, receipt : BOOLEAN, file : Files]

Budgets == [faults : 0..MaxFaults, elsewhere : 0..MaxElsewhere]

Pasts == [acted : SUBSET Trustees, closed : BOOLEAN, kept : Files]

\* Every variable has its shape: in particular a submit phase never walks past the
\* contest after its trustee's last share, and only a trustee has a submit error.
TypeOK ==
    /\ chain \in Chains /\ wire \in Wires /\ disk \in Disks
    /\ lock \in Procs \cup {Nobody}
    /\ at \in [Procs -> Places] /\ loc \in [Procs -> Locals]
    /\ submitting \in {0} \cup Trustees /\ submitErr \subseteq Trustees
    /\ budget \in Budgets /\ past \in Pasts

\* A trustee that ceremony.json, or a status about to be answered or acted on, calls
\* submitted has every one of its shares on the chain with the bundle's bytes:
\* partial submissions, lost answers, foreign shares and torn reads notwithstanding.
RecordedIsOnChain ==
    OnChain =>
        /\ disk.file.submitted \subseteq Complete
        /\ \A p \in Procs : loc[p].submitted \subseteq Complete

\* A published tally is endorsed by at least a threshold of trustees, and only by
\* trustees whose shares are all on the chain, although the generator signed it for
\* every trustee; also when it commits long after its answer was lost.
TallyEndorsedByContributors ==
    chain.tallied =>
        /\ chain.signers \subseteq Complete
        /\ Cardinality(chain.signers) >= Threshold

\* A ceremony recorded as published had enough trustees act, offline too, where the
\* console's own record is the only gate.
PublishedAboveThreshold ==
    disk.file.published =>
        IF OnChain THEN chain.tallied ELSE Cardinality(past.acted) >= Threshold

\* A trustee or a publication once recorded stays recorded, whoever rewrites the file
\* in the meantime; only a rewrite that was cut short, or whose own read of the record
\* failed, can lose it.
RecordSurvives ==
    disk.file.kind = "ok" =>
        /\ past.kept.submitted \subseteq disk.file.submitted
        /\ past.kept.published => disk.file.published

\* Nobody is told that trustees may act, and no file that would say so exists, before
\* the election is closed.
ReadyMeansClosed ==
    (disk.file.kind # "none" \/ \E p \in Procs : loc[p].ready)
        => IF OnChain THEN chain.status = "closed" ELSE past.closed

\* Violated.  "Only a finished CeremonyStart creates it": ceremony.json exists only once
\* a start, or a resume's close, went through to recording the close.  markPublished
\* creates it too, when the chain alone unlocks the tally.
OnlyACloseCreatesTheRecord == disk.file.kind # "none" => past.closed

\* On-chain, a status whose reads all succeeded lists every trustee that was complete
\* when the request came in, even if it caught ceremony.json half-written.
StatusIsCurrent ==
    \A h \in Handlers :
        OnChain /\ at[h] = "answer" /\ loc[h].job = "poll" /\ ~loc[h].blind
            => loc[h].since \subseteq loc[h].submitted

\* What a status says, and when it says it, is right; and every variable has its type.
StatusTrue == TypeOK /\ ReadyMeansClosed /\ StatusIsCurrent

\* Violated by a kill, or a failed write, while bundle.json is being written: the next
\* start reuses the truncated file and says "local ceremony ready" (ceremony.go,
\* CeremonyStart), and no trustee can ever act.
LocalStartIsReady == ~OnChain /\ disk.file.kind # "none" => Bundled

\* Once the close is recorded, over a bundle that was written to its end, the ceremony
\* can be brought to its tally: whatever was lost or cut short, retrying each trustee's
\* submit converges and is never held up by shares already on the chain or by a mark
\* left behind.
CeremonyCompletes ==
    Bundled /\ disk.file.kind # "none"
        ~> IF OnChain THEN chain.tallied ELSE disk.file.published
=============================================================================
