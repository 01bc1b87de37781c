---------------------------- MODULE CeremonyProofs -----------------------------
(***************************************************************************)
(* Proofs about the trustee ceremony, for any number of trustees, contests *)
(* and handlers, any threshold and any bound on the faults.                *)
(***************************************************************************)
EXTENDS Ceremony, TLAPS, FiniteSetTheorems

CompleteIn(share) == {t \in Trustees : \A c \in Contests : share[t][c] = "ours"}

Endorsed(share, signers) ==
    signers \subseteq CompleteIn(share) /\ Cardinality(signers) >= Threshold

\* What a goroutine's place says of its locals.
LocalType(p, place, l) ==
    /\ place \in Places /\ l \in Locals
    /\ place = "claim" => l.job \in {"start", "resume", "submit", "publish"}
    /\ l.job = "submit" => l.who \in Trustees
    /\ l.op = "submitted" => l.job = "submit"
    /\ place \in {"share", "send"} => l.job = "submit"
    /\ place = "send" => l.contest <= NumContests
    /\ place \in {"send", "tally"} => OnChain

\* On-chain, what a goroutine believes submitted is complete on the chain: it was
\* read off the chain, or its phase saw the shares accepted one by one.
LocalClaims(share, l) ==
    OnChain =>
        /\ l.submitted \subseteq CompleteIn(share)
        /\ l.seen \subseteq CompleteIn(share)
        /\ l.next.submitted \subseteq CompleteIn(share)
        /\ l.op = "submitted" => l.who \in CompleteIn(share)
        /\ \A c \in Contests :
            c < l.contest => l.who \in Trustees /\ share[l.who][c] = "ours"

\* The same of the file, of tallies on the wire, and of the published one.
SharedClaims ==
    /\ wire.tallies # {} \/ chain.tallied => OnChain
    /\ OnChain => disk.file.submitted \subseteq CompleteIn(chain.share)
    /\ \A signers \in wire.tallies : Endorsed(chain.share, signers)
    /\ chain.tallied => Endorsed(chain.share, chain.signers)

\* The inductive invariant behind RecordedIsOnChain and TallyEndorsedByContributors.
ClaimsInv ==
    /\ TypeOK
    /\ \A p \in Procs : LocalType(p, at[p], loc[p]) /\ LocalClaims(chain.share, loc[p])
    /\ SharedClaims

-----------------------------------------------------------------------------
(* Types of the records, and what an update of the locals leaves alone.      *)

\* Two records of locals that believe and intend the same.
Keeps(m, l) ==
    /\ m.job = l.job /\ m.who = l.who /\ m.op = l.op /\ m.contest = l.contest
    /\ m.submitted = l.submitted /\ m.seen = l.seen /\ m.next = l.next

\* The file before it exists, and torn.
LEMMA BlankFiles == NoFile \in Files /\ Torn \in Files
<1>1. NoFile \in Files
  BY DEF Files, NoFile
<1>2. Torn \in Files
  BY DEF Files, NoFile, Torn
<1> QED
  BY <1>1, <1>2

\* A file written whole.
LEMMA FileType ==
    ASSUME NEW s \in SUBSET Trustees, NEW b \in BOOLEAN
    PROVE  /\ File(s, b) \in Files
           /\ File(s, b).submitted = s
BY DEF File, Files

\* Between requests a goroutine holds nothing.
LEMMA IdleType ==
    /\ Idle \in Locals
    /\ Idle.job = "" /\ Idle.who = 0 /\ Idle.op = "" /\ Idle.contest = 1
    /\ Idle.submitted = {} /\ Idle.seen = {} /\ Idle.next.submitted = {}
<1>1. Idle \in Locals
  BY BlankFiles, CeremonyAssumption DEF Locals, Idle, Trustees
<1>2. Idle.next = NoFile /\ NoFile.submitted = {}
  BY DEF Idle, NoFile
<1> QED
  BY <1>1, <1>2 DEF Idle

\* What a status takes from the file.
LEMMA SetView ==
    ASSUME NEW l \in Locals, NEW s \in SUBSET Trustees, NEW a \in BOOLEAN, NEW b \in BOOLEAN
    PROVE  [l EXCEPT !.submitted = s, !.published = a, !.ready = b] \in Locals
BY DEF Locals

\* What a status takes from the bundle and the mode.
LEMMA SetRoster ==
    ASSUME NEW l \in Locals, NEW b \in BOOLEAN, NEW s \in SUBSET Trustees
    PROVE  LET m == [l EXCEPT !.ready = b, !.left = s] IN m \in Locals /\ Keeps(m, l)
BY DEF Locals, Keeps

\* What a status learns of the tally.
LEMMA SetPublished ==
    ASSUME NEW l \in Locals, NEW b \in BOOLEAN
    PROVE  LET m == [l EXCEPT !.published = b] IN m \in Locals /\ Keeps(m, l)
BY DEF Locals, Keeps

-----------------------------------------------------------------------------
(* Steps of one goroutine.                                                   *)

\* Shares are never taken back or replaced.
Grows(before, after) ==
    \A t \in Trustees, c \in Contests : before[t][c] = "ours" => after[t][c] = "ours"

\* A complete trustee stays complete.
LEMMA CompleteGrows ==
    ASSUME NEW before, NEW after, Grows(before, after)
    PROVE  CompleteIn(before) \subseteq CompleteIn(after)
BY DEF Grows, CompleteIn

\* What was believed of the chain stays true of it.
LEMMA ClaimsGrow ==
    ASSUME NEW before, NEW after, Grows(before, after), NEW l \in Locals,
           LocalClaims(before, l)
    PROVE  LocalClaims(after, l)
BY CompleteGrows DEF LocalClaims, Grows

\* Endorsed once, endorsed for good: why a tally may commit late.
LEMMA EndorsedGrows ==
    ASSUME NEW before, NEW after, Grows(before, after), NEW signers,
           Endorsed(before, signers)
    PROVE  Endorsed(after, signers)
BY CompleteGrows DEF Endorsed

\* A goroutine that moves to good locals leaves every goroutine with good locals.
LEMMA GoLocals ==
    ASSUME ClaimsInv, NEW p \in Procs, NEW place, NEW l, Go(p, place, l),
           LocalType(p, place, l), LocalClaims(chain'.share, l),
           Grows(chain.share, chain'.share)
    PROVE  /\ at' \in [Procs -> Places] /\ loc' \in [Procs -> Locals]
           /\ \A q \in Procs :
                LocalType(q, at'[q], loc'[q]) /\ LocalClaims(chain'.share, loc'[q])
<1>1. place \in Places /\ l \in Locals
  BY DEF LocalType
<1>2. at' \in [Procs -> Places] /\ loc' \in [Procs -> Locals]
  BY <1>1 DEF ClaimsInv, TypeOK, Go
<1>3. ASSUME NEW q \in Procs
      PROVE  LocalType(q, at'[q], loc'[q]) /\ LocalClaims(chain'.share, loc'[q])
  <2>1. CASE q = p
    <3>1. at'[q] = place /\ loc'[q] = l
      BY <2>1 DEF ClaimsInv, TypeOK, Go
    <3> QED
      BY <2>1, <3>1
  <2>2. CASE q # p
    <3>1. at'[q] = at[q] /\ loc'[q] = loc[q] /\ loc[q] \in Locals
      BY <2>2 DEF ClaimsInv, TypeOK, Go
    <3>2. LocalType(q, at[q], loc[q]) /\ LocalClaims(chain.share, loc[q])
      BY DEF ClaimsInv
    <3>3. LocalClaims(chain'.share, loc[q])
      BY <3>1, <3>2, ClaimsGrow
    <3> QED
      BY <3>1, <3>2, <3>3
  <2> QED
    BY <2>1, <2>2
<1> QED
  BY <1>2, <1>3

\* A chain that did not move.
LEMMA GrowsRefl == ASSUME NEW share PROVE Grows(share, share)
BY DEF Grows

\* A step that moves one goroutine and touches neither chain, wire nor disk.
LEMMA GoOnly ==
    ASSUME ClaimsInv, NEW p \in Procs, NEW place, NEW l, Go(p, place, l),
           LocalType(p, place, l), LocalClaims(chain.share, l),
           UNCHANGED <<chain, wire, disk>>, lock' \in Procs \cup {Nobody},
           submitting' \in {0} \cup Trustees, submitErr' \subseteq Trustees,
           budget' \in Budgets, past' \in Pasts
    PROVE  ClaimsInv'
<1>1. /\ at' \in [Procs -> Places] /\ loc' \in [Procs -> Locals]
      /\ \A q \in Procs :
            LocalType(q, at'[q], loc'[q]) /\ LocalClaims(chain'.share, loc'[q])
  BY GoLocals, GrowsRefl
<1>2. TypeOK'
  BY <1>1 DEF ClaimsInv, TypeOK
<1>3. SharedClaims'
  BY DEF ClaimsInv, SharedClaims
<1> QED
  BY <1>1, <1>2, <1>3 DEF ClaimsInv

\* Faults stay within their bound.
LEMMA FaultType == ASSUME TypeOK, Fault PROVE budget' \in Budgets
BY CeremonyAssumption DEF TypeOK, Budgets, Fault

\* The record a goroutine is handed in good shape.
LEMMA LocalsOf ==
    ASSUME ClaimsInv, NEW p \in Procs
    PROVE  /\ loc[p] \in Locals
           /\ LocalType(p, at[p], loc[p]) /\ LocalClaims(chain.share, loc[p])
BY DEF ClaimsInv, TypeOK

\* A submit that starts has sent nothing.
LEMMA NoneBelow == \A c \in Contests : ~(c < 1)
BY CeremonyAssumption DEF Contests

\* An idle goroutine claims nothing.
LEMMA IdleClaims ==
    ASSUME NEW p, NEW share
    PROVE  LocalType(p, "idle", Idle) /\ LocalClaims(share, Idle)
<1>1. LocalType(p, "idle", Idle)
  BY IdleType, CeremonyAssumption DEF LocalType, Places
<1>3. LocalClaims(share, Idle)
  BY NoneBelow, IdleType DEF LocalClaims
<1> QED
  BY <1>1, <1>3

\* Locals that keep what was believed.
LEMMA KeptClaims ==
    ASSUME NEW share, NEW l \in Locals, NEW m \in Locals, Keeps(m, l), LocalClaims(share, l)
    PROVE  LocalClaims(share, m)
BY DEF Keeps, LocalClaims

\* The same of what its place asks of them.
LEMMA KeptType ==
    ASSUME NEW p, NEW x, NEW y, NEW l \in Locals, NEW m \in Locals, Keeps(m, l),
           LocalType(p, x, l), y \in Places \ {"claim", "share", "send", "tally"}
    PROVE  LocalType(p, y, m)
BY DEF Keeps, LocalType

\* Locals of a new request or phase, which believe nothing yet.
LEMMA FreshLocals ==
    ASSUME NEW p, NEW share, NEW m \in Locals, NEW x \in Places \ {"send", "tally"},
           m.op = "", m.contest = 1, m.submitted = {}, m.seen = {}, m.next.submitted = {},
           m.job = "submit" => m.who \in Trustees,
           x = "claim" => m.job \in {"start", "resume", "submit", "publish"},
           x = "share" => m.job = "submit"
    PROVE  LocalType(p, x, m) /\ LocalClaims(share, m)
<1>1. LocalType(p, x, m)
  BY DEF LocalType
<1>3. LocalClaims(share, m)
  BY NoneBelow DEF LocalClaims
<1> QED
  BY <1>1, <1>3

\* A goroutine of a typed state: facts used by every step.
LEMMA PhaseIsProc == Phase \in Procs /\ \A h \in Handlers : h \in Procs /\ h # Phase
BY CeremonyAssumption DEF Procs, Phase

\* A phase that fails believes what it believed.
LEMMA FailLocals ==
    ASSUME ClaimsInv, NEW p \in Procs, NEW m, m = [loc[p] EXCEPT !.failed = TRUE]
    PROVE  LocalType(p, "end", m) /\ LocalClaims(chain.share, m)
<1>1. m \in Locals /\ Keeps(m, loc[p])
  BY LocalsOf DEF Locals, Keeps
<1>2. "end" \in Places \ {"claim", "share", "send", "tally"}
  BY DEF Places
<1> QED
  BY <1>1, <1>2, LocalsOf, KeptClaims, KeptType

\* A failing phase that touched neither chain, wire nor disk.
LEMMA FailOnly ==
    ASSUME ClaimsInv, NEW p \in Procs, Fail(p),
           UNCHANGED <<chain, wire, disk>>, lock' \in Procs \cup {Nobody},
           submitting' \in {0} \cup Trustees, submitErr' \subseteq Trustees,
           budget' \in Budgets, past' \in Pasts
    PROVE  ClaimsInv'
BY FailLocals, GoOnly DEF Fail

-----------------------------------------------------------------------------
(* The actions, one by one.                                                  *)

\* A new request believes nothing of the chain yet.
LEMMA RequestKeeps == ASSUME ClaimsInv, NEW h \in Handlers, Request(h) PROVE ClaimsInv'
<1>0. h \in Procs
  BY PhaseIsProc
<1>1. Complete \in SUBSET Trustees
  BY DEF Complete
<1>2. ASSUME NEW j \in {"poll", "start", "resume", "publish"}, NEW x \in {"read", "claim"},
             NEW m, m = [Idle EXCEPT !.job = j], x = "claim" => j # "poll"
      PROVE  LocalType(h, x, m) /\ LocalClaims(chain.share, m)
  <2>1. /\ m \in Locals /\ m.job = j /\ m.op = "" /\ m.contest = 1
        /\ m.submitted = {} /\ m.seen = {} /\ m.next.submitted = {}
    BY <1>2, IdleType DEF Locals
  <2> QED
    BY <1>2, <2>1, FreshLocals DEF Places
<1>3. CASE Poll(h)
  <2> DEFINE m == [Idle EXCEPT !.job = "poll", !.since = Complete]
  <2>1. /\ m \in Locals /\ m.job = "poll" /\ m.op = "" /\ m.contest = 1
        /\ m.submitted = {} /\ m.seen = {} /\ m.next.submitted = {}
    BY <1>1, IdleType DEF Locals
  <2>2. LocalType(h, "read", m) /\ LocalClaims(chain.share, m)
    <3> HIDE DEF m
    <3>1. "read" \in Places \ {"send", "tally"}
      BY DEF Places
    <3> QED
      BY <2>1, <3>1, FreshLocals
  <2> QED
    BY <1>3, <2>2, <1>0, GoOnly DEF Poll, ClaimsInv, TypeOK
<1>4. CASE handleCeremonyStart(h)
  BY <1>2, <1>4, <1>0, GoOnly DEF handleCeremonyStart, ClaimsInv, TypeOK
<1>5. CASE handleResume(h)
  BY <1>2, <1>5, <1>0, GoOnly DEF handleResume, ClaimsInv, TypeOK
<1>6. ASSUME NEW t \in Trustees, handleCeremonySubmit(h, t) PROVE ClaimsInv'
  <2> DEFINE m == [Idle EXCEPT !.job = "submit", !.who = t]
  <2>1. /\ m \in Locals /\ m.job = "submit" /\ m.who = t /\ m.op = "" /\ m.contest = 1
        /\ m.submitted = {} /\ m.seen = {} /\ m.next.submitted = {}
    BY IdleType DEF Locals
  <2>2. LocalType(h, "read", m) /\ LocalClaims(chain.share, m)
    <3> HIDE DEF m
    <3>1. "read" \in Places \ {"send", "tally"}
      BY DEF Places
    <3> QED
      BY <2>1, <3>1, FreshLocals
  <2> QED
    BY <1>6, <2>2, <1>0, GoOnly DEF handleCeremonySubmit, ClaimsInv, TypeOK
<1>7. CASE handleCeremonyPublish(h)
  BY <1>2, <1>7, <1>0, GoOnly DEF handleCeremonyPublish, ClaimsInv, TypeOK
<1> QED
  BY <1>3, <1>4, <1>5, <1>6, <1>7 DEF Request

\* A status believes what the file says, which is true of the chain.
LEMMA ReadKeeps == ASSUME ClaimsInv, NEW p \in Procs, readCeremony(p) PROVE ClaimsInv'
<1>0. PICK f \in {disk.file, NoFile} :
        /\ Go(p, "stat", [loc[p] EXCEPT !.submitted = f.submitted, !.published = f.published,
                                        !.ready = f.kind = "ok"])
        /\ IF f = disk.file THEN UNCHANGED budget ELSE Fault
  BY DEF readCeremony
<1> DEFINE m == [loc[p] EXCEPT !.submitted = f.submitted, !.published = f.published,
                               !.ready = f.kind = "ok"]
<1>1. f \in Files
  BY BlankFiles DEF ClaimsInv, TypeOK, Disks
<1>2. /\ f.submitted \in SUBSET Trustees
      /\ f.published \in BOOLEAN /\ (f.kind = "ok") \in BOOLEAN
  BY <1>1 DEF Files
<1>3. /\ m \in Locals /\ m.submitted = f.submitted
      /\ m.job = loc[p].job /\ m.who = loc[p].who /\ m.op = loc[p].op
      /\ m.contest = loc[p].contest /\ m.seen = loc[p].seen /\ m.next = loc[p].next
  <2>1. loc[p] \in Locals
    BY LocalsOf
  <2>2. m \in Locals
    BY <1>2, <2>1, SetView
  <2>3. /\ m.submitted = f.submitted
        /\ m.job = loc[p].job /\ m.who = loc[p].who /\ m.op = loc[p].op
        /\ m.contest = loc[p].contest /\ m.seen = loc[p].seen /\ m.next = loc[p].next
    BY <2>1 DEF Locals
  <2> QED
    BY <2>2, <2>3
<1>4. LocalType(p, "stat", m)
  BY <1>3, LocalsOf DEF LocalType, Places
<1>5. LocalClaims(chain.share, m)
  <2>1. OnChain => f.submitted \subseteq CompleteIn(chain.share)
    BY DEF ClaimsInv, SharedClaims, NoFile
  <2> QED
    BY <1>3, <2>1, LocalsOf DEF LocalClaims
<1>6. /\ UNCHANGED <<chain, wire, disk, lock, submitting, submitErr, past>>
      /\ budget' \in Budgets
  BY <1>0, FaultType DEF readCeremony, ClaimsInv, TypeOK
<1> QED
  BY <1>0, <1>4, <1>5, <1>6, GoOnly DEF ClaimsInv, TypeOK

\* The roster to look up: beliefs are untouched.
LEMMA StatKeeps == ASSUME ClaimsInv, NEW p \in Procs, StatFile(p) PROVE ClaimsInv'
<1> DEFINE r == Bundled /\ (loc[p].ready \/ disk.file.kind # "none")
           s == IF Bundled /\ OnChain THEN Trustees \ loc[p].submitted ELSE {}
           l == [loc[p] EXCEPT !.ready = r, !.left = s]
           m == [l EXCEPT !.left = {}, !.blind = TRUE]
<1>1. r \in BOOLEAN /\ s \in SUBSET Trustees
  OBVIOUS
<1>2. l \in Locals /\ Keeps(l, loc[p])
  <2> HIDE DEF r, s
  <2> QED
    BY <1>1, LocalsOf, SetRoster
<1>3. m \in Locals /\ Keeps(m, l)
  <2> HIDE DEF l
  <2> QED
    BY <1>2 DEF Locals, Keeps
<1>4. \A x \in {"probe", "answer"} :
        LocalType(p, x, l) /\ LocalType(p, x, m)
        /\ LocalClaims(chain.share, l) /\ LocalClaims(chain.share, m)
  <2> HIDE DEF l, m
  <2>1. {"probe", "answer"} \subseteq Places \ {"claim", "share", "send", "tally"}
    BY DEF Places
  <2>2. Keeps(m, loc[p])
    BY <1>2, <1>3 DEF Keeps
  <2> QED
    BY <1>2, <1>3, <2>1, <2>2, LocalsOf, KeptClaims, KeptType
<1>5. /\ UNCHANGED <<chain, wire, disk, lock, submitting, submitErr, past>>
      /\ \E x \in {"probe", "answer"} :
            \/ Go(p, x, l) /\ UNCHANGED budget
            \/ Go(p, x, m) /\ Fault
  BY DEF StatFile
<1> HIDE DEF l, m
<1> QED
  BY <1>4, <1>5, GoOnly, FaultType DEF ClaimsInv, TypeOK

\* refreshFromChain counts a trustee after seeing all its shares.
LEMMA ProbeKeeps == ASSUME ClaimsInv, NEW p \in Procs, ProbeTrustee(p) PROVE ClaimsInv'
<1>1. PICK t \in loc[p].left :
        LET l == [loc[p] EXCEPT !.left = @ \ {t}]
        IN \/ /\ IF ProbeHolds(t)
                 THEN Go(p, "probe", [l EXCEPT !.submitted = @ \cup {t}, !.seen = @ \cup {t}])
                 ELSE Go(p, "probe", l)
              /\ UNCHANGED budget
           \/ Fault /\ Go(p, "probe", [l EXCEPT !.blind = TRUE])
  BY DEF ProbeTrustee
<1> DEFINE l == [loc[p] EXCEPT !.left = loc[p].left \ {t}]
           h == [l EXCEPT !.submitted = l.submitted \cup {t}, !.seen = l.seen \cup {t}]
           b == [l EXCEPT !.blind = TRUE]
<1>2. /\ loc[p].left \in SUBSET Trustees /\ loc[p].submitted \in SUBSET Trustees
      /\ loc[p].seen \in SUBSET Trustees /\ t \in Trustees
  BY LocalsOf DEF Locals
<1>3. l \in Locals /\ Keeps(l, loc[p])
  BY <1>2, LocalsOf DEF Locals, Keeps
<1>4. b \in Locals /\ Keeps(b, loc[p])
  <2>1. b \in Locals /\ Keeps(b, l)
    <3> HIDE DEF l
    <3> QED
      BY <1>3 DEF Locals, Keeps
  <2> HIDE DEF l, b
  <2> QED
    BY <1>3, <2>1 DEF Keeps
<1>5. /\ h \in Locals
      /\ h.submitted = loc[p].submitted \cup {t} /\ h.seen = loc[p].seen \cup {t}
      /\ h.job = loc[p].job /\ h.who = loc[p].who /\ h.op = loc[p].op
      /\ h.contest = loc[p].contest /\ h.next = loc[p].next
  <2> HIDE DEF l
  <2>1. /\ l.submitted \cup {t} \in SUBSET Trustees /\ l.seen \cup {t} \in SUBSET Trustees
        /\ l.submitted = loc[p].submitted /\ l.seen = loc[p].seen
    BY <1>2, <1>3 DEF Keeps
  <2> QED
    BY <1>3, <2>1 DEF Locals, Keeps
<1> HIDE DEF l, h, b
<1>6. "probe" \in Places \ {"claim", "share", "send", "tally"}
  BY DEF Places
<1>7. /\ LocalType(p, "probe", l) /\ LocalClaims(chain.share, l)
      /\ LocalType(p, "probe", b) /\ LocalClaims(chain.share, b)
  BY <1>3, <1>4, <1>6, LocalsOf, KeptClaims, KeptType
<1>8. LocalType(p, "probe", h)
  BY <1>5, <1>6, LocalsOf DEF LocalType
<1>9. ProbeHolds(t) => LocalClaims(chain.share, h)
  <2>1. ProbeHolds(t) => t \in CompleteIn(chain.share)
    BY <1>2 DEF ProbeHolds, Holds, CompleteIn
  <2> QED
    BY <1>5, <2>1, LocalsOf DEF LocalClaims
<1>10. \/ /\ ProbeHolds(t) /\ Go(p, "probe", h) /\ UNCHANGED budget
       \/ Go(p, "probe", l) /\ UNCHANGED budget
       \/ Go(p, "probe", b) /\ Fault
  BY <1>1 DEF l, h, b
<1>11. UNCHANGED <<chain, wire, disk, lock, submitting, submitErr, past>>
  BY DEF ProbeTrustee
<1> QED
  BY <1>7, <1>8, <1>9, <1>10, <1>11, GoOnly, FaultType DEF ClaimsInv, TypeOK

\* What a status goes on to record is what it has seen.
LEMMA ProbeTallyKeeps == ASSUME ClaimsInv, NEW p \in Procs, ProbeTally(p) PROVE ClaimsInv'
<1> DEFINE o == IF loc[p].seen = {} THEN "" ELSE "record"
           x == IF loc[p].seen = {} THEN "answer" ELSE "lock"
           l == [loc[p] EXCEPT !.op = o]
           t == l.published \/ chain.tallied
           m == [l EXCEPT !.published = t]
           b == [l EXCEPT !.blind = TRUE]
<1>0. o \in {"", "record"}
  OBVIOUS
<1>1. /\ l \in Locals /\ l.op = o
      /\ l.job = loc[p].job /\ l.who = loc[p].who /\ l.contest = loc[p].contest
      /\ l.submitted = loc[p].submitted /\ l.seen = loc[p].seen /\ l.next = loc[p].next
  <2> HIDE DEF o
  <2>1. loc[p] \in Locals
    BY LocalsOf
  <2>2. l \in Locals
    BY <1>0, <2>1 DEF Locals
  <2> QED
    BY <2>1, <2>2 DEF Locals
<1>2. m \in Locals /\ Keeps(m, l)
  <2> HIDE DEF l, t
  <2>1. t \in BOOLEAN
    BY DEF t
  <2> QED
    BY <1>1, <2>1, SetPublished
<1>3. b \in Locals /\ Keeps(b, l)
  <2> HIDE DEF l
  <2> QED
    BY <1>1 DEF Locals, Keeps
<1>4. x \in Places \ {"claim", "share", "send", "tally"}
  BY DEF Places
<1>5. LocalType(p, x, l) /\ LocalClaims(chain.share, l)
  <2> HIDE DEF l, x, o
  <2>1. l.op # "submitted"
    BY <1>0, <1>1
  <2>2. LocalType(p, x, l)
    BY <1>1, <1>4, <2>1, LocalsOf DEF LocalType
  <2>3. LocalClaims(chain.share, l)
    BY <1>1, <2>1, LocalsOf DEF LocalClaims
  <2> QED
    BY <2>2, <2>3
<1>6. /\ LocalType(p, x, m) /\ LocalClaims(chain.share, m)
      /\ LocalType(p, x, b) /\ LocalClaims(chain.share, b)
  <2> HIDE DEF l, m, b, x
  <2> QED
    BY <1>1, <1>2, <1>3, <1>4, <1>5, KeptClaims, KeptType
<1>7. /\ UNCHANGED <<chain, wire, disk, lock, submitting, submitErr, past>>
      /\ \/ Go(p, x, m) /\ UNCHANGED budget
         \/ Go(p, x, b) /\ Fault
  BY DEF ProbeTally
<1> HIDE DEF l, m, b, x
<1> QED
  BY <1>6, <1>7, GoOnly, FaultType DEF ClaimsInv, TypeOK

\* Returning to idle, with or without a lock.
LEMMA ReturnOnly ==
    ASSUME ClaimsInv, NEW p \in Procs, Return(p),
           UNCHANGED <<chain, wire, disk>>, lock' \in Procs \cup {Nobody},
           submitting' \in {0} \cup Trustees, submitErr' \subseteq Trustees,
           budget' \in Budgets, past' \in Pasts
    PROVE  ClaimsInv'
BY IdleClaims, GoOnly DEF Return

\* An answer ends the request; an operation starts afresh from it.
LEMMA AnswerKeeps ==
    ASSUME ClaimsInv, NEW h \in Handlers,
           handleCeremonyStatus(h) \/ AnswerOperation(h) \/ ClaimRefused(h)
    PROVE  ClaimsInv'
<1>0. h \in Procs
  BY PhaseIsProc
<1>1. CASE handleCeremonyStatus(h)
  BY <1>0, <1>1, ReturnOnly DEF handleCeremonyStatus, ClaimsInv, TypeOK
<1>2. CASE ClaimRefused(h)
  BY <1>0, <1>2, ReturnOnly DEF ClaimRefused, ClaimsInv, TypeOK
<1>3. CASE AnswerOperation(h)
  <2> DEFINE m == [Idle EXCEPT !.job = loc[h].job, !.who = loc[h].who]
  <2>1. /\ loc[h].job \in {"submit", "publish"} /\ loc[h].who \in {0} \cup Trustees
        /\ loc[h].job = "submit" => loc[h].who \in Trustees
    BY <1>0, <1>3, LocalsOf DEF AnswerOperation, LocalType, Locals
  <2>2. /\ m \in Locals /\ m.job = loc[h].job /\ m.who = loc[h].who /\ m.op = ""
        /\ m.contest = 1 /\ m.submitted = {} /\ m.seen = {} /\ m.next.submitted = {}
    BY <2>1, IdleType DEF Locals
  <2>3. LocalType(h, "claim", m) /\ LocalClaims(chain.share, m)
    <3> HIDE DEF m
    <3>1. "claim" \in Places \ {"send", "tally"}
      BY DEF Places
    <3> QED
      BY <2>1, <2>2, <3>1, FreshLocals
  <2>4. /\ UNCHANGED <<chain, wire, disk, lock, submitting, submitErr, budget, past>>
        /\ Go(h, "claim", m) \/ Return(h)
    BY <1>3 DEF AnswerOperation
  <2> HIDE DEF m
  <2> QED
    BY <1>0, <2>3, <2>4, GoOnly, ReturnOnly DEF ClaimsInv, TypeOK
<1> QED
  BY <1>1, <1>2, <1>3

\* The phase inherits the job and its trustee, and no belief.
LEMMA ClaimKeeps == ASSUME ClaimsInv, NEW h \in Handlers, ClaimRun(h) PROVE ClaimsInv'
<1> DEFINE x == CASE loc[h].job = "start" -> "bundle"
                  [] loc[h].job = "resume" -> "close"
                  [] loc[h].job = "submit" -> "share"
                  [] loc[h].job = "publish" -> "read"
           m == [Idle EXCEPT !.job = loc[h].job, !.who = loc[h].who]
<1>0. h \in Procs /\ h # Phase /\ Phase \in Procs
  BY PhaseIsProc
<1>1. /\ loc[h].job \in {"start", "resume", "submit", "publish"}
      /\ loc[h].who \in {0} \cup Trustees
      /\ loc[h].job = "submit" => loc[h].who \in Trustees
  BY <1>0, LocalsOf DEF ClaimRun, LocalType, Locals
<1>2. /\ m \in Locals /\ m.job = loc[h].job /\ m.who = loc[h].who /\ m.op = ""
      /\ m.contest = 1 /\ m.submitted = {} /\ m.seen = {} /\ m.next.submitted = {}
  BY <1>1, IdleType DEF Locals
<1>3. x \in Places \ {"send", "tally", "claim"} /\ (x = "share" => loc[h].job = "submit")
  BY <1>1 DEF Places
<1>4. LocalType(Phase, x, m) /\ LocalClaims(chain.share, m)
  <2> HIDE DEF m, x
  <2> QED
    BY <1>1, <1>2, <1>3, FreshLocals
<1>5. /\ at' = [at EXCEPT ![h] = "idle", ![Phase] = x]
      /\ loc' = [loc EXCEPT ![h] = Idle, ![Phase] = m]
      /\ UNCHANGED <<chain, wire, disk, lock, budget, past>>
      /\ submitting' \in {0} \cup Trustees /\ submitErr' \subseteq Trustees
  BY <1>1 DEF ClaimRun, ClaimsInv, TypeOK
<1> HIDE DEF m, x
<1>6. \A q \in Procs : LocalType(q, at'[q], loc'[q]) /\ LocalClaims(chain.share, loc'[q])
  <2> TAKE q \in Procs
  <2>1. CASE q = Phase
    <3>1. at'[q] = x /\ loc'[q] = m
      BY <1>0, <1>5, <2>1 DEF ClaimsInv, TypeOK
    <3> QED
      BY <2>1, <3>1, <1>4
  <2>2. CASE q = h
    <3>1. at'[q] = "idle" /\ loc'[q] = Idle
      BY <1>0, <1>5, <2>2 DEF ClaimsInv, TypeOK
    <3> QED
      BY <3>1, IdleClaims
  <2>3. CASE q # h /\ q # Phase
    <3>1. at'[q] = at[q] /\ loc'[q] = loc[q]
      BY <1>0, <1>5, <2>3 DEF ClaimsInv, TypeOK
    <3> QED
      BY <3>1, LocalsOf
  <2> QED
    BY <2>1, <2>2, <2>3
<1>7. at' \in [Procs -> Places] /\ loc' \in [Procs -> Locals]
  BY <1>2, <1>3, <1>5, IdleType DEF ClaimsInv, TypeOK, Places
<1>8. TypeOK'
  BY <1>5, <1>7 DEF ClaimsInv, TypeOK
<1>9. SharedClaims'
  BY <1>5 DEF ClaimsInv, SharedClaims
<1> QED
  BY <1>5, <1>6, <1>8, <1>9 DEF ClaimsInv


\* Moving on with the same locals.
LEMMA StayOnly ==
    ASSUME ClaimsInv, NEW p \in Procs, NEW y \in {"answer", "put", "end"}, Go(p, y, loc[p]),
           UNCHANGED <<chain, wire, disk>>, lock' \in Procs \cup {Nobody},
           submitting' \in {0} \cup Trustees, submitErr' \subseteq Trustees,
           budget' \in Budgets, past' \in Pasts
    PROVE  ClaimsInv'
<1>1. y \in Places \ {"claim", "share", "send", "tally"}
  BY DEF Places
<1>2. Keeps(loc[p], loc[p])
  BY DEF Keeps
<1>3. LocalType(p, y, loc[p]) /\ LocalClaims(chain.share, loc[p])
  BY <1>1, <1>2, LocalsOf, KeptType
<1> QED
  BY <1>3, GoOnly

\* The history of what was recorded.
LEMMA SetKept ==
    ASSUME NEW h \in Pasts, NEW f \in Files
    PROVE  [h EXCEPT !.kept = f] \in Pasts
BY DEF Pasts

\* What is about to be written is true: it joins the file with what was seen.
LEMMA RewrittenClaims ==
    ASSUME ClaimsInv, NEW p \in Procs, NEW f \in {disk.file, NoFile}
    PROVE  /\ Rewritten(p, f) \in Files
           /\ OnChain => Rewritten(p, f).submitted \subseteq CompleteIn(chain.share)
<1> DEFINE s == CASE loc[p].op = "record" -> f.submitted \cup loc[p].seen
                  [] loc[p].op = "submitted" -> f.submitted \cup {loc[p].who}
                  [] OTHER -> f.submitted
           b == f.published \/ loc[p].op = "published"
<1>1. f.submitted \in SUBSET Trustees
  BY DEF ClaimsInv, TypeOK, Disks, Files, NoFile
<1>2. /\ loc[p].seen \in SUBSET Trustees
      /\ loc[p].op = "submitted" => loc[p].who \in Trustees
  BY LocalsOf DEF Locals, LocalType
<1>3. OnChain =>
        /\ f.submitted \subseteq CompleteIn(chain.share)
        /\ loc[p].seen \subseteq CompleteIn(chain.share)
        /\ loc[p].op = "submitted" => loc[p].who \in CompleteIn(chain.share)
  BY LocalsOf DEF LocalClaims, ClaimsInv, SharedClaims, NoFile
<1>4. s \in SUBSET Trustees /\ (OnChain => s \subseteq CompleteIn(chain.share))
  <2>1. CASE loc[p].op = "record"
    BY <1>1, <1>2, <1>3, <2>1
  <2>2. CASE loc[p].op = "submitted"
    BY <1>1, <1>2, <1>3, <2>2
  <2>3. CASE loc[p].op \notin {"record", "submitted"}
    BY <1>1, <1>3, <2>3
  <2> QED
    BY <2>1, <2>2, <2>3
<1>5. b \in BOOLEAN
  BY DEF b
<1>6. Rewritten(p, f) = File(s, b)
  BY DEF Rewritten
<1> HIDE DEF s, b
<1> QED
  BY <1>4, <1>5, <1>6, FileType

\* What LockFile does, for its proofs.
LEMMA LockStep ==
    ASSUME NEW p, LockFile(p)
    PROVE  \/ /\ Go(p, "answer", loc[p]) \/ Fail(p)
              /\ UNCHANGED <<lock, budget, past>>
           \/ /\ ~(NeedsFile(loc[p].op) /\ disk.file.kind = "none")
              /\ lock' = p
              /\ \E f \in {disk.file, NoFile} :
                    /\ Go(p, "truncate", [loc[p] EXCEPT !.next = Rewritten(p, f)])
                    /\ \/ f = disk.file /\ UNCHANGED <<budget, past>>
                       \/ f = NoFile /\ Fault /\ past' = [past EXCEPT !.kept = NoFile]
BY DEF LockFile

\* The writer takes the lock and the file's contents with it.
LEMMA LockKeeps == ASSUME ClaimsInv, NEW p \in Procs, LockFile(p) PROVE ClaimsInv'
<1>0. UNCHANGED <<chain, wire, disk, submitting, submitErr>>
  BY DEF LockFile
<1>1. CASE Go(p, "answer", loc[p]) /\ UNCHANGED <<lock, budget, past>>
  BY <1>0, <1>1, StayOnly DEF ClaimsInv, TypeOK
<1>2. CASE Fail(p) /\ UNCHANGED <<lock, budget, past>>
  BY <1>0, <1>2, FailOnly DEF ClaimsInv, TypeOK
<1>3. ASSUME NEW f \in {disk.file, NoFile}, lock' = p,
             Go(p, "truncate", [loc[p] EXCEPT !.next = Rewritten(p, f)]),
             \/ f = disk.file /\ UNCHANGED <<budget, past>>
             \/ f = NoFile /\ Fault /\ past' = [past EXCEPT !.kept = NoFile]
      PROVE  ClaimsInv'
  <2> DEFINE g == Rewritten(p, f)
             m == [loc[p] EXCEPT !.next = g]
  <2>1. g \in Files /\ (OnChain => g.submitted \subseteq CompleteIn(chain.share))
    BY RewrittenClaims
  <2>2. /\ m \in Locals /\ m.next = g
        /\ m.job = loc[p].job /\ m.who = loc[p].who /\ m.op = loc[p].op
        /\ m.contest = loc[p].contest /\ m.seen = loc[p].seen
        /\ m.submitted = loc[p].submitted
    <3> HIDE DEF g
    <3>1. loc[p] \in Locals
      BY LocalsOf
    <3>2. m \in Locals
      BY <2>1, <3>1 DEF Locals
    <3> QED
      BY <3>1, <3>2 DEF Locals
  <2>3. Go(p, "truncate", m)
    BY <1>3
  <2> HIDE DEF m, g
  <2>4. LocalType(p, "truncate", m)
    <3>1. "truncate" \in Places
      BY DEF Places
    <3> QED
      BY <2>2, <3>1, LocalsOf DEF LocalType
  <2>5. LocalClaims(chain.share, m)
    BY <2>1, <2>2, LocalsOf DEF LocalClaims
  <2>6. past' \in Pasts /\ budget' \in Budgets
    <3>1. past \in Pasts /\ budget \in Budgets
      BY DEF ClaimsInv, TypeOK
    <3> QED
      BY <1>3, <3>1, SetKept, BlankFiles, FaultType DEF ClaimsInv, TypeOK
  <2> QED
    BY <1>0, <1>3, <2>3, <2>4, <2>5, <2>6, GoOnly DEF ClaimsInv, TypeOK
<1> QED
  BY <1>1, <1>2, <1>3, LockStep

\* A failed write changes no belief.
LEMMA WriteFailedKeeps ==
    ASSUME ClaimsInv, NEW p \in Procs, WriteFailed(p),
           UNCHANGED <<chain, wire, disk, submitting, submitErr>>, past' \in Pasts
    PROVE  ClaimsInv'
<1>1. budget' \in Budgets
  BY FaultType DEF WriteFailed, ClaimsInv
<1>2. lock' \in Procs \cup {Nobody}
  BY DEF WriteFailed
<1>3. Go(p, "answer", loc[p]) \/ Fail(p)
  BY DEF WriteFailed
<1> QED
  BY <1>1, <1>2, <1>3, StayOnly, FailOnly DEF ClaimsInv, TypeOK

\* A step that replaces the file as well.
LEMMA GoFile ==
    ASSUME ClaimsInv, NEW p \in Procs, NEW y \in {"answer", "put", "end"}, Go(p, y, loc[p]),
           NEW f \in Files, disk' = [disk EXCEPT !.file = f],
           OnChain => f.submitted \subseteq CompleteIn(chain.share),
           UNCHANGED <<chain, wire>>, lock' \in Procs \cup {Nobody},
           submitting' \in {0} \cup Trustees, submitErr' \subseteq Trustees,
           budget' \in Budgets, past' \in Pasts
    PROVE  ClaimsInv'
<1>1. y \in Places \ {"claim", "share", "send", "tally"}
  BY DEF Places
<1>2. Keeps(loc[p], loc[p])
  BY DEF Keeps
<1>3. LocalType(p, y, loc[p]) /\ LocalClaims(chain.share, loc[p])
  BY <1>1, <1>2, LocalsOf, KeptType
<1>4. /\ at' \in [Procs -> Places] /\ loc' \in [Procs -> Locals]
      /\ \A q \in Procs :
            LocalType(q, at'[q], loc'[q]) /\ LocalClaims(chain'.share, loc'[q])
  BY <1>3, GoLocals, GrowsRefl
<1>5. disk' \in Disks /\ disk'.file = f
  BY DEF ClaimsInv, TypeOK, Disks
<1>6. TypeOK'
  BY <1>4, <1>5 DEF ClaimsInv, TypeOK
<1>7. SharedClaims'
  BY <1>5 DEF ClaimsInv, SharedClaims
<1> QED
  BY <1>4, <1>6, <1>7 DEF ClaimsInv

\* A torn file claims nothing.
LEMMA TruncateKeeps == ASSUME ClaimsInv, NEW p \in Procs, TruncateFile(p) PROVE ClaimsInv'
<1>1. CASE WriteFailed(p) /\ UNCHANGED disk
  BY <1>1, WriteFailedKeeps DEF TruncateFile, ClaimsInv, TypeOK
<1>2. CASE /\ disk' = [disk EXCEPT !.file = Torn] /\ Go(p, "put", loc[p])
           /\ UNCHANGED <<lock, budget>>
  <2>1. Torn \in Files /\ Torn.submitted = {}
    BY BlankFiles DEF Torn, NoFile
  <2>2. UNCHANGED <<chain, wire, submitting, submitErr, past>>
    BY DEF TruncateFile
  <2> QED
    BY <1>2, <2>1, <2>2, GoFile DEF ClaimsInv, TypeOK
<1> QED
  BY <1>1, <1>2 DEF TruncateFile

\* The file becomes what its writer believed.
LEMMA PutKeeps == ASSUME ClaimsInv, NEW p \in Procs, PutFile(p) PROVE ClaimsInv'
<1>1. past \in Pasts /\ UNCHANGED <<chain, wire, submitting>>
  BY DEF ClaimsInv, TypeOK, PutFile
<1>2. CASE WriteFailed(p)
  <2>1. budget' # budget
    BY <1>2, CeremonyAssumption DEF WriteFailed, Fault, ClaimsInv, TypeOK, Budgets
  <2>2. past' = [past EXCEPT !.kept = NoFile] /\ UNCHANGED <<disk, submitErr>>
    BY <2>1 DEF PutFile
  <2>3. past' \in Pasts
    BY <1>1, <2>2, SetKept, BlankFiles
  <2> QED
    BY <1>1, <1>2, <2>2, <2>3, WriteFailedKeeps
<1>3. CASE ~WriteFailed(p)
  <2> DEFINE s == past.kept.submitted \cup loc[p].next.submitted
             b == past.kept.published \/ loc[p].next.published
  <2>1. /\ loc[p].next \in Files
        /\ OnChain => loc[p].next.submitted \subseteq CompleteIn(chain.share)
    BY LocalsOf DEF Locals, LocalClaims
  <2>2. s \in SUBSET Trustees
    BY <1>1, <2>1 DEF Pasts, Files
  <2>3. b \in BOOLEAN
    BY DEF b
  <2>4. past' = [past EXCEPT !.kept = File(s, b)]
    BY <1>3 DEF PutFile
  <2>5. past' \in Pasts
    <3> HIDE DEF s, b
    <3> QED
      BY <1>1, <2>2, <2>3, <2>4, FileType, SetKept
  <2>6. submitErr' \subseteq Trustees
    BY <1>3 DEF PutFile, ClaimsInv, TypeOK
  <2>7. \E y \in {"answer", "put", "end"} : Go(p, y, loc[p])
    BY <1>3 DEF PutFile
  <2>8. disk' = [disk EXCEPT !.file = loc[p].next] /\ lock' = Nobody /\ UNCHANGED budget
    BY <1>3 DEF PutFile
  <2> QED
    BY <1>1, <2>1, <2>5, <2>6, <2>7, <2>8, GoFile DEF ClaimsInv, TypeOK
<1> QED
  BY <1>2, <1>3

-----------------------------------------------------------------------------
(* The phases.                                                               *)

\* A phase about to rewrite the file.
LEMMA WriteLocals ==
    ASSUME ClaimsInv, NEW op \in {"published", "closed"}, NEW m,
           m = [loc[Phase] EXCEPT !.op = op]
    PROVE  LocalType(Phase, "lock", m) /\ LocalClaims(chain.share, m)
<1>0. loc[Phase] \in Locals
  BY PhaseIsProc, LocalsOf
<1>1. m \in Locals
  BY <1>0 DEF Locals
<1>2. /\ m.op = op /\ m.job = loc[Phase].job /\ m.who = loc[Phase].who
      /\ m.contest = loc[Phase].contest /\ m.seen = loc[Phase].seen
      /\ m.next = loc[Phase].next /\ m.submitted = loc[Phase].submitted
  BY <1>0 DEF Locals
<1>3. "lock" \in Places
  BY DEF Places
<1>4. LocalType(Phase, "lock", m)
  BY <1>1, <1>2, <1>3, PhaseIsProc, LocalsOf DEF LocalType
<1>5. LocalClaims(chain.share, m)
  BY <1>2, PhaseIsProc, LocalsOf DEF LocalClaims
<1> QED
  BY <1>4, <1>5

\* A step of the phase that touches the bundle, the receipt or the election's status,
\* but none of the shares, the tally or the file.
LEMMA GoStatus ==
    ASSUME ClaimsInv, NEW p \in Procs, NEW place, NEW l, Go(p, place, l),
           LocalType(p, place, l), LocalClaims(chain.share, l),
           chain' \in Chains, chain'.share = chain.share, chain'.tallied = chain.tallied,
           chain'.signers = chain.signers, UNCHANGED wire,
           disk' \in Disks, disk'.file = disk.file, lock' \in Procs \cup {Nobody},
           submitting' \in {0} \cup Trustees, submitErr' \subseteq Trustees,
           budget' \in Budgets, past' \in Pasts
    PROVE  ClaimsInv'
<1>1. /\ at' \in [Procs -> Places] /\ loc' \in [Procs -> Locals]
      /\ \A q \in Procs :
            LocalType(q, at'[q], loc'[q]) /\ LocalClaims(chain'.share, loc'[q])
  BY GoLocals, GrowsRefl
<1>2. TypeOK'
  BY <1>1 DEF ClaimsInv, TypeOK
<1>3. SharedClaims'
  BY DEF ClaimsInv, SharedClaims
<1> QED
  BY <1>1, <1>2, <1>3 DEF ClaimsInv

\* The history of the close.
LEMMA SetClosed ==
    ASSUME NEW h \in Pasts, NEW b \in BOOLEAN
    PROVE  [h EXCEPT !.closed = b] \in Pasts
BY DEF Pasts

\* The bundle and the receipt do not touch the file.
LEMMA SetDisk ==
    ASSUME NEW d \in Disks, NEW e,
           \/ \E b \in {"none", "torn", "whole"} : e = [d EXCEPT !.bundle = b]
           \/ \E b \in BOOLEAN : e = [d EXCEPT !.receipt = b]
    PROVE  e \in Disks /\ e.file = d.file
BY DEF Disks

\* The election's status does not touch shares and tally.
LEMMA SetStatus ==
    ASSUME NEW c \in Chains, NEW s \in {"absent", "open", "closed"}, NEW d,
           d = [c EXCEPT !.status = s]
    PROVE  /\ d \in Chains /\ d.share = c.share
           /\ d.tallied = c.tallied /\ d.signers = c.signers
<1>1. d \in Chains
  BY DEF Chains
<1> QED
  BY <1>1 DEF Chains

\* CeremonyStart's bundle, reused, begun, written or not.
LEMMA BundleKeeps == ASSUME ClaimsInv, StartBundle \/ FillBundle PROVE ClaimsInv'
<1>0. Phase \in Procs
  BY PhaseIsProc
<1>1. /\ UNCHANGED <<chain, wire, lock, submitting, submitErr>>
      /\ chain \in Chains /\ disk \in Disks /\ past \in Pasts /\ budget \in Budgets
      /\ lock \in Procs \cup {Nobody} /\ submitting \in {0} \cup Trustees
      /\ submitErr \subseteq Trustees
  BY DEF StartBundle, FillBundle, ClaimsInv, TypeOK
<1>2. disk' \in Disks /\ disk'.file = disk.file
  <2>1. disk' = disk \/ \E b \in {"torn", "whole"} : disk' = [disk EXCEPT !.bundle = b]
    BY DEF StartBundle, FillBundle
  <2> QED
    BY <1>1, <2>1, SetDisk
<1>3. past' \in Pasts
  <2> DEFINE b == past.closed \/ ~OnChain
  <2>1. b \in BOOLEAN
    BY DEF b
  <2>2. past' = past \/ past' = [past EXCEPT !.closed = b]
    BY DEF StartBundle, FillBundle, AfterBundle
  <2> HIDE DEF b
  <2> QED
    BY <1>1, <2>1, <2>2, SetClosed
<1>4. budget' \in Budgets
  BY <1>1, FaultType DEF StartBundle, FillBundle, AfterBundle, ClaimsInv
<1>5. \/ \E x \in {"fill", "close"} : Go(Phase, x, loc[Phase])
      \/ Go(Phase, "lock", [loc[Phase] EXCEPT !.op = "closed"])
      \/ Go(Phase, "end", [loc[Phase] EXCEPT !.failed = TRUE])
  BY DEF StartBundle, FillBundle, AfterBundle, Write, Fail
<1>6. \A x \in {"fill", "close"} :
        LocalType(Phase, x, loc[Phase]) /\ LocalClaims(chain.share, loc[Phase])
  <2>1. {"fill", "close"} \subseteq Places \ {"claim", "share", "send", "tally"}
    BY DEF Places
  <2>2. Keeps(loc[Phase], loc[Phase])
    BY DEF Keeps
  <2> QED
    BY <1>0, <2>1, <2>2, LocalsOf, KeptType
<1> QED
  BY <1>0, <1>1, <1>2, <1>3, <1>4, <1>5, <1>6, WriteLocals, FailLocals, GoStatus

\* The close, however much of it took effect.
LEMMA CloseKeeps == ASSUME ClaimsInv, CloseElection PROVE ClaimsInv'
<1>0. Phase \in Procs
  BY PhaseIsProc
<1>1. /\ UNCHANGED <<wire, lock, submitting, submitErr>>
      /\ chain \in Chains /\ disk \in Disks /\ past \in Pasts /\ budget \in Budgets
      /\ lock \in Procs \cup {Nobody} /\ submitting \in {0} \cup Trustees
      /\ submitErr \subseteq Trustees
      /\ disk.receipt \in BOOLEAN /\ chain.status \in {"absent", "open", "closed"}
  BY DEF CloseElection, ClaimsInv, TypeOK, Disks, Chains
<1>2. disk' \in Disks /\ disk'.file = disk.file
  <2> DEFINE b == disk.receipt \/ chain.status # "closed"
  <2>1. \/ disk' = disk \/ disk' = [disk EXCEPT !.receipt = b]
        \/ \E r \in {disk.receipt, TRUE} : disk' = [disk EXCEPT !.receipt = r]
    BY DEF CloseElection
  <2>2. b \in BOOLEAN
    BY DEF b
  <2> HIDE DEF b
  <2>3. CASE disk' = disk
    BY <1>1, <2>3
  <2>4. CASE \E r \in BOOLEAN : disk' = [disk EXCEPT !.receipt = r]
    BY <1>1, <2>4, SetDisk
  <2> QED
    BY <1>1, <2>1, <2>2, <2>3, <2>4
<1>3. /\ chain' \in Chains /\ chain'.share = chain.share
      /\ chain'.tallied = chain.tallied /\ chain'.signers = chain.signers
  <2>1. \/ chain' = chain
        \/ \E s \in {"absent", "open", "closed"} : chain' = [chain EXCEPT !.status = s]
    BY <1>1 DEF CloseElection
  <2> QED
    BY <1>1, <2>1, SetStatus
<1>4. past' \in Pasts
  <2>1. past' = past \/ past' = [past EXCEPT !.closed = TRUE]
    BY DEF CloseElection
  <2> QED
    BY <1>1, <2>1, SetClosed
<1>5. budget' \in Budgets
  BY <1>1, FaultType DEF CloseElection, ClaimsInv
<1>6. \/ Go(Phase, "lock", [loc[Phase] EXCEPT !.op = "closed"])
      \/ Go(Phase, "end", [loc[Phase] EXCEPT !.failed = TRUE])
  BY DEF CloseElection, Write, Fail
<1> QED
  BY <1>0, <1>1, <1>2, <1>3, <1>4, <1>5, <1>6, WriteLocals, FailLocals, GoStatus

\* A phase is at one of its contests, or just past them.
LEMMA ContestRange == \A l \in Locals : l.contest \in 1..(NumContests + 1)
BY DEF Locals

\* The phase's locals with the next contest to send.
LEMMA NextContest ==
    ASSUME ClaimsInv, at[Phase] \in {"share", "send"}, NEW share, Grows(chain.share, share),
           loc[Phase].contest <= NumContests,
           OnChain, share[loc[Phase].who][loc[Phase].contest] = "ours",
           NEW m, m = [loc[Phase] EXCEPT !.contest = loc[Phase].contest + 1]
    PROVE  LocalType(Phase, "share", m) /\ LocalClaims(share, m)
<1> DEFINE l == loc[Phase]
<1>0. /\ l \in Locals /\ LocalType(Phase, at[Phase], l) /\ LocalClaims(share, l)
      /\ l.who \in Trustees /\ l.job = "submit"
  <2>1. /\ l \in Locals /\ LocalType(Phase, at[Phase], l) /\ LocalClaims(chain.share, l)
    BY PhaseIsProc, LocalsOf
  <2>2. LocalClaims(share, l)
    BY <2>1, ClaimsGrow
  <2> QED
    BY <2>1, <2>2 DEF LocalType
<1> HIDE DEF l
<1>1. l.contest + 1 \in 1..(NumContests + 1) /\ l.contest \in Int
  <2>1. l.contest \in 1..(NumContests + 1)
    BY <1>0, ContestRange
  <2>2. l.contest <= NumContests
    BY DEF l
  <2> QED
    BY <2>1, <2>2, CeremonyAssumption
<1>2. m \in Locals
  BY <1>0, <1>1 DEF Locals, l
<1>3. /\ m.contest = l.contest + 1 /\ m.op = l.op /\ m.job = l.job /\ m.who = l.who
      /\ m.seen = l.seen /\ m.next = l.next /\ m.submitted = l.submitted
  BY <1>0 DEF Locals, l
<1>4. LocalType(Phase, "share", m)
  BY <1>0, <1>2, <1>3 DEF LocalType, Places
<1>5. ASSUME NEW c \in Contests, c < m.contest
      PROVE  m.who \in Trustees /\ share[m.who][c] = "ours"
  <2>1. c < l.contest \/ c = l.contest
    BY <1>1, <1>3, <1>5 DEF Contests
  <2> QED
    BY <1>0, <1>3, <2>1 DEF LocalClaims, l
<1>6. LocalClaims(share, m)
  BY <1>0, <1>3, <1>5 DEF LocalClaims
<1> QED
  BY <1>4, <1>6

\* A share skipped is on the chain.
LEMMA ProbeShareKeeps == ASSUME ClaimsInv, ProbeShare PROVE ClaimsInv'
<1> DEFINE m == [loc[Phase] EXCEPT !.contest = loc[Phase].contest + 1]
<1>0. Phase \in Procs
  BY PhaseIsProc
<1>1. /\ UNCHANGED <<chain, wire, disk, lock, submitting, submitErr, past>>
      /\ at[Phase] = "share" /\ OnChain /\ loc[Phase].contest <= NumContests
  BY DEF ProbeShare
<1>2. budget' \in Budgets
  BY FaultType DEF ProbeShare, ClaimsInv, TypeOK
<1>3. CASE /\ chain.share[loc[Phase].who][loc[Phase].contest] = "ours"
           /\ Go(Phase, "share", m)
  <2>1. LocalType(Phase, "share", m) /\ LocalClaims(chain.share, m)
    BY <1>1, <1>3, NextContest, GrowsRefl
  <2> HIDE DEF m
  <2> QED
    BY <1>0, <1>1, <1>2, <1>3, <2>1, GoOnly DEF ClaimsInv, TypeOK
<1>4. CASE Go(Phase, "send", loc[Phase])
  <2>1. LocalType(Phase, "send", loc[Phase])
    BY <1>0, <1>1, LocalsOf DEF LocalType, Places
  <2> QED
    BY <1>0, <1>1, <1>2, <1>4, <2>1, LocalsOf, GoOnly DEF ClaimsInv, TypeOK
<1>5. CASE Fail(Phase)
  BY <1>0, <1>1, <1>2, <1>5, FailOnly DEF ClaimsInv, TypeOK
<1> QED
  BY <1>3, <1>4, <1>5 DEF ProbeShare

\* The chain with one more of the bundle's shares.
LEMMA ShareRecorded ==
    ASSUME TypeOK, NEW t \in Trustees, NEW c \in Contests, NEW s \in {"ours", "foreign"},
           chain.share[t][c] = "none", NEW d, d = [chain EXCEPT !.share[t][c] = s]
    PROVE  /\ d \in Chains /\ Grows(chain.share, d.share) /\ d.share[t][c] = s
           /\ d.tallied = chain.tallied /\ d.signers = chain.signers
<1>1. chain \in Chains
  BY DEF TypeOK
<1>2. d \in Chains
  BY <1>1 DEF Chains
<1>3. d.tallied = chain.tallied /\ d.signers = chain.signers /\ d.share[t][c] = s
  BY <1>1 DEF Chains
<1>4. ASSUME NEW u \in Trustees, NEW e \in Contests, chain.share[u][e] = "ours"
      PROVE  d.share[u][e] = "ours"
  <2>1. u # t \/ e # c
    BY <1>4
  <2>2. d.share = [chain.share EXCEPT ![t] = [chain.share[t] EXCEPT ![c] = s]]
    BY <1>1 DEF Chains
  <2>3. chain.share \in [Trustees -> [Contests -> {"none", "ours", "foreign"}]]
    BY <1>1 DEF Chains
  <2> QED
    BY <1>4, <2>1, <2>2, <2>3
<1> QED
  BY <1>2, <1>3, <1>4 DEF Grows

\* A step of a goroutine that adds a share.
LEMMA GoGrow ==
    ASSUME ClaimsInv, NEW p \in Procs, NEW place, NEW l, Go(p, place, l),
           LocalType(p, place, l), LocalClaims(chain'.share, l),
           chain' \in Chains, Grows(chain.share, chain'.share),
           chain'.tallied = chain.tallied, chain'.signers = chain.signers,
           UNCHANGED <<disk, lock, submitting, submitErr, past>>,
           wire' \in Wires, wire'.tallies = wire.tallies, budget' \in Budgets
    PROVE  ClaimsInv'
<1>1. /\ at' \in [Procs -> Places] /\ loc' \in [Procs -> Locals]
      /\ \A q \in Procs :
            LocalType(q, at'[q], loc'[q]) /\ LocalClaims(chain'.share, loc'[q])
  BY GoLocals
<1>2. TypeOK'
  BY <1>1 DEF ClaimsInv, TypeOK
<1>3. SharedClaims'
  <2>1. CompleteIn(chain.share) \subseteq CompleteIn(chain'.share)
    BY CompleteGrows
  <2>2. \A signers : Endorsed(chain.share, signers) => Endorsed(chain'.share, signers)
    BY EndorsedGrows
  <2> QED
    BY <2>1, <2>2 DEF ClaimsInv, SharedClaims
<1> QED
  BY <1>1, <1>2, <1>3 DEF ClaimsInv

\* A share accepted is on the chain; one whose answer was lost may get there.
LEMMA SendKeeps == ASSUME ClaimsInv, SendShare PROVE ClaimsInv'
<1> DEFINE t == loc[Phase].who
           c == loc[Phase].contest
           m == [loc[Phase] EXCEPT !.contest = c + 1]
<1>0. Phase \in Procs
  BY PhaseIsProc
<1>1. /\ at[Phase] = "send" /\ UNCHANGED <<disk, lock, submitting, submitErr, past>>
      /\ budget' \in Budgets
  BY FaultType DEF SendShare, ClaimsInv, TypeOK
<1>2. OnChain /\ t \in Trustees /\ c \in Contests /\ c <= NumContests
  <2>1. OnChain /\ t \in Trustees /\ c <= NumContests
    BY <1>0, <1>1, LocalsOf DEF LocalType
  <2>2. c \in 1..(NumContests + 1)
    BY <1>0, LocalsOf, ContestRange
  <2> QED
    BY <2>1, <2>2, CeremonyAssumption DEF Contests
<1>3. CASE /\ chain.share[t][c] = "none"
           /\ chain' = [chain EXCEPT !.share[t][c] = "ours"]
           /\ Go(Phase, "share", m) /\ UNCHANGED wire
  <2>1. /\ chain' \in Chains /\ Grows(chain.share, chain'.share)
        /\ chain'.share[t][c] = "ours"
        /\ chain'.tallied = chain.tallied /\ chain'.signers = chain.signers
    BY <1>2, <1>3, ShareRecorded DEF ClaimsInv
  <2>2. LocalType(Phase, "share", m) /\ LocalClaims(chain'.share, m)
    BY <1>1, <1>2, <2>1, NextContest
  <2>3. wire' \in Wires /\ wire'.tallies = wire.tallies
    BY <1>3 DEF ClaimsInv, TypeOK
  <2> HIDE DEF m
  <2> QED
    BY <1>0, <1>1, <1>3, <2>1, <2>2, <2>3, GoGrow
<1>4. CASE Fail(Phase) /\ UNCHANGED <<chain, wire>>
  BY <1>0, <1>1, <1>4, FailOnly DEF ClaimsInv, TypeOK
<1>5. CASE /\ Fail(Phase) /\ UNCHANGED chain
           /\ \E w \in SUBSET {<<t, c>>} : wire' = [wire EXCEPT !.shares = wire.shares \cup w]
  <2>1. wire' \in Wires /\ wire'.tallies = wire.tallies
    BY <1>2, <1>5 DEF ClaimsInv, TypeOK, Wires
  <2>2. Grows(chain.share, chain'.share) /\ chain' \in Chains
    BY <1>5, GrowsRefl DEF ClaimsInv, TypeOK
  <2> DEFINE n == [loc[Phase] EXCEPT !.failed = TRUE]
  <2>3. LocalType(Phase, "end", n) /\ LocalClaims(chain'.share, n)
    BY <1>0, <1>5, FailLocals
  <2>4. Go(Phase, "end", n)
    BY <1>5 DEF Fail
  <2> HIDE DEF n
  <2> QED
    BY <1>0, <1>1, <1>5, <2>1, <2>2, <2>3, <2>4, GoGrow
<1> QED
  BY <1>3, <1>4, <1>5 DEF SendShare

\* A trustee is marked when each of its contests was skipped or accepted.
LEMMA DoneKeeps == ASSUME ClaimsInv, SharesDone PROVE ClaimsInv'
<1> DEFINE l == loc[Phase]
           m == [l EXCEPT !.op = "submitted"]
<1>0. Phase \in Procs
  BY PhaseIsProc
<1>1. /\ l \in Locals /\ LocalType(Phase, "share", l) /\ LocalClaims(chain.share, l)
      /\ l.contest \in 1..(NumContests + 1)
      /\ OnChain => l.contest > NumContests
  BY <1>0, LocalsOf, ContestRange DEF SharesDone
<1>2. l.who \in Trustees /\ l.job = "submit"
  BY <1>1 DEF LocalType
<1>3. OnChain => l.who \in CompleteIn(chain.share)
  <2> HIDE DEF l
  <2>1. OnChain => \A c \in Contests : c < l.contest
    BY <1>1, CeremonyAssumption DEF Contests
  <2> QED
    BY <1>1, <1>2, <2>1 DEF LocalClaims, CompleteIn
<1>4. /\ UNCHANGED <<chain, wire, disk, lock, submitting, submitErr, budget>>
      /\ past' = [past EXCEPT !.acted = past.acted \cup {l.who}]
      /\ Go(Phase, "lock", m)
  BY DEF SharesDone, Write
<1> HIDE DEF l
<1>5. m \in Locals
  BY <1>1 DEF Locals
<1>6. /\ m.op = "submitted" /\ m.contest = l.contest /\ m.job = l.job /\ m.who = l.who
      /\ m.seen = l.seen /\ m.next = l.next /\ m.submitted = l.submitted
  BY <1>1 DEF Locals
<1> HIDE DEF m
<1>7. LocalType(Phase, "lock", m)
  BY <1>1, <1>2, <1>5, <1>6 DEF LocalType, Places
<1>8. LocalClaims(chain.share, m)
  BY <1>1, <1>3, <1>6 DEF LocalClaims
<1>9. past' \in Pasts
  BY <1>2, <1>4 DEF ClaimsInv, TypeOK, Pasts
<1> QED
  BY <1>0, <1>4, <1>7, <1>8, <1>9, GoOnly DEF ClaimsInv, TypeOK

\* Only an on-chain run goes on to send a tally.
LEMMA ThresholdKeeps == ASSUME ClaimsInv, CheckThreshold PROVE ClaimsInv'
<1>0. Phase \in Procs
  BY PhaseIsProc
<1>1. /\ UNCHANGED <<chain, wire, disk, lock, submitting, submitErr, past>>
      /\ budget' \in Budgets
  BY FaultType DEF CheckThreshold, ClaimsInv, TypeOK
<1>2. \/ Fail(Phase)
      \/ OnChain /\ Go(Phase, "tally", loc[Phase])
      \/ Go(Phase, "lock", [loc[Phase] EXCEPT !.op = "published"])
  BY DEF CheckThreshold, Write
<1>3. CASE Fail(Phase)
  BY <1>0, <1>1, <1>3, FailOnly DEF ClaimsInv, TypeOK
<1>4. CASE OnChain /\ Go(Phase, "tally", loc[Phase])
  <2>1. LocalType(Phase, "tally", loc[Phase])
    BY <1>0, <1>4, LocalsOf DEF LocalType, Places
  <2> QED
    BY <1>0, <1>1, <1>4, <2>1, LocalsOf, GoOnly DEF ClaimsInv, TypeOK
<1>5. CASE Go(Phase, "lock", [loc[Phase] EXCEPT !.op = "published"])
  <2> DEFINE m == [loc[Phase] EXCEPT !.op = "published"]
  <2>1. LocalType(Phase, "lock", m) /\ LocalClaims(chain.share, m)
    BY WriteLocals
  <2> HIDE DEF m
  <2> QED
    BY <1>0, <1>1, <1>5, <2>1, GoOnly DEF ClaimsInv, TypeOK, m
<1> QED
  BY <1>2, <1>3, <1>4, <1>5

\* The chain with its tally.
LEMMA TallyRecorded ==
    ASSUME NEW c \in Chains, NEW signers \in SUBSET Trustees, NEW d,
           d = [c EXCEPT !.tallied = TRUE, !.signers = signers]
    PROVE  d \in Chains /\ d.share = c.share /\ d.signers = signers
<1>1. d \in Chains
  BY DEF Chains
<1> QED
  BY <1>1 DEF Chains

\* A step of a goroutine that publishes a tally or leaves one on the wire.
LEMMA GoTally ==
    ASSUME ClaimsInv, OnChain, NEW p \in Procs, NEW place, NEW l, Go(p, place, l),
           LocalType(p, place, l), LocalClaims(chain.share, l),
           NEW signers \in SUBSET Trustees, Endorsed(chain.share, signers),
           chain' \in Chains, chain'.share = chain.share,
           chain'.tallied => chain'.signers = signers
                             \/ (chain.tallied /\ chain'.signers = chain.signers),
           wire' \in Wires, wire'.tallies \subseteq wire.tallies \cup {signers},
           UNCHANGED <<disk, lock, submitting, submitErr, past>>, budget' \in Budgets
    PROVE  ClaimsInv'
<1>1. /\ at' \in [Procs -> Places] /\ loc' \in [Procs -> Locals]
      /\ \A q \in Procs :
            LocalType(q, at'[q], loc'[q]) /\ LocalClaims(chain'.share, loc'[q])
  BY GoLocals, GrowsRefl
<1>2. TypeOK'
  BY <1>1 DEF ClaimsInv, TypeOK
<1>3. SharedClaims'
  BY DEF ClaimsInv, SharedClaims
<1> QED
  BY <1>1, <1>2, <1>3 DEF ClaimsInv

\* The signers kept are complete, and enough of them, when the tally is sent.
LEMMA PublishKeeps == ASSUME ClaimsInv, PublishTally PROVE ClaimsInv'
<1> DEFINE s == loc[Phase].submitted
<1>0. Phase \in Procs
  BY PhaseIsProc
<1>1. /\ at[Phase] = "tally" /\ UNCHANGED <<disk, lock, submitting, submitErr, past>>
      /\ budget' \in Budgets
  BY FaultType DEF PublishTally, ClaimsInv, TypeOK
<1>2. OnChain /\ s \in SUBSET Trustees /\ s \subseteq CompleteIn(chain.share)
  BY <1>0, <1>1, LocalsOf DEF LocalType, Locals, LocalClaims
<1>3. PublishAccepts(s) => Endorsed(chain.share, s)
  BY <1>2 DEF PublishAccepts, Endorsed
<1>4. chain \in Chains /\ wire \in Wires
  BY DEF ClaimsInv, TypeOK
<1>5. CASE /\ PublishAccepts(s)
           /\ chain' = [chain EXCEPT !.tallied = TRUE, !.signers = s]
           /\ Write("published") /\ UNCHANGED wire
  <2> DEFINE m == [loc[Phase] EXCEPT !.op = "published"]
  <2>1. LocalType(Phase, "lock", m) /\ LocalClaims(chain.share, m)
    BY WriteLocals
  <2>2. Go(Phase, "lock", m)
    BY <1>5 DEF Write
  <2>3. chain' \in Chains /\ chain'.share = chain.share /\ chain'.signers = s
    <3> HIDE DEF s
    <3>1. chain' = [chain EXCEPT !.tallied = TRUE, !.signers = s]
      BY <1>5
    <3> QED
      BY <1>2, <1>4, <3>1, TallyRecorded
  <2>4. wire' \in Wires /\ wire'.tallies = wire.tallies
    BY <1>4, <1>5
  <2> HIDE DEF m, s
  <2> QED
    BY <1>0, <1>1, <1>2, <1>3, <1>5, <2>1, <2>2, <2>3, <2>4, GoTally
<1>6. CASE Fail(Phase) /\ UNCHANGED <<chain, wire>>
  BY <1>0, <1>1, <1>6, FailOnly DEF ClaimsInv, TypeOK
<1>7. CASE /\ PublishAccepts(s) /\ Fail(Phase) /\ UNCHANGED chain
           /\ \E w \in SUBSET {s} : wire' = [wire EXCEPT !.tallies = wire.tallies \cup w]
  <2> DEFINE m == [loc[Phase] EXCEPT !.failed = TRUE]
  <2>1. LocalType(Phase, "end", m) /\ LocalClaims(chain.share, m)
    BY <1>0, FailLocals
  <2>2. Go(Phase, "end", m)
    BY <1>7 DEF Fail
  <2>3. wire' \in Wires /\ wire'.tallies \subseteq wire.tallies \cup {s}
    BY <1>2, <1>4, <1>7 DEF Wires
  <2> HIDE DEF m, s
  <2> QED
    BY <1>0, <1>1, <1>2, <1>3, <1>4, <1>7, <2>1, <2>2, <2>3, GoTally
<1>8. \/ /\ PublishAccepts(s)
         /\ chain' = [chain EXCEPT !.tallied = TRUE, !.signers = s]
         /\ Write("published") /\ UNCHANGED wire
      \/ Fail(Phase) /\ UNCHANGED <<chain, wire>>
      \/ /\ Fail(Phase) /\ UNCHANGED chain
         /\ \E w \in SUBSET {s} :
              wire' = [wire EXCEPT !.tallies = wire.tallies
                                               \cup (IF PublishAccepts(s) THEN w ELSE {})]
  BY DEF PublishTally, tallyToPublish
<1>9. CASE /\ ~PublishAccepts(s) /\ Fail(Phase) /\ UNCHANGED chain
           /\ \E w \in SUBSET {s} :
                wire' = [wire EXCEPT !.tallies = wire.tallies
                                                 \cup (IF PublishAccepts(s) THEN w ELSE {})]
  <2>1. wire' = [wire EXCEPT !.tallies = wire.tallies \cup {}]
    BY <1>9
  <2>2. wire' = wire
    BY <1>4, <2>1 DEF Wires
  <2> QED
    BY <1>6, <1>9, <2>2
<1> HIDE DEF s
<1> QED
  BY <1>5, <1>6, <1>7, <1>8, <1>9

\* The phase is over and claims nothing.
LEMMA EndKeeps == ASSUME ClaimsInv, EndPhase PROVE ClaimsInv'
<1>0. Phase \in Procs
  BY PhaseIsProc
<1>1. loc[Phase].job = "submit" => loc[Phase].who \in Trustees
  BY <1>0, LocalsOf DEF LocalType
<1>2. /\ submitting' \in {0} \cup Trustees /\ submitErr' \subseteq Trustees
      /\ Return(Phase) /\ UNCHANGED <<chain, wire, disk, lock, budget, past>>
  BY <1>1 DEF EndPhase, ClaimsInv, TypeOK
<1> QED
  BY <1>0, <1>2, ReturnOnly DEF ClaimsInv, TypeOK

-----------------------------------------------------------------------------
(* The world.                                                                *)

\* The chain moves on under goroutines that stay where they are.
LEMMA WorldKeeps ==
    ASSUME ClaimsInv, UNCHANGED <<disk, lock, at, loc, submitting, submitErr, past>>,
           chain' \in Chains, Grows(chain.share, chain'.share), wire' \in Wires,
           wire'.tallies \subseteq wire.tallies, budget' \in Budgets,
           \/ chain'.tallied = chain.tallied /\ chain'.signers = chain.signers
           \/ chain'.signers \in wire.tallies
    PROVE  ClaimsInv'
<1>1. TypeOK'
  BY DEF ClaimsInv, TypeOK
<1>2. ASSUME NEW p \in Procs
      PROVE  LocalType(p, at[p], loc[p]) /\ LocalClaims(chain'.share, loc[p])
  BY LocalsOf, ClaimsGrow
<1>3. SharedClaims'
  <2>1. CompleteIn(chain.share) \subseteq CompleteIn(chain'.share)
    BY CompleteGrows
  <2>2. \A signers : Endorsed(chain.share, signers) => Endorsed(chain'.share, signers)
    BY EndorsedGrows
  <2> QED
    BY <2>1, <2>2 DEF ClaimsInv, SharedClaims
<1> QED
  BY <1>1, <1>2, <1>3 DEF ClaimsInv

\* A share lands late.
LEMMA LandShareKeeps ==
    ASSUME ClaimsInv, NEW t \in Trustees, NEW c \in Contests, LandShare(t, c)
    PROVE  ClaimsInv'
<1>1. chain \in Chains /\ wire \in Wires /\ budget \in Budgets
  BY DEF ClaimsInv, TypeOK
<1>2. /\ UNCHANGED <<disk, lock, at, loc, submitting, submitErr, budget, past>>
      /\ wire' = [wire EXCEPT !.shares = wire.shares \ {<<t, c>>}]
  BY DEF LandShare
<1>3. wire' \in Wires /\ wire'.tallies = wire.tallies
  BY <1>1, <1>2 DEF Wires
<1>4. CASE chain' = chain
  BY <1>1, <1>2, <1>3, <1>4, GrowsRefl, WorldKeeps
<1>5. CASE chain.share[t][c] = "none"
  <2>1. chain' = [chain EXCEPT !.share[t][c] = "ours"]
    BY <1>5 DEF LandShare
  <2>2. /\ chain' \in Chains /\ Grows(chain.share, chain'.share)
        /\ chain'.tallied = chain.tallied /\ chain'.signers = chain.signers
    BY <1>5, <2>1, ShareRecorded DEF ClaimsInv
  <2> QED
    BY <1>1, <1>2, <1>3, <2>2, WorldKeeps
<1> QED
  BY <1>4, <1>5 DEF LandShare

\* A share comes from elsewhere; it never replaces one.
LEMMA ElsewhereKeeps ==
    ASSUME ClaimsInv, NEW t \in Trustees, NEW c \in Contests, SubmitElsewhere(t, c)
    PROVE  ClaimsInv'
<1>1. wire \in Wires /\ budget \in Budgets
  BY DEF ClaimsInv, TypeOK
<1>2. UNCHANGED <<wire, disk, lock, at, loc, submitting, submitErr, past>>
  BY DEF SubmitElsewhere
<1>3. budget' \in Budgets
  BY <1>1, CeremonyAssumption DEF SubmitElsewhere, Budgets
<1>4. PICK s \in {"ours", "foreign"} : chain' = [chain EXCEPT !.share[t][c] = s]
  BY DEF SubmitElsewhere
<1>5. chain.share[t][c] = "none"
  BY DEF SubmitElsewhere
<1>6. /\ chain' \in Chains /\ Grows(chain.share, chain'.share)
      /\ chain'.tallied = chain.tallied /\ chain'.signers = chain.signers
  BY <1>4, <1>5, ShareRecorded DEF ClaimsInv
<1> QED
  BY <1>1, <1>2, <1>3, <1>6, WorldKeeps

\* A tally lands late; its signers were complete when it was sent.
LEMMA LandTallyKeeps ==
    ASSUME ClaimsInv, NEW signers \in SUBSET Trustees, LandTally(signers)
    PROVE  ClaimsInv'
<1>1. chain \in Chains /\ wire \in Wires /\ budget \in Budgets
  BY DEF ClaimsInv, TypeOK
<1>2. /\ UNCHANGED <<disk, lock, at, loc, submitting, submitErr, budget, past>>
      /\ signers \in wire.tallies
      /\ wire' = [wire EXCEPT !.tallies = wire.tallies \ {signers}]
  BY DEF LandTally
<1>3. wire' \in Wires /\ wire'.tallies \subseteq wire.tallies
  BY <1>1, <1>2 DEF Wires
<1>4. CASE chain' = chain
  BY <1>1, <1>2, <1>3, <1>4, GrowsRefl, WorldKeeps
<1>5. CASE chain' = [chain EXCEPT !.tallied = TRUE, !.signers = signers]
  <2>1. chain' \in Chains /\ chain'.share = chain.share /\ chain'.signers = signers
    BY <1>1, <1>5, TallyRecorded
  <2>2. Grows(chain.share, chain'.share)
    BY <2>1, GrowsRefl
  <2> QED
    BY <1>1, <1>2, <1>3, <2>1, <2>2, WorldKeeps
<1> QED
  BY <1>4, <1>5 DEF LandTally

\* A kill forgets beliefs and adds none.
LEMMA KillKeeps == ASSUME ClaimsInv, Kill PROVE ClaimsInv'
<1>1. /\ at' = [p \in Procs |-> "idle"] /\ loc' = [p \in Procs |-> Idle]
      /\ lock' = Nobody /\ submitting' = 0 /\ submitErr' = {}
      /\ UNCHANGED <<chain, wire, disk>>
  BY DEF Kill
<1>2. past' \in Pasts
  <2>1. past \in Pasts /\ past.kept \in Files
    BY DEF ClaimsInv, TypeOK, Pasts
  <2>2. \E f \in Files : past' = [past EXCEPT !.kept = f]
    BY <2>1, BlankFiles DEF Kill
  <2> QED
    BY <2>1, <2>2, SetKept
<1>3. budget' \in Budgets
  BY FaultType DEF Kill, ClaimsInv
<1>4. TypeOK'
  BY <1>1, <1>2, <1>3, IdleType DEF ClaimsInv, TypeOK, Places
<1>5. ASSUME NEW p \in Procs
      PROVE  LocalType(p, at'[p], loc'[p]) /\ LocalClaims(chain.share, loc'[p])
  <2>1. at'[p] = "idle" /\ loc'[p] = Idle
    BY <1>1
  <2> QED
    BY <2>1, IdleClaims
<1>6. SharedClaims'
  BY <1>1 DEF ClaimsInv, SharedClaims
<1> QED
  BY <1>1, <1>4, <1>5, <1>6 DEF ClaimsInv

\* At first nothing is claimed.
LEMMA InitClaims == ASSUME Init PROVE ClaimsInv
<1>1. /\ at = [p \in Procs |-> "idle"] /\ loc = [p \in Procs |-> Idle]
      /\ lock = Nobody /\ submitting = 0 /\ submitErr = {}
      /\ disk = [bundle |-> "none", receipt |-> FALSE, file |-> NoFile]
      /\ wire = [shares |-> {}, tallies |-> {}]
      /\ budget = [faults |-> 0, elsewhere |-> 0]
      /\ past = [acted |-> {}, closed |-> FALSE, kept |-> NoFile]
      /\ chain = [status |-> "absent", tallied |-> FALSE, signers |-> {},
                  share |-> [t \in Trustees |-> [c \in Contests |-> "none"]]]
  BY DEF Init, InitPast
<1>2. chain \in Chains /\ wire \in Wires
  BY <1>1 DEF Chains, Wires
<1>3. disk \in Disks /\ past \in Pasts
  BY <1>1, BlankFiles DEF Disks, Pasts
<1>4. budget \in Budgets
  BY <1>1, CeremonyAssumption DEF Budgets
<1>5. at \in [Procs -> Places] /\ loc \in [Procs -> Locals]
  BY <1>1, IdleType DEF Places
<1>6. TypeOK
  BY <1>1, <1>2, <1>3, <1>4, <1>5 DEF TypeOK
<1>7. ASSUME NEW p \in Procs
      PROVE  LocalType(p, at[p], loc[p]) /\ LocalClaims(chain.share, loc[p])
  <2>1. at[p] = "idle" /\ loc[p] = Idle
    BY <1>1
  <2> QED
    BY <2>1, IdleClaims
<1>8. /\ disk.file.submitted = {} /\ wire.tallies = {} /\ ~chain.tallied
  BY <1>1 DEF NoFile
<1>9. SharedClaims
  BY <1>8 DEF SharedClaims
<1> QED
  BY <1>6, <1>7, <1>9 DEF ClaimsInv

-----------------------------------------------------------------------------
(* The theorems.                                                             *)

\* Every step of CeremonyStatus and of a rewrite.
LEMMA StatusKeeps == ASSUME ClaimsInv, NEW p \in Procs, Status(p) PROVE ClaimsInv'
BY ReadKeeps, StatKeeps, ProbeKeeps, ProbeTallyKeeps, LockKeeps, TruncateKeeps, PutKeeps
   DEF Status

\* Every step of a handler.
LEMMA ServeKeeps == ASSUME ClaimsInv, NEW h \in Handlers, Serve(h) PROVE ClaimsInv'
BY PhaseIsProc, StatusKeeps, AnswerKeeps, ClaimKeeps DEF Serve

\* Every step of the phase.
LEMMA PhaseKeeps == ASSUME ClaimsInv, RunPhase PROVE ClaimsInv'
BY PhaseIsProc, StatusKeeps, BundleKeeps, CloseKeeps, ProbeShareKeeps, SendKeeps,
   DoneKeeps,
   ThresholdKeeps, PublishKeeps, EndKeeps
   DEF RunPhase

\* Nothing moves.
LEMMA StutterKeeps == ASSUME ClaimsInv, UNCHANGED vars PROVE ClaimsInv'
<1>1. TypeOK'
  BY DEF ClaimsInv, TypeOK, vars
<1>2. SharedClaims'
  BY DEF ClaimsInv, SharedClaims, vars
<1>3. \A p \in Procs : LocalType(p, at'[p], loc'[p]) /\ LocalClaims(chain'.share, loc'[p])
  BY DEF ClaimsInv, vars
<1> QED
  BY <1>1, <1>2, <1>3 DEF ClaimsInv

\* Whatever the requests, the phase and the world do, nothing in the console claims
\* more of the chain than it holds.
THEOREM Claims == Spec => []ClaimsInv
<1>1. Init => ClaimsInv
  BY InitClaims
<1>2. ClaimsInv /\ [Next]_vars => ClaimsInv'
  <2> SUFFICES ASSUME ClaimsInv, [Next]_vars PROVE ClaimsInv'
    OBVIOUS
  <2>1. CASE \E h \in Handlers : Request(h) \/ Serve(h)
    BY <2>1, RequestKeeps, ServeKeeps
  <2>2. CASE RunPhase
    BY <2>2, PhaseKeeps
  <2>3. CASE World
    BY <2>3, LandShareKeeps, ElsewhereKeeps, LandTallyKeeps, KillKeeps DEF World
  <2>4. CASE UNCHANGED vars
    BY <2>4, StutterKeeps
  <2> QED
    BY <2>1, <2>2, <2>3, <2>4 DEF Next
<1> QED
  BY <1>1, <1>2, PTL DEF Spec

\* The model's word for it.
LEMMA CompleteIsCompleteIn == Complete = CompleteIn(chain.share)
BY DEF Complete, Holds, CompleteIn

\* Every variable keeps its shape; no walk over the contests leaves them.
THEOREM CeremonyTypes == Spec => []TypeOK
<1>1. ClaimsInv => TypeOK
  BY DEF ClaimsInv
<1> QED
  BY <1>1, Claims, PTL

\* What ceremony.json or a status calls submitted is on the chain, share by share.
THEOREM RecordIsTrue == Spec => []RecordedIsOnChain
<1>1. ClaimsInv => RecordedIsOnChain
  BY CompleteIsCompleteIn DEF ClaimsInv, SharedClaims, LocalClaims, RecordedIsOnChain
<1> QED
  BY <1>1, Claims, PTL

\* A published tally carries a threshold of signatures, all of trustees whose shares
\* are on the chain.
THEOREM TallyIsEndorsed == Spec => []TallyEndorsedByContributors
<1>1. ClaimsInv => TallyEndorsedByContributors
  BY CompleteIsCompleteIn DEF ClaimsInv, SharedClaims, Endorsed,
     TallyEndorsedByContributors
<1> QED
  BY <1>1, Claims, PTL

-----------------------------------------------------------------------------
(* The lock.  Between a writer's read of the file and its write nobody else  *)
(* writes, so that the rewrite contains all that was recorded before.        *)

Writing == {"truncate", "put"}

Covers(f, k) == k.submitted \subseteq f.submitted /\ (k.published => f.published)

\* Only the holder writes; what it is about to write, and what the file says while
\* it is whole, is at least what was kept; a file being written is torn.
LockInv ==
    /\ \A p \in Procs : at[p] \in Writing => lock = p /\ Covers(loc[p].next, past.kept)
    /\ \A p \in Procs : at[p] = "put" => disk.file.kind = "torn"
    /\ (\A p \in Procs : at[p] # "put") => Covers(disk.file, past.kept)

\* A step that leaves the lock, the file and every writer alone.
LEMMA QuietKeeps ==
    ASSUME LockInv, lock' = lock, disk'.file = disk.file, past'.kept = past.kept,
           \A p \in Procs : at[p] = "put" => at'[p] = "put",
           \A p \in Procs : at'[p] \in Writing => at[p] = at'[p] /\ loc'[p] = loc[p]
    PROVE  LockInv'
BY DEF LockInv, Writing

\* A goroutine that neither was nor becomes a writer.
LEMMA GoQuiet ==
    ASSUME TypeOK, LockInv, NEW p \in Procs, NEW place, NEW l, Go(p, place, l),
           at[p] \notin Writing, place \notin Writing,
           lock' = lock, disk'.file = disk.file, past'.kept = past.kept
    PROVE  LockInv'
<1>1. ASSUME NEW q \in Procs
      PROVE  /\ at[q] = "put" => at'[q] = "put"
             /\ at'[q] \in Writing => at[q] = at'[q] /\ loc'[q] = loc[q]
  <2>1. CASE q = p
    BY <2>1 DEF Go, TypeOK, Writing
  <2>2. CASE q # p
    BY <2>2 DEF Go, TypeOK
  <2> QED
    BY <2>1, <2>2
<1> QED
  BY <1>1, QuietKeeps

\* A writer that gives the lock up leaves no writer behind.
LEMMA GoRelease ==
    ASSUME TypeOK, LockInv, NEW p \in Procs, NEW place, NEW l, Go(p, place, l),
           at[p] \in Writing, place \notin Writing,
           Covers(disk'.file, past'.kept)
    PROVE  LockInv'
<1>1. ASSUME NEW q \in Procs PROVE at'[q] \notin Writing
  <2>1. CASE q = p
    BY <2>1 DEF Go, TypeOK
  <2>2. CASE q # p
    BY <2>2 DEF Go, TypeOK, LockInv
  <2> QED
    BY <2>1, <2>2
<1> QED
  BY <1>1 DEF LockInv, Writing

\* With the lock free the file is whole, so the rewrite covers what was kept; a rewrite
\* that could not read the file covers nothing, and nothing is kept for it.
LEMMA LockLocks == ASSUME ClaimsInv, LockInv, NEW p \in Procs, LockFile(p) PROVE LockInv'
<1>0. TypeOK /\ at[p] = "lock" /\ lock = Nobody /\ UNCHANGED disk /\ past \in Pasts
  BY DEF ClaimsInv, TypeOK, LockFile
<1>1. CASE Go(p, "answer", loc[p]) /\ UNCHANGED <<lock, past>>
  BY <1>0, <1>1, GoQuiet DEF Writing
<1>2. CASE Fail(p) /\ UNCHANGED <<lock, past>>
  BY <1>0, <1>2, GoQuiet DEF Writing, Fail
<1>3. ASSUME NEW f \in {disk.file, NoFile}, lock' = p,
             Go(p, "truncate", [loc[p] EXCEPT !.next = Rewritten(p, f)]),
             \/ f = disk.file /\ UNCHANGED past
             \/ f = NoFile /\ past' = [past EXCEPT !.kept = NoFile]
      PROVE  LockInv'
  <2> DEFINE m == [loc[p] EXCEPT !.next = Rewritten(p, f)]
  <2>1. \A q \in Procs : at[q] \notin Writing
    BY <1>0, CeremonyAssumption DEF LockInv, Procs, Nobody, Phase
  <2>2. Covers(f, past'.kept) /\ Covers(disk.file, past'.kept)
    <3>1. CASE UNCHANGED past /\ f = disk.file
      BY <2>1, <3>1 DEF LockInv, Writing
    <3>2. CASE past' = [past EXCEPT !.kept = NoFile]
      <4>1. past'.kept = NoFile
        BY <1>0, <3>2 DEF Pasts
      <4> QED
        BY <4>1 DEF Covers, NoFile
    <3> QED
      BY <1>3, <3>1, <3>2
  <2>3. Covers(Rewritten(p, f), past'.kept)
    <3>1. f.submitted \subseteq Rewritten(p, f).submitted
      BY DEF Rewritten, File
    <3>2. f.published => Rewritten(p, f).published
      BY DEF Rewritten, File
    <3> QED
      BY <2>2, <3>1, <3>2 DEF Covers
  <2>4. m.next = Rewritten(p, f)
    BY LocalsOf DEF Locals
  <2>7. Go(p, "truncate", m)
    BY <1>3
  <2> HIDE DEF m
  <2>5. ASSUME NEW q \in Procs
        PROVE  /\ at'[q] \in Writing => q = p
               /\ at'[q] # "put"
    BY <2>1, <2>7 DEF Go, ClaimsInv, TypeOK, Writing
  <2>6. loc'[p] = m
    BY <2>7 DEF Go, ClaimsInv, TypeOK
  <2> QED
    BY <1>0, <1>3, <2>2, <2>3, <2>4, <2>5, <2>6 DEF LockInv
<1> QED
  BY <1>1, <1>2, <1>3, LockStep

\* A failed write ends the writing.
LEMMA WriteFailedGoes ==
    ASSUME NEW p, WriteFailed(p)
    PROVE  \E place, l : Go(p, place, l) /\ place \notin Writing
BY DEF WriteFailed, Fail, Writing

\* Truncation is by the holder, whose rewrite still covers what was kept.
LEMMA TruncateLocks ==
    ASSUME ClaimsInv, LockInv, NEW p \in Procs, TruncateFile(p)
    PROVE  LockInv'
<1>0. TypeOK /\ at[p] = "truncate" /\ at[p] \in Writing /\ lock = p /\ past' = past
  BY DEF ClaimsInv, TruncateFile, LockInv, Writing
<1>1. ASSUME NEW q \in Procs, q # p PROVE at[q] \notin Writing
  BY <1>0, <1>1 DEF LockInv
<1>2. CASE WriteFailed(p) /\ UNCHANGED disk
  <2>1. \A q \in Procs : at[q] # "put"
    BY <1>0, <1>1 DEF Writing
  <2>2. Covers(disk'.file, past'.kept)
    BY <1>0, <1>2, <2>1 DEF LockInv
  <2> QED
    BY <1>0, <1>2, <2>2, WriteFailedGoes, GoRelease
<1>3. CASE /\ disk' = [disk EXCEPT !.file = Torn] /\ Go(p, "put", loc[p])
           /\ UNCHANGED lock
  <2>1. disk'.file.kind = "torn"
    BY <1>0, <1>3 DEF TypeOK, Disks, Torn, NoFile
  <2>2. /\ at'[p] = "put" /\ loc'[p] = loc[p]
        /\ \A q \in Procs : at'[q] \in Writing => q = p
    BY <1>0, <1>1, <1>3 DEF Go, TypeOK
  <2> QED
    BY <1>0, <1>3, <2>1, <2>2 DEF LockInv, Writing
<1> QED
  BY <1>2, <1>3 DEF TruncateFile

\* The write makes the file cover what was kept; a failed one gives it up.
LEMMA PutLocks == ASSUME ClaimsInv, LockInv, NEW p \in Procs, PutFile(p) PROVE LockInv'
<1>0. /\ TypeOK /\ at[p] = "put" /\ at[p] \in Writing
      /\ Covers(loc[p].next, past.kept)
  BY DEF ClaimsInv, PutFile, LockInv, Writing
<1>1. past \in Pasts /\ disk \in Disks /\ disk.file \in Files
  BY <1>0 DEF TypeOK, Disks
<1>2. CASE WriteFailed(p)
  <2>1. budget' # budget
    BY <1>2, CeremonyAssumption DEF WriteFailed, Fault, ClaimsInv, TypeOK, Budgets
  <2>2. past' = [past EXCEPT !.kept = NoFile] /\ UNCHANGED disk
    BY <2>1 DEF PutFile
  <2>3. past'.kept = NoFile
    BY <1>1, <2>2 DEF Pasts
  <2>4. Covers(disk'.file, past'.kept)
    BY <2>3 DEF Covers, NoFile
  <2> QED
    BY <1>0, <1>2, <2>4, WriteFailedGoes, GoRelease
<1>3. CASE ~WriteFailed(p)
  <2> DEFINE s == past.kept.submitted \cup loc[p].next.submitted
             b == past.kept.published \/ loc[p].next.published
  <2>1. /\ past' = [past EXCEPT !.kept = File(s, b)]
        /\ disk' = [disk EXCEPT !.file = loc[p].next]
    BY <1>3 DEF PutFile
  <2>2. past'.kept = File(s, b) /\ disk'.file = loc[p].next
    <3> HIDE DEF s, b
    <3> QED
      BY <1>1, <2>1 DEF Pasts, Disks
  <2>3. s \subseteq loc[p].next.submitted /\ (b => loc[p].next.published)
    BY <1>0 DEF Covers
  <2>4. Covers(disk'.file, past'.kept)
    <3> HIDE DEF s, b
    <3> QED
      BY <2>2, <2>3 DEF Covers, File
  <2>5. \E place \in {"answer", "end"} : Go(p, place, loc[p])
    BY <1>3 DEF PutFile
  <2> QED
    BY <1>0, <2>4, <2>5, GoRelease DEF Writing
<1> QED
  BY <1>2, <1>3

\* A request, a status read, an answer.
LEMMA ServeLocks ==
    ASSUME ClaimsInv, LockInv, NEW p \in Procs,
           readCeremony(p) \/ StatFile(p) \/ ProbeTrustee(p) \/ ProbeTally(p)
    PROVE  LockInv'
<1>0. TypeOK
  BY DEF ClaimsInv
<1>1. UNCHANGED <<disk, lock, past>>
  BY DEF readCeremony, StatFile, ProbeTrustee, ProbeTally
<1>2. at[p] \in {"read", "stat", "probe"}
  BY DEF readCeremony, StatFile, ProbeTrustee, ProbeTally
<1>3. \E place \in {"stat", "probe", "answer", "lock"} : \E l : Go(p, place, l)
  <2>1. CASE readCeremony(p)
    BY <2>1 DEF readCeremony
  <2>2. CASE StatFile(p)
    BY <2>2 DEF StatFile
  <2>3. CASE ProbeTrustee(p)
    BY <2>3 DEF ProbeTrustee
  <2>4. CASE ProbeTally(p)
    BY <2>4 DEF ProbeTally
  <2> QED
    BY <2>1, <2>2, <2>3, <2>4
<1> QED
  BY <1>0, <1>1, <1>2, <1>3, GoQuiet DEF Writing

\* Requests and answers write nothing.
LEMMA RequestLocks ==
    ASSUME ClaimsInv, LockInv, NEW h \in Handlers,
           Request(h) \/ handleCeremonyStatus(h) \/ AnswerOperation(h) \/ ClaimRefused(h)
    PROVE  LockInv'
<1>0. TypeOK /\ h \in Procs
  BY PhaseIsProc DEF ClaimsInv
<1>1. /\ UNCHANGED <<disk, lock, past>> /\ at[h] \in {"idle", "answer", "claim"}
      /\ \E place \in {"read", "claim", "idle"} : \E l : Go(h, place, l)
  <2>1. CASE Request(h)
    BY <2>1 DEF Request, Poll, handleCeremonyStart, handleResume, handleCeremonySubmit,
                handleCeremonyPublish
  <2>2. CASE handleCeremonyStatus(h)
    BY <2>2 DEF handleCeremonyStatus, Return
  <2>3. CASE AnswerOperation(h)
    BY <2>3 DEF AnswerOperation, Return
  <2>4. CASE ClaimRefused(h)
    BY <2>4 DEF ClaimRefused, Return
  <2> QED
    BY <2>1, <2>2, <2>3, <2>4
<1> QED
  BY <1>0, <1>1, GoQuiet DEF Writing

\* Nor does starting the phase.
LEMMA ClaimLocks == ASSUME ClaimsInv, LockInv, NEW h \in Handlers, ClaimRun(h) PROVE LockInv'
<1>0. h \in Procs /\ h # Phase /\ Phase \in Procs
  BY PhaseIsProc
<1>1. PICK x \in Places \ Writing :
        /\ at' = [at EXCEPT ![h] = "idle", ![Phase] = x]
        /\ \E l : loc' = [loc EXCEPT ![h] = Idle, ![Phase] = l]
  <2>1. loc[h].job \in {"start", "resume", "submit", "publish"}
    BY <1>0, LocalsOf DEF ClaimRun, LocalType
  <2> QED
    BY <2>1 DEF ClaimRun, Places, Writing
<1>2. at[h] = "claim" /\ at[Phase] = "idle" /\ UNCHANGED <<disk, lock, past>>
  BY DEF ClaimRun
<1>3. ASSUME NEW q \in Procs
      PROVE  /\ at[q] = "put" => at'[q] = "put"
             /\ at'[q] \in Writing => at[q] = at'[q] /\ loc'[q] = loc[q]
  <2>1. CASE q = h \/ q = Phase
    BY <1>0, <1>1, <1>2, <2>1 DEF ClaimsInv, TypeOK, Writing
  <2>2. CASE q # h /\ q # Phase
    BY <1>0, <1>1, <2>2 DEF ClaimsInv, TypeOK
  <2> QED
    BY <2>1, <2>2
<1> QED
  BY <1>2, <1>3, QuietKeeps

\* A phase's own steps leave the file to its rewrite.
LEMMA PhaseLocks ==
    ASSUME ClaimsInv, LockInv,
           \/ StartBundle \/ FillBundle \/ CloseElection \/ ProbeShare \/ SendShare \/ SharesDone
           \/ CheckThreshold \/ PublishTally \/ EndPhase
    PROVE  LockInv'
<1>0. TypeOK /\ Phase \in Procs /\ past \in Pasts /\ disk \in Disks
  BY PhaseIsProc DEF ClaimsInv, TypeOK
<1>1. at[Phase] \notin Writing /\ UNCHANGED lock
  BY DEF Writing, StartBundle, FillBundle, CloseElection, ProbeShare, SendShare, SharesDone,
         CheckThreshold, PublishTally, EndPhase
<1>2. \E place \in {"fill", "close", "lock", "end", "share", "send", "tally", "idle"} : \E l :
        Go(Phase, place, l)
  <2>1. CASE StartBundle \/ FillBundle
    BY <2>1 DEF StartBundle, FillBundle, AfterBundle, Write, Fail
  <2>2. CASE CloseElection
    BY <2>2 DEF CloseElection, Write, Fail
  <2>3. CASE ProbeShare
    BY <2>3 DEF ProbeShare, Fail
  <2>4. CASE SendShare
    BY <2>4 DEF SendShare, Fail
  <2>5. CASE SharesDone
    BY <2>5 DEF SharesDone, Write
  <2>6. CASE CheckThreshold
    BY <2>6 DEF CheckThreshold, Write, Fail
  <2>7. CASE PublishTally
    BY <2>7 DEF PublishTally, Write, Fail
  <2>8. CASE EndPhase
    BY <2>8 DEF EndPhase, Return
  <2> QED
    BY <2>1, <2>2, <2>3, <2>4, <2>5, <2>6, <2>7, <2>8
<1>3. disk'.file = disk.file
  <2>1. \/ disk' = disk
        \/ \E b : disk' = [disk EXCEPT !.bundle = b] \/ disk' = [disk EXCEPT !.receipt = b]
    BY DEF StartBundle, FillBundle, AfterBundle, CloseElection, ProbeShare, SendShare, SharesDone,
           CheckThreshold, PublishTally, EndPhase
  <2> QED
    BY <1>0, <2>1 DEF Disks
<1>4. past'.kept = past.kept
  <2>1. \/ past' = past
        \/ \E b : past' = [past EXCEPT !.closed = b] \/ past' = [past EXCEPT !.acted = b]
    BY DEF StartBundle, FillBundle, AfterBundle, CloseElection, ProbeShare, SendShare, SharesDone,
           CheckThreshold, PublishTally, EndPhase
  <2> QED
    BY <1>0, <2>1 DEF Pasts
<1> QED
  BY <1>0, <1>1, <1>2, <1>3, <1>4, GoQuiet DEF Writing

\* A kill in a rewrite gives up what was kept; any other finds the file whole.
LEMMA KillLocks == ASSUME ClaimsInv, LockInv, Kill PROVE LockInv'
<1>1. at' = [p \in Procs |-> "idle"] /\ UNCHANGED disk /\ past \in Pasts
  BY DEF Kill, ClaimsInv, TypeOK
<1>2. Covers(disk.file, past'.kept)
  <2>1. CASE disk.file.kind = "torn"
    <3>1. past'.kept = NoFile
      BY <1>1, <2>1 DEF Kill, Pasts
    <3> QED
      BY <3>1 DEF Covers, NoFile
  <2>2. CASE disk.file.kind # "torn"
    <3>1. past'.kept = past.kept
      BY <1>1, <2>2 DEF Kill, Pasts
    <3> QED
      BY <2>2, <3>1 DEF LockInv
  <2> QED
    BY <2>1, <2>2
<1>3. \A p \in Procs : at'[p] = "idle"
  BY <1>1
<1> QED
  BY <1>1, <1>2, <1>3 DEF LockInv, Writing

\* Steps of the world do not touch the console.
LEMMA RestLocks ==
    ASSUME LockInv, UNCHANGED <<disk, lock, at, loc, past>>
    PROVE  LockInv'
BY DEF LockInv

\* The discipline of ceremonyMu.
THEOREM LockDiscipline == Spec => []LockInv
<1>1. Init => LockInv
  <2> SUFFICES ASSUME Init PROVE LockInv
    OBVIOUS
  <2>1. (\A p \in Procs : at[p] = "idle") /\ disk.file = NoFile /\ past.kept = NoFile
    BY DEF Init, InitPast
  <2> QED
    BY <2>1 DEF LockInv, Writing, Covers
<1>2. ClaimsInv /\ LockInv /\ [Next]_vars => LockInv'
  <2> SUFFICES ASSUME ClaimsInv, LockInv, [Next]_vars PROVE LockInv'
    OBVIOUS
  <2>0. ASSUME NEW p \in Procs, Status(p) PROVE LockInv'
    BY <2>0, ServeLocks, LockLocks, TruncateLocks, PutLocks DEF Status
  <2>1. ASSUME NEW h \in Handlers, Request(h) \/ Serve(h) PROVE LockInv'
    BY <2>0, <2>1, PhaseIsProc, RequestLocks, ClaimLocks DEF Serve
  <2>2. CASE RunPhase
    BY <2>0, <2>2, PhaseIsProc, PhaseLocks DEF RunPhase
  <2>3. CASE World
    <3>1. ASSUME NEW t \in Trustees, NEW c \in Contests, LandShare(t, c) \/ SubmitElsewhere(t, c)
          PROVE  LockInv'
      BY <3>1, RestLocks DEF LandShare, SubmitElsewhere
    <3>2. ASSUME NEW signers \in SUBSET Trustees, LandTally(signers) PROVE LockInv'
      BY <3>2, RestLocks DEF LandTally
    <3> QED
      BY <2>3, <3>1, <3>2, KillLocks DEF World
  <2>4. CASE UNCHANGED vars
    BY <2>4, RestLocks DEF vars
  <2> QED
    BY <2>1, <2>2, <2>3, <2>4 DEF Next
<1> QED
  BY <1>1, <1>2, Claims, PTL DEF Spec

\* No rewrite of ceremony.json loses what another recorded.
THEOREM NothingIsLost == Spec => []RecordSurvives
<1>1. LockInv => RecordSurvives
  BY DEF LockInv, RecordSurvives, Covers
<1> QED
  BY <1>1, LockDiscipline, PTL
-----------------------------------------------------------------------------
(* What a status says.  Trustees may act only on a closed election, a poll    *)
(* misses nobody, and a published record had its threshold of trustees.       *)

USE DEF Bundled

\* The election is closed, on the ledger or in the local ceremony's history.
Closed == IF OnChain THEN chain.status = "closed" ELSE past.closed

\* The tally is out, or offline a threshold of trustees acted.
Earned == IF OnChain THEN chain.tallied ELSE Cardinality(past.acted) >= Threshold

\* Shares exist only on a closed election, elections only after the bundle; a record
\* of the ceremony exists only once the election is closed, and offline names only
\* trustees that acted.
SharedStatus ==
    /\ \A t \in Trustees, c \in Contests :
        chain.share[t][c] # "none" => chain.status = "closed"
    /\ wire.shares # {} => chain.status = "closed"
    /\ chain.status # "absent" => Bundled
    /\ disk.file.kind # "none" => Closed
    /\ disk.file.kind = "none" => disk.file.submitted = {}
    /\ disk.file.published => Earned
    /\ ~OnChain => disk.file.submitted \subseteq past.acted

\* A goroutine's view obeys the same rules.
LocalRecord(place, l) ==
    /\ l.ready \/ place \in Writing => Closed
    /\ ~OnChain /\ l.submitted # {} => Closed
    /\ place = "lock" /\ ~NeedsFile(l.op) => Closed
    /\ place = "lock" /\ l.op = "published" => Earned
    /\ l.next.published => Earned
    /\ l.next.kind = "none" => l.next.submitted = {}
    /\ ~OnChain => /\ l.submitted \subseteq past.acted /\ l.seen \subseteq past.acted
                   /\ l.next.submitted \subseteq past.acted
                   /\ l.op = "submitted" => l.who \in past.acted
    /\ place = "probe" => OnChain
    /\ l.job = "resume" => chain.status # "absent"
    /\ place \in {"bundle", "fill", "close"} => l.job = "start" \/ Bundled

\* A poll that met no error has each trustee it must list listed, or still to look up.
LocalPoll(place, l) ==
    OnChain /\ l.job = "poll" =>
        /\ l.since \subseteq CompleteIn(chain.share)
        /\ ~l.blind /\ place = "probe" => l.since \subseteq l.submitted \cup l.left
        /\ ~l.blind /\ place \notin {"idle", "read", "stat", "probe", "end"} =>
            l.since \subseteq l.submitted

\* The inductive invariant behind StatusTrue and PublishedAboveThreshold.
StatusInv ==
    /\ SharedStatus
    /\ \A p \in Procs : LocalRecord(at[p], loc[p]) /\ LocalPoll(at[p], loc[p])

\* Nothing is taken back: shares, the close, the bundle, the tally, and acting.
Forward ==
    /\ Grows(chain.share, chain'.share)
    /\ chain.status = "closed" => chain'.status = "closed"
    /\ chain.status # "absent" => chain'.status # "absent"
    /\ chain.tallied => chain'.tallied
    /\ Bundled => Bundled'
    /\ past.closed => past'.closed
    /\ past.acted \subseteq past'.acted

\* Counting trustees.
LEMMA TrusteesCount ==
    ASSUME NEW a \in SUBSET Trustees, NEW b \in SUBSET Trustees, a \subseteq b,
           Cardinality(a) >= Threshold
    PROVE  Cardinality(b) >= Threshold
<1>1. IsFiniteSet(Trustees)
  BY FS_Interval, CeremonyAssumption DEF Trustees
<1>2. IsFiniteSet(a) /\ IsFiniteSet(b)
  BY <1>1, FS_Subset
<1>3. Cardinality(a) <= Cardinality(b)
  BY <1>2, FS_Subset
<1>4. Cardinality(a) \in Nat /\ Cardinality(b) \in Nat /\ Threshold \in Nat
  BY <1>2, FS_CardinalityType, CeremonyAssumption
<1> QED
  BY <1>3, <1>4

\* A threshold of trustees is not nobody.
LEMMA SomeoneUnlocks == ASSUME NEW s, Unlocked(s) PROVE s # {}
<1>1. Cardinality({}) = 0
  BY FS_EmptySet
<1> QED
  BY <1>1, CeremonyAssumption DEF Unlocked

\* An election once closed stays closed, what was earned stays earned.
LEMMA ForwardFacts ==
    ASSUME TypeOK, TypeOK', Forward
    PROVE  /\ Closed => Closed'
           /\ Earned => Earned'
           /\ CompleteIn(chain.share) \subseteq CompleteIn(chain'.share)
<1>1. Closed => Closed'
  BY DEF Closed, Forward
<1>2. Earned => Earned'
  <2>1. past.acted \in SUBSET Trustees /\ past'.acted \in SUBSET Trustees
    BY DEF TypeOK, Pasts
  <2> QED
    BY <2>1, TrusteesCount DEF Earned, Forward
<1> QED
  BY <1>1, <1>2, CompleteGrows DEF Forward

\* So the view of a goroutine that does not move stays right.
LEMMA LocalForward ==
    ASSUME TypeOK, TypeOK', Forward, NEW x, NEW l,
           LocalRecord(x, l), LocalPoll(x, l)
    PROVE  LocalRecord(x, l)' /\ LocalPoll(x, l)'
<1>1. LocalRecord(x, l)'
  BY ForwardFacts DEF LocalRecord, Forward
<1>2. LocalPoll(x, l)'
  BY ForwardFacts DEF LocalPoll
<1> QED
  BY <1>1, <1>2

\* One goroutine moves on while the world goes forward.
LEMMA GoMoves ==
    ASSUME StatusInv, TypeOK, TypeOK', Forward, SharedStatus', NEW p \in Procs,
           NEW x, NEW l, Go(p, x, l), LocalRecord(x, l)', LocalPoll(x, l)'
    PROVE  StatusInv'
<1>1. ASSUME NEW q \in Procs
      PROVE  LocalRecord(at[q], loc[q])' /\ LocalPoll(at[q], loc[q])'
  <2>1. CASE q = p
    <3>1. at'[q] = x /\ loc'[q] = l
      BY <2>1 DEF TypeOK, Go
    <3> QED
      BY <3>1 DEF LocalRecord, LocalPoll
  <2>2. CASE q # p
    <3>1. at'[q] = at[q] /\ loc'[q] = loc[q]
      BY <2>2 DEF TypeOK, Go
    <3>2. PICK y, m : y = at[q] /\ m = loc[q]
      OBVIOUS
    <3>3. LocalRecord(y, m) /\ LocalPoll(y, m)
      BY <3>2 DEF StatusInv
    <3>4. LocalRecord(y, m)' /\ LocalPoll(y, m)'
      BY <3>3, LocalForward
    <3> QED
      BY <3>1, <3>2, <3>4 DEF LocalRecord, LocalPoll
  <2> QED
    BY <2>1, <2>2
<1> QED
  BY <1>1 DEF StatusInv

\* The same with a view that was right before the step.
LEMMA GoForward ==
    ASSUME StatusInv, TypeOK, TypeOK', Forward, SharedStatus', NEW p \in Procs,
           NEW x, NEW l, Go(p, x, l), LocalRecord(x, l), LocalPoll(x, l)
    PROVE  StatusInv'
BY LocalForward, GoMoves

\* A world that stands still.
LEMMA StillForward ==
    ASSUME StatusInv, UNCHANGED <<chain, wire, disk, past>>
    PROVE  Forward /\ SharedStatus'
BY GrowsRefl DEF StatusInv, SharedStatus, Forward, Closed, Earned

\* A goroutine that moves while the world stands still.
LEMMA GoStill ==
    ASSUME StatusInv, TypeOK, TypeOK', UNCHANGED <<chain, wire, disk, past>>,
           NEW p \in Procs, NEW x, NEW l, Go(p, x, l), LocalRecord(x, l), LocalPoll(x, l)
    PROVE  StatusInv'
BY StillForward, GoForward

\* The view at hand.
LEMMA ViewOf ==
    ASSUME ClaimsInv, StatusInv, NEW p \in Procs
    PROVE  loc[p] \in Locals /\ LocalRecord(at[p], loc[p]) /\ LocalPoll(at[p], loc[p])
BY LocalsOf DEF StatusInv

\* A goroutine that starts afresh believes nothing.
LEMMA FreshView ==
    ASSUME NEW x \in {"idle", "read", "claim", "share"}, NEW m, m.ready = FALSE,
           m.submitted = {}, m.seen = {}, m.next = NoFile, m.op = "",
           m.job = "resume" => chain.status # "absent",
           m.since \subseteq CompleteIn(chain.share), x # "read" => m.since = {}
    PROVE  LocalRecord(x, m) /\ LocalPoll(x, m)
<1>1. NoFile.submitted = {} /\ NoFile.published = FALSE
  BY DEF NoFile
<1> QED
  BY <1>1 DEF LocalRecord, LocalPoll, Writing

\* The empty view believes nothing.
LEMMA IdleView == \A x \in {"idle", "read", "claim", "share"} :
    LocalRecord(x, Idle) /\ LocalPoll(x, Idle)
<1>1. /\ Idle.ready = FALSE /\ Idle.submitted = {} /\ Idle.seen = {}
      /\ Idle.next = NoFile /\ Idle.op = "" /\ Idle.job = "" /\ Idle.since = {}
  BY DEF Idle
<1> QED
  BY <1>1, FreshView

\* A phase that fails takes its view to the end.
LEMMA FailView ==
    ASSUME ClaimsInv, StatusInv, NEW p \in Procs, NEW m, m = [loc[p] EXCEPT !.failed = TRUE]
    PROVE  LocalRecord("end", m) /\ LocalPoll("end", m)
<1>1. /\ m.ready = loc[p].ready /\ m.submitted = loc[p].submitted /\ m.seen = loc[p].seen
      /\ m.next = loc[p].next /\ m.op = loc[p].op /\ m.who = loc[p].who
      /\ m.job = loc[p].job /\ m.since = loc[p].since
  BY ViewOf DEF Locals
<1> QED
  BY <1>1, ViewOf DEF LocalRecord, LocalPoll, Writing

\* A phase that fails keeps the views true.
LEMMA FailStill ==
    ASSUME ClaimsInv, ClaimsInv', StatusInv, NEW p \in Procs, Fail(p),
           Forward, SharedStatus'
    PROVE  StatusInv'
<1>1. TypeOK /\ TypeOK'
  BY DEF ClaimsInv
<1>2. PICK m : m = [loc[p] EXCEPT !.failed = TRUE]
  OBVIOUS
<1>3. Go(p, "end", m)
  BY <1>2 DEF Fail
<1> QED
  BY <1>1, <1>2, <1>3, FailView, GoForward

-----------------------------------------------------------------------------
(* The same, action by action.                                               *)

\* A new request: a poll notes who is complete as it comes in.
LEMMA RequestStatus ==
    ASSUME ClaimsInv, ClaimsInv', StatusInv, NEW h \in Handlers, Request(h)
    PROVE  StatusInv'
<1>0. h \in Procs /\ TypeOK /\ TypeOK' /\ UNCHANGED <<chain, wire, disk, past>>
  BY PhaseIsProc DEF ClaimsInv, Request, Poll, handleCeremonyStart, handleResume,
                     handleCeremonySubmit, handleCeremonyPublish
<1>1. \E x \in {"read", "claim"} : \E m :
        /\ Go(h, x, m) /\ m.ready = FALSE
        /\ m.submitted = {} /\ m.seen = {} /\ m.next = NoFile /\ m.op = ""
        /\ m.job = "resume" => chain.status # "absent"
        /\ m.since \subseteq CompleteIn(chain.share) /\ (x # "read" => m.since = {})
  <2>1. CASE Poll(h)
    <3> DEFINE m == [Idle EXCEPT !.job = "poll", !.since = Complete]
    <3>1. /\ m.ready = FALSE /\ m.submitted = {} /\ m.seen = {} /\ m.next = NoFile
          /\ m.op = "" /\ m.job = "poll" /\ m.since = Complete
      BY DEF Idle
    <3>2. Go(h, "read", m)
      BY <2>1 DEF Poll
    <3> HIDE DEF m
    <3> QED
      BY <3>1, <3>2, CompleteIsCompleteIn
  <2>2. ASSUME NEW j, NEW x \in {"read", "claim"}, j = "resume" => chain.status # "absent",
               NEW m, Go(h, x, m),
               m = [Idle EXCEPT !.job = j] \/ \E t : m = [Idle EXCEPT !.job = j, !.who = t]
        PROVE  <1>1!:
    <3>1. /\ m.ready = FALSE /\ m.submitted = {} /\ m.seen = {} /\ m.next = NoFile
          /\ m.op = "" /\ m.job = j /\ m.since = {}
      BY <2>2 DEF Idle
    <3> QED
      BY <2>2, <3>1
  <2>4. CASE handleCeremonyStart(h)
    BY <2>2, <2>4 DEF handleCeremonyStart
  <2>5. CASE handleResume(h)
    BY <2>2, <2>5 DEF handleResume
  <2>6. CASE \E t \in Trustees : handleCeremonySubmit(h, t)
    <3>1. PICK t \in Trustees : Go(h, "read", [Idle EXCEPT !.job = "submit", !.who = t])
      BY <2>6 DEF handleCeremonySubmit
    <3> QED
      BY <2>2, <3>1
  <2>7. CASE handleCeremonyPublish(h)
    BY <2>2, <2>7 DEF handleCeremonyPublish
  <2> QED
    BY <2>1, <2>4, <2>5, <2>6, <2>7 DEF Request
<1>4. PICK x \in {"read", "claim"} : \E m :
        /\ Go(h, x, m) /\ m.ready = FALSE
        /\ m.submitted = {} /\ m.seen = {} /\ m.next = NoFile /\ m.op = ""
        /\ m.job = "resume" => chain.status # "absent"
        /\ m.since \subseteq CompleteIn(chain.share) /\ (x # "read" => m.since = {})
  BY <1>1
<1>2. PICK m :
        /\ Go(h, x, m) /\ m.ready = FALSE
        /\ m.submitted = {} /\ m.seen = {} /\ m.next = NoFile /\ m.op = ""
        /\ m.job = "resume" => chain.status # "absent"
        /\ m.since \subseteq CompleteIn(chain.share) /\ (x # "read" => m.since = {})
  BY <1>4
<1>3. LocalRecord(x, m) /\ LocalPoll(x, m)
  BY <1>2, FreshView
<1> QED
  BY <1>0, <1>2, <1>3, GoStill

\* readCeremony takes the file's word.
LEMMA ReadStatus ==
    ASSUME ClaimsInv, ClaimsInv', StatusInv, NEW p \in Procs, readCeremony(p)
    PROVE  StatusInv'
<1>0. TypeOK /\ TypeOK' /\ UNCHANGED <<chain, wire, disk, past>> /\ at[p] = "read"
  BY DEF ClaimsInv, readCeremony
<1>1. PICK f \in {disk.file, NoFile} :
        Go(p, "stat", [loc[p] EXCEPT !.submitted = f.submitted, !.published = f.published,
                                     !.ready = f.kind = "ok"])
  BY DEF readCeremony
<1>2. PICK m : m = [loc[p] EXCEPT !.submitted = f.submitted, !.published = f.published,
                                  !.ready = f.kind = "ok"]
  OBVIOUS
<1>3. /\ m.ready = (f.kind = "ok") /\ m.submitted = f.submitted
      /\ m.seen = loc[p].seen /\ m.next = loc[p].next /\ m.op = loc[p].op
      /\ m.who = loc[p].who /\ m.job = loc[p].job /\ m.since = loc[p].since
  BY <1>2, ViewOf DEF Locals
<1>4. /\ f.kind = "ok" => Closed
      /\ ~OnChain => f.submitted \subseteq past.acted
      /\ f.submitted # {} => Closed
  BY DEF StatusInv, SharedStatus, NoFile
<1>5. LocalRecord("stat", m)
  BY <1>0, <1>3, <1>4, ViewOf DEF LocalRecord, Writing
<1>6. LocalPoll("stat", m)
  BY <1>0, <1>3, ViewOf DEF LocalPoll
<1> QED
  BY <1>0, <1>1, <1>2, <1>5, <1>6, GoStill

\* With no bundle there is no election, so no trustee on it for a poll to miss.
LEMMA StatStatus ==
    ASSUME ClaimsInv, ClaimsInv', StatusInv, NEW p \in Procs, StatFile(p)
    PROVE  StatusInv'
<1> DEFINE r == Bundled /\ (loc[p].ready \/ disk.file.kind # "none")
           s == IF Bundled /\ OnChain THEN Trustees \ loc[p].submitted ELSE {}
           l == [loc[p] EXCEPT !.ready = r, !.left = s]
           m == [l EXCEPT !.left = {}, !.blind = TRUE]
<1>0. TypeOK /\ TypeOK' /\ UNCHANGED <<chain, wire, disk, past>> /\ at[p] = "stat"
  BY DEF ClaimsInv, StatFile
<1>1. /\ l.ready = r /\ l.left = s /\ l.submitted = loc[p].submitted
      /\ l.seen = loc[p].seen /\ l.next = loc[p].next /\ l.op = loc[p].op
      /\ l.who = loc[p].who /\ l.job = loc[p].job /\ l.since = loc[p].since
  <2> HIDE DEF r, s
  <2> QED
    BY ViewOf DEF Locals
<1>2. /\ m.ready = r /\ m.blind = TRUE /\ m.submitted = loc[p].submitted
      /\ m.seen = loc[p].seen /\ m.next = loc[p].next /\ m.op = loc[p].op
      /\ m.who = loc[p].who /\ m.job = loc[p].job /\ m.since = loc[p].since
  <2> HIDE DEF r, s
  <2> QED
    BY ViewOf DEF Locals
<1>3. \/ Go(p, IF Bundled /\ OnChain THEN "probe" ELSE "answer", l)
      \/ Go(p, "answer", m)
  BY DEF StatFile
<1>4. r => Closed
  BY <1>0, ViewOf DEF LocalRecord, StatusInv, SharedStatus
<1>5. OnChain /\ ~Bundled => CompleteIn(chain.share) = {}
  <2>1. 1 \in Contests
    BY CeremonyAssumption DEF Contests
  <2> QED
    BY <2>1 DEF CompleteIn, StatusInv, SharedStatus
<1>6. loc[p].since \subseteq Trustees
  BY ViewOf DEF Locals
<1> HIDE DEF l, m
<1>7. LocalRecord("answer", m) /\ LocalPoll("answer", m)
  <2> HIDE DEF r
  <2> QED
    BY <1>0, <1>2, <1>4, ViewOf DEF LocalRecord, LocalPoll, Writing
<1>8. ASSUME NEW x, x = IF Bundled /\ OnChain THEN "probe" ELSE "answer"
      PROVE  LocalRecord(x, l) /\ LocalPoll(x, l)
  <2>1. LocalRecord(x, l)
    <3> HIDE DEF r
    <3> QED
      BY <1>0, <1>1, <1>4, <1>8, ViewOf DEF LocalRecord, Writing
  <2>2. LocalPoll(x, l)
    BY <1>0, <1>1, <1>5, <1>6, <1>8, ViewOf DEF LocalPoll
  <2> QED
    BY <2>1, <2>2
<1> QED
  BY <1>0, <1>3, <1>7, <1>8, GoStill

\* A trustee looked up is listed, or was not complete when the poll came in.
LEMMA ProbeStatus ==
    ASSUME ClaimsInv, ClaimsInv', StatusInv, NEW p \in Procs, ProbeTrustee(p)
    PROVE  StatusInv'
<1>0. TypeOK /\ TypeOK' /\ UNCHANGED <<chain, wire, disk, past>> /\ at[p] = "probe"
  BY DEF ClaimsInv, ProbeTrustee
<1>1. PICK t \in loc[p].left :
        LET l == [loc[p] EXCEPT !.left = @ \ {t}]
        IN  \/ ProbeHolds(t) /\ Go(p, "probe", [l EXCEPT !.submitted = @ \cup {t},
                                                        !.seen = @ \cup {t}])
            \/ ~ProbeHolds(t) /\ Go(p, "probe", l)
            \/ Go(p, "probe", [l EXCEPT !.blind = TRUE])
  BY DEF ProbeTrustee
<1> DEFINE l == [loc[p] EXCEPT !.left = @ \ {t}]
           y == [l EXCEPT !.submitted = @ \cup {t}, !.seen = @ \cup {t}]
           n == [l EXCEPT !.blind = TRUE]
<1>2. /\ l.ready = loc[p].ready /\ l.submitted = loc[p].submitted /\ l.seen = loc[p].seen
      /\ l.next = loc[p].next /\ l.op = loc[p].op /\ l.who = loc[p].who
      /\ l.job = loc[p].job /\ l.since = loc[p].since /\ l.left = loc[p].left \ {t}
      /\ l.blind = loc[p].blind
  BY ViewOf DEF Locals
<1>3. /\ y.ready = loc[p].ready /\ y.submitted = loc[p].submitted \cup {t}
      /\ y.seen = loc[p].seen \cup {t} /\ y.blind = loc[p].blind
      /\ y.next = loc[p].next /\ y.op = loc[p].op /\ y.who = loc[p].who
      /\ y.job = loc[p].job /\ y.since = loc[p].since /\ y.left = loc[p].left \ {t}
  BY ViewOf DEF Locals
<1>4. /\ n.ready = loc[p].ready /\ n.submitted = loc[p].submitted /\ n.seen = loc[p].seen
      /\ n.next = loc[p].next /\ n.op = loc[p].op /\ n.who = loc[p].who
      /\ n.job = loc[p].job /\ n.since = loc[p].since /\ n.blind = TRUE
  BY ViewOf DEF Locals
<1>5. t \in CompleteIn(chain.share) => ProbeHolds(t)
  BY DEF ProbeHolds, Holds, CompleteIn
<1>6. Go(p, "probe", y) \/ (~ProbeHolds(t) /\ Go(p, "probe", l)) \/ Go(p, "probe", n)
  BY <1>1
<1> HIDE DEF l, y, n
<1>7. LocalRecord("probe", y) /\ LocalRecord("probe", l) /\ LocalRecord("probe", n)
  BY <1>0, <1>2, <1>3, <1>4, ViewOf DEF LocalRecord, Writing
<1>8. LocalPoll("probe", y) /\ LocalPoll("probe", n)
  BY <1>0, <1>3, <1>4, ViewOf DEF LocalPoll
<1>9. ~ProbeHolds(t) => LocalPoll("probe", l)
  BY <1>0, <1>2, <1>5, ViewOf DEF LocalPoll
<1> QED
  BY <1>0, <1>6, <1>7, <1>8, <1>9, GoStill

\* After the last trustee everyone complete is listed; then the tally.
LEMMA ProbeTallyStatus ==
    ASSUME ClaimsInv, ClaimsInv', StatusInv, NEW p \in Procs, ProbeTally(p)
    PROVE  StatusInv'
<1>0. /\ TypeOK /\ TypeOK' /\ UNCHANGED <<chain, wire, disk, past>>
      /\ at[p] = "probe" /\ loc[p].left = {}
  BY DEF ClaimsInv, ProbeTally
<1> DEFINE o == IF loc[p].seen = {} THEN "" ELSE "record"
           x == IF loc[p].seen = {} THEN "answer" ELSE "lock"
           l == [loc[p] EXCEPT !.op = o]
           a == [l EXCEPT !.published = @ \/ chain.tallied]
           b == [l EXCEPT !.blind = TRUE]
<1>1. Go(p, x, a) \/ Go(p, x, b)
  BY DEF ProbeTally
<1>2. /\ o \in {"", "record"} /\ x \in {"answer", "lock"}
      /\ x = "lock" => NeedsFile(o)
  BY DEF NeedsFile
<1> HIDE DEF o, x
<1>3. /\ a.ready = loc[p].ready /\ a.submitted = loc[p].submitted /\ a.seen = loc[p].seen
      /\ a.next = loc[p].next /\ a.op = o /\ a.who = loc[p].who
      /\ a.job = loc[p].job /\ a.since = loc[p].since /\ a.blind = loc[p].blind
  BY ViewOf DEF Locals
<1>4. /\ b.ready = loc[p].ready /\ b.submitted = loc[p].submitted /\ b.seen = loc[p].seen
      /\ b.next = loc[p].next /\ b.op = o /\ b.who = loc[p].who
      /\ b.job = loc[p].job /\ b.since = loc[p].since /\ b.blind = TRUE
  BY ViewOf DEF Locals
<1> HIDE DEF a, b
<1>5. LocalRecord(x, a) /\ LocalRecord(x, b)
  BY <1>0, <1>2, <1>3, <1>4, ViewOf DEF LocalRecord, Writing
<1>6. LocalPoll(x, a) /\ LocalPoll(x, b)
  BY <1>0, <1>2, <1>3, <1>4, ViewOf DEF LocalPoll
<1> QED
  BY <1>0, <1>1, <1>5, <1>6, GoStill

\* A handler answers, goes on to claim the run, or is refused it.
LEMMA AnswerStatus ==
    ASSUME ClaimsInv, ClaimsInv', StatusInv, NEW h \in Handlers,
           handleCeremonyStatus(h) \/ AnswerOperation(h) \/ ClaimRefused(h)
    PROVE  StatusInv'
<1>0. h \in Procs /\ TypeOK /\ TypeOK' /\ UNCHANGED <<chain, wire, disk, past>>
  BY PhaseIsProc DEF ClaimsInv, handleCeremonyStatus, AnswerOperation, ClaimRefused
<1>1. CASE Go(h, "idle", Idle)
  BY <1>0, <1>1, IdleView, GoStill
<1>2. CASE /\ Go(h, "claim", [Idle EXCEPT !.job = loc[h].job, !.who = loc[h].who])
           /\ loc[h].job \in {"submit", "publish"}
  <2> DEFINE m == [Idle EXCEPT !.job = loc[h].job, !.who = loc[h].who]
  <2>1. /\ m.ready = FALSE /\ m.submitted = {} /\ m.seen = {} /\ m.next = NoFile
        /\ m.op = "" /\ m.job = loc[h].job /\ m.since = {}
    BY DEF Idle
  <2>2. Go(h, "claim", m)
    BY <1>2
  <2> HIDE DEF m
  <2>3. LocalRecord("claim", m) /\ LocalPoll("claim", m)
    BY <1>2, <2>1, FreshView
  <2> QED
    BY <1>0, <2>2, <2>3, GoStill
<1> QED
  BY <1>1, <1>2 DEF handleCeremonyStatus, AnswerOperation, ClaimRefused, Return

\* The phase starts from nothing; a resume's election exists, so its bundle does.
LEMMA ClaimStatus ==
    ASSUME ClaimsInv, ClaimsInv', StatusInv, NEW h \in Handlers, ClaimRun(h)
    PROVE  StatusInv'
<1>0. /\ h \in Procs /\ h # Phase /\ Phase \in Procs /\ TypeOK /\ TypeOK'
      /\ UNCHANGED <<chain, wire, disk, past>> /\ at[h] = "claim"
  BY PhaseIsProc DEF ClaimsInv, ClaimRun
<1> DEFINE l == [Idle EXCEPT !.job = loc[h].job, !.who = loc[h].who]
<1>1. loc[h].job \in {"start", "resume", "submit", "publish"}
  BY <1>0, LocalsOf DEF LocalType
<1>2. PICK x \in {"bundle", "close", "share", "read"} :
        /\ at' = [at EXCEPT ![h] = "idle", ![Phase] = x]
        /\ loc' = [loc EXCEPT ![h] = Idle, ![Phase] = l]
        /\ x = "close" => loc[h].job = "resume"
        /\ x = "bundle" => loc[h].job = "start"
  BY <1>1 DEF ClaimRun
<1>3. /\ l.ready = FALSE /\ l.submitted = {} /\ l.seen = {} /\ l.next = NoFile
      /\ l.op = "" /\ l.job = loc[h].job /\ l.since = {}
  BY DEF Idle
<1> HIDE DEF l
<1>4. loc[h].job = "resume" => chain.status # "absent" /\ Bundled
  BY <1>0, ViewOf DEF LocalRecord, StatusInv, SharedStatus
<1>5. LocalRecord(x, l) /\ LocalPoll(x, l)
  <2>1. LocalRecord("read", l) /\ LocalPoll("read", l)
    BY <1>3, <1>4, FreshView
  <2> QED
    BY <1>2, <1>3, <1>4, <2>1 DEF LocalRecord, LocalPoll, Writing
<1>6. ASSUME NEW q \in Procs
      PROVE  LocalRecord(at[q], loc[q])' /\ LocalPoll(at[q], loc[q])'
  <2>1. PICK y, m : y = at'[q] /\ m = loc'[q]
    OBVIOUS
  <2>2. LocalRecord(y, m) /\ LocalPoll(y, m)
    <3>1. CASE q = h
      BY <1>0, <1>2, <2>1, <3>1, IdleView DEF TypeOK
    <3>2. CASE q = Phase
      BY <1>0, <1>2, <1>5, <2>1, <3>2 DEF TypeOK
    <3>3. CASE q # h /\ q # Phase
      <4>1. y = at[q] /\ m = loc[q]
        BY <1>0, <1>2, <2>1, <3>3 DEF TypeOK
      <4> QED
        BY <4>1, ViewOf
    <3> QED
      BY <3>1, <3>2, <3>3
  <2>3. LocalRecord(y, m)' /\ LocalPoll(y, m)'
    BY <1>0, <2>2, StillForward, LocalForward
  <2> QED
    BY <2>1, <2>3 DEF LocalRecord, LocalPoll
<1> QED
  BY <1>0, <1>6, StillForward DEF StatusInv

\* A rewrite starts only where the record exists, or makes it for a closed election.
LEMMA LockStatus ==
    ASSUME ClaimsInv, ClaimsInv', StatusInv, NEW p \in Procs, LockFile(p)
    PROVE  StatusInv'
<1>0. /\ TypeOK /\ TypeOK' /\ UNCHANGED <<chain, wire, disk>> /\ at[p] = "lock"
      /\ past \in Pasts
  BY DEF ClaimsInv, TypeOK, LockFile
<1>1. past'.acted = past.acted /\ past'.closed = past.closed
  <2>1. past' = past \/ past' = [past EXCEPT !.kept = NoFile]
    BY LockStep
  <2> QED
    BY <1>0, <2>1 DEF Pasts
<1>2. Forward
  BY <1>0, <1>1, GrowsRefl DEF Forward
<1>3. SharedStatus'
  BY <1>0, <1>1, <1>2, ForwardFacts DEF StatusInv, SharedStatus
<1>4. CASE Go(p, "answer", loc[p])
  <2>1. LocalRecord("answer", loc[p]) /\ LocalPoll("answer", loc[p])
    BY <1>0, ViewOf DEF LocalRecord, LocalPoll, Writing
  <2> QED
    BY <1>0, <1>2, <1>3, <1>4, <2>1, GoForward
<1>5. CASE Fail(p)
  BY <1>2, <1>3, <1>5, FailStill
<1>6. ASSUME NEW f \in {disk.file, NoFile}, ~(NeedsFile(loc[p].op) /\ disk.file.kind = "none"),
             Go(p, "truncate", [loc[p] EXCEPT !.next = Rewritten(p, f)])
      PROVE  StatusInv'
  <2>1. PICK g : g = Rewritten(p, f)
    OBVIOUS
  <2>2. PICK m : m = [loc[p] EXCEPT !.next = g]
    OBVIOUS
  <2>3. /\ m.ready = loc[p].ready /\ m.submitted = loc[p].submitted /\ m.seen = loc[p].seen
        /\ m.next = g /\ m.op = loc[p].op /\ m.who = loc[p].who
        /\ m.job = loc[p].job /\ m.since = loc[p].since /\ m.blind = loc[p].blind
    BY <2>2, ViewOf DEF Locals
  <2>4. g.kind = "ok" /\ (g.published => f.published \/ loc[p].op = "published")
    BY <2>1 DEF Rewritten, File
  <2>5. \/ g.submitted = f.submitted
        \/ g.submitted = f.submitted \cup loc[p].seen
        \/ g.submitted = f.submitted \cup {loc[p].who} /\ loc[p].op = "submitted"
    BY <2>1 DEF Rewritten, File
  <2>6. /\ ~OnChain => f.submitted \subseteq past.acted
        /\ f.published => Earned
    BY DEF StatusInv, SharedStatus, NoFile
  <2>7. ~OnChain => g.submitted \subseteq past.acted
    BY <2>5, <2>6, ViewOf DEF LocalRecord
  <2>8. g.published => Earned
    BY <1>0, <2>4, <2>6, ViewOf DEF LocalRecord
  <2>9. Closed
    BY <1>0, <1>6, ViewOf DEF LocalRecord, StatusInv, SharedStatus
  <2>10. LocalRecord("truncate", m)
    BY <1>0, <2>3, <2>4, <2>7, <2>8, <2>9, ViewOf DEF LocalRecord, Writing
  <2>11. LocalPoll("truncate", m)
    BY <1>0, <2>3, ViewOf DEF LocalPoll
  <2> QED
    BY <1>0, <1>2, <1>3, <1>6, <2>1, <2>2, <2>10, <2>11, GoForward
<1> QED
  BY <1>4, <1>5, <1>6, LockStep

\* What a failed write leaves: an answer, or a failed phase.
LEMMA WriteFailedStatus ==
    ASSUME ClaimsInv, ClaimsInv', StatusInv, NEW p \in Procs, at[p] \in Writing,
           WriteFailed(p), Forward, SharedStatus'
    PROVE  StatusInv'
<1>0. TypeOK /\ TypeOK'
  BY DEF ClaimsInv
<1>1. Go(p, "answer", loc[p]) \/ Fail(p)
  BY DEF WriteFailed
<1>2. LocalRecord("answer", loc[p]) /\ LocalPoll("answer", loc[p])
  BY ViewOf DEF LocalRecord, LocalPoll, Writing
<1> QED
  BY <1>0, <1>1, <1>2, FailStill, GoForward

\* A file cut short says nothing.
LEMMA TruncateStatus ==
    ASSUME ClaimsInv, ClaimsInv', StatusInv, NEW p \in Procs, TruncateFile(p)
    PROVE  StatusInv'
<1>0. /\ TypeOK /\ TypeOK' /\ UNCHANGED <<chain, wire, past>> /\ at[p] = "truncate"
      /\ disk \in Disks
  BY DEF ClaimsInv, TypeOK, TruncateFile
<1>1. CASE WriteFailed(p) /\ UNCHANGED disk
  BY <1>0, <1>1, StillForward, WriteFailedStatus DEF Writing
<1>2. CASE disk' = [disk EXCEPT !.file = Torn] /\ Go(p, "put", loc[p])
  <2>1. disk'.file = Torn /\ disk'.bundle = disk.bundle
    BY <1>0, <1>2 DEF Disks
  <2>2. Torn.kind = "torn" /\ Torn.submitted = {} /\ Torn.published = FALSE
    BY DEF Torn, NoFile
  <2>3. Closed /\ Closed'
    BY <1>0, ViewOf DEF LocalRecord, Writing, Closed
  <2>4. Forward
    BY <1>0, <2>1, GrowsRefl DEF Forward
  <2>5. SharedStatus'
    BY <1>0, <2>1, <2>2, <2>3 DEF StatusInv, SharedStatus
  <2>6. LocalRecord("put", loc[p]) /\ LocalPoll("put", loc[p])
    BY <1>0, ViewOf DEF LocalRecord, LocalPoll, Writing
  <2> QED
    BY <1>0, <1>2, <2>4, <2>5, <2>6, GoForward
<1> QED
  BY <1>1, <1>2 DEF TruncateFile

\* What is written is what the writer's view says.
LEMMA PutStatus ==
    ASSUME ClaimsInv, ClaimsInv', StatusInv, NEW p \in Procs, PutFile(p)
    PROVE  StatusInv'
<1>0. /\ TypeOK /\ TypeOK' /\ UNCHANGED <<chain, wire>> /\ at[p] = "put"
      /\ disk \in Disks /\ past \in Pasts
  BY DEF ClaimsInv, TypeOK, PutFile
<1>1. past'.acted = past.acted /\ past'.closed = past.closed
  <2>1. \E k : past' = [past EXCEPT !.kept = k]
    BY DEF PutFile
  <2> QED
    BY <1>0, <2>1 DEF Pasts
<1>2. (Closed' <=> Closed) /\ (Earned' <=> Earned)
  BY <1>0, <1>1 DEF Closed, Earned
<1>3. CASE WriteFailed(p) /\ UNCHANGED disk
  <2>1. Forward
    BY <1>0, <1>1, <1>3, GrowsRefl DEF Forward
  <2>2. SharedStatus'
    BY <1>0, <1>1, <1>2, <1>3 DEF StatusInv, SharedStatus
  <2> QED
    BY <1>0, <1>3, <2>1, <2>2, WriteFailedStatus DEF Writing
<1>4. CASE /\ disk' = [disk EXCEPT !.file = loc[p].next]
           /\ \E x \in {"answer", "end"} : Go(p, x, loc[p])
  <2>1. disk'.file = loc[p].next /\ disk'.bundle = disk.bundle
    BY <1>0, <1>4 DEF Disks
  <2>2. Forward
    BY <1>0, <1>1, <2>1, GrowsRefl DEF Forward
  <2>3. SharedStatus'
    BY <1>0, <1>1, <1>2, <2>1, ViewOf DEF StatusInv, SharedStatus, LocalRecord, Writing
  <2>4. ASSUME NEW x \in {"answer", "end"}
        PROVE  LocalRecord(x, loc[p]) /\ LocalPoll(x, loc[p])
    BY <1>0, ViewOf DEF LocalRecord, LocalPoll, Writing
  <2> QED
    BY <1>0, <1>4, <2>2, <2>3, <2>4, GoForward
<1> QED
  BY <1>3, <1>4 DEF PutFile

\* Write leaves the phase's view alone but for the operation.
LEMMA WriteView ==
    ASSUME ClaimsInv, NEW op, NEW m, m = [loc[Phase] EXCEPT !.op = op]
    PROVE  /\ m.ready = loc[Phase].ready /\ m.submitted = loc[Phase].submitted
           /\ m.seen = loc[Phase].seen /\ m.next = loc[Phase].next /\ m.op = op
           /\ m.who = loc[Phase].who /\ m.job = loc[Phase].job
           /\ m.since = loc[Phase].since /\ m.blind = loc[Phase].blind
BY PhaseIsProc, LocalsOf DEF Locals

\* A phase asks for a rewrite: the record it will make must be deserved by now.
LEMMA WriteStatus ==
    ASSUME ClaimsInv, ClaimsInv', StatusInv, Forward, SharedStatus', NEW op, Write(op),
           at[Phase] \in {"bundle", "fill", "close", "share", "answer", "tally"},
           ~NeedsFile(op) => Closed', op = "published" => Earned',
           ~OnChain /\ op = "submitted" => loc[Phase].who \in past'.acted
    PROVE  StatusInv'
<1>0. TypeOK /\ TypeOK' /\ Phase \in Procs
  BY PhaseIsProc DEF ClaimsInv
<1>1. PICK l, m : l = loc[Phase] /\ m = [loc[Phase] EXCEPT !.op = op]
  OBVIOUS
<1>2. /\ m.ready = l.ready /\ m.submitted = l.submitted
      /\ m.seen = l.seen /\ m.next = l.next /\ m.op = op
      /\ m.who = l.who /\ m.job = l.job /\ m.since = l.since /\ m.blind = l.blind
  BY <1>1, WriteView
<1>3. Go(Phase, "lock", m)
  BY <1>1 DEF Write
<1>4. PICK y : y = at[Phase]
  OBVIOUS
<1>5. LocalRecord(y, l)' /\ LocalPoll(y, l)'
  BY <1>0, <1>1, <1>4, ViewOf, LocalForward
<1>6. LocalRecord("lock", m)'
  BY <1>1, <1>2, <1>5 DEF LocalRecord, Writing
<1>7. LocalPoll("lock", m)'
  BY <1>1, <1>2, <1>4, <1>5 DEF LocalPoll
<1> QED
  BY <1>0, <1>3, <1>6, <1>7, GoMoves

\* CeremonyStart goes on from a bundle; offline that is the close.
LEMMA AfterBundleStatus ==
    ASSUME ClaimsInv, ClaimsInv', StatusInv, AfterBundle, UNCHANGED <<chain, wire>>,
           at[Phase] \in {"bundle", "fill"}, disk'.file = disk.file, Bundled => Bundled'
    PROVE  StatusInv'
<1>0. TypeOK /\ TypeOK' /\ Phase \in Procs /\ past \in Pasts
  BY PhaseIsProc DEF ClaimsInv, TypeOK
<1>1. /\ past'.acted = past.acted /\ (past.closed => past'.closed)
      /\ ~OnChain /\ ~Fail(Phase) => past'.closed
  BY <1>0 DEF AfterBundle, Pasts
<1>2. Forward
  BY <1>1, GrowsRefl DEF Forward
<1>3. SharedStatus'
  BY <1>0, <1>1, <1>2, ForwardFacts DEF StatusInv, SharedStatus
<1>4. CASE Fail(Phase)
  BY <1>0, <1>2, <1>3, <1>4, FailStill
<1>5. CASE OnChain /\ Go(Phase, "close", loc[Phase])
  <2>1. PICK l, y : l = loc[Phase] /\ y = at[Phase]
    OBVIOUS
  <2>2. LocalRecord("close", l) /\ LocalPoll("close", l)
    BY <1>0, <1>5, <2>1, ViewOf DEF LocalRecord, LocalPoll, Writing
  <2> QED
    BY <1>0, <1>2, <1>3, <1>5, <2>1, <2>2, GoForward
<1>6. CASE ~OnChain /\ ~Fail(Phase) /\ Write("closed")
  <2>1. Closed'
    BY <1>1, <1>6 DEF Closed
  <2> QED
    BY <1>0, <1>2, <1>3, <1>6, <2>1, WriteStatus
<1> QED
  BY <1>4, <1>5, <1>6 DEF AfterBundle

\* The bundle comes first.  A start finds none, begins one, and fills it.
LEMMA BundleStatus ==
    ASSUME ClaimsInv, ClaimsInv', StatusInv, StartBundle \/ FillBundle
    PROVE  StatusInv'
<1>0. /\ TypeOK /\ TypeOK' /\ Phase \in Procs /\ UNCHANGED <<chain, wire>>
      /\ at[Phase] \in {"bundle", "fill"} /\ disk \in Disks
  BY PhaseIsProc DEF ClaimsInv, TypeOK, StartBundle, FillBundle
<1>1. CASE AfterBundle /\ (UNCHANGED disk \/ disk' = [disk EXCEPT !.bundle = "whole"])
  <2>1. disk'.file = disk.file /\ (Bundled => Bundled')
    BY <1>0, <1>1 DEF Disks
  <2> QED
    BY <1>0, <1>1, <2>1, AfterBundleStatus
<1>2. CASE Fail(Phase) /\ UNCHANGED <<disk, past>>
  BY <1>0, <1>2, StillForward, FailStill
<1>3. CASE /\ at[Phase] = "bundle" /\ disk.bundle = "none"
           /\ disk' = [disk EXCEPT !.bundle = "torn"]
           /\ Go(Phase, "fill", loc[Phase]) /\ UNCHANGED past
  <2>1. disk'.file = disk.file
    BY <1>0, <1>3 DEF Disks
  <2>2. Forward
    BY <1>0, <1>3, GrowsRefl DEF Forward
  <2>3. SharedStatus'
    BY <1>0, <1>3, <2>1, <2>2, ForwardFacts DEF StatusInv, SharedStatus
  <2>4. LocalRecord("fill", loc[Phase]) /\ LocalPoll("fill", loc[Phase])
    BY <1>0, <1>3, ViewOf DEF LocalRecord, LocalPoll, Writing
  <2> QED
    BY <1>0, <1>3, <2>2, <2>3, <2>4, GoForward
<1> QED
  BY <1>1, <1>2, <1>3 DEF StartBundle, FillBundle

\* The close, of an election that has its bundle.
LEMMA CloseStatus == ASSUME ClaimsInv, ClaimsInv', StatusInv, CloseElection PROVE StatusInv'
<1>0. /\ TypeOK /\ TypeOK' /\ Phase \in Procs /\ UNCHANGED wire /\ at[Phase] = "close"
      /\ chain \in Chains /\ disk \in Disks /\ past \in Pasts
      /\ loc[Phase].job = "start" \/ Bundled
  BY PhaseIsProc, ViewOf DEF ClaimsInv, TypeOK, CloseElection, LocalRecord
<1>1. ASSUME Bundled, NEW s \in {"absent", "open", "closed"}, chain' = [chain EXCEPT !.status = s],
             \E r : disk' = [disk EXCEPT !.receipt = r],
             chain.status = "closed" => s = "closed", s = "absent" => chain.status = "absent",
             past'.acted = past.acted, past.closed => past'.closed
      PROVE  Forward /\ SharedStatus'
  <2>1. /\ chain'.status = s /\ chain'.share = chain.share /\ chain'.tallied = chain.tallied
        /\ disk'.bundle = disk.bundle /\ disk'.file = disk.file
    BY <1>0, <1>1 DEF Chains, Disks
  <2>2. Forward
    BY <1>1, <2>1, GrowsRefl DEF Forward
  <2>3. SharedStatus'
    BY <1>0, <1>1, <2>1, <2>2, ForwardFacts DEF StatusInv, SharedStatus
  <2> QED
    BY <2>2, <2>3
<1>2. CASE /\ Bundled
           /\ chain' = [chain EXCEPT !.status = "closed"]
           /\ disk' = [disk EXCEPT !.receipt = @ \/ chain.status # "closed"]
           /\ past' = [past EXCEPT !.closed = TRUE]
           /\ Write("closed")
  <2>1. past'.acted = past.acted /\ past'.closed = TRUE
    BY <1>0, <1>2 DEF Pasts
  <2>2. Forward /\ SharedStatus'
    BY <1>1, <1>2, <2>1
  <2>3. Closed'
    BY <1>0, <1>2, <2>1 DEF Closed, Chains
  <2> QED
    BY <1>0, <1>2, <2>2, <2>3, WriteStatus
<1>3. CASE Fail(Phase) /\ UNCHANGED <<chain, disk, past>>
  BY <1>0, <1>3, StillForward, FailStill
<1>4. CASE /\ Bundled
           /\ \E s \in {chain.status, "open", "closed"}, r \in {disk.receipt, TRUE} :
                /\ chain.status = "closed" => s = "closed"
                /\ r => disk.receipt \/ s = "closed"
                /\ chain' = [chain EXCEPT !.status = s]
                /\ disk' = [disk EXCEPT !.receipt = r]
           /\ Fail(Phase) /\ UNCHANGED past
  <2>1. chain.status \in {"absent", "open", "closed"}
    BY <1>0 DEF Chains
  <2>2. Forward /\ SharedStatus'
    BY <1>1, <1>4, <2>1
  <2> QED
    BY <1>4, <1>0, <2>2, FailStill
<1> QED
  BY <1>0, <1>2, <1>3, <1>4 DEF CloseElection

\* The phase's view after a step that is neither a read nor a rewrite.
LEMMA StepView ==
    ASSUME ClaimsInv, StatusInv, at[Phase] \in {"share", "send", "answer"},
           NEW c, NEW x \in {"share", "send", "tally"}
    PROVE  /\ LocalRecord(x, loc[Phase]) /\ LocalPoll(x, loc[Phase])
           /\ \A m : m = [loc[Phase] EXCEPT !.contest = c]
                        => LocalRecord(x, m) /\ LocalPoll(x, m)
<1>1. LocalRecord(x, loc[Phase]) /\ LocalPoll(x, loc[Phase])
  BY PhaseIsProc, ViewOf DEF LocalRecord, LocalPoll, Writing
<1>2. ASSUME NEW m, m = [loc[Phase] EXCEPT !.contest = c]
      PROVE  LocalRecord(x, m) /\ LocalPoll(x, m)
  <2>1. /\ m.ready = loc[Phase].ready /\ m.submitted = loc[Phase].submitted
        /\ m.seen = loc[Phase].seen /\ m.next = loc[Phase].next /\ m.op = loc[Phase].op
        /\ m.who = loc[Phase].who /\ m.job = loc[Phase].job
        /\ m.since = loc[Phase].since /\ m.blind = loc[Phase].blind
    BY <1>2, PhaseIsProc, ViewOf DEF Locals
  <2> QED
    BY <1>1, <2>1 DEF LocalRecord, LocalPoll
<1> QED
  BY <1>1, <1>2

\* Looking a share up changes nothing.
LEMMA ProbeShareStatus == ASSUME ClaimsInv, ClaimsInv', StatusInv, ProbeShare PROVE StatusInv'
<1>0. /\ TypeOK /\ TypeOK' /\ Phase \in Procs /\ UNCHANGED <<chain, wire, disk, past>>
      /\ at[Phase] = "share"
  BY PhaseIsProc DEF ClaimsInv, ProbeShare
<1> DEFINE c == loc[Phase].contest + 1
<1>1. \/ Go(Phase, "share", [loc[Phase] EXCEPT !.contest = c])
      \/ Fail(Phase)
      \/ Go(Phase, "send", loc[Phase])
  BY DEF ProbeShare
<1> HIDE DEF c
<1>2. CASE Fail(Phase)
  BY <1>0, <1>2, StillForward, FailStill
<1>3. CASE Go(Phase, "send", loc[Phase])
  BY <1>0, <1>3, StepView, GoStill
<1>4. CASE Go(Phase, "share", [loc[Phase] EXCEPT !.contest = c])
  BY <1>0, <1>4, StepView, GoStill
<1> QED
  BY <1>1, <1>2, <1>3, <1>4

\* One more share on the chain.
LEMMA ShareForward ==
    ASSUME TypeOK, TypeOK', StatusInv, UNCHANGED <<disk, past>>,
           NEW t \in Trustees, NEW c \in Contests, NEW v, chain.share[t][c] = "none",
           chain' = [chain EXCEPT !.share[t][c] = v], chain.status = "closed"
    PROVE  Forward /\ SharedStatus'
<1>1. /\ chain'.status = chain.status /\ chain'.tallied = chain.tallied
      /\ chain'.share = [chain.share EXCEPT ![t][c] = v]
  BY DEF TypeOK, Chains
<1>2. Grows(chain.share, chain'.share)
  BY <1>1 DEF Grows, TypeOK, Chains
<1>3. Forward
  BY <1>1, <1>2 DEF Forward
<1>4. SharedStatus'
  BY <1>1, <1>3, ForwardFacts DEF StatusInv, SharedStatus
<1> QED
  BY <1>3, <1>4

\* A share is sent: it commits, is refused, or is lost and may commit later.
LEMMA SendStatus == ASSUME ClaimsInv, ClaimsInv', StatusInv, SendShare PROVE StatusInv'
<1>0. /\ TypeOK /\ TypeOK' /\ Phase \in Procs /\ UNCHANGED <<disk, past>>
      /\ at[Phase] = "send" /\ chain \in Chains /\ wire \in Wires
  BY PhaseIsProc DEF ClaimsInv, TypeOK, SendShare
<1> DEFINE t == loc[Phase].who
           k == loc[Phase].contest
           accepted == chain.status = "closed" /\ chain.share[t][k] = "none"
<1>1. t \in Trustees /\ k \in Contests
  <2>1. LocalType(Phase, "send", loc[Phase]) /\ loc[Phase] \in Locals
    BY <1>0, LocalsOf
  <2>2. t \in Trustees /\ k \in 1..(NumContests + 1) /\ k <= NumContests
    BY <2>1 DEF LocalType, Locals
  <2> QED
    BY <2>2, CeremonyAssumption DEF Contests
<1>2. CASE /\ accepted /\ chain' = [chain EXCEPT !.share[t][k] = "ours"]
           /\ Go(Phase, "share", [loc[Phase] EXCEPT !.contest = k + 1])
  <2>1. Forward /\ SharedStatus'
    BY <1>0, <1>1, <1>2, ShareForward
  <2>2. PICK c : c = k + 1
    OBVIOUS
  <2>3. Go(Phase, "share", [loc[Phase] EXCEPT !.contest = c])
    BY <1>2, <2>2
  <2> HIDE DEF t, k
  <2> QED
    BY <1>0, <2>1, <2>3, StepView, GoForward
<1>3. CASE Fail(Phase) /\ UNCHANGED <<chain, wire>>
  BY <1>0, <1>3, StillForward, FailStill
<1>4. CASE /\ Fail(Phase) /\ UNCHANGED chain
           /\ \E w \in SUBSET {<<t, k>>} :
                wire' = [wire EXCEPT !.shares = @ \cup (IF accepted THEN w ELSE {})]
  <2>1. Forward
    BY <1>0, <1>4, GrowsRefl DEF Forward
  <2>2. wire'.shares # {} => wire.shares # {} \/ chain.status = "closed"
    BY <1>0, <1>4 DEF Wires
  <2>3. SharedStatus'
    BY <1>0, <1>4, <2>1, <2>2, ForwardFacts DEF StatusInv, SharedStatus
  <2> QED
    BY <1>4, <2>1, <2>3, <1>0, FailStill
<1> QED
  BY <1>2, <1>3, <1>4 DEF SendShare

\* The trustee acted.
LEMMA DoneStatus == ASSUME ClaimsInv, ClaimsInv', StatusInv, SharesDone PROVE StatusInv'
<1>0. /\ TypeOK /\ TypeOK' /\ UNCHANGED <<chain, wire, disk>> /\ at[Phase] = "share"
      /\ past \in Pasts
  BY DEF ClaimsInv, TypeOK, SharesDone
<1>1. past'.acted = past.acted \cup {loc[Phase].who} /\ past'.closed = past.closed
  BY <1>0 DEF SharesDone, Pasts
<1>2. Forward
  BY <1>0, <1>1, GrowsRefl DEF Forward
<1>3. SharedStatus'
  BY <1>0, <1>1, <1>2, ForwardFacts DEF StatusInv, SharedStatus
<1>4. Write("submitted")
  BY DEF SharesDone
<1> QED
  BY <1>0, <1>1, <1>2, <1>3, <1>4, WriteStatus DEF NeedsFile

\* Offline, trustees named by the record acted: a threshold of them earns the tally.
LEMMA ThresholdStatus ==
    ASSUME ClaimsInv, ClaimsInv', StatusInv, CheckThreshold
    PROVE  StatusInv'
<1>0. /\ TypeOK /\ TypeOK' /\ Phase \in Procs /\ UNCHANGED <<chain, wire, disk, past>>
      /\ at[Phase] = "answer"
  BY PhaseIsProc DEF ClaimsInv, CheckThreshold
<1>1. Forward /\ SharedStatus'
  BY <1>0, StillForward
<1>2. CASE Fail(Phase)
  BY <1>0, <1>1, <1>2, FailStill
<1>3. CASE OnChain /\ Go(Phase, "tally", loc[Phase])
  BY <1>0, <1>3, StepView, GoStill
<1>4. CASE ~OnChain /\ Unlocked(loc[Phase].submitted) /\ Write("published")
  <2>1. loc[Phase].submitted \subseteq past.acted /\ Closed
    BY <1>0, <1>4, ViewOf, SomeoneUnlocks DEF LocalRecord
  <2>2. past.acted \in SUBSET Trustees
    BY <1>0 DEF TypeOK, Pasts
  <2>3. Earned
    BY <1>4, <2>1, <2>2, TrusteesCount DEF Earned, Unlocked
  <2>4. Closed' /\ Earned'
    BY <1>0, <1>1, <2>1, <2>3, ForwardFacts
  <2> QED
    BY <1>0, <1>1, <1>4, <2>4, WriteStatus
<1> QED
  BY <1>2, <1>3, <1>4 DEF CheckThreshold

\* The chaincode publishes one tally, of a closed election.
LEMMA PublishStatus == ASSUME ClaimsInv, ClaimsInv', StatusInv, PublishTally PROVE StatusInv'
<1>0. /\ TypeOK /\ TypeOK' /\ Phase \in Procs /\ UNCHANGED <<disk, past>>
      /\ at[Phase] = "tally" /\ chain \in Chains /\ wire \in Wires /\ OnChain
  BY PhaseIsProc, LocalsOf DEF ClaimsInv, TypeOK, PublishTally, LocalType
<1> DEFINE signers == tallyToPublish(loc[Phase].submitted)
<1>2. CASE /\ PublishAccepts(signers) /\ Write("published")
           /\ chain' = [chain EXCEPT !.tallied = TRUE, !.signers = signers]
           /\ UNCHANGED wire
  <2> HIDE DEF signers
  <2>1. /\ chain'.tallied = TRUE /\ chain'.share = chain.share
        /\ chain'.status = chain.status /\ chain.status = "closed"
    BY <1>0, <1>2 DEF Chains, PublishAccepts
  <2>2. Forward
    BY <1>0, <2>1, GrowsRefl DEF Forward
  <2>3. SharedStatus'
    BY <1>0, <1>2, <2>1, <2>2, ForwardFacts DEF StatusInv, SharedStatus
  <2>4. Closed' /\ Earned'
    BY <1>0, <2>1 DEF Closed, Earned
  <2> QED
    BY <1>0, <1>2, <2>2, <2>3, <2>4, WriteStatus
<1>3. CASE Fail(Phase) /\ UNCHANGED chain /\ wire'.shares = wire.shares
  <2>1. Forward
    BY <1>0, <1>3, GrowsRefl DEF Forward
  <2>2. SharedStatus'
    BY <1>0, <1>3, <2>1, ForwardFacts DEF StatusInv, SharedStatus
  <2> QED
    BY <1>0, <1>3, <2>1, <2>2, FailStill
<1>4. ASSUME NEW w, wire' = [wire EXCEPT !.tallies = w] PROVE wire'.shares = wire.shares
  BY <1>0, <1>4 DEF Wires
<1> QED
  BY <1>2, <1>3, <1>4 DEF PublishTally

\* The phase ends.
LEMMA EndStatus == ASSUME ClaimsInv, ClaimsInv', StatusInv, EndPhase PROVE StatusInv'
<1>0. /\ TypeOK /\ TypeOK' /\ Phase \in Procs /\ UNCHANGED <<chain, wire, disk, past>>
      /\ Go(Phase, "idle", Idle)
  BY PhaseIsProc DEF ClaimsInv, EndPhase, Return
<1> QED
  BY <1>0, IdleView, GoStill

\* A step of the world that the console does not see.
LEMMA UnseenStatus ==
    ASSUME StatusInv, TypeOK, TypeOK', Forward, SharedStatus', UNCHANGED <<at, loc>>
    PROVE  StatusInv'
<1>1. ASSUME NEW q \in Procs
      PROVE  LocalRecord(at[q], loc[q])' /\ LocalPoll(at[q], loc[q])'
  <2>1. PICK y, m : y = at[q] /\ m = loc[q]
    OBVIOUS
  <2>2. LocalRecord(y, m) /\ LocalPoll(y, m)
    BY <2>1 DEF StatusInv
  <2>3. LocalRecord(y, m)' /\ LocalPoll(y, m)'
    BY <2>2, LocalForward
  <2> QED
    BY <2>1, <2>3 DEF LocalRecord, LocalPoll
<1> QED
  BY <1>1 DEF StatusInv

\* Shares and tallies that commit late, or are someone else's.
LEMMA WorldStatus ==
    ASSUME ClaimsInv, ClaimsInv', StatusInv,
           \/ \E t \in Trustees, c \in Contests : LandShare(t, c) \/ SubmitElsewhere(t, c)
           \/ \E signers \in SUBSET Trustees : LandTally(signers)
    PROVE  StatusInv'
<1>0. TypeOK /\ TypeOK' /\ chain \in Chains /\ wire \in Wires
  BY DEF ClaimsInv, TypeOK
<1>1. ASSUME NEW t \in Trustees, NEW c \in Contests, LandShare(t, c) PROVE StatusInv'
  <2>1. /\ UNCHANGED <<disk, past, at, loc>> /\ chain.status = "closed"
    BY <1>1 DEF LandShare, StatusInv, SharedStatus
  <2>2. CASE chain.share[t][c] = "none"
    <3>1. chain' = [chain EXCEPT !.share[t][c] = "ours"]
      BY <1>1, <2>2 DEF LandShare
    <3> QED
      BY <1>0, <2>1, <2>2, <3>1, ShareForward, UnseenStatus
  <2>3. CASE chain.share[t][c] # "none"
    <3>1. chain' = chain
      BY <1>1, <2>3 DEF LandShare
    <3>2. Forward
      BY <2>1, <3>1, GrowsRefl DEF Forward
    <3>3. SharedStatus'
      BY <1>0, <2>1, <3>1, <3>2, ForwardFacts DEF StatusInv, SharedStatus
    <3> QED
      BY <1>0, <2>1, <3>2, <3>3, UnseenStatus
  <2> QED
    BY <2>2, <2>3
<1>2. ASSUME NEW t \in Trustees, NEW c \in Contests, SubmitElsewhere(t, c) PROVE StatusInv'
  <2>1. /\ UNCHANGED <<disk, past, at, loc>> /\ chain.status = "closed"
        /\ chain.share[t][c] = "none"
        /\ \E v : chain' = [chain EXCEPT !.share[t][c] = v]
    BY <1>2 DEF SubmitElsewhere
  <2> QED
    BY <1>0, <2>1, ShareForward, UnseenStatus
<1>3. ASSUME NEW signers \in SUBSET Trustees, LandTally(signers) PROVE StatusInv'
  <2>1. UNCHANGED <<disk, past, at, loc>> /\ wire'.shares = wire.shares
    BY <1>0, <1>3 DEF LandTally, Wires
  <2>2. /\ chain'.share = chain.share /\ chain'.status = chain.status
        /\ chain.tallied => chain'.tallied
    BY <1>0, <1>3 DEF LandTally, Chains
  <2>3. Forward
    BY <2>1, <2>2, GrowsRefl DEF Forward
  <2>4. SharedStatus'
    BY <1>0, <2>1, <2>2, <2>3, ForwardFacts DEF StatusInv, SharedStatus
  <2> QED
    BY <1>0, <2>1, <2>3, <2>4, UnseenStatus
<1> QED
  BY <1>1, <1>2, <1>3

\* A kill forgets every view.
LEMMA KillStatus == ASSUME ClaimsInv, ClaimsInv', StatusInv, Kill PROVE StatusInv'
<1>0. /\ TypeOK /\ TypeOK' /\ UNCHANGED <<chain, wire, disk>> /\ past \in Pasts
      /\ at' = [p \in Procs |-> "idle"] /\ loc' = [p \in Procs |-> Idle]
  BY DEF ClaimsInv, TypeOK, Kill
<1>1. past'.acted = past.acted /\ past'.closed = past.closed
  <2>1. \E k : past' = [past EXCEPT !.kept = k]
    BY DEF Kill
  <2> QED
    BY <1>0, <2>1 DEF Pasts
<1>2. Forward
  BY <1>0, <1>1, GrowsRefl DEF Forward
<1>3. SharedStatus'
  BY <1>0, <1>1, <1>2, ForwardFacts DEF StatusInv, SharedStatus
<1>4. PICK i : i = Idle
  OBVIOUS
<1>5. LocalRecord("idle", i)' /\ LocalPoll("idle", i)'
  BY <1>0, <1>2, <1>4, IdleView, LocalForward
<1>6. ASSUME NEW q \in Procs
      PROVE  LocalRecord(at[q], loc[q])' /\ LocalPoll(at[q], loc[q])'
  <2>1. at'[q] = "idle" /\ loc'[q] = i
    BY <1>0, <1>4
  <2> QED
    BY <1>5, <2>1 DEF LocalRecord, LocalPoll
<1> QED
  BY <1>3, <1>6 DEF StatusInv

\* At the start nothing is recorded.
LEMMA InitStatus == ASSUME Init PROVE StatusInv
<1>1. /\ chain.status = "absent" /\ wire.shares = {} /\ disk.file = NoFile
      /\ \A t \in Trustees, c \in Contests : chain.share[t][c] = "none"
      /\ \A p \in Procs : at[p] = "idle" /\ loc[p] = Idle
  BY DEF Init
<1>2. SharedStatus
  BY <1>1 DEF SharedStatus, NoFile
<1> QED
  BY <1>1, <1>2, IdleView DEF StatusInv

\* The views of the ceremony, in every state.
THEOREM StatusViews == Spec => []StatusInv
<1>1. Init => StatusInv
  BY InitStatus
<1>2. ClaimsInv /\ ClaimsInv' /\ StatusInv /\ [Next]_vars => StatusInv'
  <2> SUFFICES ASSUME ClaimsInv, ClaimsInv', StatusInv, [Next]_vars PROVE StatusInv'
    OBVIOUS
  <2>0. ASSUME NEW p \in Procs, Status(p) PROVE StatusInv'
    BY <2>0, ReadStatus, StatStatus, ProbeStatus, ProbeTallyStatus, LockStatus,
       TruncateStatus, PutStatus DEF Status
  <2>1. ASSUME NEW h \in Handlers, Request(h) \/ Serve(h) PROVE StatusInv'
    BY <2>0, <2>1, PhaseIsProc, RequestStatus, AnswerStatus, ClaimStatus DEF Serve
  <2>2. CASE RunPhase
    BY <2>0, <2>2, PhaseIsProc, BundleStatus, CloseStatus, ProbeShareStatus, SendStatus,
       DoneStatus, ThresholdStatus, PublishStatus, EndStatus DEF RunPhase
  <2>3. CASE World
    BY <2>3, WorldStatus, KillStatus DEF World
  <2>4. CASE UNCHANGED vars
    <3>1. UNCHANGED <<chain, wire, disk, past, at, loc>> /\ TypeOK /\ TypeOK'
      BY <2>4 DEF vars, ClaimsInv
    <3> QED
      BY <3>1, StillForward, UnseenStatus
  <2> QED
    BY <2>1, <2>2, <2>3, <2>4 DEF Next
<1> QED
  BY <1>1, <1>2, Claims, PTL DEF Spec

\* A status calls trustees to act only on a closed election, and a poll that met no
\* error lists everyone who was complete when it came in.
THEOREM StatusIsTrue == Spec => []StatusTrue
<1>1. ClaimsInv /\ StatusInv => StatusTrue
  <2> SUFFICES ASSUME ClaimsInv, StatusInv PROVE StatusTrue
    OBVIOUS
  <2>1. ReadyMeansClosed
    BY DEF StatusInv, SharedStatus, LocalRecord, Closed, ReadyMeansClosed
  <2>2. StatusIsCurrent
    BY PhaseIsProc DEF StatusInv, LocalPoll, StatusIsCurrent
  <2> QED
    BY <2>1, <2>2 DEF ClaimsInv, StatusTrue
<1> QED
  BY <1>1, Claims, StatusViews, PTL

\* A ceremony recorded as published had its threshold of trustees, offline too.
THEOREM PublicationIsEarned == Spec => []PublishedAboveThreshold
<1>1. StatusInv => PublishedAboveThreshold
  BY DEF StatusInv, SharedStatus, Earned, PublishedAboveThreshold
<1> QED
  BY <1>1, StatusViews, PTL
=============================================================================
