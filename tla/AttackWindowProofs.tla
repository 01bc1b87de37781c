-------------------------- MODULE AttackWindowProofs --------------------------
(***************************************************************************)
(* Proofs about the ballot window of a security run, its workers, the      *)
(* ballot reader they share and the two halves stitched into one result,   *)
(* about what the contract answers to the attacks mounted at the pauses,   *)
(* and about the pauses and the verdicts they leave, for any number of     *)
(* ballots, workers, faults and decisions, any plan and any pause point.   *)
(***************************************************************************)
EXTENDS AttackWindow, TLAPS, FiniteSetTheorems, SequenceTheorems, WellFoundedInduction

Results == [submitted: Int, ok: SUBSET Int, last: Int, stopped: BOOLEAN]

WindowTypes ==
    /\ pc \in Stages \cup {"first", "second", "window", "over"}
    /\ half \in [from: Nat, upto: Nat, next: Nat, ok: SUBSET Int, last: Int, stopped: BOOLEAN]
    /\ job \in [Workers -> [index: Int, step: {"idle", "read", "send"}]]
    /\ reader \in [next: Nat, ahead: SUBSET Int]
    /\ landed \subseteq Int
    /\ first \in Results /\ window \in Results

\* What a worker holds: nothing, or an index of the half's that was handed out, and no
\* two the same.
JobsInv ==
    /\ \A w \in Workers : job[w].step = "idle" => job[w] = Idle
    /\ \A w \in Workers :
          job[w].step # "idle" => half.from <= job[w].index /\ job[w].index < half.next
    /\ \A v, w \in Workers : job[v].step = "read" /\ job[v] = job[w] => v = w
    /\ pc \notin {"first", "second"} => \A w \in Workers : job[w].step = "idle"

\* Some worker has still to ask the reader for line i.
Awaited(i) == \E w \in Workers : job[w].step = "read" /\ job[w].index = i

\* The reader: every line handed out is behind it, unless awaited; what it parked is
\* awaited; and what is awaited is still ahead of it or parked.
ReaderInv ==
    /\ reader.next <= half.next
    /\ \A i \in reader.next..(half.next - 1) : Awaited(i)
    /\ \A i \in reader.ahead : Awaited(i) /\ i < reader.next
    /\ \A w \in Workers :
          job[w].step = "read" => job[w].index \in reader.ahead \/ reader.next <= job[w].index

\* The first half as the second finds it: it ran to the pause point.
FirstWhole == first.submitted = pauseIndex /\ first.last = pauseIndex - 1

\* A half counts from its own start, and what landed is what the halves say.
HalvesInv ==
    /\ half.last = half.next - half.from - 1
    /\ half.from <= half.next /\ half.next <= half.upto
    /\ pc = "dkg" => half.next = 0 /\ landed = {}
    /\ pc = "first" =>
          /\ half.from = 0 /\ landed = half.ok
          /\ half.upto = IF pauseIndex > 0 THEN pauseIndex ELSE N
    /\ pc = "ballots" => FirstWhole /\ landed = first.ok /\ half.next = pauseIndex
    /\ pc = "second" =>
          FirstWhole /\ half.from = pauseIndex /\ landed = first.ok \cup {pauseIndex + k : k \in half.ok}
    /\ pc \in {"window", "close", "ceremony"} =>
          window.ok = landed /\ window.last = half.next - 1 /\ window.submitted = half.next

WindowInv == WindowTypes /\ JobsInv /\ ReaderInv /\ HalvesInv

-----------------------------------------------------------------------------
(* The pause point.                                                          *)

\* Of two numbers the library's Max and Min are what they say.
LEMMA MaxOfTwo ==
    ASSUME NEW a \in Int, NEW b \in Int
    PROVE  Max({a, b}) = IF a >= b THEN a ELSE b
<1>1. \E x \in {a, b} : \A y \in {a, b} : x >= y
  OBVIOUS
<1> QED
  BY <1>1 DEF Max

\* The smaller of two numbers.
LEMMA MinOfTwo ==
    ASSUME NEW a \in Int, NEW b \in Int
    PROVE  Min({a, b}) = IF a <= b THEN a ELSE b
<1>1. \E x \in {a, b} : \A y \in {a, b} : x <= y
  OBVIOUS
<1> QED
  BY <1>1 DEF Min

\* The pause lies strictly inside the window, or there is none.
LEMMA PauseInside == pauseIndex \in 0..(N - 1)
<1>1. CASE "ballots" \notin Plan
  BY <1>1, AttackWindowAssumption DEF pauseIndex
<1>2. CASE "ballots" \in Plan
  <2> DEFINE at == IF BallotsAt = 0 THEN 50 ELSE BallotsAt
             x  == (at * N) \div 100
  <2>1. x \in Int
    <3>1. at * N \in Int
      BY AttackWindowAssumption
    <3> QED
      BY <3>1
  <2>2. pauseIndex = Min({Max({x, 1}), N - 1})
    BY <1>2 DEF pauseIndex
  <2> HIDE DEF x
  <2>3. Max({x, 1}) \in Int /\ Max({x, 1}) >= 1
    BY <2>1, MaxOfTwo
  <2> QED
    BY <2>2, <2>3, MinOfTwo, AttackWindowAssumption
<1> QED
  BY <1>1, <1>2

-----------------------------------------------------------------------------
(* The invariant, step by step.                                              *)

benchVars == <<pc, half, job, reader, landed, first, window>>

\* What leaves the workers, the reader, the halves and the lifecycle alone keeps it.
LEMMA BenchUntouched ==
    ASSUME WindowInv, UNCHANGED benchVars
    PROVE  WindowInv'
BY DEF WindowInv, WindowTypes, JobsInv, ReaderInv, Awaited, HalvesInv, FirstWhole,
   benchVars

\* Nothing is awaited when no worker holds a line: the reader is where the dispatcher
\* is.
LEMMA AllRead ==
    ASSUME WindowInv, \A w \in Workers : job[w].step = "idle"
    PROVE  reader.next = half.next /\ reader.ahead = {}
<1>1. ~ \E i : Awaited(i)
  BY DEF Awaited
<1>2. reader.ahead = {}
  BY <1>1 DEF WindowInv, WindowTypes, ReaderInv
<1>3. ~(reader.next < half.next)
  BY <1>1 DEF WindowInv, WindowTypes, ReaderInv
<1> QED
  BY <1>2, <1>3 DEF WindowInv, WindowTypes, ReaderInv

\* The dispatcher hands out the next index: it is awaited from then on.
LEMMA DispatchKeeps ==
    ASSUME WindowInv, NEW w \in Workers, Dispatch(w)
    PROVE  WindowInv'
<1> USE DEF Dispatch, Idle
<1>0. /\ half' \in [from: Nat, upto: Nat, next: Nat, ok: SUBSET Int, last: Int, stopped: BOOLEAN]
      /\ half'.next = half.next + 1 /\ half'.last = half.next - half.from
      /\ half'.from = half.from /\ half'.upto = half.upto /\ half'.ok = half.ok
      /\ half.next < half.upto
  <2>1. half.next - half.from \in Int /\ half.next + 1 \in Nat
    BY DEF WindowInv, WindowTypes
  <2> QED
    BY <2>1 DEF WindowInv, WindowTypes
<1>1. WindowTypes'
  BY <1>0 DEF WindowInv, WindowTypes
<1>2. JobsInv'
  BY DEF WindowInv, WindowTypes, JobsInv, HalvesInv
<1>3. ReaderInv'
  <2>1. PICK n \in Nat : n = half.next
    BY DEF WindowInv, WindowTypes
  <2>2. Awaited(n)'
    BY <2>1 DEF WindowInv, WindowTypes, Awaited
  <2>3. ASSUME NEW i, Awaited(i) PROVE Awaited(i)'
    BY <2>3 DEF WindowInv, WindowTypes, Awaited
  <2> QED
    BY <1>0, <2>1, <2>2, <2>3 DEF WindowInv, WindowTypes, ReaderInv
<1>4. HalvesInv'
  BY <1>0 DEF WindowInv, WindowTypes, HalvesInv, FirstWhole
<1> QED
  BY <1>1, <1>2, <1>3, <1>4 DEF WindowInv

\* A worker asks for its line, and the reader has it: parked, or scanned to, past lines
\* that are other workers'.
LEMMA ReadLineKeeps ==
    ASSUME WindowInv, NEW w \in Workers, ReadLine(w)
    PROVE  WindowInv'
<1> DEFINE i == job[w].index
<1>1. /\ job[w].step = "read" /\ i \in Nat /\ half.from <= i /\ i < half.next
      /\ i \in reader.ahead \/ reader.next <= i
  BY DEF WindowInv, WindowTypes, JobsInv, ReaderInv, ReadLine
<1>2. /\ job' = [job EXCEPT ![w].step = "send"]
      /\ \/ i \in reader.ahead /\ reader' = [reader EXCEPT !.ahead = @ \ {i}]
         \/ /\ reader.next <= i
            /\ reader' = [next |-> i + 1, ahead |-> reader.ahead \cup (reader.next..(i - 1))]
      /\ UNCHANGED <<pc, half, landed, first, window>>
  BY <1>1 DEF ReadLine, At, WindowInv, WindowTypes
<1>3. WindowTypes'
  BY <1>1, <1>2 DEF WindowInv, WindowTypes
<1>4. JobsInv'
  BY <1>1, <1>2 DEF WindowInv, WindowTypes, JobsInv, Idle
<1>5. ASSUME NEW k, Awaited(k), k # i PROVE Awaited(k)'
  BY <1>2, <1>5 DEF WindowInv, WindowTypes, Awaited
<1>6. ASSUME NEW v \in Workers, v # w, job[v].step = "read" PROVE job[v].index # i
  BY <1>1, <1>6 DEF WindowInv, WindowTypes, JobsInv
<1>7. ReaderInv'
  <2>1. CASE i \in reader.ahead /\ reader' = [reader EXCEPT !.ahead = @ \ {i}]
    <3>1. reader'.next = reader.next /\ reader'.ahead = reader.ahead \ {i}
      BY <2>1 DEF WindowInv, WindowTypes
    <3>2. i \notin reader.next..(half.next - 1)
      BY <2>1 DEF WindowInv, WindowTypes, ReaderInv
    <3> QED
      BY <1>1, <1>2, <1>5, <1>6, <3>1, <3>2 DEF WindowInv, WindowTypes, ReaderInv
  <2>2. CASE /\ reader.next <= i
             /\ reader' = [next |-> i + 1, ahead |-> reader.ahead \cup (reader.next..(i - 1))]
    <3>1. reader'.next = i + 1 /\ reader'.ahead = reader.ahead \cup (reader.next..(i - 1))
      BY <2>2
    <3>2. \A k \in reader'.ahead : Awaited(k) /\ k # i /\ k < i + 1
      BY <1>1, <2>2, <3>1 DEF WindowInv, WindowTypes, ReaderInv
    <3>3. \A k \in (i + 1)..(half.next - 1) : Awaited(k) /\ k # i
      BY <1>1, <2>2 DEF WindowInv, WindowTypes, ReaderInv
    <3>4. ASSUME NEW v \in Workers, job'[v].step = "read"
          PROVE  job'[v].index \in reader'.ahead \/ reader'.next <= job'[v].index
      <4>1. v # w /\ job'[v] = job[v]
        BY <1>2, <3>4 DEF WindowInv, WindowTypes
      <4>2. job[v].index # i /\ job[v].index \in Int
        BY <1>6, <3>4, <4>1 DEF WindowInv, WindowTypes
      <4>3. job[v].index \in reader.ahead \/ reader.next <= job[v].index
        BY <3>4, <4>1 DEF WindowInv, ReaderInv
      <4> QED
        BY <1>1, <3>1, <4>1, <4>2, <4>3 DEF WindowInv, WindowTypes
    <3> QED
      BY <1>1, <1>2, <1>5, <3>1, <3>2, <3>3, <3>4 DEF WindowInv, WindowTypes, ReaderInv
  <2> QED
    BY <1>2, <2>1, <2>2
<1>8. HalvesInv'
  BY <1>2 DEF WindowInv, HalvesInv, FirstWhole
<1> QED
  BY <1>3, <1>4, <1>7, <1>8 DEF WindowInv

\* A submission that returned is counted by the half, at the index the half has for it.
LEMMA SubmitKeeps ==
    ASSUME WindowInv, NEW w \in Workers, Submit(w)
    PROVE  WindowInv'
<1> DEFINE i == job[w].index
<1>1. /\ job[w].step = "send" /\ i \in Int
      /\ job' = [job EXCEPT ![w] = Idle]
      /\ \/ UNCHANGED <<landed, half>>
         \/ landed' = landed \cup {i} /\ half' = [half EXCEPT !.ok = @ \cup {i - half.from}]
      /\ UNCHANGED <<pc, reader, first, window>>
  BY DEF WindowInv, WindowTypes, Submit
<1>2. /\ half'.from = half.from /\ half'.next = half.next /\ half'.upto = half.upto
      /\ half'.last = half.last
  BY <1>1 DEF WindowInv, WindowTypes
<1>3. WindowTypes'
  BY <1>1 DEF WindowInv, WindowTypes, Idle
<1>4. JobsInv'
  BY <1>1, <1>2 DEF WindowInv, WindowTypes, JobsInv, Idle
<1>5. ReaderInv'
  <2>1. ASSUME NEW k, Awaited(k) PROVE Awaited(k)'
    BY <1>1, <2>1 DEF WindowInv, WindowTypes, Awaited
  <2> QED
    BY <1>1, <1>2, <2>1 DEF WindowInv, WindowTypes, ReaderInv, Idle
<1>6. HalvesInv'
  <2>1. pc \in {"first", "second"}
    BY <1>1 DEF WindowInv, WindowTypes, JobsInv
  <2>2. pc = "first" => landed' = half'.ok
    <3>1. pc = "first" => landed = half.ok /\ half.from = 0 /\ i - 0 = i
      BY <1>1 DEF WindowInv, HalvesInv
    <3> QED
      BY <1>1, <3>1 DEF WindowInv, WindowTypes
  <2>3. pc = "second" => landed' = first.ok \cup {pauseIndex + k : k \in half'.ok}
    BY <1>1, PauseInside DEF WindowInv, WindowTypes, HalvesInv
  <2> QED
    BY <1>1, <1>2, <2>1, <2>2, <2>3 DEF WindowInv, HalvesInv, FirstWhole
<1> QED
  BY <1>3, <1>4, <1>5, <1>6 DEF WindowInv

\* A submission that failed frees its worker.
LEMMA SubmitFailsKeeps ==
    ASSUME WindowInv, NEW w \in Workers, SubmitFails(w)
    PROVE  WindowInv'
<1>1. /\ job[w].step = "send" /\ job' = [job EXCEPT ![w] = Idle]
      /\ UNCHANGED <<pc, half, reader, landed, first, window>>
  BY DEF SubmitFails
<1>2. WindowTypes'
  BY <1>1 DEF WindowInv, WindowTypes, Idle
<1>3. JobsInv'
  BY <1>1 DEF WindowInv, WindowTypes, JobsInv, Idle
<1>4. ReaderInv'
  <2>1. ASSUME NEW k, Awaited(k) PROVE Awaited(k)'
    BY <1>1, <2>1 DEF WindowInv, WindowTypes, Awaited
  <2> QED
    BY <1>1, <2>1 DEF WindowInv, WindowTypes, ReaderInv, Idle
<1>5. HalvesInv'
  BY <1>1 DEF WindowInv, HalvesInv, FirstWhole
<1> QED
  BY <1>2, <1>3, <1>4, <1>5 DEF WindowInv

\* The dispatcher stops early.
LEMMA StopDispatchKeeps ==
    ASSUME WindowInv, StopDispatch
    PROVE  WindowInv'
<1>1. /\ half' = [half EXCEPT !.stopped = TRUE]
      /\ UNCHANGED <<pc, job, reader, landed, first, window>>
  BY DEF StopDispatch
<1>2. WindowTypes'
  BY <1>1 DEF WindowInv, WindowTypes
<1>3. JobsInv' /\ ReaderInv'
  BY <1>1 DEF WindowInv, WindowTypes, JobsInv, ReaderInv, Awaited
<1>4. HalvesInv'
  BY <1>1 DEF WindowInv, WindowTypes, HalvesInv, FirstWhole
<1> QED
  BY <1>2, <1>3, <1>4 DEF WindowInv

\* A half that has returned counts what landed in it from its own start.
LEMMA HalfResult ==
    ASSUME WindowInv
    PROVE  /\ RunResult(half) \in Results /\ NotRun \in Results
           /\ RunResult(half).submitted = half.next - half.from
           /\ RunResult(half).last = half.next - half.from - 1
           /\ RunResult(half).ok = half.ok
           /\ NotRun.submitted = 0 /\ NotRun.ok = {} /\ NotRun.last = -1
BY DEF WindowInv, WindowTypes, HalvesInv, RunResult, NotRun, Results

\* Joining a whole first half with what came after it.
LEMMA JoinResult ==
    ASSUME NEW a \in Results, NEW b \in Results, NEW at \in Int
    PROVE  /\ joinWindows(at, a, b) \in Results
           /\ joinWindows(at, a, b).submitted = a.submitted + b.submitted
           /\ joinWindows(at, a, b).ok = a.ok \cup {at + k : k \in b.ok}
           /\ joinWindows(at, a, b).last = IF b.last >= 0 THEN at + b.last ELSE a.last
<1>1. {at + k : k \in b.ok} \subseteq Int
  BY DEF Results
<1> QED
  BY <1>1 DEF joinWindows, Results

\* Joining it with a second half that never ran.
LEMMA JoinNotRun ==
    ASSUME NEW a \in Results, NEW at \in Int
    PROVE  /\ joinWindows(at, a, NotRun) \in Results
           /\ joinWindows(at, a, NotRun).submitted = a.submitted
           /\ joinWindows(at, a, NotRun).ok = a.ok
           /\ joinWindows(at, a, NotRun).last = a.last
<1>1. NotRun \in Results /\ NotRun.submitted = 0 /\ NotRun.ok = {} /\ NotRun.last = -1
  BY DEF NotRun, Results
<1>2. {at + k : k \in {}} = {}
  OBVIOUS
<1>3. a.submitted \in Int
  BY DEF Results
<1>4. /\ joinWindows(at, a, NotRun) \in Results
      /\ joinWindows(at, a, NotRun).submitted = a.submitted + NotRun.submitted
      /\ joinWindows(at, a, NotRun).ok = a.ok \cup {at + k : k \in NotRun.ok}
      /\ joinWindows(at, a, NotRun).last = IF NotRun.last >= 0 THEN at + NotRun.last ELSE a.last
  BY <1>1, JoinResult
<1> QED
  BY <1>1, <1>2, <1>3, <1>4

\* The first half ends: at the pause, or with the window.
LEMMA FirstHalfEndsKeeps ==
    ASSUME WindowInv, FirstHalfEnds
    PROVE  WindowInv'
<1>1. /\ pc = "first" /\ first' = RunResult(half)
      /\ (half.stopped \/ half.next = half.upto) /\ \A w \in Workers : job[w].step = "idle"
      /\ UNCHANGED <<half, job, reader, landed>>
  BY DEF FirstHalfEnds, HalfDone, bench, Idle
<1>2. \/ pc' = "window" /\ window' = RunResult(half)
      \/ pc' = "window" /\ window' = joinWindows(pauseIndex, RunResult(half), NotRun)
      \/ pc' = "ballots" /\ window' = window /\ half.next = half.upto /\ pauseIndex > 0
  BY <1>1, PauseInside DEF FirstHalfEnds, Arrive
<1>3. /\ joinWindows(pauseIndex, RunResult(half), NotRun) \in Results
      /\ joinWindows(pauseIndex, RunResult(half), NotRun).submitted = half.next - half.from
      /\ joinWindows(pauseIndex, RunResult(half), NotRun).ok = half.ok
      /\ joinWindows(pauseIndex, RunResult(half), NotRun).last = half.next - half.from - 1
  <2>1. RunResult(half) \in Results /\ pauseIndex \in Int
    BY HalfResult, PauseInside
  <2>2. /\ joinWindows(pauseIndex, RunResult(half), NotRun) \in Results
        /\ joinWindows(pauseIndex, RunResult(half), NotRun).submitted = RunResult(half).submitted
        /\ joinWindows(pauseIndex, RunResult(half), NotRun).ok = RunResult(half).ok
        /\ joinWindows(pauseIndex, RunResult(half), NotRun).last = RunResult(half).last
    BY <2>1, JoinNotRun, Zenon
  <2> QED
    BY <2>2, HalfResult, Zenon
<1>4. WindowTypes'
  BY <1>1, <1>2, <1>3, HalfResult DEF WindowInv, WindowTypes, Stages
<1>5. JobsInv' /\ ReaderInv'
  BY <1>1, <1>2 DEF WindowInv, JobsInv, ReaderInv, Awaited
<1>6. HalvesInv'
  BY <1>1, <1>2, <1>3, HalfResult DEF WindowInv, WindowTypes, HalvesInv, FirstWhole
<1> QED
  BY <1>4, <1>5, <1>6 DEF WindowInv

\* The second half ends, and the two are one window.
LEMMA SecondHalfEndsKeeps ==
    ASSUME WindowInv, SecondHalfEnds
    PROVE  WindowInv'
<1> DEFINE joined == joinWindows(pauseIndex, first, RunResult(half))
<1>1. /\ pc = "second" /\ pc' = "window" /\ window' = joined
      /\ \A w \in Workers : job[w].step = "idle"
      /\ UNCHANGED <<half, job, reader, landed, first>>
  BY DEF SecondHalfEnds, HalfDone, bench, Idle
<1>2. /\ joined \in Results
      /\ joined.submitted = first.submitted + (half.next - half.from)
      /\ joined.ok = first.ok \cup {pauseIndex + k : k \in half.ok}
      /\ joined.last = IF half.next - half.from - 1 >= 0
                       THEN pauseIndex + (half.next - half.from - 1) ELSE first.last
  <2>1. first \in Results /\ RunResult(half) \in Results /\ pauseIndex \in Int
    BY HalfResult, PauseInside DEF WindowInv, WindowTypes
  <2>2. /\ joined \in Results
        /\ joined.submitted = first.submitted + RunResult(half).submitted
        /\ joined.ok = first.ok \cup {pauseIndex + k : k \in RunResult(half).ok}
        /\ joined.last = IF RunResult(half).last >= 0
                         THEN pauseIndex + RunResult(half).last ELSE first.last
    BY <2>1, JoinResult, Zenon
  <2> QED
    BY <2>2, HalfResult, Zenon
<1> HIDE DEF joined
<1>3. WindowTypes'
  BY <1>1, <1>2 DEF WindowInv, WindowTypes
<1>4. JobsInv' /\ ReaderInv'
  BY <1>1 DEF WindowInv, JobsInv, ReaderInv, Awaited
<1>5. HalvesInv'
  BY <1>1, <1>2, PauseInside DEF WindowInv, WindowTypes, HalvesInv, FirstWhole
<1> QED
  BY <1>3, <1>4, <1>5 DEF WindowInv

\* The lifecycle goes on: a half starts where the one before it stopped.
LEMMA GoOnKeeps ==
    ASSUME WindowInv, GoOn
    PROVE  WindowInv'
<1>1. /\ pc \in {"dkg", "ballots", "window", "close", "ceremony"} /\ Continue(pc)
      /\ UNCHANGED <<job, reader, landed, first>>
      /\ \A w \in Workers : job[w].step = "idle"
  BY DEF GoOn, WindowInv, JobsInv
<1>2. reader.next = half.next /\ reader.ahead = {}
  BY <1>1, AllRead
<1>3. ASSUME NEW a \in Nat, NEW b \in Nat, a <= b, half' = Half(a, b), reader.next = a
      PROVE  /\ half' \in [from: Nat, upto: Nat, next: Nat, ok: SUBSET Int, last: Int, stopped: BOOLEAN]
             /\ half'.from = a /\ half'.next = a /\ half'.upto = b /\ half'.ok = {} /\ half'.last = -1
             /\ ReaderInv'
  <2>1. /\ half' \in [from: Nat, upto: Nat, next: Nat, ok: SUBSET Int, last: Int, stopped: BOOLEAN]
        /\ half'.from = a /\ half'.next = a /\ half'.upto = b /\ half'.ok = {} /\ half'.last = -1
    <3>1. half' = [from |-> a, upto |-> b, next |-> a, ok |-> {}, last |-> -1, stopped |-> FALSE]
      BY <1>3 DEF Half, NoHalf
    <3> QED
      BY <3>1
  <2> QED
    BY <1>1, <1>2, <1>3, <2>1 DEF ReaderInv
<1>4. CASE pc = "dkg"
  <2>1. /\ pc' \in {"over", "first"} /\ half' = Half(0, IF pauseIndex > 0 THEN pauseIndex ELSE N)
        /\ window' = window
    BY <1>1, <1>4 DEF Continue
  <2>2. half.next = 0 /\ landed = {}
    BY <1>4 DEF WindowInv, HalvesInv
  <2> DEFINE b == IF pauseIndex > 0 THEN pauseIndex ELSE N
  <2>3. b \in Nat /\ half' = Half(0, b) /\ reader.next = 0
    BY <1>2, <2>1, <2>2, PauseInside, AttackWindowAssumption
  <2> HIDE DEF b
  <2>4. /\ half' \in [from: Nat, upto: Nat, next: Nat, ok: SUBSET Int, last: Int, stopped: BOOLEAN]
        /\ half'.from = 0 /\ half'.next = 0 /\ half'.upto = b /\ half'.ok = {} /\ half'.last = -1
        /\ ReaderInv'
    BY <1>3, <2>3
  <2>5. WindowTypes'
    BY <1>1, <2>1, <2>4 DEF WindowInv, WindowTypes
  <2>6. JobsInv'
    BY <1>1 DEF WindowInv, JobsInv
  <2>7. HalvesInv'
    BY <1>1, <2>1, <2>2, <2>3, <2>4 DEF HalvesInv, b
  <2> QED
    BY <2>4, <2>5, <2>6, <2>7 DEF WindowInv
<1>5. CASE pc = "ballots" /\ pc' = "second"
  <2>1. half' = Half(pauseIndex, N) /\ window' = window
    BY <1>1, <1>5 DEF Continue
  <2>2. FirstWhole /\ landed = first.ok /\ half.next = pauseIndex
    BY <1>5 DEF WindowInv, HalvesInv
  <2>3. pauseIndex \in Nat /\ N \in Nat /\ pauseIndex <= N
    BY PauseInside, AttackWindowAssumption
  <2>4. /\ half' \in [from: Nat, upto: Nat, next: Nat, ok: SUBSET Int, last: Int, stopped: BOOLEAN]
        /\ half'.from = pauseIndex /\ half'.next = pauseIndex /\ half'.upto = N
        /\ half'.ok = {} /\ half'.last = -1
        /\ ReaderInv'
    BY <1>2, <1>3, <2>1, <2>2, <2>3
  <2>5. WindowTypes'
    BY <1>1, <1>5, <2>1, <2>4 DEF WindowInv, WindowTypes
  <2>6. JobsInv'
    BY <1>1 DEF WindowInv, JobsInv
  <2>7. HalvesInv'
    BY <1>1, <1>5, <2>2, <2>3, <2>4 DEF HalvesInv, FirstWhole
  <2> QED
    BY <2>4, <2>5, <2>6, <2>7 DEF WindowInv
<1>6. CASE pc = "ballots" /\ pc' = "window"
  <2>1. window' = joinWindows(pauseIndex, first, NotRun) /\ half' = half
    BY <1>1, <1>6 DEF Continue
  <2>2. FirstWhole /\ landed = first.ok /\ half.next = pauseIndex
    BY <1>6 DEF WindowInv, HalvesInv
  <2>3. /\ window' \in Results /\ window'.submitted = first.submitted
        /\ window'.ok = first.ok /\ window'.last = first.last
    <3>1. first \in Results /\ pauseIndex \in Int
      BY PauseInside DEF WindowInv, WindowTypes
    <3> QED
      BY <2>1, <3>1, JoinNotRun
  <2>4. WindowTypes'
    BY <1>1, <1>6, <2>1, <2>3 DEF WindowInv, WindowTypes
  <2>5. JobsInv' /\ ReaderInv'
    BY <1>1, <2>1 DEF WindowInv, JobsInv, ReaderInv, Awaited
  <2>6. HalvesInv'
    BY <1>1, <1>6, <2>1, <2>2, <2>3 DEF WindowInv, HalvesInv, FirstWhole
  <2> QED
    BY <2>4, <2>5, <2>6 DEF WindowInv
<1>7. CASE pc \in {"window", "close", "ceremony"}
  <2>1. pc' \in {"over", "close", "ceremony"} /\ half' = half /\ window' = window
    BY <1>1, <1>7 DEF Continue, Arrive
  <2>2. WindowTypes'
    BY <1>1, <2>1 DEF WindowInv, WindowTypes, Stages
  <2>3. JobsInv' /\ ReaderInv'
    BY <1>1, <2>1 DEF WindowInv, JobsInv, ReaderInv, Awaited
  <2>4. HalvesInv'
    BY <1>1, <1>7, <2>1 DEF WindowInv, HalvesInv
  <2> QED
    BY <2>2, <2>3, <2>4 DEF WindowInv
<1> QED
  BY <1>1, <1>4, <1>5, <1>6, <1>7 DEF Continue

-----------------------------------------------------------------------------
(* The invariant, and what it gives.                                         *)

\* Initially no half has run.
LEMMA WindowInvInit == Init => WindowInv
<1> SUFFICES ASSUME Init PROVE WindowInv
  OBVIOUS
<1>1. NotRun \in Results
  BY DEF NotRun, Results
<1>2. WindowTypes
  BY <1>1 DEF Init, WindowTypes, Stages, NoHalf, Idle
<1>3. JobsInv /\ ReaderInv /\ HalvesInv
  BY DEF Init, JobsInv, ReaderInv, HalvesInv, NoHalf, Idle
<1> QED
  BY <1>2, <1>3 DEF WindowInv

\* Every step keeps the invariant.
LEMMA WindowInvNext == WindowInv /\ [Next]_vars => WindowInv'
<1> SUFFICES ASSUME WindowInv, [Next]_vars PROVE WindowInv'
  OBVIOUS
<1>1. ASSUME NEW w \in Workers, Dispatch(w) \/ ReadLine(w) \/ Submit(w) \/ SubmitFails(w)
      PROVE  WindowInv'
  BY <1>1, DispatchKeeps, ReadLineKeeps, SubmitKeeps, SubmitFailsKeeps
<1>2. CASE StopDispatch \/ FirstHalfEnds \/ SecondHalfEnds \/ GoOn
  BY <1>2, StopDispatchKeeps, FirstHalfEndsKeeps, SecondHalfEndsKeeps, GoOnKeeps
<1>3. CASE Cancelled \/ Timeout \/ TakeDecision \/ MountNext \/ RestDone
  BY <1>3, BenchUntouched
     DEF Cancelled, Timeout, TakeDecision, MountNext, RestDone, bench, benchVars
<1>4. CASE Decide \/ Cancel \/ Expire \/ \E s \in Scenarios : RunStagedAttack(s)
  BY <1>4, BenchUntouched DEF Decide, Cancel, Expire, RunStagedAttack, bench, benchVars
<1>5. CASE UNCHANGED vars
  BY <1>5, BenchUntouched DEF vars, benchVars
<1> QED
  BY <1>1, <1>2, <1>3, <1>4, <1>5 DEF Next, WorkerStep, LifecycleStep

\* The workers, the reader and the halves agree in every reachable state.
THEOREM WindowInvariant == Spec => []WindowInv
BY WindowInvInit, WindowInvNext, PTL DEF Spec

\* The shared reader parks only lines a worker in flight has still to ask for: its
\* memory is bounded by the workers, and no line is given twice or kept for ever.
THEOREM ReaderParksAwaited == Spec => []ParkedLinesAreAwaited
<1>1. WindowInv => ParkedLinesAreAwaited
  BY DEF WindowInv, WindowTypes, ReaderInv, Awaited, ParkedLinesAreAwaited
<1> QED
  BY <1>1, WindowInvariant, PTL

\* The stitched result of a paused window is the window's truth, wherever the pause, a
\* cancellation or the deadline cut it (joinWindows).
THEOREM WindowJoined == Spec => []JoinedIsTruth
<1>1. WindowInv => JoinedIsTruth
  <2> SUFFICES ASSUME WindowInv, pc \in {"window", "close", "ceremony"} PROVE JoinedIsTruth
    BY DEF JoinedIsTruth
  <2>1. reader.next = half.next
    BY AllRead DEF WindowInv, JobsInv
  <2> QED
    BY <2>1 DEF WindowInv, HalvesInv, JoinedIsTruth
<1> QED
  BY <1>1, WindowInvariant, PTL

-----------------------------------------------------------------------------
(* The contract's answers.                                                   *)

\* The catalogue, as a set.
LEMMA CatalogueIs == Scenarios = {"tamper-ballot-proof", "reused-nullifier", "dropped-ballot",
      "reordered-ballots", "corrupted-ballot-bytes", "tamper-partial-decryption",
      "tamper-dkg-transcript", "self-issued-credential", "overvote"}
BY DEF Scenarios, RegistryOrder, ToSet

\* The attacks that are ballots, which the contract judges.
Live == {"tamper-ballot-proof", "reused-nullifier", "corrupted-ballot-bytes",
         "self-issued-credential", "overvote"}

\* None of the names the contract compares is the absent value.
LEMMA NoneIsNot == /\ \A g \in Gates \cup Checks : g # None
                   /\ Contract!Open # None /\ Contract!Closed # None /\ "joint" # None
                   /\ 1 # None
BY AbsentAssumption, AttackWindowAssumption DEF Gates, Checks, Contract!Open, Contract!Closed

\* They are the ones with a gate.
LEMMA LiveIs == \A s \in Scenarios : LiveCapable(s) <=> s \in Live
BY NoneIsNot, CatalogueIs DEF LiveCapable, Registry, Attack, Live, Gates

\* Their gates and checks, as the catalogue declares them.
LEMMA RegistryIs == \A s \in Scenarios :
        /\ Registry[s].audit \in Checks \cup {None}
        /\ s \in Live => Registry[s].chain \in Gates /\ Registry[s].stage = "ballots"
        /\ s = "tamper-ballot-proof" => Registry[s].chain = "cds"
        /\ s = "reused-nullifier" => Registry[s].chain = "nullifier"
        /\ s = "corrupted-ballot-bytes" => Registry[s].chain = "decode"
        /\ s = "self-issued-credential" => Registry[s].chain = "issuer"
        /\ s = "overvote" => Registry[s].chain = "selection"
BY CatalogueIs DEF Registry, Attack, Live, Gates, Checks

\* The ballot of the position covers both contests.
LEMMA TwoContests == Contract!contestIndicesForPosition(Contests, <<"president">>) = {1, 2}
BY DEF Contract!contestIndicesForPosition, Contests, Contract!IsStrictPrefix, Contract!IsPrefix

\* What each of them sends.
LEMMA BytesIs ==
   /\ Bytes["tamper-ballot-proof"] = [Genuine EXCEPT !.proofs[1].key = "flipped"]
   /\ Bytes["reused-nullifier"] = [Genuine EXCEPT !.nullifier = "donor"]
   /\ Bytes["corrupted-ballot-bytes"] = [Genuine EXCEPT !.wire = "decode"]
   /\ Bytes["self-issued-credential"] = MakeBallot("forged", <<1, 0>>)
   /\ Bytes["overvote"] = MakeBallot("issuer", <<1, 1>>)
   /\ Live \subseteq DOMAIN Bytes
BY LiveIs, CatalogueIs DEF Bytes, Live

\* The gates of the contract, with what they say of this ballot.
GateList(old, shut, used, b) ==
    Contract!BallotGates(Params(old), IF shut THEN "closed" ELSE "open",
                         IF used THEN 1 ELSE None, Transcript, b)

\* A ballot with a ciphertext and a proof for each contest of the position.
Regular(b) == /\ b.position = <<"president">> /\ Len(b.votes) = 2
              /\ Len(b.proofs) = 2

\* The election is there, with its transcript, and bound to an issuer unless legacy.
LEMMA ParamsAre == ASSUME NEW old \in BOOLEAN
  PROVE /\ Params(old) # None /\ Transcript # None /\ Params(old).contests = Contests
        /\ Contract!IssuerBound(Params(old)) <=> ~old
        /\ ~old => Params(old).issuer = "issuer"
        /\ Contract!deriveElectionPublicKey(Transcript) = "joint"
<1>1. Params(old) = Params(TRUE) \/ Params(old) = Params(FALSE)
  OBVIOUS
<1>2. Params(old) # None /\ Transcript # None
  BY <1>1, AbsentAssumption
<1>3. "issuer" # None
  BY NoneIsNot DEF Gates
<1> QED
  BY <1>2, <1>3 DEF Params, Transcript, Contract!IssuerBound, Contract!deriveElectionPublicKey

\* The contract counts as this module does.
LEMMA SameCardinality == ASSUME NEW S PROVE Contract!Cardinality(S) = Cardinality(S)
BY DEF Cardinality, Contract!Cardinality

\* The sizes that the contract meets here.
LEMMA CardOfTwo == Cardinality({1, 2}) = 2 /\ Cardinality({1}) = 1
<1>1. Cardinality({}) = 0 /\ IsFiniteSet({})
  BY FS_EmptySet
<1>2. IsFiniteSet({} \cup {1}) /\ Cardinality({} \cup {1}) = 1
  BY <1>1, FS_AddElement
<1>3. {} \cup {1} = {1}
  OBVIOUS
<1>4. Cardinality({1} \cup {2}) = 2
  BY <1>2, <1>3, FS_AddElement
<1>5. {1} \cup {2} = {1, 2}
  OBVIOUS
<1> QED
  BY <1>2, <1>3, <1>4, <1>5

\* A regular ballot has the right counts.
LEMMA Counted == ASSUME NEW old \in BOOLEAN, NEW b, Regular(b)
  PROVE Contract!CountsMatch(Params(old), b) 
<1>1. Contract!contestIndicesForPosition(Params(old).contests, b.position) = {1, 2}
  BY ParamsAre, TwoContests DEF Regular
<1>2. Contract!Cardinality({1, 2}) = 2
  BY CardOfTwo, SameCardinality
<1> QED
  BY <1>1, <1>2 DEF Contract!CountsMatch, Regular

\* What each gate says of a ballot of the right shape in that election.
GatesOf(G, old, shut, used, b) ==
    /\ DOMAIN G = 1..15
    /\ G[1][1] = "decode" /\ (G[1][2] <=> b.wire # "decode")
    /\ G[2][2] <=> b.wire # "shape"
    /\ G[3][1] = "issuer" /\ (G[3][2] <=> old \/ b.issuer = "issuer")
    /\ G[4][2] <=> b.signer = b.issuer
    /\ G[5][2]
    /\ G[6][1] = "election-open" /\ (G[6][2] <=> ~shut)
    /\ G[7][1] = "nullifier" /\ (G[7][2] <=> ~used)
    /\ G[8][2] /\ G[9][2] /\ G[10][2] /\ G[11][2] /\ G[12][2] /\ G[13][2]
    /\ G[14][1] = Contract!ProofLoopGate(Params(old), Transcript, b)
    /\ G[14][2] <=> Contract!BadContests(Params(old), Transcript, b) = {}
    /\ G[15][1] = "selection"
    /\ G[15][2] <=> old \/ Contract!verifySelection(b, "joint")

\* They say so.
LEMMA GatesAre ==
    ASSUME NEW old \in BOOLEAN, NEW shut \in BOOLEAN, NEW used \in BOOLEAN,
           NEW b, Regular(b)
    PROVE  GatesOf(GateList(old, shut, used, b), old, shut, used, b)
<1> DEFINE G == GateList(old, shut, used, b)
<1> DEFINE p == Params(old)
           st == IF shut THEN "closed" ELSE "open"
           sp == IF used THEN 1 ELSE None
           d == Transcript
           key == Contract!deriveElectionPublicKey(d)
           cover == Contract!contestIndicesForPosition(p.contests, b.position)
           H == Contract!BallotGates(p, st, sp, d, b)
<1>1. /\ p # None /\ d # None /\ p.contests = Contests
      /\ Contract!IssuerBound(p) <=> ~old
      /\ ~old => p.issuer = "issuer"
      /\ key = "joint"
  BY ParamsAre
<1>2. Contract!CountsMatch(p, b)
  BY Counted
<1>3. /\ st # None /\ (st = Contract!Open <=> ~shut) /\ (sp = None <=> ~used) /\ "joint" # None
  BY NoneIsNot DEF Contract!Open, Contract!Closed
<1>4. cover # {} /\ b.position # << >> /\ Len(b.votes) > 0
  <2>1. cover = {1, 2}
    BY <1>1, TwoContests DEF Regular
  <2> QED
    BY <2>1 DEF Regular
<1>5. G = H
  BY DEF GateList
<1> HIDE DEF p, st, sp, d
<1>6. /\ DOMAIN H = 1..15
      /\ H[1][1] = "decode" /\ H[1][2] = (b.wire # "decode")
      /\ H[2][2] = (b.wire # "shape" /\ Len(b.votes) > 0)
      /\ H[3][1] = "issuer" /\ H[3][2] = (Contract!IssuerBound(p) => b.issuer = p.issuer)
      /\ H[4][2] = Contract!VerifyIssuerSignature(b)
      /\ H[5] = Contract!LifecycleGates(st, sp)[1]
      /\ H[6] = Contract!LifecycleGates(st, sp)[2]
      /\ H[7] = Contract!LifecycleGates(st, sp)[3]
      /\ H[8][2] = (p # None)
      /\ H[9][2] = ~(/\ b.position = << >>
                     /\ Contract!IssuerBound(p)
                     /\ Contract!positionedContests(p.contests))
      /\ H[10][2] = (p # None => cover # {})
      /\ H[11][2] = (p # None => p # None /\ Contract!CountsMatch(p, b))
      /\ H[12][2] = (d # None)
      /\ H[13][2] = (d # None => d # None /\ key # None)
      /\ H[14][1] = IF (p # None /\ Contract!CountsMatch(p, b)) /\ d # None /\ key # None
                    THEN Contract!ProofLoopGate(p, d, b) ELSE "cds"
      /\ H[14][2] = ((p # None /\ Contract!CountsMatch(p, b)) /\ d # None /\ key # None
                        => Contract!BadContests(p, d, b) = {})
      /\ H[15][1] = "selection"
      /\ H[15][2] = ((d # None /\ key # None) /\ Contract!IssuerBound(p)
                        => Contract!verifySelection(b, key))
  BY DEF Contract!BallotGates
<1>7. /\ Contract!LifecycleGates(st, sp)[1][2] = (st # None)
      /\ Contract!LifecycleGates(st, sp)[2][2] = (st = Contract!Open)
      /\ Contract!LifecycleGates(st, sp)[3][2] = (sp = None)
      /\ Contract!LifecycleGates(st, sp)[3][1] = "nullifier"
      /\ Contract!LifecycleGates(st, sp)[2][1] = "election-open"
  BY DEF Contract!LifecycleGates
<1>8. Contract!VerifyIssuerSignature(b) = (b.signer = b.issuer)
  BY DEF Contract!VerifyIssuerSignature
<1> HIDE DEF G, H, cover, key
<1>9. DOMAIN G = 1..15
  BY <1>5, <1>6
<1>10. G[1][1] = "decode" /\ (G[1][2] <=> b.wire # "decode")
  BY <1>5, <1>6
<1>11. G[2][2] <=> b.wire # "shape"
  BY <1>4, <1>5, <1>6
<1>12. G[3][1] = "issuer" /\ (G[3][2] <=> old \/ b.issuer = "issuer")
  BY <1>1, <1>5, <1>6
<1>13. G[4][2] <=> b.signer = b.issuer
  BY <1>5, <1>6, <1>8
<1>14. /\ G[5][2] /\ (G[6][2] <=> ~shut)
       /\ G[7][1] = "nullifier" /\ (G[7][2] <=> ~used) /\ G[6][1] = "election-open"
  <2>1. /\ H[5][2] = (st # None) /\ H[6][2] = (st = Contract!Open) /\ H[7][2] = (sp = None)
        /\ H[7][1] = "nullifier" /\ H[6][1] = "election-open"
    BY <1>6, <1>7, Zenon
  <2> QED
    BY <1>3, <1>5, <2>1
<1>15. G[8][2] /\ G[9][2] /\ G[10][2] /\ G[11][2] /\ G[12][2] /\ G[13][2]
  BY <1>1, <1>2, <1>3, <1>4, <1>5, <1>6
<1>16. /\ G[14][1] = Contract!ProofLoopGate(p, d, b)
       /\ G[14][2] <=> Contract!BadContests(p, d, b) = {}
  BY <1>1, <1>2, <1>3, <1>5, <1>6
<1>17. G[15][1] = "selection" /\ (G[15][2] <=> old \/ Contract!verifySelection(b, "joint"))
  BY <1>1, <1>3, <1>5, <1>6
<1>18. GatesOf(G, old, shut, used, b)
  BY <1>9, <1>10, <1>11, <1>12, <1>13, <1>14, <1>15, <1>16, <1>17 DEF p, d, GatesOf
<1> QED
  BY <1>18 DEF G

\* The least element of a set of integers.
LEMMA MinIs == ASSUME NEW S \in SUBSET Int, NEW i \in S, \A j \in S : i <= j
   PROVE Contract!Min(S) = i
<1>1. \E x \in S : \A y \in S : x <= y
  OBVIOUS
<1>2. Contract!Min(S) \in S /\ \A y \in S : Contract!Min(S) <= y
  BY <1>1 DEF Contract!Min
<1>3. PICK m \in Int : m = Contract!Min(S)
  BY <1>2
<1> QED
  BY <1>2, <1>3

\* The first gate that does not let the ballot through is the answer.
LEMMA RejectsAt ==
   ASSUME NEW old \in BOOLEAN, NEW shut \in BOOLEAN, NEW used \in BOOLEAN, NEW k \in DOMAIN Bytes,
          NEW G, G = GateList(old, shut, used, Bytes[k]), DOMAIN G = 1..15, NEW i \in 1..15,
          ~G[i][2], \A j \in 1..(i - 1) : G[j][2]
   PROVE Answers[old][shut][used][k] = G[i][1]
<1> DEFINE S == {j \in DOMAIN G : ~G[j][2]}
           st == IF shut THEN "closed" ELSE "open"
           sp == IF used THEN 1 ELSE None
<1>1. Contract!Min(S) = i
  <2>1. S \in SUBSET Int /\ i \in S /\ \A j \in S : i <= j
    OBVIOUS
  <2> QED
    BY <2>1, MinIs
<1>2. G = Contract!BallotGates(Params(old), st, sp, Transcript, Bytes[k])
  BY DEF GateList
<1>3. ~Contract!SubmitBallotAccepts(Params(old), st, sp, Transcript, Bytes[k])
  BY <1>2 DEF Contract!SubmitBallotAccepts
<1>4. Contract!rejectAt(Params(old), st, sp, Transcript, Bytes[k]) = G[i][1]
  BY <1>1, <1>2 DEF Contract!rejectAt
<1>5. Answers[old][shut][used][k] = 
        IF Contract!SubmitBallotAccepts(Params(old), st, sp, Transcript, Bytes[k]) THEN "accept"
        ELSE Contract!rejectAt(Params(old), st, sp, Transcript, Bytes[k])
  BY DEF Answers
<1> QED
  BY <1>3, <1>4, <1>5

\* The l-th contest of the position is contest l.
LEMMA Nth == ASSUME NEW l \in {1, 2} PROVE Contract!NthContest(Contests, <<"president">>, l) = l
<1> DEFINE idxs == {1, 2}
<1>1. {j \in idxs : j <= 1} = {1} /\ {j \in idxs : j <= 2} = {1, 2}
  OBVIOUS
<1>2. /\ Contract!Cardinality({j \in idxs : j <= 1}) = 1
      /\ Contract!Cardinality({j \in idxs : j <= 2}) = 2
  BY <1>1, CardOfTwo, SameCardinality
<1>3. Contract!NthContest(Contests, <<"president">>, l)
        = CHOOSE i \in idxs : Contract!Cardinality({j \in idxs : j <= i}) = l
  BY TwoContests DEF Contract!NthContest
<1>4. \A i \in idxs : Contract!Cardinality({j \in idxs : j <= i}) = l <=> i = l
  BY <1>2
<1> QED
  BY <1>3, <1>4

\* The proof of contest l in a ballot of the run.
Proof(l) == [version |-> "v1", key |-> "joint", context |-> <<"e", Contests[l], "own">>]

\* The list of proofs, and the list with the first proof flipped.
LEMMA ProofsAre ==
  /\ Len([l \in 1..2 |-> Proof(l)]) = 2
  /\ [[l \in 1..2 |-> Proof(l)] EXCEPT ![1].key = "flipped"]
        = [l \in 1..2 |-> IF l = 1 THEN [Proof(1) EXCEPT !.key = "flipped"] ELSE Proof(l)]
  /\ \A k : Len([l \in 1..2 |-> IF l = 1 THEN [Proof(1) EXCEPT !.key = k] ELSE Proof(l)]) = 2
<1>1. Len([l \in 1..2 |-> Proof(l)]) = 2
  OBVIOUS
<1>2. [[l \in 1..2 |-> Proof(l)] EXCEPT ![1].key = "flipped"]
        = [l \in 1..2 |-> IF l = 1 THEN [Proof(1) EXCEPT !.key = "flipped"] ELSE Proof(l)]
  OBVIOUS
<1>3. ASSUME NEW k
      PROVE  Len([l \in 1..2 |-> IF l = 1 THEN [Proof(1) EXCEPT !.key = k] ELSE Proof(l)]) = 2
  OBVIOUS
<1> QED
  BY <1>1, <1>2, <1>3

\* The plaintexts of the ballots.
LEMMA VotesAre ==
    /\ Len(<<1, 0>>) = 2 /\ Len(<<1, 1>>) = 2
    /\ <<1, 0>>[1] = 1 /\ <<1, 0>>[2] = 0 /\ <<1, 1>>[1] = 1 /\ <<1, 1>>[2] = 1
OBVIOUS

\* A regular ballot with these fields.
Made(b, wire, issuer, nullifier, votes, proofs) ==
    /\ Regular(b) /\ b.wire = wire /\ b.issuer = issuer /\ b.signer = issuer /\ b.election = "e"
    /\ b.nullifier = nullifier /\ b.votes = votes /\ b.proofs = proofs

\* The proofs of a ballot of the run, and those with the first one flipped.
Proofs == [l \in 1..2 |-> Proof(l)]
Flipped == [l \in 1..2 |-> IF l = 1 THEN [Proof(1) EXCEPT !.key = "flipped"] ELSE Proof(l)]

\* The ballots of the attacks, field by field.
LEMMA AttackBallots ==
  /\ Made(Bytes["tamper-ballot-proof"], "ok", "issuer", "own", <<1, 0>>, Flipped)
  /\ Made(Bytes["reused-nullifier"], "ok", "issuer", "donor", <<1, 0>>, Proofs)
  /\ Made(Bytes["corrupted-ballot-bytes"], "decode", "issuer", "own", <<1, 0>>, Proofs)
  /\ Made(Bytes["self-issued-credential"], "ok", "forged", "own", <<1, 0>>, Proofs)
  /\ Made(Bytes["overvote"], "ok", "issuer", "own", <<1, 1>>, Proofs)
<1> DEFINE Sel(v) == [version |-> "v1", key |-> "joint", context |-> <<"e", <<"president">>, "own">>]
           M(i, v) == [wire |-> "ok", election |-> "e", position |-> <<"president">>,
                       nullifier |-> "own",
                       issuer |-> i, signer |-> i, votes |-> v,
                       proofs |-> Proofs, selection |-> Sel(v)]
<1>0. /\ Len(Proofs) = 2 /\ Len(Flipped) = 2 /\ [Proofs EXCEPT ![1].key = "flipped"] = Flipped
  BY ProofsAre DEF Proofs, Flipped
<1>1. ASSUME NEW i, NEW v PROVE MakeBallot(i, v) = M(i, v)
  BY DEF MakeBallot, Proof, Proofs
<1>2. /\ Bytes["reused-nullifier"] = [M("issuer", <<1, 0>>) EXCEPT !.nullifier = "donor"]
      /\ Bytes["corrupted-ballot-bytes"] = [M("issuer", <<1, 0>>) EXCEPT !.wire = "decode"]
      /\ Bytes["tamper-ballot-proof"] = [M("issuer", <<1, 0>>) EXCEPT !.proofs[1].key = "flipped"]
      /\ Bytes["self-issued-credential"] = M("forged", <<1, 0>>)
      /\ Bytes["overvote"] = M("issuer", <<1, 1>>)
  BY <1>1, BytesIs DEF Genuine
<1> HIDE DEF Proofs, Flipped
<1>2a. [M("issuer", <<1, 0>>) EXCEPT !.proofs[1].key = "flipped"]
          = [M("issuer", <<1, 0>>) EXCEPT !.proofs = Flipped]
  BY <1>0
<1>3. Made(Bytes["tamper-ballot-proof"], "ok", "issuer", "own", <<1, 0>>, Flipped)
  BY <1>0, <1>2, <1>2a, VotesAre DEF Made, Regular
<1>4. Made(Bytes["reused-nullifier"], "ok", "issuer", "donor", <<1, 0>>, Proofs)
  BY <1>0, <1>2, VotesAre DEF Made, Regular
<1>5. Made(Bytes["corrupted-ballot-bytes"], "decode", "issuer", "own", <<1, 0>>, Proofs)
  BY <1>0, <1>2, VotesAre DEF Made, Regular
<1>6. Made(Bytes["self-issued-credential"], "ok", "forged", "own", <<1, 0>>, Proofs)
  BY <1>0, <1>2, VotesAre DEF Made, Regular
<1>7. Made(Bytes["overvote"], "ok", "issuer", "own", <<1, 1>>, Proofs)
  BY <1>0, <1>2, VotesAre DEF Made, Regular
<1> QED
  BY <1>3, <1>4, <1>5, <1>6, <1>7

\* The proof of the l-th contest is for this ballot and its plaintext is 0 or 1.
ContestHolds(b, l) ==
    /\ b.proofs[l].context = <<b.election, Contests[l], b.nullifier>>
    /\ b.proofs[l].key = "joint"
    /\ b.votes[l] \in {0, 1}

\* The contests that the loop refuses are those whose proof does not hold, and a refusal is
\* at the proof gate.
LEMMA BadOnes ==
    ASSUME NEW old \in BOOLEAN, NEW b, Regular(b), DOMAIN b.proofs = {1, 2},
           \A l \in {1, 2} : b.proofs[l].version = "v1"
    PROVE  /\ Contract!BadContests(Params(old), Transcript, b) = 
                {l \in {1, 2} : ~ContestHolds(b, l)}
           /\ Contract!BadContests(Params(old), Transcript, b) # {} =>
                Contract!ProofLoopGate(Params(old), Transcript, b) = "cds"
<1> DEFINE bad == {l \in {1, 2} : ~ContestHolds(b, l)}
<1>1. Params(old).contests = Contests /\ Contract!deriveElectionPublicKey(Transcript) = "joint"
  BY ParamsAre
<1>2. Contract!BadContests(Params(old), Transcript, b) = bad
  <2>1. b.position = <<"president">>
    BY DEF Regular
  <2>2. \A l \in {1, 2} : Contests[Contract!NthContest(Contests, b.position, l)] = Contests[l]
    BY <2>1, Nth
  <2>3. Contract!BadContests(Params(old), Transcript, b)
          = {l \in {1, 2} : b.proofs[l].version # "v1" \/
                ~Contract!VerifyBinaryCDS(b.proofs[l], b,
                    Contests[Contract!NthContest(Contests, b.position, l)], "joint", b.votes[l])}
    BY <1>1 DEF Contract!BadContests
  <2>4. ASSUME NEW l \in {1, 2}
        PROVE  Contract!VerifyBinaryCDS(b.proofs[l], b,
                    Contests[Contract!NthContest(Contests, b.position, l)], "joint", b.votes[l])
                 <=> ContestHolds(b, l)
    BY <2>2 DEF Contract!VerifyBinaryCDS, ContestHolds
  <2> DEFINE P(l) == Contract!VerifyBinaryCDS(b.proofs[l], b,
                        Contests[Contract!NthContest(Contests, b.position, l)], "joint", b.votes[l])
  <2>5. \A l \in {1, 2} : P(l) <=> ContestHolds(b, l)
    BY <2>4
  <2>6. Contract!BadContests(Params(old), Transcript, b)
          = {l \in {1, 2} : b.proofs[l].version # "v1" \/ ~P(l)}
    BY <2>3
  <2> HIDE DEF P
  <2> QED
    BY <2>5, <2>6
<1>3. bad # {} => Contract!Min(bad) \in {1, 2}
  <2>1. CASE 1 \in bad
    <3>1. bad \in SUBSET Int /\ \A j \in bad : 1 <= j
      OBVIOUS
    <3> HIDE DEF bad
    <3> QED
      BY <2>1, <3>1, MinIs
  <2>2. CASE bad = {2}
    <3> HIDE DEF bad
    <3> QED
      BY <2>2, MinIs
  <2> QED
    BY <2>1, <2>2
<1> HIDE DEF bad
<1>4. bad # {} => Contract!ProofLoopGate(Params(old), Transcript, b) = "cds"
  BY <1>2, <1>3 DEF Contract!ProofLoopGate
<1> QED
  BY <1>2, <1>4 DEF bad

\* Two votes are not one.
LEMMA OverVote == Contract!VoteSum(<<1, 1>>) = 2
<1> DEFINE v == <<1, 1>>
           F(g) == g = [l \in 0..Len(v) |-> IF l = 0 THEN 0 ELSE g[l - 1] + v[l]]
           sum == CHOOSE g : F(g)
<1>1. Contract!VoteSum(<<1, 1>>) = sum[Len(v)]
  BY DEF Contract!VoteSum
<1>2. Len(v) = 2 /\ v[1] = 1 /\ v[2] = 1
  OBVIOUS
<1>3. F([l \in 0..2 |-> l])
  BY <1>2
<1>4. F(sum)
  BY <1>3
<1> HIDE DEF sum
<1>5. sum[0] = 0
  BY <1>2, <1>4
<1>6. sum[1] = sum[0] + 1
  BY <1>2, <1>4
<1>7. sum[2] = sum[1] + 1
  BY <1>2, <1>4
<1> QED
  BY <1>1, <1>2, <1>5, <1>6, <1>7

\* What the contract answers to each attack: on a closed election or to a spent nullifier
\* before its proofs are looked at, otherwise at the gate the attack was written for.
LEMMA AnswersAre ==
  ASSUME NEW old \in BOOLEAN, NEW shut \in BOOLEAN, NEW used \in BOOLEAN
  PROVE  LET answer == Answers[old][shut][used] 
             late == IF shut THEN "election-open" ELSE "nullifier"
         IN /\ answer["corrupted-ballot-bytes"] = "decode"
            /\ ~old => answer["self-issued-credential"] = "issuer"
            /\ answer["tamper-ballot-proof"] = IF shut \/ used THEN late ELSE "cds"
            /\ answer["reused-nullifier"] = IF shut \/ used THEN late ELSE "cds"
            /\ ~old => answer["overvote"] = IF shut \/ used THEN late ELSE "selection"
<1> DEFINE answer == Answers[old][shut][used] 
           late == IF shut THEN "election-open" ELSE "nullifier"
           G(k) == GateList(old, shut, used, Bytes[k])
<1>0. /\ DOMAIN Proofs = {1, 2} /\ DOMAIN Flipped = {1, 2}
      /\ \A l \in {1, 2} : /\ Proofs[l].version = "v1" /\ Proofs[l].key = "joint"
                           /\ Proofs[l].context = <<"e", Contests[l], "own">>
      /\ \A l \in {1, 2} : Flipped[l].version = "v1"
      /\ Flipped[1].key = "flipped"
  BY DEF Proofs, Flipped, Proof
<1>g. ASSUME NEW k, Regular(Bytes[k]) PROVE GatesOf(G(k), old, shut, used, Bytes[k])
  BY <1>g, GatesAre
<1> HIDE DEF G
<1>1. answer["corrupted-ballot-bytes"] = "decode"
  <2> DEFINE k == "corrupted-ballot-bytes"
  <2>1. Regular(Bytes[k]) /\ Bytes[k].wire = "decode" /\ k \in DOMAIN Bytes
    BY AttackBallots, BytesIs DEF Made, Live
  <2>2. DOMAIN G(k) = 1..15 /\ G(k)[1][1] = "decode" /\ ~G(k)[1][2]
    BY <2>1, <1>g DEF GatesOf
  <2> HIDE DEF G, k
  <2>3. answer[k] = G(k)[1][1]
    BY <2>1, <2>2, RejectsAt DEF G
  <2> QED
    BY <2>2, <2>3 DEF k
<1>2. ASSUME ~old PROVE answer["self-issued-credential"] = "issuer"
  <2> DEFINE k == "self-issued-credential"
  <2>1. Regular(Bytes[k]) /\ Bytes[k].wire = "ok" /\ Bytes[k].issuer = "forged" /\ k \in DOMAIN Bytes
    BY AttackBallots, BytesIs DEF Made, Live
  <2>2. DOMAIN G(k) = 1..15 /\ G(k)[1][2] /\ G(k)[2][2] /\ G(k)[3][1] = "issuer" /\ ~G(k)[3][2]
    BY <1>2, <2>1, <1>g DEF GatesOf
  <2> HIDE DEF G, k
  <2>3. answer[k] = G(k)[3][1]
    BY <2>1, <2>2, RejectsAt DEF G
  <2> QED
    BY <2>2, <2>3 DEF k
<1>3. ASSUME NEW k \in DOMAIN Bytes, Regular(Bytes[k]),
             Bytes[k].wire = "ok", Bytes[k].issuer = "issuer",
             Bytes[k].signer = "issuer"
      PROVE /\ DOMAIN G(k) = 1..15 /\ \A i \in 1..5 : G(k)[i][2]
            /\ \A i \in 8..13 : G(k)[i][2]
            /\ G(k)[6][2] <=> ~shut
            /\ G(k)[7][2] <=> ~used
            /\ shut \/ used => answer[k] = late
  <2>1. /\ DOMAIN G(k) = 1..15 /\ \A i \in 1..5 : G(k)[i][2]
        /\ \A i \in 8..13 : G(k)[i][2]
        /\ G(k)[6][2] <=> ~shut
        /\ G(k)[7][2] <=> ~used
        /\ G(k)[6][1] = "election-open" /\ G(k)[7][1] = "nullifier"
    <3>1. /\ DOMAIN G(k) = 1..15
          /\ G(k)[1][2] /\ G(k)[2][2] /\ G(k)[3][2] /\ G(k)[4][2] /\ G(k)[5][2]
          /\ G(k)[8][2] /\ G(k)[9][2] /\ G(k)[10][2] /\ G(k)[11][2] /\ G(k)[12][2] /\ G(k)[13][2]
          /\ G(k)[6][2] <=> ~shut
          /\ G(k)[7][2] <=> ~used
          /\ G(k)[6][1] = "election-open" /\ G(k)[7][1] = "nullifier"
      BY <1>3, <1>g DEF GatesOf
    <3> HIDE DEF G
    <3> QED
      BY <3>1
  <2> HIDE DEF G
  <2>2. CASE shut
    <3>1. ~G(k)[6][2] /\ \A j \in 1..5 : G(k)[j][2]
      BY <2>1, <2>2
    <3>2. answer[k] = G(k)[6][1]
      BY <2>1, <3>1, RejectsAt DEF G
    <3> QED
      BY <2>1, <2>2, <3>2
  <2>3. CASE ~shut /\ used
    <3>1. ~G(k)[7][2] /\ \A j \in 1..6 : G(k)[j][2]
      BY <2>1, <2>3
    <3>2. answer[k] = G(k)[7][1]
      BY <2>1, <3>1, RejectsAt DEF G
    <3> QED
      BY <2>1, <2>3, <3>2
  <2> QED
    BY <2>1, <2>2, <2>3
<1>4. ASSUME NEW k \in {"tamper-ballot-proof", "reused-nullifier"}
      PROVE  answer[k] = IF shut \/ used THEN late ELSE "cds"
  <2>1. /\ k \in DOMAIN Bytes /\ Regular(Bytes[k]) /\ Bytes[k].wire = "ok" /\ Bytes[k].issuer = "issuer"
        /\ Bytes[k].signer = "issuer"
    <3>1. CASE k = "tamper-ballot-proof"
      BY <3>1, AttackBallots, BytesIs DEF Made, Live
    <3>2. CASE k = "reused-nullifier"
      BY <3>2, AttackBallots, BytesIs DEF Made, Live
    <3> QED
      BY <3>1, <3>2
  <2>2. /\ DOMAIN Bytes[k].proofs = {1, 2} /\ \A l \in {1, 2} : Bytes[k].proofs[l].version = "v1"
        /\ \/ Bytes[k].proofs[1].key # "joint"
           \/ Bytes[k].proofs[1].context # <<Bytes[k].election, Contests[1], Bytes[k].nullifier>>
    <3>1. CASE k = "tamper-ballot-proof"
      BY <1>0, <3>1, AttackBallots DEF Made
    <3>2. CASE k = "reused-nullifier"
      BY <1>0, <3>2, AttackBallots DEF Made
    <3> QED
      BY <3>1, <3>2
  <2>3. 1 \in Contract!BadContests(Params(old), Transcript, Bytes[k])
    <3>1. Contract!BadContests(Params(old), Transcript, Bytes[k]) =
                {l \in {1, 2} : ~ContestHolds(Bytes[k], l)}
      BY <2>1, <2>2, BadOnes
    <3> QED
      BY <2>2, <3>1 DEF ContestHolds
  <2>4. Contract!ProofLoopGate(Params(old), Transcript, Bytes[k]) = "cds"
    BY <2>1, <2>2, <2>3, BadOnes
  <2>5. ~G(k)[14][2] /\ G(k)[14][1] = "cds"
    BY <2>1, <2>3, <2>4, <1>g DEF GatesOf
  <2> HIDE DEF G
  <2>6. CASE ~shut /\ ~used
    <3>1. \A j \in 1..13 : G(k)[j][2]
      BY <1>3, <2>1, <2>6
    <3>2. answer[k] = G(k)[14][1]
      BY <1>3, <2>1, <2>5, <3>1, RejectsAt DEF G
    <3> QED
      BY <2>5, <2>6, <3>2
  <2> QED
    BY <1>3, <2>1, <2>6
<1>5. ASSUME ~old
      PROVE  answer["overvote"] = IF shut \/ used THEN late ELSE "selection"
  <2> DEFINE k == "overvote"
  <2>1. /\ k \in DOMAIN Bytes /\ Regular(Bytes[k]) /\ Bytes[k].wire = "ok" /\ Bytes[k].issuer = "issuer"
        /\ Bytes[k].signer = "issuer" /\ Bytes[k].votes = <<1, 1>> /\ Bytes[k].proofs = Proofs
        /\ Bytes[k].election = "e" /\ Bytes[k].nullifier = "own"
    BY AttackBallots, BytesIs DEF Made, Live
  <2> HIDE DEF k
  <2>2. Contract!BadContests(Params(old), Transcript, Bytes[k]) = {}
    <3>1. Contract!BadContests(Params(old), Transcript, Bytes[k]) = 
                {l \in {1, 2} : ~ContestHolds(Bytes[k], l)}
      BY <1>0, <2>1, BadOnes
    <3>2. \A l \in {1, 2} : Bytes[k].votes[l] \in {0, 1}
      BY <2>1, VotesAre
    <3> QED
      BY <1>0, <2>1, <3>1, <3>2 DEF ContestHolds
  <2>3. ~Contract!verifySelection(Bytes[k], "joint")
    BY <2>1, OverVote DEF Contract!verifySelection
  <2>4. G(k)[14][2] /\ ~G(k)[15][2] /\ G(k)[15][1] = "selection"
    BY <1>5, <2>1, <2>2, <2>3, <1>g DEF GatesOf
  <2> HIDE DEF G
  <2>5. CASE ~shut /\ ~used
    <3>1. \A j \in 1..14 : G(k)[j][2]
      BY <1>3, <2>1, <2>4, <2>5
    <3>2. answer[k] = G(k)[15][1]
      BY <1>3, <2>1, <2>4, <3>1, RejectsAt DEF G
    <3> QED
      BY <2>4, <2>5, <3>2 DEF k
  <2> QED
    BY <1>3, <2>1, <2>5 DEF k
<1> QED
  BY <1>1, <1>2, <1>4, <1>5

-----------------------------------------------------------------------------
(* The pauses, the chain and the verdicts.                                   *)

\* What an operator can decide.
Decisions == Scenarios \cup {"run-all", "skip"}

\* A pause in progress.  A decision that ends the stage is the last of its queue and has
\* closed it; the rest of the stage is mounted with the queue closed and empty, and
\* leaves out nothing unless the run was cancelled; what has run has a verdict of its
\* stage, if no save failed.
PauseInv ==
    /\ pause \in [open: BOOLEAN, closed: BOOLEAN, queue: Seq(Decisions),
                  todo: SUBSET Scenarios, rest: BOOLEAN, ran: SUBSET Scenarios,
                  timer: BOOLEAN]
    /\ lost \in Seq(Decisions) /\ cancelled \in BOOLEAN
    /\ Len(pause.queue) <= QueueCap
    /\ IF pause.open THEN pc \in Stages ELSE pause.todo = {} /\ ~pause.rest
    /\ \A k \in 1..Len(pause.queue) :
          pause.queue[k] \in {"run-all", "skip"} => k = Len(pause.queue) /\ pause.closed
    /\ pause.rest => pause.closed /\ pause.queue = << >>
    /\ pause.rest /\ ~cancelled => ScenariosForStage(pc) \subseteq pause.todo \cup pause.ran
    /\ store = "whole" => \A s \in pause.ran : staged(results[s])

\* The chain: ballots of the run that were handed out, among them all that landed; open
\* until the window is over.
ChainInv ==
    /\ legacy \in BOOLEAN /\ expired \in BOOLEAN /\ closed \in BOOLEAN
    /\ half.upto <= N
    /\ AttacksLeaveNoTrace
    /\ \A r \in ledger : r.nullifier < half.next
    /\ \A i \in landed : Ballot(i) \in ledger
    /\ pc \in {"dkg", "first", "ballots", "second", "window"} => ~closed

\* The verdicts kept.
RowsInv ==
    /\ results = [s \in Scenarios |-> results[s]] /\ store \in {"whole", "missing", "torn"}
    /\ \A s \in Scenarios : results[s] # None => results[s].verdict \in Verdicts
    /\ StagedReachesItsGate

\* A set of naturals has a least element: induction over the naturals, from
\* the well-foundedness of strict inclusion on finite sets.
LEMMA LeastNatural ==
    ASSUME NEW T \in SUBSET Nat, T # {}
    PROVE  \E m \in T : \A k \in T : m <= k
<1> DEFINE F == {0..k : k \in T}
           R == StrictSubsetOrdering(Nat)
<1>1. IsWellFoundedOn(R, FiniteSubsetsOf(Nat))
  BY FS_StrictSubsetOrderingWellFounded, Zenon
<1>2. F \subseteq FiniteSubsetsOf(Nat)
  <2>1. ASSUME NEW k \in T PROVE 0..k \subseteq Nat /\ IsFiniteSet(0..k)
    BY FS_Interval
  <2> QED
    BY <2>1 DEF FiniteSubsetsOf
<1>3. F # {}
  OBVIOUS
<1> HIDE DEF F, R
<1>4. PICK x \in F : \A y \in F : ~ (<<y, x>> \in R)
  BY <1>1, <1>2, <1>3, WFMin
<1> USE DEF F, R
<1>5. PICK m \in T : x = 0..m
  OBVIOUS
<1>6. ASSUME NEW k \in T, k < m PROVE FALSE
  <2>1. /\ 0..k \subseteq 0..m /\ 0..k # 0..m
        /\ 0..k \in SUBSET Nat /\ 0..m \in SUBSET Nat
    <3>1. m \in 0..m /\ m \notin 0..k
      BY <1>6
    <3> QED
      BY <3>1, <1>6
  <2>2. <<0..k, 0..m>> \in StrictSubsetOrdering(Nat)
    BY <2>1 DEF StrictSubsetOrdering
  <2> QED
    BY <2>2, <1>4, <1>5
<1> QED
  BY <1>6

\* What the contract says of a tampered ballot, whatever a peer has committed.
LEMMA Refused ==
    ASSUME legacy \in BOOLEAN, closed \in BOOLEAN, NEW s \in Live, ~legacyChainSkips(s),
           NEW m, m.kind = s, NEW records
    PROVE  ~Accepts(records, m)
<1> DEFINE used == \E r \in records : r.nullifier = m.nullifier
<1>1. used \in BOOLEAN
  OBVIOUS
<1>2. AnswerOver(records, m) = Answers[legacy][closed][used][s]
  BY DEF AnswerOver
<1>3. s \in {"self-issued-credential", "overvote"} => ~legacy
  BY RegistryIs, CatalogueIs DEF legacyChainSkips, Live
<1> HIDE DEF used
<1>4. Answers[legacy][closed][used][s] # "accept"
  BY <1>1, <1>3, AnswersAre DEF Live
<1> QED
  BY <1>2, <1>4 DEF Accepts

\* Its answer while the election is open.
LEMMA OpenAnswers ==
    ASSUME legacy \in BOOLEAN, closed \in BOOLEAN, ~closed, NEW s \in Live, ~legacyChainSkips(s),
           NEW m, m.kind = s, NEW records
    PROVE  LET used == \E r \in records : r.nullifier = m.nullifier
           IN  AnswerOver(records, m) =
                 IF s \in {"corrupted-ballot-bytes", "self-issued-credential"}
                 THEN Registry[s].chain
                 ELSE IF used THEN "nullifier"
                 ELSE IF s = "overvote" THEN "selection" ELSE "cds"
<1> DEFINE used == \E r \in records : r.nullifier = m.nullifier
<1>1. used \in BOOLEAN
  OBVIOUS
<1>2. AnswerOver(records, m) = Answers[legacy][closed][used][s]
  BY DEF AnswerOver
<1>3. s \in {"self-issued-credential", "overvote"} => ~legacy
  BY RegistryIs, CatalogueIs DEF legacyChainSkips, Live
<1> HIDE DEF used
<1>4. Answers[legacy][closed][used][s] =
                 IF s \in {"corrupted-ballot-bytes", "self-issued-credential"}
                 THEN Registry[s].chain
                 ELSE IF used THEN "nullifier"
                 ELSE IF s = "overvote" THEN "selection" ELSE "cds"
  <2>1. /\ Registry["corrupted-ballot-bytes"].chain = "decode"
        /\ Registry["self-issued-credential"].chain = "issuer"
    BY RegistryIs, CatalogueIs
  <2> DEFINE A == Answers[legacy][closed][used]
  <2>2. /\ A["corrupted-ballot-bytes"] = "decode"
        /\ ~legacy => A["self-issued-credential"] = "issuer"
        /\ A["tamper-ballot-proof"] = IF used THEN "nullifier" ELSE "cds"
        /\ A["reused-nullifier"] = IF used THEN "nullifier" ELSE "cds"
        /\ ~legacy => A["overvote"] = IF used THEN "nullifier" ELSE "selection"
    BY <1>1, AnswersAre
  <2> HIDE DEF A
  <2>3. A[s] = IF s \in {"corrupted-ballot-bytes", "self-issued-credential"}
                 THEN Registry[s].chain
                 ELSE IF used THEN "nullifier"
                 ELSE IF s = "overvote" THEN "selection" ELSE "cds"
    BY <1>3, <2>1, <2>2 DEF Live
  <2> QED
    BY <2>3 DEF A
<1> QED
  BY <1>2, <1>4 DEF used

\* A simulated attack is judged by the auditor and touches no chain.
LEMMA SimulatedRows ==
    ASSUME NEW s \in Scenarios, legacy \in BOOLEAN, NEW o \in Simulated(s)
    PROVE  /\ o.chain = ledger /\ o.row.verdict \in Verdicts
           /\ o.row.gates \subseteq Checks /\ o.row.onChain \in BOOLEAN /\ ~o.row.onChain
<1>1. PICK r \in runOneScenario(s) : o = [chain |-> ledger, row |-> r]
  BY DEF Simulated
<1> DEFINE checks == withoutLegacyFinding(AuditFails(s))
<1>2. \/ r = Row("SKIPPED", {}, FALSE) \/ r = Row("INCONCLUSIVE", {}, FALSE)
      \/ r = classifyAudit(s, checks) /\ Registry[s].audit # None
  BY <1>1 DEF runOneScenario
<1>3. Registry[s].audit # None => checks \subseteq Checks
  <2>1. Registry[s].audit # None => Registry[s].audit \in Checks
    BY RegistryIs
  <2>2. {"nullifier.unique", "ballot.cds_proof"} \subseteq Checks
    BY DEF Checks
  <2> QED
    BY <2>1, <2>2 DEF withoutLegacyFinding, AuditFails
<1> HIDE DEF checks
<1>4. /\ classifyAudit(s, checks).verdict \in Verdicts
      /\ classifyAudit(s, checks).gates = checks
      /\ classifyAudit(s, checks).onChain \in BOOLEAN /\ ~classifyAudit(s, checks).onChain
  <2>1. PICK v : v \in Verdicts /\ classifyAudit(s, checks) = Row(v, checks, FALSE)
    <3> DEFINE v == CASE checks = {} -> "FAIL"
                      [] checks # {} /\ Registry[s].audit \in checks -> "PASS"
                      [] OTHER -> "INCONCLUSIVE"
    <3>1. classifyAudit(s, checks) = Row(v, checks, FALSE)
      BY DEF classifyAudit
    <3>2. v \in Verdicts
      BY DEF Verdicts
    <3> QED
      BY <3>1, <3>2
  <2> QED
    BY <2>1 DEF Row
<1>5. r.verdict \in Verdicts /\ r.gates \subseteq Checks /\ r.onChain \in BOOLEAN /\ ~r.onChain
  <2>1. CASE r = Row("SKIPPED", {}, FALSE)
    BY <2>1 DEF Verdicts, Row
  <2>3. CASE r = Row("INCONCLUSIVE", {}, FALSE)
    BY <2>3 DEF Verdicts, Row
  <2>2. CASE r = classifyAudit(s, checks) /\ Registry[s].audit # None
    BY <1>3, <1>4, <2>2
  <2> QED
    BY <1>2, <2>1, <2>2, <2>3
<1> QED
  BY <1>1, <1>5

\* A live attack leaves nothing on the chain.
LEMMA LiveLeavesNothing ==
    ASSUME legacy \in BOOLEAN, closed \in BOOLEAN, NEW s \in Live, ~legacyChainSkips(s),
           NEW m, m.kind = s, NEW o \in LiveOutcomes(s, m)
    PROVE  /\ o.chain = ledger
           /\ \/ o.row = Row("INCONCLUSIVE", {}, TRUE)
              \/ o.row = classifyLive(s, {AnswerOver(ledger, m)})
              \/ o.row = classifyLive(s, {AnswerOver(r, m) : r \in {ledger, {}}})
<1>1. ~Accepts(ledger, m)
  BY Refused
<1> DEFINE answer == [chain |-> ledger, row |-> classifyLive(s, {AnswerOver(ledger, m)})]
           unsent == [chain |-> ledger, row |-> Row("INCONCLUSIVE", {}, TRUE)]
           behind == [chain |-> ledger, row |->
                        classifyLive(s, {AnswerOver(r, m) : r \in {ledger, {}}})]
<1>2. LiveOutcomes(s, m) \subseteq {answer, unsent, behind}
  BY <1>1 DEF LiveOutcomes
<1>3. \/ o = answer \/ o = unsent \/ o = behind
  BY <1>2
<1> HIDE DEF answer, unsent, behind
<1>4. answer.chain = ledger /\ answer.row = classifyLive(s, {AnswerOver(ledger, m)})
  BY DEF answer
<1>5. unsent.chain = ledger /\ unsent.row = Row("INCONCLUSIVE", {}, TRUE)
  BY DEF unsent
<1>6. /\ behind.chain = ledger
      /\ behind.row = classifyLive(s, {AnswerOver(r, m) : r \in {ledger, {}}})
  BY DEF behind
<1> QED
  BY <1>3, <1>4, <1>5, <1>6

\* A refused attack is a pass at its own gate only, and inconclusive at another.
LEMMA LiveVerdicts ==
    ASSUME NEW s, NEW g
    PROVE  /\ classifyLive(s, g).verdict \in {"PASS", "INCONCLUSIVE"}
           /\ classifyLive(s, g).gates = g
           /\ classifyLive(s, g).onChain \in BOOLEAN /\ classifyLive(s, g).onChain
<1> DEFINE v == IF g = {Registry[s].chain} THEN "PASS" ELSE "INCONCLUSIVE"
<1>1. classifyLive(s, g) = Row(v, g, TRUE) /\ v \in {"PASS", "INCONCLUSIVE"}
  BY DEF classifyLive
<1> HIDE DEF v
<1> QED
  BY <1>1 DEF Row

\* The submission of an attack is of that attack's kind.
LEMMA TamperedKind ==
    ASSUME NEW s \in Live, NEW i, NEW d
    PROVE  /\ Tampered(s, i, d).kind = s
           /\ Tampered(s, i, d).nullifier = CASE s = "reused-nullifier" -> d
                                              [] s = "self-issued-credential" -> N
                                              [] OTHER -> i
BY DEF Tampered, Submission, Live

\* The donor landed.
LEMMA DonorLanded ==
    ASSUME ChainInv, landed = first.ok, donor # -1
    PROVE  donor \in landed
<1>1. landed \subseteq Nat /\ landed # {}
  <2>1. \A i \in landed : i \in Nat
    <3>1. SUFFICES ASSUME NEW i \in landed PROVE i \in Nat
      OBVIOUS
    <3>2. PICK j \in Indices : Ballot(i) = Ballot(j)
      BY DEF ChainInv, AttacksLeaveNoTrace
    <3>3. Ballot(i).nullifier = i /\ Ballot(j).nullifier = j
      BY DEF Ballot, Submission
    <3> QED
      BY <3>2, <3>3, AttackWindowAssumption DEF Indices
  <2> QED
    BY <2>1 DEF donor
<1>2. \E m \in landed : \A k \in landed : m <= k
  BY <1>1, LeastNatural
<1>3. donor = Min(landed)
  BY <1>1 DEF donor
<1> QED
  BY <1>2, <1>3 DEF Min

\* The heart of it: at the ballots pause a live attack meets its gate.
LEMMA LiveAtPause ==
    ASSUME WindowInv, ChainInv, pc = "ballots", NEW s \in Live, ~legacyChainSkips(s),
           NEW o \in mountBallotLive(s, pauseIndex, donor)
    PROVE  /\ o.chain = ledger
           /\ o.row.verdict \in {"PASS", "INCONCLUSIVE"} /\ o.row.onChain \in BOOLEAN /\ o.row.onChain
           /\ o.row.gates \subseteq Gates
           /\ o.row.gates # {} => Registry[s].chain \in o.row.gates
<1> DEFINE m == Tampered(s, pauseIndex, donor)
<1>1. /\ ~closed /\ legacy \in BOOLEAN /\ closed \in BOOLEAN
      /\ half.next = pauseIndex /\ landed = first.ok
  BY DEF ChainInv, WindowInv, HalvesInv
<1>2. CASE s = "reused-nullifier" /\ donor = -1
  <2>1. o = [chain |-> ledger, row |-> Row("INCONCLUSIVE", {}, TRUE)]
    BY <1>2 DEF mountBallotLive
  <2>2. o.chain = ledger /\ o.row = Row("INCONCLUSIVE", {}, TRUE)
    BY <2>1
  <2> QED
    BY <2>2 DEF Row
<1>3. CASE ~(s = "reused-nullifier" /\ donor = -1)
  <2>1. o \in LiveOutcomes(s, m)
    BY <1>3 DEF mountBallotLive
  <2>2. m.kind = s
    BY TamperedKind
  <2>3. AnswerOver(ledger, m) = Registry[s].chain
    <3>1. s = "reused-nullifier" => \E r \in ledger : r.nullifier = m.nullifier
      <4>1. SUFFICES ASSUME s = "reused-nullifier" PROVE \E r \in ledger : r.nullifier = m.nullifier
        OBVIOUS
      <4>2. m.nullifier = donor /\ donor \in landed
        BY <1>1, <1>3, <4>1, TamperedKind, DonorLanded
      <4>3. Ballot(donor) \in ledger /\ Ballot(donor).nullifier = donor
        BY <4>2 DEF ChainInv, Ballot, Submission
      <4> QED
        BY <4>2, <4>3
    <3>2. s \in {"tamper-ballot-proof", "overvote"} => ~ \E r \in ledger : r.nullifier = m.nullifier
      <4>1. s \in {"tamper-ballot-proof", "overvote"} => m.nullifier = pauseIndex
        BY TamperedKind
      <4>2. \A r \in ledger : r.nullifier < pauseIndex /\ r.nullifier \in Int
        BY <1>1, AttackWindowAssumption DEF ChainInv, AttacksLeaveNoTrace, Ballot, Submission, Indices
      <4> QED
        BY <4>1, <4>2, PauseInside
    <3>3. /\ s = "tamper-ballot-proof" => Registry[s].chain = "cds"
          /\ s = "reused-nullifier" => Registry[s].chain = "nullifier"
          /\ s = "overvote" => Registry[s].chain = "selection"
      BY RegistryIs, CatalogueIs
    <3> HIDE DEF m
    <3> QED
      BY <1>1, <2>2, <3>1, <3>2, <3>3, OpenAnswers DEF Live
  <2>4. AnswerOver({}, m) \in Gates
    <3>1. Registry[s].chain \in Gates
      BY RegistryIs, CatalogueIs DEF Live
    <3> HIDE DEF m
    <3> QED
      BY <1>1, <2>2, <3>1, OpenAnswers DEF Live, Gates
  <2>5. Registry[s].chain \in Gates
    BY RegistryIs, CatalogueIs DEF Live
  <2>6. /\ o.chain = ledger
        /\ \/ o.row = Row("INCONCLUSIVE", {}, TRUE)
           \/ o.row = classifyLive(s, {AnswerOver(ledger, m)})
           \/ o.row = classifyLive(s, {AnswerOver(r, m) : r \in {ledger, {}}})
    BY <1>1, <2>1, <2>2, LiveLeavesNothing
  <2> HIDE DEF m
  <2>7. {AnswerOver(r, m) : r \in {ledger, {}}} = {AnswerOver(ledger, m), AnswerOver({}, m)}
    OBVIOUS
  <2>8. CASE o.row = Row("INCONCLUSIVE", {}, TRUE)
    BY <2>6, <2>8 DEF Row
  <2>9. ASSUME NEW g, o.row = classifyLive(s, g), g \subseteq Gates, Registry[s].chain \in g
        PROVE  /\ o.row.verdict \in {"PASS", "INCONCLUSIVE"} /\ o.row.onChain \in BOOLEAN
               /\ o.row.onChain /\ o.row.gates \subseteq Gates
               /\ Registry[s].chain \in o.row.gates
    BY <2>9, LiveVerdicts
  <2>10. CASE o.row = classifyLive(s, {AnswerOver(ledger, m)})
    BY <2>3, <2>5, <2>6, <2>9, <2>10
  <2>11. CASE o.row = classifyLive(s, {AnswerOver(r, m) : r \in {ledger, {}}})
    BY <2>3, <2>4, <2>5, <2>6, <2>7, <2>9, <2>11
  <2> QED
    BY <2>6, <2>8, <2>10, <2>11
<1> QED
  BY <1>2, <1>3

\* Whatever is mounted at a pause leaves the chain alone, and if it was mounted live its
\* row names the gate it was written for.
LEMMA MountOutcomes ==
    ASSUME WindowInv, ChainInv, NEW s \in Scenarios, NEW o \in Mount(s)
    PROVE  /\ o.chain = ledger /\ o.row.verdict \in Verdicts
           /\ o.row.gates \subseteq Gates \cup Checks /\ o.row.onChain \in BOOLEAN
           /\ o.row.onChain => o.row.verdict # "FAIL"
           /\ o.row.onChain /\ o.row.gates # {} => Registry[s].chain \in o.row.gates
<1>1. CASE pc = "ballots" /\ LiveCapable(s) /\ ~legacyChainSkips(s)
  <2>1. s \in Live /\ o \in mountBallotLive(s, pauseIndex, donor)
    BY <1>1, LiveIs DEF Mount
  <2>2. /\ o.chain = ledger
        /\ o.row.verdict \in {"PASS", "INCONCLUSIVE"}
        /\ o.row.onChain \in BOOLEAN /\ o.row.onChain
        /\ o.row.gates \subseteq Gates
        /\ o.row.gates # {} => Registry[s].chain \in o.row.gates
    BY <1>1, <2>1, LiveAtPause
  <2> QED
    BY <2>2 DEF Verdicts
<1>2. CASE ~(pc = "ballots" /\ LiveCapable(s) /\ ~legacyChainSkips(s))
  <2>1. o \in Simulated(s) /\ legacy \in BOOLEAN
    BY <1>2 DEF Mount, ChainInv
  <2>2. /\ o.chain = ledger /\ o.row.verdict \in Verdicts
        /\ o.row.gates \subseteq Checks /\ o.row.onChain \in BOOLEAN /\ ~o.row.onChain
    BY <2>1, SimulatedRows
  <2> QED
    BY <2>2
<1> QED
  BY <1>1, <1>2

\* An attack run again after the phase leaves the chain alone too.
LEMMA RerunOutcomes ==
    ASSUME ChainInv, NEW s \in Scenarios, NEW i,
           NEW o \in IF LiveCapable(s) /\ ~legacyChainSkips(s)
                     THEN LiveOutcomes(s, Tampered(s, i, 0)) ELSE Simulated(s)
    PROVE  o.chain = ledger /\ o.row.verdict \in Verdicts
<1>1. CASE LiveCapable(s) /\ ~legacyChainSkips(s)
  <2>1. s \in Live /\ o \in LiveOutcomes(s, Tampered(s, i, 0)) /\ Tampered(s, i, 0).kind = s
        /\ legacy \in BOOLEAN /\ closed \in BOOLEAN
    BY <1>1, LiveIs, TamperedKind DEF ChainInv
  <2>2. /\ o.chain = ledger
        /\ \/ o.row = Row("INCONCLUSIVE", {}, TRUE)
           \/ \E g : o.row = classifyLive(s, g)
    BY <1>1, <2>1, LiveLeavesNothing
  <2>3. CASE o.row = Row("INCONCLUSIVE", {}, TRUE)
    BY <2>2, <2>3 DEF Row, Verdicts
  <2>4. CASE \E g : o.row = classifyLive(s, g)
    BY <2>2, <2>4, LiveVerdicts DEF Verdicts
  <2> QED
    BY <2>2, <2>3, <2>4
<1>2. CASE ~(LiveCapable(s) /\ ~legacyChainSkips(s))
  BY <1>2, SimulatedRows DEF ChainInv
<1> QED
  BY <1>1, <1>2

-----------------------------------------------------------------------------
(* The verdicts kept.                                                        *)

\* A save that fails leaves the rows as they were, and is remembered.
LEMMA UnsavedKeeps ==
    ASSUME RowsInv, NEW s, NEW row, NEW stage, saveScenarioResult(s, row, stage, FALSE)
    PROVE  RowsInv' /\ UNCHANGED results /\ store' # "whole"
BY DEF saveScenarioResult, RowsInv, StagedReachesItsGate, staged

\* An attack run at its pause: its verdict is of that stage, and the others' stand.
LEMMA MergedKeeps ==
    ASSUME WindowInv, ChainInv, RowsInv, pc \in Stages, NEW s \in Scenarios,
           NEW o \in Mount(s), mergeScenarioResults(s, o.row, pc), UNCHANGED store
    PROVE  /\ RowsInv' /\ staged(results'[s])
           /\ \A t \in Scenarios : staged(results[t]) => staged(results'[t])
<1>2. /\ o.chain = ledger /\ o.row.verdict \in Verdicts
      /\ o.row.gates \subseteq Gates \cup Checks /\ o.row.onChain \in BOOLEAN
      /\ o.row.onChain => o.row.verdict # "FAIL"
      /\ o.row.onChain /\ o.row.gates # {} => Registry[s].chain \in o.row.gates
  BY MountOutcomes
<1> DEFINE new == [verdict |-> o.row.verdict, gates |-> o.row.gates,
                   onChain |-> o.row.onChain, stage |-> pc]
<1>3. results' = [results EXCEPT ![s] = new]
  BY DEF mergeScenarioResults, Stages, Unstaged
<1>4. new # None
  BY <1>2, AbsentAssumption
<1>5. /\ new.verdict = o.row.verdict /\ new.gates = o.row.gates /\ new.stage = pc
      /\ (new.onChain <=> o.row.onChain)
  BY <1>2
<1> HIDE DEF new
<1>6. \A t \in Scenarios : results'[t] = IF t = s THEN new ELSE results[t]
  BY <1>3 DEF RowsInv
<1>7. results' = [t \in Scenarios |-> results'[t]]
  BY <1>3 DEF RowsInv
<1>8. \A t \in Scenarios : results'[t] # None => results'[t].verdict \in Verdicts
  BY <1>2, <1>5, <1>6 DEF RowsInv
<1>9. staged(results'[s])
  BY <1>4, <1>5, <1>6 DEF staged, Stages, Unstaged
<1>10. StagedReachesItsGate'
  <2> SUFFICES ASSUME NEW t \in Scenarios, staged(results'[t]), results'[t].onChain
               PROVE  /\ results'[t].verdict # "FAIL"
                      /\ results'[t].gates # {} => Registry[t].chain \in results'[t].gates
    BY DEF StagedReachesItsGate, staged
  <2>1. CASE t = s
    <3>1. results'[t] = new /\ new.onChain
      BY <1>6, <2>1
    <3>2. o.row.onChain
      BY <1>5, <3>1
    <3>3. results'[t].verdict = o.row.verdict /\ results'[t].gates = o.row.gates
      BY <1>5, <3>1
    <3>4. /\ o.row.verdict # "FAIL"
          /\ o.row.gates # {} => Registry[s].chain \in o.row.gates
      BY <1>2, <3>2
    <3> QED
      BY <2>1, <3>3, <3>4
  <2>2. CASE t # s
    <3>1. results'[t] = results[t]
      BY <1>6, <2>2
    <3> QED
      BY <3>1 DEF RowsInv, StagedReachesItsGate
  <2> QED
    BY <2>1, <2>2
<1> QED
  BY <1>2, <1>6, <1>7, <1>8, <1>9, <1>10 DEF RowsInv, staged

\* The same, or the save failed.
LEMMA RunOneKeeps ==
    ASSUME WindowInv, ChainInv, RowsInv, pc \in Stages, NEW s \in Scenarios, RunOne(s)
    PROVE  /\ ledger' = ledger /\ RowsInv'
           /\ store' = "whole" => store = "whole" /\ staged(results'[s])
           /\ \A t \in Scenarios : staged(results[t]) => staged(results'[t])
<1>1. PICK o \in Mount(s), saved \in BOOLEAN :
        ledger' = o.chain /\ saveScenarioResult(s, o.row, pc, saved)
  BY DEF RunOne
<1>2. o.chain = ledger
  BY MountOutcomes
<1>3. CASE saved = TRUE
  <2>1. mergeScenarioResults(s, o.row, pc) /\ UNCHANGED store
    BY <1>1, <1>3 DEF saveScenarioResult
  <2> QED
    BY <1>1, <1>2, <2>1, MergedKeeps
<1>4. CASE saved = FALSE
  BY <1>1, <1>2, <1>4, UnsavedKeeps DEF staged
<1> QED
  BY <1>3, <1>4

\* A result of no stage replaces no verdict of a pause.
LEMMA UnstagedKeeps ==
    ASSUME RowsInv, NEW s \in Scenarios, NEW o, o.row.verdict \in Verdicts,
           mergeScenarioResults(s, o.row, Unstaged), UNCHANGED store
    PROVE  /\ RowsInv'
           /\ \A t \in Scenarios : staged(results[t]) => results'[t] = results[t]
<1> DEFINE new == [verdict |-> o.row.verdict, gates |-> o.row.gates,
                   onChain |-> o.row.onChain, stage |-> Unstaged]
<1>3. results' = IF staged(results[s]) THEN results ELSE [results EXCEPT ![s] = new]
  BY DEF mergeScenarioResults
<1>4. new.verdict = o.row.verdict /\ new.stage = Unstaged
  OBVIOUS
<1> HIDE DEF new
<1>5. CASE staged(results[s])
  BY <1>3, <1>5 DEF RowsInv, StagedReachesItsGate, staged
<1>6. CASE ~staged(results[s])
  <2>1. \A t \in Scenarios : results'[t] = IF t = s THEN new ELSE results[t]
    BY <1>3, <1>6 DEF RowsInv
  <2>2. results' = [t \in Scenarios |-> results'[t]]
    BY <1>3, <1>6 DEF RowsInv
  <2>3. \A t \in Scenarios : results'[t] # None => results'[t].verdict \in Verdicts
    BY <1>4, <2>1 DEF RowsInv
  <2>4. ~staged(results'[s])
    BY <1>4, <2>1 DEF staged
  <2>5. \A t \in Scenarios : t # s => results'[t] = results[t]
    BY <2>1
  <2>6. StagedReachesItsGate'
    <3> SUFFICES ASSUME NEW t \in Scenarios, staged(results'[t]), results'[t].onChain
                 PROVE  /\ results'[t].verdict # "FAIL"
                        /\ results'[t].gates # {} => Registry[t].chain \in results'[t].gates
      BY DEF StagedReachesItsGate, staged
    <3>1. results'[t] = results[t]
      BY <2>4, <2>5
    <3> QED
      BY <3>1 DEF RowsInv, StagedReachesItsGate
  <2> QED
    BY <1>6, <2>2, <2>3, <2>5, <2>6 DEF RowsInv
<1> QED
  BY <1>5, <1>6

\* An attack run again after the phase replaces no verdict of a pause.
LEMMA RunStagedAttackKeeps ==
    ASSUME ChainInv, RowsInv, NEW s \in Scenarios, RunStagedAttack(s)
    PROVE  /\ ledger' = ledger /\ RowsInv' /\ (store' = "whole" => store = "whole")
           /\ \A t \in Scenarios : staged(results[t]) => results'[t] = results[t]
<1> DEFINE i == IF s = "reused-nullifier" THEN 1 ELSE 0
<1>1. PICK o \in IF LiveCapable(s) /\ ~legacyChainSkips(s)
                 THEN LiveOutcomes(s, Tampered(s, i, 0)) ELSE Simulated(s),
           saved \in BOOLEAN :
            ledger' = o.chain /\ saveScenarioResult(s, o.row, Unstaged, saved)
  BY DEF RunStagedAttack
<1> HIDE DEF i
<1>2. o.chain = ledger /\ o.row.verdict \in Verdicts
  BY <1>1, RerunOutcomes
<1>3. CASE saved = TRUE
  <2>1. mergeScenarioResults(s, o.row, Unstaged) /\ UNCHANGED store
    BY <1>1, <1>3 DEF saveScenarioResult
  <2> QED
    BY <1>1, <1>2, <2>1, UnstagedKeeps
<1>4. CASE saved = FALSE
  BY <1>1, <1>2, <1>4, UnsavedKeeps
<1> QED
  BY <1>3, <1>4

-----------------------------------------------------------------------------
(* The pause.                                                                *)

\* What leaves the pause, the stage and the verdicts alone keeps its invariant; a
\* cancellation may come at any time.
LEMMA PauseUntouched ==
    ASSUME PauseInv, UNCHANGED <<pc, pause, lost>>, cancelled' \in BOOLEAN,
           cancelled => cancelled', store' = "whole" => store = "whole",
           \A s \in pause.ran : staged(results[s]) => staged(results'[s])
    PROVE  PauseInv'
BY DEF PauseInv

\* A new pause, or none.
LEMMA PauseFresh ==
    ASSUME PauseInv, pause' = NoPause \/ (pause' = OpenPause /\ pc' \in Stages),
           lost' \in Seq(Decisions), cancelled' = cancelled
    PROVE  PauseInv'
<1>0. << >> \in Seq(Decisions) /\ Len(<< >>) = 0 /\ 0 <= QueueCap
  BY AttackWindowAssumption
<1>1. CASE pause' = NoPause
  <2>1. pause' = [open |-> FALSE, closed |-> TRUE, queue |-> << >>, todo |-> {},
                  rest |-> FALSE, ran |-> {}, timer |-> FALSE]
    BY <1>1 DEF NoPause
  <2> QED
    BY <1>0, <2>1 DEF PauseInv
<1>2. CASE pause' = OpenPause /\ pc' \in Stages
  <2>1. pause' = [open |-> TRUE, closed |-> FALSE, queue |-> << >>, todo |-> {},
                  rest |-> FALSE, ran |-> {}, timer |-> TRUE]
    BY <1>2 DEF OpenPause, NoPause
  <2> QED
    BY <1>0, <1>2, <2>1 DEF PauseInv
<1> QED
  BY <1>1, <1>2

\* The lifecycle arrives at a stage, or goes on.
LEMMA GoOnPause ==
    ASSUME PauseInv, GoOn
    PROVE  PauseInv'
<1>1. \/ UNCHANGED pause \/ pause' = NoPause \/ (pause' = OpenPause /\ pc' \in Stages)
  BY DEF GoOn, Continue, Arrive, Stages
<1>2. ~pause.open /\ UNCHANGED <<lost, cancelled, results, store>>
  BY DEF GoOn
<1>3. CASE UNCHANGED pause
  BY <1>2, <1>3 DEF PauseInv
<1> QED
  BY <1>1, <1>2, <1>3, PauseFresh DEF PauseInv

\* The first half ends at the ballots pause, or the window is over.
LEMMA FirstHalfEndsPause ==
    ASSUME PauseInv, FirstHalfEnds
    PROVE  PauseInv'
<1>1. \/ UNCHANGED pause \/ pause' = NoPause \/ (pause' = OpenPause /\ pc' \in Stages)
  BY DEF FirstHalfEnds, Arrive, Stages
<1>2. ~pause.open /\ UNCHANGED <<lost, cancelled, results, store>>
  BY DEF FirstHalfEnds, PauseInv, Stages
<1>3. CASE UNCHANGED pause
  BY <1>2, <1>3 DEF PauseInv
<1> QED
  BY <1>1, <1>2, <1>3, PauseFresh DEF PauseInv

\* The second half ends with no pause open.
LEMMA SecondHalfEndsPause ==
    ASSUME PauseInv, SecondHalfEnds
    PROVE  PauseInv'
<1>1. ~pause.open /\ UNCHANGED <<pause, lost, cancelled, results, store>>
  BY DEF SecondHalfEnds, PauseInv, Stages
<1> QED
  BY <1>1 DEF PauseInv

\* The pause ends.
LEMMA ResumePause ==
    ASSUME PauseInv, Resume, cancelled' = cancelled
    PROVE  PauseInv'
<1>1. lost' \in Seq(Decisions)
  BY DEF Resume, PauseInv
<1> QED
  BY <1>1, PauseFresh DEF Resume

\* The rest of a stage begins, with the queue closed and empty.
LEMMA RunRestPause ==
    ASSUME PauseInv, Holding, NEW q, pause' = RunRest(q),
           UNCHANGED <<pc, lost, cancelled, results, store>>,
           q \in [open: BOOLEAN, closed: BOOLEAN, queue: Seq(Decisions),
                  todo: SUBSET Scenarios, rest: BOOLEAN, ran: SUBSET Scenarios, timer: BOOLEAN],
           q.open, q.closed, q.queue = << >>, q.ran = pause.ran
    PROVE  PauseInv'
<1>1. /\ pause'.open /\ pause'.closed /\ pause'.queue = << >> /\ pause'.ran = pause.ran
      /\ pause'.rest /\ pause'.todo = ScenariosForStage(pc) \ pause.ran
      /\ pause' \in [open: BOOLEAN, closed: BOOLEAN, queue: Seq(Decisions),
                     todo: SUBSET Scenarios, rest: BOOLEAN, ran: SUBSET Scenarios,
                     timer: BOOLEAN]
  BY DEF RunRest, ScenariosForStage
<1>2. Len(<< >>) = 0 /\ 0 <= QueueCap
  BY AttackWindowAssumption
<1>3. pc \in Stages
  BY DEF PauseInv, Holding
<1> QED
  BY <1>1, <1>2, <1>3 DEF PauseInv

\* The timer fires.
LEMMA TimeoutPause ==
    ASSUME PauseInv, Timeout
    PROVE  PauseInv'
<1>1. Holding /\ UNCHANGED <<pc, lost, cancelled, results, store>>
  BY DEF Timeout
<1>2. CASE pause.queue # << >>
  <2>1. pause' = [pause EXCEPT !.timer = FALSE]
    BY <1>2 DEF Timeout
  <2> QED
    BY <1>1, <2>1 DEF PauseInv
<1>3. CASE pause.queue = << >>
  <2> DEFINE q == [pause EXCEPT !.closed = TRUE]
  <2>1. pause' = RunRest(q)
    BY <1>3 DEF Timeout
  <2>2. /\ q \in [open: BOOLEAN, closed: BOOLEAN, queue: Seq(Decisions),
                   todo: SUBSET Scenarios, rest: BOOLEAN, ran: SUBSET Scenarios,
                   timer: BOOLEAN]
        /\ q.open /\ q.closed /\ q.queue = << >> /\ q.ran = pause.ran
    BY <1>1, <1>3 DEF PauseInv, Holding
  <2> HIDE DEF q
  <2> QED
    BY <1>1, <2>1, <2>2, RunRestPause
<1> QED
  BY <1>2, <1>3

\* The head of the queue ends the stage only if it is the queue.
LEMMA LastDecision ==
    ASSUME PauseInv, pause.queue # << >>, Head(pause.queue) \in {"run-all", "skip"}
    PROVE  pause.closed /\ Tail(pause.queue) = << >>
<1>1. pause.queue \in Seq(Decisions) /\ Len(pause.queue) \in Nat /\ Len(pause.queue) >= 1
  BY DEF PauseInv
<1>2. pause.queue[1] \in {"run-all", "skip"}
  BY <1>1
<1>3. Len(pause.queue) = 1 /\ pause.closed
  <2>1. 1 \in 1..Len(pause.queue)
    BY <1>1
  <2>2. 1 = Len(pause.queue) /\ pause.closed
    BY <1>2, <2>1 DEF PauseInv
  <2> QED
    BY <2>2
<1>4. Tail(pause.queue) \in Seq(Decisions) /\ Len(Tail(pause.queue)) = 0
  BY <1>1, <1>3
<1> QED
  BY <1>3, <1>4, EmptySeq

\* A decision is taken.
LEMMA TakeDecisionPause ==
    ASSUME PauseInv, TakeDecision
    PROVE  PauseInv'
<1> DEFINE d == Head(pause.queue)
           q == [pause EXCEPT !.queue = Tail(@)]
<1>1. /\ Holding /\ pause.queue # << >> /\ UNCHANGED <<pc, cancelled, results, store>>
      /\ \/ d = "run-all" /\ pause' = RunRest(q) /\ UNCHANGED lost
         \/ d = "skip" /\ pause' = NoPause /\ lost' = lost \o q.queue
         \/ d \notin {"run-all", "skip"} /\ pause' = [q EXCEPT !.todo = {d}] /\ UNCHANGED lost
  BY DEF TakeDecision
<1>2. /\ pause.queue \in Seq(Decisions) /\ Len(pause.queue) \in Nat /\ Len(pause.queue) >= 1
      /\ d \in Decisions /\ Tail(pause.queue) \in Seq(Decisions)
      /\ Len(Tail(pause.queue)) = Len(pause.queue) - 1
      /\ \A k \in 1..Len(Tail(pause.queue)) : Tail(pause.queue)[k] = pause.queue[k + 1]
  BY <1>1 DEF PauseInv
<1>3. /\ q \in [open: BOOLEAN, closed: BOOLEAN, queue: Seq(Decisions),
                 todo: SUBSET Scenarios, rest: BOOLEAN, ran: SUBSET Scenarios, timer: BOOLEAN]
      /\ q.open /\ (q.closed <=> pause.closed) /\ q.queue = Tail(pause.queue)
      /\ q.ran = pause.ran /\ q.todo = {} /\ ~q.rest
  BY <1>1, <1>2 DEF PauseInv, Holding
<1> HIDE DEF q, d
<1>4. CASE d = "run-all" /\ pause' = RunRest(q) /\ UNCHANGED lost
  BY <1>1, <1>3, <1>4, LastDecision, RunRestPause DEF d
<1>5. CASE d = "skip" /\ pause' = NoPause /\ lost' = lost \o q.queue
  <2>1. lost' \in Seq(Decisions)
    BY <1>2, <1>3, <1>5 DEF PauseInv
  <2> QED
    BY <1>1, <1>5, <2>1, PauseFresh
<1>6. CASE d \notin {"run-all", "skip"} /\ pause' = [q EXCEPT !.todo = {d}] /\ UNCHANGED lost
  <2>1. /\ pause' \in [open: BOOLEAN, closed: BOOLEAN, queue: Seq(Decisions),
                       todo: SUBSET Scenarios, rest: BOOLEAN, ran: SUBSET Scenarios,
                       timer: BOOLEAN]
        /\ pause'.open /\ (pause'.closed <=> pause.closed)
        /\ pause'.queue = Tail(pause.queue) /\ pause'.ran = pause.ran /\ ~pause'.rest
    BY <1>2, <1>3, <1>6 DEF Decisions
  <2>2. pc \in Stages
    BY <1>1 DEF PauseInv, Holding
  <2>3. Len(pause'.queue) <= QueueCap
    BY <1>2, <2>1, AttackWindowAssumption DEF PauseInv
  <2>4. \A k \in 1..Len(pause'.queue) :
          pause'.queue[k] \in {"run-all", "skip"} => k = Len(pause'.queue) /\ pause'.closed
    <3> SUFFICES ASSUME NEW k \in 1..Len(Tail(pause.queue)),
                        pause.queue[k + 1] \in {"run-all", "skip"}
                 PROVE  k = Len(Tail(pause.queue)) /\ pause.closed
      BY <1>2, <2>1
    <3>1. k + 1 \in 1..Len(pause.queue)
      BY <1>2
    <3>2. k + 1 = Len(pause.queue) /\ pause.closed
      BY <3>1 DEF PauseInv
    <3> QED
      BY <1>2, <3>1, <3>2
  <2> QED
    BY <1>1, <1>6, <2>1, <2>2, <2>3, <2>4 DEF PauseInv
<1> QED
  BY <1>1, <1>4, <1>5, <1>6

\* A decision is queued.
LEMMA DecidePauseKeeps ==
    ASSUME PauseInv, Decide
    PROVE  PauseInv'
<1>1. PICK d \in ScenariosForStage(pc) \union {"run-all", "skip"} : DecidePause(d)
  BY DEF Decide
<1>2. /\ pause.open /\ ~pause.closed /\ Len(pause.queue) < QueueCap
      /\ UNCHANGED <<pc, lost, cancelled, results, store>>
  BY DEF Decide
<1>3. d \in Decisions
  BY DEF Decisions, ScenariosForStage
<1> DEFINE q == Append(pause.queue, d)
<1>4. /\ q \in Seq(Decisions) /\ Len(pause.queue) \in Nat /\ Len(q) = Len(pause.queue) + 1
      /\ q[Len(q)] = d
      /\ \A k \in 1..Len(pause.queue) : q[k] = pause.queue[k]
  BY <1>3 DEF PauseInv
<1>5. pause' = [pause EXCEPT !.queue = q, !.closed = @ \/ d \in {"run-all", "skip"}]
  BY <1>1 DEF DecidePause
<1> HIDE DEF q
<1>6. /\ pause' \in [open: BOOLEAN, closed: BOOLEAN, queue: Seq(Decisions),
                     todo: SUBSET Scenarios, rest: BOOLEAN, ran: SUBSET Scenarios,
                     timer: BOOLEAN]
      /\ pause'.open /\ (pause'.closed <=> d \in {"run-all", "skip"})
      /\ pause'.queue = q /\ pause'.ran = pause.ran
      /\ pause'.todo = pause.todo /\ (pause'.rest <=> pause.rest)
  BY <1>2, <1>4, <1>5 DEF PauseInv
<1>7. ~pause.rest /\ pc \in Stages
  BY <1>2 DEF PauseInv
<1>8. Len(q) <= QueueCap
  BY <1>2, <1>4, AttackWindowAssumption
<1>9. ASSUME NEW k \in 1..Len(q), q[k] \in {"run-all", "skip"}
      PROVE  k = Len(q) /\ pause'.closed
  <2>1. ASSUME k # Len(q) PROVE FALSE
    <3>1. k \in 1..Len(pause.queue) /\ q[k] = pause.queue[k]
      BY <1>4, <2>1
    <3> QED
      BY <1>2, <1>9, <3>1 DEF PauseInv
  <2> QED
    BY <1>4, <1>6, <1>9, <2>1
<1> QED
  BY <1>2, <1>6, <1>7, <1>8, <1>9 DEF PauseInv

\* One attack is mounted, or passed over after a cancellation.
LEMMA MountNextKeeps ==
    ASSUME WindowInv, PauseInv, ChainInv, RowsInv, MountNext
    PROVE  /\ PauseInv' /\ RowsInv' /\ ledger' = ledger /\ pause'.open = pause.open
           /\ \A t \in Scenarios : staged(results[t]) => staged(results'[t])
<1>1. PICK s \in Foremost(pause.todo) :
          IF pause.rest /\ cancelled
          THEN /\ pause' = [pause EXCEPT !.todo = @ \ {s}]
               /\ UNCHANGED <<ledger, results, store, faults>>
          ELSE /\ RunOne(s)
               /\ pause' = [pause EXCEPT !.todo = @ \ {s}, !.ran = @ \union {s},
                                         !.timer = @ \/ ~pause.rest]
  BY DEF MountNext
<1>2. s \in pause.todo /\ s \in Scenarios /\ pause.open /\ pc \in Stages
  BY DEF Foremost, PauseInv
<1>3. UNCHANGED <<pc, cancelled, lost>>
  BY DEF MountNext
<1>4. CASE pause.rest /\ cancelled
  <2>1. pause' = [pause EXCEPT !.todo = @ \ {s}] /\ UNCHANGED <<ledger, results, store>>
    BY <1>1, <1>4
  <2>2. PauseInv' /\ pause'.open = pause.open
    BY <1>2, <1>3, <1>4, <2>1 DEF PauseInv
  <2>3. RowsInv'
    BY <2>1 DEF RowsInv, StagedReachesItsGate, staged
  <2> QED
    BY <2>1, <2>2, <2>3
<1>5. CASE ~(pause.rest /\ cancelled)
  <2>1. /\ RunOne(s)
        /\ pause' = [pause EXCEPT !.todo = @ \ {s}, !.ran = @ \union {s},
                                  !.timer = @ \/ ~pause.rest]
    BY <1>1, <1>5
  <2>2. /\ ledger' = ledger /\ RowsInv'
        /\ store' = "whole" => store = "whole" /\ staged(results'[s])
        /\ \A t \in Scenarios : staged(results[t]) => staged(results'[t])
    BY <1>2, <2>1, RunOneKeeps
  <2>3. /\ pause' \in [open: BOOLEAN, closed: BOOLEAN, queue: Seq(Decisions),
                     todo: SUBSET Scenarios, rest: BOOLEAN, ran: SUBSET Scenarios,
                     timer: BOOLEAN]
        /\ pause'.open = pause.open /\ pause'.closed = pause.closed
        /\ pause'.queue = pause.queue /\ pause'.rest = pause.rest
        /\ pause'.todo = pause.todo \ {s} /\ pause'.ran = pause.ran \cup {s}
    BY <1>2, <2>1 DEF PauseInv
  <2>4. store' = "whole" => \A t \in pause'.ran : staged(results'[t])
    BY <2>2, <2>3 DEF PauseInv
  <2>5. PauseInv'
    BY <1>2, <1>3, <2>3, <2>4 DEF PauseInv
  <2> QED
    BY <2>2, <2>3, <2>5
<1> QED
  BY <1>4, <1>5

-----------------------------------------------------------------------------
(* The chain.                                                                *)

\* What leaves the bench, the chain and the lifecycle alone keeps it.
LEMMA ChainUntouched ==
    ASSUME ChainInv, UNCHANGED <<legacy, closed, pc, half, ledger, landed>>,
           expired' \in BOOLEAN
    PROVE  ChainInv'
BY DEF ChainInv, AttacksLeaveNoTrace, Ballot, Submission, Indices

\* A submission that is accepted puts a ballot of the run on the chain.
LEMMA SubmitChain ==
    ASSUME WindowInv, ChainInv, NEW w \in Workers, Submit(w) \/ SubmitFails(w)
    PROVE  ChainInv'
<1> DEFINE i == job[w].index
<1>1. /\ job[w].step = "send" /\ UNCHANGED <<legacy, closed, pc, expired>>
      /\ ledger' \in {ledger, ledger \cup {Ballot(i)}}
      /\ half'.upto = half.upto /\ half'.next = half.next
      /\ landed' = landed \/ (landed' = landed \cup {i} /\ ledger' = ledger \cup {Ballot(i)})
  BY DEF Submit, SubmitFails, WindowInv, WindowTypes
<1>2. i \in Indices /\ i < half.next
  <2>1. i \in Int /\ half.from <= i /\ i < half.next /\ half.from \in Nat
    BY <1>1 DEF WindowInv, WindowTypes, JobsInv
  <2>2. half.next <= N /\ half.next \in Nat
    BY AttackWindowAssumption DEF WindowInv, WindowTypes, HalvesInv, ChainInv
  <2> QED
    BY <2>1, <2>2, AttackWindowAssumption DEF Indices
<1>3. Ballot(i).nullifier = i
  BY DEF Ballot, Submission
<1> HIDE DEF i
<1>4. AttacksLeaveNoTrace'
  BY <1>1, <1>2 DEF ChainInv, AttacksLeaveNoTrace
<1>5. \A r \in ledger' : r.nullifier < half'.next
  BY <1>1, <1>2, <1>3 DEF ChainInv
<1>6. \A k \in landed' : Ballot(k) \in ledger'
  BY <1>1 DEF ChainInv
<1> QED
  BY <1>1, <1>4, <1>5, <1>6 DEF ChainInv

\* The dispatcher only moves on.
LEMMA DispatchChain ==
    ASSUME WindowInv, ChainInv, StopDispatch \/ \E w \in Workers : Dispatch(w)
    PROVE  ChainInv'
<1>1. /\ UNCHANGED <<legacy, closed, pc, expired, ledger, landed>>
      /\ half'.upto = half.upto
      /\ half.next \in Nat /\ half'.next \in {half.next, half.next + 1}
  BY DEF StopDispatch, Dispatch, WindowInv, WindowTypes
<1>2. \A r \in ledger : r.nullifier \in Int
  BY AttackWindowAssumption DEF ChainInv, AttacksLeaveNoTrace, Ballot, Submission, Indices
<1>3. \A r \in ledger' : r.nullifier < half'.next
  BY <1>1, <1>2 DEF ChainInv
<1> QED
  BY <1>1, <1>3 DEF ChainInv, AttacksLeaveNoTrace

\* A half ends.
LEMMA HalfEndsChain ==
    ASSUME ChainInv, FirstHalfEnds \/ SecondHalfEnds
    PROVE  ChainInv'
<1>1. /\ UNCHANGED <<legacy, closed, expired, half, ledger, landed>>
      /\ pc \in {"first", "second"}
  BY DEF FirstHalfEnds, SecondHalfEnds, bench
<1> QED
  BY <1>1 DEF ChainInv, AttacksLeaveNoTrace

\* The lifecycle goes on: a half starts where the ballots handed out end, and the
\* election closes only behind the window.
LEMMA GoOnChain ==
    ASSUME WindowInv, ChainInv, GoOn
    PROVE  ChainInv'
<1>1. /\ pc \in {"dkg", "ballots", "window", "close", "ceremony"} /\ Continue(pc)
      /\ UNCHANGED <<legacy, expired, ledger, landed>>
  BY DEF GoOn
<1>2. CASE pc = "dkg"
  <2> DEFINE b == IF pauseIndex > 0 THEN pauseIndex ELSE N
  <2>1. half' = Half(0, b) /\ UNCHANGED closed
    BY <1>1, <1>2 DEF Continue
  <2>2. half'.next = 0 /\ half'.upto = b
    BY <2>1 DEF Half, NoHalf
  <2>3. b <= N /\ half.next = 0
    BY <1>2, PauseInside, AttackWindowAssumption DEF WindowInv, HalvesInv
  <2> HIDE DEF b
  <2> QED
    BY <1>1, <1>2, <2>1, <2>2, <2>3 DEF ChainInv, AttacksLeaveNoTrace
<1>3. CASE pc = "ballots" /\ pc' = "second"
  <2>1. half' = Half(pauseIndex, N) /\ UNCHANGED closed
    BY <1>1, <1>3 DEF Continue
  <2>2. half'.next = pauseIndex /\ half'.upto = N /\ half.next = pauseIndex /\ N <= N
    BY <1>3, <2>1, AttackWindowAssumption DEF Half, NoHalf, WindowInv, HalvesInv
  <2> QED
    BY <1>1, <1>3, <2>1, <2>2 DEF ChainInv, AttacksLeaveNoTrace
<1>4. CASE pc = "ballots" /\ pc' = "window"
  BY <1>1, <1>4 DEF Continue, ChainInv, AttacksLeaveNoTrace
<1>5. CASE pc \in {"window", "close", "ceremony"}
  <2>1. /\ UNCHANGED half /\ closed' \in BOOLEAN
        /\ pc' \notin {"dkg", "first", "ballots", "second", "window"}
    BY <1>1, <1>5 DEF Continue, Arrive, ChainInv
  <2> QED
    BY <1>1, <2>1 DEF ChainInv, AttacksLeaveNoTrace
<1> QED
  BY <1>1, <1>2, <1>3, <1>4, <1>5 DEF Continue

-----------------------------------------------------------------------------
(* The run, and what its attacks and decisions come to.                      *)

\* The inductive invariant of the whole run.
AttackInv == WindowInv /\ PauseInv /\ ChainInv /\ RowsInv

\* Initially there is nothing.
LEMMA AttackInvInit == Init => AttackInv
<1> SUFFICES ASSUME Init PROVE AttackInv
  OBVIOUS
<1>1. WindowInv
  BY WindowInvInit
<1>2. PauseInv
  <2>1. pc \in Stages /\ lost \in Seq(Decisions) /\ cancelled \in BOOLEAN
    <3>1. pc \in Stages /\ lost = << >> /\ ~cancelled /\ cancelled \in BOOLEAN
      BY DEF Init, Stages
    <3> QED
      BY <3>1, EmptySeq
  <2>2. << >> \in Seq(Decisions) /\ Len(<< >>) = 0 /\ 0 <= QueueCap
    BY AttackWindowAssumption
  <2>3. CASE pause = NoPause
    <3>1. pause = [open |-> FALSE, closed |-> TRUE, queue |-> << >>, todo |-> {},
                   rest |-> FALSE, ran |-> {}, timer |-> FALSE]
      BY <2>3 DEF NoPause
    <3> QED
      BY <2>1, <2>2, <3>1 DEF PauseInv
  <2>4. CASE pause = OpenPause
    <3>1. pause = [open |-> TRUE, closed |-> FALSE, queue |-> << >>, todo |-> {},
                   rest |-> FALSE, ran |-> {}, timer |-> TRUE]
      BY <2>4 DEF OpenPause, NoPause
    <3> QED
      BY <2>1, <2>2, <3>1 DEF PauseInv
  <2> QED
    BY <2>3, <2>4 DEF Init
<1>3. ChainInv
  <2>1. half.upto = 0 /\ 0 <= N /\ ledger = {} /\ landed = {}
    BY AttackWindowAssumption DEF Init, NoHalf
  <2>2. /\ legacy \in BOOLEAN /\ expired \in BOOLEAN /\ closed \in BOOLEAN /\ ~closed
    BY DEF Init
  <2> QED
    BY <2>1, <2>2 DEF ChainInv, AttacksLeaveNoTrace
<1>4. RowsInv
  BY DEF Init, RowsInv, StagedReachesItsGate, staged
<1> QED
  BY <1>1, <1>2, <1>3, <1>4 DEF AttackInv

\* Every step keeps the invariant, and a verdict of a pause stays one.
LEMMA AttackStep ==
    ASSUME AttackInv, [Next]_vars
    PROVE  /\ AttackInv'
           /\ \A s \in Scenarios : staged(results[s]) => staged(results'[s])
<1> USE DEF AttackInv
<1>1. WindowInv'
  BY WindowInvNext
<1>2. ASSUME UNCHANGED <<results, store>>
      PROVE  RowsInv' /\ \A s \in Scenarios : staged(results[s]) => staged(results'[s])
  BY <1>2 DEF RowsInv, StagedReachesItsGate, staged
<1>3. ASSUME UNCHANGED <<pc, pause, lost, cancelled, results, store>> PROVE PauseInv'
  BY <1>3, PauseUntouched DEF PauseInv
<1>4. ASSUME UNCHANGED <<legacy, closed, pc, half, ledger, landed, expired>> PROVE ChainInv'
  BY <1>4, ChainUntouched DEF ChainInv
<1>5. ASSUME NEW w \in Workers, Dispatch(w) \/ ReadLine(w) \/ Submit(w) \/ SubmitFails(w)
      PROVE  PauseInv' /\ ChainInv' /\ UNCHANGED <<results, store>>
  <2>1. UNCHANGED <<pc, pause, lost, cancelled, results, store>>
    BY <1>5 DEF Dispatch, ReadLine, Submit, SubmitFails
  <2>2. ReadLine(w) => UNCHANGED <<legacy, closed, pc, half, ledger, landed, expired>>
    BY DEF ReadLine
  <2> QED
    BY <1>3, <1>4, <1>5, <2>1, <2>2, DispatchChain, SubmitChain
<1>6. CASE StopDispatch
  <2>1. UNCHANGED <<pc, pause, lost, cancelled, results, store>>
    BY <1>6 DEF StopDispatch
  <2> QED
    BY <1>1, <1>2, <1>3, <1>6, <2>1, DispatchChain
<1>7. CASE FirstHalfEnds
  BY <1>1, <1>2, <1>7, FirstHalfEndsPause, HalfEndsChain DEF FirstHalfEnds
<1>8. CASE SecondHalfEnds
  BY <1>1, <1>2, <1>8, SecondHalfEndsPause, HalfEndsChain DEF SecondHalfEnds
<1>9. CASE GoOn
  BY <1>1, <1>2, <1>9, GoOnPause, GoOnChain DEF GoOn
<1>10. CASE Cancelled \/ RestDone
  <2>1. /\ Resume /\ UNCHANGED <<cancelled, results, store>>
        /\ UNCHANGED <<legacy, closed, pc, half, ledger, landed, expired>>
    BY <1>10 DEF Cancelled, RestDone, bench
  <2> QED
    BY <1>1, <1>2, <1>4, <2>1, ResumePause
<1>11. CASE Timeout \/ TakeDecision \/ Decide
  <2>1. /\ UNCHANGED <<results, store>>
        /\ UNCHANGED <<legacy, closed, pc, half, ledger, landed, expired>>
    BY <1>11 DEF Timeout, TakeDecision, Decide, bench
  <2> QED
    BY <1>1, <1>2, <1>4, <1>11, <2>1, TimeoutPause, TakeDecisionPause, DecidePauseKeeps
<1>12. CASE MountNext
  <2>1. /\ PauseInv' /\ RowsInv' /\ ledger' = ledger
        /\ \A s \in Scenarios : staged(results[s]) => staged(results'[s])
    BY <1>12, MountNextKeeps
  <2>2. UNCHANGED <<legacy, closed, pc, half, landed, expired>>
    BY <1>12 DEF MountNext, bench
  <2> QED
    BY <1>1, <1>4, <2>1, <2>2
<1>13. CASE Cancel
  <2>1. /\ UNCHANGED <<pc, pause, lost, results, store>> /\ cancelled' = TRUE
        /\ UNCHANGED <<legacy, closed, pc, half, ledger, landed, expired>>
    BY <1>13 DEF Cancel, bench
  <2>2. PauseInv'
    BY <2>1, PauseUntouched
  <2> QED
    BY <1>1, <1>2, <1>4, <2>1, <2>2
<1>14. CASE Expire
  <2>1. /\ UNCHANGED <<pc, pause, lost, cancelled, results, store>> /\ expired' \in BOOLEAN
        /\ UNCHANGED <<legacy, closed, pc, half, ledger, landed>>
    BY <1>14 DEF Expire, bench
  <2> QED
    BY <1>1, <1>2, <1>3, <2>1, ChainUntouched
<1>15. ASSUME NEW s \in Scenarios, RunStagedAttack(s)
       PROVE  /\ AttackInv'
              /\ \A t \in Scenarios : staged(results[t]) => staged(results'[t])
  <2>1. /\ ledger' = ledger /\ RowsInv' /\ (store' = "whole" => store = "whole")
        /\ \A t \in Scenarios : staged(results[t]) => results'[t] = results[t]
    BY <1>15, RunStagedAttackKeeps
  <2>2. UNCHANGED <<legacy, closed, pc, half, landed, expired, pause, lost, cancelled>>
    BY <1>15 DEF RunStagedAttack, bench
  <2>3. \A t \in Scenarios : staged(results[t]) => staged(results'[t])
    BY <2>1 DEF staged
  <2>4. PauseInv'
    BY <2>1, <2>2, <2>3, PauseUntouched DEF PauseInv
  <2> QED
    BY <1>1, <1>4, <2>1, <2>2, <2>3, <2>4
<1>16. CASE UNCHANGED vars
  BY <1>1, <1>2, <1>3, <1>4, <1>16 DEF vars
<1> QED
  BY <1>1, <1>2, <1>5, <1>6, <1>7, <1>8, <1>9, <1>10, <1>11, <1>12, <1>13, <1>14, <1>15,
     <1>16 DEF Next, WorkerStep, LifecycleStep

\* The bench, the pause, the chain and the verdicts agree in every reachable state.
THEOREM AttackInvariant == Spec => []AttackInv
<1>1. AttackInv /\ [Next]_vars => AttackInv'
  BY AttackStep
<1> QED
  BY <1>1, AttackInvInit, PTL DEF Spec

\* Whatever the operator mounts, and when, no attack leaves a ballot on the chain
\* (mountBallotLive submits to a contract that refuses), and a verdict that classifyLive
\* records for an attack mounted at its pause names the gate the attack was written for:
\* none is accepted, and one refused at all is refused there, whatever was dropped from
\* the window before the pause.
THEOREM AttacksHarmless == Spec => []LiveAttacksHarmless
<1>1. AttackInv => LiveAttacksHarmless
  <2> SUFFICES ASSUME AttackInv PROVE LiveAttacksHarmless
    OBVIOUS
  <2> USE DEF AttackInv
  <2>1. /\ half.from \in Nat /\ half.next \in Nat /\ half.next <= N
        /\ reader.next \in Nat /\ reader.next <= N
    BY AttackWindowAssumption
       DEF WindowInv, WindowTypes, ReaderInv, HalvesInv, ChainInv
  <2>2. ASSUME NEW w \in Workers PROVE job[w].index \in Indices \cup {-1}
    <3>1. CASE job[w].step = "idle"
      BY <3>1 DEF WindowInv, JobsInv, Idle
    <3>2. CASE job[w].step # "idle"
      <4>1. half.from <= job[w].index /\ job[w].index < half.next /\ job[w].index \in Int
        BY <3>2 DEF WindowInv, WindowTypes, JobsInv
      <4> QED
        BY <2>1, <4>1, AttackWindowAssumption DEF Indices
    <3> QED
      BY <3>1, <3>2
  <2>3. reader.ahead \subseteq 0..(reader.next - 1)
    <3> SUFFICES ASSUME NEW i \in reader.ahead PROVE i \in 0..(reader.next - 1)
      OBVIOUS
    <3>1. PICK w \in Workers : job[w].step = "read" /\ job[w].index = i
      BY DEF WindowInv, ReaderInv, Awaited
    <3>2. i \in Int /\ half.from <= i /\ i < reader.next
      BY <3>1 DEF WindowInv, WindowTypes, JobsInv, ReaderInv
    <3> QED
      BY <2>1, <3>2
  <2>4. landed \subseteq Indices
    <3> SUFFICES ASSUME NEW i \in landed PROVE i \in Indices
      OBVIOUS
    <3>1. PICK j \in Indices : Ballot(i) = Ballot(j)
      BY DEF ChainInv, AttacksLeaveNoTrace
    <3>2. Ballot(i).nullifier = i /\ Ballot(j).nullifier = j
      BY DEF Ballot, Submission
    <3> QED
      BY <3>1, <3>2
  <2>5. TypeOK
    <3>1. /\ pc \in Stages \union {"first", "second", "window", "over"}
          /\ legacy \in BOOLEAN /\ cancelled \in BOOLEAN /\ expired \in BOOLEAN
          /\ closed \in BOOLEAN
          /\ Len(pause.queue) <= QueueCap /\ pause.ran \subseteq Scenarios
      BY DEF WindowInv, WindowTypes, PauseInv, ChainInv
    <3>2. /\ store \in {"whole", "missing", "torn"}
          /\ \A s \in Scenarios : results[s] # None => results[s].verdict \in Verdicts
      BY DEF RowsInv
    <3>3. reader.next \in 0..N
      BY <2>1, AttackWindowAssumption
    <3> QED
      BY <2>2, <2>3, <2>4, <3>1, <3>2, <3>3 DEF TypeOK
  <2> QED
    BY <2>5 DEF LiveAttacksHarmless, ChainInv, RowsInv
<1> QED
  BY <1>1, AttackInvariant, PTL

\* A pause that is not cancelled ends with no decision dropped, and unless its last
\* decision was to skip, with every attack of its stage mounted there (pauseForAttacks),
\* although saves of their verdicts may fail; and no later run of an attack, and no save
\* that fails without tearing the file, replaces the verdict of its pause
\* (mergeScenarioResults).
THEOREM DecisionsHonoured == Spec => DecisionsKept
<1> DEFINE Honoured ==
              pause.open /\ ~pause'.open /\ ~cancelled =>
                  /\ lost' = lost
                  /\ \/ pause.queue # << >> /\ Head(pause.queue) = "skip"
                     \/ \A s \in ScenariosForStage(pc) :
                          s \in pause.ran /\ (store = "whole" => staged(results[s]))
           Kept == store' # "torn" =>
                    \A s \in Scenarios : staged(results[s]) => staged(results'[s])
<1>1. ASSUME AttackInv, Next, pause.open, ~pause'.open, ~cancelled
      PROVE  /\ lost' = lost
             /\ \/ pause.queue # << >> /\ Head(pause.queue) = "skip"
                \/ \A s \in ScenariosForStage(pc) :
                     s \in pause.ran /\ (store = "whole" => staged(results[s]))
  <2> USE DEF AttackInv
  <2>0. \A l \in Seq(Decisions) : l \o << >> = l
    OBVIOUS
  <2>1. CASE RestDone
    <3>1. /\ pause.rest /\ pause.todo = {} /\ lost' = lost \o pause.queue
      BY <2>1 DEF RestDone, Resume
    <3>2. lost' = lost
      BY <1>1, <2>0, <3>1 DEF PauseInv
    <3>3. ScenariosForStage(pc) \subseteq pause.ran
      BY <1>1, <3>1 DEF PauseInv
    <3> QED
      BY <1>1, <3>2, <3>3 DEF PauseInv
  <2>2. CASE TakeDecision
    <3> DEFINE d == Head(pause.queue)
               q == [pause EXCEPT !.queue = Tail(@)]
    <3>1. /\ Holding /\ pause.queue # << >>
          /\ \/ d = "run-all" /\ pause' = RunRest(q)
             \/ d = "skip" /\ lost' = lost \o q.queue
             \/ pause' = [q EXCEPT !.todo = {d}]
      BY <2>2 DEF TakeDecision
    <3>2. q.queue = Tail(pause.queue) /\ q.open /\ RunRest(q).open /\ [q EXCEPT !.todo = {d}].open
      BY <1>1 DEF PauseInv, RunRest
    <3>3. d = "skip" /\ lost' = lost \o Tail(pause.queue)
      BY <1>1, <3>1, <3>2
    <3>4. Tail(pause.queue) = << >>
      BY <1>1, <3>1, <3>3, LastDecision
    <3> QED
      BY <1>1, <2>0, <3>1, <3>3, <3>4 DEF PauseInv
  <2>3. CASE Cancelled
    BY <1>1, <2>3 DEF Cancelled
  <2>4. CASE Timeout
    <3>1. /\ [pause EXCEPT !.timer = FALSE].open /\ RunRest([pause EXCEPT !.closed = TRUE]).open
      BY <1>1 DEF PauseInv, RunRest
    <3> QED
      BY <1>1, <2>4, <3>1 DEF Timeout
  <2>5. CASE MountNext
    BY <1>1, <2>5, MountNextKeeps
  <2>6. CASE Decide
    <3>1. PICK d : pause' = [pause EXCEPT !.queue = Append(@, d),
                                         !.closed = @ \/ d \in {"run-all", "skip"}]
      BY <2>6 DEF Decide, DecidePause
    <3> QED
      BY <1>1, <3>1 DEF PauseInv
  <2>7. CASE GoOn \/ FirstHalfEnds \/ SecondHalfEnds
    BY <1>1, <2>7 DEF GoOn, FirstHalfEnds, SecondHalfEnds, PauseInv, Stages
  <2>8. CASE \/ WorkerStep \/ StopDispatch \/ (\E w \in Workers : SubmitFails(w))
             \/ Cancel \/ Expire \/ \E s \in Scenarios : RunStagedAttack(s)
    <3>1. pause' = pause
      BY <2>8 DEF WorkerStep, Dispatch, ReadLine, Submit, StopDispatch, SubmitFails, Cancel,
                  Expire, RunStagedAttack
    <3> QED
      BY <1>1, <3>1
  <2> QED
    BY <1>1, <2>1, <2>2, <2>3, <2>4, <2>5, <2>6, <2>7, <2>8 DEF Next, LifecycleStep
<1>2. AttackInv /\ [Next]_vars => [Honoured /\ Kept]_vars
  BY <1>1, AttackStep DEF AttackInv
<1>3. Spec => [][Honoured /\ Kept]_vars
  BY <1>2, AttackInvariant, PTL DEF Spec
<1>4. [][Honoured /\ Kept]_vars => [][Honoured]_vars /\ [][Kept]_vars
  BY PTL
<1> QED
  BY <1>3, <1>4 DEF DecisionsKept, PauseHonoured, StagedVerdictKept

=============================================================================
