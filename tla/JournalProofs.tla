---------------------------- MODULE JournalProofs ----------------------------
(***************************************************************************)
(* Proofs about the run journal, for any number of goroutines stamping     *)
(* progress and other events, and any capacity of the progress queue.      *)
(***************************************************************************)
EXTENDS Journal, TLAPS, FiniteSetTheorems

-----------------------------------------------------------------------------
(* The inductive invariant.                                                  *)

\* A dispatcher in the middle of stampProgress, and the last of its lines that it has
\* disposed of: queued, or coalesced away.
InFlightPlaces == {"load", "send", "pop", "resend"}
Busy == {d \in Dispatchers : disp[d].at \in InFlightPlaces}
Handed(d) == IF disp[d].at \in InFlightPlaces THEN disp[d].n - 1 ELSE disp[d].n

\* The lines on their way to the disk.
Queued == {queue[i] : i \in 1..Len(queue)}
Writing == writer.at = "write"
OnTheWay == Queued \cup (IF Writing THEN {writer.hand} ELSE {})

Ids == Dispatchers \X Nat
ProgressLines == [by : Dispatchers, n : Nat, total : Nat, owed : {{}}]
Lines == [by : Dispatchers \cup Procs, n : Nat, total : Nat, owed : SUBSET Ids]

StopPlaces == {"offerStop", "waitStop", "passedStop", "closed"}
Places == {"idle", "offer", "wait", "passed"} \cup StopPlaces

\* Every variable has its shape.
Shapes ==
    /\ queue \in Seq(ProgressLines) /\ disk \in Seq(Lines)
    /\ coalesced \in Nat /\ stamped \in Nat /\ failed \in BOOLEAN /\ open \in BOOLEAN
    /\ writer \in [at : {"poll", "select", "drain", "write", "stopping", "retired"},
                   hand : ProgressLines \cup {<< >>}, back : {"poll", "drain"},
                   serves : Procs]
    /\ Writing => writer.hand \in ProgressLines
    /\ disp \in [Dispatchers -> [at : InFlightPlaces \cup {"run", "done"}, n : Nat, total : Nat]]
    /\ pc \in [Procs -> Places] /\ owed \in [Procs -> SUBSET Ids]
    /\ stamps \in [Procs -> Nat] /\ winErr \in {"unread", "nil", "error"}

\* The life of the window: its closing event is stamped after the dispatchers are done,
\* has passed its barrier before the error is read, and only then is the journal closed
\* and its writer retired.
Flow ==
    /\ writer.at = "drain" \/ (Writing /\ writer.back = "drain") =>
        pc[writer.serves] \in {"wait", "waitStop"}
    /\ \A p \in Procs : pc[p] \in StopPlaces => p = Main
    /\ pc[Main] \in StopPlaces => winErr # "unread"
    /\ winErr # "unread" => stamps[Main] = 1 /\ pc[Main] \in StopPlaces \cup {"idle"}
    /\ stamps[Main] \in {0, 1} /\ (stamps[Main] = 0 => pc[Main] = "idle")
    /\ stamps[Main] = 1 => \A d \in Dispatchers : disp[d].at = "done"
    /\ stamps[Main] = 1 /\ pc[Main] \notin {"offer", "wait"} => OnTheWay = {}
    /\ writer.at \in {"stopping", "retired"} => pc[Main] \in {"passedStop", "closed"}
    /\ \A p \in Procs : pc[p] \in {"offer", "wait", "passed"} => stamps[p] >= 1
    /\ \A p \in Stampers : stamps[p] <= MaxStamps

\* The numbers of the dispatchers' lines: two of them cannot have stamped more than all,
\* so the one whose number is the total is the only one that stamped.
Numbers ==
    /\ stamped <= MaxProgress /\ Len(queue) <= QueueCap
    /\ \A d \in Dispatchers :
        /\ disp[d].n <= stamped /\ disp[d].total <= coalesced
        /\ disp[d].at \in InFlightPlaces => disp[d].n >= 1
        /\ disp[d].n = stamped /\ disp[d].at \in {"send", "pop", "resend"} =>
            disp[d].total = coalesced
    /\ \A d, e \in Dispatchers : d # e => disp[d].n + disp[e].n <= stamped

\* A line on its way was handed over, and says how many were coalesced if it is the
\* newest.
WayInv ==
    \A l \in OnTheWay :
        /\ l.n >= 1 /\ l.n <= Handed(l.by) /\ l.total <= coalesced
        /\ l.n = stamped => l.total = coalesced

\* Lines of one dispatcher are in order, on the way and on the disk.
OrderInv ==
    /\ \A i, j \in 1..Len(queue) :
        i < j /\ queue[i].by = queue[j].by => queue[i].n < queue[j].n
    /\ Writing => \A i \in 1..Len(queue) :
        queue[i].by = writer.hand.by => writer.hand.n < queue[i].n
    /\ \A i \in 1..Len(disk) : \A l \in OnTheWay : disk[i].by = l.by => disk[i].n < l.n

\* The lines that a stamp owes were handed over when it began; once it has passed the
\* barrier none of them is on its way any more, and none ever is after its own line.
OwedInv ==
    /\ \A p \in Procs : \A d \in Dispatchers, k \in Nat : <<d, k>> \in owed[p] => k <= Handed(d)
    /\ \A i \in 1..Len(disk) : \A d \in Dispatchers, k \in Nat :
        <<d, k>> \in disk[i].owed => k <= Handed(d)
    /\ \A p \in Procs : pc[p] = "passed" => \A l \in OnTheWay : Id(l) \notin owed[p]
    /\ \A i \in 1..Len(disk) : \A l \in OnTheWay : Id(l) \notin disk[i].owed

\* The lines on the disk.
DiskInv ==
    /\ \A i \in 1..Len(disk) : LineOK(disk[i])
    /\ \A i \in 1..Len(disk) : disk[i].by \in Dispatchers => disk[i].n <= Handed(disk[i].by)
    /\ ClosingFollowsProgress
    /\ NewestAccountsForGaps

JournalInv ==
    /\ Shapes /\ Flow /\ Numbers /\ WayInv /\ OrderInv /\ OwedInv /\ DiskInv
    /\ LossCounted /\ WindowErrComplete


-----------------------------------------------------------------------------
(* Lines on the way and on the disk.                                         *)

\* The shapes at hand.
LEMMA ShapesOf ==
    ASSUME JournalInv
    PROVE  /\ queue \in Seq(ProgressLines) /\ disk \in Seq(Lines)
           /\ coalesced \in Nat /\ stamped \in Nat /\ failed \in BOOLEAN /\ open \in BOOLEAN
           /\ writer.at \in {"poll", "select", "drain", "write", "stopping", "retired"}
           /\ writer.back \in {"poll", "drain"} /\ writer.serves \in Procs
           /\ Writing => writer.hand \in ProgressLines
           /\ disp \in [Dispatchers -> [at : InFlightPlaces \cup {"run", "done"},
                                        n : Nat, total : Nat]]
           /\ pc \in [Procs -> Places] /\ owed \in [Procs -> SUBSET Ids]
           /\ stamps \in [Procs -> Nat] /\ winErr \in {"unread", "nil", "error"}
BY DEF JournalInv, Shapes

\* Who stamps what: the window's own goroutine is one of those that stamp events, and
\* none of them stamps progress.
LEMMA Apart == Main \in Procs /\ Procs \cap Dispatchers = {} /\ IsFiniteSet(Dispatchers)
BY JournalAssumption DEF Procs

\* A line joins the queue.
LEMMA WayAppend ==
    ASSUME queue \in Seq(ProgressLines), NEW l \in ProgressLines,
           queue' = Append(queue, l), writer' = writer
    PROVE  /\ queue' \in Seq(ProgressLines) /\ Len(queue') = Len(queue) + 1
           /\ \A i \in 1..Len(queue) : queue'[i] = queue[i]
           /\ queue'[Len(queue) + 1] = l
           /\ OnTheWay' = OnTheWay \cup {l}
<1>1. /\ queue' \in Seq(ProgressLines) /\ Len(queue') = Len(queue) + 1 /\ Len(queue) \in Nat
      /\ \A i \in 1..Len(queue) : queue'[i] = queue[i]
      /\ queue'[Len(queue) + 1] = l
  OBVIOUS
<1>2. Queued' = Queued \cup {l}
  BY <1>1 DEF Queued
<1> QED
  BY <1>1, <1>2 DEF OnTheWay, Writing

\* The oldest line leaves the queue.
LEMMA QueueTail ==
    ASSUME queue \in Seq(ProgressLines), queue # << >>, queue' = Tail(queue)
    PROVE  /\ queue' \in Seq(ProgressLines) /\ Len(queue') = Len(queue) - 1
           /\ Len(queue) \in Nat \ {0}
           /\ \A i \in 1..Len(queue') : queue'[i] = queue[i + 1] /\ i + 1 \in 1..Len(queue)
           /\ Head(queue) = queue[1] /\ Head(queue) \in ProgressLines
           /\ Queued = Queued' \cup {Head(queue)}
<1>1. /\ queue' \in Seq(ProgressLines) /\ Len(queue') = Len(queue) - 1
      /\ Len(queue) \in Nat \ {0}
      /\ \A i \in 1..Len(queue') : queue'[i] = queue[i + 1] /\ i + 1 \in 1..Len(queue)
      /\ Head(queue) = queue[1] /\ Head(queue) \in ProgressLines
  OBVIOUS
<1>2. Queued \subseteq Queued' \cup {Head(queue)}
  <2> SUFFICES ASSUME NEW i \in 1..Len(queue), i # 1 PROVE queue[i] \in Queued'
    BY <1>1 DEF Queued
  <2>1. i - 1 \in 1..Len(queue') /\ queue'[i - 1] = queue[i]
    BY <1>1
  <2> QED
    BY <2>1 DEF Queued
<1>3. Queued' \cup {Head(queue)} \subseteq Queued
  BY <1>1 DEF Queued
<1> QED
  BY <1>1, <1>2, <1>3

\* Nothing is on the way exactly when the queue is empty and the writer has no line in
\* hand.
LEMMA WayEmpty ==
    ASSUME queue \in Seq(ProgressLines)
    PROVE  OnTheWay = {} <=> queue = << >> /\ ~Writing
<1>1. queue # << >> => Len(queue) \in Nat \ {0} /\ 1 \in 1..Len(queue)
  OBVIOUS
<1>2. queue = << >> => Len(queue) = 0
  OBVIOUS
<1> QED
  BY <1>1, <1>2 DEF OnTheWay, Queued

\* The lines on the way are the handed over ones of Stamp.
LEMMA WayIds ==
    ASSUME queue \in Seq(ProgressLines)
    PROVE  HandedOver = {Id(l) : l \in OnTheWay}
<1>1. DOMAIN queue = 1..Len(queue)
  OBVIOUS
<1> QED
  BY <1>1 DEF HandedOver, OnTheWay, Queued, Writing

\* The lines on the way are progress lines, which owe nothing.
LEMMA WayLines ==
    ASSUME JournalInv, NEW l \in OnTheWay
    PROVE  /\ l \in ProgressLines /\ l.by \in Dispatchers /\ l.n \in Nat /\ l.total \in Nat
           /\ l.owed = {}
<1>1. l \in ProgressLines
  BY ShapesOf DEF OnTheWay, Queued
<1> QED
  BY <1>1 DEF ProgressLines

\* A line is added to the disk.
LEMMA DiskAppend ==
    ASSUME disk \in Seq(Lines), NEW l \in Lines, disk' = Append(disk, l)
    PROVE  /\ disk' \in Seq(Lines) /\ Len(disk') = Len(disk) + 1 /\ Len(disk) \in Nat
           /\ \A i \in 1..Len(disk) : disk'[i] = disk[i]
           /\ disk'[Len(disk) + 1] = l
           /\ l.by \in Dispatchers =>
                /\ ProgressOnDisk' = ProgressOnDisk \cup {Len(disk) + 1}
                /\ Cardinality(ProgressOnDisk') = Cardinality(ProgressOnDisk) + 1
           /\ l.by \notin Dispatchers => ProgressOnDisk' = ProgressOnDisk
<1>1. /\ disk' \in Seq(Lines) /\ Len(disk') = Len(disk) + 1 /\ Len(disk) \in Nat
      /\ \A i \in 1..Len(disk) : disk'[i] = disk[i]
      /\ disk'[Len(disk) + 1] = l
      /\ DOMAIN disk = 1..Len(disk) /\ DOMAIN disk' = 1..(Len(disk) + 1)
  OBVIOUS
<1>2. l.by \in Dispatchers => ProgressOnDisk' = ProgressOnDisk \cup {Len(disk) + 1}
  BY <1>1 DEF ProgressOnDisk
<1>3. l.by \notin Dispatchers => ProgressOnDisk' = ProgressOnDisk
  BY <1>1 DEF ProgressOnDisk
<1>4. IsFiniteSet(ProgressOnDisk) /\ Len(disk) + 1 \notin ProgressOnDisk
  <2>1. IsFiniteSet(1..Len(disk))
    BY <1>1, FS_Interval
  <2>2. ProgressOnDisk \subseteq 1..Len(disk)
    BY <1>1 DEF ProgressOnDisk
  <2>3. Len(disk) + 1 \notin 1..Len(disk)
    BY <1>1
  <2> QED
    BY <2>1, <2>2, <2>3, FS_Subset
<1>5. Cardinality(ProgressOnDisk \cup {Len(disk) + 1}) = Cardinality(ProgressOnDisk) + 1
  BY <1>4, FS_AddElement
<1> QED
  BY <1>1, <1>2, <1>3, <1>5

\* The counts of what is on the disk and of the dispatchers at work are numbers.
LEMMA Counts ==
    ASSUME JournalInv
    PROVE  /\ Cardinality(ProgressOnDisk) \in Nat /\ Cardinality(Busy) \in Nat
           /\ IsFiniteSet(Busy) /\ Len(queue) \in Nat
           /\ InFlight = Len(queue) + (IF Writing THEN 1 ELSE 0) + Cardinality(Busy)
           /\ DOMAIN disk = 1..Len(disk) /\ DOMAIN queue = 1..Len(queue)
<1>1. /\ Len(disk) \in Nat /\ DOMAIN disk = 1..Len(disk)
      /\ Len(queue) \in Nat /\ DOMAIN queue = 1..Len(queue)
  BY ShapesOf
<1>2. IsFiniteSet(1..Len(disk)) /\ ProgressOnDisk \subseteq 1..Len(disk)
  BY <1>1, FS_Interval DEF ProgressOnDisk
<1>3. IsFiniteSet(ProgressOnDisk) /\ IsFiniteSet(Busy)
  BY <1>2, Apart, FS_Subset DEF Busy
<1> QED
  BY <1>1, <1>3, FS_CardinalityType DEF InFlight, Busy, InFlightPlaces, Writing

\* A dispatcher starts, goes on or ends.
LEMMA BusyChange ==
    ASSUME JournalInv, NEW d \in Dispatchers,
           \A e \in Dispatchers \ {d} : disp'[e] = disp[e]
    PROVE  /\ disp[d].at \notin InFlightPlaces /\ disp'[d].at \in InFlightPlaces =>
                Cardinality(Busy') = Cardinality(Busy) + 1
           /\ disp[d].at \in InFlightPlaces /\ disp'[d].at \notin InFlightPlaces =>
                Cardinality(Busy') = Cardinality(Busy) - 1
           /\ (disp[d].at \in InFlightPlaces <=> disp'[d].at \in InFlightPlaces) =>
                Busy' = Busy
<1>1. CASE disp[d].at \notin InFlightPlaces /\ disp'[d].at \in InFlightPlaces
  <2>1. Busy' = Busy \cup {d} /\ d \notin Busy
    BY <1>1 DEF Busy
  <2> QED
    BY <1>1, <2>1, Counts, FS_AddElement
<1>2. CASE disp[d].at \in InFlightPlaces /\ disp'[d].at \notin InFlightPlaces
  <2>1. Busy' = Busy \ {d} /\ d \in Busy
    BY <1>2 DEF Busy
  <2> QED
    BY <1>2, <2>1, Counts, FS_RemoveElement
<1>3. CASE disp[d].at \in InFlightPlaces <=> disp'[d].at \in InFlightPlaces
  <2>1. Busy' = Busy
    BY <1>3 DEF Busy
  <2> QED
    BY <1>3, <2>1
<1> QED
  BY <1>1, <1>2, <1>3


-----------------------------------------------------------------------------
(* The dispatchers.                                                          *)

\* What a step inside stampProgress may do: its dispatcher moves and nobody else does,
\* at most one line enters or leaves the queue, and every line stays accounted for.
DispatcherStep(d) ==
    /\ UNCHANGED <<disk, failed, open, writer, pc, owed, stamps, winErr>>
    /\ disp' \in [Dispatchers -> [at : InFlightPlaces \cup {"run", "done"}, n : Nat, total : Nat]]
    /\ \A e \in Dispatchers \ {d} : disp'[e] = disp[e]
    /\ disp[d].at # "done"
    /\ \/ queue' = queue
       \/ queue # << >> /\ queue' = Tail(queue)
       \/ /\ disp[d].at \in {"send", "resend"} /\ disp'[d].at = "run"
          /\ Len(queue) < QueueCap /\ Enqueue(d) /\ UNCHANGED coalesced
    /\ \/ stamped' = stamped /\ disp'[d].n = disp[d].n
       \/ /\ stamped' = stamped + 1 /\ disp'[d].n = disp[d].n + 1 /\ stamped < MaxProgress
          /\ disp[d].at = "run" /\ disp'[d].at = "load"
    /\ disp'[d].at \in InFlightPlaces =>
        disp[d].at \in InFlightPlaces \/ stamped' = stamped + 1
    /\ \/ coalesced' = coalesced
       \/ coalesced' = coalesced + 1 /\ disp[d].at \in {"pop", "resend"}
    /\ disp'[d].total <= coalesced'
    /\ disp'[d].at \in {"send", "pop", "resend"} =>
        \/ disp'[d].total = coalesced'
        \/ /\ disp[d].at \in {"send", "pop"} /\ UNCHANGED coalesced
           /\ disp'[d].total = disp[d].total
    /\ stamped' + Len(queue) + coalesced + Cardinality(Busy)
        = stamped + Len(queue') + coalesced' + Cardinality(Busy')

\* Such a step keeps the invariant.
LEMMA DispatcherKeeps ==
    ASSUME JournalInv, NEW d \in Dispatchers, DispatcherStep(d)
    PROVE  JournalInv'
<1> DEFINE l == Line(d, disp[d].n, disp[d].total, {})
<1>1. /\ UNCHANGED <<disk, failed, open, writer, pc, owed, stamps, winErr>>
      /\ Writing' = Writing /\ ProgressOnDisk' = ProgressOnDisk
      /\ coalesced' \in Nat /\ coalesced' >= coalesced /\ coalesced \in Nat
      /\ stamped' \in Nat /\ stamped' >= stamped /\ stamped \in Nat
  BY ShapesOf DEF DispatcherStep, Writing, ProgressOnDisk
<1>2. /\ \A e \in Dispatchers : disp[e].n \in Nat /\ disp[e].total \in Nat
      /\ \A e \in Dispatchers : disp'[e].n \in Nat /\ disp'[e].total \in Nat
      /\ \A e \in Dispatchers \ {d} : disp'[e] = disp[e]
  BY ShapesOf DEF DispatcherStep
<1>3. stamps[Main] = 0 /\ pc[Main] = "idle" /\ winErr = "unread"
  BY DEF DispatcherStep, JournalInv, Flow
<1>4. /\ l \in ProgressLines /\ l.by = d /\ l.n = disp[d].n /\ l.total = disp[d].total
      /\ l.owed = {} /\ Id(l) = <<d, disp[d].n>>
  BY <1>2 DEF Line, ProgressLines, Id
<1>5. /\ queue' \in Seq(ProgressLines) /\ Len(queue') <= QueueCap
      /\ \/ OnTheWay' \subseteq OnTheWay
         \/ /\ OnTheWay' = OnTheWay \cup {l} /\ disp[d].at \in {"send", "resend"}
            /\ disp'[d].at = "run" /\ coalesced' = coalesced
      /\ OrderInv'
  <2>a. /\ queue \in Seq(ProgressLines) /\ Len(queue) \in Nat /\ Len(queue) <= QueueCap
        /\ QueueCap \in Nat
    BY ShapesOf, JournalAssumption DEF JournalInv, Numbers
  <2>b. Writing' = Writing /\ disk' = disk /\ writer' = writer
    BY <1>1
  <2>1. CASE queue' = queue
    <3>1. OnTheWay' = OnTheWay
      BY <2>b, <2>1 DEF OnTheWay, Queued
    <3> QED
      BY <2>a, <2>b, <2>1, <3>1 DEF JournalInv, OrderInv
  <2>2. CASE queue # << >> /\ queue' = Tail(queue)
    <3>1. /\ queue' \in Seq(ProgressLines) /\ Len(queue') = Len(queue) - 1
          /\ \A i \in 1..Len(queue') : queue'[i] = queue[i + 1] /\ i + 1 \in 1..Len(queue)
          /\ Queued' \subseteq Queued /\ Len(queue') \in Nat
      BY <2>a, <2>2, QueueTail
    <3>2. OnTheWay' \subseteq OnTheWay
      BY <2>b, <3>1 DEF OnTheWay
    <3>3. \A i, j \in 1..Len(queue') :
            i < j /\ queue'[i].by = queue'[j].by => queue'[i].n < queue'[j].n
      <4> TAKE i, j \in 1..Len(queue')
      <4>1. /\ i + 1 \in 1..Len(queue) /\ j + 1 \in 1..Len(queue) /\ (i < j => i + 1 < j + 1)
            /\ queue'[i] = queue[i + 1] /\ queue'[j] = queue[j + 1]
        BY <3>1
      <4> QED
        BY <4>1 DEF JournalInv, OrderInv
    <3>4. Writing => \A i \in 1..Len(queue') :
            queue'[i].by = writer.hand.by => writer.hand.n < queue'[i].n
      BY <3>1 DEF JournalInv, OrderInv
    <3>5. OrderInv'
      BY <2>b, <3>2, <3>3, <3>4 DEF JournalInv, OrderInv
    <3> QED
      BY <2>a, <3>1, <3>2, <3>5
  <2>3. CASE /\ disp[d].at \in {"send", "resend"} /\ disp'[d].at = "run"
             /\ Len(queue) < QueueCap /\ Enqueue(d) /\ UNCHANGED coalesced
    <3>0. queue' = Append(queue, l)
      BY <2>3 DEF Enqueue
    <3>h. Handed(d) = disp[d].n - 1
      BY <2>3 DEF Handed, InFlightPlaces
    <3> HIDE DEF l
    <3>1. /\ queue' \in Seq(ProgressLines) /\ Len(queue') = Len(queue) + 1
          /\ \A i \in 1..Len(queue) : queue'[i] = queue[i]
          /\ queue'[Len(queue) + 1] = l
          /\ OnTheWay' = OnTheWay \cup {l}
      BY <1>4, <2>a, <2>b, <3>0, WayAppend
    <3>2. /\ \A i \in 1..Len(queue) : queue[i] \in OnTheWay
          /\ Writing => writer.hand \in OnTheWay
      BY DEF OnTheWay, Queued
    <3>3. \A k \in OnTheWay : k.by = d => k.n < l.n
      <4> TAKE k \in OnTheWay
      <4>1. k \in ProgressLines
        BY ShapesOf DEF OnTheWay, Queued
      <4> QED
        BY <1>2, <1>4, <3>h, <4>1 DEF JournalInv, WayInv, ProgressLines
    <3>4. \A i, j \in 1..Len(queue') :
            i < j /\ queue'[i].by = queue'[j].by => queue'[i].n < queue'[j].n
      <4> TAKE i, j \in 1..Len(queue')
      <4>1. CASE j \in 1..Len(queue) /\ i < j
        <5>1. i \in 1..Len(queue) /\ queue'[i] = queue[i] /\ queue'[j] = queue[j]
          BY <2>a, <3>1, <4>1
        <5> QED
          BY <4>1, <5>1 DEF JournalInv, OrderInv
      <4>2. CASE j \notin 1..Len(queue) /\ i < j
        <5>1. i \in 1..Len(queue) /\ queue'[i] = queue[i] /\ queue'[j] = l
          BY <2>a, <3>1, <4>2
        <5> QED
          BY <1>4, <3>2, <3>3, <5>1
      <4> QED
        BY <4>1, <4>2
    <3>5. Writing => \A i \in 1..Len(queue') :
            queue'[i].by = writer.hand.by => writer.hand.n < queue'[i].n
      <4> SUFFICES ASSUME Writing, NEW i \in 1..Len(queue'), queue'[i].by = writer.hand.by
                   PROVE  writer.hand.n < queue'[i].n
        OBVIOUS
      <4>1. CASE i \in 1..Len(queue)
        BY <3>1, <4>1 DEF JournalInv, OrderInv
      <4>2. CASE i \notin 1..Len(queue)
        <5>1. queue'[i] = l
          BY <2>a, <3>1, <4>2
        <5> QED
          BY <1>4, <3>2, <3>3, <5>1
      <4> QED
        BY <4>1, <4>2
    <3>6. \A i \in 1..Len(disk) : disk[i].by = d => disk[i].n < l.n
      <4> TAKE i \in 1..Len(disk)
      <4>0. disk[i] \in Lines
        BY ShapesOf
      <4>1. disk[i].n \in Nat /\ (disk[i].by = d => disk[i].n <= Handed(d))
        BY <4>0 DEF JournalInv, DiskInv, Lines
      <4> QED
        BY <1>2, <1>4, <3>h, <4>1
    <3>7. OrderInv'
      BY <1>4, <2>b, <3>1, <3>4, <3>5, <3>6 DEF JournalInv, OrderInv
    <3> QED
      BY <2>a, <2>3, <3>1, <3>7
  <2> QED
    BY <2>1, <2>2, <2>3 DEF DispatcherStep
<1> HIDE DEF l
<1>s. /\ \/ stamped' = stamped /\ disp'[d].n = disp[d].n
         \/ /\ stamped' = stamped + 1 /\ disp'[d].n = disp[d].n + 1 /\ stamped < MaxProgress
            /\ disp[d].at = "run" /\ disp'[d].at = "load"
      /\ disp'[d].at \in InFlightPlaces =>
            disp[d].at \in InFlightPlaces \/ stamped' = stamped + 1
      /\ disp'[d].total <= coalesced'
  BY DEF DispatcherStep
<1>6. \A e \in Dispatchers : Handed(e)' >= Handed(e)
  <2> TAKE e \in Dispatchers
  <2>1. CASE e # d
    BY <1>2, <2>1 DEF Handed
  <2>2. CASE e = d
    BY <1>1, <1>2, <1>s, <2>2 DEF Handed, InFlightPlaces
  <2> QED
    BY <2>1, <2>2
<1>h. \A e \in Dispatchers : Handed(e) \in Int /\ Handed(e)' \in Int /\ Handed(e) <= disp[e].n
  BY <1>2 DEF Handed
<1>7. Shapes'
  BY <1>1, <1>5 DEF Shapes, JournalInv, DispatcherStep
<1>8. Flow'
  BY <1>1, <1>3 DEF Flow, JournalInv
<1>9. Numbers'
  <2>1. stamped' <= MaxProgress
    <3>1. stamped <= MaxProgress
      BY DEF JournalInv, Numbers
    <3> QED
      BY <1>1, <1>s, <3>1, JournalAssumption
  <2>2. \A e \in Dispatchers : disp'[e].n <= stamped' /\ disp'[e].total <= coalesced'
    <3> TAKE e \in Dispatchers
    <3>1. disp[e].n <= stamped /\ disp[e].total <= coalesced
      BY DEF JournalInv, Numbers
    <3> QED
      BY <1>1, <1>2, <1>s, <3>1
  <2>3. \A e \in Dispatchers : disp'[e].at \in InFlightPlaces => disp'[e].n >= 1
    <3> TAKE e \in Dispatchers
    <3>1. disp[e].at \in InFlightPlaces => disp[e].n >= 1
      BY DEF JournalInv, Numbers
    <3> QED
      BY <1>1, <1>2, <1>s, <3>1
  <2>4. \A e \in Dispatchers :
          disp'[e].n = stamped' /\ disp'[e].at \in {"send", "pop", "resend"} =>
            disp'[e].total = coalesced'
    <3> SUFFICES ASSUME NEW e \in Dispatchers, disp'[e].n = stamped',
                        disp'[e].at \in {"send", "pop", "resend"}
                 PROVE  disp'[e].total = coalesced'
      OBVIOUS
    <3>1. CASE e = d
      <4>1. stamped' = stamped /\ disp'[d].n = disp[d].n
        BY <3>1 DEF DispatcherStep
      <4> QED
        BY <3>1, <4>1 DEF DispatcherStep, JournalInv, Numbers
    <3>2. CASE e # d
      <4>1. disp'[e] = disp[e] /\ disp[e].n <= stamped /\ disp[e].n + disp[d].n <= stamped
        BY <1>2, <3>2 DEF JournalInv, Numbers
      <4>2. stamped' = stamped /\ disp[e].n = stamped /\ disp[d].n = 0
        BY <1>1, <1>2, <4>1
      <4>3. disp[d].at \notin InFlightPlaces
        BY <4>2 DEF JournalInv, Numbers
      <4>4. coalesced' = coalesced
        BY <4>3 DEF DispatcherStep, InFlightPlaces
      <4> QED
        BY <4>1, <4>2, <4>4 DEF JournalInv, Numbers
    <3> QED
      BY <3>1, <3>2
  <2>5. \A e, f \in Dispatchers : e # f => disp'[e].n + disp'[f].n <= stamped'
    <3> SUFFICES ASSUME NEW e \in Dispatchers, NEW f \in Dispatchers, e # f
                 PROVE  disp'[e].n + disp'[f].n <= stamped'
      OBVIOUS
    <3>1. disp[e].n + disp[f].n <= stamped
      BY DEF JournalInv, Numbers
    <3>2. /\ e # d => disp'[e] = disp[e]
          /\ f # d => disp'[f] = disp[f]
      BY <1>2
    <3>3. \/ stamped' = stamped /\ disp'[d].n = disp[d].n
          \/ stamped' = stamped + 1 /\ disp'[d].n = disp[d].n + 1
      BY DEF DispatcherStep
    <3> QED
      BY <1>1, <1>2, <3>1, <3>2, <3>3
  <2> QED
    BY <1>5, <2>1, <2>2, <2>3, <2>4, <2>5 DEF Numbers
<1>10. WayInv'
  <2> SUFFICES ASSUME NEW k \in OnTheWay'
               PROVE  /\ k.n >= 1 /\ k.n <= Handed(k.by)' /\ k.total <= coalesced'
                      /\ k.n = stamped' => k.total = coalesced'
    BY DEF WayInv
  <2>1. CASE k \in OnTheWay
    <3>1. k \in ProgressLines
      BY <2>1, ShapesOf DEF OnTheWay, Queued
    <3>2. k.by \in Dispatchers /\ k.n \in Nat /\ k.total \in Nat
      BY <3>1 DEF ProgressLines
    <3>3. /\ k.n >= 1 /\ k.n <= Handed(k.by) /\ k.total <= coalesced
          /\ k.n = stamped => k.total = coalesced
          /\ disp[k.by].n <= stamped
      BY <2>1, <3>2 DEF JournalInv, WayInv, Numbers
    <3>4. k.n <= Handed(k.by)' /\ k.total <= coalesced' /\ k.n <= stamped
      BY <1>1, <1>2, <1>6, <1>h, <3>2, <3>3
    <3>5. k.n = stamped' => k.total = coalesced'
      <4> SUFFICES ASSUME k.n = stamped' PROVE coalesced' = coalesced /\ stamped' = stamped
        BY <3>3
      <4>1. stamped' = stamped /\ disp[k.by].n = stamped /\ Handed(k.by) = disp[k.by].n
        BY <1>1, <1>2, <1>h, <3>2, <3>3, <3>4
      <4>2. CASE k.by = d
        <5>1. disp[d].at \notin InFlightPlaces
          BY <1>2, <4>1, <4>2 DEF Handed
        <5> QED
          BY <4>1, <5>1 DEF DispatcherStep, InFlightPlaces
      <4>3. CASE k.by # d
        <5>1. disp[d].n + disp[k.by].n <= stamped
          BY <3>2, <4>3 DEF JournalInv, Numbers
        <5>2. disp[d].n = 0
          BY <1>1, <1>2, <4>1, <5>1
        <5>3. disp[d].at \notin InFlightPlaces
          BY <5>2 DEF JournalInv, Numbers
        <5> QED
          BY <4>1, <5>3 DEF DispatcherStep, InFlightPlaces
      <4> QED
        BY <4>2, <4>3
    <3> QED
      BY <3>3, <3>4, <3>5
  <2>2. CASE k = l /\ disp[d].at \in {"send", "resend"} /\ disp'[d].at = "run"
             /\ coalesced' = coalesced
    <3>1. /\ disp[d].n >= 1 /\ disp[d].total <= coalesced
          /\ disp[d].n = stamped => disp[d].total = coalesced
      BY <2>2 DEF JournalInv, Numbers, InFlightPlaces
    <3>2. stamped' = stamped /\ disp'[d].n = disp[d].n
      BY <2>2 DEF DispatcherStep
    <3>3. Handed(d)' = disp[d].n
      BY <2>2, <3>2 DEF Handed, InFlightPlaces
    <3> QED
      BY <1>2, <1>4, <2>2, <3>1, <3>2, <3>3
  <2> QED
    BY <1>5, <2>1, <2>2
<1>11. OwedInv'
  <2>1. \A p \in Procs : \A e \in Dispatchers, k \in Nat :
          <<e, k>> \in owed[p] => k <= Handed(e) /\ k <= Handed(e)'
    BY <1>6, <1>h DEF JournalInv, OwedInv
  <2>2. \A i \in 1..Len(disk) : \A e \in Dispatchers, k \in Nat :
          <<e, k>> \in disk[i].owed => k <= Handed(e) /\ k <= Handed(e)'
    BY <1>6, <1>h DEF JournalInv, OwedInv
  <2>3. disp[d].at \in {"send", "resend"} => Handed(d) = disp[d].n - 1
    BY DEF Handed, InFlightPlaces
  <2>4. disp[d].at \in {"send", "resend"} =>
          /\ \A p \in Procs : Id(l) \notin owed[p]
          /\ \A i \in 1..Len(disk) : Id(l) \notin disk[i].owed
    BY <1>2, <1>4, <2>1, <2>2, <2>3
  <2>5. \A p \in Procs : pc[p] = "passed" => \A k \in OnTheWay' : Id(k) \notin owed[p]
    BY <1>5, <2>4 DEF JournalInv, OwedInv
  <2>6. \A i \in 1..Len(disk) : \A k \in OnTheWay' : Id(k) \notin disk[i].owed
    BY <1>5, <2>4 DEF JournalInv, OwedInv
  <2> QED
    BY <1>1, <2>1, <2>2, <2>5, <2>6 DEF OwedInv, Id
<1>12. DiskInv'
  <2>1. \A i \in 1..Len(disk) : disk[i] \in Lines
    BY ShapesOf
  <2>2. \A i \in 1..Len(disk) : LineOK(disk[i])'
    <3> TAKE i \in 1..Len(disk)
    <3>1. LineOK(disk[i]) /\ disk'[i] = disk[i]
      BY <1>1 DEF JournalInv, DiskInv
    <3> QED
      BY <1>1, <3>1 DEF LineOK
  <2>3. \A i \in 1..Len(disk) : disk[i].by \in Dispatchers =>
          disk[i].n <= Handed(disk[i].by) /\ disk[i].n <= Handed(disk[i].by)'
    <3> SUFFICES ASSUME NEW i \in 1..Len(disk), disk[i].by \in Dispatchers
                 PROVE  disk[i].n <= Handed(disk[i].by) /\ disk[i].n <= Handed(disk[i].by)'
      OBVIOUS
    <3>1. disk[i].n \in Nat /\ disk[i].n <= Handed(disk[i].by)
      BY <2>1 DEF JournalInv, DiskInv, Lines
    <3>2. PICK e \in Dispatchers : e = disk[i].by /\ e = disk'[i].by
      BY <1>1
    <3>3. disk[i].n <= Handed(e) /\ Handed(e)' >= Handed(e)
      BY <1>6, <3>1, <3>2
    <3>4. disk[i].n <= Handed(e)'
      BY <1>h, <3>1, <3>3
    <3> QED
      BY <3>1, <3>2, <3>4 DEF Handed
  <2>4. ClosingFollowsProgress'
    BY <1>1 DEF JournalInv, DiskInv, ClosingFollowsProgress, Id
  <2>5. NewestAccountsForGaps'
    <3> SUFFICES ASSUME NEW i \in ProgressOnDisk, disk[i].n = stamped'
                 PROVE  disk[i].n = Cardinality(ProgressOnDisk) + disk[i].total
      BY <1>1 DEF NewestAccountsForGaps
    <3>1. i \in 1..Len(disk) /\ disk[i].by \in Dispatchers
      BY Counts DEF ProgressOnDisk
    <3>2. disk[i].n <= Handed(disk[i].by) /\ disp[disk[i].by].n <= stamped /\ disk[i].n \in Nat
      BY <2>1, <2>3, <3>1 DEF JournalInv, Numbers, Lines
    <3>3. disk[i].n = stamped
      BY <1>1, <1>2, <1>h, <3>1, <3>2
    <3> QED
      BY <3>3 DEF JournalInv, DiskInv, NewestAccountsForGaps
  <2> QED
    BY <1>1, <2>2, <2>3, <2>4, <2>5 DEF DiskInv
<1>13. LossCounted'
  <2>1. /\ InFlight = Len(queue) + (IF Writing THEN 1 ELSE 0) + Cardinality(Busy)
        /\ InFlight' = Len(queue') + (IF Writing THEN 1 ELSE 0) + Cardinality(Busy')
    BY <1>1, Counts DEF InFlight, Busy, InFlightPlaces, Writing
  <2>2. /\ Len(queue) \in Nat /\ Len(queue') \in Nat /\ Cardinality(Busy) \in Nat
        /\ Cardinality(Busy') \in Nat /\ Cardinality(ProgressOnDisk) \in Nat
    <3>1. IsFiniteSet(Busy')
      BY Apart, FS_Subset DEF Busy
    <3> QED
      BY <1>5, <3>1, Counts, FS_CardinalityType
  <2>3. stamped' + Len(queue) + coalesced + Cardinality(Busy)
          = stamped + Len(queue') + coalesced' + Cardinality(Busy')
    BY DEF DispatcherStep
  <2>4. ~failed => stamped = Cardinality(ProgressOnDisk) + InFlight + coalesced
    BY DEF JournalInv, LossCounted
  <2>5. ~failed => stamped' = Cardinality(ProgressOnDisk) + InFlight' + coalesced'
    <3> DEFINE w == IF Writing THEN 1 ELSE 0
               p == Cardinality(ProgressOnDisk)
               q == Len(queue)
               q2 == Len(queue')
               b == Cardinality(Busy)
               b2 == Cardinality(Busy')
               s2 == stamped'
               c2 == coalesced'
    <3>1. /\ w \in Nat /\ p \in Nat /\ q \in Nat /\ q2 \in Nat /\ b \in Nat /\ b2 \in Nat
          /\ InFlight = q + w + b /\ InFlight' = q2 + w + b2
          /\ s2 + q + coalesced + b = stamped + q2 + c2 + b2
          /\ ~failed => stamped = p + InFlight + coalesced
      BY <2>1, <2>2, <2>3, <2>4
    <3>2. stamped \in Nat /\ s2 \in Nat /\ coalesced \in Nat /\ c2 \in Nat
      BY <1>1
    <3> HIDE DEF w, p, q, q2, b, b2, s2, c2
    <3>3. ~failed => s2 = p + (q2 + w + b2) + c2
      BY <3>1, <3>2
    <3> QED
      BY <3>1, <3>3 DEF p, s2, c2
  <2> QED
    BY <1>1, <2>5 DEF LossCounted
<1>14. WindowErrComplete'
  BY <1>1, <1>3 DEF WindowErrComplete
<1> QED
  BY <1>5, <1>7, <1>8, <1>9, <1>10, <1>11, <1>12, <1>13, <1>14 DEF JournalInv


\* A dispatcher's own record is replaced.
LEMMA DispUpdate ==
    ASSUME JournalInv, NEW d \in Dispatchers, NEW at \in InFlightPlaces \cup {"run", "done"},
           NEW n \in Nat, NEW t \in Nat,
           disp' = [disp EXCEPT ![d] = [at |-> at, n |-> n, total |-> t]]
    PROVE  /\ disp' \in [Dispatchers -> [at : InFlightPlaces \cup {"run", "done"},
                                         n : Nat, total : Nat]]
           /\ \A e \in Dispatchers \ {d} : disp'[e] = disp[e]
           /\ disp'[d].at = at /\ disp'[d].n = n /\ disp'[d].total = t
<1>1. disp \in [Dispatchers -> [at : InFlightPlaces \cup {"run", "done"}, n : Nat, total : Nat]]
  BY ShapesOf
<1> QED
  BY <1>1

\* The fields of a dispatcher, and the two ways the code changes them.
LEMMA DispFields ==
    ASSUME JournalInv, NEW d \in Dispatchers
    PROVE  /\ disp[d].n \in Nat /\ disp[d].total \in Nat
           /\ disp[d].total <= coalesced /\ coalesced \in Nat /\ stamped \in Nat
           /\ \A a : [disp EXCEPT ![d].at = a]
                     = [disp EXCEPT ![d] = [at |-> a, n |-> disp[d].n, total |-> disp[d].total]]
           /\ \A a, t : [disp EXCEPT ![d].at = a, ![d].total = t]
                        = [disp EXCEPT ![d] = [at |-> a, n |-> disp[d].n, total |-> t]]
<1>1. disp \in [Dispatchers -> [at : InFlightPlaces \cup {"run", "done"}, n : Nat, total : Nat]]
  BY ShapesOf
<1>2. disp[d] \in [at : InFlightPlaces \cup {"run", "done"}, n : Nat, total : Nat]
  BY <1>1
<1>3. /\ disp[d].n \in Nat /\ disp[d].total \in Nat
      /\ disp[d].total <= coalesced /\ coalesced \in Nat /\ stamped \in Nat
  BY <1>2, ShapesOf DEF JournalInv, Numbers
<1>4. \A a : [disp[d] EXCEPT !.at = a] = [at |-> a, n |-> disp[d].n, total |-> disp[d].total]
  BY <1>2
<1>7. \A a, t : [disp[d] EXCEPT !.at = a, !.total = t]
                = [at |-> a, n |-> disp[d].n, total |-> t]
  <2> TAKE a, t
  <2> DEFINE r == [at |-> a, n |-> disp[d].n, total |-> disp[d].total]
  <2>1. [disp[d] EXCEPT !.at = a] = r
    BY <1>4
  <2>2. [disp[d] EXCEPT !.at = a, !.total = t] = [r EXCEPT !.total = t]
    BY <2>1
  <2>3. [r EXCEPT !.total = t] = [at |-> a, n |-> disp[d].n, total |-> t]
    OBVIOUS
  <2> QED
    BY <2>2, <2>3
<1>5. \A a : [disp EXCEPT ![d].at = a] = [disp EXCEPT ![d] = [disp[d] EXCEPT !.at = a]]
  BY <1>1, <1>2
<1>6. \A a, t : [disp EXCEPT ![d].at = a, ![d].total = t]
                = [disp EXCEPT ![d] = [disp[d] EXCEPT !.at = a, !.total = t]]
  BY <1>1, <1>2
<1> QED
  BY <1>3, <1>4, <1>5, <1>6, <1>7

\* A dispatcher that is still at work: nothing has closed, the writer has not retired.
LEMMA NotRetired ==
    ASSUME JournalInv, NEW d \in Dispatchers, disp[d].at # "done"
    PROVE  ~Retired
BY DEF JournalInv, Flow, Retired, StopPlaces

\* A progress event is stamped.
LEMMA StampProgressKeeps ==
    ASSUME JournalInv, NEW d \in Dispatchers, StampProgress(d)
    PROVE  JournalInv'
<1>1. disp[d].at = "run" /\ ~Retired
  BY NotRetired DEF StampProgress
<1>2. disp[d].n + 1 \in Nat /\ disp[d].n \in Nat /\ stamped \in Nat /\ coalesced \in Nat
  BY DispFields
<1>3. /\ UNCHANGED <<queue, coalesced, disk, failed, open, writer, pc, owed, stamps, winErr>>
      /\ disp' = [disp EXCEPT ![d] = [at |-> "load", n |-> disp[d].n + 1, total |-> 0]]
      /\ stamped < MaxProgress /\ stamped' = stamped + 1
  BY <1>1 DEF StampProgress
<1>4. /\ disp' \in [Dispatchers -> [at : InFlightPlaces \cup {"run", "done"}, n : Nat, total : Nat]]
      /\ \A e \in Dispatchers \ {d} : disp'[e] = disp[e]
      /\ disp'[d].at = "load" /\ disp'[d].n = disp[d].n + 1 /\ disp'[d].total = 0
  BY <1>2, <1>3, DispUpdate DEF InFlightPlaces
<1>5. Cardinality(Busy') = Cardinality(Busy) + 1
  BY <1>1, <1>4, BusyChange DEF InFlightPlaces
<1>6. /\ stamped' + Len(queue) + coalesced + Cardinality(Busy)
         = stamped + Len(queue') + coalesced' + Cardinality(Busy')
  BY <1>2, <1>3, <1>5, Counts
<1>7. DispatcherStep(d)
  BY <1>1, <1>2, <1>3, <1>4, <1>6 DEF DispatcherStep
<1> QED
  BY <1>7, DispatcherKeeps

\* It reads how many were coalesced so far.
LEMMA LoadCoalescedKeeps ==
    ASSUME JournalInv, NEW d \in Dispatchers, LoadCoalesced(d)
    PROVE  JournalInv'
<1>2. disp[d].n \in Nat /\ stamped \in Nat /\ coalesced \in Nat
  BY DispFields
<1>3. /\ UNCHANGED <<queue, coalesced, disk, failed, open, writer, pc, owed, stamps, stamped, winErr>>
      /\ disp[d].at = "load"
      /\ disp' = [disp EXCEPT ![d] = [at |-> "send", n |-> disp[d].n, total |-> coalesced]]
  BY DispFields DEF LoadCoalesced
<1>4. /\ disp' \in [Dispatchers -> [at : InFlightPlaces \cup {"run", "done"}, n : Nat, total : Nat]]
      /\ \A e \in Dispatchers \ {d} : disp'[e] = disp[e]
      /\ disp'[d].at = "send" /\ disp'[d].n = disp[d].n /\ disp'[d].total = coalesced
  BY <1>2, <1>3, DispUpdate DEF InFlightPlaces
<1>5. Busy' = Busy
  BY <1>3, <1>4, BusyChange DEF InFlightPlaces
<1>7. DispatcherStep(d)
  BY <1>2, <1>3, <1>4, <1>5 DEF DispatcherStep, InFlightPlaces
<1> QED
  BY <1>7, DispatcherKeeps

\* It sends its line if there is room.
LEMMA TrySendKeeps ==
    ASSUME JournalInv, NEW d \in Dispatchers, TrySend(d)
    PROVE  JournalInv'
<1>2. /\ disp[d].n \in Nat /\ stamped \in Nat /\ coalesced \in Nat
      /\ disp[d].total \in Nat /\ disp[d].total <= coalesced
  BY DispFields
<1>3. /\ UNCHANGED <<coalesced, disk, failed, open, writer, pc, owed, stamps, stamped, winErr>>
      /\ disp[d].at = "send"
  BY DEF TrySend
<1>4. CASE Len(queue) < QueueCap /\ Enqueue(d) /\ disp' = [disp EXCEPT ![d].at = "run"]
  <2>1. disp' = [disp EXCEPT ![d] = [at |-> "run", n |-> disp[d].n, total |-> disp[d].total]]
    BY <1>4, DispFields
  <2>2. /\ disp' \in [Dispatchers -> [at : InFlightPlaces \cup {"run", "done"}, n : Nat, total : Nat]]
        /\ \A e \in Dispatchers \ {d} : disp'[e] = disp[e]
        /\ disp'[d].at = "run" /\ disp'[d].n = disp[d].n /\ disp'[d].total = disp[d].total
    BY <1>2, <2>1, DispUpdate
  <2>3. Cardinality(Busy') = Cardinality(Busy) - 1
    BY <1>3, <2>2, BusyChange DEF InFlightPlaces
  <2>4. Len(queue') = Len(queue) + 1
    BY <1>4, ShapesOf DEF Enqueue
  <2>5. /\ stamped' + Len(queue) + coalesced + Cardinality(Busy)
           = stamped + Len(queue') + coalesced' + Cardinality(Busy')
    BY <1>2, <1>3, <2>3, <2>4, Counts
  <2>6. DispatcherStep(d)
    BY <1>2, <1>3, <1>4, <2>2, <2>5 DEF DispatcherStep, InFlightPlaces
  <2> QED
    BY <2>6, DispatcherKeeps
<1>5. CASE UNCHANGED queue /\ disp' = [disp EXCEPT ![d].at = "pop"]
  <2>1. disp' = [disp EXCEPT ![d] = [at |-> "pop", n |-> disp[d].n, total |-> disp[d].total]]
    BY <1>5, DispFields
  <2>2. /\ disp' \in [Dispatchers -> [at : InFlightPlaces \cup {"run", "done"}, n : Nat, total : Nat]]
        /\ \A e \in Dispatchers \ {d} : disp'[e] = disp[e]
        /\ disp'[d].at = "pop" /\ disp'[d].n = disp[d].n /\ disp'[d].total = disp[d].total
    BY <1>2, <2>1, DispUpdate DEF InFlightPlaces
  <2>3. Busy' = Busy
    BY <1>3, <2>2, BusyChange DEF InFlightPlaces
  <2>4. DispatcherStep(d)
    BY <1>2, <1>3, <1>5, <2>2, <2>3 DEF DispatcherStep, InFlightPlaces
  <2> QED
    BY <2>4, DispatcherKeeps
<1> QED
  BY <1>4, <1>5 DEF TrySend

\* It drops the oldest line of a full queue, and counts it.
LEMMA PopOldestKeeps ==
    ASSUME JournalInv, NEW d \in Dispatchers, PopOldest(d)
    PROVE  JournalInv'
<1>2. /\ disp[d].n \in Nat /\ stamped \in Nat /\ coalesced \in Nat /\ coalesced + 1 \in Nat
      /\ disp[d].total \in Nat /\ disp[d].total <= coalesced
  BY DispFields
<1>3. /\ UNCHANGED <<disk, failed, open, writer, pc, owed, stamps, stamped, winErr>>
      /\ disp[d].at = "pop"
  BY DEF PopOldest
<1>4. CASE /\ queue # << >> /\ queue' = Tail(queue) /\ coalesced' = coalesced + 1
           /\ disp' = [disp EXCEPT ![d].at = "resend", ![d].total = coalesced + 1]
  <2>1. disp' = [disp EXCEPT ![d] = [at |-> "resend", n |-> disp[d].n, total |-> coalesced + 1]]
    BY <1>4, DispFields
  <2>2. /\ disp' \in [Dispatchers -> [at : InFlightPlaces \cup {"run", "done"}, n : Nat, total : Nat]]
        /\ \A e \in Dispatchers \ {d} : disp'[e] = disp[e]
        /\ disp'[d].at = "resend" /\ disp'[d].n = disp[d].n /\ disp'[d].total = coalesced + 1
    BY <1>2, <2>1, DispUpdate DEF InFlightPlaces
  <2>3. Busy' = Busy
    BY <1>3, <2>2, BusyChange DEF InFlightPlaces
  <2>4. Len(queue') = Len(queue) - 1 /\ Len(queue) \in Nat
    BY <1>4, ShapesOf, QueueTail
  <2>5. /\ stamped' + Len(queue) + coalesced + Cardinality(Busy)
           = stamped + Len(queue') + coalesced' + Cardinality(Busy')
    BY <1>2, <1>3, <1>4, <2>3, <2>4, Counts
  <2>6. DispatcherStep(d)
    BY <1>2, <1>3, <1>4, <2>2, <2>5 DEF DispatcherStep, InFlightPlaces
  <2> QED
    BY <2>6, DispatcherKeeps
<1>5. CASE UNCHANGED <<queue, coalesced>> /\ disp' = [disp EXCEPT ![d].at = "resend"]
  <2>1. disp' = [disp EXCEPT ![d] = [at |-> "resend", n |-> disp[d].n, total |-> disp[d].total]]
    BY <1>5, DispFields
  <2>2. /\ disp' \in [Dispatchers -> [at : InFlightPlaces \cup {"run", "done"}, n : Nat, total : Nat]]
        /\ \A e \in Dispatchers \ {d} : disp'[e] = disp[e]
        /\ disp'[d].at = "resend" /\ disp'[d].n = disp[d].n /\ disp'[d].total = disp[d].total
    BY <1>2, <2>1, DispUpdate DEF InFlightPlaces
  <2>3. Busy' = Busy
    BY <1>3, <2>2, BusyChange DEF InFlightPlaces
  <2>4. DispatcherStep(d)
    BY <1>2, <1>3, <1>5, <2>2, <2>3 DEF DispatcherStep, InFlightPlaces
  <2> QED
    BY <2>4, DispatcherKeeps
<1> QED
  BY <1>4, <1>5 DEF PopOldest

\* It sends again, or counts its own line as coalesced.
LEMMA ResendKeeps ==
    ASSUME JournalInv, NEW d \in Dispatchers, Resend(d)
    PROVE  JournalInv'
<1>2. /\ disp[d].n \in Nat /\ stamped \in Nat /\ coalesced \in Nat
      /\ disp[d].total \in Nat /\ disp[d].total <= coalesced
  BY DispFields
<1>3. /\ UNCHANGED <<disk, failed, open, writer, pc, owed, stamps, stamped, winErr>>
      /\ disp[d].at = "resend"
      /\ disp' = [disp EXCEPT ![d] = [at |-> "run", n |-> disp[d].n, total |-> disp[d].total]]
  BY DispFields DEF Resend
<1>4. /\ disp' \in [Dispatchers -> [at : InFlightPlaces \cup {"run", "done"}, n : Nat, total : Nat]]
      /\ \A e \in Dispatchers \ {d} : disp'[e] = disp[e]
      /\ disp'[d].at = "run" /\ disp'[d].n = disp[d].n /\ disp'[d].total = disp[d].total
  BY <1>2, <1>3, DispUpdate
<1>5. Cardinality(Busy') = Cardinality(Busy) - 1
  BY <1>3, <1>4, BusyChange DEF InFlightPlaces
<1>6. CASE Len(queue) < QueueCap /\ Enqueue(d) /\ UNCHANGED coalesced
  <2>1. Len(queue') = Len(queue) + 1
    BY <1>6, ShapesOf DEF Enqueue
  <2>2. /\ stamped' + Len(queue) + coalesced + Cardinality(Busy)
           = stamped + Len(queue') + coalesced' + Cardinality(Busy')
    BY <1>2, <1>3, <1>5, <1>6, <2>1, Counts
  <2>3. DispatcherStep(d)
    BY <1>2, <1>3, <1>4, <1>6, <2>2 DEF DispatcherStep, InFlightPlaces
  <2> QED
    BY <2>3, DispatcherKeeps
<1>7. CASE coalesced' = coalesced + 1 /\ UNCHANGED queue
  <2>1. /\ stamped' + Len(queue) + coalesced + Cardinality(Busy)
           = stamped + Len(queue') + coalesced' + Cardinality(Busy')
    BY <1>2, <1>3, <1>5, <1>7, Counts
  <2>2. DispatcherStep(d)
    BY <1>2, <1>3, <1>4, <1>7, <2>1 DEF DispatcherStep, InFlightPlaces
  <2> QED
    BY <2>2, DispatcherKeeps
<1> QED
  BY <1>6, <1>7 DEF Resend

\* A dispatcher is done.
LEMMA RunReturnsKeeps ==
    ASSUME JournalInv, NEW d \in Dispatchers, RunReturns(d)
    PROVE  JournalInv'
<1>2. /\ disp[d].n \in Nat /\ stamped \in Nat /\ coalesced \in Nat
      /\ disp[d].total \in Nat /\ disp[d].total <= coalesced
  BY DispFields
<1>3. /\ UNCHANGED <<queue, coalesced, disk, failed, open, writer, pc, owed, stamps, stamped, winErr>>
      /\ disp[d].at = "run"
      /\ disp' = [disp EXCEPT ![d] = [at |-> "done", n |-> disp[d].n, total |-> disp[d].total]]
  BY DispFields DEF RunReturns
<1>4. /\ disp' \in [Dispatchers -> [at : InFlightPlaces \cup {"run", "done"}, n : Nat, total : Nat]]
      /\ \A e \in Dispatchers \ {d} : disp'[e] = disp[e]
      /\ disp'[d].at = "done" /\ disp'[d].n = disp[d].n /\ disp'[d].total = disp[d].total
  BY <1>2, <1>3, DispUpdate
<1>5. Busy' = Busy
  BY <1>3, <1>4, BusyChange DEF InFlightPlaces
<1>6. DispatcherStep(d)
  BY <1>2, <1>3, <1>4, <1>5 DEF DispatcherStep, InFlightPlaces
<1> QED
  BY <1>6, DispatcherKeeps


-----------------------------------------------------------------------------
(* The writer and the other goroutines, when no line moves.                  *)

\* The lines keep the invariant when none of them moves, if the new control state fits
\* and no goroutine past its barrier owes a line that is on its way.
LEMMA QuietKeeps ==
    ASSUME JournalInv,
           UNCHANGED <<queue, coalesced, disk, failed, disp, stamped>>,
           Writing' <=> Writing, Writing => writer'.hand = writer.hand,
           Shapes', Flow', WindowErrComplete',
           \A p \in Procs : \A d \in Dispatchers, k \in Nat :
                <<d, k>> \in owed'[p] => k <= Handed(d),
           \A p \in Procs : pc'[p] = "passed" => \A l \in OnTheWay : Id(l) \notin owed'[p]
    PROVE  JournalInv'
<1>1. /\ OnTheWay' = OnTheWay /\ ProgressOnDisk' = ProgressOnDisk /\ InFlight' = InFlight
      /\ \A d \in Dispatchers : Handed(d)' = Handed(d)
  BY DEF OnTheWay, Queued, ProgressOnDisk, InFlight, Writing, Handed
<1>2. Numbers'
  BY DEF JournalInv, Numbers
<1>3. WayInv'
  <2>1. \A l \in OnTheWay : l.by \in Dispatchers
    BY WayLines
  <2> QED
    BY <1>1, <2>1 DEF JournalInv, WayInv
<1>4. OrderInv'
  BY <1>1 DEF JournalInv, OrderInv
<1>5. OwedInv'
  BY <1>1 DEF JournalInv, OwedInv, Id
<1>6. DiskInv'
  <2>1. \A i \in 1..Len(disk) : LineOK(disk[i])'
    BY DEF JournalInv, DiskInv, LineOK
  <2>2. \A i \in 1..Len(disk) : disk[i].by \in Dispatchers => (disk[i].n <= Handed(disk[i].by))'
    BY DEF JournalInv, DiskInv, Handed
  <2>3. ClosingFollowsProgress' /\ NewestAccountsForGaps'
    BY <1>1 DEF JournalInv, DiskInv, ClosingFollowsProgress, NewestAccountsForGaps, Id
  <2> QED
    BY <2>1, <2>2, <2>3 DEF DiskInv
<1>7. LossCounted'
  BY <1>1 DEF JournalInv, LossCounted
<1> QED
  BY <1>2, <1>3, <1>4, <1>5, <1>6, <1>7 DEF JournalInv

\* The writer goes to another place and keeps what it has in hand.
LEMMA WriterGoes ==
    ASSUME JournalInv, NEW place \in {"poll", "select", "drain", "stopping", "retired"},
           NEW p \in Procs, writer' = [writer EXCEPT !.at = place, !.serves = p]
                            \/ (p = writer.serves /\ writer' = [writer EXCEPT !.at = place])
    PROVE  /\ writer'.at = place /\ writer'.hand = writer.hand
           /\ writer'.back = writer.back /\ writer'.serves = p /\ ~Writing'
           /\ writer' \in [at : {"poll", "select", "drain", "write", "stopping", "retired"},
                           hand : ProgressLines \cup {<< >>}, back : {"poll", "drain"},
                           serves : Procs]
<1>1. writer \in [at : {"poll", "select", "drain", "write", "stopping", "retired"},
                  hand : ProgressLines \cup {<< >>}, back : {"poll", "drain"},
                  serves : Procs]
  BY DEF JournalInv, Shapes
<1>2. CASE writer' = [writer EXCEPT !.at = place, !.serves = p]
  BY <1>1, <1>2 DEF Writing
<1>3. CASE p = writer.serves /\ writer' = [writer EXCEPT !.at = place]
  BY <1>1, <1>3 DEF Writing
<1> QED
  BY <1>2, <1>3

\* What is owed, and what a goroutine past its barrier owes.
LEMMA OwedAtHand ==
    ASSUME JournalInv
    PROVE  /\ \A p \in Procs : \A d \in Dispatchers, k \in Nat :
                <<d, k>> \in owed[p] => k <= Handed(d)
           /\ \A p \in Procs : pc[p] = "passed" => \A l \in OnTheWay : Id(l) \notin owed[p]
BY DEF JournalInv, OwedInv

\* With an empty queue the writer turns from polling to its select.
LEMMA PollEmptyKeeps ==
    ASSUME JournalInv, writer.at = "poll", queue = << >>, Goto("select"), UNCHANGED pc
    PROVE  JournalInv'
<1>1. /\ UNCHANGED <<queue, coalesced, disk, failed, open, disp, pc, owed, stamps, stamped, winErr>>
      /\ writer' = [writer EXCEPT !.at = "select"]
  BY DEF Goto
<1>2. writer.serves \in Procs /\ ~Writing
  BY ShapesOf DEF Writing
<1>3. /\ writer'.at = "select" /\ ~Writing'
      /\ writer' \in [at : {"poll", "select", "drain", "write", "stopping", "retired"},
                      hand : ProgressLines \cup {<< >>}, back : {"poll", "drain"},
                      serves : Procs]
  BY <1>1, <1>2, WriterGoes
<1>4. Shapes'
  BY <1>1, <1>3 DEF JournalInv, Shapes
<1>5. OnTheWay' = OnTheWay
  BY <1>1, <1>2, <1>3 DEF OnTheWay, Queued
<1>6. Flow'
  BY <1>1, <1>3, <1>5 DEF JournalInv, Flow
<1>7. WindowErrComplete'
  BY <1>1 DEF JournalInv, WindowErrComplete, ProgressOnDisk
<1> QED
  BY <1>1, <1>2, <1>3, <1>4, <1>6, <1>7, OwedAtHand, QuietKeeps

\* The writer takes a barrier.
LEMMA SelectBarrierKeeps ==
    ASSUME JournalInv, NEW p \in Procs, SelectBarrier(p)
    PROVE  JournalInv'
<1>1. /\ UNCHANGED <<queue, coalesced, disk, failed, open, disp, owed, stamps, stamped, winErr>>
      /\ writer' = [writer EXCEPT !.at = "drain", !.serves = p]
      /\ writer.at = "select" /\ pc[p] \in {"offer", "offerStop"}
      /\ pc' = [pc EXCEPT ![p] = IF @ = "offer" THEN "wait" ELSE "waitStop"]
  BY DEF SelectBarrier
<1>2. ~Writing /\ pc \in [Procs -> Places]
  BY <1>1, ShapesOf DEF Writing
<1>3. /\ writer'.at = "drain" /\ writer'.serves = p /\ ~Writing'
      /\ writer' \in [at : {"poll", "select", "drain", "write", "stopping", "retired"},
                      hand : ProgressLines \cup {<< >>}, back : {"poll", "drain"},
                      serves : Procs]
  BY <1>1, WriterGoes
<1>4. /\ pc' \in [Procs -> Places]
      /\ pc[p] = "offer" => pc'[p] = "wait"
      /\ pc[p] = "offerStop" => pc'[p] = "waitStop"
      /\ \A q \in Procs \ {p} : pc'[q] = pc[q]
  BY <1>1, <1>2 DEF Places, StopPlaces
<1>5. Shapes'
  BY <1>1, <1>3, <1>4 DEF JournalInv, Shapes
<1>6. OnTheWay' = OnTheWay
  BY <1>1, <1>2, <1>3 DEF OnTheWay, Queued
<1>7. Flow'
  <2>1. /\ \A q \in Procs : pc'[q] \in StopPlaces <=> pc[q] \in StopPlaces
        /\ \A q \in Procs : pc'[q] \in {"offer", "wait", "passed"} =>
                            pc[q] \in {"offer", "wait", "passed"}
        /\ \A q \in Procs : pc'[q] \in {"offer", "wait"} <=> pc[q] \in {"offer", "wait"}
        /\ \A q \in Procs : pc'[q] = "idle" <=> pc[q] = "idle"
        /\ pc'[p] \in {"wait", "waitStop"}
    BY <1>1, <1>4 DEF StopPlaces
  <2> QED
    BY <1>1, <1>3, <1>6, <2>1, Apart DEF JournalInv, Flow
<1>8. WindowErrComplete'
  BY <1>1 DEF JournalInv, WindowErrComplete, ProgressOnDisk
<1>9. \A q \in Procs : pc'[q] = "passed" => pc[q] = "passed"
  BY <1>1, <1>4
<1> QED
  BY <1>1, <1>2, <1>3, <1>5, <1>7, <1>8, <1>9, OwedAtHand, QuietKeeps

\* With the queue drained the writer releases the barrier.
LEMMA ReleaseKeeps ==
    ASSUME JournalInv, writer.at = "drain", queue = << >>, Release
    PROVE  JournalInv'
<1> DEFINE p == writer.serves
           to == IF pc[p] = "waitStop" THEN "stopping" ELSE "poll"
<1>1. /\ UNCHANGED <<queue, coalesced, disk, failed, open, disp, owed, stamps, stamped, winErr>>
      /\ writer' = [writer EXCEPT !.at = to]
      /\ pc' = [pc EXCEPT ![p] = IF @ = "wait" THEN "passed" ELSE "passedStop"]
  BY DEF Release, Goto
<1>2. /\ ~Writing /\ pc \in [Procs -> Places] /\ p \in Procs
      /\ pc[p] \in {"wait", "waitStop"}
  BY ShapesOf DEF Writing, JournalInv, Flow
<1>3. /\ writer'.at = to /\ writer'.serves = p /\ ~Writing'
      /\ writer' \in [at : {"poll", "select", "drain", "write", "stopping", "retired"},
                      hand : ProgressLines \cup {<< >>}, back : {"poll", "drain"},
                      serves : Procs]
  BY <1>1, <1>2, WriterGoes
<1>4. /\ pc' \in [Procs -> Places]
      /\ pc[p] = "wait" => pc'[p] = "passed"
      /\ pc[p] = "waitStop" => pc'[p] = "passedStop"
      /\ \A q \in Procs \ {p} : pc'[q] = pc[q]
  BY <1>1, <1>2 DEF Places, StopPlaces
<1>5. Shapes'
  BY <1>1, <1>3, <1>4 DEF JournalInv, Shapes
<1>6. OnTheWay = {} /\ OnTheWay' = {}
  <2>1. OnTheWay = {}
    BY <1>2, ShapesOf, WayEmpty
  <2> QED
    BY <1>1, <1>2, <1>3, <2>1 DEF OnTheWay, Queued
<1>7. Flow'
  <2>1. /\ \A q \in Procs : pc'[q] \in StopPlaces <=> pc[q] \in StopPlaces
        /\ \A q \in Procs : pc'[q] \in {"offer", "wait", "passed"} =>
                            pc[q] \in {"offer", "wait", "passed"}
        /\ \A q \in Procs : pc'[q] = "idle" <=> pc[q] = "idle"
        /\ pc[p] = "waitStop" => p = Main /\ pc'[Main] = "passedStop"
    BY <1>2, <1>4 DEF StopPlaces, JournalInv, Flow
  <2>2. writer'.at \in {"stopping", "retired"} => pc[p] = "waitStop"
    BY <1>3
  <2>3. writer'.at # "drain"
    BY <1>3
  <2> HIDE DEF p, to
  <2> QED
    BY <1>1, <1>3, <1>6, <2>1, <2>2, <2>3, Apart DEF JournalInv, Flow
<1>8. WindowErrComplete'
  BY <1>1 DEF JournalInv, WindowErrComplete, ProgressOnDisk
<1> QED
  BY <1>1, <1>2, <1>3, <1>5, <1>6, <1>7, <1>8, OwedAtHand, QuietKeeps

\* The writer retires.
LEMMA RetireKeeps ==
    ASSUME JournalInv, Retire
    PROVE  JournalInv'
<1>1. /\ UNCHANGED <<queue, coalesced, disk, failed, open, disp, pc, owed, stamps, stamped, winErr>>
      /\ writer' = [writer EXCEPT !.at = "retired"] /\ writer.at = "stopping"
  BY DEF Goto, Retire
<1>2. writer.serves \in Procs /\ ~Writing
  BY <1>1, ShapesOf DEF Writing
<1>3. /\ writer'.at = "retired" /\ ~Writing'
      /\ writer' \in [at : {"poll", "select", "drain", "write", "stopping", "retired"},
                      hand : ProgressLines \cup {<< >>}, back : {"poll", "drain"},
                      serves : Procs]
  BY <1>1, <1>2, WriterGoes
<1>4. Shapes'
  BY <1>1, <1>3 DEF JournalInv, Shapes
<1>5. OnTheWay' = OnTheWay
  BY <1>1, <1>2, <1>3 DEF OnTheWay, Queued
<1>6. Flow'
  BY <1>1, <1>3, <1>5 DEF JournalInv, Flow
<1>7. WindowErrComplete'
  BY <1>1 DEF JournalInv, WindowErrComplete, ProgressOnDisk
<1> QED
  BY <1>1, <1>2, <1>3, <1>4, <1>6, <1>7, OwedAtHand, QuietKeeps

\* A goroutine begins to stamp: what it owes is what is on the way.
LEMMA StampKeeps ==
    ASSUME JournalInv, NEW p \in Procs, Stamp(p)
    PROVE  JournalInv'
<1>1. /\ UNCHANGED <<queue, coalesced, disk, failed, open, writer, disp, stamped, winErr>>
      /\ pc[p] = "idle" /\ MayStamp(p)
      /\ pc' = [pc EXCEPT ![p] = "offer"]
      /\ owed' = [owed EXCEPT ![p] = HandedOver]
      /\ stamps' = [stamps EXCEPT ![p] = stamps[p] + 1]
  BY DEF Stamp
<1>2. /\ pc \in [Procs -> Places] /\ stamps \in [Procs -> Nat] /\ owed \in [Procs -> SUBSET Ids]
      /\ queue \in Seq(ProgressLines)
  BY ShapesOf
<1>3. HandedOver = {Id(l) : l \in OnTheWay}
  BY <1>2, WayIds
<1>4. \A l \in OnTheWay : l \in ProgressLines /\ l.n <= Handed(l.by)
  BY WayLines DEF JournalInv, WayInv
<1>5. /\ HandedOver \in SUBSET Ids
      /\ \A d \in Dispatchers, k \in Nat : <<d, k>> \in HandedOver => k <= Handed(d)
  BY <1>3, <1>4 DEF Id, Ids, ProgressLines
<1>6. /\ pc' \in [Procs -> Places] /\ pc'[p] = "offer"
      /\ \A q \in Procs \ {p} : pc'[q] = pc[q]
  BY <1>1, <1>2 DEF Places
<1>7. /\ owed' \in [Procs -> SUBSET Ids] /\ owed'[p] = HandedOver
      /\ \A q \in Procs \ {p} : owed'[q] = owed[q]
  BY <1>1, <1>2, <1>5
<1>8. /\ stamps' \in [Procs -> Nat] /\ stamps'[p] = stamps[p] + 1
      /\ \A q \in Procs \ {p} : stamps'[q] = stamps[q]
  BY <1>1, <1>2
<1>9. Shapes'
  BY <1>1, <1>6, <1>7, <1>8 DEF JournalInv, Shapes, Writing
<1>10. OnTheWay' = OnTheWay /\ (Writing' <=> Writing)
  BY <1>1 DEF OnTheWay, Queued, Writing
<1>11. Flow'
  <2>1. \A q \in Procs : pc'[q] \in StopPlaces => pc[q] \in StopPlaces /\ q # p
    BY <1>6 DEF StopPlaces
  <2>2. writer.at = "drain" \/ (Writing /\ writer.back = "drain") =>
          pc'[writer.serves] \in {"wait", "waitStop"}
    <3>1. writer.serves \in Procs
      BY ShapesOf
    <3> QED
      BY <1>1, <1>6, <3>1 DEF JournalInv, Flow
  <2>3. CASE p = Main
    <3>1. /\ stamps[Main] = 0 /\ stamps'[Main] = 1 /\ \A d \in Dispatchers : disp[d].at = "done"
          /\ winErr = "unread" /\ pc'[Main] = "offer"
      BY <1>1, <1>6, <1>8, <2>3 DEF MayStamp, JournalInv, Flow
    <3>2. \A q \in Procs : pc'[q] \in {"offer", "wait", "passed"} => stamps'[q] >= 1
      BY <1>6, <1>8, <2>3, <3>1 DEF JournalInv, Flow
    <3>3. \A q \in Stampers : stamps'[q] <= MaxStamps
      BY <1>8, <2>3, JournalAssumption DEF JournalInv, Flow, Procs
    <3>4. writer.at \notin {"stopping", "retired"}
      BY <1>1, <2>3 DEF JournalInv, Flow
    <3> QED
      BY <1>1, <1>10, <2>1, <2>2, <3>1, <3>2, <3>3, <3>4 DEF JournalInv, Flow,
         StopPlaces
  <2>4. CASE p # Main
    <3>1. stamps'[Main] = stamps[Main] /\ pc'[Main] = pc[Main]
      BY <1>6, <1>8, <2>4, Apart
    <3>2. \A q \in Procs : pc'[q] \in {"offer", "wait", "passed"} => stamps'[q] >= 1
      <4> SUFFICES ASSUME NEW q \in Procs, pc'[q] \in {"offer", "wait", "passed"}
                   PROVE  stamps'[q] >= 1
        OBVIOUS
      <4>1. CASE q = p
        BY <1>2, <1>8, <4>1
      <4>2. CASE q # p
        BY <1>6, <1>8, <4>2 DEF JournalInv, Flow
      <4> QED
        BY <4>1, <4>2
    <3>3. \A q \in Stampers : stamps'[q] <= MaxStamps
      <4> SUFFICES ASSUME NEW q \in Stampers PROVE stamps'[q] <= MaxStamps
        OBVIOUS
      <4>0. q \in Procs
        BY DEF Procs
      <4>1. CASE q = p
        BY <1>1, <1>2, <1>8, <2>4, <4>1, JournalAssumption DEF MayStamp
      <4>2. CASE q # p
        BY <1>8, <4>0, <4>2 DEF JournalInv, Flow
      <4> QED
        BY <4>1, <4>2
    <3> QED
      BY <1>1, <1>10, <2>1, <2>2, <3>1, <3>2, <3>3 DEF JournalInv, Flow
  <2> QED
    BY <2>3, <2>4
<1>12. WindowErrComplete'
  BY <1>1 DEF JournalInv, WindowErrComplete, ProgressOnDisk
<1>13. \A q \in Procs : \A d \in Dispatchers, k \in Nat :
         <<d, k>> \in owed'[q] => k <= Handed(d)
  BY <1>5, <1>7, OwedAtHand
<1>14. \A q \in Procs : pc'[q] = "passed" => \A l \in OnTheWay : Id(l) \notin owed'[q]
  BY <1>6, <1>7, OwedAtHand
<1> QED
  BY <1>1, <1>9, <1>10, <1>11, <1>12, <1>13, <1>14, QuietKeeps

\* With the writer retired nobody waits for it.
LEMMA AwaitGivesUpKeeps ==
    ASSUME JournalInv, NEW p \in Procs, AwaitGivesUp(p)
    PROVE  JournalInv'
<1>1. /\ UNCHANGED <<queue, coalesced, disk, failed, open, writer, disp, owed, stamps, stamped, winErr>>
      /\ writer.at = "retired" /\ pc[p] \in {"offer", "wait", "offerStop", "waitStop"}
      /\ pc' = [pc EXCEPT ![p] = IF @ \in {"offer", "wait"} THEN "passed" ELSE "passedStop"]
  BY DEF AwaitGivesUp, Retired
<1>2. pc[Main] \in {"passedStop", "closed"} /\ p # Main
  BY <1>1 DEF JournalInv, Flow
<1>3. pc[p] \in {"offer", "wait"} /\ pc \in [Procs -> Places]
  BY <1>1, <1>2, ShapesOf DEF JournalInv, Flow, StopPlaces
<1>4. /\ pc' \in [Procs -> Places] /\ pc'[p] = "passed"
      /\ \A q \in Procs \ {p} : pc'[q] = pc[q]
  BY <1>1, <1>3 DEF Places
<1>5. OnTheWay = {}
  BY <1>2 DEF JournalInv, Flow, StopPlaces
<1>6. Shapes'
  BY <1>1, <1>4 DEF JournalInv, Shapes, Writing
<1>7. OnTheWay' = OnTheWay /\ (Writing' <=> Writing) /\ ~Writing
  BY <1>1 DEF OnTheWay, Queued, Writing
<1>8. Flow'
  <2>1. /\ \A q \in Procs : pc'[q] \in StopPlaces <=> pc[q] \in StopPlaces
        /\ \A q \in Procs : pc'[q] \in {"offer", "wait", "passed"} =>
                            pc[q] \in {"offer", "wait", "passed"}
        /\ pc'[Main] = pc[Main]
    BY <1>2, <1>3, <1>4, Apart DEF StopPlaces
  <2> QED
    BY <1>1, <1>7, <2>1 DEF JournalInv, Flow
<1>9. WindowErrComplete'
  BY <1>1 DEF JournalInv, WindowErrComplete, ProgressOnDisk
<1> QED
  BY <1>1, <1>5, <1>6, <1>7, <1>8, <1>9, OwedAtHand, QuietKeeps

\* The window reads the journal's error: no line is on its way, and each one is written
\* or counted if no write failed.
LEMMA ReadErrKeeps ==
    ASSUME JournalInv, ReadErr
    PROVE  JournalInv'
<1>1. /\ UNCHANGED <<queue, coalesced, disk, failed, open, writer, disp, pc, owed, stamps, stamped>>
      /\ stamps[Main] = 1 /\ pc[Main] = "idle" /\ winErr = "unread"
      /\ winErr' = IF failed THEN "error" ELSE "nil"
  BY DEF ReadErr
<1>2. OnTheWay = {} /\ \A d \in Dispatchers : disp[d].at = "done"
  BY <1>1 DEF JournalInv, Flow
<1>3. queue = << >> /\ ~Writing
  BY <1>2, ShapesOf, WayEmpty
<1>4. Busy = {}
  BY <1>2 DEF Busy, InFlightPlaces
<1>5. Shapes'
  BY <1>1 DEF JournalInv, Shapes, Writing
<1>6. OnTheWay' = OnTheWay /\ (Writing' <=> Writing)
  BY <1>1 DEF OnTheWay, Queued, Writing
<1>7. Flow'
  BY <1>1, <1>6 DEF JournalInv, Flow
<1>8. WindowErrComplete'
  <2> SUFFICES ASSUME ~failed PROVE stamped = Cardinality(ProgressOnDisk) + coalesced
    BY <1>1 DEF WindowErrComplete, ProgressOnDisk
  <2>1. stamped = Cardinality(ProgressOnDisk) + InFlight + coalesced
    BY DEF JournalInv, LossCounted
  <2>2. InFlight = 0
    <3>1. Len(queue) = 0 /\ Cardinality(Busy) = 0
      BY <1>3, <1>4, FS_EmptySet
    <3> QED
      BY <1>3, <3>1, Counts
  <2> QED
    BY <2>1, <2>2, Counts, ShapesOf
<1> QED
  BY <1>1, <1>3, <1>5, <1>6, <1>7, <1>8, OwedAtHand, QuietKeeps

\* The window closes the journal, which it offers a last barrier.
LEMMA CloseKeeps ==
    ASSUME JournalInv, Close
    PROVE  JournalInv'
<1>1. /\ UNCHANGED <<queue, coalesced, disk, failed, open, writer, disp, owed, stamps, stamped, winErr>>
      /\ pc[Main] = "idle" /\ winErr # "unread"
      /\ pc' = [pc EXCEPT ![Main] = "offerStop"]
  BY DEF Close
<1>2. pc \in [Procs -> Places] /\ Main \in Procs
  BY ShapesOf, Apart
<1>3. /\ pc' \in [Procs -> Places] /\ pc'[Main] = "offerStop"
      /\ \A q \in Procs \ {Main} : pc'[q] = pc[q]
  BY <1>1, <1>2 DEF Places, StopPlaces
<1>4. Shapes'
  BY <1>1, <1>3 DEF JournalInv, Shapes, Writing
<1>5. OnTheWay' = OnTheWay /\ (Writing' <=> Writing)
  BY <1>1 DEF OnTheWay, Queued, Writing
<1>6. Flow'
  <2>1. writer.serves \in Procs
    BY ShapesOf
  <2>2. writer.at \notin {"stopping", "retired"} /\ stamps[Main] = 1 /\ OnTheWay = {}
    BY <1>1 DEF JournalInv, Flow
  <2> QED
    BY <1>1, <1>2, <1>3, <1>5, <2>1, <2>2 DEF JournalInv, Flow, StopPlaces
<1>7. WindowErrComplete'
  BY <1>1 DEF JournalInv, WindowErrComplete, ProgressOnDisk
<1>8. \A q \in Procs : pc'[q] = "passed" => pc[q] = "passed"
  BY <1>2, <1>3
<1> QED
  BY <1>1, <1>4, <1>5, <1>6, <1>7, <1>8, OwedAtHand, QuietKeeps

\* The file is closed.
LEMMA CloseFileKeeps ==
    ASSUME JournalInv, CloseFile
    PROVE  JournalInv'
<1>1. /\ UNCHANGED <<queue, coalesced, disk, failed, writer, disp, owed, stamps, stamped, winErr>>
      /\ pc[Main] = "passedStop" /\ open' = FALSE
      /\ pc' = [pc EXCEPT ![Main] = "closed"]
  BY DEF CloseFile
<1>2. pc \in [Procs -> Places] /\ Main \in Procs
  BY ShapesOf, Apart
<1>3. /\ pc' \in [Procs -> Places] /\ pc'[Main] = "closed"
      /\ \A q \in Procs \ {Main} : pc'[q] = pc[q]
  BY <1>1, <1>2 DEF Places, StopPlaces
<1>4. Shapes'
  BY <1>1, <1>3 DEF JournalInv, Shapes, Writing
<1>5. OnTheWay' = OnTheWay /\ (Writing' <=> Writing)
  BY <1>1 DEF OnTheWay, Queued, Writing
<1>6. Flow'
  <2>1. writer.serves \in Procs
    BY ShapesOf
  <2>2. stamps[Main] = 1 /\ OnTheWay = {} /\ winErr # "unread"
    BY <1>1 DEF JournalInv, Flow, StopPlaces
  <2> QED
    BY <1>1, <1>2, <1>3, <1>5, <2>1, <2>2 DEF JournalInv, Flow, StopPlaces
<1>7. WindowErrComplete'
  BY <1>1 DEF JournalInv, WindowErrComplete, ProgressOnDisk
<1>8. \A q \in Procs : pc'[q] = "passed" => pc[q] = "passed"
  BY <1>2, <1>3
<1> QED
  BY <1>1, <1>4, <1>5, <1>6, <1>7, <1>8, OwedAtHand, QuietKeeps

-----------------------------------------------------------------------------
(* Lines move: from the queue to the writer's hand, and to the disk.         *)

\* The writer takes the oldest line: it stays on the way.
LEMMA TakeLineKeeps ==
    ASSUME JournalInv, NEW back \in {"poll", "drain"},
           writer.at \in {"poll", "select", "drain"},
           back = "drain" => writer.at = "drain", TakeLine(back)
    PROVE  JournalInv'
<1> DEFINE h == Head(queue)
<1>1. /\ UNCHANGED <<coalesced, disk, failed, open, disp, pc, owed, stamps, stamped, winErr>>
      /\ queue # << >> /\ queue' = Tail(queue)
      /\ writer' = [writer EXCEPT !.at = "write", !.hand = h, !.back = back]
      /\ ~Writing
  BY DEF TakeLine, Writing
<1>2. /\ queue' \in Seq(ProgressLines) /\ Len(queue') = Len(queue) - 1
      /\ Len(queue) \in Nat \ {0} /\ Len(queue') \in Nat
      /\ \A i \in 1..Len(queue') : queue'[i] = queue[i + 1] /\ i + 1 \in 1..Len(queue)
      /\ h = queue[1] /\ h \in ProgressLines /\ Queued = Queued' \cup {h}
  BY <1>1, ShapesOf, QueueTail
<1> HIDE DEF h
<1>3. /\ writer'.at = "write" /\ writer'.hand = h /\ writer'.back = back
      /\ writer'.serves = writer.serves /\ Writing'
      /\ writer' \in [at : {"poll", "select", "drain", "write", "stopping", "retired"},
                      hand : ProgressLines \cup {<< >>}, back : {"poll", "drain"},
                      serves : Procs]
  BY <1>1, <1>2 DEF JournalInv, Shapes, Writing
<1>4. OnTheWay' = OnTheWay
  BY <1>1, <1>2, <1>3 DEF OnTheWay
<1>5. Shapes'
  BY <1>1, <1>2, <1>3 DEF JournalInv, Shapes
<1>6. Flow'
  BY <1>1, <1>3, <1>4 DEF JournalInv, Flow
<1>7. Numbers'
  <2>1. Len(queue') <= QueueCap
    BY <1>2, JournalAssumption DEF JournalInv, Numbers
  <2> QED
    BY <1>1, <2>1 DEF JournalInv, Numbers
<1>h. \A d \in Dispatchers : Handed(d)' = Handed(d)
  BY <1>1 DEF Handed
<1>8. WayInv'
  <2>1. \A l \in OnTheWay : l.by \in Dispatchers
    BY WayLines
  <2> QED
    BY <1>1, <1>4, <1>h, <2>1 DEF JournalInv, WayInv
<1>9. OrderInv'
  <2>1. \A i, j \in 1..Len(queue') :
          i < j /\ queue'[i].by = queue'[j].by => queue'[i].n < queue'[j].n
    <3> TAKE i, j \in 1..Len(queue')
    <3>1. /\ i + 1 \in 1..Len(queue) /\ j + 1 \in 1..Len(queue) /\ (i < j => i + 1 < j + 1)
          /\ queue'[i] = queue[i + 1] /\ queue'[j] = queue[j + 1]
      BY <1>2
    <3> QED
      BY <3>1 DEF JournalInv, OrderInv
  <2>2. \A i \in 1..Len(queue') : queue'[i].by = h.by => h.n < queue'[i].n
    <3> TAKE i \in 1..Len(queue')
    <3>1. /\ 1 \in 1..Len(queue) /\ i + 1 \in 1..Len(queue) /\ 1 < i + 1
          /\ queue'[i] = queue[i + 1]
      BY <1>2
    <3> QED
      BY <1>2, <3>1 DEF JournalInv, OrderInv
  <2> QED
    BY <1>1, <1>3, <1>4, <2>1, <2>2 DEF JournalInv, OrderInv
<1>10. OwedInv'
  BY <1>1, <1>4, <1>h DEF JournalInv, OwedInv, Id
<1>11. DiskInv'
  <2>1. \A i \in 1..Len(disk) : LineOK(disk[i])'
    BY <1>1 DEF JournalInv, DiskInv, LineOK
  <2>2. \A i \in 1..Len(disk) : disk[i].by \in Dispatchers => (disk[i].n <= Handed(disk[i].by))'
    BY <1>1 DEF JournalInv, DiskInv, Handed
  <2>3. ClosingFollowsProgress' /\ NewestAccountsForGaps'
    BY <1>1 DEF JournalInv, DiskInv, ClosingFollowsProgress, NewestAccountsForGaps, Id,
                ProgressOnDisk
  <2> QED
    BY <1>1, <2>1, <2>2, <2>3 DEF DiskInv
<1>12. LossCounted'
  <2>1. /\ InFlight = Len(queue) + Cardinality(Busy) /\ Cardinality(Busy) \in Nat
        /\ ProgressOnDisk' = ProgressOnDisk
    BY <1>1, Counts DEF ProgressOnDisk
  <2>2. InFlight' = Len(queue') + 1 + Cardinality(Busy)
    BY <1>1, <1>3 DEF InFlight, Busy, InFlightPlaces
  <2>3. InFlight' = InFlight
    BY <1>2, <2>1, <2>2
  <2> QED
    BY <1>1, <2>1, <2>3 DEF JournalInv, LossCounted
<1>13. WindowErrComplete'
  BY <1>1 DEF JournalInv, WindowErrComplete, ProgressOnDisk
<1> QED
  BY <1>5, <1>6, <1>7, <1>8, <1>9, <1>10, <1>11, <1>12, <1>13 DEF JournalInv


\* The newest line stands alone: when a line on the way carries the number of all events
\* stamped, no other goroutine has stamped progress and nothing follows it.
LEMMA NewestAlone ==
    ASSUME JournalInv, Writing, writer.hand.n = stamped
    PROVE  queue = << >> /\ Busy = {} /\ writer.hand.total = coalesced
<1> DEFINE h == writer.hand
<1>1. h \in OnTheWay
  BY DEF OnTheWay
<1>2. h.by \in Dispatchers /\ h.n \in Nat
  BY <1>1, WayLines
<1>3. h.n >= 1 /\ h.n <= Handed(h.by) /\ h.total = coalesced
  BY <1>1 DEF JournalInv, WayInv
<1>4. \A e \in Dispatchers : disp[e].n \in Nat /\ disp[e].n <= stamped
  BY DispFields DEF JournalInv, Numbers
<1>5. stamped \in Nat
  BY ShapesOf
<1>6. disp[h.by].n = stamped /\ disp[h.by].at \notin InFlightPlaces
  BY <1>2, <1>3, <1>4, <1>5 DEF Handed
<1>7. \A e \in Dispatchers : e # h.by => disp[e].n = 0
  <2> SUFFICES ASSUME NEW e \in Dispatchers, e # h.by PROVE disp[e].n = 0
    OBVIOUS
  <2>1. disp[e].n + disp[h.by].n <= stamped
    BY <1>2 DEF JournalInv, Numbers
  <2> QED
    BY <1>4, <1>5, <1>6, <2>1
<1>8. Busy = {}
  BY <1>6, <1>7 DEF Busy, JournalInv, Numbers
<1>9. queue = << >>
  <2> SUFFICES ASSUME queue # << >> PROVE FALSE
    OBVIOUS
  <2>1. 1 \in 1..Len(queue)
    BY ShapesOf
  <2>2. queue[1] \in OnTheWay
    BY <2>1 DEF OnTheWay, Queued
  <2>3. queue[1].by \in Dispatchers /\ queue[1].n \in Nat
    BY <2>2, WayLines
  <2>4. queue[1].n >= 1 /\ queue[1].n <= Handed(queue[1].by)
    BY <2>2 DEF JournalInv, WayInv
  <2>5. queue[1].n <= disp[queue[1].by].n
    BY <1>4, <2>3, <2>4 DEF Handed
  <2>6. queue[1].by = h.by
    BY <1>7, <2>3, <2>4, <2>5
  <2>7. h.n < queue[1].n
    BY <2>1, <2>6 DEF JournalInv, OrderInv
  <2> QED
    BY <1>2, <1>4, <1>5, <2>3, <2>5, <2>7
<1> QED
  BY <1>3, <1>8, <1>9

\* The number of all events stamped is on no line of the disk while one is on its way.
LEMMA NewestNotWritten ==
    ASSUME JournalInv, NEW i \in 1..Len(disk), disk[i].by \in Dispatchers,
           disk[i].n = stamped, NEW l \in OnTheWay
    PROVE  FALSE
<1>1. l.by \in Dispatchers /\ l.n \in Nat
  BY WayLines
<1>2. l.n >= 1 /\ l.n <= Handed(l.by) /\ (disk[i].by = l.by => disk[i].n < l.n)
  BY DEF JournalInv, WayInv, OrderInv
<1>3. \A e \in Dispatchers : disp[e].n \in Nat /\ disp[e].n <= stamped /\ stamped \in Nat
  BY DispFields DEF JournalInv, Numbers
<1>4. l.n <= disp[l.by].n
  BY <1>1, <1>2, <1>3 DEF Handed
<1>5. CASE disk[i].by = l.by
  BY <1>1, <1>2, <1>3, <1>4, <1>5
<1>6. CASE disk[i].by # l.by
  <2>1. disk[i].n <= Handed(disk[i].by)
    BY DEF JournalInv, DiskInv
  <2>2. disp[disk[i].by].n = stamped
    BY <1>3, <2>1 DEF Handed
  <2>3. disp[disk[i].by].n + disp[l.by].n <= stamped
    BY <1>1, <1>6 DEF JournalInv, Numbers
  <2> QED
    BY <1>1, <1>2, <1>3, <1>4, <2>2, <2>3
<1> QED
  BY <1>5, <1>6

\* The writer writes its line, or fails to.
LEMMA WriteProgressKeeps ==
    ASSUME JournalInv, WriteProgress
    PROVE  JournalInv'
<1> DEFINE h == writer.hand
<1>1. /\ UNCHANGED <<queue, coalesced, open, disp, pc, owed, stamps, stamped, winErr>>
      /\ writer.at = "write" /\ Writing /\ writeLine(h)
      /\ writer' = [writer EXCEPT !.at = writer.back, !.hand = << >>]
  BY DEF WriteProgress, Writing
<1>2. /\ writer'.at = writer.back /\ writer.back \in {"poll", "drain"}
      /\ writer'.serves = writer.serves /\ writer'.back = writer.back /\ ~Writing'
      /\ writer' \in [at : {"poll", "select", "drain", "write", "stopping", "retired"},
                      hand : ProgressLines \cup {<< >>}, back : {"poll", "drain"},
                      serves : Procs]
  BY <1>1 DEF JournalInv, Shapes, Writing
<1>3. h \in OnTheWay /\ OnTheWay' = Queued /\ Queued \subseteq OnTheWay
  BY <1>1, <1>2 DEF OnTheWay, Queued
<1>4. /\ h \in ProgressLines /\ h.by \in Dispatchers /\ h.n \in Nat /\ h.total \in Nat
      /\ h.owed = {}
  BY <1>3, WayLines
<1>5. h \in Lines /\ disk \in Seq(Lines)
  BY <1>4, ShapesOf DEF ProgressLines, Lines
<1>6. /\ \/ disk' = disk /\ failed' = TRUE
         \/ disk' = Append(disk, h) /\ ~failed
      /\ failed' \in BOOLEAN /\ (failed => failed')
  <2>1. failed \in BOOLEAN
    BY ShapesOf
  <2>2. CASE failed /\ UNCHANGED <<disk, failed>>
    BY <2>1, <2>2
  <2>3. CASE ~failed /\ open /\ disk' = Append(disk, h) /\ UNCHANGED failed
    BY <2>1, <2>3
  <2>4. CASE ~failed /\ failed' = TRUE /\ (disk' = disk \/ disk' = Append(disk, h))
    BY <2>4
  <2> QED
    BY <1>1, <2>2, <2>3, <2>4 DEF writeLine
<1>7. winErr = "unread"
  BY <1>3 DEF JournalInv, Flow, StopPlaces
<1>h. \A d \in Dispatchers : Handed(d)' = Handed(d)
  BY <1>1 DEF Handed
<1>w. \A l \in OnTheWay' : l \in OnTheWay /\ l.by \in Dispatchers
  BY <1>3, WayLines
<1>q. \A l \in Queued : l.by = h.by => h.n < l.n
  BY <1>1 DEF Queued, JournalInv, OrderInv
<1> HIDE DEF h
<1>8. Flow'
  BY <1>1, <1>2, <1>3 DEF JournalInv, Flow
<1>9. Numbers' /\ WayInv'
  BY <1>1, <1>h, <1>w DEF JournalInv, Numbers, WayInv
<1>10. WindowErrComplete'
  BY <1>1, <1>7 DEF WindowErrComplete
<1>11. CASE disk' = disk /\ failed' = TRUE
  <2>1. Shapes'
    BY <1>1, <1>2, <1>11 DEF JournalInv, Shapes
  <2>2. OrderInv'
    BY <1>1, <1>2, <1>11, <1>w DEF JournalInv, OrderInv
  <2>3. OwedInv'
    BY <1>1, <1>11, <1>h, <1>w DEF JournalInv, OwedInv, Id
  <2>4. DiskInv'
    <3>1. \A i \in 1..Len(disk) : LineOK(disk[i])'
      BY <1>1, <1>11 DEF JournalInv, DiskInv, LineOK
    <3>2. \A i \in 1..Len(disk) : disk[i].by \in Dispatchers => (disk[i].n <= Handed(disk[i].by))'
      BY <1>1, <1>11 DEF JournalInv, DiskInv, Handed
    <3>3. ClosingFollowsProgress' /\ NewestAccountsForGaps'
      BY <1>1, <1>11 DEF JournalInv, DiskInv, ClosingFollowsProgress,
         NewestAccountsForGaps, Id,
                  ProgressOnDisk
    <3> QED
      BY <1>11, <3>1, <3>2, <3>3 DEF DiskInv
  <2>5. LossCounted'
    BY <1>11 DEF LossCounted
  <2> QED
    BY <1>8, <1>9, <1>10, <2>1, <2>2, <2>3, <2>4, <2>5 DEF JournalInv
<1>12. CASE disk' = Append(disk, h) /\ ~failed
  <2>1. /\ disk' \in Seq(Lines) /\ Len(disk') = Len(disk) + 1 /\ Len(disk) \in Nat
        /\ \A i \in 1..Len(disk) : disk'[i] = disk[i]
        /\ disk'[Len(disk) + 1] = h
        /\ ProgressOnDisk' = ProgressOnDisk \cup {Len(disk) + 1}
        /\ Cardinality(ProgressOnDisk') = Cardinality(ProgressOnDisk) + 1
    BY <1>4, <1>5, <1>12, DiskAppend
  <2>2. \A i \in 1..Len(disk') : i \in 1..Len(disk) \/ i = Len(disk) + 1
    BY <2>1
  <2>3. Shapes'
    BY <1>1, <1>2, <1>6, <2>1 DEF JournalInv, Shapes
  <2>4. OrderInv'
    <3>1. \A i \in 1..Len(disk') : \A l \in OnTheWay' : disk'[i].by = l.by => disk'[i].n < l.n
      <4> SUFFICES ASSUME NEW i \in 1..Len(disk'), NEW l \in OnTheWay', disk'[i].by = l.by
                   PROVE  disk'[i].n < l.n
        OBVIOUS
      <4>1. CASE i \in 1..Len(disk)
        BY <1>w, <2>1, <4>1 DEF JournalInv, OrderInv
      <4>2. CASE i = Len(disk) + 1
        BY <1>3, <1>q, <2>1, <4>2
      <4> QED
        BY <2>2, <4>1, <4>2
    <3> QED
      BY <1>1, <1>2, <3>1 DEF JournalInv, OrderInv
  <2>5. OwedInv'
    <3>1. \A i \in 1..Len(disk') :
            (i \in 1..Len(disk) /\ disk'[i].owed = disk[i].owed) \/ disk'[i].owed = {}
      BY <1>4, <2>1, <2>2
    <3>2. \A i \in 1..Len(disk') : \A d \in Dispatchers, k \in Nat :
            <<d, k>> \in disk'[i].owed => k <= Handed(d)
      BY <3>1 DEF JournalInv, OwedInv
    <3>3. \A i \in 1..Len(disk') : \A l \in OnTheWay' : Id(l) \notin disk'[i].owed
      BY <1>w, <3>1 DEF JournalInv, OwedInv
    <3>4. \A p \in Procs : pc'[p] = "passed" => \A l \in OnTheWay' : Id(l) \notin owed'[p]
      BY <1>1, <1>w DEF JournalInv, OwedInv
    <3>5. \A p \in Procs : \A d \in Dispatchers, k \in Nat : <<d, k>> \in owed'[p] => k <= Handed(d)
      BY <1>1 DEF JournalInv, OwedInv
    <3> QED
      BY <1>h, <3>2, <3>3, <3>4, <3>5 DEF OwedInv, Id
  <2>6. h.n >= 1 /\ h.n <= Handed(h.by) /\ h.total <= coalesced
    BY <1>3 DEF JournalInv, WayInv
  <2>7. (\A i \in 1..Len(disk) : LineOK(disk[i]))'
    <3>1. LineOK(h)
      <4>1. disp[h.by].n \in Nat /\ disp[h.by].n <= stamped /\ stamped <= MaxProgress
        BY <1>4, DispFields DEF JournalInv, Numbers
      <4>2. /\ coalesced \in Nat /\ stamped \in Nat /\ MaxProgress \in Nat /\ MaxStamps \in Nat
            /\ h.n <= disp[h.by].n
        BY <1>4, <2>6, <4>1, ShapesOf, JournalAssumption DEF Handed
      <4>3. h.n \in 1..(MaxProgress + MaxStamps + 1) /\ h.total \in 0..coalesced
        BY <1>4, <2>6, <4>1, <4>2
      <4> QED
        BY <1>4, <4>3 DEF LineOK
    <3>2. \A i \in 1..Len(disk') : LineOK(disk'[i])
      BY <2>1, <2>2, <3>1 DEF JournalInv, DiskInv
    <3> QED
      BY <1>1, <3>2 DEF LineOK
  <2>8. (\A i \in 1..Len(disk) : disk[i].by \in Dispatchers => disk[i].n <= Handed(disk[i].by))'
    <3>1. \A i \in 1..Len(disk') : disk'[i].by \in Dispatchers => disk'[i].n <= Handed(disk'[i].by)
      BY <2>1, <2>2, <2>6 DEF JournalInv, DiskInv
    <3> QED
      BY <1>1, <3>1 DEF Handed
  <2>9. ClosingFollowsProgress'
    <3> SUFFICES ASSUME NEW i \in 1..Len(disk'), NEW j \in 1..Len(disk'), i < j,
                        disk'[j].by \in Dispatchers
                 PROVE  Id(disk'[j]) \notin disk'[i].owed
      BY <2>1 DEF ClosingFollowsProgress, Id
    <3>1. i \in 1..Len(disk) /\ disk'[i] = disk[i]
      BY <2>1
    <3>2. CASE j \in 1..Len(disk)
      <4>1. DOMAIN disk = 1..Len(disk)
        BY Counts
      <4> QED
        BY <2>1, <3>1, <3>2, <4>1 DEF JournalInv, DiskInv, ClosingFollowsProgress
    <3>3. CASE j = Len(disk) + 1
      BY <1>3, <2>1, <3>1, <3>3 DEF JournalInv, OwedInv
    <3> QED
      BY <2>2, <3>2, <3>3
  <2>10. NewestAccountsForGaps'
    <3> SUFFICES ASSUME NEW i \in ProgressOnDisk', disk'[i].n = stamped
                 PROVE  disk'[i].n = Cardinality(ProgressOnDisk') + disk'[i].total
      BY <1>1 DEF NewestAccountsForGaps
    <3>1. CASE i \in ProgressOnDisk
      <4>1. i \in 1..Len(disk) /\ disk[i].by \in Dispatchers
        BY <3>1, Counts DEF ProgressOnDisk
      <4> QED
        BY <1>3, <2>1, <4>1, NewestNotWritten
    <3>2. CASE i = Len(disk) + 1
      <4>1. disk'[i] = h /\ h.n = stamped
        BY <2>1, <3>2
      <4>2. queue = << >> /\ Busy = {} /\ h.total = coalesced
        BY <1>1, <4>1, NewestAlone DEF h
      <4>3. InFlight = 1
        <5>1. Len(queue) = 0 /\ Cardinality(Busy) = 0
          BY <4>2, FS_EmptySet
        <5> QED
          BY <1>1, <5>1, Counts
      <4>4. stamped = Cardinality(ProgressOnDisk) + 1 + coalesced
        BY <1>12, <4>3 DEF JournalInv, LossCounted
      <4> QED
        BY <2>1, <4>1, <4>2, <4>4
    <3> QED
      BY <2>1, <3>1, <3>2
  <2>11. LossCounted'
    <3>1. /\ InFlight = Len(queue) + 1 + Cardinality(Busy) /\ Cardinality(Busy) \in Nat
          /\ Len(queue) \in Nat /\ Cardinality(ProgressOnDisk) \in Nat
      BY <1>1, Counts
    <3>2. InFlight' = Len(queue) + Cardinality(Busy)
      <4>1. InFlight' = Len(queue) + 0 + Cardinality(Busy)
        BY <1>1, <1>2 DEF InFlight, Busy, InFlightPlaces
      <4> QED
        BY <3>1, <4>1
    <3>3. stamped = Cardinality(ProgressOnDisk) + InFlight + coalesced
      BY <1>12 DEF JournalInv, LossCounted
    <3>4. stamped = (Cardinality(ProgressOnDisk) + 1) + InFlight' + coalesced
      BY <3>1, <3>2, <3>3, ShapesOf
    <3> QED
      BY <1>1, <2>1, <3>4 DEF LossCounted
  <2>12. DiskInv'
    BY <2>7, <2>8, <2>9, <2>10 DEF DiskInv
  <2> QED
    BY <1>8, <1>9, <1>10, <2>3, <2>4, <2>5, <2>11, <2>12 DEF JournalInv
<1> QED
  BY <1>6, <1>11, <1>12

\* A goroutine past its barrier writes its event, or fails to.
LEMMA WriteStampKeeps ==
    ASSUME JournalInv, NEW p \in Procs, WriteStamp(p)
    PROVE  JournalInv'
<1> DEFINE l == Line(p, stamps[p], 0, owed[p])
<1>1. /\ UNCHANGED <<queue, coalesced, open, writer, disp, stamps, stamped, winErr>>
      /\ pc[p] = "passed" /\ writeLine(l)
      /\ pc' = [pc EXCEPT ![p] = "idle"]
      /\ owed' = [owed EXCEPT ![p] = {}]
  BY DEF WriteStamp
<1>2. /\ pc \in [Procs -> Places] /\ owed \in [Procs -> SUBSET Ids] /\ stamps \in [Procs -> Nat]
      /\ disk \in Seq(Lines)
  BY ShapesOf
<1>3. /\ l \in Lines /\ l.by = p /\ l.n = stamps[p] /\ l.total = 0 /\ l.owed = owed[p]
      /\ l.by \notin Dispatchers
  BY <1>2, Apart DEF Line, Lines
<1>4. /\ disk' = disk \/ disk' = Append(disk, l)
      /\ failed' \in BOOLEAN /\ (failed => failed')
  <2>1. failed \in BOOLEAN
    BY ShapesOf
  <2>2. CASE failed /\ UNCHANGED <<disk, failed>>
    BY <2>1, <2>2
  <2>3. CASE ~failed /\ open /\ disk' = Append(disk, l) /\ UNCHANGED failed
    BY <2>1, <2>3
  <2>4. CASE ~failed /\ failed' = TRUE /\ (disk' = disk \/ disk' = Append(disk, l))
    BY <2>4
  <2> QED
    BY <1>1, <2>2, <2>3, <2>4 DEF writeLine
<1> HIDE DEF l
<1>5. /\ pc' \in [Procs -> Places] /\ pc'[p] = "idle"
      /\ \A q \in Procs \ {p} : pc'[q] = pc[q]
  BY <1>1, <1>2 DEF Places
<1>6. /\ owed' \in [Procs -> SUBSET Ids] /\ owed'[p] = {}
      /\ \A q \in Procs \ {p} : owed'[q] = owed[q]
  BY <1>1, <1>2
<1>7. OnTheWay' = OnTheWay /\ (Writing' <=> Writing) /\ InFlight' = InFlight
  BY <1>1 DEF OnTheWay, Queued, Writing, InFlight
<1>h. \A d \in Dispatchers : Handed(d)' = Handed(d)
  BY <1>1 DEF Handed
<1>w. \A k \in OnTheWay : k.by \in Dispatchers
  BY WayLines
<1>8. /\ disk' \in Seq(Lines) /\ ProgressOnDisk' = ProgressOnDisk
      /\ Len(disk) \in Nat /\ Len(disk') \in Nat /\ Len(disk) <= Len(disk')
      /\ DOMAIN disk' = 1..Len(disk')
      /\ \A i \in 1..Len(disk) : disk'[i] = disk[i]
      /\ \A i \in 1..Len(disk') : i \in 1..Len(disk) \/ (i = Len(disk) + 1 /\ disk'[i] = l)
  <2>1. CASE disk' = disk
    BY <1>2, <2>1 DEF ProgressOnDisk
  <2>2. CASE disk' = Append(disk, l)
    <3>1. /\ disk' \in Seq(Lines) /\ Len(disk') = Len(disk) + 1 /\ Len(disk) \in Nat
          /\ \A i \in 1..Len(disk) : disk'[i] = disk[i]
          /\ disk'[Len(disk) + 1] = l /\ ProgressOnDisk' = ProgressOnDisk
      BY <1>2, <1>3, <2>2, DiskAppend
    <3> QED
      BY <3>1
  <2> QED
    BY <1>4, <2>1, <2>2
<1>9. Shapes'
  BY <1>1, <1>4, <1>5, <1>6, <1>8 DEF JournalInv, Shapes, Writing
<1>10. Flow'
  <2>1. /\ \A q \in Procs : pc'[q] \in StopPlaces => pc[q] \in StopPlaces
        /\ \A q \in Procs : pc'[q] \in {"offer", "wait", "passed"} =>
                            pc[q] \in {"offer", "wait", "passed"}
        /\ pc'[Main] \notin {"offer", "wait"} => pc[Main] \notin {"offer", "wait"}
        /\ pc[Main] \in {"passedStop", "closed"} => pc'[Main] = pc[Main]
        /\ pc[Main] = "idle" => pc'[Main] = "idle"
        /\ pc[Main] \in StopPlaces => pc'[Main] = pc[Main]
    BY <1>1, <1>5, Apart DEF StopPlaces
  <2>2. writer.at = "drain" \/ (Writing /\ writer.back = "drain") =>
          pc'[writer.serves] \in {"wait", "waitStop"}
    <3>1. writer.serves \in Procs
      BY ShapesOf
    <3> QED
      BY <1>1, <1>5, <3>1 DEF JournalInv, Flow
  <2> QED
    BY <1>1, <1>7, <2>1, <2>2, Apart DEF JournalInv, Flow
<1>11. Numbers' /\ WayInv'
  BY <1>1, <1>7, <1>h, <1>w DEF JournalInv, Numbers, WayInv
<1>12. OrderInv'
  <2>1. \A i \in 1..Len(disk') : \A k \in OnTheWay : disk'[i].by = k.by => disk'[i].n < k.n
    <3> SUFFICES ASSUME NEW i \in 1..Len(disk'), NEW k \in OnTheWay, disk'[i].by = k.by
                 PROVE  disk'[i].n < k.n
      OBVIOUS
    <3>1. i \in 1..Len(disk)
      BY <1>3, <1>8, <1>w
    <3> QED
      BY <1>8, <3>1 DEF JournalInv, OrderInv
  <2> QED
    BY <1>1, <1>7, <2>1 DEF JournalInv, OrderInv
<1>13. OwedInv'
  <2>1. \A q \in Procs : \A d \in Dispatchers, k \in Nat : <<d, k>> \in owed'[q] => k <= Handed(d)
    BY <1>6 DEF JournalInv, OwedInv
  <2>2. \A q \in Procs : pc'[q] = "passed" => \A k \in OnTheWay : Id(k) \notin owed'[q]
    BY <1>5, <1>6 DEF JournalInv, OwedInv
  <2>3. \A i \in 1..Len(disk') : \A d \in Dispatchers, k \in Nat :
          <<d, k>> \in disk'[i].owed => k <= Handed(d)
    BY <1>3, <1>8 DEF JournalInv, OwedInv
  <2>4. \A i \in 1..Len(disk') : \A k \in OnTheWay : Id(k) \notin disk'[i].owed
    BY <1>1, <1>3, <1>8 DEF JournalInv, OwedInv
  <2> QED
    BY <1>7, <1>h, <2>1, <2>2, <2>3, <2>4 DEF OwedInv, Id
<1>14. DiskInv'
  <2>1. LineOK(l)
    <3>1. stamps[p] \in Nat /\ stamps[p] >= 1 /\ (stamps[p] <= MaxStamps \/ stamps[p] = 1)
      BY <1>1, <1>2 DEF JournalInv, Flow, Procs
    <3>2. MaxStamps \in Nat /\ MaxProgress \in Nat /\ coalesced \in Nat
      BY ShapesOf, JournalAssumption
    <3>3. stamps[p] \in 1..(MaxProgress + MaxStamps + 1) /\ 0 \in 0..coalesced
      BY <3>1, <3>2
    <3> QED
      BY <1>3, <3>3 DEF LineOK
  <2>2. \A i \in 1..Len(disk') : LineOK(disk'[i])
    BY <1>8, <2>1 DEF JournalInv, DiskInv
  <2>3. (\A i \in 1..Len(disk) : LineOK(disk[i]))'
    BY <1>1, <2>2 DEF LineOK
  <2>4. \A i \in 1..Len(disk') : disk'[i].by \in Dispatchers => disk'[i].n <= Handed(disk'[i].by)
    BY <1>3, <1>8 DEF JournalInv, DiskInv
  <2>5. (\A i \in 1..Len(disk) : disk[i].by \in Dispatchers => disk[i].n <= Handed(disk[i].by))'
    BY <1>1, <2>4 DEF Handed
  <2>6. ClosingFollowsProgress'
    <3> SUFFICES ASSUME NEW i \in 1..Len(disk'), NEW j \in 1..Len(disk'), i < j,
                        disk'[j].by \in Dispatchers
                 PROVE  Id(disk'[j]) \notin disk'[i].owed
      BY <1>8 DEF ClosingFollowsProgress, Id
    <3>1. j \in 1..Len(disk) /\ i \in 1..Len(disk) /\ DOMAIN disk = 1..Len(disk)
      BY <1>3, <1>8, Counts
    <3> QED
      BY <1>8, <3>1 DEF JournalInv, DiskInv, ClosingFollowsProgress
  <2>7. NewestAccountsForGaps'
    <3>1. \A i \in ProgressOnDisk : disk'[i] = disk[i]
      BY <1>8, Counts DEF ProgressOnDisk
    <3> QED
      BY <1>1, <1>8, <3>1 DEF JournalInv, DiskInv, NewestAccountsForGaps
  <2> QED
    BY <2>3, <2>5, <2>6, <2>7 DEF DiskInv
<1>15. LossCounted' /\ WindowErrComplete'
  BY <1>1, <1>4, <1>7, <1>8 DEF JournalInv, LossCounted, WindowErrComplete
<1> QED
  BY <1>9, <1>10, <1>11, <1>12, <1>13, <1>14, <1>15 DEF JournalInv

-----------------------------------------------------------------------------
(* The theorems.                                                             *)

\* It holds at first.
LEMMA JournalInit == Init => JournalInv
<1> SUFFICES ASSUME Init PROVE JournalInv
  OBVIOUS
<1>1. /\ queue = << >> /\ disk = << >> /\ Len(queue) = 0 /\ Len(disk) = 0
      /\ coalesced = 0 /\ stamped = 0 /\ failed = FALSE /\ open = TRUE /\ winErr = "unread"
      /\ DOMAIN disk = {}
  BY DEF Init
<1>2. /\ writer.at = "poll" /\ ~Writing
      /\ writer \in [at : {"poll", "select", "drain", "write", "stopping", "retired"},
                     hand : ProgressLines \cup {<< >>}, back : {"poll", "drain"},
                     serves : Procs]
  BY Apart DEF Init, Writing
<1>3. \A d \in Dispatchers : disp[d].at = "run" /\ disp[d].n = 0 /\ disp[d].total = 0
  BY DEF Init
<1>4. \A p \in Procs : pc[p] = "idle" /\ stamps[p] = 0 /\ owed[p] = {}
  BY DEF Init
<1>5. OnTheWay = {} /\ ProgressOnDisk = {} /\ Busy = {}
  BY <1>1, <1>2, <1>3 DEF OnTheWay, Queued, ProgressOnDisk, Busy, InFlightPlaces
<1>6. Shapes
  <2>1. /\ queue \in Seq(ProgressLines) /\ disk \in Seq(Lines)
        /\ coalesced \in Nat /\ stamped \in Nat
    BY <1>1
  <2>2. /\ disp \in [Dispatchers -> [at : InFlightPlaces \cup {"run", "done"}, n : Nat, total : Nat]]
        /\ pc \in [Procs -> Places] /\ owed \in [Procs -> SUBSET Ids]
        /\ stamps \in [Procs -> Nat]
    BY DEF Init, Places
  <2>3. failed \in BOOLEAN /\ open \in BOOLEAN /\ winErr \in {"unread", "nil", "error"}
    BY <1>1
  <2> QED
    BY <1>2, <2>1, <2>2, <2>3 DEF Shapes
<1>7. Flow
  <2>1. \A p \in Stampers : stamps[p] <= MaxStamps
    BY <1>4, JournalAssumption DEF Procs
  <2> QED
    BY <1>1, <1>2, <1>3, <1>4, <1>5, <2>1, Apart DEF Flow, StopPlaces
<1>8. Numbers
  BY <1>1, <1>3, JournalAssumption DEF Numbers, InFlightPlaces
<1>9. WayInv /\ OrderInv /\ OwedInv
  BY <1>1, <1>2, <1>4, <1>5 DEF WayInv, OrderInv, OwedInv
<1>10. DiskInv
  BY <1>1, <1>5 DEF DiskInv, ClosingFollowsProgress, NewestAccountsForGaps
<1>11. LossCounted /\ WindowErrComplete
  <2>1. InFlight = Len(queue) + 0 + Cardinality(Busy)
    BY <1>2 DEF InFlight, Busy, InFlightPlaces
  <2>2. Cardinality(Busy) = 0 /\ Cardinality(ProgressOnDisk) = 0
    BY <1>5, FS_EmptySet
  <2> QED
    BY <1>1, <2>1, <2>2 DEF LossCounted, WindowErrComplete
<1> QED
  BY <1>6, <1>7, <1>8, <1>9, <1>10, <1>11 DEF JournalInv

\* Every step keeps it.
LEMMA JournalNext == JournalInv /\ [Next]_vars => JournalInv'
<1> SUFFICES ASSUME JournalInv, [Next]_vars PROVE JournalInv'
  OBVIOUS
<1>1. CASE \E d \in Dispatchers : StampProgress(d) \/ InStampProgress(d) \/ RunReturns(d)
  BY <1>1, StampProgressKeeps, LoadCoalescedKeeps, TrySendKeeps, PopOldestKeeps,
     ResendKeeps,
     RunReturnsKeeps DEF InStampProgress
<1>2. CASE Writer
  <2>1. CASE Poll
    BY <2>1, TakeLineKeeps, PollEmptyKeeps DEF Poll
  <2>2. CASE SelectLine
    BY <2>2, TakeLineKeeps DEF SelectLine
  <2>3. CASE \E p \in Procs : SelectBarrier(p)
    BY <2>3, SelectBarrierKeeps
  <2>4. CASE Drain
    BY <2>4, TakeLineKeeps, ReleaseKeeps DEF Drain
  <2> QED
    BY <1>2, <2>1, <2>2, <2>3, <2>4, RetireKeeps, WriteProgressKeeps DEF Writer
<1>3. CASE \E p \in Procs : Stamp(p) \/ InStamp(p)
  BY <1>3, StampKeeps, AwaitGivesUpKeeps, WriteStampKeeps DEF InStamp
<1>4. CASE InClose
  BY <1>4, ReadErrKeeps, CloseKeeps, CloseFileKeeps DEF InClose
<1>5. CASE UNCHANGED vars
  <2>1. /\ UNCHANGED <<queue, coalesced, disk, failed, open, writer, disp, pc, owed, stamps,
                       stamped, winErr>>
        /\ (Writing' <=> Writing)
    BY <1>5 DEF vars, Writing
  <2>2. OnTheWay' = OnTheWay
    BY <2>1 DEF OnTheWay, Queued
  <2>3. Shapes' /\ Flow' /\ WindowErrComplete'
    BY <2>1, <2>2 DEF JournalInv, Shapes, Flow, WindowErrComplete, ProgressOnDisk
  <2> QED
    BY <2>1, <2>3, OwedAtHand, QuietKeeps
<1> QED
  BY <1>1, <1>2, <1>3, <1>4, <1>5 DEF Next

\* THEOREM.  The invariant of the run journal holds in every state: whatever the
\* interleaving of the dispatchers, the writer's select and the stamping goroutines.
THEOREM JournalInvariant == Spec => []JournalInv
<1>1. Init => JournalInv
  BY JournalInit
<1>2. JournalInv /\ [Next]_vars => JournalInv'
  BY JournalNext
<1> QED
  BY <1>1, <1>2, PTL DEF Spec

\* THEOREM.  The record of the window can be trusted, for any number of goroutines and
\* any capacity of the queue: lines follow in order, none is lost uncounted, the newest
\* tells how many are missing, and the window misses no error (journal.go).
THEOREM JournalRecordComplete == Spec => []RecordComplete
<1>1. JournalInv => RecordComplete
  <2> SUFFICES ASSUME JournalInv PROVE RecordComplete
    OBVIOUS
  <2>1. DOMAIN queue = 1..Len(queue) /\ DOMAIN disk = 1..Len(disk)
    BY Counts
  <2>2. \A l \in OnTheWay : LineOK(l)
    <3> TAKE l \in OnTheWay
    <3>1. l.by \in Dispatchers /\ l.n \in Nat /\ l.total \in Nat
      BY WayLines
    <3>2. l.n >= 1 /\ l.n <= Handed(l.by) /\ l.total <= coalesced
      BY DEF JournalInv, WayInv
    <3>3. disp[l.by].n \in Nat /\ disp[l.by].n <= stamped /\ stamped <= MaxProgress
      BY <3>1, DispFields DEF JournalInv, Numbers
    <3>4. /\ coalesced \in Nat /\ stamped \in Nat /\ MaxProgress \in Nat /\ MaxStamps \in Nat
          /\ l.n <= disp[l.by].n
      BY <3>1, <3>2, <3>3, ShapesOf, JournalAssumption DEF Handed
    <3>5. l.n \in 1..(MaxProgress + MaxStamps + 1) /\ l.total \in 0..coalesced
      BY <3>1, <3>2, <3>3, <3>4
    <3> QED
      BY <3>1, <3>5 DEF LineOK
  <2>3. /\ \A i \in DOMAIN queue : queue[i] \in OnTheWay
        /\ writer.at = "write" => writer.hand \in OnTheWay
    BY <2>1 DEF OnTheWay, Queued, Writing
  <2>4. TypeOK
    BY <2>1, <2>2, <2>3, ShapesOf DEF TypeOK, JournalInv, Numbers, DiskInv
  <2> QED
    BY <2>4 DEF RecordComplete, JournalInv, DiskInv
<1> QED
  BY <1>1, JournalInvariant, PTL

=============================================================================
