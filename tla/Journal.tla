-------------------------------- MODULE Journal --------------------------------
(***************************************************************************)
(* The run journal (journal.go) inside one measured ballot window.         *)
(*                                                                         *)
(* The dispatcher hands ballots.progress lines to a private writer         *)
(* goroutine through a bounded queue and never waits for it.  Every other  *)
(* event is stamped by the goroutine that has something to say (the peer   *)
(* fault, the sampler, the window itself), which first makes the writer    *)
(* pass a barrier.  The window's own goroutine, once the dispatcher is     *)
(* done, stamps the closing event, asks the journal for its error and      *)
(* closes it, while the other goroutines may still be stamping.            *)
(*                                                                         *)
(* A line is its author and its number; "total" is the coalesced_total it  *)
(* carries (0 when the field is absent).  "owed", a history field, is the  *)
(* set of progress lines already handed over and not yet written when the  *)
(* Stamp of this line began.                                               *)
(***************************************************************************)
EXTENDS Integers, Sequences, FiniteSets

CONSTANTS
    Dispatchers,     \* goroutines that stamp ballots.progress
    Stampers,        \* other goroutines that stamp during the window
    Main,            \* the goroutine of the window, which closes the journal
    QueueCap,        \* progressQueue
    MaxProgress,     \* bound: progress events in all
    MaxStamps        \* bound: events of one other goroutine

ASSUME JournalAssumption ==
    /\ Main \notin Stampers
    /\ Dispatchers \intersect (Stampers \union {Main}) = {}
    /\ IsFiniteSet(Dispatchers)
    /\ QueueCap \in Nat \ {0} /\ MaxProgress \in Nat /\ MaxStamps \in Nat

Procs == Stampers \union {Main}

VARIABLES
    queue,       \* the progress channel
    coalesced,   \* how many progress lines were coalesced away
    disk,        \* the lines of journal.ndjson
    failed,      \* the sticky write or sync error
    open,        \* the file is open
    writer,      \* the progress writer: where it is, the line in hand, whom it serves
    disp,        \* disp[d]: where d is in stampProgress, its line's number and total
    pc,          \* pc[p]: where p is in Stamp or Close
    owed,        \* owed[p]: history, see above
    stamps,      \* stamps[p]: events p has stamped
    stamped,     \* history: progress events stamped, by all dispatchers
    winErr       \* what the window read from Err(): "unread", "nil" or "error"

vars == <<queue, coalesced, disk, failed, open, writer, disp, pc, owed, stamps,
          stamped, winErr>>

Line(by, n, total, before) ==
    [by |-> by, n |-> n, total |-> total, owed |-> before]
Id(l) == <<l.by, l.n>>

Init ==
    /\ queue = << >> /\ coalesced = 0
    /\ disk = << >> /\ failed = FALSE /\ open = TRUE
    /\ writer = [at |-> "poll", hand |-> << >>, back |-> "poll", serves |-> Main]
    /\ disp = [d \in Dispatchers |-> [at |-> "run", n |-> 0, total |-> 0]]
    /\ pc = [p \in Procs |-> "idle"]
    /\ owed = [p \in Procs |-> {}]
    /\ stamps = [p \in Procs |-> 0]
    /\ stamped = 0
    /\ winErr = "unread"

Retired == writer.at = "retired"

\* One write and fsync under the mutex.  An earlier error is sticky; a write
\* error leaves no line, a sync error leaves it; a closed file only errs.
writeLine(l) ==
    \/ failed /\ UNCHANGED <<disk, failed>>
    \/ ~failed /\ open /\ disk' = Append(disk, l) /\ UNCHANGED failed
    \/ ~failed /\ failed' = TRUE
       /\ disk' \in {disk} \union (IF open THEN {Append(disk, l)} ELSE {})

-----------------------------------------------------------------------------
(* stampProgress, on the dispatcher.                                       *)

\* A retired journal discards the line.
StampProgress(d) ==
    /\ disp[d].at = "run"
    /\ stamped < MaxProgress /\ stamped' = stamped + 1
    /\ disp' = [disp EXCEPT ![d] =
            [at |-> IF Retired THEN "run" ELSE "load", n |-> @.n + 1, total |-> 0]]
    /\ UNCHANGED <<queue, coalesced, disk, failed, open, writer, pc, owed, stamps,
                   winErr>>

LoadCoalesced(d) ==
    /\ disp[d].at = "load"
    /\ disp' = [disp EXCEPT ![d].at = "send", ![d].total = coalesced]
    /\ UNCHANGED <<queue, coalesced, disk, failed, open, writer, pc, owed, stamps,
                   stamped, winErr>>

Enqueue(d) == queue' = Append(queue, Line(d, disp[d].n, disp[d].total, {}))

TrySend_Blocking(d) ==
    /\ disp[d].at = "send"
    /\ Len(queue) < QueueCap
    /\ Enqueue(d)
    /\ disp' = [disp EXCEPT ![d].at = "run"]
    /\ UNCHANGED <<coalesced, disk, failed, open, writer, pc, owed, stamps,
                   stamped, winErr>>
TrySend(d) ==
    /\ disp[d].at = "send"
    /\ \/ Len(queue) < QueueCap /\ Enqueue(d)
          /\ disp' = [disp EXCEPT ![d].at = "run"]
       \/ Len(queue) = QueueCap /\ UNCHANGED queue
          /\ disp' = [disp EXCEPT ![d].at = "pop"]
    /\ UNCHANGED <<coalesced, disk, failed, open, writer, pc, owed, stamps,
                   stamped, winErr>>

PopOldest_Uncounted(d) ==
    /\ disp[d].at = "pop"
    /\ \/ queue # << >> /\ queue' = Tail(queue)
          /\ disp' = [disp EXCEPT ![d].at = "resend"]
       \/ queue = << >> /\ UNCHANGED queue
          /\ disp' = [disp EXCEPT ![d].at = "resend"]
    /\ UNCHANGED <<coalesced, disk, failed, open, writer, pc, owed, stamps,
                   stamped, winErr>>

\* The writer may have made room, or emptied the queue, since TrySend.
PopOldest(d) ==
    /\ disp[d].at = "pop"
    /\ \/ queue # << >> /\ queue' = Tail(queue) /\ coalesced' = coalesced + 1
          /\ disp' = [disp EXCEPT ![d].at = "resend", ![d].total = coalesced + 1]
       \/ queue = << >> /\ UNCHANGED <<queue, coalesced>>
          /\ disp' = [disp EXCEPT ![d].at = "resend"]
    /\ UNCHANGED <<disk, failed, open, writer, pc, owed, stamps, stamped, winErr>>

Resend_Uncounted(d) ==
    /\ disp[d].at = "resend"
    /\ \/ Len(queue) < QueueCap /\ Enqueue(d)
       \/ Len(queue) = QueueCap /\ UNCHANGED queue
    /\ disp' = [disp EXCEPT ![d].at = "run"]
    /\ UNCHANGED <<coalesced, disk, failed, open, writer, pc, owed, stamps,
                   stamped, winErr>>
Resend(d) ==
    /\ disp[d].at = "resend"
    /\ \/ Len(queue) < QueueCap /\ Enqueue(d) /\ UNCHANGED coalesced
       \/ Len(queue) = QueueCap /\ coalesced' = coalesced + 1 /\ UNCHANGED queue
    /\ disp' = [disp EXCEPT ![d].at = "run"]
    /\ UNCHANGED <<disk, failed, open, writer, pc, owed, stamps, stamped, winErr>>

\* bench.Run returns: all ballots are dispatched, or it was stopped.
RunReturns(d) ==
    /\ disp[d].at = "run"
    /\ disp' = [disp EXCEPT ![d].at = "done"]
    /\ UNCHANGED <<queue, coalesced, disk, failed, open, writer, pc, owed, stamps,
                   stamped, winErr>>

InStampProgress(d) ==
    \/ LoadCoalesced(d)
    \/ TrySend(d)
    \/ PopOldest(d)
    \/ Resend(d)

-----------------------------------------------------------------------------
(* writeProgress, on the writer goroutine.                                 *)

TakeLine(back) ==
    /\ queue # << >>
    /\ writer' = [writer EXCEPT !.at = "write", !.hand = Head(queue), !.back = back]
    /\ queue' = Tail(queue)
    /\ UNCHANGED <<coalesced, disk, failed, open, disp, pc, owed, stamps, stamped,
                   winErr>>

Goto(place) ==
    /\ writer' = [writer EXCEPT !.at = place]
    /\ UNCHANGED <<queue, coalesced, disk, failed, open, disp, owed, stamps,
                   stamped, winErr>>

\* Lines first.
Poll ==
    /\ writer.at = "poll"
    /\ \/ TakeLine("poll")
       \/ queue = << >> /\ Goto("select") /\ UNCHANGED pc

\* Then a line or a barrier, whichever the select picks.
SelectLine == writer.at = "select" /\ TakeLine("poll")
SelectBarrier(p) ==
    /\ writer.at = "select"
    /\ pc[p] \in {"offer", "offerStop"}
    /\ pc' = [pc EXCEPT ![p] = IF @ = "offer" THEN "wait" ELSE "waitStop"]
    /\ writer' = [writer EXCEPT !.at = "drain", !.serves = p]
    /\ UNCHANGED <<queue, coalesced, disk, failed, open, disp, owed, stamps,
                   stamped, winErr>>

Release_NeverStop ==
    /\ pc' = [pc EXCEPT ![writer.serves] =
            IF @ = "wait" THEN "passed" ELSE "passedStop"]
    /\ Goto("poll")
Release ==
    /\ pc' = [pc EXCEPT ![writer.serves] =
            IF @ = "wait" THEN "passed" ELSE "passedStop"]
    /\ Goto(IF pc[writer.serves] = "waitStop" THEN "stopping" ELSE "poll")

Drain_ReleaseFirst == writer.at = "drain" /\ Release

\* The queue is drained again before the barrier is released.
Drain ==
    /\ writer.at = "drain"
    /\ \/ TakeLine("drain")
       \/ queue = << >> /\ Release

Retire == writer.at = "stopping" /\ Goto("retired") /\ UNCHANGED pc

WriteProgress ==
    /\ writer.at = "write"
    /\ writeLine(writer.hand)
    /\ writer' = [writer EXCEPT !.at = writer.back, !.hand = << >>]
    /\ UNCHANGED <<queue, coalesced, open, disp, pc, owed, stamps, stamped,
                   winErr>>

Writer ==
    \/ Poll
    \/ SelectLine
    \/ \E p \in Procs : SelectBarrier(p)
    \/ Drain
    \/ Retire
    \/ WriteProgress

-----------------------------------------------------------------------------
(* Stamp and Close, on the other goroutines.                               *)

HandedOver ==
    {Id(queue[i]) : i \in DOMAIN queue}
    \union (IF writer.at = "write" THEN {Id(writer.hand)} ELSE {})

\* The window stamps its closing event once, when its dispatchers are done.
MayStamp(p) ==
    IF p = Main
    THEN stamps[Main] = 0 /\ \A d \in Dispatchers : disp[d].at = "done"
    ELSE stamps[p] < MaxStamps

Stamp(p) ==
    /\ pc[p] = "idle"
    /\ MayStamp(p)
    /\ pc' = [pc EXCEPT ![p] = "offer"]
    /\ owed' = [owed EXCEPT ![p] = HandedOver]
    /\ stamps' = [stamps EXCEPT ![p] = @ + 1]
    /\ UNCHANGED <<queue, coalesced, disk, failed, open, writer, disp, stamped,
                   winErr>>

\* Both waits of await end when the writer has retired.
AwaitGivesUp_OnlyOnceTaken(p) ==
    /\ Retired
    /\ pc[p] \in {"wait", "waitStop"}
    /\ pc' = [pc EXCEPT ![p] = IF @ = "wait" THEN "passed" ELSE "passedStop"]
    /\ UNCHANGED <<queue, coalesced, disk, failed, open, writer, disp, owed,
                   stamps, stamped, winErr>>
AwaitGivesUp(p) ==
    /\ Retired
    /\ pc[p] \in {"offer", "wait", "offerStop", "waitStop"}
    /\ pc' = [pc EXCEPT ![p] = IF @ \in {"offer", "wait"} THEN "passed"
                               ELSE "passedStop"]
    /\ UNCHANGED <<queue, coalesced, disk, failed, open, writer, disp, owed,
                   stamps, stamped, winErr>>

WriteStamp(p) ==
    /\ pc[p] = "passed"
    /\ writeLine(Line(p, stamps[p], 0, owed[p]))
    /\ pc' = [pc EXCEPT ![p] = "idle"]
    /\ owed' = [owed EXCEPT ![p] = {}]
    /\ UNCHANGED <<queue, coalesced, open, writer, disp, stamps, stamped, winErr>>

ReadErr_Early ==
    /\ winErr = "unread"
    /\ \A d \in Dispatchers : disp[d].at = "done"
    /\ winErr' = IF failed THEN "error" ELSE "nil"
    /\ UNCHANGED <<queue, coalesced, disk, failed, open, writer, disp, pc, owed,
                   stamps, stamped>>

\* journalWindowErr, after the closing event.
ReadErr ==
    /\ stamps[Main] = 1 /\ pc[Main] = "idle" /\ winErr = "unread"
    /\ winErr' = IF failed THEN "error" ELSE "nil"
    /\ UNCHANGED <<queue, coalesced, disk, failed, open, writer, disp, pc, owed,
                   stamps, stamped>>

Close ==
    /\ pc[Main] = "idle" /\ winErr # "unread"
    /\ pc' = [pc EXCEPT ![Main] = "offerStop"]
    /\ UNCHANGED <<queue, coalesced, disk, failed, open, writer, disp, owed,
                   stamps, stamped, winErr>>

CloseFile ==
    /\ pc[Main] = "passedStop"
    /\ open' = FALSE
    /\ pc' = [pc EXCEPT ![Main] = "closed"]
    /\ UNCHANGED <<queue, coalesced, disk, failed, writer, disp, owed, stamps,
                   stamped, winErr>>

InStamp(p) == AwaitGivesUp(p) \/ WriteStamp(p)

InClose == ReadErr \/ Close \/ CloseFile

Next ==
    \/ \E d \in Dispatchers :
          StampProgress(d) \/ InStampProgress(d) \/ RunReturns(d)
    \/ Writer
    \/ \E p \in Procs : Stamp(p) \/ InStamp(p)
    \/ InClose

Spec == Init /\ [][Next]_vars

\* The window ends: bench.Run returns, the runtime schedules the goroutines and
\* disk operations return.
FairSpec ==
    /\ Spec
    /\ WF_vars(Writer)
    /\ \A d \in Dispatchers : WF_vars(InStampProgress(d)) /\ WF_vars(RunReturns(d))
    /\ \A p \in Procs : WF_vars(InStamp(p))
    /\ WF_vars(Stamp(Main))
    /\ WF_vars(InClose)

-----------------------------------------------------------------------------
(* Properties.                                                             *)

ProgressOnDisk == {i \in DOMAIN disk : disk[i].by \in Dispatchers}

InFlight ==
    Len(queue) + (IF writer.at = "write" THEN 1 ELSE 0)
    + Cardinality({d \in Dispatchers :
            disp[d].at \in {"load", "send", "pop", "resend"}})

LineOK(l) ==
    /\ l.by \in Dispatchers \union Procs
    /\ l.n \in 1..(MaxProgress + MaxStamps + 1)
    /\ l.total \in 0..coalesced

\* Type invariant: the queue stays within the channel's capacity, and no line
\* claims more coalesced lines than there are.
TypeOK ==
    /\ Len(queue) <= QueueCap
    /\ \A i \in DOMAIN queue : LineOK(queue[i])
    /\ \A i \in DOMAIN disk : LineOK(disk[i])
    /\ writer.at \in {"poll", "select", "drain", "write", "stopping", "retired"}
    /\ writer.at = "write" => LineOK(writer.hand)
    /\ winErr \in {"unread", "nil", "error"}

\* No progress line is written after an event that was stamped after it was
\* handed over: whatever barrier, line and close the writer's select meets at
\* once, a closing event follows the progress it closes.
ClosingFollowsProgress ==
    \A i, j \in DOMAIN disk :
        i < j /\ disk[j].by \in Dispatchers => Id(disk[j]) \notin disk[i].owed

\* No progress line vanishes unseen: as long as no write failed, each one ever
\* stamped is written, on its way, or counted as coalesced.
LossCounted ==
    ~failed => stamped = Cardinality(ProgressOnDisk) + InFlight + coalesced

\* When the window reads no error, its progress record is complete: every line
\* stamped was written or counted, none is still on its way to a late failure.
WindowErrComplete ==
    winErr = "nil" => stamped = Cardinality(ProgressOnDisk) + coalesced

\* As long as a single goroutine stamps progress, its newest line is never the one
\* coalesced away, and once on disk it tells a reader exactly how many are missing.
NewestAccountsForGaps ==
    \A i \in ProgressOnDisk :
        disk[i].n = stamped => disk[i].n = Cardinality(ProgressOnDisk) + disk[i].total

\* Beside its types, the window's record can be trusted: lines in order, none lost
\* unseen, gaps stated and no error missed.
RecordComplete ==
    /\ TypeOK
    /\ ClosingFollowsProgress
    /\ LossCounted
    /\ WindowErrComplete
    /\ NewestAccountsForGaps

\* Every Stamp and the Close return, even a Stamp that races the Close.
StampsReturn ==
    \A p \in Procs : pc[p] \notin {"idle", "closed"} ~> pc[p] \in {"idle", "closed"}

\* The journal is closed in the end, its writer retired.
JournalCloses == <>(Retired /\ ~open)

\* Both: no call of the journal hangs.
CallsReturn == StampsReturn /\ JournalCloses

\* Stamping progress waits for nobody: at every point of stampProgress the dispatcher,
\* which feeds the ballot workers inside the measured window, can take its next step
\* whatever the writer, another dispatcher or a stalled fsync is doing.
DispatchNeverWaits ==
    \A d \in Dispatchers :
        disp[d].at \notin {"run", "done"} => ENABLED InStampProgress(d)
=============================================================================
