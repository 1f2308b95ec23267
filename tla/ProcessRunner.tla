---------------------------- MODULE ProcessRunner ----------------------------
(***************************************************************************)
(* ProcessSupervisor::run_inner: a child process in a group of its own, a  *)
(* thread that reads its output and passes the complete lines on through a *)
(* bounded queue, and the polling loop of the caller, which hands the      *)
(* lines to a callback, looks for a cancellation and waits for the end of  *)
(* both the child and the reader.                                          *)
(*                                                                         *)
(* One of the two output streams is modelled, the one whose lines are      *)
(* reported; the other is read in the same way without the queue.  The     *)
(* reader discards a line longer than PROGRESS_LINE_LIMIT: written counts  *)
(* the others, and a line is its number among them.  A long line has the   *)
(* number of the one before it.  The pipe holds PipeSize lines, a child    *)
(* writes at most MaxLines that are not long.  A descendant that leaves    *)
(* the process group is left out.                                          *)
(***************************************************************************)
EXTENDS Naturals, Sequences

CONSTANTS
  QueueLimit,   \* PROGRESS_QUEUE_LIMIT
  PipeSize,
  MaxLines,
  MaxFailures,
  None          \* Option::None

VARIABLES
  proc,         \* the child, the reader and the loop
  cancelled,    \* the cancellation guard
  failures      \* the failures so far

\* live and helper: the child and a descendant that inherited its pipe;
\* status is what the child exited with, told what the callback was given and
\* result the answer of run_inner.
Started ==
  [live |-> TRUE, helper |-> TRUE, status |-> None, written |-> 0, pipe |-> <<>>,
   reader |-> "reading", line |-> None, queue |-> <<>>, receiver |-> TRUE,
   loop |-> "drain", told |-> <<>>, result |-> None]

NoProcess == [Started EXCEPT !.live = FALSE, !.helper = FALSE, !.reader = "finished",
                             !.receiver = FALSE, !.loop = "returned"]

Running  == proc.loop # "returned"
Returned == proc.loop = "returned" /\ proc.result # None

-----------------------------------------------------------------------------
(* The child *)

WriteLine ==
  /\ proc.live \/ proc.helper
  /\ Len(proc.pipe) < PipeSize
  /\ \E long \in BOOLEAN :
       LET number == IF long THEN proc.written ELSE proc.written + 1
       IN /\ number <= MaxLines
          /\ proc' = [proc EXCEPT !.written = number,
                                  !.pipe = Append(@, [number |-> number, long |-> long])]

ChildExits ==
  /\ proc.live
  /\ \E status \in {"ok", "failed"} :
       proc' = [proc EXCEPT !.live = FALSE, !.status = status]

HelperExits == proc.helper /\ proc' = [proc EXCEPT !.helper = FALSE]

Child == (WriteLine \/ ChildExits \/ HelperExits) /\ UNCHANGED <<cancelled, failures>>

-----------------------------------------------------------------------------
(* The reader *)

ReadLine ==
  /\ proc.reader = "reading" /\ proc.pipe # <<>> /\ ~Head(proc.pipe).long
  /\ proc' = [proc EXCEPT !.reader = "sending", !.line = Head(proc.pipe).number,
                          !.pipe = Tail(@)]

\* line_overflow: nothing says that the line was there.
DiscardLine ==
  /\ proc.reader = "reading" /\ proc.pipe # <<>> /\ Head(proc.pipe).long
  /\ proc' = [proc EXCEPT !.pipe = Tail(@)]

\* SyncSender::send waits for room; without a receiver the line is dropped.
SendLine ==
  /\ proc.reader = "sending"
  /\ proc.receiver => Len(proc.queue) < QueueLimit
  /\ proc' = [proc EXCEPT !.reader = "reading", !.line = None,
                          !.queue = IF proc.receiver THEN Append(@, proc.line) ELSE @]

EndOfFile ==
  /\ proc.reader = "reading" /\ proc.pipe = <<>> /\ ~proc.live /\ ~proc.helper
  /\ proc' = [proc EXCEPT !.reader = "finished"]

Reader == (ReadLine \/ DiscardLine \/ SendLine \/ EndOfFile) /\ UNCHANGED <<cancelled, failures>>

-----------------------------------------------------------------------------
(* The loop *)

DrainLines ==
  /\ proc.loop = "drain"
  /\ proc' = [proc EXCEPT !.loop = "check", !.told = @ \o proc.queue, !.queue = <<>>]
  /\ UNCHANGED failures

\* terminate: the group is killed and the child waited for.
Terminated(p) == [p EXCEPT !.live = FALSE, !.helper = FALSE]

\* Mutant of Dropped: the caller joins the reader and keeps the receiver.
DroppedLater(p) == p

Dropped(p) == [p EXCEPT !.receiver = FALSE, !.queue = <<>>]

\* A cancellation, or the capture limit, a timeout or an error of try_wait.
Stop ==
  /\ proc.loop = "check"
  /\ \/ cancelled /\ UNCHANGED failures
     \/ failures < MaxFailures /\ failures' = failures + 1
  /\ proc' = [Dropped(Terminated(proc)) EXCEPT
                !.loop = "joining",
                !.result = IF cancelled THEN "cancelled" ELSE "stopped"]

\* The child has exited and its pipe is at the end of file.
Finished(p) == p.status # None /\ p.reader = "finished"

Poll ==
  /\ proc.loop = "check" /\ ~cancelled
  /\ proc' = [proc EXCEPT !.loop = IF Finished(proc) THEN "final" ELSE "drain"]
  /\ UNCHANGED failures

\* Mutant of LastLines: what the last round of the loop took is all.
NoLastLines(p) == <<>>

LastLines(p) == p.queue

Finish ==
  /\ proc.loop = "final"
  /\ proc' = [proc EXCEPT !.loop = "joining", !.told = @ \o LastLines(proc),
                          !.queue = <<>>, !.result = proc.status]
  /\ UNCHANGED failures

JoinReader ==
  /\ proc.loop = "joining" /\ proc.reader = "finished"
  /\ proc' = [proc EXCEPT !.loop = "returned", !.receiver = FALSE]
  /\ UNCHANGED failures

Loop == (DrainLines \/ Stop \/ Poll \/ Finish \/ JoinReader) /\ UNCHANGED cancelled

-----------------------------------------------------------------------------
(* Properties *)

\* A call that is not stopped has reported every line the child and its
\* descendants wrote, in order, when it returns, but those longer than
\* PROGRESS_LINE_LIMIT: no other is lost, between the last round of the loop and
\* the end of the reader or with a long line before or after it.
LinesDelivered ==
  proc.loop = "returned" /\ proc.result \in {"ok", "failed"}
    => proc.told = [i \in 1..proc.written |-> i]
=============================================================================
