------------------------- MODULE MediaPipeline_proofs -------------------------
(***************************************************************************)
(* Proofs about MediaPipeline, for any number of chunks, cues, runs, lines *)
(* and failures and any size of the channel, the queue and the pipe: what  *)
(* the child process tells, what is published, and with which context it   *)
(* was translated.                                                         *)
(***************************************************************************)
EXTENDS MediaPipeline, SequenceTheorems, WellFoundedInduction, TLAPS

-----------------------------------------------------------------------------
(* Numbered sequences *)

\* The elements of s are the numbers after k.
Numbered(s, k) == \A i \in 1..Len(s) : s[i] = k + i

\* The lines in a pipe s after line k, the last of which has the number w: a long
\* line has the number of the one before it, any other the next.
Lines == [number : Nat, long : BOOLEAN]

After(l, k) == l.number = IF l.long THEN k ELSE k + 1

Piped(s, k, w) ==
  /\ s = <<>> => w = k
  /\ s # <<>> => After(s[1], k) /\ s[Len(s)].number = w
  /\ \A i \in 1..Len(s) - 1 : After(s[i + 1], s[i].number)

LEMMA NumberedEmpty ==
  ASSUME NEW k \in Nat
  PROVE  Numbered(<<>>, k)
BY DEF Numbered

LEMMA NumberedAppend ==
  ASSUME NEW s \in Seq(Nat), NEW k \in Nat, Numbered(s, k)
  PROVE  /\ Append(s, k + Len(s) + 1) \in Seq(Nat)
         /\ Len(Append(s, k + Len(s) + 1)) = Len(s) + 1
         /\ Numbered(Append(s, k + Len(s) + 1), k)
BY DEF Numbered

LEMMA NumberedTail ==
  ASSUME NEW s \in Seq(Nat), NEW k \in Nat, Numbered(s, k), s # <<>>
  PROVE  /\ Head(s) = k + 1
         /\ Tail(s) \in Seq(Nat) /\ Len(Tail(s)) = Len(s) - 1
         /\ Numbered(Tail(s), k + 1)
BY DEF Numbered

LEMMA NumberedConcat ==
  ASSUME NEW s \in Seq(Nat), NEW t \in Seq(Nat),
         Numbered(s, 0), Numbered(t, Len(s))
  PROVE  /\ s \o t \in Seq(Nat)
         /\ Len(s \o t) = Len(s) + Len(t)
         /\ Numbered(s \o t, 0)
BY DEF Numbered

LEMMA PipedAppend ==
  ASSUME NEW s \in Seq(Lines), NEW k \in Nat, NEW w \in Nat, Piped(s, k, w),
         NEW l \in Lines, After(l, w)
  PROVE  Append(s, l) \in Seq(Lines) /\ Piped(Append(s, l), k, l.number)
PROOF
  <1> DEFINE t == Append(s, l)
  <1>1. /\ t \in Seq(Lines) /\ Len(s) \in Nat /\ Len(t) = Len(s) + 1 /\ t # <<>>
        /\ t[Len(s) + 1] = l /\ \A i \in 1..Len(s) : t[i] = s[i]
    OBVIOUS
  <1> HIDE DEF t
  <1>2. After(t[1], k)
    <2>1. CASE s = <<>>
      <3>1. Len(s) = 0 /\ w = k
        BY <2>1 DEF Piped
      <3> QED BY <1>1, <3>1
    <2>2. CASE s # <<>>
      <3>1. 1 \in 1..Len(s)
        BY <2>2
      <3> QED BY <1>1, <2>2, <3>1 DEF Piped
    <2> QED BY <2>1, <2>2
  <1>3. ASSUME NEW i \in 1..Len(t) - 1 PROVE After(t[i + 1], t[i].number)
    <2>1. CASE i = Len(s)
      <3>1. s # <<>> /\ t[i] = s[Len(s)] /\ t[i + 1] = l
        BY <1>1, <1>3, <2>1
      <3> QED BY <3>1 DEF Piped
    <2>2. CASE i # Len(s)
      <3>1. i \in 1..Len(s) - 1 /\ i \in 1..Len(s) /\ i + 1 \in 1..Len(s)
        BY <1>1, <1>3, <2>2
      <3>2. t[i] = s[i] /\ t[i + 1] = s[i + 1]
        BY <1>1, <3>1
      <3> QED BY <3>1, <3>2 DEF Piped
    <2> QED BY <2>1, <2>2
  <1>4. t[Len(t)].number = l.number
    BY <1>1
  <1>5. Piped(t, k, l.number)
    BY <1>1, <1>2, <1>3, <1>4 DEF Piped
  <1> QED BY <1>1, <1>5 DEF t

LEMMA PipedTail ==
  ASSUME NEW s \in Seq(Lines), NEW k \in Nat, NEW w \in Nat, Piped(s, k, w), s # <<>>
  PROVE  /\ Head(s) \in Lines /\ After(Head(s), k)
         /\ Tail(s) \in Seq(Lines) /\ Piped(Tail(s), Head(s).number, w)
PROOF
  <1> DEFINE t == Tail(s)
  <1>1. /\ t \in Seq(Lines) /\ Len(s) \in Nat /\ Len(t) = Len(s) - 1
        /\ Head(s) = s[1] /\ Head(s) \in Lines
        /\ \A i \in 1..Len(s) - 1 : t[i] = s[i + 1]
        /\ Len(s) >= 1
    OBVIOUS
  <1> HIDE DEF t
  <1>2. CASE t = <<>>
    <2>1. Len(s) = 1 /\ Len(t) = 0
      BY <1>1, <1>2
    <2>2. s[1].number = w
      BY <2>1 DEF Piped
    <2>3. Piped(t, Head(s).number, w)
      BY <1>1, <1>2, <2>1, <2>2 DEF Piped
    <2>4. After(Head(s), k)
      BY <1>1 DEF Piped
    <2> QED BY <1>1, <2>3, <2>4 DEF t
  <1>3. CASE t # <<>>
    <2>1. /\ Len(t) \in Nat /\ Len(t) >= 1 /\ Len(s) = Len(t) + 1
      BY <1>1, <1>3
    <2>2. t[1] = s[2] /\ t[Len(t)] = s[Len(s)]
      BY <1>1, <2>1
    <2>3. After(t[1], s[1].number) /\ t[Len(t)].number = w
      BY <2>1, <2>2 DEF Piped
    <2>4. ASSUME NEW i \in 1..Len(t) - 1 PROVE After(t[i + 1], t[i].number)
      <3>1. i + 1 \in 1..Len(s) - 1 /\ i \in 1..Len(s) - 1
        BY <2>1, <2>4
      <3>2. t[i] = s[i + 1] /\ t[i + 1] = s[i + 1 + 1]
        BY <1>1, <3>1
      <3> QED BY <3>1, <3>2 DEF Piped
    <2> QED BY <1>1, <1>3, <2>3, <2>4 DEF Piped, t
  <1> QED BY <1>2, <1>3

-----------------------------------------------------------------------------
(* The invariant *)

Processes ==
  [live : BOOLEAN, helper : BOOLEAN, status : {None, "ok", "failed"}, written : Nat,
   pipe : Seq(Lines), reader : {"reading", "sending", "finished"}, line : Nat \cup {None},
   queue : Seq(Nat), receiver : BOOLEAN,
   loop : {"drain", "check", "final", "joining", "returned"},
   told : Seq(Nat), result : {None, "ok", "failed", "cancelled", "stopped"}]

\* The lines the reader holds, and those that have left the pipe.
Held(p)   == IF p.reader = "sending" THEN 1 ELSE 0
Passed(p) == Len(p.told) + Len(p.queue) + Held(p)

\* While the loop goes on, each line written that is not long is in one place, in
\* order.
Conveyed(p) ==
  /\ p.receiver
  /\ Numbered(p.told, 0)
  /\ Numbered(p.queue, Len(p.told))
  /\ p.reader = "sending" => p.line = Len(p.told) + Len(p.queue) + 1
  /\ Piped(p.pipe, Passed(p), p.written)

\* The reader has seen the end of the file: nobody can write any more.
AtEnd(p) == p.reader = "finished" /\ p.pipe = <<>> /\ ~p.live /\ ~p.helper

AllTold(p) == Len(p.told) = p.written /\ Numbered(p.told, 0)

Sound(p) ==
  /\ p.reader = "sending" => p.line \in Nat
  /\ p.reader = "finished" => AtEnd(p)
  /\ p.loop \in {"drain", "check", "final"} => Conveyed(p)
  /\ p.loop = "final" => p.reader = "finished"
  /\ p.loop \in {"joining", "returned"} /\ p.result \in {"ok", "failed"}
       => AtEnd(p) /\ AllTold(p)

LinesInv == proc \in Processes /\ Sound(proc)

\* The fields of a process.
LEMMA Fields ==
  ASSUME NEW p \in Processes
  PROVE  /\ p.live \in BOOLEAN /\ p.helper \in BOOLEAN /\ p.written \in Nat
         /\ p.pipe \in Seq(Lines) /\ p.queue \in Seq(Nat) /\ p.told \in Seq(Nat)
         /\ p.line \in Nat \cup {None} /\ p.reader \in {"reading", "sending", "finished"}
         /\ p.status \in {None, "ok", "failed"}
         /\ Len(p.queue) \in Nat /\ Len(p.told) \in Nat
         /\ Held(p) \in Nat /\ Passed(p) \in Nat
PROOF
  <1>1. /\ p.live \in BOOLEAN /\ p.helper \in BOOLEAN /\ p.written \in Nat
        /\ p.pipe \in Seq(Lines) /\ p.queue \in Seq(Nat) /\ p.told \in Seq(Nat)
        /\ p.line \in Nat \cup {None} /\ p.reader \in {"reading", "sending", "finished"}
        /\ p.status \in {None, "ok", "failed"}
    BY DEF Processes
  <1>2. Len(p.queue) \in Nat /\ Len(p.told) \in Nat
    BY <1>1
  <1>3. Held(p) \in Nat
    BY DEF Held
  <1>4. Passed(p) \in Nat
    <2>1. ASSUME NEW a \in Nat, NEW b \in Nat, NEW c \in Nat
          PROVE  a + b + c \in Nat
      OBVIOUS
    <2> QED BY <1>2, <1>3, <2>1 DEF Passed
  <1> QED BY <1>1, <1>2, <1>3, <1>4

\* A call that has returned has told what AllTold says, as a sequence.
LEMMA TellsLines == LinesInv => LinesDelivered
PROOF
  <1> SUFFICES ASSUME LinesInv, proc.loop = "returned", proc.result \in {"ok", "failed"}
               PROVE  proc.told = [i \in 1..proc.written |-> i]
    BY DEF LinesDelivered, Whisper!LinesDelivered
  <1>1. proc.told \in Seq(Nat) /\ proc.written \in Nat
    BY Fields DEF LinesInv
  <1>2. AllTold(proc)
    BY DEF LinesInv, Sound
  <1> QED BY <1>1, <1>2 DEF AllTold, Numbered

-----------------------------------------------------------------------------
(* The steps of a process p to a process q *)

\* The child writes: the line comes last in the pipe.
LEMMA WriteSound ==
  ASSUME NEW p \in Processes, Sound(p), p.live \/ p.helper,
         NEW l \in Lines, After(l, p.written),
         NEW q, q = [p EXCEPT !.written = l.number, !.pipe = Append(@, l)]
  PROVE  q \in Processes /\ Sound(q)
PROOF
  <1> DEFINE pipe == Append(p.pipe, l)
  <1>1. l.number \in Nat /\ pipe \in Seq(Lines)
    BY Fields DEF Lines
  <1>0. q = [p EXCEPT !.written = l.number, !.pipe = pipe]
    OBVIOUS
  <1> HIDE DEF pipe
  <1>2. q \in Processes
    BY <1>0, <1>1 DEF Processes
  <1>3. /\ q.live = p.live /\ q.helper = p.helper /\ q.reader = p.reader
        /\ q.line = p.line /\ q.queue = p.queue /\ q.receiver = p.receiver
        /\ q.loop = p.loop /\ q.told = p.told /\ q.result = p.result
        /\ q.written = l.number /\ q.pipe = pipe
    BY <1>0 DEF Processes
  <1>4. Passed(q) = Passed(p)
    BY <1>3 DEF Passed, Held
  <1>5. ASSUME Conveyed(p) PROVE Conveyed(q)
    <2>1. Piped(p.pipe, Passed(p), p.written)
      BY <1>5 DEF Conveyed
    <2>2. Piped(pipe, Passed(p), l.number)
      BY <2>1, Fields, PipedAppend DEF pipe
    <2> QED BY <1>3, <1>4, <1>5, <2>2 DEF Conveyed
  <1>6. ~AtEnd(p)
    BY DEF AtEnd
  <1> QED BY <1>2, <1>3, <1>5, <1>6 DEF Sound

\* The child or its helper exits, or both are killed.
LEMMA ExitSound ==
  ASSUME NEW p \in Processes, Sound(p),
         NEW live \in BOOLEAN, NEW helper \in BOOLEAN, NEW status \in {None, "ok", "failed"},
         live => p.live, helper => p.helper,
         NEW q, q = [p EXCEPT !.live = live, !.helper = helper, !.status = status]
  PROVE  q \in Processes /\ Sound(q)
PROOF
  <1>1. q \in Processes
    BY DEF Processes
  <1>2. /\ q.live = live /\ q.helper = helper /\ q.reader = p.reader
        /\ q.line = p.line /\ q.queue = p.queue /\ q.receiver = p.receiver
        /\ q.loop = p.loop /\ q.told = p.told /\ q.result = p.result
        /\ q.written = p.written /\ q.pipe = p.pipe
    BY DEF Processes
  <1>3. AtEnd(p) => AtEnd(q)
    BY <1>2 DEF AtEnd
  <1>4. Passed(q) = Passed(p)
    BY <1>2 DEF Passed, Held
  <1>5. Conveyed(p) => Conveyed(q)
    BY <1>2, <1>4 DEF Conveyed
  <1>6. AllTold(p) => AllTold(q)
    BY <1>2 DEF AllTold
  <1> QED BY <1>1, <1>2, <1>3, <1>5, <1>6 DEF Sound

\* The reader takes the first line of the pipe.
LEMMA ReadSound ==
  ASSUME NEW p \in Processes, Sound(p), p.reader = "reading", p.pipe # <<>>,
         ~Head(p.pipe).long,
         NEW q, q = [p EXCEPT !.reader = "sending", !.line = Head(p.pipe).number,
                       !.pipe = Tail(@)]
  PROVE  q \in Processes /\ Sound(q)
PROOF
  <1> DEFINE pipe == Tail(p.pipe)
             line == Head(p.pipe).number
  <1>1. line \in Nat /\ pipe \in Seq(Lines)
    <2>1. Head(p.pipe) \in Lines /\ pipe \in Seq(Lines)
      BY Fields
    <2> QED BY <2>1 DEF Lines
  <1>0. q = [p EXCEPT !.reader = "sending", !.line = line, !.pipe = pipe]
    OBVIOUS
  <1> HIDE DEF pipe, line
  <1>2. q \in Processes
    BY <1>0, <1>1 DEF Processes
  <1>3. /\ q.live = p.live /\ q.helper = p.helper /\ q.reader = "sending"
        /\ q.line = line /\ q.queue = p.queue /\ q.receiver = p.receiver
        /\ q.loop = p.loop /\ q.told = p.told /\ q.result = p.result
        /\ q.written = p.written /\ q.pipe = pipe
    BY <1>0 DEF Processes
  <1>4. /\ Passed(p) = Len(p.told) + Len(p.queue)
        /\ Passed(q) = Passed(p) + 1
    <2>1. Held(p) = 0 /\ Held(q) = 1
      BY <1>3 DEF Held
    <2> QED BY <1>3, <2>1, Fields DEF Passed
  <1>5. ASSUME Conveyed(p) PROVE Conveyed(q)
    <2>1. Piped(p.pipe, Passed(p), p.written)
      BY <1>5 DEF Conveyed
    <2>2. After(Head(p.pipe), Passed(p)) /\ Piped(pipe, line, p.written)
      BY <2>1, Fields, PipedTail DEF pipe, line
    <2>3. line = Passed(p) + 1
      BY <2>2 DEF After, line
    <2>4. /\ q.receiver /\ Numbered(q.told, 0) /\ Numbered(q.queue, Len(q.told))
          /\ q.line = Len(q.told) + Len(q.queue) + 1 /\ Piped(q.pipe, Passed(q), q.written)
      BY <1>3, <1>4, <1>5, <2>2, <2>3 DEF Conveyed
    <2> QED BY <2>4 DEF Conveyed
  <1>6. ~AtEnd(p) /\ p.loop # "final"
    BY DEF Sound, AtEnd
  <1> QED BY <1>1, <1>2, <1>3, <1>5, <1>6 DEF Sound

\* Or discards it: a long line is not counted among those that have passed.
LEMMA DiscardSound ==
  ASSUME NEW p \in Processes, Sound(p), p.reader = "reading", p.pipe # <<>>,
         Head(p.pipe).long,
         NEW q, q = [p EXCEPT !.pipe = Tail(@)]
  PROVE  q \in Processes /\ Sound(q)
PROOF
  <1> DEFINE pipe == Tail(p.pipe)
  <1>1. pipe \in Seq(Lines)
    BY Fields
  <1>0. q = [p EXCEPT !.pipe = pipe]
    OBVIOUS
  <1> HIDE DEF pipe
  <1>2. q \in Processes
    BY <1>0, <1>1 DEF Processes
  <1>3. /\ q.live = p.live /\ q.helper = p.helper /\ q.reader = p.reader
        /\ q.line = p.line /\ q.queue = p.queue /\ q.receiver = p.receiver
        /\ q.loop = p.loop /\ q.told = p.told /\ q.result = p.result
        /\ q.written = p.written /\ q.pipe = pipe
    BY <1>0 DEF Processes
  <1>4. Passed(q) = Passed(p)
    BY <1>3 DEF Passed, Held
  <1>5. ASSUME Conveyed(p) PROVE Conveyed(q)
    <2>1. Piped(p.pipe, Passed(p), p.written)
      BY <1>5 DEF Conveyed
    <2>2. After(Head(p.pipe), Passed(p)) /\ Piped(pipe, Head(p.pipe).number, p.written)
      BY <2>1, Fields, PipedTail DEF pipe
    <2>3. Piped(pipe, Passed(p), p.written)
      BY <2>2 DEF After
    <2> QED BY <1>3, <1>4, <1>5, <2>3 DEF Conveyed
  <1>6. ~AtEnd(p) /\ p.loop # "final"
    BY DEF Sound, AtEnd
  <1> QED BY <1>2, <1>3, <1>5, <1>6 DEF Sound

\* The line it holds comes last in the queue, or is dropped.
LEMMA SendSound ==
  ASSUME NEW p \in Processes, Sound(p), p.reader = "sending",
         NEW q, q = [p EXCEPT !.reader = "reading", !.line = None,
                       !.queue = IF p.receiver THEN Append(@, p.line) ELSE @]
  PROVE  q \in Processes /\ Sound(q)
PROOF
  <1> DEFINE queue == IF p.receiver THEN Append(p.queue, p.line) ELSE p.queue
  <1>1. queue \in Seq(Nat)
    BY Fields DEF Sound
  <1>2. q = [p EXCEPT !.reader = "reading", !.line = None, !.queue = queue]
    OBVIOUS
  <1> HIDE DEF queue
  <1>3. q \in Processes
    BY <1>1, <1>2 DEF Processes
  <1>4. /\ q.live = p.live /\ q.helper = p.helper /\ q.reader = "reading"
        /\ q.queue = queue /\ q.receiver = p.receiver
        /\ q.loop = p.loop /\ q.told = p.told /\ q.result = p.result
        /\ q.written = p.written /\ q.pipe = p.pipe
    BY <1>2 DEF Processes
  <1>5. ASSUME Conveyed(p) PROVE Conveyed(q)
    <2>1. q.queue = Append(p.queue, Len(p.told) + Len(p.queue) + 1)
      BY <1>4, <1>5 DEF Conveyed, queue
    <2>2. Len(q.queue) = Len(p.queue) + 1 /\ Numbered(q.queue, Len(p.told))
      <3>1. p.queue \in Seq(Nat) /\ Len(p.told) \in Nat /\ Numbered(p.queue, Len(p.told))
        BY <1>5, Fields DEF Conveyed
      <3> QED BY <2>1, <3>1, NumberedAppend
    <2>3. Passed(q) = Passed(p)
      <3>1. Held(p) = 1 /\ Held(q) = 0
        BY <1>4 DEF Held
      <3>2. Len(p.queue) \in Nat /\ Len(p.told) \in Nat /\ q.told = p.told
        BY <1>4, Fields
      <3>3. /\ Passed(p) = Len(p.told) + Len(p.queue) + 1
            /\ Passed(q) = Len(p.told) + Len(q.queue) + 0
        BY <3>1, <3>2 DEF Passed
      <3>4. Passed(q) = Len(p.told) + (Len(p.queue) + 1) + 0
        BY <2>2, <3>3
      <3>5. ASSUME NEW a \in Nat, NEW b \in Nat PROVE a + (b + 1) + 0 = a + b + 1
        OBVIOUS
      <3> QED BY <3>2, <3>3, <3>4, <3>5
    <2> QED BY <1>4, <1>5, <2>2, <2>3 DEF Conveyed
  <1>6. ~AtEnd(p) /\ p.loop # "final"
    BY DEF Sound, AtEnd
  <1> QED BY <1>3, <1>4, <1>5, <1>6 DEF Sound

\* The reader sees the end of the file.
LEMMA EndSound ==
  ASSUME NEW p \in Processes, Sound(p),
         p.reader = "reading", p.pipe = <<>>, ~p.live, ~p.helper,
         NEW q, q = [p EXCEPT !.reader = "finished"]
  PROVE  q \in Processes /\ Sound(q)
PROOF
  <1>1. q \in Processes
    BY DEF Processes
  <1>2. /\ q.live = p.live /\ q.helper = p.helper /\ q.reader = "finished"
        /\ q.line = p.line /\ q.queue = p.queue /\ q.receiver = p.receiver
        /\ q.loop = p.loop /\ q.told = p.told /\ q.result = p.result
        /\ q.written = p.written /\ q.pipe = p.pipe
    BY DEF Processes
  <1>3. AtEnd(q) /\ ~AtEnd(p)
    BY <1>2 DEF AtEnd
  <1>4. Passed(q) = Passed(p)
    BY <1>2 DEF Passed, Held
  <1>5. Conveyed(p) => Conveyed(q)
    BY <1>2, <1>4 DEF Conveyed
  <1> QED BY <1>1, <1>2, <1>3, <1>5 DEF Sound

\* The loop tells what is queued, and looks what has happened.
LEMMA DrainSound ==
  ASSUME NEW p \in Processes, Sound(p), p.loop = "drain",
         NEW q, q = [p EXCEPT !.loop = "check", !.told = @ \o p.queue, !.queue = <<>>]
  PROVE  q \in Processes /\ Sound(q)
PROOF
  <1> DEFINE told == p.told \o p.queue
  <1>1. told \in Seq(Nat) /\ <<>> \in Seq(Nat)
    BY Fields
  <1>0. q = [p EXCEPT !.loop = "check", !.told = told, !.queue = <<>>]
    OBVIOUS
  <1> HIDE DEF told
  <1>2. q \in Processes
    BY <1>1, <1>0 DEF Processes
  <1>3. /\ q.live = p.live /\ q.helper = p.helper /\ q.reader = p.reader
        /\ q.line = p.line /\ q.queue = <<>> /\ q.receiver = p.receiver
        /\ q.loop = "check" /\ q.told = told /\ q.result = p.result
        /\ q.written = p.written /\ q.pipe = p.pipe
    BY <1>0 DEF Processes
  <1>4. Conveyed(p)
    BY DEF Sound
  <1>5. Len(q.told) = Len(p.told) + Len(p.queue) /\ Numbered(q.told, 0)
    <2>1. /\ p.told \in Seq(Nat) /\ p.queue \in Seq(Nat)
          /\ Numbered(p.told, 0) /\ Numbered(p.queue, Len(p.told))
      BY <1>4, Fields DEF Conveyed
    <2> QED BY <1>3, <2>1, NumberedConcat DEF told
  <1>6. Passed(q) = Passed(p) /\ Len(q.queue) = 0
    <2>1. Held(q) = Held(p)
      BY <1>3 DEF Held
    <2> QED BY <1>3, <1>5, <2>1, Fields DEF Passed
  <1>7. Numbered(q.queue, Len(q.told))
    BY <1>2, <1>3, Fields, NumberedEmpty
  <1>8. Conveyed(q)
    <2>1. q.reader = "sending" => q.line = Len(q.told) + Len(q.queue) + 1
      <3>1. p.reader = "sending" => p.line = Len(p.told) + Len(p.queue) + 1
        BY <1>4 DEF Conveyed
      <3>2. Len(q.told) = Len(p.told) + Len(p.queue) /\ Len(q.queue) = 0
        BY <1>5, <1>6
      <3>3. Len(p.told) \in Nat /\ Len(p.queue) \in Nat
        BY Fields
      <3>4. Len(q.told) + Len(q.queue) + 1 = Len(p.told) + Len(p.queue) + 1
        BY <3>2, <3>3
      <3> QED BY <1>3, <3>1, <3>4
    <2> QED BY <1>3, <1>4, <1>5, <1>6, <1>7, <2>1 DEF Conveyed
  <1>9. AtEnd(p) => AtEnd(q)
    BY <1>3 DEF AtEnd
  <1> QED BY <1>2, <1>3, <1>8, <1>9 DEF Sound

LEMMA PollSound ==
  ASSUME NEW p \in Processes, Sound(p), p.loop = "check",
         NEW loop \in {"drain", "final"}, loop = "final" => p.reader = "finished",
         NEW q, q = [p EXCEPT !.loop = loop]
  PROVE  q \in Processes /\ Sound(q)
PROOF
  <1>1. q \in Processes
    BY DEF Processes
  <1>2. /\ q.live = p.live /\ q.helper = p.helper /\ q.reader = p.reader
        /\ q.line = p.line /\ q.queue = p.queue /\ q.receiver = p.receiver
        /\ q.loop = loop /\ q.told = p.told /\ q.result = p.result
        /\ q.written = p.written /\ q.pipe = p.pipe
    BY DEF Processes
  <1>3. Conveyed(p)
    BY DEF Sound
  <1>4. Passed(q) = Passed(p)
    BY <1>2 DEF Passed, Held
  <1>5. Conveyed(q)
    BY <1>2, <1>3, <1>4 DEF Conveyed
  <1>6. AtEnd(p) => AtEnd(q)
    BY <1>2 DEF AtEnd
  <1> QED BY <1>1, <1>2, <1>5, <1>6 DEF Sound

\* The child is killed and the receiver dropped: nothing is claimed any more.
LEMMA StopSound ==
  ASSUME NEW p \in Processes, Sound(p), p.loop = "check",
         NEW result \in {"cancelled", "stopped"},
         NEW q, q = [p EXCEPT !.live = FALSE, !.helper = FALSE, !.receiver = FALSE,
                       !.queue = <<>>, !.loop = "joining", !.result = result]
  PROVE  q \in Processes /\ Sound(q)
PROOF
  <1>0. <<>> \in Seq(Nat)
    OBVIOUS
  <1>1. q \in Processes
    BY <1>0 DEF Processes
  <1>2. /\ ~q.live /\ ~q.helper /\ q.reader = p.reader /\ q.pipe = p.pipe
        /\ q.loop = "joining" /\ q.result = result /\ q.line = p.line
    BY DEF Processes
  <1>3. AtEnd(p) => AtEnd(q)
    BY <1>2 DEF AtEnd
  <1> QED BY <1>1, <1>2, <1>3 DEF Sound

\* The last lines are told: the reader is at the end of the file, so that every
\* line is told or queued.
LEMMA FinishSound ==
  ASSUME NEW p \in Processes, Sound(p), p.loop = "final",
         NEW q, q = [p EXCEPT !.loop = "joining", !.told = @ \o p.queue, !.queue = <<>>,
                       !.result = p.status]
  PROVE  q \in Processes /\ Sound(q)
PROOF
  <1> DEFINE told == p.told \o p.queue
  <1>1. /\ told \in Seq(Nat) /\ <<>> \in Seq(Nat)
        /\ p.status \in {None, "ok", "failed", "cancelled", "stopped"}
    BY Fields
  <1>0. q = [p EXCEPT !.loop = "joining", !.told = told, !.queue = <<>>, !.result = p.status]
    OBVIOUS
  <1> HIDE DEF told
  <1>2. q \in Processes
    BY <1>1, <1>0 DEF Processes
  <1>3. /\ q.live = p.live /\ q.helper = p.helper /\ q.reader = p.reader
        /\ q.loop = "joining" /\ q.told = told /\ q.line = p.line
        /\ q.written = p.written /\ q.pipe = p.pipe
    BY <1>0 DEF Processes
  <1>4. Conveyed(p) /\ AtEnd(p)
    BY DEF Sound
  <1>5. AtEnd(q)
    BY <1>3, <1>4 DEF AtEnd
  <1>6. Len(q.told) = Len(p.told) + Len(p.queue) /\ Numbered(q.told, 0)
    <2>1. /\ p.told \in Seq(Nat) /\ p.queue \in Seq(Nat)
          /\ Numbered(p.told, 0) /\ Numbered(p.queue, Len(p.told))
      BY <1>4, Fields DEF Conveyed
    <2> QED BY <1>3, <2>1, NumberedConcat DEF told
  <1>7. p.written = Len(p.told) + Len(p.queue)
    <2>1. Held(p) = 0
      BY <1>4 DEF AtEnd, Held
    <2>2. p.written = Len(p.told) + Len(p.queue) + Held(p)
      BY <1>4 DEF Conveyed, Passed, AtEnd, Piped
    <2> QED BY <2>1, <2>2, Fields
  <1> QED BY <1>2, <1>3, <1>5, <1>6, <1>7 DEF Sound, AllTold

LEMMA JoinSound ==
  ASSUME NEW p \in Processes, Sound(p), p.loop = "joining",
         NEW q, q = [p EXCEPT !.loop = "returned", !.receiver = FALSE]
  PROVE  q \in Processes /\ Sound(q)
PROOF
  <1>1. q \in Processes
    BY DEF Processes
  <1>2. /\ q.live = p.live /\ q.helper = p.helper /\ q.reader = p.reader
        /\ q.loop = "returned" /\ q.told = p.told /\ q.result = p.result
        /\ q.line = p.line
        /\ q.written = p.written /\ q.pipe = p.pipe
    BY DEF Processes
  <1>3. (AtEnd(p) => AtEnd(q)) /\ (AllTold(p) => AllTold(q))
    BY <1>2 DEF AtEnd, AllTold
  <1> QED BY <1>1, <1>2, <1>3 DEF Sound

-----------------------------------------------------------------------------
(* The steps of the specification *)

LEMMA StartedSound == Whisper!Started \in Processes /\ Sound(Whisper!Started)
PROOF
  <1>1. <<>> \in Seq(Nat)
    OBVIOUS
  <1>2. Whisper!Started \in Processes
    BY <1>1 DEF Processes, Whisper!Started
  <1>3. Conveyed(Whisper!Started)
    BY DEF Conveyed, Passed, Held, Numbered, Piped, Whisper!Started
  <1> QED BY <1>2, <1>3 DEF Sound, Whisper!Started

LEMMA NoProcessSound == Whisper!NoProcess \in Processes /\ Sound(Whisper!NoProcess)
PROOF
  <1>1. Whisper!NoProcess \in Processes
    BY StartedSound DEF Processes, Whisper!NoProcess
  <1>2. /\ Whisper!NoProcess.loop = "returned" /\ Whisper!NoProcess.result = None
        /\ Whisper!NoProcess.written = 0 /\ Whisper!NoProcess.told = <<>>
        /\ Whisper!NoProcess.reader = "finished" /\ Whisper!NoProcess.pipe = <<>>
        /\ ~Whisper!NoProcess.live /\ ~Whisper!NoProcess.helper
    BY DEF Whisper!NoProcess, Whisper!Started
  <1> QED BY <1>1, <1>2 DEF Sound, AtEnd, AllTold, Numbered

LEMMA ChildStep ==
  ASSUME LinesInv, Whisper!Child
  PROVE  LinesInv'
PROOF
  <1>1. proc \in Processes /\ Sound(proc)
    BY DEF LinesInv
  <1>2. CASE Whisper!WriteLine
    <2>1. PICK long \in BOOLEAN :
            LET number == IF long THEN proc.written ELSE proc.written + 1
            IN proc' = [proc EXCEPT !.written = number,
                                    !.pipe = Append(@, [number |-> number, long |-> long])]
      BY <1>2 DEF Whisper!WriteLine
    <2> DEFINE line == [number |-> IF long THEN proc.written ELSE proc.written + 1,
                        long |-> long]
    <2>2. line \in Lines /\ After(line, proc.written)
      BY <1>1, Fields DEF Lines, After
    <2>3. proc' = [proc EXCEPT !.written = line.number, !.pipe = Append(@, line)]
      BY <2>1
    <2> HIDE DEF line
    <2>4. proc.live \/ proc.helper
      BY <1>2 DEF Whisper!WriteLine
    <2> QED BY <1>1, <2>2, <2>3, <2>4, WriteSound DEF LinesInv
  <1>3. CASE Whisper!ChildExits
    <2>1. PICK status \in {"ok", "failed"} :
            proc' = [proc EXCEPT !.live = FALSE, !.status = status]
      BY <1>3 DEF Whisper!ChildExits
    <2>2. proc' = [proc EXCEPT !.live = FALSE, !.helper = proc.helper, !.status = status]
      BY <1>1, <2>1 DEF Processes
    <2> QED BY <1>1, <1>3, <2>2, ExitSound, Fields DEF LinesInv, Whisper!ChildExits
  <1>4. CASE Whisper!HelperExits
    <2>1. proc' = [proc EXCEPT !.live = proc.live, !.helper = FALSE, !.status = proc.status]
      BY <1>1, <1>4 DEF Processes, Whisper!HelperExits
    <2> QED BY <1>1, <2>1, ExitSound, Fields DEF LinesInv
  <1> QED BY <1>2, <1>3, <1>4 DEF Whisper!Child

LEMMA ReaderStep ==
  ASSUME LinesInv, Whisper!Reader
  PROVE  LinesInv'
PROOF
  <1>1. proc \in Processes /\ Sound(proc)
    BY DEF LinesInv
  <1>2. CASE Whisper!ReadLine
    BY <1>1, <1>2, ReadSound DEF LinesInv, Whisper!ReadLine
  <1>3. CASE Whisper!SendLine
    BY <1>1, <1>3, SendSound DEF LinesInv, Whisper!SendLine
  <1>4. CASE Whisper!EndOfFile
    BY <1>1, <1>4, EndSound DEF LinesInv, Whisper!EndOfFile
  <1>5. CASE Whisper!DiscardLine
    BY <1>1, <1>5, DiscardSound DEF LinesInv, Whisper!DiscardLine
  <1> QED BY <1>2, <1>3, <1>4, <1>5 DEF Whisper!Reader

LEMMA LoopStep ==
  ASSUME LinesInv, Whisper!Loop
  PROVE  LinesInv'
PROOF
  <1>1. proc \in Processes /\ Sound(proc)
    BY DEF LinesInv
  <1>2. CASE Whisper!DrainLines
    BY <1>1, <1>2, DrainSound DEF LinesInv, Whisper!DrainLines
  <1>3. CASE Whisper!Stop
    <2>1. PICK result \in {"cancelled", "stopped"} :
            proc' = [Whisper!Dropped(Whisper!Terminated(proc)) EXCEPT
                       !.loop = "joining", !.result = result]
      BY <1>3 DEF Whisper!Stop
    <2>2. proc' = [proc EXCEPT !.live = FALSE, !.helper = FALSE, !.receiver = FALSE,
                     !.queue = <<>>, !.loop = "joining", !.result = result]
      BY <1>1, <2>1 DEF Processes, Whisper!Dropped, Whisper!Terminated
    <2> QED BY <1>1, <1>3, <2>2, StopSound DEF LinesInv, Whisper!Stop
  <1>4. CASE Whisper!Poll
    <2>1. PICK loop \in {"drain", "final"} :
            /\ proc' = [proc EXCEPT !.loop = loop]
            /\ loop = "final" => proc.reader = "finished"
      BY <1>4 DEF Whisper!Poll, Whisper!Finished
    <2> QED BY <1>1, <1>4, <2>1, PollSound DEF LinesInv, Whisper!Poll
  <1>5. CASE Whisper!Finish
    BY <1>1, <1>5, FinishSound DEF LinesInv, Whisper!Finish, Whisper!LastLines
  <1>6. CASE Whisper!JoinReader
    BY <1>1, <1>6, JoinSound DEF LinesInv, Whisper!JoinReader
  <1> QED BY <1>2, <1>3, <1>4, <1>5, <1>6 DEF Whisper!Loop

LEMMA LinesStep == LinesInv /\ [Next]_vars => LinesInv'
PROOF
  <1> SUFFICES ASSUME LinesInv, [Next]_vars PROVE LinesInv'
    OBVIOUS
  <1>1. ASSUME UNCHANGED proc PROVE LinesInv'
    BY <1>1 DEF LinesInv
  <1>2. ASSUME proc' = Whisper!NoProcess PROVE LinesInv'
    BY <1>2, NoProcessSound DEF LinesInv
  <1>3. CASE NextChunk
    <2>1. UNCHANGED proc \/ proc' = Whisper!Started
      BY <1>3 DEF NextChunk
    <2> QED BY <1>1, <2>1, StartedSound DEF LinesInv
  <1>4. CASE WhisperReturns
    BY <1>2, <1>4 DEF WhisperReturns
  <1>5. CASE KeepRaw \/ KeepCut \/ SaveChunk \/ SendChunk \/ ProducerEnds \/ ProducerCancelled
    BY <1>1, <1>5 DEF KeepRaw, KeepCut, SaveChunk, SendChunk, ProducerEnds, ProducerCancelled
  <1>6. CASE WhisperRuns
    BY <1>6, ReaderStep, LoopStep DEF WhisperRuns
  <1>7. CASE ChildRuns
    BY <1>7, ChildStep DEF ChildRuns
  <1>8. CASE Consumer
    BY <1>1, <1>8 DEF Consumer, ReceiveChunk, ChannelEnds, Translate, TranslateCancelled,
                      ConsumerOnly
  <1>9. CASE Caller
    BY <1>1, <1>9 DEF Caller, Join, PublishSource, PublishOutput, PublishOnly, MarkComplete,
                      Publish, CallerOnly
  <1>10. CASE Cancel
    BY <1>1, <1>10 DEF Cancel
  <1>11. CASE Restart
    BY <1>2, <1>11 DEF Restart
  <1>12. CASE UNCHANGED vars
    BY <1>1, <1>12 DEF vars
  <1> QED BY <1>3, <1>4, <1>5, <1>6, <1>7, <1>8, <1>9, <1>10, <1>11, <1>12
          DEF Next, Producer

\* A call of ProcessSupervisor::run_inner that is not stopped has reported every
\* line within PROGRESS_LINE_LIMIT its child and the child's descendants wrote, in
\* order, whatever the sizes of the pipe and the queue: the last round of the
\* loop, after the end of the reader, takes what is left.
THEOREM EveryLineTold == Spec => []LinesDelivered
PROOF
  <1>1. Init => LinesInv
    BY NoProcessSound DEF Init, LinesInv
  <1>2. LinesInv /\ [Next]_vars => LinesInv'
    BY LinesStep
  <1> QED BY <1>1, <1>2, TellsLines, PTL DEF Spec

-----------------------------------------------------------------------------
(* The types *)

Contexts     == Seq([cue : Cue, text : Text])
GroupKeys    == [first : 1..Chunks, last : 1..Chunks, source : Seq(Cue), context : Contexts]
Groups       == [key : GroupKeys, context : Contexts, texts : Seq(Text)]
Parts        == [texts : Seq(Text), context : Contexts]
Publications == [source : {None} \cup Seq(Cue),
                 output : {None} \cup Seq([cue : Cue, text : Text]), complete : BOOLEAN]
Runs         == [n : 1..MaxRuns, strategy : Strategies, reuse : Reuse]
Errors       == {None, "failed", "cancelled", "stopped"}
Producers    == [pc : {"chunk", "whisper", "raw", "cut", "ready", "send", "ended"},
                 chunk : 1..(Chunks + 1), heard : {None} \cup Recognitions, doc : Seq(Cue),
                 error : Errors]
Consumers    == [pc : {"recv", "translate", "ended"}, pending : Seq(Recognitions),
                 context : Contexts, parts : Seq(Parts), error : Errors]
Answers      == {"running", "source", "output", "complete", "ok", "failed", "cancelled",
                 "stopped"}

StoreTypes ==
  /\ raw \in [1..Chunks -> {None} \cup Recognitions]
  /\ cut \in [1..Chunks -> {None} \cup Recognitions]
  /\ groups \in [1..Chunks -> {None} \cup Groups]

RunTypes ==
  /\ run \in Runs /\ cancelled \in BOOLEAN /\ receiver \in BOOLEAN
  /\ failures \in 0..MaxFailures /\ main \in Answers /\ published \in Publications

ThreadTypes ==
  /\ prod \in Producers /\ cons \in Consumers
  /\ channel \in Seq(Recognitions) /\ Len(channel) <= Capacity

-----------------------------------------------------------------------------
(* The invariant *)

\* What is kept, or held, is a recognition of the chunk it is kept, or held, for.
HeardOK ==
  /\ \A c \in 1..Chunks : /\ raw[c] # None => raw[c].chunk = c
                          /\ cut[c] # None => cut[c].chunk = c
  /\ prod.pc \in {"raw", "cut", "ready", "send"} =>
       prod.heard \in Recognitions /\ prod.heard.chunk = prod.chunk
  /\ prod.pc \in {"whisper", "raw", "cut", "ready", "send"} => prod.chunk <= Chunks

\* The document of the run has one recognition of each chunk sent so far.
DocOK ==
  \A a, b \in Range(prod.doc) : /\ a.chunk < prod.chunk
                                /\ a.chunk = b.chunk => a.by = b.by

\* All that was sent is part of the document, and so is all that was translated.
Sent(r, doc) == \A i \in 1..r.cues : Cues(r)[i] \in Range(doc)

SentOK ==
  /\ \A k \in 1..Len(channel) : Sent(channel[k], prod.doc)
  /\ \A k \in 1..Len(cons.pending) : Sent(cons.pending[k], prod.doc)
  /\ \A g \in 1..Len(cons.parts) : \A i \in 1..Len(cons.parts[g].texts) :
       cons.parts[g].texts[i].of \in Range(prod.doc)

\* There are no more groups than chunks.
CountOK ==
  /\ Len(cons.parts) + Len(cons.pending) + Len(channel) <= prod.chunk - 1
  /\ cons.pc = "translate" => cons.pending # <<>>

\* The texts kept for a group are those of the source and the context of its key.
Faithful(group) ==
  /\ group.context = group.key.context
  /\ Len(group.texts) = Len(group.key.source)
  /\ \A i \in 1..Len(group.texts) : group.texts[i].of = group.key.source[i]

GroupsOK == \A g \in 1..Chunks : groups[g] # None => Faithful(groups[g])

\* The context of a group is the end of the group before it.
TailOf(texts) == LastOf([i \in DOMAIN texts |-> [cue |-> texts[i].of, text |-> texts[i]]])

ContextOK ==
  run.strategy = "turbo" =>
    /\ \A g \in 2..Len(cons.parts) :
         cons.parts[g].context = TailOf(cons.parts[g - 1].texts)
    /\ cons.parts # <<>> =>
         cons.context = TailOf(cons.parts[Len(cons.parts)].texts)

\* The caller publishes what the threads have left, once they have ended.
SameCues(source, output) == source = [i \in DOMAIN output |-> output[i].cue]

CallerOK ==
  /\ main # "running" => prod.pc = "ended" /\ cons.pc = "ended"
  /\ main \in {"source", "output", "complete"} => Aligned
  /\ main = "output" => published.source = prod.doc
  /\ main \in {"complete", "ok"} =>
       published.source = None \/ SameCues(published.source, published.output)

OutputOK ==
  published.output # None =>
    \A i \in 1..Len(published.output) :
      published.output[i].text.of = published.output[i].cue

MediaInv ==
  /\ StoreTypes /\ RunTypes /\ ThreadTypes
  /\ HeardOK /\ DocOK /\ SentOK /\ CountOK /\ GroupsOK /\ ContextOK /\ CallerOK /\ OutputOK

-----------------------------------------------------------------------------
(* Sequences and their concatenation *)

\* A set of numbers that is not empty has a least element.
LEMMA LeastNumber ==
  ASSUME NEW S \in SUBSET Nat, S # {}
  PROVE  \E x \in S : \A y \in S : x <= y
PROOF
  <1> DEFINE R == OpToRel(<, Nat)
  <1>1. IsWellFoundedOn(R, Nat)
    BY NatLessThanWellFounded
  <1>2. \A x, y \in Nat : y < x <=> <<y, x>> \in R
    BY DEF OpToRel
  <1> HIDE DEF R
  <1>3. PICK x \in S : \A y \in S : ~ (<<y, x>> \in R)
    BY <1>1, WFMin
  <1>4. ASSUME NEW y \in S PROVE x <= y
    <2>1. x \in Nat /\ y \in Nat
      OBVIOUS
    <2>2. ~ (y < x)
      BY <1>2, <1>3, <2>1
    <2> QED BY <2>1, <2>2
  <1> QED BY <1>3, <1>4

LEMMA RangeOfConcat ==
  ASSUME NEW S, NEW s \in Seq(S), NEW t \in Seq(S)
  PROVE  Range(s \o t) = Range(s) \cup Range(t)
PROOF
  <1>1. /\ s \o t \in Seq(S) /\ Len(s \o t) = Len(s) + Len(t)
        /\ \A i \in 1 .. Len(s) + Len(t) : (s \o t)[i] =
             IF i <= Len(s) THEN s[i] ELSE t[i - Len(s)]
    BY ConcatProperties
  <1>2. /\ DOMAIN s = 1..Len(s) /\ DOMAIN t = 1..Len(t)
        /\ DOMAIN (s \o t) = 1..(Len(s) + Len(t))
        /\ Len(s) \in Nat /\ Len(t) \in Nat
    BY <1>1
  <1>3. ASSUME NEW i \in 1..(Len(s) + Len(t)) PROVE (s \o t)[i] \in Range(s) \cup Range(t)
    <2>1. CASE i <= Len(s)
      <3>1. (s \o t)[i] = s[i] /\ i \in DOMAIN s
        BY <1>1, <1>2, <2>1
      <3> QED BY <3>1 DEF Range
    <2>2. CASE ~ (i <= Len(s))
      <3>1. (s \o t)[i] = t[i - Len(s)] /\ i - Len(s) \in DOMAIN t
        BY <1>1, <1>2, <2>2
      <3> QED BY <3>1 DEF Range
    <2> QED BY <2>1, <2>2
  <1>4. ASSUME NEW i \in 1..Len(s) PROVE s[i] \in Range(s \o t)
    <2>1. i \in DOMAIN (s \o t) /\ (s \o t)[i] = s[i]
      BY <1>1, <1>2
    <2> QED BY <2>1 DEF Range
  <1>5. ASSUME NEW i \in 1..Len(t) PROVE t[i] \in Range(s \o t)
    <2>1. i + Len(s) \in DOMAIN (s \o t) /\ (s \o t)[i + Len(s)] = t[(i + Len(s)) - Len(s)]
      BY <1>1, <1>2
    <2>2. (i + Len(s)) - Len(s) = i
      BY <1>2
    <2> QED BY <2>1, <2>2 DEF Range
  <1> QED BY <1>2, <1>3, <1>4, <1>5 DEF Range

\* flatten is the function that FlattenSeq declares, up to the n-th of seqs.
Flattens(seqs, n, flatten) ==
  flatten = [i \in 1..n |-> IF i = 1 THEN seqs[i] ELSE flatten[i - 1] \o seqs[i]]

LEMMA FlattenExists ==
  ASSUME NEW seqs, NEW len \in Nat
  PROVE  \E flatten : Flattens(seqs, len, flatten)
PROOF
  <1> DEFINE Bad == {n \in Nat : ~ \E flatten : Flattens(seqs, n, flatten)}
  <1>1. ASSUME Bad # {} PROVE FALSE
    <2>1. PICK n \in Bad : \A m \in Bad : n <= m
      BY <1>1, LeastNumber
    <2>2. CASE n = 0
      <3>1. Flattens(seqs, 0, [i \in {} |-> seqs[i]])
        BY DEF Flattens
      <3> QED BY <2>1, <2>2, <3>1
    <2>3. CASE n # 0
      <3>1. n - 1 \in Nat /\ n \in Nat /\ n - 1 \notin Bad
        BY <2>1, <2>3
      <3>2. PICK before : Flattens(seqs, n - 1, before)
        BY <3>1
      <3> DEFINE Next1(f, i) == IF i = 1 THEN seqs[i] ELSE f[i - 1] \o seqs[i]
                 next == [i \in 1..n |-> IF i = n THEN Next1(before, n) ELSE before[i]]
      <3>3. before = [i \in 1..(n - 1) |-> Next1(before, i)]
        BY <3>2 DEF Flattens
      <3>4. ASSUME NEW i \in 1..n PROVE next[i] = Next1(next, i)
        <4>1. next[i] = Next1(before, i)
          <5>1. CASE i = n
            BY <5>1
          <5>2. CASE i # n
            <6>1. i \in 1..(n - 1) /\ next[i] = before[i]
              BY <3>1, <5>2
            <6> QED BY <3>3, <6>1
          <5> QED BY <5>1, <5>2
        <4>2. ASSUME i # 1 PROVE next[i - 1] = before[i - 1]
          <5>1. i - 1 \in 1..n /\ i - 1 # n
            BY <3>1, <4>2
          <5> QED BY <5>1
        <4> QED BY <4>1, <4>2
      <3>5. next = [i \in 1..n |-> next[i]]
        OBVIOUS
      <3>6. Flattens(seqs, n, next)
        <4> HIDE DEF next
        <4> QED BY <3>4, <3>5 DEF Flattens
      <3> QED BY <2>1, <3>6
    <2> QED BY <2>2, <2>3
  <1> QED BY <1>1

\* A concatenation has the elements of the sequences it is made of, and no other.
LEMMA FlattenElements ==
  ASSUME NEW S, NEW seqs \in Seq(Seq(S))
  PROVE  /\ FlattenSeq(seqs) \in Seq(S)
         /\ \A x \in Range(FlattenSeq(seqs)) : \E k \in 1..Len(seqs) : x \in Range(seqs[k])
PROOF
  <1> DEFINE len == Len(seqs)
             flatten == CHOOSE f : Flattens(seqs, len, f)
             Good(n) == /\ flatten[n] \in Seq(S)
                        /\ \A x \in Range(flatten[n]) : \E k \in 1..n : x \in Range(seqs[k])
  <1>1. len \in Nat
    OBVIOUS
  <1>2. Flattens(seqs, len, flatten)
    BY <1>1, FlattenExists
  <1>3. len # 0 => FlattenSeq(seqs) = flatten[len]
    BY DEF FlattenSeq, Flattens
  <1> HIDE DEF flatten
  <1>4. ASSUME NEW n \in 1..len PROVE Good(n)
    <2> DEFINE Bad == {m \in 1..len : ~ Good(m)}
    <2>1. ASSUME Bad # {} PROVE FALSE
      <3>1. Bad \in SUBSET Nat
        BY <1>1
      <3> HIDE DEF Bad
      <3>2. PICK m \in Bad : \A j \in Bad : m <= j
        BY <2>1, <3>1, LeastNumber
      <3>3. m \in 1..len /\ ~ Good(m) /\ seqs[m] \in Seq(S)
        BY <3>2 DEF Bad
      <3>4. flatten[m] = IF m = 1 THEN seqs[m] ELSE flatten[m - 1] \o seqs[m]
        BY <1>2, <3>3 DEF Flattens
      <3>5. CASE m = 1
        BY <3>3, <3>4, <3>5
      <3>6. CASE m # 1
        <4>1. m - 1 \in 1..len /\ ~ (m <= m - 1) /\ 1..(m - 1) \subseteq 1..m /\ m \in 1..m
          BY <1>1, <3>3, <3>6
        <4>2. Good(m - 1)
          BY <3>2, <4>1 DEF Bad
        <4>3. /\ flatten[m] \in Seq(S)
              /\ Range(flatten[m]) = Range(flatten[m - 1]) \cup Range(seqs[m])
          BY <3>3, <3>4, <3>6, <4>2, RangeOfConcat, ConcatProperties
        <4> QED BY <3>3, <4>1, <4>2, <4>3
      <3> QED BY <3>5, <3>6
    <2> QED BY <2>1 DEF Bad
  <1>5. CASE len = 0
    <2>1. seqs = <<>> /\ FlattenSeq(seqs) = seqs
      BY <1>5 DEF FlattenSeq
    <2>2. <<>> \in Seq(S) /\ DOMAIN <<>> = {}
      OBVIOUS
    <2>3. Range(<<>>) = {}
      BY <2>2 DEF Range
    <2> QED BY <2>1, <2>2, <2>3
  <1>6. CASE len # 0
    <2>1. len \in 1..len
      BY <1>1, <1>6
    <2> QED BY <1>3, <1>4, <1>6, <2>1
  <1> QED BY <1>5, <1>6

-----------------------------------------------------------------------------
(* Cues, sources, texts and tails *)

\* The cues of a recognition.
LEMMA CuesType ==
  ASSUME NEW r \in Recognitions
  PROVE  /\ Cues(r) \in Seq(Cue) /\ Len(Cues(r)) = r.cues /\ r.cues \in Nat
         /\ \A a \in Range(Cues(r)) : a.chunk = r.chunk /\ a.by = r.by
PROOF
  <1>1. r.cues \in Nat /\ r.chunk \in 1..Chunks /\ r.by \in 1..MaxRuns
    BY PipelineAssumption DEF Recognitions
  <1>2. \A i \in 1..r.cues : [chunk |-> r.chunk, place |-> i, by |-> r.by] \in Cue
    BY <1>1 DEF Cue
  <1>3. Cues(r) \in Seq(Cue) /\ Len(Cues(r)) = r.cues
    BY <1>1, <1>2 DEF Cues
  <1>4. \A a \in Range(Cues(r)) : a.chunk = r.chunk /\ a.by = r.by
    <2> TAKE a \in Range(Cues(r))
    <2>1. PICK i \in DOMAIN Cues(r) : a = Cues(r)[i]
      BY DEF Range
    <2>2. a = [chunk |-> r.chunk, place |-> i, by |-> r.by]
      BY <2>1 DEF Cues
    <2> QED BY <2>2
  <1> QED BY <1>1, <1>3, <1>4

\* The source of a group has the cues of its chunks.
LEMMA SourceElements ==
  ASSUME NEW chunks \in Seq(Recognitions)
  PROVE  /\ SourceOf(chunks) \in Seq(Cue)
         /\ \A a \in Range(SourceOf(chunks)) :
              \E k \in 1..Len(chunks) : a \in Range(Cues(chunks[k]))
PROOF
  <1> DEFINE seqs == [i \in DOMAIN chunks |-> Cues(chunks[i])]
  <1>1. DOMAIN chunks = 1..Len(chunks) /\ Len(chunks) \in Nat
    OBVIOUS
  <1>2. \A i \in 1..Len(chunks) : Cues(chunks[i]) \in Seq(Cue)
    BY CuesType
  <1>3. seqs \in Seq(Seq(Cue)) /\ Len(seqs) = Len(chunks)
    BY <1>1, <1>2
  <1>4. \A k \in 1..Len(chunks) : seqs[k] = Cues(chunks[k])
    BY <1>1
  <1>5. SourceOf(chunks) = FlattenSeq(seqs)
    BY DEF SourceOf
  <1> HIDE DEF seqs
  <1> QED BY <1>3, <1>4, <1>5, FlattenElements

\* What was translated is what the groups have.
LEMMA TranslatedElements ==
  ASSUME ThreadTypes
  PROVE  /\ Translated \in Seq(Text)
         /\ \A t \in Range(Translated) :
              \E g \in 1..Len(cons.parts) : t \in Range(cons.parts[g].texts)
PROOF
  <1> DEFINE parts == cons.parts
             seqs == [g \in DOMAIN parts |-> parts[g].texts]
  <1>1. parts \in Seq(Parts) /\ DOMAIN parts = 1..Len(parts) /\ Len(parts) \in Nat
    BY DEF ThreadTypes, Consumers
  <1>2. \A g \in 1..Len(parts) : parts[g].texts \in Seq(Text)
    <2>1. \A g \in 1..Len(parts) : parts[g] \in Parts
      BY <1>1
    <2> QED BY <2>1 DEF Parts
  <1>5. Translated = FlattenSeq(seqs)
    BY DEF Translated
  <1> HIDE DEF parts
  <1>3. seqs \in Seq(Seq(Text)) /\ Len(seqs) = Len(parts)
    BY <1>1, <1>2
  <1>4. \A g \in 1..Len(parts) : seqs[g] = parts[g].texts
    BY <1>1
  <1> HIDE DEF seqs
  <1>6. /\ Translated \in Seq(Text)
        /\ \A t \in Range(Translated) : \E g \in 1..Len(parts) : t \in Range(parts[g].texts)
    BY <1>3, <1>4, <1>5, FlattenElements
  <1> QED BY <1>6 DEF parts

\* The last elements of a sequence are a sequence of the same kind.
LEMMA LastOfType ==
  ASSUME NEW S, NEW s \in Seq(S)
  PROVE  LastOf(s) \in Seq(S)
PROOF
  <1> DEFINE keep == IF BatchSize = 0 THEN 1 ELSE BatchSize
  <1>1. keep \in Nat /\ keep > 0 /\ Len(s) \in Nat
    BY PipelineAssumption
  <1>2. LastOf(s) = IF Len(s) <= keep THEN s ELSE SubSeq(s, Len(s) - keep + 1, Len(s))
    BY DEF LastOf
  <1> HIDE DEF keep
  <1>3. ASSUME ~ (Len(s) <= keep)
        PROVE  SubSeq(s, Len(s) - keep + 1, Len(s)) \in Seq(S)
    <2>1. Len(s) - keep + 1 \in Int /\ Len(s) \in Int /\ Len(s) - keep + 1 >= 1
      BY <1>1, <1>3
    <2>2. \A i \in (Len(s) - keep + 1) .. Len(s) : i \in 1..Len(s)
      BY <2>1
    <2>3. \A i \in (Len(s) - keep + 1) .. Len(s) : s[i] \in S
      BY <2>2
    <2> QED BY <2>1, <2>3, SubSeqProperties
  <1> QED BY <1>2, <1>3

\* The tail of a group is the context of the next, and the same whether its cues
\* are taken from the source or from the texts that agree with it.
LEMMA TailsAgree ==
  ASSUME NEW source \in Seq(Cue), NEW texts \in Seq(Text),
         \A i \in 1..Len(texts) : texts[i].of = source[i]
  PROVE  ConfirmedTail(source, texts) = TailOf(texts) /\ TailOf(texts) \in Contexts
PROOF
  <1> DEFINE pairs == [i \in DOMAIN texts |-> [cue |-> texts[i].of, text |-> texts[i]]]
  <1>1. DOMAIN texts = 1..Len(texts) /\ Len(texts) \in Nat
    OBVIOUS
  <1>0. \A i \in 1..Len(texts) : texts[i] \in Text
    OBVIOUS
  <1>2. \A i \in 1..Len(texts) : texts[i] \in Text /\ texts[i].of \in Cue
    BY <1>0 DEF Text
  <1>3. pairs \in Contexts
    BY <1>1, <1>2 DEF Contexts
  <1>4. pairs = [i \in DOMAIN texts |-> [cue |-> source[i], text |-> texts[i]]]
    BY <1>1
  <1>5. TailOf(texts) = LastOf(pairs)
    BY DEF TailOf
  <1>6. ConfirmedTail(source, texts) = LastOf(pairs)
    BY <1>4 DEF ConfirmedTail
  <1>7. LastOf(pairs) \in Contexts
    BY <1>3, LastOfType DEF Contexts
  <1> QED BY <1>5, <1>6, <1>7

-----------------------------------------------------------------------------
(* The steps of the transcription thread *)

\* A step of the thread that sends nothing.
LEMMA ProducerMoves ==
  ASSUME MediaInv, prod.pc # "ended", ProducerOnly, UNCHANGED <<groups, channel>>,
         prod' \in Producers, prod'.doc = prod.doc, prod'.chunk = prod.chunk,
         failures' \in 0..MaxFailures,
         raw' \in [1..Chunks -> {None} \cup Recognitions],
         cut' \in [1..Chunks -> {None} \cup Recognitions],
         HeardOK'
  PROVE  MediaInv'
PROOF
  <1>1. StoreTypes' /\ RunTypes' /\ ThreadTypes'
    BY DEF MediaInv, StoreTypes, RunTypes, ThreadTypes, ProducerOnly
  <1>2. DocOK'
    BY DEF MediaInv, DocOK
  <1>3. SentOK'
    BY DEF MediaInv, SentOK, Sent, ProducerOnly
  <1>4. CountOK' /\ GroupsOK' /\ ContextOK' /\ OutputOK'
    BY DEF MediaInv, CountOK, GroupsOK, ContextOK, OutputOK, ProducerOnly
  <1>5. CallerOK'
    <2>1. main = "running" /\ main' = main
      BY DEF MediaInv, CallerOK, ProducerOnly
    <2> QED BY <2>1 DEF CallerOK
  <1> QED BY <1>1, <1>2, <1>3, <1>4, <1>5 DEF MediaInv

\* The thread ends.
LEMMA ProducerStops ==
  ASSUME MediaInv, prod.pc # "ended", ProducerOnly, UNCHANGED <<store, channel>>,
         NEW error \in Errors, prod' = [prod EXCEPT !.pc = "ended", !.error = error],
         failures' \in 0..MaxFailures
  PROVE  MediaInv'
PROOF
  <1>1. prod \in Producers /\ HeardOK /\ StoreTypes
    BY DEF MediaInv, ThreadTypes
  <1>2. /\ prod' \in Producers /\ prod'.doc = prod.doc /\ prod'.chunk = prod.chunk
        /\ prod'.pc = "ended"
    BY <1>1 DEF Producers
  <1>3. HeardOK'
    BY <1>1, <1>2 DEF HeardOK, store
  <1> QED BY <1>1, <1>2, <1>3, ProducerMoves DEF StoreTypes, store

LEMMA FailuresBound ==
  ASSUME RunTypes, Breaks
  PROVE  failures' \in 0..MaxFailures
BY PipelineAssumption DEF RunTypes, Breaks

LEMMA NextChunkStep ==
  ASSUME MediaInv, NextChunk
  PROVE  MediaInv'
PROOF
  <1>1. /\ prod \in Producers /\ HeardOK /\ StoreTypes /\ RunTypes
        /\ prod.pc = "chunk" /\ prod.chunk <= Chunks /\ UNCHANGED <<store, channel, failures>>
        /\ ProducerOnly
    BY DEF MediaInv, ThreadTypes, NextChunk
  <1> DEFINE c == prod.chunk
  <1>2. c \in 1..Chunks
    BY <1>1, PipelineAssumption DEF Producers
  <1>3. /\ raw[c] \in {None} \cup Recognitions /\ cut[c] \in {None} \cup Recognitions
        /\ raw[c] # None => raw[c].chunk = c
        /\ cut[c] # None => cut[c].chunk = c
    BY <1>1, <1>2 DEF StoreTypes, HeardOK
  <1>4. PICK pc \in {"whisper", "ready", "cut"}, heard \in {None} \cup Recognitions :
          /\ prod' = [prod EXCEPT !.pc = pc, !.heard = heard]
          /\ pc # "whisper" => heard # None /\ heard.chunk = c
    <2>1. CASE Resumed(c)
      <3>1. cut[c] # None /\ prod' = [prod EXCEPT !.pc = "ready", !.heard = cut[c]]
        BY <2>1 DEF NextChunk, Resumed
      <3> QED BY <1>3, <3>1
    <2>2. CASE ~Resumed(c) /\ Recalled(c)
      <3>1. raw[c] # None /\ prod' = [prod EXCEPT !.pc = "cut", !.heard = raw[c]]
        BY <2>2 DEF NextChunk, Recalled
      <3> QED BY <1>3, <3>1
    <2>3. CASE ~Resumed(c) /\ ~Recalled(c)
      <3>1. prod' = [prod EXCEPT !.pc = "whisper"]
        BY <2>3 DEF NextChunk
      <3>2. prod' = [prod EXCEPT !.pc = "whisper", !.heard = prod.heard]
        BY <1>1, <3>1 DEF Producers
      <3>3. prod.heard \in {None} \cup Recognitions
        BY <1>1 DEF Producers
      <3> QED BY <3>2, <3>3
    <2> QED BY <2>1, <2>2, <2>3
  <1>5. /\ prod' \in Producers /\ prod'.doc = prod.doc /\ prod'.chunk = prod.chunk
        /\ prod'.pc = pc /\ prod'.heard = heard
    BY <1>1, <1>4 DEF Producers
  <1>6. HeardOK'
    BY <1>1, <1>4, <1>5 DEF HeardOK, store
  <1> QED BY <1>1, <1>5, <1>6, ProducerMoves DEF StoreTypes, RunTypes, store

LEMMA WhisperReturnsStep ==
  ASSUME MediaInv, WhisperReturns
  PROVE  MediaInv'
PROOF
  <1>1. /\ prod \in Producers /\ HeardOK /\ StoreTypes /\ RunTypes
        /\ prod.pc = "whisper" /\ UNCHANGED <<store, channel, failures>> /\ ProducerOnly
    BY DEF MediaInv, ThreadTypes, WhisperReturns
  <1>2. CASE proc.result = "ok"
    <2>1. PICK n \in CueCounts :
            prod' = [prod EXCEPT !.pc = "raw",
                       !.heard = [chunk |-> prod.chunk, by |-> run.n, cues |-> n]]
      BY <1>2 DEF WhisperReturns
    <2> DEFINE heard == [chunk |-> prod.chunk, by |-> run.n, cues |-> n]
    <2>2. prod.chunk \in 1..Chunks /\ run.n \in 1..MaxRuns
      BY <1>1, PipelineAssumption DEF Producers, RunTypes, Runs, HeardOK
    <2>3. heard \in Recognitions /\ heard.chunk = prod.chunk
      BY <2>2 DEF Recognitions
    <2> HIDE DEF heard
    <2>4. prod' = [prod EXCEPT !.pc = "raw", !.heard = heard]
      BY <2>1 DEF heard
    <2>5. /\ prod' \in Producers /\ prod'.doc = prod.doc /\ prod'.chunk = prod.chunk
          /\ prod'.pc = "raw" /\ prod'.heard = heard
      BY <1>1, <2>3, <2>4 DEF Producers
    <2>6. HeardOK'
      BY <1>1, <2>3, <2>5 DEF HeardOK, store
    <2> QED BY <1>1, <2>5, <2>6, ProducerMoves DEF StoreTypes, RunTypes, store
  <1>3. CASE proc.result # "ok"
    <2>1. PICK error \in Errors : prod' = [prod EXCEPT !.pc = "ended", !.error = error]
      BY <1>3 DEF WhisperReturns, ProducerFails, Errors
    <2> QED BY <1>1, <2>1, ProducerStops DEF RunTypes
  <1> QED BY <1>2, <1>3

LEMMA KeepRawStep ==
  ASSUME MediaInv, KeepRaw
  PROVE  MediaInv'
PROOF
  <1>1. /\ prod \in Producers /\ HeardOK /\ StoreTypes /\ RunTypes
        /\ prod.pc = "raw" /\ UNCHANGED <<cut, groups, channel>> /\ ProducerOnly
    BY DEF MediaInv, ThreadTypes, KeepRaw
  <1>2. CASE prod' = [prod EXCEPT !.pc = "cut"] /\ UNCHANGED failures
    <2>1. /\ prod' \in Producers /\ prod'.doc = prod.doc /\ prod'.chunk = prod.chunk
          /\ prod'.pc = "cut" /\ prod'.heard = prod.heard
      BY <1>1, <1>2 DEF Producers
    <2>2. /\ prod.chunk \in 1..Chunks /\ prod.heard \in Recognitions
          /\ prod.heard.chunk = prod.chunk
      BY <1>1, PipelineAssumption DEF HeardOK, Producers
    <2>3. raw' = raw \/ raw' = [raw EXCEPT ![prod.chunk] = prod.heard]
      BY DEF KeepRaw
    <2>4. /\ raw' \in [1..Chunks -> {None} \cup Recognitions]
          /\ \A c \in 1..Chunks : raw'[c] # None => raw'[c].chunk = c
      BY <1>1, <2>2, <2>3 DEF StoreTypes, HeardOK
    <2>5. HeardOK'
      BY <1>1, <2>1, <2>2, <2>4 DEF HeardOK
    <2> QED BY <1>1, <1>2, <2>1, <2>4, <2>5, ProducerMoves DEF StoreTypes, RunTypes
  <1>3. CASE Breaks /\ ProducerFails("failed") /\ UNCHANGED raw
    BY <1>1, <1>3, ProducerStops, FailuresBound DEF ProducerFails, Errors, store
  <1> QED BY <1>2, <1>3 DEF KeepRaw

LEMMA KeepCutStep ==
  ASSUME MediaInv, KeepCut
  PROVE  MediaInv'
PROOF
  <1>1. /\ prod \in Producers /\ HeardOK /\ StoreTypes /\ RunTypes
        /\ prod.pc = "cut" /\ UNCHANGED <<raw, groups, channel>> /\ ProducerOnly
    BY DEF MediaInv, ThreadTypes, KeepCut
  <1>2. CASE prod' = [prod EXCEPT !.pc = "ready"] /\ UNCHANGED failures
    <2>1. /\ prod' \in Producers /\ prod'.doc = prod.doc /\ prod'.chunk = prod.chunk
          /\ prod'.pc = "ready" /\ prod'.heard = prod.heard
      BY <1>1, <1>2 DEF Producers
    <2>2. /\ prod.chunk \in 1..Chunks /\ prod.heard \in Recognitions
          /\ prod.heard.chunk = prod.chunk
      BY <1>1, PipelineAssumption DEF HeardOK, Producers
    <2>3. cut' = cut \/ cut' = [cut EXCEPT ![prod.chunk] = prod.heard]
      BY DEF KeepCut
    <2>4. /\ cut' \in [1..Chunks -> {None} \cup Recognitions]
          /\ \A c \in 1..Chunks : cut'[c] # None => cut'[c].chunk = c
      BY <1>1, <2>2, <2>3 DEF StoreTypes, HeardOK
    <2>5. HeardOK'
      BY <1>1, <2>1, <2>2, <2>4 DEF HeardOK
    <2> QED BY <1>1, <1>2, <2>1, <2>4, <2>5, ProducerMoves DEF StoreTypes, RunTypes
  <1>3. CASE Breaks /\ ProducerFails("failed") /\ UNCHANGED cut
    BY <1>1, <1>3, ProducerStops, FailuresBound DEF ProducerFails, Errors, store
  <1> QED BY <1>2, <1>3 DEF KeepCut

LEMMA SaveChunkStep ==
  ASSUME MediaInv, SaveChunk
  PROVE  MediaInv'
PROOF
  <1>1. /\ prod \in Producers /\ HeardOK /\ StoreTypes /\ RunTypes
        /\ prod.pc = "ready" /\ UNCHANGED <<store, channel>> /\ ProducerOnly
    BY DEF MediaInv, ThreadTypes, SaveChunk
  <1>2. CASE prod' = [prod EXCEPT !.pc = "send"] /\ UNCHANGED failures
    <2>1. /\ prod' \in Producers /\ prod'.doc = prod.doc /\ prod'.chunk = prod.chunk
          /\ prod'.pc = "send" /\ prod'.heard = prod.heard
      BY <1>1, <1>2 DEF Producers
    <2>2. HeardOK'
      BY <1>1, <2>1 DEF HeardOK, store
    <2> QED BY <1>1, <1>2, <2>1, <2>2, ProducerMoves DEF StoreTypes, RunTypes, store
  <1>3. CASE Breaks /\ ProducerFails("failed")
    BY <1>1, <1>3, ProducerStops, FailuresBound DEF ProducerFails, Errors
  <1> QED BY <1>2, <1>3 DEF SaveChunk

LEMMA ProducerEndsStep ==
  ASSUME MediaInv, ProducerEnds \/ ProducerCancelled
  PROVE  MediaInv'
PROOF
  <1>1. /\ prod \in Producers /\ RunTypes /\ prod.pc # "ended"
        /\ UNCHANGED <<store, channel>> /\ ProducerOnly
    BY DEF MediaInv, ThreadTypes, ProducerEnds, ProducerCancelled, Checks
  <1>2. CASE prod' = [prod EXCEPT !.pc = "ended"] /\ UNCHANGED failures
    <2>1. prod.error \in Errors /\ prod' = [prod EXCEPT !.pc = "ended", !.error = prod.error]
      BY <1>1, <1>2 DEF Producers
    <2> QED BY <1>1, <1>2, <2>1, ProducerStops DEF RunTypes
  <1>3. CASE Breaks /\ ProducerFails("failed")
    BY <1>1, <1>3, ProducerStops, FailuresBound DEF ProducerFails, Errors
  <1>4. CASE ProducerFails("cancelled") /\ UNCHANGED failures
    BY <1>1, <1>4, ProducerStops DEF ProducerFails, Errors, RunTypes
  <1> QED BY <1>2, <1>3, <1>4 DEF ProducerEnds, ProducerCancelled

\* The chunk sent is the only one of its number in the document, and all its
\* cues have one recognition.
LEMMA SendChunkStep ==
  ASSUME MediaInv, SendChunk
  PROVE  MediaInv'
PROOF
  <1>1. /\ prod \in Producers /\ channel \in Seq(Recognitions) /\ HeardOK /\ RunTypes
        /\ prod.pc = "send" /\ UNCHANGED <<store, failures>> /\ ProducerOnly
    BY DEF MediaInv, ThreadTypes, SendChunk
  <1>2. CASE ~receiver /\ ProducerFails("stopped") /\ UNCHANGED channel
    BY <1>1, <1>2, ProducerStops DEF ProducerFails, Errors, RunTypes
  <1>3. CASE /\ receiver /\ HasRoom(channel) /\ channel' = Append(channel, prod.heard)
             /\ prod' = [prod EXCEPT !.pc = "chunk", !.chunk = @ + 1, !.heard = None,
                                     !.doc = @ \o Cues(prod.heard)]
    <2> DEFINE r == prod.heard
               doc == prod.doc \o Cues(r)
               next == prod.chunk + 1
    <2>1. r \in Recognitions /\ r.chunk = prod.chunk /\ prod.chunk \in 1..Chunks
      BY <1>1, PipelineAssumption DEF HeardOK, Producers
    <2>2. prod.doc \in Seq(Cue) /\ Cues(r) \in Seq(Cue)
      BY <1>1, <2>1, CuesType DEF Producers
    <2>3. doc \in Seq(Cue) /\ Range(doc) = Range(prod.doc) \cup Range(Cues(r))
      BY <2>2, ConcatProperties, RangeOfConcat
    <2>4. next \in 1..(Chunks + 1) /\ next - 1 = prod.chunk
      BY <2>1, PipelineAssumption
    <2>5. prod' = [prod EXCEPT !.pc = "chunk", !.chunk = next, !.heard = None, !.doc = doc]
      BY <1>3
    <2>6. channel' = Append(channel, r)
      BY <1>3
    <2> HIDE DEF r, doc
    <2>7. /\ prod' \in Producers /\ prod'.doc = doc /\ prod'.chunk = next
          /\ prod'.pc = "chunk"
      <3> HIDE DEF next
      <3> QED BY <1>1, <2>3, <2>4, <2>5 DEF Producers
    <2>8. /\ channel' \in Seq(Recognitions) /\ Len(channel') = Len(channel) + 1
          /\ \A k \in 1..Len(channel') : channel'[k] = IF k = Len(channel) + 1 THEN r
                                                        ELSE channel[k]
      BY <1>1, <2>1, <2>6
    <2>9. Len(channel') <= Capacity
      BY <1>1, <1>3, <2>8, PipelineAssumption DEF HasRoom
    <2>10. StoreTypes' /\ RunTypes' /\ ThreadTypes'
      BY <1>1, <2>7, <2>8, <2>9
         DEF MediaInv, StoreTypes, RunTypes, ThreadTypes, ProducerOnly, store
    <2>11. HeardOK'
      BY <1>1, <2>7 DEF HeardOK, store
    <2>12. DocOK'
      <3>1. ASSUME NEW a \in Range(doc), NEW b \in Range(doc)
            PROVE  a.chunk < next /\ (a.chunk = b.chunk => a.by = b.by)
        <4>1. \A e \in Range(prod.doc) : e.chunk \in Nat /\ e.chunk < prod.chunk
          <5>1. \A e \in Range(prod.doc) : e \in Cue
            BY <2>2 DEF Range
          <5> QED BY <5>1, PipelineAssumption DEF MediaInv, DocOK, Cue
        <4>2. \A e \in Range(Cues(r)) : e.chunk = prod.chunk /\ e.by = r.by
          BY <2>1, CuesType
        <4>3. \A e, f \in Range(prod.doc) : e.chunk = f.chunk => e.by = f.by
          BY DEF MediaInv, DocOK
        <4>4. \A e \in Range(doc) : e.chunk \in Nat /\ e.chunk <= prod.chunk
          BY <2>1, <2>3, <4>1, <4>2
        <4>5. \A e \in Range(doc) : e.chunk < prod.chunk => e \in Range(prod.doc)
          BY <2>1, <2>3, <4>2
        <4>6. \A e \in Range(doc) : e.chunk = prod.chunk => e \in Range(Cues(r))
          BY <2>1, <2>3, <4>1
        <4>7. a.chunk < next
          BY <2>1, <4>4
        <4>8. ASSUME a.chunk = b.chunk PROVE a.by = b.by
          <5>1. CASE a.chunk = prod.chunk
            BY <4>2, <4>6, <4>8, <5>1
          <5>2. CASE a.chunk < prod.chunk
            BY <4>3, <4>5, <4>8, <5>2
          <5> QED BY <2>1, <4>4, <5>1, <5>2
        <4> QED BY <4>7, <4>8
      <3> HIDE DEF next
      <3> QED BY <2>7, <3>1 DEF DocOK
    <2>13. SentOK'
      <3>1. \A s : Sent(s, prod.doc) => Sent(s, doc)
        BY <2>3 DEF Sent
      <3>2. Sent(r, doc)
        <4>1. \A i \in 1..r.cues : Cues(r)[i] \in Range(Cues(r))
          BY <2>1, <2>2, CuesType DEF Range
        <4> QED BY <2>3, <4>1 DEF Sent
      <3>3. \A k \in 1..Len(channel') : Sent(channel'[k], doc)
        <4>1. \A k \in 1..Len(channel') : k = Len(channel) + 1 \/ k \in 1..Len(channel)
          BY <1>1, <2>8
        <4>2. \A k \in 1..Len(channel) : Sent(channel[k], prod.doc)
          BY DEF MediaInv, SentOK
        <4> QED BY <2>8, <3>1, <3>2, <4>1, <4>2
      <3>4. UNCHANGED cons
        BY <1>1 DEF ProducerOnly
      <3> QED BY <2>3, <2>7, <3>1, <3>3, <3>4 DEF MediaInv, SentOK
    <2>14. CountOK'
      <3>1. /\ Len(cons.parts) \in Nat /\ Len(cons.pending) \in Nat /\ Len(channel) \in Nat
            /\ Len(cons.parts) + Len(cons.pending) + Len(channel) <= prod.chunk - 1
        BY <1>1 DEF MediaInv, ThreadTypes, Consumers, CountOK
      <3>2. UNCHANGED cons
        BY <1>1 DEF ProducerOnly
      <3>3. Len(cons.parts) + Len(cons.pending) + Len(channel') <= next - 1
        <4>1. ASSUME NEW a \in Nat, NEW b \in Nat, NEW d \in Nat, NEW e \in Nat,
                     a + b + d <= e - 1
              PROVE  a + b + (d + 1) <= e
          BY <4>1
        <4>2. prod.chunk \in Nat
          BY <2>1
        <4> HIDE DEF next
        <4>3. Len(cons.parts) + Len(cons.pending) + (Len(channel) + 1) <= prod.chunk
          BY <3>1, <4>1, <4>2
        <4> QED BY <2>4, <2>8, <4>3
      <3> HIDE DEF next
      <3> QED BY <2>7, <3>2, <3>3 DEF MediaInv, CountOK
    <2>15. GroupsOK' /\ ContextOK' /\ OutputOK'
      BY <1>1 DEF MediaInv, GroupsOK, ContextOK, OutputOK, ProducerOnly, store
    <2>16. CallerOK'
      <3>1. main = "running" /\ main' = main
        BY <1>1 DEF MediaInv, CallerOK, ProducerOnly
      <3> QED BY <3>1 DEF CallerOK
    <2> QED BY <2>10, <2>11, <2>12, <2>13, <2>14, <2>15, <2>16 DEF MediaInv
  <1> QED BY <1>2, <1>3 DEF SendChunk

-----------------------------------------------------------------------------
(* The steps of the translation *)

\* A step of the translation, which changes nothing of the document.
LEMMA ConsumerMoves ==
  ASSUME MediaInv, cons.pc # "ended", ConsumerOnly,
         cons' \in Consumers, channel' \in Seq(Recognitions), Len(channel') <= Capacity,
         receiver' \in BOOLEAN, failures' \in 0..MaxFailures,
         groups' \in [1..Chunks -> {None} \cup Groups],
         GroupsOK', SentOK', CountOK', ContextOK'
  PROVE  MediaInv'
PROOF
  <1>1. StoreTypes' /\ RunTypes' /\ ThreadTypes'
    BY DEF MediaInv, StoreTypes, RunTypes, ThreadTypes, ConsumerOnly
  <1>2. HeardOK' /\ DocOK' /\ OutputOK'
    BY DEF MediaInv, HeardOK, DocOK, OutputOK, ConsumerOnly
  <1>3. CallerOK'
    <2>1. main = "running" /\ main' = main
      BY DEF MediaInv, CallerOK, ConsumerOnly
    <2> QED BY <2>1 DEF CallerOK
  <1> QED BY <1>1, <1>2, <1>3 DEF MediaInv

\* The translation ends, and with it the channel.
LEMMA ConsumerStops ==
  ASSUME MediaInv, cons.pc # "ended", ConsumerOnly, NEW error \in Errors,
         ConsumerEnds(error), failures' \in 0..MaxFailures,
         groups' \in [1..Chunks -> {None} \cup Groups], GroupsOK'
  PROVE  MediaInv'
PROOF
  <1>1. cons \in Consumers /\ channel \in Seq(Recognitions)
    BY DEF MediaInv, ThreadTypes
  <1>2. /\ cons' = [cons EXCEPT !.pc = "ended", !.error = error]
        /\ receiver' = FALSE /\ channel' = <<>>
    BY DEF ConsumerEnds
  <1>3. /\ cons' \in Consumers /\ cons'.pc = "ended" /\ cons'.pending = cons.pending
        /\ cons'.parts = cons.parts /\ cons'.context = cons.context
    BY <1>1, <1>2 DEF Consumers
  <1>4. channel' \in Seq(Recognitions) /\ Len(channel') = 0 /\ Len(channel') <= Capacity
    BY <1>2, PipelineAssumption
  <1>5. SentOK'
    BY <1>3, <1>4 DEF MediaInv, SentOK, Sent, ConsumerOnly
  <1>6. CountOK'
    <2>1. /\ Len(cons.parts) \in Nat /\ Len(cons.pending) \in Nat /\ Len(channel) \in Nat
          /\ Len(cons.parts) + Len(cons.pending) + Len(channel) <= prod.chunk - 1
          /\ prod.chunk \in Nat
      BY <1>1, PipelineAssumption DEF MediaInv, ThreadTypes, Consumers, Producers, CountOK
    <2>2. Len(cons.parts) + Len(cons.pending) + 0 <= prod.chunk - 1
      <3>1. ASSUME NEW a \in Nat, NEW b \in Nat, NEW d \in Nat, NEW e \in Nat,
                   a + b + d <= e - 1
            PROVE  a + b + 0 <= e - 1
        BY <3>1
      <3> QED BY <2>1, <3>1
    <2>3. UNCHANGED prod
      BY DEF ConsumerOnly
    <2> QED BY <1>3, <1>4, <2>2, <2>3 DEF CountOK
  <1>7. ContextOK'
    BY <1>3 DEF MediaInv, ContextOK, ConsumerOnly
  <1>8. receiver' \in BOOLEAN
    BY <1>2
  <1> QED BY <1>3, <1>4, <1>5, <1>6, <1>7, <1>8, ConsumerMoves

LEMMA ReceiveChunkStep ==
  ASSUME MediaInv, ReceiveChunk
  PROVE  MediaInv'
PROOF
  <1>1. /\ cons \in Consumers /\ channel \in Seq(Recognitions) /\ RunTypes /\ StoreTypes
        /\ GroupsOK /\ cons.pc = "recv" /\ channel # <<>> /\ UNCHANGED <<groups, failures>>
        /\ ConsumerOnly
    BY DEF MediaInv, ThreadTypes, ReceiveChunk
  <1>2. /\ groups' \in [1..Chunks -> {None} \cup Groups] /\ GroupsOK'
        /\ failures' \in 0..MaxFailures
    BY <1>1 DEF StoreTypes, RunTypes, GroupsOK
  <1>3. CASE cancelled
    <2>1. ConsumerEnds("cancelled") /\ "cancelled" \in Errors
      BY <1>3 DEF ReceiveChunk, Errors
    <2> QED BY <1>1, <1>2, <2>1, ConsumerStops
  <1>4. CASE ~cancelled
    <2> DEFINE r == Head(channel)
               pending == Append(cons.pending, r)
    <2>1. PICK pc \in {"translate", "recv"} :
            cons' = [cons EXCEPT !.pending = pending, !.pc = pc]
      BY <1>4 DEF ReceiveChunk
    <2>2. channel' = Tail(channel) /\ UNCHANGED receiver
      BY <1>4 DEF ReceiveChunk
    <2>3. /\ Len(channel) \in Nat \ {0} /\ r = channel[1] /\ r \in Recognitions
          /\ channel' \in Seq(Recognitions) /\ Len(channel') = Len(channel) - 1
          /\ \A k \in 1..Len(channel') : channel'[k] = channel[k + 1] /\ k + 1 \in 1..Len(channel)
      BY <1>1, <2>2
    <2> HIDE DEF r
    <2>4. cons.pending \in Seq(Recognitions) /\ Len(cons.pending) \in Nat
      BY <1>1 DEF Consumers
    <2>5. /\ pending \in Seq(Recognitions) /\ Len(pending) = Len(cons.pending) + 1
          /\ pending # <<>>
          /\ \A k \in 1..Len(pending) : \/ k \in 1..Len(cons.pending) /\ pending[k] = cons.pending[k]
                                        \/ pending[k] = r
      <3>1. ASSUME NEW s \in Seq(Recognitions), NEW e \in Recognitions
            PROVE  /\ Append(s, e) \in Seq(Recognitions) /\ Len(Append(s, e)) = Len(s) + 1
                   /\ Append(s, e) # <<>>
                   /\ \A k \in 1..Len(Append(s, e)) :
                        \/ k \in 1..Len(s) /\ Append(s, e)[k] = s[k]
                        \/ Append(s, e)[k] = e
        BY AppendProperties
      <3> QED BY <2>3, <2>4, <3>1
    <2> HIDE DEF pending
    <2>6. /\ cons' \in Consumers /\ cons'.pending = pending /\ cons'.parts = cons.parts
          /\ cons'.context = cons.context
      BY <1>1, <2>1, <2>5 DEF Consumers
    <2>7. UNCHANGED prod
      BY <1>1 DEF ConsumerOnly
    <2>8. SentOK'
      <3>2. SentOK
        BY DEF MediaInv
      <3>3. Sent(r, prod.doc)
        BY <2>3, <3>2 DEF SentOK
      <3>4. \A k \in 1..Len(channel') : Sent(channel'[k], prod.doc)
        BY <2>3, <3>2 DEF SentOK
      <3>5. \A k \in 1..Len(pending) : Sent(pending[k], prod.doc)
        BY <2>5, <3>2, <3>3 DEF SentOK
      <3> QED BY <2>6, <2>7, <3>2, <3>4, <3>5 DEF SentOK
    <2>9. CountOK'
      <3>1. /\ Len(cons.parts) \in Nat /\ prod.chunk \in Nat
            /\ Len(cons.parts) + Len(cons.pending) + Len(channel) <= prod.chunk - 1
        BY <1>1, PipelineAssumption DEF MediaInv, ThreadTypes, Consumers, Producers, CountOK
      <3>2. Len(cons.parts) + Len(pending) + Len(channel') <= prod.chunk - 1
        <4>1. ASSUME NEW a \in Nat, NEW b \in Nat, NEW d \in Nat, NEW e \in Nat,
                     a + b + d <= e - 1
              PROVE  a + (b + 1) + (d - 1) <= e - 1
          BY <4>1
        <4>2. Len(channel) \in Nat
          BY <2>3
        <4>3. Len(cons.parts) + (Len(cons.pending) + 1) + (Len(channel) - 1) <= prod.chunk - 1
          BY <2>4, <3>1, <4>1, <4>2
        <4> QED BY <2>3, <2>5, <4>3
      <3> QED BY <2>5, <2>6, <2>7, <3>2 DEF CountOK
    <2>10. ContextOK'
      BY <1>1, <2>6 DEF MediaInv, ContextOK, ConsumerOnly
    <2>11. Len(channel') <= Capacity /\ receiver' \in BOOLEAN
      <3>1. Len(channel) <= Capacity /\ receiver \in BOOLEAN
        BY DEF MediaInv, ThreadTypes, RunTypes
      <3> QED BY <2>2, <2>3, <3>1, PipelineAssumption
    <2> QED BY <1>1, <1>2, <2>3, <2>6, <2>8, <2>9, <2>10, <2>11, ConsumerMoves
  <1> QED BY <1>3, <1>4

LEMMA ChannelEndsStep ==
  ASSUME MediaInv, ChannelEnds
  PROVE  MediaInv'
PROOF
  <1>1. /\ cons \in Consumers /\ channel \in Seq(Recognitions) /\ RunTypes /\ StoreTypes
        /\ GroupsOK /\ cons.pc = "recv" /\ UNCHANGED <<groups, failures>> /\ ConsumerOnly
        /\ Len(channel) <= Capacity
    BY DEF MediaInv, ThreadTypes, ChannelEnds
  <1>2. /\ groups' \in [1..Chunks -> {None} \cup Groups] /\ GroupsOK'
        /\ failures' \in 0..MaxFailures
    BY <1>1 DEF StoreTypes, RunTypes, GroupsOK
  <1>3. CASE cons.pending = <<>>
    <2>1. ConsumerEnds(None) /\ None \in Errors
      BY <1>3 DEF ChannelEnds, Errors
    <2> QED BY <1>1, <1>2, <2>1, ConsumerStops
  <1>4. CASE cons.pending # <<>>
    <2>1. cons' = [cons EXCEPT !.pc = "translate"] /\ UNCHANGED <<channel, receiver>>
      BY <1>4 DEF ChannelEnds
    <2>2. /\ cons' \in Consumers /\ cons'.pending = cons.pending /\ cons'.parts = cons.parts
          /\ cons'.context = cons.context
      BY <1>1, <2>1 DEF Consumers
    <2>3. SentOK' /\ CountOK' /\ ContextOK'
      BY <1>1, <1>4, <2>1, <2>2 DEF MediaInv, SentOK, Sent, CountOK, ContextOK, ConsumerOnly
    <2>4. receiver' \in BOOLEAN
      BY <1>1, <2>1 DEF RunTypes
    <2> QED BY <1>1, <1>2, <2>1, <2>2, <2>3, <2>4, ConsumerMoves
  <1> QED BY <1>3, <1>4

\* What is translated of a group: it was heard in this run, and its context is
\* the one the group was given, whether it was kept before or not.
Fits(finished) ==
  LET source == SourceOf(cons.pending) IN
  /\ finished \in Groups /\ Faithful(finished)
  /\ finished.context = cons.context
  /\ Len(finished.texts) = Len(source)
  /\ \A i \in 1..Len(finished.texts) : finished.texts[i].of = source[i]

LEMMA FinishedFits ==
  ASSUME MediaInv, cons.pc = "translate",
         NEW g, g = Len(cons.parts) + 1,
         NEW key, key = GroupKey(cons.pending, cons.context),
         NEW source, source = SourceOf(cons.pending),
         NEW finished,
         \/ finished = [key |-> key, context |-> cons.context,
                        texts |-> [i \in DOMAIN source |-> [of |-> source[i], by |-> run.n]]]
         \/ groups[g] # None /\ groups[g].key = key /\ finished = groups[g]
  PROVE  g \in 1..Chunks /\ Fits(finished)
PROOF
  <1>1. /\ cons \in Consumers /\ cons.pending \in Seq(Recognitions) /\ cons.context \in Contexts
        /\ cons.parts \in Seq(Parts) /\ channel \in Seq(Recognitions) /\ run \in Runs
        /\ prod.chunk \in 1..(Chunks + 1)
    BY DEF MediaInv, ThreadTypes, RunTypes, Consumers, Producers
  <1>2. Len(cons.pending) \in Nat \ {0}
    BY <1>1 DEF MediaInv, CountOK
  <1>3. g \in 1..Chunks
    <2>1. /\ Len(cons.parts) \in Nat /\ Len(channel) \in Nat
          /\ Len(cons.parts) + Len(cons.pending) + Len(channel) <= prod.chunk - 1
      <3>1. CountOK
        BY DEF MediaInv
      <3>2. Len(cons.parts) \in Nat /\ Len(channel) \in Nat
        BY <1>1
      <3> QED BY <3>1, <3>2 DEF CountOK
    <2>2. ASSUME NEW a \in Nat, NEW b \in Nat \ {0}, NEW d \in Nat, NEW e \in 1..(Chunks + 1),
                 a + b + d <= e - 1
          PROVE  a + 1 \in 1..Chunks
      BY <2>2, PipelineAssumption
    <2> QED BY <1>1, <1>2, <2>1, <2>2
  <1>4. source \in Seq(Cue)
    BY <1>1, SourceElements
  <1>5. key \in GroupKeys /\ key.source = source /\ key.context = cons.context
    <2>1. Head(cons.pending) \in Recognitions /\ Last(cons.pending) \in Recognitions
      <3>1. ASSUME NEW s \in Seq(Recognitions), Len(s) \in Nat \ {0}
            PROVE  Head(s) \in Recognitions /\ s[Len(s)] \in Recognitions
        BY <3>1
      <3> QED BY <1>1, <1>2, <3>1 DEF Last
    <2>2. Head(cons.pending).chunk \in 1..Chunks /\ Last(cons.pending).chunk \in 1..Chunks
      BY <2>1 DEF Recognitions
    <2>3. key = [first |-> Head(cons.pending).chunk, last |-> Last(cons.pending).chunk,
                 source |-> source, context |-> cons.context]
      BY DEF GroupKey
    <2> QED BY <1>1, <1>4, <2>2, <2>3 DEF GroupKeys
  <1>6. ASSUME NEW group \in Groups, Faithful(group), group.key = key
        PROVE  /\ group.context = cons.context /\ Len(group.texts) = Len(source)
               /\ \A i \in 1..Len(group.texts) : group.texts[i].of = source[i]
    BY <1>5, <1>6 DEF Faithful
  <1>7. CASE groups[g] # None /\ groups[g].key = key /\ finished = groups[g]
    <2>1. groups[g] \in Groups /\ Faithful(groups[g])
      BY <1>3, <1>7 DEF MediaInv, StoreTypes, GroupsOK
    <2> QED BY <1>3, <1>6, <1>7, <2>1 DEF Fits
  <1>8. CASE finished = [key |-> key, context |-> cons.context,
                         texts |-> [i \in DOMAIN source |-> [of |-> source[i], by |-> run.n]]]
    <2> DEFINE texts == [i \in DOMAIN source |-> [of |-> source[i], by |-> run.n]]
    <2>1. DOMAIN source = 1..Len(source) /\ Len(source) \in Nat
      BY <1>4
    <2>2. \A i \in 1..Len(source) : [of |-> source[i], by |-> run.n] \in Text
      <3>1. run.n \in 1..MaxRuns
        BY <1>1 DEF Runs
      <3>2. \A i \in 1..Len(source) : source[i] \in Cue
        BY <1>4
      <3> QED BY <3>1, <3>2 DEF Text
    <2>3. /\ texts \in Seq(Text) /\ Len(texts) = Len(source)
          /\ \A i \in 1..Len(texts) : texts[i].of = source[i]
      BY <2>1, <2>2
    <2> HIDE DEF texts
    <2>4. finished = [key |-> key, context |-> cons.context, texts |-> texts]
      BY <1>8 DEF texts
    <2>5. finished \in Groups
      BY <1>1, <1>5, <2>3, <2>4 DEF Groups
    <2>6. Faithful(finished) /\ finished.key = key
      BY <1>5, <2>3, <2>4 DEF Faithful
    <2> QED BY <1>3, <1>6, <2>5, <2>6 DEF Fits
  <1> QED BY <1>7, <1>8

\* The texts of what fits are of cues that are in the document.
LEMMA FitsDocument ==
  ASSUME MediaInv, NEW finished, Fits(finished)
  PROVE  \A i \in 1..Len(finished.texts) : finished.texts[i].of \in Range(prod.doc)
PROOF
  <1> DEFINE source == SourceOf(cons.pending)
  <1>1. cons.pending \in Seq(Recognitions)
    BY DEF MediaInv, ThreadTypes, Consumers
  <1>2. /\ source \in Seq(Cue)
        /\ \A a \in Range(source) :
             \E k \in 1..Len(cons.pending) : a \in Range(Cues(cons.pending[k]))
    BY <1>1, SourceElements
  <1>3. /\ Len(finished.texts) = Len(source)
        /\ \A i \in 1..Len(finished.texts) : finished.texts[i].of = source[i]
    BY DEF Fits
  <1> HIDE DEF source
  <1>4. ASSUME NEW k \in 1..Len(cons.pending), NEW a \in Range(Cues(cons.pending[k]))
        PROVE  a \in Range(prod.doc)
    <2>1. cons.pending[k] \in Recognitions /\ Sent(cons.pending[k], prod.doc)
      BY <1>1 DEF MediaInv, SentOK
    <2>2. PICK i \in DOMAIN Cues(cons.pending[k]) : a = Cues(cons.pending[k])[i]
      BY DEF Range
    <2>3. i \in 1..cons.pending[k].cues
      BY <2>2 DEF Cues
    <2> QED BY <2>1, <2>2, <2>3 DEF Sent
  <1>5. \A i \in 1..Len(source) : source[i] \in Range(source)
    BY <1>2 DEF Range
  <1> QED BY <1>2, <1>3, <1>4, <1>5

LEMMA TranslateStep ==
  ASSUME MediaInv, Translate
  PROVE  MediaInv'
PROOF
  <1> DEFINE g == Len(cons.parts) + 1
             source == SourceOf(cons.pending)
             Tail1(texts) == IF run.strategy = "turbo" THEN ConfirmedTail(source, texts) ELSE <<>>
             Kept(finished) == [groups EXCEPT ![g] = finished]
             Part(finished) == [texts |-> finished.texts, context |-> finished.context]
  <1>1. PICK finished :
          /\ g \in 1..Chunks /\ Fits(finished)
          /\ \/ /\ groups' = Kept(finished)
                /\ cons' = [cons EXCEPT !.pc = "recv", !.pending = <<>>,
                              !.context = Tail1(finished.texts),
                              !.parts = Append(@, Part(finished))]
                /\ UNCHANGED <<channel, receiver, failures>>
             \/ /\ groups' \in {groups, Kept(finished)}
                /\ Breaks /\ ConsumerEnds("failed")
    <2> DEFINE key == GroupKey(cons.pending, cons.context)
               anew == [key |-> key, context |-> cons.context,
                        texts |-> [i \in DOMAIN source |-> [of |-> source[i], by |-> run.n]]]
               resumable == run.reuse.resume /\ groups[g] # None /\ groups[g].key = key
    <2>1. PICK finished \in {anew} \cup (IF resumable THEN {groups[g]} ELSE {}) :
            \/ /\ groups' = Kept(finished)
               /\ cons' = [cons EXCEPT !.pc = "recv", !.pending = <<>>,
                             !.context = Tail1(finished.texts),
                             !.parts = Append(@, Part(finished))]
               /\ UNCHANGED <<channel, receiver, failures>>
            \/ /\ groups' \in {groups, Kept(finished)}
               /\ Breaks /\ ConsumerEnds("failed")
      BY DEF Translate
    <2>2. finished = anew \/ (groups[g] # None /\ groups[g].key = key /\ finished = groups[g])
      BY <2>1
    <2>3. g \in 1..Chunks /\ Fits(finished)
      BY <2>2, FinishedFits DEF Translate
    <2> QED BY <2>1, <2>3
  <1>2. /\ cons \in Consumers /\ channel \in Seq(Recognitions) /\ Len(channel) <= Capacity
        /\ StoreTypes /\ GroupsOK /\ RunTypes /\ cons.pc = "translate" /\ ConsumerOnly
    BY DEF MediaInv, ThreadTypes, Translate
  <1>3. finished \in Groups /\ Faithful(finished)
    BY <1>1 DEF Fits
  <1>4. /\ Kept(finished) \in [1..Chunks -> {None} \cup Groups]
        /\ \A h \in 1..Chunks : Kept(finished)[h] # None => Faithful(Kept(finished)[h])
    BY <1>1, <1>2, <1>3 DEF StoreTypes, GroupsOK
  <1>5. ASSUME groups' \in {groups, Kept(finished)}
        PROVE  groups' \in [1..Chunks -> {None} \cup Groups] /\ GroupsOK'
    BY <1>2, <1>4, <1>5 DEF StoreTypes, GroupsOK
  <1>6. CASE Breaks /\ ConsumerEnds("failed") /\ groups' \in {groups, Kept(finished)}
    <2>1. "failed" \in Errors /\ cons.pc # "ended" /\ failures' \in 0..MaxFailures
      BY <1>2, <1>6, FailuresBound DEF Errors
    <2>2. groups' \in [1..Chunks -> {None} \cup Groups] /\ GroupsOK'
      BY <1>5, <1>6
    <2> QED BY <1>2, <1>6, <2>1, <2>2, ConsumerStops
  <1>7. CASE /\ groups' = Kept(finished)
             /\ cons' = [cons EXCEPT !.pc = "recv", !.pending = <<>>,
                           !.context = Tail1(finished.texts),
                           !.parts = Append(@, Part(finished))]
             /\ UNCHANGED <<channel, receiver, failures>>
    <2> DEFINE context == Tail1(finished.texts)
               part == Part(finished)
               parts == Append(cons.parts, part)
    <2>1. /\ finished.texts \in Seq(Text) /\ finished.context \in Contexts
          /\ finished.context = cons.context
      BY <1>1, <1>3 DEF Groups, Fits
    <2>2. source \in Seq(Cue) /\ cons.pending \in Seq(Recognitions)
      BY <1>2, SourceElements DEF Consumers
    <2>3. \A i \in 1..Len(finished.texts) : finished.texts[i].of = source[i]
      BY <1>1 DEF Fits
    <2>4. context \in Contexts /\ (run.strategy = "turbo" => context = TailOf(finished.texts))
      <3>1. <<>> \in Contexts
        BY DEF Contexts
      <3> HIDE DEF source
      <3>2. /\ ConfirmedTail(source, finished.texts) = TailOf(finished.texts)
            /\ TailOf(finished.texts) \in Contexts
        BY <2>1, <2>2, <2>3, TailsAgree
      <3> QED BY <3>1, <3>2
    <2>5. part \in Parts /\ part.texts = finished.texts /\ part.context = cons.context
      BY <2>1 DEF Parts
    <2>6. cons.parts \in Seq(Parts) /\ Len(cons.parts) \in Nat
      BY <1>2 DEF Consumers
    <2>7. cons' = [cons EXCEPT !.pc = "recv", !.pending = <<>>, !.context = context,
                               !.parts = parts]
      BY <1>7
    <2> HIDE DEF context, part
    <2>8. /\ parts \in Seq(Parts) /\ Len(parts) = Len(cons.parts) + 1 /\ parts # <<>>
          /\ \A h \in 1..Len(cons.parts) : parts[h] = cons.parts[h]
          /\ parts[Len(cons.parts) + 1] = part
      BY <2>5, <2>6, AppendProperties
    <2> HIDE DEF parts
    <2>9. <<>> \in Seq(Recognitions) /\ Len(<<>>) = 0
      OBVIOUS
    <2>10. /\ cons' \in Consumers /\ cons'.pc = "recv" /\ cons'.pending = <<>>
           /\ cons'.context = context /\ cons'.parts = parts
      BY <1>2, <2>4, <2>7, <2>8, <2>9 DEF Consumers
    <2>11. SentOK'
      <3>1. UNCHANGED <<prod, channel>>
        BY <1>2, <1>7 DEF ConsumerOnly
      <3>2. SentOK
        BY DEF MediaInv
      <3>3. ASSUME NEW h \in 1..Len(parts), NEW i \in 1..Len(parts[h].texts)
            PROVE  parts[h].texts[i].of \in Range(prod.doc)
        <4>1. CASE h = Len(cons.parts) + 1
          <5>1. parts[h].texts = finished.texts
            BY <2>5, <2>8, <4>1
          <5>2. \A k \in 1..Len(finished.texts) : finished.texts[k].of \in Range(prod.doc)
            BY <1>1, FitsDocument
          <5> QED BY <5>1, <5>2
        <4>2. CASE h # Len(cons.parts) + 1
          <5>1. h \in 1..Len(cons.parts) /\ parts[h] = cons.parts[h]
            BY <2>6, <2>8, <4>2
          <5> QED BY <3>2, <5>1 DEF SentOK
        <4> QED BY <4>1, <4>2
      <3>4. \A k \in 1..Len(cons'.pending) : Sent(cons'.pending[k], prod'.doc)
        BY <2>9, <2>10
      <3> QED BY <2>10, <3>1, <3>2, <3>3, <3>4 DEF SentOK
    <2>12. CountOK'
      <3>1. UNCHANGED <<prod, channel>>
        BY <1>2, <1>7 DEF ConsumerOnly
      <3>2. /\ Len(cons.pending) \in Nat \ {0} /\ Len(channel) \in Nat /\ prod.chunk \in Nat
            /\ Len(cons.parts) + Len(cons.pending) + Len(channel) <= prod.chunk - 1
        <4>1. CountOK /\ prod \in Producers
          BY DEF MediaInv, ThreadTypes
        <4>2. prod.chunk \in Nat
          BY <4>1, PipelineAssumption DEF Producers
        <4>3. Len(cons.pending) \in Nat /\ Len(channel) \in Nat
          BY <1>2, <2>2
        <4>4. cons.pending # <<>>
          BY <1>2, <4>1 DEF CountOK
        <4>5. Len(cons.pending) # 0
          BY <2>2, <4>4
        <4> QED BY <4>1, <4>2, <4>3, <4>5 DEF CountOK
      <3>3. ASSUME NEW a \in Nat, NEW b \in Nat \ {0}, NEW d \in Nat, NEW e \in Nat,
                   a + b + d <= e - 1
            PROVE  (a + 1) + 0 + d <= e - 1
        BY <3>3
      <3>4. (Len(cons.parts) + 1) + 0 + Len(channel) <= prod.chunk - 1
        BY <2>6, <3>2, <3>3
      <3> QED BY <2>8, <2>9, <2>10, <3>1, <3>4 DEF CountOK
    <2>13. ContextOK'
      <3>1. run' = run /\ ContextOK
        BY <1>2 DEF MediaInv, ConsumerOnly
      <3>2. ASSUME run.strategy = "turbo", NEW h \in 2..Len(parts)
            PROVE  parts[h].context = TailOf(parts[h - 1].texts)
        <4>1. CASE h = Len(cons.parts) + 1
          <5>1. h - 1 = Len(cons.parts) /\ h - 1 \in 1..Len(cons.parts) /\ cons.parts # <<>>
            BY <2>6, <4>1
          <5>2. cons.context = TailOf(cons.parts[h - 1].texts)
            BY <3>1, <3>2, <5>1 DEF ContextOK
          <5> QED BY <2>5, <2>8, <4>1, <5>1, <5>2
        <4>2. CASE h # Len(cons.parts) + 1
          <5>1. h \in 2..Len(cons.parts) /\ h \in 1..Len(cons.parts) /\ h - 1 \in 1..Len(cons.parts)
            BY <2>6, <2>8, <4>2
          <5>2. parts[h] = cons.parts[h] /\ parts[h - 1] = cons.parts[h - 1]
            BY <2>8, <5>1
          <5> QED BY <3>1, <3>2, <5>1, <5>2 DEF ContextOK
        <4> QED BY <4>1, <4>2
      <3>3. run.strategy = "turbo" => context = TailOf(parts[Len(parts)].texts)
        BY <2>4, <2>5, <2>8
      <3> QED BY <2>10, <3>1, <3>2, <3>3 DEF ContextOK
    <2>14. receiver' \in BOOLEAN /\ failures' \in 0..MaxFailures
      BY <1>2, <1>7 DEF RunTypes
    <2>15. groups' \in [1..Chunks -> {None} \cup Groups] /\ GroupsOK'
      BY <1>5, <1>7
    <2> QED BY <1>2, <1>7, <2>10, <2>11, <2>12, <2>13, <2>14, <2>15, ConsumerMoves
  <1> QED BY <1>1, <1>6, <1>7

LEMMA TranslateCancelledStep ==
  ASSUME MediaInv, TranslateCancelled
  PROVE  MediaInv'
PROOF
  <1>1. /\ cons.pc = "translate" /\ ConsumerEnds("cancelled") /\ UNCHANGED <<groups, failures>>
        /\ ConsumerOnly /\ StoreTypes /\ RunTypes /\ GroupsOK /\ "cancelled" \in Errors
    BY DEF MediaInv, TranslateCancelled, Errors
  <1>2. /\ groups' \in [1..Chunks -> {None} \cup Groups] /\ GroupsOK'
        /\ failures' \in 0..MaxFailures
    BY <1>1 DEF StoreTypes, RunTypes, GroupsOK
  <1> QED BY <1>1, <1>2, ConsumerStops

-----------------------------------------------------------------------------
(* The steps of the caller, and the others *)

\* Aligned compares the chunk and the place of the cues; as all that was
\* translated is of this run's document, the recognitions are the same too.
LEMMA AlignedIsCurrent ==
  ASSUME MediaInv, Aligned
  PROVE  /\ Translated \in Seq(Text) /\ prod.doc \in Seq(Cue)
         /\ Len(Translated) = Len(prod.doc) /\ Len(prod.doc) \in Nat
         /\ \A i \in 1..Len(Translated) : Translated[i].of = prod.doc[i]
PROOF
  <1>1. ThreadTypes /\ DocOK /\ SentOK
    BY DEF MediaInv
  <1>2. prod.doc \in Seq(Cue) /\ cons.parts \in Seq(Parts)
    BY <1>1 DEF ThreadTypes, Producers, Consumers
  <1>3. /\ Translated \in Seq(Text)
        /\ \A t \in Range(Translated) :
             \E g \in 1..Len(cons.parts) : t \in Range(cons.parts[g].texts)
    BY <1>1, TranslatedElements
  <1> DEFINE texts == Translated
  <1>4. /\ Len(prod.doc) = Len(texts)
        /\ \A i \in DOMAIN texts : /\ prod.doc[i].chunk = texts[i].of.chunk
                                   /\ prod.doc[i].place = texts[i].of.place
    BY DEF Aligned
  <1> HIDE DEF texts
  <1>5. texts \in Seq(Text) /\ Len(texts) \in Nat /\ DOMAIN texts = 1..Len(texts)
    BY <1>3 DEF texts
  <1>6. ASSUME NEW i \in 1..Len(texts) PROVE texts[i].of = prod.doc[i]
    <2>1. texts[i] \in Text /\ texts[i] \in Range(texts)
      BY <1>5 DEF Range
    <2>2. prod.doc[i] \in Cue /\ prod.doc[i] \in Range(prod.doc)
      BY <1>2, <1>4 DEF Range
    <2>3. PICK g \in 1..Len(cons.parts) : texts[i] \in Range(cons.parts[g].texts)
      BY <1>3, <2>1 DEF texts
    <2>4. cons.parts[g] \in Parts
      BY <1>2
    <2>5. cons.parts[g].texts \in Seq(Text)
      BY <2>4 DEF Parts
    <2>6. PICK k \in 1..Len(cons.parts[g].texts) : texts[i] = cons.parts[g].texts[k]
      BY <2>3, <2>5, SMTT(30) DEF Range
    <2>7. texts[i].of \in Range(prod.doc)
      BY <1>1, <2>6 DEF SentOK
    <2>8. texts[i].of \in Cue
      BY <2>1 DEF Text
    <2>9. prod.doc[i].chunk = texts[i].of.chunk /\ prod.doc[i].place = texts[i].of.place
      BY <1>4, <1>5
    <2>10. prod.doc[i].by = texts[i].of.by
      BY <1>1, <2>2, <2>7, <2>9 DEF DocOK
    <2> QED BY <2>2, <2>8, <2>9, <2>10, SMTT(30) DEF Cue
  <1> QED BY <1>2, <1>3, <1>4, <1>5, <1>6 DEF texts

LEMMA CallerMoves ==
  ASSUME MediaInv, CallerOnly, published' \in Publications, failures' \in 0..MaxFailures,
         main' \in Answers, CallerOK', OutputOK'
  PROVE  MediaInv'
PROOF
  <1>1. StoreTypes' /\ RunTypes' /\ ThreadTypes'
    BY DEF MediaInv, StoreTypes, RunTypes, ThreadTypes, CallerOnly, store
  <1>2. HeardOK' /\ DocOK' /\ SentOK' /\ CountOK' /\ GroupsOK' /\ ContextOK'
    BY DEF MediaInv, HeardOK, DocOK, SentOK, Sent, CountOK, GroupsOK, ContextOK, CallerOnly,
           store
  <1> QED BY <1>1, <1>2 DEF MediaInv

LEMMA JoinStep ==
  ASSUME MediaInv, Join
  PROVE  MediaInv'
PROOF
  <1>1. /\ prod \in Producers /\ cons \in Consumers /\ RunTypes /\ OutputOK
        /\ prod.pc = "ended" /\ cons.pc = "ended" /\ UNCHANGED <<published, failures>>
        /\ CallerOnly
    BY DEF MediaInv, ThreadTypes, Join
  <1>2. /\ main' \in {"failed", "cancelled", "stopped", "source"}
        /\ main' = "source" => Aligned
    <2>1. CASE prod.error # None
      <3>1. main' = prod.error
        BY <2>1 DEF Join
      <3> QED BY <1>1, <2>1, <3>1 DEF Producers, Errors
    <2>2. CASE prod.error = None /\ cons.error # None
      <3>1. main' = cons.error
        BY <2>2 DEF Join
      <3> QED BY <1>1, <2>2, <3>1 DEF Consumers, Errors
    <2>3. CASE prod.error = None /\ ~ (cons.error # None)
      <3>1. main' = IF Aligned THEN "source" ELSE "failed"
        BY <2>3 DEF Join
      <3> QED BY <3>1
    <2> QED BY <2>1, <2>2, <2>3
  <1>3. UNCHANGED <<prod, cons>> /\ (Aligned' <=> Aligned)
    BY <1>1 DEF CallerOnly, Aligned, Translated
  <1>4. CallerOK'
    BY <1>1, <1>2, <1>3 DEF CallerOK
  <1>5. /\ published' \in Publications /\ failures' \in 0..MaxFailures /\ main' \in Answers
        /\ OutputOK'
    BY <1>1, <1>2 DEF RunTypes, Answers, OutputOK
  <1> QED BY <1>1, <1>4, <1>5, CallerMoves

\* The caller fails before a file is written.
LEMMA PublishFails ==
  ASSUME MediaInv, CallerOnly, main' = "failed", Breaks, UNCHANGED published,
         main \in {"source", "output", "complete"}
  PROVE  MediaInv'
PROOF
  <1>1. CallerOK /\ RunTypes /\ OutputOK
    BY DEF MediaInv
  <1>2. UNCHANGED <<prod, cons>>
    BY DEF CallerOnly
  <1>3. CallerOK'
    BY <1>1, <1>2 DEF CallerOK
  <1>4. /\ published' \in Publications /\ failures' \in 0..MaxFailures /\ main' \in Answers
        /\ OutputOK'
    BY <1>1, FailuresBound DEF RunTypes, Answers, OutputOK
  <1> QED BY <1>3, <1>4, CallerMoves

LEMMA PublishStep ==
  ASSUME MediaInv, PublishSource \/ PublishOutput \/ PublishOnly \/ MarkComplete
  PROVE  MediaInv'
PROOF
  <1>1. /\ CallerOK /\ RunTypes /\ OutputOK /\ CallerOnly /\ published \in Publications
        /\ prod \in Producers /\ main \in {"source", "output", "complete"}
    BY DEF MediaInv, RunTypes, ThreadTypes, PublishSource, PublishOutput, PublishOnly,
           MarkComplete, Publish
  <1>2. prod.pc = "ended" /\ cons.pc = "ended" /\ Aligned
    BY <1>1 DEF CallerOK
  <1>3. UNCHANGED <<prod, cons>> /\ (Aligned' <=> Aligned)
    BY <1>1 DEF CallerOnly, Aligned, Translated
  <1>4. CASE main' = "failed" /\ Breaks /\ UNCHANGED published
    BY <1>1, <1>4, PublishFails
  <1>5. CASE main = "source" /\ main' = "output" /\ UNCHANGED failures
             /\ published' = [published EXCEPT !.source = prod.doc]
    <2>1. prod.doc \in Seq(Cue)
      BY <1>1 DEF Producers
    <2>2. /\ published' \in Publications /\ published'.source = prod.doc
          /\ published'.output = published.output
      BY <1>1, <1>5, <2>1 DEF Publications
    <2>3. CallerOK' /\ OutputOK'
      BY <1>1, <1>2, <1>3, <1>5, <2>2 DEF CallerOK, OutputOK
    <2> QED BY <1>1, <1>5, <2>2, <2>3, CallerMoves DEF RunTypes, Answers
  <1>6. CASE /\ main' = "complete" /\ UNCHANGED failures
             /\ \/ main = "output" /\ published' = [published EXCEPT !.output = Rendered]
                \/ /\ main = "source"
                   /\ published' = [published EXCEPT !.source = None, !.output = Rendered]
    <2> DEFINE texts == Translated
               output == [i \in DOMAIN texts |-> [cue |-> prod.doc[i], text |-> texts[i]]]
    <2>1. \/ main = "output" /\ published' = [published EXCEPT !.output = output]
          \/ main = "source"
               /\ published' = [published EXCEPT !.source = None, !.output = output]
      BY <1>6 DEF Rendered
    <2>2. /\ texts \in Seq(Text) /\ prod.doc \in Seq(Cue) /\ Len(texts) = Len(prod.doc)
          /\ Len(prod.doc) \in Nat /\ \A i \in 1..Len(texts) : texts[i].of = prod.doc[i]
      BY <1>2, AlignedIsCurrent
    <2> HIDE DEF texts
    <2>3. DOMAIN texts = 1..Len(texts) /\ DOMAIN prod.doc = 1..Len(texts)
      BY <2>2
    <2>4. \A i \in 1..Len(texts) : [cue |-> prod.doc[i], text |-> texts[i]]
                                     \in [cue : Cue, text : Text]
      BY <2>2
    <2>5. output \in Seq([cue : Cue, text : Text]) /\ Len(output) = Len(texts)
      BY <2>2, <2>3, <2>4
    <2>6. \A i \in 1..Len(output) : output[i].text.of = output[i].cue
      BY <2>2, <2>3, <2>5
    <2>7. SameCues(prod.doc, output)
      <3>1. DOMAIN output = 1..Len(texts) /\ \A i \in 1..Len(texts) : output[i].cue = prod.doc[i]
        BY <2>3
      <3>2. prod.doc = [i \in 1..Len(texts) |-> prod.doc[i]]
        BY <2>2, <2>3
      <3> HIDE DEF output
      <3> QED BY <3>1, <3>2 DEF SameCues
    <2> HIDE DEF output
    <2>8. /\ published' \in Publications /\ published'.output = output
          /\ \/ main = "output" /\ published'.source = published.source
             \/ published'.source = None
      BY <1>1, <2>1, <2>5 DEF Publications
    <2>9. main = "output" => published.source = prod.doc
      BY <1>1 DEF CallerOK
    <2>10. CallerOK'
      BY <1>2, <1>3, <1>6, <2>7, <2>8, <2>9 DEF CallerOK
    <2>11. OutputOK'
      BY <2>6, <2>8 DEF OutputOK
    <2> QED BY <1>1, <1>6, <2>8, <2>10, <2>11, CallerMoves DEF RunTypes, Answers
  <1>7. CASE main = "complete" /\ main' = "ok" /\ UNCHANGED failures
             /\ published' = [published EXCEPT !.complete = TRUE]
    <2>1. /\ published' \in Publications /\ published'.source = published.source
          /\ published'.output = published.output
      BY <1>1, <1>7 DEF Publications
    <2>2. CallerOK' /\ OutputOK'
      BY <1>1, <1>2, <1>3, <1>7, <2>1 DEF CallerOK, OutputOK
    <2> QED BY <1>1, <1>7, <2>1, <2>2, CallerMoves DEF RunTypes, Answers
  <1> QED BY <1>4, <1>5, <1>6, <1>7 DEF PublishSource, PublishOutput, PublishOnly, MarkComplete,
                                      Publish

\* A step that changes at most the failures, the child process and the guard.
LEMMA OtherMoves ==
  ASSUME MediaInv, UNCHANGED <<store, published, run, prod, channel, receiver, cons, main>>,
         cancelled' \in BOOLEAN, failures' \in 0..MaxFailures
  PROVE  MediaInv'
PROOF
  <1>1. StoreTypes' /\ RunTypes' /\ ThreadTypes'
    BY DEF MediaInv, StoreTypes, RunTypes, ThreadTypes, store
  <1>2. HeardOK' /\ DocOK' /\ SentOK' /\ CountOK' /\ GroupsOK' /\ ContextOK' /\ OutputOK'
    BY DEF MediaInv, HeardOK, DocOK, SentOK, Sent, CountOK, GroupsOK, ContextOK, OutputOK,
           store
  <1>3. CallerOK'
    BY DEF MediaInv, CallerOK, Aligned, Translated
  <1> QED BY <1>1, <1>2, <1>3 DEF MediaInv

LEMMA OtherStep ==
  ASSUME MediaInv, WhisperRuns \/ ChildRuns \/ Cancel \/ UNCHANGED vars
  PROVE  MediaInv'
PROOF
  <1>1. cancelled \in BOOLEAN /\ failures \in 0..MaxFailures
    BY DEF MediaInv, RunTypes
  <1>2. CASE WhisperRuns
    <2>1. UNCHANGED cancelled
      BY <1>2 DEF WhisperRuns, Whisper!Reader, Whisper!Loop
    <2>2. UNCHANGED failures \/ (failures < MaxFailures /\ failures' = failures + 1)
      BY <1>2 DEF WhisperRuns, Whisper!Reader, Whisper!Loop, Whisper!DrainLines, Whisper!Stop,
                  Whisper!Poll, Whisper!Finish, Whisper!JoinReader
    <2>3. failures' \in 0..MaxFailures
      BY <1>1, <2>2, PipelineAssumption
    <2> QED BY <1>1, <1>2, <2>1, <2>3, OtherMoves DEF WhisperRuns
  <1>3. CASE ChildRuns
    BY <1>1, <1>3, OtherMoves DEF ChildRuns, Whisper!Child
  <1>4. CASE Cancel
    BY <1>1, <1>4, OtherMoves DEF Cancel
  <1>5. CASE UNCHANGED vars
    BY <1>1, <1>5, OtherMoves DEF vars
  <1> QED BY <1>2, <1>3, <1>4, <1>5

\* What a new run starts with.
LEMMA NewRun ==
  ASSUME PipelineAssumption
  PROVE  /\ NewProducer \in Producers /\ NewProducer.pc = "chunk" /\ NewProducer.doc = <<>>
         /\ NewProducer.chunk = 1
         /\ NewConsumer \in Consumers /\ NewConsumer.pc = "recv" /\ NewConsumer.pending = <<>>
         /\ NewConsumer.parts = <<>> /\ Range(<<>>) = {} /\ Len(<<>>) = 0
         /\ <<>> \in Seq(Recognitions) /\ Len(<<>>) <= Capacity
PROOF
  <1>1. /\ <<>> \in Seq(Cue) /\ <<>> \in Seq(Recognitions) /\ <<>> \in Contexts
        /\ <<>> \in Seq(Parts) /\ Len(<<>>) = 0 /\ DOMAIN <<>> = {} /\ 1 \in 1..(Chunks + 1)
        /\ None \in Errors
    BY PipelineAssumption DEF Contexts, Errors
  <1>2. NewProducer \in Producers
    BY <1>1 DEF NewProducer, Producers
  <1>3. NewConsumer \in Consumers
    BY <1>1 DEF NewConsumer, Consumers
  <1>4. Range(<<>>) = {}
    BY <1>1 DEF Range
  <1> QED BY <1>1, <1>2, <1>3, <1>4, PipelineAssumption DEF NewProducer, NewConsumer

Starts ==
  /\ StoreTypes /\ RunTypes /\ GroupsOK /\ OutputOK
  /\ \A c \in 1..Chunks : /\ raw[c] # None => raw[c].chunk = c
                          /\ cut[c] # None => cut[c].chunk = c
  /\ prod = NewProducer /\ cons = NewConsumer /\ channel = <<>> /\ main = "running"

LEMMA StartsInv == Starts => MediaInv
PROOF
  <1> SUFFICES ASSUME Starts PROVE MediaInv
    OBVIOUS
  <1> USE DEF Starts
  <1>1. ThreadTypes
    BY NewRun, PipelineAssumption DEF ThreadTypes
  <1>2. HeardOK
    BY NewRun, PipelineAssumption DEF HeardOK
  <1>3. DocOK
    BY NewRun, PipelineAssumption DEF DocOK
  <1>4. SentOK /\ CountOK
    <2>1. /\ cons.parts = <<>> /\ cons.pending = <<>> /\ channel = <<>> /\ Len(<<>>) = 0
          /\ prod.chunk = 1 /\ cons.pc = "recv"
      BY NewRun, PipelineAssumption
    <2>2. 0 + 0 + 0 <= 1 - 1
      OBVIOUS
    <2> QED BY <2>1, <2>2 DEF SentOK, CountOK
  <1>5. ContextOK
    BY NewRun, PipelineAssumption DEF ContextOK
  <1>6. CallerOK
    BY DEF CallerOK
  <1> QED BY <1>1, <1>2, <1>3, <1>4, <1>5, <1>6 DEF MediaInv

LEMMA RestartStep ==
  ASSUME MediaInv, Restart
  PROVE  MediaInv'
PROOF
  <1>1. /\ StoreTypes /\ RunTypes /\ GroupsOK /\ OutputOK /\ HeardOK /\ run \in Runs
        /\ run.n < MaxRuns /\ UNCHANGED <<store, published, failures>>
    BY DEF MediaInv, RunTypes, Restart
  <1>2. PICK reuse \in Reuse : run' = [run EXCEPT !.n = @ + 1, !.reuse = reuse]
    BY DEF Restart
  <1>3. run' \in Runs
    <2>1. run.n + 1 \in 1..MaxRuns
      BY <1>1, PipelineAssumption DEF Runs
    <2> QED BY <1>1, <1>2, <2>1 DEF Runs
  <1>4. /\ cancelled' = FALSE /\ prod' = NewProducer /\ cons' = NewConsumer /\ channel' = <<>>
        /\ receiver' = TRUE /\ main' = "running"
    BY DEF Restart
  <1>5. StoreTypes' /\ GroupsOK' /\ OutputOK'
    BY <1>1 DEF StoreTypes, GroupsOK, OutputOK, store
  <1>6. RunTypes'
    BY <1>1, <1>3, <1>4 DEF RunTypes, Answers
  <1>7. Starts'
    BY <1>1, <1>4, <1>5, <1>6 DEF Starts, HeardOK, store
  <1>8. (Starts => MediaInv)'
    BY StartsInv, PTL
  <1> QED BY <1>7, <1>8

LEMMA InitInv == Init => MediaInv
PROOF
  <1> SUFFICES ASSUME Init PROVE MediaInv
    OBVIOUS
  <1> USE PipelineAssumption
  <1>1. StoreTypes /\ GroupsOK
    BY DEF Init, StoreTypes, GroupsOK
  <1>2. Unpublished \in Publications /\ Unpublished.output = None
    BY DEF Unpublished, Publications
  <1>3. run \in Runs
    <2>1. run \in [n : {1}, strategy : Strategies, reuse : Reuse] /\ 1 \in 1..MaxRuns
      BY DEF Init
    <2> QED BY <2>1 DEF Runs
  <1>4. RunTypes /\ OutputOK
    <2>1. /\ published = Unpublished /\ cancelled = FALSE /\ failures = 0 /\ receiver = TRUE
          /\ main = "running" /\ 0 \in 0..MaxFailures
      BY DEF Init
    <2>2. published \in Publications /\ published.output = None
      BY <1>2, <2>1
    <2> QED BY <1>3, <2>1, <2>2 DEF RunTypes, OutputOK, Answers
  <1>5. Starts
    BY <1>1, <1>4 DEF Init, Starts
  <1> QED BY <1>5, StartsInv

LEMMA MediaStep == MediaInv /\ [Next]_vars => MediaInv'
PROOF
  <1> SUFFICES ASSUME MediaInv, [Next]_vars PROVE MediaInv'
    OBVIOUS
  <1>1. CASE Producer
    BY <1>1, NextChunkStep, WhisperReturnsStep, KeepRawStep, KeepCutStep, SaveChunkStep,
       SendChunkStep, ProducerEndsStep DEF Producer
  <1>2. CASE Consumer
    BY <1>2, ReceiveChunkStep, ChannelEndsStep, TranslateStep, TranslateCancelledStep
       DEF Consumer
  <1>3. CASE Caller
    BY <1>3, JoinStep, PublishStep DEF Caller
  <1>4. CASE Restart
    BY <1>4, RestartStep
  <1>5. CASE WhisperRuns \/ ChildRuns \/ Cancel \/ UNCHANGED vars
    BY <1>5, OtherStep
  <1> QED BY <1>1, <1>2, <1>3, <1>4, <1>5 DEF Next

-----------------------------------------------------------------------------
(* The theorems *)

\* The invariant: every recognition is of the chunk it is kept, held or sent for,
\* the document of the run has one recognition of each chunk, what the
\* translation has received or made is of that document, each group kept is a
\* translation of the source and with the context of its key, and the caller
\* publishes only when both threads have ended and are aligned.
THEOREM MediaInvariant == Spec => []MediaInv
PROOF
  <1> QED BY InitInv, MediaStep, PTL DEF Spec

\* The variables have their types, and the channel never holds more than its
\* capacity.
THEOREM MediaTypes == Spec => []TypeOK
PROOF
  <1>1. MediaInv => TypeOK
    <2> SUFFICES ASSUME MediaInv PROVE TypeOK
      OBVIOUS
    <2>1. StoreTypes /\ RunTypes /\ ThreadTypes
      BY DEF MediaInv
    <2>2. \A g \in 1..Chunks : groups[g] = None \/ groups[g].texts \in Seq(Text)
      BY <2>1 DEF StoreTypes, Groups
    <2>3. /\ raw \in [1..Chunks -> {None} \cup Recognitions]
          /\ cut \in [1..Chunks -> {None} \cup Recognitions]
      BY <2>1 DEF StoreTypes
    <2>4. /\ run.n \in 1..MaxRuns /\ {cancelled, receiver} \subseteq BOOLEAN
          /\ failures \in 0..MaxFailures
      BY <2>1 DEF RunTypes, Runs
    <2>5. main \in {"running", "source", "output", "complete", "ok", "failed", "cancelled",
                    "stopped"}
      BY <2>1 DEF RunTypes, Answers
    <2>6. /\ prod.pc \in {"chunk", "whisper", "raw", "cut", "ready", "send", "ended"}
          /\ prod.doc \in Seq(Cue)
          /\ channel \in Seq(Recognitions) /\ Len(channel) <= Capacity
          /\ cons.pc \in {"recv", "translate", "ended"}
      BY <2>1 DEF ThreadTypes, Producers, Consumers
    <2> QED BY <2>2, <2>3, <2>4, <2>5, <2>6 DEF TypeOK
  <1> QED BY <1>1, MediaInvariant, PTL

\* What the media pipeline publishes is a translation of what it publishes,
\* whatever earlier runs have kept, with whatever options and stopped at whatever
\* point, and the files of a run that succeeds and leaves two have the same cues.
THEOREM PublishesItsSource == Spec => []PublishedIsCurrent
PROOF
  <1>1. MediaInv => PublishedIsCurrent
    <2> SUFFICES ASSUME MediaInv PROVE PublishedIsCurrent
      OBVIOUS
    <2>1. ASSUME published.output # None
          PROVE  \A i \in DOMAIN published.output :
                   published.output[i].text.of = published.output[i].cue
      <3>1. published.output \in Seq([cue : Cue, text : Text])
        BY <2>1 DEF MediaInv, RunTypes, Publications
      <3>2. DOMAIN published.output = 1..Len(published.output)
        BY <3>1
      <3> QED BY <2>1, <3>2 DEF MediaInv, OutputOK
    <2>2. ASSUME main = "ok", published.source # None
          PROVE  published.source = [i \in DOMAIN published.output |-> published.output[i].cue]
      BY <2>2 DEF MediaInv, CallerOK, SameCues
    <2> QED BY <2>1, <2>2 DEF PublishedIsCurrent
  <1> QED BY <1>1, MediaInvariant, PTL

\* In turbo every group of a run that succeeds was translated with the end of the
\* group before it, in this run, as its context: one that was kept is resumed only
\* with the context it had then.
THEOREM ContextsAgree == Spec => []ContextConfirmed
PROOF
  <1>1. MediaInv => ContextConfirmed
    <2> SUFFICES ASSUME MediaInv, main = "ok", run.strategy = "turbo",
                        NEW g \in 2..Len(cons.parts)
                 PROVE  cons.parts[g].context = TailOf(cons.parts[g - 1].texts)
      BY DEF ContextConfirmed, TailOf
    <2> QED BY DEF MediaInv, ContextOK
  <1> QED BY <1>1, MediaInvariant, PTL
=============================================================================
