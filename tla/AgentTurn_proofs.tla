-------------------------- MODULE AgentTurn_proofs --------------------------
(***************************************************************************)
(* Proofs about AgentTurn for any tools and policy: batches, instructions, *)
(* requests, crashes and failed saves of any number.                       *)
(***************************************************************************)
EXTENDS AgentTurn, SequenceTheorems, WellFoundedInduction, TLAPS

-----------------------------------------------------------------------------
(* The inductive invariant: types and threads *)

Workers ==
  [pc : Places, kind : {None, "Text", "Toggle", "Approve", "Reject", "Revise"},
   turn : Turns, ops : SUBSET Call, deletes : BOOLEAN, op : {None} \cup Call,
   origin : {None, "turn", "approved", "plan"}, caller : {None, "turn", "decision"},
   out : {None, "Respond", "ToolCalls", "Continue", "Stopped", "Planned", "Asks",
          "ok", "execution", "duplicate_mutation", "user_denied"},
   heard : Nat, born : Nat]

\* What the local state of the worker is at each of its places: among others,
\* an answer of tool calls is one more step that the turn has left, and what
\* the model chose is acted upon only while no instruction was taken since.
WorkerOK(p) ==
  /\ p \in Workers
  /\ p.pc \in {"run", "running", "settle"} => p.op \in Call
  /\ p.pc \in {"run", "running"} => p.origin \in {"turn", "approved", "plan"}
  /\ p.pc = "settle" => p.out \in {"ok", "execution", "user_denied"}
  /\ p.pc = "processed" => p.out \in {"Continue", "Stopped", "Planned", "Asks"}
  /\ p.pc = "processed" /\ p.out = "Asks" => p.ops # {}
  /\ p.pc = "answered" /\ p.out = "ToolCalls" => p.turn.steps < MaxSteps
  /\ p.born <= p.heard
  /\ p.pc \in {"start", "settle", "plan", "answered", "calls", "processed", "run", "running"}
       => p.born = p.heard

\* Each instruction is counted once, in the queue or as heard, and there is
\* a request left for each input that waits.
Counted ==
  /\ w.heard + Len(steer) <= steers
  /\ sent + queued <= MaxRequests
  /\ ui.busy => 1 <= sent

\* The worker runs, or has answered, only while the terminal is busy, and the
\* terminal asks only for a decision that the engine waits for.
Threads ==
  /\ w.pc # "idle" => ui.busy /\ resp = None
  /\ resp # None => ui.busy
  /\ resp # None /\ resp = "Approval" => Pending(mem)
  /\ AwaitingIsPending

TypeInv == TypeOK /\ WorkerOK(w) /\ Counted

-----------------------------------------------------------------------------
(* The inductive invariant: calls that wait *)

Distinct(S) == \A c, d \in S : c.id = d.id => c = d
Apart(S, T) == \A c \in S, d \in T : c.id # d.id

\* The calls that the approval of a session waits for.
Asked(s)   == IF s.approval = None THEN {} ELSE {s.approval.op} \cup s.approval.rest
Waiting(s) == s.plan.calls \cup Asked(s)

\* A call that may still start: the model asked for it, and nobody denied it.
Open(S, n, no) == \A c \in S : c.id <= n /\ c.id \notin no

\* Nothing of a session has started but the call of its plan that is marked in
\* flight and a command that was approved.
SessionOK(s, count, yes, no, n) ==
  /\ Distinct(s.plan.calls) /\ Apart(s.plan.calls, Asked(s))
  /\ Open(Waiting(s), n, no)
  /\ s.approval # None =>
       /\ Distinct(s.approval.rest) /\ Apart({s.approval.op}, s.approval.rest)
       /\ count[s.approval.op.id] > 0 => s.approval.op.id \in yes
       /\ \A c \in s.approval.rest : count[c.id] = 0
  /\ s.plan.inFlight # 0 =>
       s.plan.calls # {} /\ s.plan.inFlight = First(s.plan.calls).id
  /\ \A c \in s.plan.calls : count[c.id] > 0 => c.id = s.plan.inFlight

SessionsOK ==
  /\ SessionOK(mem, started, approved, denied, calls)
  /\ SessionOK(disk, started, approved, denied, calls)

\* Only calls the model asked for were started or denied.
PastOK ==
  /\ \A n \in 1..MaxCalls : started[n] > 0 => n <= calls
  /\ \A n \in denied : n <= calls
  /\ StartedOnce

-----------------------------------------------------------------------------
(* The inductive invariant: calls in progress *)

\* The calls of the batch that may still start.
Live(p) ==
  IF p.pc \in {"calls", "processed"} \/ (p.pc = "answered" /\ p.out = "ToolCalls") THEN p.ops
  ELSE IF p.pc \in {"run", "running"} /\ p.origin = "turn"
  THEN IF p.pc = "run" THEN p.ops \cup {p.op} ELSE p.ops
  ELSE {}

\* None of them has started, and none waits in a session as well.
LiveOK(S, count, no, n) ==
  /\ Distinct(S) /\ Open(S, n, no)
  /\ \A c \in S : count[c.id] = 0

BatchOK ==
  /\ LiveOK(Live(w), started, denied, calls)
  /\ Apart(Live(w), Waiting(mem)) /\ Apart(Live(w), Waiting(disk))
  /\ w.pc = "run" /\ w.origin = "turn" => Apart({w.op}, w.ops)

\* A call that runs is saved, with what it runs for.
RunOK ==
  /\ w.pc \in {"run", "running"} => disk = mem
  /\ w.pc \in {"run", "running"} /\ w.origin = "approved" => w.op.id \in approved
  /\ (w.pc \in {"run", "running"} /\ w.origin = "approved") \/ w.pc = "settle" =>
       mem.approval # None /\ w.op = mem.approval.op
  /\ w.pc \in {"run", "running"} /\ w.origin = "plan" =>
       /\ mem.plan.calls # {} /\ w.op = First(mem.plan.calls)
       /\ mem.plan.inFlight = w.op.id
  /\ w.pc = "run" /\ w.origin = "plan" => started[w.op.id] = 0

\* In plan mode a batch without deletions that is not a plan has no mutation.
AskOK ==
  /\ w.pc \in {"calls", "run", "running"} /\ ~ w.deletes /\ mem.mode = "Plan"
       => \A c \in Live(w) : c.tool \notin Mutating
  /\ w.pc = "run" /\ w.origin = "turn" =>
       /\ w.op.tool \notin Commands
       /\ mem.mode = "Plan" => w.op.tool \notin Mutating \ Deletes

AgentInv ==
  TypeInv /\ Threads /\ SessionsOK /\ PastOK /\ BatchOK /\ RunOK /\ AskOK

-----------------------------------------------------------------------------
(* Calls, turns and sessions *)

\* The first call of a batch is one of it, and no other has a lower number.
LEMMA FirstCall ==
  ASSUME NEW S \in SUBSET Call, S # {}
  PROVE  First(S) \in S /\ \A d \in S : First(S).id <= d.id
PROOF
  <1> DEFINE R == {ss \in Nat \X Nat : ss[1] < ss[2]}
             N == Ids(S)
  <1>1. IsWellFoundedOn(R, Nat)
    BY NatLessThanWellFounded DEF OpToRel
  <1>2. \A x, y \in Nat : x < y => <<x, y>> \in R
    OBVIOUS
  <1>3. N \in SUBSET Nat /\ N # {}
    BY ToolsAssumption DEF Ids, Call
  <1>4. \A c \in S : c.id \in N
    BY DEF Ids
  <1>5. \A x \in N : \E c \in S : c.id = x
    BY DEF Ids
  <1> HIDE DEF R, N
  <1>6. PICK x \in N : \A y \in N : ~ (<<y, x>> \in R)
    BY <1>1, <1>3, WFMin
  <1>7. ASSUME NEW y \in N PROVE x <= y
    <2>1. x \in Nat /\ y \in Nat
      BY <1>3
    <2>2. ~ (y < x)
      BY <1>2, <1>6, <2>1
    <2> QED BY <2>1, <2>2
  <1>8. PICK c \in S : c.id = x
    BY <1>5
  <1>9. \A d \in S : c.id <= d.id
    BY <1>4, <1>7, <1>8
  <1> QED BY <1>9 DEF First

\* What remains of a batch, and the call taken from it, are calls.
LEMMA RestCalls ==
  ASSUME NEW S \in SUBSET Call
  PROVE  Rest(S) \in SUBSET Call /\ Rest(S) \subseteq S
PROOF
  BY DEF Rest

\* With distinct numbers, the call that is taken has none of the others.
LEMMA FirstApart ==
  ASSUME NEW S \in SUBSET Call, S # {}, Distinct(S)
  PROVE  /\ Apart({First(S)}, Rest(S)) /\ Distinct(Rest(S))
         /\ Rest(S) \cup {First(S)} = S
PROOF
  <1>1. First(S) \in S
    BY FirstCall
  <1> QED BY <1>1 DEF Rest, Apart, Distinct

\* A turn that starts has used nothing.
LEMMA NewTurnIn == NewTurn \in Turns
PROOF
  BY ToolsAssumption DEF NewTurn, Turns

\* A result is one more entry of the turn, and never a step of the model.
LEMMA FeedbackIn ==
  ASSUME NEW t \in Turns, NEW tool \in Tools,
         NEW result \in {"ok", "execution", "duplicate_mutation", "user_denied"}
  PROVE  Feedback(t, tool, result) \in Turns /\ Feedback(t, tool, result).steps = t.steps
PROOF
  <1>1. CASE result = "ok"
    BY <1>1 DEF Feedback, Turns
  <1>2. CASE result # "ok"
    <2>1. <<tool, result>> \in Tools \X {"execution", "duplicate_mutation", "user_denied"}
      BY <1>2
    <2> QED BY <1>2, <2>1 DEF Feedback, Turns
  <1> QED BY <1>1, <1>2

\* The plans of a session.
Plans == [open : BOOLEAN, calls : SUBSET Call, inFlight : 0..MaxCalls]

\* A session is one of another plan, in another mode, as well.
LEMMA OtherPlan ==
  ASSUME NEW s \in Sessions, NEW m \in {"Chat", "Plan"}, NEW p \in Plans
  PROVE  /\ s.plan \in Plans
         /\ [s EXCEPT !.mode = m, !.plan = p] \in Sessions
         /\ [s EXCEPT !.mode = m] \in Sessions
         /\ [s EXCEPT !.plan = p] \in Sessions
PROOF
  BY DEF Plans, Sessions

\* No plan is a plan, and a number may be 0.
LEMMA NoPlanIn == NoPlan \in Plans /\ 0 \in 0..MaxCalls /\ \A c \in Call : c.id \in 0..MaxCalls
PROOF
  BY ToolsAssumption DEF NoPlan, Plans, Call

\* Everything the engine makes of a session is a session.
LEMMA SessionsIn ==
  ASSUME NEW s \in Sessions
  PROVE  /\ PlanFinished(s) \in Sessions
         /\ \A ops \in SUBSET Call : PlanStored(s, ops) \in Sessions
         /\ s.plan.calls # {} => PlanBegun(s) \in Sessions
         /\ \A id : PlanProgress(s, id) \in Sessions
         /\ \A on : ModeSet(s, on) \in Sessions
         /\ \A op \in Call, ops \in SUBSET Call, t \in Turns :
              ApprovalStored(s, op, ops, t) \in Sessions
         /\ ApprovalCleared(s) \in Sessions
         /\ [s EXCEPT !.turn = None] \in Sessions
         /\ \A t \in Turns : [s EXCEPT !.approval = None, !.turn = t] \in Sessions
PROOF
  <1>1. PlanFinished(s) \in Sessions
    BY OtherPlan, NoPlanIn DEF PlanFinished
  <1>2. ASSUME NEW ops \in SUBSET Call PROVE PlanStored(s, ops) \in Sessions
    <2>1. [open |-> TRUE, calls |-> ops, inFlight |-> 0] \in Plans
      BY NoPlanIn DEF Plans
    <2> QED BY <2>1, OtherPlan DEF PlanStored
  <1>3. s.plan.calls # {} => PlanBegun(s) \in Sessions
    <2>1. HAVE s.plan.calls # {}
    <2>2. s.plan \in Plans
      BY DEF Plans, Sessions
    <2>3. First(s.plan.calls) \in Call
      BY <2>1, <2>2, FirstCall DEF Plans
    <2>4. [s.plan EXCEPT !.inFlight = First(s.plan.calls).id] \in Plans
      BY <2>2, <2>3, NoPlanIn DEF Plans
    <2>5. PlanBegun(s) = [s EXCEPT !.plan = [s.plan EXCEPT !.inFlight = First(s.plan.calls).id]]
      BY DEF PlanBegun, Sessions
    <2> QED BY <2>4, <2>5, OtherPlan
  <1>4. ASSUME NEW id PROVE PlanProgress(s, id) \in Sessions
    <2> DEFINE p == [s.plan EXCEPT !.calls = Rest(@), !.inFlight = 0]
    <2>1. s.plan \in Plans
      BY DEF Plans, Sessions
    <2>2. p \in Plans
      BY <2>1, NoPlanIn DEF Plans, Rest
    <2>3. PlanProgress(s, id) = s \/ PlanProgress(s, id) = [s EXCEPT !.plan = p]
      BY DEF PlanProgress, Sessions
    <2> QED BY <2>2, <2>3, OtherPlan
  <1>5. ASSUME NEW on PROVE ModeSet(s, on) \in Sessions
    BY OtherPlan, NoPlanIn DEF ModeSet
  <1>6. \A op \in Call, ops \in SUBSET Call, t \in Turns :
          ApprovalStored(s, op, ops, t) \in Sessions
    BY DEF ApprovalStored, Sessions
  <1>7. ApprovalCleared(s) \in Sessions
    BY DEF ApprovalCleared, Sessions
  <1>8. [s EXCEPT !.turn = None] \in Sessions
    BY DEF Sessions
  <1>9. \A t \in Turns : [s EXCEPT !.approval = None, !.turn = t] \in Sessions
    BY DEF Sessions
  <1> QED BY <1>1, <1>2, <1>3, <1>4, <1>5, <1>6, <1>7, <1>8, <1>9

-----------------------------------------------------------------------------
(* The worker's places *)

\* A failed operation and the idle worker are in order.
LEMMA FailsIdle ==
  ASSUME WorkerOK(w)
  PROVE  WorkerOK(Fails) /\ WorkerOK(Idle)
PROOF
  <1>1. WorkerOK(Fails)
    BY DEF WorkerOK, Workers, Places, Fails, At
  <1>2. Idle.turn \in Turns
    BY NewTurnIn DEF Idle
  <1>3. Idle \in Workers
    BY <1>2 DEF Idle, Workers, Places
  <1>4. Idle.pc = "idle" /\ Idle.born = Idle.heard /\ Idle.born \in Nat
    BY DEF Idle
  <1>5. WorkerOK(Idle)
    BY <1>3, <1>4 DEF WorkerOK
  <1> QED BY <1>1, <1>5

\* A save leads on, or the operation fails.
LEMMA SaveCases ==
  ASSUME NEW m, NEW next, Save(m, next) \/ SaveTwice(m, next) \/ SaveCandidate(m, next)
  PROVE  /\ mem' \in {m, mem} /\ disk' \in {m, disk} /\ w' \in {next, Fails}
         /\ (w' = next /\ mem' = m /\ disk' = m) \/ w' = Fails
         /\ failures' = failures \/ (failures < MaxFailures /\ failures' = failures + 1)
PROOF
  BY DEF Save, SaveTwice, SaveCandidate

\* The calls that are planned are calls of the batch.
LEMMA PlannedIn ==
  ASSUME NEW ops \in SUBSET Call
  PROVE  Planned(ops) \in SUBSET Call /\ Planned(ops) \subseteq ops
PROOF
  BY DEF Planned

\* A batch that is entered is left at once or has calls of it to process.
LEMMA BatchPlace ==
  ASSUME NEW p \in Workers, p.born = p.heard, NEW ops \in SUBSET Call,
         NEW caller \in {"turn", "decision"}
  PROVE  /\ WorkerOK(Batch(p, ops, caller))
         /\ Batch(p, ops, caller).pc \in {"calls", "processed"}
         /\ Batch(p, ops, caller).ops \subseteq ops
         /\ Batch(p, ops, caller).heard = p.heard
         /\ Batch(p, ops, caller).pc = "calls" =>
              /\ Batch(p, ops, caller).ops = ops /\ Planned(ops) = {}
              /\ Batch(p, ops, caller).deletes = \E c \in ops : c.tool \in Deletes
PROOF
  <1> DEFINE planned == Planned(ops)
             deletes == \E c \in ops : c.tool \in Deletes
             entered == [p EXCEPT !.caller = caller, !.deletes = deletes]
  <1>1. planned \in SUBSET Call /\ planned \subseteq ops
    BY PlannedIn
  <1>2. deletes \in BOOLEAN
    OBVIOUS
  <1>3. /\ entered \in Workers /\ entered.deletes = deletes
        /\ entered.heard = p.heard /\ entered.born = p.heard
    <2> HIDE DEF deletes
    <2> QED BY <1>2 DEF Workers
  <1>4. /\ p.heard \in Nat
        /\ Batch(p, ops, caller) =
             IF ops = {}
             THEN [entered EXCEPT !.pc = "processed", !.ops = {},
                     !.out = IF caller = "turn" THEN "Stopped" ELSE "Continue"]
             ELSE IF planned # {}
             THEN [entered EXCEPT !.pc = "processed", !.ops = planned, !.out = "Planned"]
             ELSE [entered EXCEPT !.pc = "calls", !.ops = ops]
    BY DEF Batch, Workers
  <1> HIDE DEF entered
  <1>5. CASE ops = {}
    <2> DEFINE out == IF caller = "turn" THEN "Stopped" ELSE "Continue"
    <2>1. Batch(p, ops, caller) = [entered EXCEPT !.pc = "processed", !.ops = {}, !.out = out]
      BY <1>4, <1>5
    <2>2. out \in {"Stopped", "Continue"}
      OBVIOUS
    <2> HIDE DEF out
    <2>3. Batch(p, ops, caller) \in Workers
      BY <1>3, <2>1, <2>2, ZenonT(40) DEF Workers, Places
    <2>4. /\ Batch(p, ops, caller).pc = "processed" /\ Batch(p, ops, caller).out = out
          /\ Batch(p, ops, caller).ops = {} /\ Batch(p, ops, caller).heard = p.heard
          /\ Batch(p, ops, caller).born = p.heard
      BY <1>3, <2>1 DEF Workers
    <2>5. WorkerOK(Batch(p, ops, caller))
      BY <1>4, <2>2, <2>3, <2>4 DEF WorkerOK
    <2> QED BY <2>4, <2>5
  <1>6. CASE ops # {} /\ planned # {}
    <2>1. Batch(p, ops, caller) =
            [entered EXCEPT !.pc = "processed", !.ops = planned, !.out = "Planned"]
      BY <1>4, <1>6
    <2> HIDE DEF planned
    <2>2. Batch(p, ops, caller) \in Workers
      BY <1>1, <1>3, <2>1, ZenonT(40) DEF Workers, Places
    <2>3. /\ Batch(p, ops, caller).pc = "processed" /\ Batch(p, ops, caller).out = "Planned"
          /\ Batch(p, ops, caller).ops = planned /\ Batch(p, ops, caller).heard = p.heard
          /\ Batch(p, ops, caller).born = p.heard
      BY <1>3, <2>1 DEF Workers
    <2>4. WorkerOK(Batch(p, ops, caller))
      BY <1>4, <2>2, <2>3 DEF WorkerOK
    <2> QED BY <1>1, <2>3, <2>4
  <1>7. CASE ops # {} /\ planned = {}
    <2>1. Batch(p, ops, caller) = [entered EXCEPT !.pc = "calls", !.ops = ops]
      BY <1>4, <1>7
    <2>2. Batch(p, ops, caller) \in Workers
      BY <1>3, <2>1 DEF Workers, Places
    <2>3. /\ Batch(p, ops, caller).pc = "calls" /\ Batch(p, ops, caller).ops = ops
          /\ Batch(p, ops, caller).heard = p.heard /\ Batch(p, ops, caller).born = p.heard
      BY <1>3, <2>1 DEF Workers
    <2>4. WorkerOK(Batch(p, ops, caller))
      BY <1>4, <2>2, <2>3 DEF WorkerOK
    <2>5. Batch(p, ops, caller).deletes = entered.deletes
      BY <1>3, <2>1 DEF Workers
    <2> QED BY <1>3, <1>7, <2>3, <2>4, <2>5
  <1> QED BY <1>5, <1>6, <1>7

\* The calls of an answer are new ones, each with a number of its own.
LEMMA NewCalls ==
  ASSUME calls \in 0..MaxCalls, NEW d \in Decisions, calls + Len(d) <= MaxCalls
  PROVE  /\ {[id |-> calls + i, tool |-> d[i]] : i \in DOMAIN d} \in SUBSET Call
         /\ Distinct({[id |-> calls + i, tool |-> d[i]] : i \in DOMAIN d})
         /\ \A c \in {[id |-> calls + i, tool |-> d[i]] : i \in DOMAIN d} :
              calls < c.id /\ c.id <= calls + Len(d)
PROOF
  <1>1. /\ d \in Seq(Tools) /\ Len(d) \in Nat /\ DOMAIN d = 1..Len(d)
        /\ \A i \in 1..Len(d) : d[i] \in Tools
    BY ToolsAssumption
  <1>2. calls \in Nat /\ MaxCalls \in Nat
    BY ToolsAssumption
  <1>3. ASSUME NEW i \in 1..Len(d)
        PROVE  /\ [id |-> calls + i, tool |-> d[i]] \in Call
               /\ calls < calls + i /\ calls + i <= calls + Len(d)
    BY <1>1, <1>2 DEF Call
  <1>4. \A i, j \in 1..Len(d) : calls + i = calls + j => i = j
    BY <1>1, <1>2
  <1> QED BY <1>1, <1>3, <1>4 DEF Distinct

\* What is known of the parts of a session.
LEMMA SessionParts ==
  ASSUME NEW s \in Sessions
  PROVE  /\ s.plan.calls \in SUBSET Call
         /\ s.approval # None => s.approval.op \in Call /\ s.approval.rest \in SUBSET Call
         /\ s.turn # None => s.turn \in Turns
         /\ s.plan.calls # {} => First(s.plan.calls) \in Call
PROOF
  <1>1. /\ s.plan.calls \in SUBSET Call
        /\ s.approval # None => s.approval.op \in Call /\ s.approval.rest \in SUBSET Call
        /\ s.turn # None => s.turn \in Turns
    BY DEF Sessions
  <1> QED BY <1>1, FirstCall

\* A worker that takes a step is in order afterwards.
LEMMA WorkerPlace ==
  ASSUME TypeInv, RunOK, Worker
  PROVE  WorkerOK(w')
PROOF
  <1>1. WorkerOK(w) /\ w \in Workers /\ WorkerOK(Fails) /\ WorkerOK(Idle)
    BY FailsIdle DEF TypeInv, WorkerOK
  <1>2. /\ mem.plan.calls \in SUBSET Call
        /\ mem.approval # None => mem.approval.op \in Call /\ mem.approval.rest \in SUBSET Call
        /\ mem.turn # None => mem.turn \in Turns
        /\ mem.plan.calls # {} => First(mem.plan.calls) \in Call
    BY SessionParts DEF TypeInv, TypeOK
  <1>3. \A pc \in {"head", "model", "clear", "reply"} : WorkerOK(At(pc))
    BY <1>1 DEF WorkerOK, Workers, Places, At
  <1>4. w.pc \in {"start", "plan"} => WorkerOK(At("plan"))
    BY <1>1 DEF WorkerOK, Workers, Places, At
  <1>5. ASSUME NEW m, NEW next, WorkerOK(next),
               Save(m, next) \/ SaveTwice(m, next) \/ SaveCandidate(m, next)
        PROVE  WorkerOK(w')
    BY <1>1, <1>5, SaveCases
  <1>6. CASE StartText
    <2>1. w' = Fails \/ Save(mem, At("head"))
      BY <1>6 DEF StartText, Record
    <2> QED BY <1>1, <1>3, <1>5, <2>1
  <1>7. CASE StartToggle
    BY <1>3, <1>5, <1>7 DEF StartToggle
  <1>8. CASE StartApprovePlan
    BY <1>4, <1>8 DEF StartApprovePlan, Starts
  <1>9. CASE StartApproveCommand
    <2> DEFINE next == [w EXCEPT !.pc = "run", !.op = mem.approval.op, !.origin = "approved",
                                 !.turn = mem.turn]
    <2>1. w.pc = "start" /\ mem.approval # None /\ mem.turn # None /\ Save(mem, next)
      BY <1>9 DEF StartApproveCommand, Starts, Record
    <2>2. WorkerOK(next)
      <3>1. next \in Workers
        BY <1>1, <1>2, <2>1 DEF Workers, Places
      <3>2. next.pc = "run" /\ next.op = mem.approval.op /\ next.origin = "approved" /\ next.born = w.born /\ next.heard = w.heard
        BY <1>1 DEF Workers
      <3>3. w.heard \in Nat /\ w.born \in Nat
        BY <1>1 DEF Workers
      <3> QED BY <1>1, <1>2, <2>1, <3>1, <3>2, <3>3 DEF WorkerOK
    <2> HIDE DEF next
    <2> QED BY <1>5, <2>1, <2>2
  <1>10. CASE StartRejectPlan
    BY <1>3, <1>5, <1>10 DEF StartRejectPlan
  <1>11. CASE StartRejectCommand
    <2> DEFINE next == [w EXCEPT !.pc = "settle", !.op = mem.approval.op, !.turn = mem.turn,
                                 !.out = "user_denied"]
    <2>1. w.pc = "start" /\ mem.approval # None /\ mem.turn # None /\ w' = next
      BY <1>11 DEF StartRejectCommand, Starts
    <2>2. WorkerOK(next)
      <3>1. next \in Workers
        BY <1>1, <1>2, <2>1 DEF Workers, Places
      <3>2. next.pc = "settle" /\ next.op = mem.approval.op /\ next.out = "user_denied" /\ next.born = w.born /\ next.heard = w.heard
        BY <1>1 DEF Workers
      <3>3. w.heard \in Nat /\ w.born \in Nat
        BY <1>1 DEF Workers
      <3> QED BY <1>1, <1>2, <2>1, <3>1, <3>2, <3>3 DEF WorkerOK
    <2> HIDE DEF next
    <2> QED BY <2>1, <2>2
  <1>12. CASE StartRefused
    BY <1>1, <1>12 DEF StartRefused
  <1>13. CASE StartRevise
    <2>1. PICK m : Save(m, Fails) \/ SaveTwice(m, At("head"))
      BY <1>13 DEF StartRevise
    <2> QED BY <1>1, <1>3, <1>5, <2>1
  <1>14. CASE CallModel
    <2> DEFINE next == [w EXCEPT !.pc = "model", !.heard = w.heard + 1]
    <2>1. w' = At("model") \/ Save(mem, next)
      BY <1>1, <1>14 DEF CallModel, Drain, Record, At, Workers
    <2>2. WorkerOK(next)
      <3>1. next \in Workers
        <4>1. w.heard + 1 \in Nat
          BY <1>1 DEF Workers
        <4> QED BY <1>1, <4>1 DEF Workers, Places
      <3>2. next.pc = "model" /\ next.born = w.born /\ next.heard = w.heard + 1
        BY <1>1 DEF Workers, At
      <3>3. w.heard \in Nat /\ w.born \in Nat
        BY <1>1 DEF Workers
      <3> QED BY <1>1, <3>1, <3>2, <3>3 DEF WorkerOK
    <2> HIDE DEF next
    <2> QED BY <1>1, <1>3, <1>5, <2>1, <2>2
  <1>15. CASE HeadCancelled
    BY <1>1, <1>15 DEF HeadCancelled
  <1>16. CASE ModelResponds
    <2> DEFINE next == [w EXCEPT !.pc = "answered", !.out = "Respond", !.born = w.heard]
    <2>1. w' = next
      BY <1>16 DEF ModelResponds
    <2>2. WorkerOK(next)
      <3>1. next \in Workers
        BY <1>1 DEF Workers, Places
      <3>2. next.pc = "answered" /\ next.out = "Respond" /\ next.born = w.heard /\ next.heard = w.heard
        BY <1>1 DEF Workers
      <3>3. w.heard \in Nat /\ w.born \in Nat
        BY <1>1 DEF Workers
      <3> QED BY <1>1, <3>1, <3>2, <3>3 DEF WorkerOK
    <2> HIDE DEF next
    <2> QED BY <2>1, <2>2
  <1>17. CASE ModelCallsTools
    <2>1. PICK d \in Decisions :
            /\ calls + Len(d) <= MaxCalls
            /\ w' = [w EXCEPT !.pc = "answered", !.out = "ToolCalls", !.born = w.heard,
                              !.ops = {[id |-> calls + i, tool |-> d[i]] : i \in DOMAIN d}]
      BY <1>17 DEF ModelCallsTools
    <2>2. ToolsEnabled /\ w.turn.steps \in Nat
      BY <1>1, <1>17, ToolsAssumption DEF ModelCallsTools, Workers, Turns
    <2> DEFINE ops == {[id |-> calls + i, tool |-> d[i]] : i \in DOMAIN d}
    <2>3. ops \in SUBSET Call
      BY <2>1, NewCalls DEF TypeInv, TypeOK
    <2>4. w' = [w EXCEPT !.pc = "answered", !.out = "ToolCalls", !.born = w.heard, !.ops = ops]
      BY <2>1
    <2> HIDE DEF ops
    <2>5. w' \in Workers
      BY <1>1, <2>3, <2>4 DEF Workers, Places
    <2>6. w'.pc = "answered" /\ w'.turn = w.turn /\ w'.born = w.heard /\ w'.heard = w.heard
      BY <1>1, <2>4 DEF Workers
    <2>7. w.heard \in Nat
      BY <1>1 DEF Workers
    <2> QED BY <2>2, <2>5, <2>6, <2>7 DEF WorkerOK, ToolsEnabled
  <1>18. CASE ModelInterrupted
    <2> DEFINE next == [w EXCEPT !.pc = "head", !.heard = w.heard + 1]
    <2>1. w' = Fails \/ Save(mem, next)
      BY <1>1, <1>18 DEF ModelInterrupted, Drain, Record, At, Workers
    <2>2. WorkerOK(next)
      <3>1. next \in Workers
        <4>1. w.heard + 1 \in Nat
          BY <1>1 DEF Workers
        <4> QED BY <1>1, <4>1 DEF Workers, Places
      <3>2. next.pc = "head" /\ next.born = w.born /\ next.heard = w.heard + 1
        BY <1>1 DEF Workers, At
      <3>3. w.heard \in Nat /\ w.born \in Nat
        BY <1>1 DEF Workers
      <3> QED BY <1>1, <3>1, <3>2, <3>3 DEF WorkerOK
    <2> HIDE DEF next
    <2> QED BY <1>1, <1>3, <1>5, <2>1, <2>2
  <1>19. CASE AnswerDiscarded
    <2> DEFINE t == [w.turn EXCEPT !.steps = IF ToolsEnabled THEN @ + 1 ELSE @]
               next == [w EXCEPT !.pc = "head", !.turn = t, !.heard = w.heard + 1]
    <2>1. t \in Turns
      BY <1>1, ToolsAssumption DEF Workers, Turns, ToolsEnabled
    <2>2. Save(mem, next)
      BY <1>1, <1>19 DEF AnswerDiscarded, Drain, Record, Workers
    <2> HIDE DEF t
    <2>3. WorkerOK(next)
      <3>1. next \in Workers
        <4>1. w.heard + 1 \in Nat
          BY <1>1 DEF Workers
        <4> QED BY <1>1, <2>1, <4>1 DEF Workers, Places
      <3>2. next.pc = "head" /\ next.born = w.born /\ next.heard = w.heard + 1
        BY <1>1 DEF Workers
      <3>3. w.heard \in Nat /\ w.born \in Nat
        BY <1>1 DEF Workers
      <3> QED BY <1>1, <3>1, <3>2, <3>3 DEF WorkerOK
    <2> HIDE DEF next
    <2> QED BY <1>5, <2>2, <2>3
  <1>20. CASE AnswerIsText
    BY <1>3, <1>20 DEF AnswerIsText
  <1>21. CASE AnswerIsCalls
    <2> DEFINE t == [w.turn EXCEPT !.steps = @ + 1]
               p == [w EXCEPT !.turn = t]
    <2>1. w.pc = "answered" /\ w.out = "ToolCalls" /\ Save(mem, Batch(p, w.ops, "turn"))
      BY <1>1, <1>21 DEF AnswerIsCalls, Record, Workers
    <2>2. t \in Turns
      <3>1. w.turn \in Turns /\ w.turn.steps < MaxSteps
        BY <1>1, <2>1 DEF WorkerOK, Workers
      <3> QED BY <3>1, ToolsAssumption DEF Turns
    <2> HIDE DEF t
    <2>3. p \in Workers /\ p.pc = "answered" /\ p.born = w.born /\ p.heard = w.heard /\ p.turn = t
      BY <1>1, <2>1, <2>2 DEF Workers
    <2>4. w.ops \in SUBSET Call /\ w.born = w.heard /\ w.heard \in Nat /\ w.out = "ToolCalls"
      BY <1>1, <2>1 DEF WorkerOK, Workers
    <2> HIDE DEF p
    <2>5. WorkerOK(Batch(p, w.ops, "turn"))
      BY <2>3, <2>4, BatchPlace
    <2> QED BY <1>5, <2>1, <2>5
  <1>22. CASE CallsDone
    BY <1>1, <1>22, ZenonT(40) DEF CallsDone, Processed, WorkerOK, Workers, Places
  <1>23. CASE CallsCancelled
    BY <1>1, <1>23 DEF CallsCancelled
  <1>24. CASE CallAsks
    BY <1>1, <1>24, ZenonT(40) DEF CallAsks, Processed, WorkerOK, Workers, Places
  <1>25. CASE CallStarts
    <2> DEFINE next == [w EXCEPT !.pc = "run", !.op = First(w.ops), !.origin = "turn",
                                 !.ops = Rest(@)]
    <2>1. w.pc = "calls" /\ w.ops # {} /\ Save(mem, next)
      BY <1>25 DEF CallStarts, Record
    <2>2. First(w.ops) \in Call /\ Rest(w.ops) \in SUBSET Call
      BY <1>1, <2>1, FirstCall, RestCalls DEF Workers
    <2>3. WorkerOK(next)
      <3>1. next \in Workers
        BY <1>1, <2>1, <2>2 DEF Workers, Places
      <3>2. next.pc = "run" /\ next.op = First(w.ops) /\ next.origin = "turn" /\ next.born = w.born /\ next.heard = w.heard
        BY <1>1 DEF Workers
      <3>3. w.heard \in Nat /\ w.born \in Nat
        BY <1>1 DEF Workers
      <3> QED BY <1>1, <2>1, <2>2, <3>1, <3>2, <3>3 DEF WorkerOK
    <2> HIDE DEF next
    <2> QED BY <1>5, <2>1, <2>3
  <1>26. CASE RunTool
    BY <1>1, <1>26 DEF RunTool, At, WorkerOK, Workers, Places
  <1>27. CASE ToolCancelled
    BY <1>1, <1>5, <1>27 DEF ToolCancelled, Record
  <1>28. CASE \E result \in {"ok", "execution", "duplicate_mutation"} : ToolReturns(result)
    <2>1. PICK result \in {"ok", "execution", "duplicate_mutation"} : ToolReturns(result)
      BY <1>28
    <2>2. /\ w.pc \in {"run", "running"} /\ w.op \in Call
          /\ w.origin \in {"turn", "approved", "plan"}
          /\ w.origin # "turn" => w.pc = "running" /\ result \in {"ok", "execution"}
      BY <1>1, <2>1 DEF ToolReturns, Duplicate, WorkerOK
    <2> DEFINE t == Feedback(w.turn, w.op.tool, result)
               after == [w EXCEPT !.pc = "calls", !.turn = t]
               stopped == [after EXCEPT !.pc = "processed", !.out = "Stopped"]
    <2>3. CASE w.origin = "turn"
      <3>1. t \in Turns
        BY <1>1, <2>2, FeedbackIn DEF Workers, Call
      <3>2. Save(mem, IF Repeated(w.turn, w.op.tool, result) THEN stopped ELSE after)
        BY <1>1, <2>1, <2>3 DEF ToolReturns, Record, Workers
      <3> HIDE DEF t
      <3>3. WorkerOK(after)
        <4>1. after \in Workers
          BY <1>1, <3>1 DEF Workers, Places
        <4>2. after.pc = "calls" /\ after.born = w.born /\ after.heard = w.heard
          BY <1>1 DEF Workers
        <4>3. w.heard \in Nat /\ w.born \in Nat
          BY <1>1 DEF Workers
        <4> QED BY <1>1, <2>2, <4>1, <4>2, <4>3 DEF WorkerOK
      <3>4. WorkerOK(stopped)
        <4>1. stopped \in Workers
          BY <1>1, <3>1 DEF Workers, Places
        <4>2. stopped.pc = "processed" /\ stopped.out = "Stopped" /\ stopped.born = w.born /\ stopped.heard = w.heard
          BY <1>1 DEF Workers
        <4>3. w.heard \in Nat /\ w.born \in Nat
          BY <1>1 DEF Workers
        <4> QED BY <1>1, <2>2, <4>1, <4>2, <4>3 DEF WorkerOK
      <3> HIDE DEF after, stopped
      <3> QED BY <1>5, <3>2, <3>3, <3>4
    <2>4. CASE w.origin = "approved"
      <3> DEFINE next == [w EXCEPT !.pc = "settle", !.out = result]
      <3>1. Save(mem, next)
        BY <2>1, <2>4 DEF ToolReturns, Record
      <3>2. WorkerOK(next)
        <4>1. next \in Workers
          BY <1>1, <2>2 DEF Workers, Places
        <4>2. next.pc = "settle" /\ next.op = w.op /\ next.out = result /\ next.born = w.born /\ next.heard = w.heard
          BY <1>1 DEF Workers
        <4>3. w.heard \in Nat /\ w.born \in Nat
          BY <1>1 DEF Workers
        <4> QED BY <1>1, <2>2, <2>4, <4>1, <4>2, <4>3 DEF WorkerOK
      <3> HIDE DEF next
      <3> QED BY <1>5, <3>1, <3>2
    <2>5. CASE w.origin = "plan"
      <3>1. (\E m : SaveCandidate(m, At("plan"))) \/ Save(mem, Fails)
        BY <2>1, <2>5 DEF ToolReturns, Record
      <3>2. WorkerOK(At("plan"))
        BY <1>1, <2>2 DEF WorkerOK, Workers, Places, At
      <3> QED BY <1>1, <1>5, <3>1, <3>2
    <2> QED BY <2>2, <2>3, <2>4, <2>5
  <1>29. CASE Settle
    <2> DEFINE t == Feedback(w.turn, w.op.tool, w.out)
               p == [w EXCEPT !.turn = t]
               m == [mem EXCEPT !.approval = None, !.turn = t]
    <2>1. w.pc = "settle" /\ mem.approval # None
      BY <1>29 DEF Settle, RunOK
    <2>2. /\ w.op \in Call /\ w.out \in {"ok", "execution", "user_denied"}
          /\ w.born = w.heard /\ w.heard \in Nat
      BY <1>1, <2>1 DEF WorkerOK, Workers
    <2>3. t \in Turns
      BY <1>1, <2>2, FeedbackIn DEF Workers, Call
    <2>4. Save(m, IF Repeated(w.turn, w.op.tool, w.out) THEN [p EXCEPT !.pc = "clear"]
                  ELSE Batch(p, mem.approval.rest, "decision"))
      BY <1>29 DEF Settle
    <2> HIDE DEF t
    <2>5. p \in Workers /\ p.pc = "settle" /\ p.born = w.born /\ p.heard = w.heard
      BY <1>1, <2>1, <2>3 DEF Workers
    <2> DEFINE cleared == [p EXCEPT !.pc = "clear"]
    <2>6. WorkerOK(p)
      <3>1. p \in Workers
        BY <1>1, <2>3 DEF Workers, Places
      <3>2. p.pc = "settle" /\ p.op = w.op /\ p.out = w.out /\ p.born = w.born /\ p.heard = w.heard
        BY <1>1, <2>1 DEF Workers
      <3>3. w.heard \in Nat /\ w.born \in Nat
        BY <1>1 DEF Workers
      <3> QED BY <1>1, <2>2, <3>1, <3>2, <3>3 DEF WorkerOK
    <2>7. WorkerOK(cleared)
      <3>1. cleared \in Workers
        BY <1>1, <2>3 DEF Workers, Places
      <3>2. cleared.pc = "clear" /\ cleared.born = w.born /\ cleared.heard = w.heard
        BY <1>1 DEF Workers
      <3>3. w.heard \in Nat /\ w.born \in Nat
        BY <1>1 DEF Workers
      <3> QED BY <1>1, <2>2, <3>1, <3>2, <3>3 DEF WorkerOK
    <2> HIDE DEF p, m
    <2>8. WorkerOK(Batch(p, mem.approval.rest, "decision"))
      BY <1>2, <2>1, <2>2, <2>5, <2>6, BatchPlace
    <2> QED BY <1>5, <2>4, <2>7, <2>8
  <1>30. CASE BatchDiscarded
    <2> DEFINE next == [w EXCEPT !.pc = "head", !.heard = w.heard + 1]
    <2>1. Save(mem, next)
      BY <1>1, <1>30 DEF BatchDiscarded, Drain, Record, At, Workers
    <2>2. WorkerOK(next)
      <3>1. next \in Workers
        <4>1. w.heard + 1 \in Nat
          BY <1>1 DEF Workers
        <4> QED BY <1>1, <4>1 DEF Workers, Places
      <3>2. next.pc = "head" /\ next.born = w.born /\ next.heard = w.heard + 1
        BY <1>1 DEF Workers, At
      <3>3. w.heard \in Nat /\ w.born \in Nat
        BY <1>1 DEF Workers
      <3> QED BY <1>1, <3>1, <3>2, <3>3 DEF WorkerOK
    <2> HIDE DEF next
    <2> QED BY <1>1, <1>3, <1>5, <2>1, <2>2
  <1>31. CASE BatchTaken
    <2>1. w.out \in {"Continue", "Stopped", "Planned", "Asks"}
      BY <1>1, <1>31 DEF BatchTaken, WorkerOK
    <2>2. \/ w' \in {At("head"), At("clear"), Fails}
          \/ \E m : Save(m, At("clear")) \/ Save(m, At("reply"))
      BY <1>31, <2>1 DEF BatchTaken
    <2> QED BY <1>1, <1>3, <1>5, <2>2
  <1>32. CASE ClearTurn
    BY <1>3, <1>5, <1>32 DEF ClearTurn
  <1>33. CASE PlanNext
    <2> DEFINE next == [w EXCEPT !.pc = "run", !.op = First(mem.plan.calls), !.origin = "plan"]
    <2>1. /\ w.pc = "plan" /\ mem.plan.calls # {}
          /\ SaveCandidate(PlanBegun(mem), next) \/ w' = Fails
      BY <1>33 DEF PlanNext
    <2>2. WorkerOK(next)
      <3>1. next \in Workers
        BY <1>1, <1>2, <2>1 DEF Workers, Places
      <3>2. next.pc = "run" /\ next.op = First(mem.plan.calls) /\ next.origin = "plan" /\ next.born = w.born /\ next.heard = w.heard
        BY <1>1 DEF Workers
      <3>3. w.heard \in Nat /\ w.born \in Nat
        BY <1>1 DEF Workers
      <3> QED BY <1>1, <1>2, <2>1, <3>1, <3>2, <3>3 DEF WorkerOK
    <2> HIDE DEF next
    <2> QED BY <1>1, <1>5, <2>1, <2>2
  <1>34. CASE PlanRefused
    BY <1>1, <1>34 DEF PlanRefused
  <1>35. CASE PlanDone
    BY <1>3, <1>5, <1>35 DEF PlanDone
  <1>36. CASE Reply
    BY <1>1, <1>36 DEF Reply
  <1> QED BY <1>6, <1>7, <1>8, <1>9, <1>10, <1>11, <1>12, <1>13, <1>14, <1>15, <1>16, <1>17, <1>18, <1>19, <1>20, <1>21, <1>22, <1>23, <1>24, <1>25, <1>26, <1>27, <1>28, <1>29, <1>30, <1>31, <1>32, <1>33, <1>34, <1>35, <1>36 DEF Worker

\* A step of the worker makes sessions of the sessions.
LEMMA SessionTypes ==
  ASSUME TypeInv, RunOK, Worker
  PROVE  mem' \in Sessions /\ disk' \in Sessions /\ failures' \in 0..MaxFailures
PROOF
  <1> DEFINE Typed == mem' \in Sessions /\ disk' \in Sessions /\ failures' \in 0..MaxFailures
  <1>1. /\ mem \in Sessions /\ disk \in Sessions /\ failures \in 0..MaxFailures
        /\ MaxFailures \in Nat
    BY BoundsAssumption DEF TypeInv, TypeOK
  <1>2. w \in Workers /\ WorkerOK(w)
    BY DEF TypeInv, WorkerOK
  <1>3. ASSUME NEW m \in Sessions, NEW next,
               Save(m, next) \/ SaveTwice(m, next) \/ SaveCandidate(m, next)
        PROVE  Typed
    BY <1>1, <1>3, SaveCases
  <1>4. ASSUME UNCHANGED session PROVE Typed
    BY <1>1, <1>4 DEF session
  <1>5. /\ mem.plan.calls \in SUBSET Call
        /\ mem.approval # None => mem.approval.op \in Call /\ mem.approval.rest \in SUBSET Call
        /\ mem.turn # None => mem.turn \in Turns
        /\ mem.plan.calls # {} => First(mem.plan.calls) \in Call
    BY <1>1, SessionParts
  <1>6. /\ PlanFinished(mem) \in Sessions /\ ApprovalCleared(mem) \in Sessions
        /\ [mem EXCEPT !.turn = None] \in Sessions
    BY <1>1, SessionsIn
  <1> SUFFICES Typed
    OBVIOUS
  <1> HIDE DEF Typed
  <1>7. CASE StartText
    BY <1>1, <1>3, <1>4, <1>7 DEF StartText, Record
  <1>8. CASE StartToggle
    BY <1>1, <1>3, <1>8, SessionsIn DEF StartToggle
  <1>9. CASE StartApprovePlan \/ StartRejectCommand \/ StartRefused \/ HeadCancelled
    BY <1>4, <1>9 DEF StartApprovePlan, StartRejectCommand, StartRefused, HeadCancelled, OnlyPlace
  <1>10. CASE StartApproveCommand
    BY <1>1, <1>3, <1>10 DEF StartApproveCommand, Record
  <1>11. CASE StartRejectPlan
    BY <1>3, <1>6, <1>11 DEF StartRejectPlan
  <1>12. CASE StartRevise
    <2>1. PICK m \in {PlanFinished(mem), ApprovalCleared(mem)} :
            Save(m, Fails) \/ SaveTwice(m, At("head"))
      BY <1>12 DEF StartRevise
    <2> QED BY <1>3, <1>6, <2>1
  <1>13. CASE CallModel
    <2>1. UNCHANGED session \/ \E next : Save(mem, next)
      BY <1>13 DEF CallModel, Drain, Record
    <2> QED BY <1>1, <1>3, <1>4, <2>1
  <1>14. CASE ModelInterrupted
    <2>1. UNCHANGED session \/ \E next : Save(mem, next)
      BY <1>14 DEF ModelInterrupted, Drain, Record
    <2> QED BY <1>1, <1>3, <1>4, <2>1
  <1>15. CASE AnswerDiscarded
    <2>1. UNCHANGED session \/ \E next : Save(mem, next)
      BY <1>15 DEF AnswerDiscarded, Drain, Record
    <2> QED BY <1>1, <1>3, <1>4, <2>1
  <1>16. CASE BatchDiscarded
    <2>1. UNCHANGED session \/ \E next : Save(mem, next)
      BY <1>16 DEF BatchDiscarded, Drain, Record
    <2> QED BY <1>1, <1>3, <1>4, <2>1
  <1>17. CASE ModelResponds \/ AnswerIsText \/ CallsDone \/ CallsCancelled \/ CallAsks \/ PlanRefused
    BY <1>4, <1>17 DEF ModelResponds, AnswerIsText, CallsDone, CallsCancelled, CallAsks,
                      PlanRefused, OnlyPlace
  <1>18. CASE ModelCallsTools \/ RunTool
    BY <1>4, <1>18 DEF ModelCallsTools, RunTool
  <1>19. CASE AnswerIsCalls \/ CallStarts \/ ToolCancelled
    <2>1. \E next : Save(mem, next)
      BY <1>19 DEF AnswerIsCalls, CallStarts, ToolCancelled, Record
    <2> QED BY <1>1, <1>3, <2>1
  <1>20. CASE \E result \in {"ok", "execution", "duplicate_mutation"} : ToolReturns(result)
    <2>1. PICK result \in {"ok", "execution", "duplicate_mutation"} : ToolReturns(result)
      BY <1>20
    <2>2. w.origin \in {"turn", "approved", "plan"}
      BY <1>2, <2>1 DEF ToolReturns, WorkerOK
    <2>3. \/ \E next : Save(mem, next)
          \/ \E next : SaveCandidate(PlanProgress(mem, w.op.id), next)
      BY <2>1, <2>2 DEF ToolReturns, Record
    <2>4. PlanProgress(mem, w.op.id) \in Sessions
      BY <1>1, SessionsIn
    <2> QED BY <1>1, <1>3, <2>3, <2>4
  <1>21. CASE Settle
    <2> DEFINE t == Feedback(w.turn, w.op.tool, w.out)
               m == [mem EXCEPT !.approval = None, !.turn = t]
    <2>1. \E next : Save(m, next)
      BY <1>21 DEF Settle
    <2>2. w.pc = "settle" /\ w.op \in Call /\ w.out \in {"ok", "execution", "user_denied"}
      BY <1>2, <1>21 DEF Settle, WorkerOK
    <2>3. t \in Turns
      BY <1>2, <2>2, FeedbackIn DEF Workers, Call
    <2>4. m \in Sessions
      BY <1>1, <2>3, SessionsIn
    <2> HIDE DEF m
    <2> QED BY <1>3, <2>1, <2>4
  <1>22. CASE BatchTaken
    <2>1. w.out \in {"Continue", "Stopped", "Planned", "Asks"}
      BY <1>2, <1>22 DEF BatchTaken, WorkerOK
    <2>2. w.ops \in SUBSET Call /\ w.turn \in Turns
      BY <1>2 DEF Workers
    <2>3. CASE w.out \in {"Continue", "Stopped"}
      BY <1>4, <1>22, <2>3 DEF BatchTaken
    <2>4. CASE w.out = "Planned"
      <3>1. Save(PlanStored(mem, w.ops), At("clear"))
        BY <1>22, <2>4 DEF BatchTaken
      <3>2. PlanStored(mem, w.ops) \in Sessions
        BY <1>1, <2>2, SessionsIn
      <3> QED BY <1>3, <3>1, <3>2
    <2>5. CASE w.out = "Asks"
      <3>1. \/ UNCHANGED session
            \/ Save(ApprovalStored(mem, First(w.ops), Rest(w.ops), w.turn), At("reply"))
        BY <1>22, <2>5 DEF BatchTaken
      <3>2. First(w.ops) \in Call /\ Rest(w.ops) \in SUBSET Call
        BY <1>2, <1>22, <2>2, <2>5, FirstCall, RestCalls DEF BatchTaken, WorkerOK
      <3>3. ApprovalStored(mem, First(w.ops), Rest(w.ops), w.turn) \in Sessions
        BY <1>1, <2>2, <3>2, SessionsIn
      <3> QED BY <1>3, <1>4, <3>1, <3>3
    <2> QED BY <2>1, <2>3, <2>4, <2>5
  <1>23. CASE ClearTurn
    BY <1>3, <1>6, <1>23 DEF ClearTurn
  <1>24. CASE PlanNext
    <2>1. PlanBegun(mem) \in Sessions
      BY <1>1, <1>24, SessionsIn DEF PlanNext
    <2>2. \/ \E next : SaveCandidate(PlanBegun(mem), next)
          \/ /\ mem' = PlanBegun(mem) /\ disk' = PlanBegun(mem)
             /\ failures < MaxFailures /\ failures' = failures + 1
      BY <1>24 DEF PlanNext
    <2> QED BY <1>1, <1>3, <2>1, <2>2 DEF Typed
  <1>25. CASE PlanDone
    BY <1>3, <1>6, <1>25 DEF PlanDone
  <1>26. CASE Reply
    BY <1>1, <1>26 DEF Reply, Typed
  <1> QED
    BY <1>7, <1>8, <1>9, <1>10, <1>11, <1>12, <1>13, <1>14, <1>15, <1>16, <1>17, <1>18, <1>19, <1>20, <1>21, <1>22, <1>23, <1>24, <1>25, <1>26 DEF Worker

\* The worker changes nothing of the keyboard, and of the shared variables
\* only what it takes: instructions, the guard of a call, the answer.
LEMMA WorkerFrame ==
  ASSUME TypeInv, Worker
  PROVE  /\ UNCHANGED <<ui, queued, sent, steers, crashes, cancelled>>
         /\ nudged' \in {nudged, FALSE}
         /\ calls' \in calls..MaxCalls
         /\ ~ Reply => resp' = resp
         /\ ~ RunTool => started' = started
         /\ ~ StartApproveCommand => approved' = approved
PROOF
  <1>1. calls \in 0..MaxCalls /\ MaxCalls \in Nat
    BY ToolsAssumption DEF TypeInv, TypeOK
  <1>2. calls \in calls..MaxCalls
    BY <1>1
  <1> USE DEF uiVars, shared, session, history, OnlySession, ButDenied, OnlyPlace
  <1>3. CASE StartText
    BY <1>2, <1>3 DEF StartText
  <1>4. CASE StartToggle
    BY <1>2, <1>4 DEF StartToggle
  <1>5. CASE StartApprovePlan
    BY <1>2, <1>5 DEF StartApprovePlan
  <1>6. CASE StartApproveCommand
    BY <1>2, <1>6 DEF StartApproveCommand
  <1>7. CASE StartRejectPlan
    BY <1>2, <1>7 DEF StartRejectPlan
  <1>8. CASE StartRejectCommand
    BY <1>2, <1>8 DEF StartRejectCommand
  <1>9. CASE StartRefused
    BY <1>2, <1>9 DEF StartRefused
  <1>10. CASE StartRevise
    BY <1>2, <1>10 DEF StartRevise
  <1>11. CASE CallModel
    BY <1>2, <1>11 DEF CallModel
  <1>12. CASE HeadCancelled
    BY <1>2, <1>12 DEF HeadCancelled
  <1>13. CASE ModelResponds
    BY <1>2, <1>13 DEF ModelResponds
  <1>14. CASE ModelCallsTools
    <2>1. PICK d \in Decisions : calls + Len(d) <= MaxCalls /\ calls' = calls + Len(d)
      BY <1>14 DEF ModelCallsTools
    <2>2. Len(d) \in Nat
      BY ToolsAssumption
    <2>3. calls' \in calls..MaxCalls
      BY <1>1, <2>1, <2>2
    <2> QED BY <1>14, <2>3 DEF ModelCallsTools
  <1>15. CASE ModelInterrupted
    BY <1>2, <1>15 DEF ModelInterrupted
  <1>16. CASE AnswerDiscarded
    BY <1>2, <1>16 DEF AnswerDiscarded
  <1>17. CASE AnswerIsText
    BY <1>2, <1>17 DEF AnswerIsText
  <1>18. CASE AnswerIsCalls
    BY <1>2, <1>18 DEF AnswerIsCalls
  <1>19. CASE CallsDone
    BY <1>2, <1>19 DEF CallsDone
  <1>20. CASE CallsCancelled
    BY <1>2, <1>20 DEF CallsCancelled
  <1>21. CASE CallAsks
    BY <1>2, <1>21 DEF CallAsks
  <1>22. CASE CallStarts
    BY <1>2, <1>22 DEF CallStarts
  <1>23. CASE RunTool
    BY <1>2, <1>23 DEF RunTool
  <1>24. CASE ToolCancelled
    BY <1>2, <1>24 DEF ToolCancelled
  <1>25. CASE \E result \in {"ok", "execution", "duplicate_mutation"} : ToolReturns(result)
    BY <1>2, <1>25 DEF ToolReturns
  <1>26. CASE Settle
    BY <1>2, <1>26 DEF Settle
  <1>27. CASE BatchDiscarded
    BY <1>2, <1>27 DEF BatchDiscarded
  <1>28. CASE BatchTaken
    BY <1>2, <1>28 DEF BatchTaken
  <1>29. CASE ClearTurn
    BY <1>2, <1>29 DEF ClearTurn
  <1>30. CASE PlanNext
    BY <1>2, <1>30 DEF PlanNext
  <1>31. CASE PlanRefused
    BY <1>2, <1>31 DEF PlanRefused
  <1>32. CASE PlanDone
    BY <1>2, <1>32 DEF PlanDone
  <1>33. CASE Reply
    BY <1>2, <1>33 DEF Reply
  <1> QED BY <1>3, <1>4, <1>5, <1>6, <1>7, <1>8, <1>9, <1>10, <1>11, <1>12, <1>13, <1>14, <1>15, <1>16, <1>17, <1>18, <1>19, <1>20, <1>21, <1>22, <1>23, <1>24, <1>25, <1>26, <1>27, <1>28, <1>29, <1>30, <1>31, <1>32, <1>33 DEF Worker

\* Instructions are only taken all at once, and then heard.
LEMMA WorkerHears ==
  ASSUME TypeInv, RunOK, Worker
  PROVE  \/ w'.heard <= w.heard /\ steer' = steer
         \/ steer # << >> /\ steer' = << >> /\ w'.heard <= w.heard + 1
PROOF
  <1>1. w \in Workers /\ WorkerOK(w) /\ w.heard \in Nat
    BY DEF TypeInv, WorkerOK, Workers
  <1>2. /\ Fails.heard = w.heard /\ Idle.heard = 0
        /\ \A pc \in {"head", "model", "clear", "reply", "plan", "running"} : At(pc).heard = w.heard
    BY <1>1 DEF Fails, At, Idle, Workers
  <1>3. ASSUME NEW m, NEW next, next.heard = w.heard,
               Save(m, next) \/ SaveTwice(m, next) \/ SaveCandidate(m, next)
        PROVE  w'.heard = w.heard
    BY <1>2, <1>3, SaveCases
  <1>4. ASSUME NEW next, Drain(next), next.heard = w.heard, next \in Workers
        PROVE  steer # << >> /\ steer' = << >> /\ w'.heard <= w.heard + 1
    <2> DEFINE then == [next EXCEPT !.heard = @ + 1]
    <2>1. /\ steer # << >> /\ steer' = << >>
          /\ w' = then \/ w' = Fails
      BY <1>4 DEF Drain, Record, Save
    <2>2. then.heard = w.heard + 1
      BY <1>4 DEF Workers
    <2> HIDE DEF then
    <2> QED BY <1>1, <1>2, <2>1, <2>2
  <1>5. At("head") \in Workers /\ At("model") \in Workers
    BY <1>1 DEF At, Workers, Places
  <1> USE DEF uiVars, shared, session, history, OnlySession, ButDenied, OnlyPlace
  <1>6. CASE StartText
    <2>1. w' = Fails \/ Save(mem, At("head"))
      BY <1>6 DEF StartText, Record
    <2> QED BY <1>1, <1>2, <1>3, <1>6, <2>1 DEF StartText
  <1>7. CASE StartToggle
    BY <1>1, <1>2, <1>3, <1>7 DEF StartToggle
  <1>8. CASE StartApprovePlan
    BY <1>1, <1>2, <1>8 DEF StartApprovePlan
  <1>9. CASE StartApproveCommand
    <2> DEFINE next == [w EXCEPT !.pc = "run", !.op = mem.approval.op, !.origin = "approved",
                                 !.turn = mem.turn]
    <2>1. Save(mem, next) /\ steer' = steer
      BY <1>9 DEF StartApproveCommand, Record
    <2>2. next.heard = w.heard
      BY <1>1 DEF Workers
    <2> HIDE DEF next
    <2> QED BY <1>1, <1>3, <2>1, <2>2
  <1>10. CASE StartRejectPlan
    BY <1>1, <1>2, <1>3, <1>10 DEF StartRejectPlan
  <1>11. CASE StartRejectCommand
    BY <1>1, <1>11 DEF StartRejectCommand, Workers, Processed
  <1>12. CASE StartRefused
    BY <1>1, <1>2, <1>12 DEF StartRefused
  <1>13. CASE StartRevise
    <2>1. PICK m : Save(m, Fails) \/ SaveTwice(m, At("head"))
      BY <1>13 DEF StartRevise
    <2> QED BY <1>1, <1>2, <1>3, <1>13, <2>1 DEF StartRevise
  <1>14. CASE CallModel
    <2>1. Drain(At("model")) \/ (w' = At("model") /\ steer' = steer)
      BY <1>14 DEF CallModel
    <2> QED BY <1>1, <1>2, <1>4, <1>5, <2>1
  <1>15. CASE HeadCancelled
    BY <1>1, <1>2, <1>15 DEF HeadCancelled
  <1>16. CASE ModelResponds
    BY <1>1, <1>16 DEF ModelResponds, Workers, Processed
  <1>17. CASE ModelCallsTools
    BY <1>1, <1>17 DEF ModelCallsTools, Workers, Processed
  <1>18. CASE ModelInterrupted
    <2>1. Drain(At("head")) \/ (w' = Fails /\ steer' = steer)
      BY <1>18 DEF ModelInterrupted
    <2> QED BY <1>1, <1>2, <1>4, <1>5, <2>1
  <1>19. CASE AnswerDiscarded
    <2> DEFINE t == [w.turn EXCEPT !.steps = IF ToolsEnabled THEN @ + 1 ELSE @]
               next == [w EXCEPT !.pc = "head", !.turn = t, !.heard = w.heard + 1]
    <2>1. steer # << >> /\ steer' = << >> /\ Save(mem, next)
      BY <1>1, <1>19 DEF AnswerDiscarded, Drain, Record, Workers
    <2> HIDE DEF t
    <2>2. next.heard = w.heard + 1
      BY <1>1 DEF Workers
    <2> HIDE DEF next
    <2> QED BY <1>1, <1>2, <2>1, <2>2, SaveCases
  <1>20. CASE AnswerIsText
    BY <1>1, <1>2, <1>20 DEF AnswerIsText
  <1>21. CASE AnswerIsCalls
    <2> DEFINE t == [w.turn EXCEPT !.steps = @ + 1]
               p == [w EXCEPT !.turn = t]
    <2>1. w.pc = "answered" /\ Save(mem, Batch(p, w.ops, "turn")) /\ steer' = steer
      BY <1>1, <1>21 DEF AnswerIsCalls, Record, Workers
    <2>2. t \in Turns
      <3>1. w.turn \in Turns /\ w.turn.steps < MaxSteps
        BY <1>1, <1>21 DEF AnswerIsCalls, WorkerOK, Workers
      <3> QED BY <3>1, ToolsAssumption DEF Turns
    <2> HIDE DEF t
    <2>3. p \in Workers /\ p.born = p.heard /\ p.heard = w.heard /\ w.ops \in SUBSET Call
      BY <1>1, <2>1, <2>2 DEF WorkerOK, Workers
    <2> HIDE DEF p
    <2>4. Batch(p, w.ops, "turn").heard = p.heard
      <3>1. /\ p \in Workers /\ p.born = p.heard /\ w.ops \in SUBSET Call
            /\ "turn" \in {"turn", "decision"}
        BY <2>3
      <3> QED BY <3>1, BatchPlace
    <2> QED BY <1>1, <1>3, <2>1, <2>3, <2>4
  <1>22. CASE CallsDone
    BY <1>1, <1>22 DEF CallsDone, Workers, Processed
  <1>23. CASE CallsCancelled
    BY <1>1, <1>2, <1>23 DEF CallsCancelled
  <1>24. CASE CallAsks
    BY <1>1, <1>24 DEF CallAsks, Workers, Processed
  <1>25. CASE CallStarts
    <2> DEFINE next == [w EXCEPT !.pc = "run", !.op = First(w.ops), !.origin = "turn",
                                 !.ops = Rest(@)]
    <2>1. Save(mem, next) /\ steer' = steer
      BY <1>25 DEF CallStarts, Record
    <2>2. next.heard = w.heard
      BY <1>1 DEF Workers
    <2> HIDE DEF next
    <2> QED BY <1>1, <1>3, <2>1, <2>2
  <1>26. CASE RunTool
    BY <1>1, <1>2, <1>26 DEF RunTool
  <1>27. CASE ToolCancelled
    BY <1>1, <1>2, <1>3, <1>27 DEF ToolCancelled, Record
  <1>28. CASE \E result \in {"ok", "execution", "duplicate_mutation"} : ToolReturns(result)
    <2>1. PICK result \in {"ok", "execution", "duplicate_mutation"} : ToolReturns(result)
      BY <1>28
    <2>2. w.origin \in {"turn", "approved", "plan"} /\ steer' = steer
      BY <1>1, <2>1 DEF ToolReturns, WorkerOK
    <2> DEFINE t == Feedback(w.turn, w.op.tool, result)
               after == [w EXCEPT !.pc = "calls", !.turn = t]
               stopped == [after EXCEPT !.pc = "processed", !.out = "Stopped"]
               settle == [w EXCEPT !.pc = "settle", !.out = result]
    <2>3. \E m : \/ Save(m, after) \/ Save(m, stopped) \/ Save(m, settle)
                 \/ SaveCandidate(m, At("plan")) \/ Save(m, Fails)
      BY <1>1, <2>1, <2>2 DEF ToolReturns, Record, Workers
    <2> HIDE DEF t
    <2>4. after.heard = w.heard /\ stopped.heard = w.heard /\ settle.heard = w.heard
      BY <1>1 DEF Workers
    <2> HIDE DEF after, stopped, settle
    <2> QED BY <1>1, <1>2, <1>3, <2>2, <2>3, <2>4
  <1>29. CASE Settle
    <2> DEFINE t == Feedback(w.turn, w.op.tool, w.out)
               p == [w EXCEPT !.turn = t]
               cleared == [p EXCEPT !.pc = "clear"]
    <2>1. w.pc = "settle" /\ mem.approval # None /\ steer' = steer
      BY <1>29 DEF Settle, RunOK
    <2>2. /\ w.op \in Call /\ w.out \in {"ok", "execution", "user_denied"}
          /\ w.born = w.heard /\ mem.approval.rest \in SUBSET Call
      BY <1>1, <2>1, SessionParts DEF TypeInv, TypeOK, WorkerOK
    <2>3. t \in Turns
      BY <1>1, <2>2, FeedbackIn DEF Workers, Call
    <2>4. \E m : \/ Save(m, cleared)
                 \/ Save(m, Batch(p, mem.approval.rest, "decision"))
      BY <1>29 DEF Settle
    <2> HIDE DEF t
    <2>5. /\ p \in Workers /\ p.born = p.heard /\ p.heard = w.heard
          /\ cleared.heard = w.heard
      BY <1>1, <2>2, <2>3 DEF Workers
    <2> HIDE DEF p, cleared
    <2>6. Batch(p, mem.approval.rest, "decision").heard = w.heard
      BY <2>2, <2>5, BatchPlace
    <2> QED BY <1>1, <1>3, <2>1, <2>4, <2>5, <2>6
  <1>30. CASE BatchDiscarded
    BY <1>1, <1>2, <1>4, <1>5, <1>30 DEF BatchDiscarded
  <1>31. CASE BatchTaken
    <2>1. w.out \in {"Continue", "Stopped", "Planned", "Asks"} /\ steer' = steer
      BY <1>1, <1>31 DEF BatchTaken, WorkerOK
    <2>2. \/ w' \in {At("head"), At("clear"), Fails}
          \/ \E m : Save(m, At("clear")) \/ Save(m, At("reply"))
      BY <1>31, <2>1 DEF BatchTaken
    <2> QED BY <1>1, <1>2, <1>3, <2>1, <2>2
  <1>32. CASE ClearTurn
    BY <1>1, <1>2, <1>3, <1>32 DEF ClearTurn
  <1>33. CASE PlanNext
    <2> DEFINE next == [w EXCEPT !.pc = "run", !.op = First(mem.plan.calls), !.origin = "plan"]
    <2>1. (SaveCandidate(PlanBegun(mem), next) \/ w' = Fails) /\ steer' = steer
      BY <1>33 DEF PlanNext
    <2>2. next.heard = w.heard
      BY <1>1 DEF Workers
    <2> HIDE DEF next
    <2> QED BY <1>1, <1>2, <1>3, <2>1, <2>2
  <1>34. CASE PlanRefused
    BY <1>1, <1>2, <1>34 DEF PlanRefused
  <1>35. CASE PlanDone
    BY <1>1, <1>2, <1>3, <1>35 DEF PlanDone
  <1>36. CASE Reply
    BY <1>1, <1>2, <1>36 DEF Reply
  <1> QED BY <1>6, <1>7, <1>8, <1>9, <1>10, <1>11, <1>12, <1>13, <1>14, <1>15, <1>16, <1>17, <1>18, <1>19, <1>20, <1>21, <1>22, <1>23, <1>24, <1>25, <1>26, <1>27, <1>28, <1>29, <1>30, <1>31, <1>32, <1>33, <1>34, <1>35, <1>36 DEF Worker

\* Only calls that a session waits for, or the command that is decided, are
\* ever denied.
LEMMA WorkerDenies ==
  ASSUME TypeInv, RunOK, Worker
  PROVE  /\ denied' \subseteq 1..MaxCalls
         /\ ~ (StartToggle \/ StartRejectPlan \/ StartRevise \/ Settle) => denied' = denied
PROOF
  <1>1. denied \subseteq 1..MaxCalls /\ mem \in Sessions
    BY DEF TypeInv, TypeOK
  <1>2. \A S \in SUBSET Call : Ids(S) \subseteq 1..MaxCalls
    BY DEF Ids, Call
  <1>3. /\ mem.plan.calls \in SUBSET Call
        /\ mem.approval # None => mem.approval.op \in Call /\ mem.approval.rest \in SUBSET Call
    BY <1>1, SessionParts
  <1>4. ASSUME NEW ids, NEW m, Deny(ids, m), ids \subseteq 1..MaxCalls
        PROVE  denied' \subseteq 1..MaxCalls
    BY <1>1, <1>4 DEF Deny
  <1> USE DEF history, OnlySession, ButDenied, OnlyPlace
  <1>5. CASE StartText
    BY <1>1, <1>5 DEF StartText
  <1>6. CASE StartToggle
    <2>1. \E m : Deny(Ids(mem.plan.calls), m) \/ Deny({}, m)
      BY <1>6 DEF StartToggle
    <2>2. Ids(mem.plan.calls) \subseteq 1..MaxCalls
      BY <1>2, <1>3
    <2> QED BY <1>4, <1>6, <2>1, <2>2
  <1>7. CASE StartApprovePlan
    BY <1>1, <1>7 DEF StartApprovePlan
  <1>8. CASE StartApproveCommand
    BY <1>1, <1>8 DEF StartApproveCommand
  <1>9. CASE StartRejectPlan
    <2>1. \E m : Deny(Ids(mem.plan.calls), m) \/ Deny({}, m)
      BY <1>9 DEF StartRejectPlan
    <2>2. Ids(mem.plan.calls) \subseteq 1..MaxCalls
      BY <1>2, <1>3
    <2> QED BY <1>4, <1>9, <2>1, <2>2
  <1>10. CASE StartRejectCommand
    BY <1>1, <1>10 DEF StartRejectCommand
  <1>11. CASE StartRefused
    BY <1>1, <1>11 DEF StartRefused
  <1>12. CASE StartRevise
    <2> DEFINE dropped == IF mem.plan.open THEN Ids(mem.plan.calls)
                          ELSE {mem.approval.op.id} \cup Ids(mem.approval.rest)
    <2>1. \E m : Deny(dropped, m)
      BY <1>12 DEF StartRevise
    <2>2. mem.plan.open \/ mem.approval # None
      BY <1>12 DEF StartRevise, Pending
    <2>3. dropped \subseteq 1..MaxCalls
      BY <1>2, <1>3, <2>2 DEF Call
    <2> HIDE DEF dropped
    <2> QED BY <1>4, <1>12, <2>1, <2>3
  <1>13. CASE CallModel
    BY <1>1, <1>13 DEF CallModel
  <1>14. CASE HeadCancelled
    BY <1>1, <1>14 DEF HeadCancelled
  <1>15. CASE ModelResponds
    BY <1>1, <1>15 DEF ModelResponds
  <1>16. CASE ModelCallsTools
    BY <1>1, <1>16 DEF ModelCallsTools
  <1>17. CASE ModelInterrupted
    BY <1>1, <1>17 DEF ModelInterrupted
  <1>18. CASE AnswerDiscarded
    BY <1>1, <1>18 DEF AnswerDiscarded
  <1>19. CASE AnswerIsText
    BY <1>1, <1>19 DEF AnswerIsText
  <1>20. CASE AnswerIsCalls
    BY <1>1, <1>20 DEF AnswerIsCalls
  <1>21. CASE CallsDone
    BY <1>1, <1>21 DEF CallsDone
  <1>22. CASE CallsCancelled
    BY <1>1, <1>22 DEF CallsCancelled
  <1>23. CASE CallAsks
    BY <1>1, <1>23 DEF CallAsks
  <1>24. CASE CallStarts
    BY <1>1, <1>24 DEF CallStarts
  <1>25. CASE RunTool
    BY <1>1, <1>25 DEF RunTool
  <1>26. CASE ToolCancelled
    BY <1>1, <1>26 DEF ToolCancelled
  <1>27. CASE \E result \in {"ok", "execution", "duplicate_mutation"} : ToolReturns(result)
    BY <1>1, <1>27 DEF ToolReturns
  <1>28. CASE Settle
    <2>1. \E m : Deny({w.op.id}, m) \/ Deny({}, m)
      BY <1>28 DEF Settle
    <2>2. w.op.id \in 1..MaxCalls
      BY <1>28 DEF Settle, TypeInv, WorkerOK, Call
    <2>3. {w.op.id} \subseteq 1..MaxCalls
      BY <2>2
    <2> QED BY <1>4, <1>28, <2>1, <2>3
  <1>29. CASE BatchDiscarded
    BY <1>1, <1>29 DEF BatchDiscarded
  <1>30. CASE BatchTaken
    BY <1>1, <1>30 DEF BatchTaken
  <1>31. CASE ClearTurn
    BY <1>1, <1>31 DEF ClearTurn
  <1>32. CASE PlanNext
    BY <1>1, <1>32 DEF PlanNext
  <1>33. CASE PlanRefused
    BY <1>1, <1>33 DEF PlanRefused
  <1>34. CASE PlanDone
    BY <1>1, <1>34 DEF PlanDone
  <1>35. CASE Reply
    BY <1>1, <1>35 DEF Reply
  <1> QED BY <1>5, <1>6, <1>7, <1>8, <1>9, <1>10, <1>11, <1>12, <1>13, <1>14, <1>15, <1>16, <1>17, <1>18, <1>19, <1>20, <1>21, <1>22, <1>23, <1>24, <1>25, <1>26, <1>27, <1>28, <1>29, <1>30, <1>31, <1>32, <1>33, <1>34, <1>35 DEF Worker

\* What a worker in order and the counters say of its types.
LEMMA WorkerTyped ==
  ASSUME NEW p, WorkerOK(p), NEW n \in 0..MaxSteer, p.heard <= n
  PROVE  /\ p.pc \in Places /\ p.turn \in Turns /\ p.ops \subseteq Call /\ p.op \in {None} \cup Call
         /\ p.heard \in 0..MaxSteer /\ p.born \in 0..MaxSteer
PROOF
  <1>1. MaxSteer \in Nat
    BY BoundsAssumption
  <1>2. p.heard \in Nat /\ p.born \in Nat /\ p.born <= p.heard
    BY DEF WorkerOK, Workers
  <1>3. p.heard \in 0..MaxSteer /\ p.born \in 0..MaxSteer
    BY <1>1, <1>2
  <1> QED BY <1>3 DEF WorkerOK, Workers

\* A step of the worker keeps the types.
LEMMA WorkerTypes ==
  ASSUME TypeInv, RunOK, Worker
  PROVE  TypeInv'
PROOF
  <1>1. WorkerOK(w') /\ mem' \in Sessions /\ disk' \in Sessions /\ failures' \in 0..MaxFailures
    BY WorkerPlace, SessionTypes
  <1>2. /\ UNCHANGED <<ui, queued, sent, steers, crashes, cancelled>>
        /\ nudged' \in {nudged, FALSE} /\ calls' \in calls..MaxCalls
        /\ ~ Reply => resp' = resp
        /\ ~ RunTool => started' = started
        /\ ~ StartApproveCommand => approved' = approved
    BY WorkerFrame
  <1>3. \/ w'.heard <= w.heard /\ steer' = steer
        \/ steer # << >> /\ steer' = << >> /\ w'.heard <= w.heard + 1
    BY WorkerHears
  <1>4. denied' \subseteq 1..MaxCalls
    BY WorkerDenies
  <1>5. /\ w.heard \in Nat /\ w'.heard \in Nat /\ steer \in Seq(1..MaxRequests)
        /\ steers \in Nat /\ w.heard + Len(steer) <= steers
    BY <1>1 DEF TypeInv, TypeOK, WorkerOK, Workers, Counted
  <1>6. Counted' /\ w'.heard <= steers'
    <2>1. w'.heard + Len(steer') <= steers
      <3>1. CASE w'.heard <= w.heard /\ steer' = steer
        BY <1>5, <3>1
      <3>2. CASE steer # << >> /\ steer' = << >> /\ w'.heard <= w.heard + 1
        <4>1. Len(steer) \in Nat /\ Len(steer) # 0 /\ Len(steer') = 0
          BY <1>5, <3>2, EmptySeq
        <4> QED BY <1>5, <3>2, <4>1
      <3> QED BY <1>3, <3>1, <3>2
    <2>2. steer' \in Seq(1..MaxRequests)
      BY <1>3, <1>5, EmptySeq
    <2>3. Len(steer') \in Nat
      BY <2>2
    <2> QED BY <1>2, <1>5, <2>1, <2>3 DEF Counted, TypeInv
  <1>7. steer' \in Seq(1..MaxRequests)
    BY <1>3, <1>5, EmptySeq
  <1>8. resp' \in {None, "Message", "Approval", "Toggled", "Error"}
    <2>1. CASE Reply
      BY <2>1 DEF Reply
    <2> QED BY <1>2, <2>1 DEF TypeInv, TypeOK
  <1>9. started' \in [1..MaxCalls -> Nat]
    <2>1. CASE RunTool
      <3>1. w.op.id \in 1..MaxCalls /\ started \in [1..MaxCalls -> Nat]
        BY <2>1 DEF RunTool, TypeInv, TypeOK, WorkerOK, Call
      <3>2. started' = [started EXCEPT ![w.op.id] = @ + 1]
        BY <2>1 DEF RunTool
      <3> QED BY <3>1, <3>2
    <2> QED BY <1>2, <2>1 DEF TypeInv, TypeOK
  <1>10. approved' \subseteq 1..MaxCalls
    <2>1. CASE StartApproveCommand
      <3>1. mem.approval.op \in Call
        BY <2>1, SessionParts DEF StartApproveCommand, TypeInv, TypeOK
      <3> QED BY <2>1, <3>1 DEF StartApproveCommand, TypeInv, TypeOK, Call
    <2> QED BY <1>2, <2>1 DEF TypeInv, TypeOK
  <1>11. calls' \in 0..MaxCalls
    BY <1>2, ToolsAssumption DEF TypeInv, TypeOK
  <1>12. steers' \in 0..MaxSteer
    BY <1>2 DEF TypeInv, TypeOK
  <1>13. /\ w'.pc \in Places /\ w'.turn \in Turns /\ w'.ops \subseteq Call
         /\ w'.op \in {None} \cup Call /\ w'.heard \in 0..MaxSteer /\ w'.born \in 0..MaxSteer
    BY <1>1, <1>6, <1>12, WorkerTyped
  <1>14. /\ ui' \in [busy : BOOLEAN, mode : {"Editing", "Awaiting", "Revising"}, prompt : BOOLEAN]
         /\ queued' \in 0..MaxQueue /\ {nudged', cancelled'} \subseteq BOOLEAN
         /\ sent' \in 0..MaxRequests /\ crashes' \in 0..MaxCrashes
    BY <1>2 DEF TypeInv, TypeOK
  <1>15. TypeOK'
    BY <1>1, <1>4, <1>7, <1>8, <1>9, <1>10, <1>11, <1>12, <1>13, <1>14 DEF TypeOK
  <1> QED BY <1>1, <1>6, <1>15 DEF TypeInv

-----------------------------------------------------------------------------
(* The threads *)

\* The idle worker takes no step.
LEMMA WorkerBusy ==
  ASSUME Worker
  PROVE  w.pc # "idle"
PROOF
  <1>1. CASE StartText
    BY <1>1 DEF StartText, Starts
  <1>2. CASE StartToggle
    BY <1>2 DEF StartToggle, Starts
  <1>3. CASE StartApprovePlan
    BY <1>3 DEF StartApprovePlan, Starts
  <1>4. CASE StartApproveCommand
    BY <1>4 DEF StartApproveCommand, Starts
  <1>5. CASE StartRejectPlan
    BY <1>5 DEF StartRejectPlan, Starts
  <1>6. CASE StartRejectCommand
    BY <1>6 DEF StartRejectCommand, Starts
  <1>7. CASE StartRefused
    BY <1>7 DEF StartRefused, Starts
  <1>8. CASE StartRevise
    BY <1>8 DEF StartRevise, Starts
  <1>9. CASE CallModel
    BY <1>9 DEF CallModel
  <1>10. CASE HeadCancelled
    BY <1>10 DEF HeadCancelled
  <1>11. CASE ModelResponds
    BY <1>11 DEF ModelResponds
  <1>12. CASE ModelCallsTools
    BY <1>12 DEF ModelCallsTools
  <1>13. CASE ModelInterrupted
    BY <1>13 DEF ModelInterrupted
  <1>14. CASE AnswerDiscarded
    BY <1>14 DEF AnswerDiscarded
  <1>15. CASE AnswerIsText
    BY <1>15 DEF AnswerIsText
  <1>16. CASE AnswerIsCalls
    BY <1>16 DEF AnswerIsCalls
  <1>17. CASE CallsDone
    BY <1>17 DEF CallsDone
  <1>18. CASE CallsCancelled
    BY <1>18 DEF CallsCancelled
  <1>19. CASE CallAsks
    BY <1>19 DEF CallAsks
  <1>20. CASE CallStarts
    BY <1>20 DEF CallStarts
  <1>21. CASE RunTool
    BY <1>21 DEF RunTool
  <1>22. CASE ToolCancelled
    BY <1>22 DEF ToolCancelled
  <1>23. CASE \E result \in {"ok", "execution", "duplicate_mutation"} : ToolReturns(result)
    BY <1>23 DEF ToolReturns
  <1>24. CASE Settle
    BY <1>24 DEF Settle
  <1>25. CASE BatchDiscarded
    BY <1>25 DEF BatchDiscarded
  <1>26. CASE BatchTaken
    BY <1>26 DEF BatchTaken
  <1>27. CASE ClearTurn
    BY <1>27 DEF ClearTurn
  <1>28. CASE PlanNext
    BY <1>28 DEF PlanNext
  <1>29. CASE PlanRefused
    BY <1>29 DEF PlanRefused
  <1>30. CASE PlanDone
    BY <1>30 DEF PlanDone
  <1>31. CASE Reply
    BY <1>31 DEF Reply
  <1> QED BY <1>1, <1>2, <1>3, <1>4, <1>5, <1>6, <1>7, <1>8, <1>9, <1>10, <1>11, <1>12, <1>13, <1>14, <1>15, <1>16, <1>17, <1>18, <1>19, <1>20, <1>21, <1>22, <1>23, <1>24, <1>25, <1>26, <1>27, <1>28, <1>29, <1>30, <1>31 DEF Worker

\* The keys, the answer and a restart keep the types.
LEMMA KeyTypes ==
  ASSUME TypeInv, Threads, Keys \/ Receive \/ Crash
  PROVE  TypeInv'
PROOF
  <1> USE DEF uiVars, shared, session, history
  <1>1. WorkerOK(w) /\ WorkerOK(Idle) /\ TypeOK /\ Counted
    BY FailsIdle DEF TypeInv
  <1>2. \A kind \in {"Text", "Toggle", "Approve", "Reject", "Revise"} :
          /\ WorkerOK([Idle EXCEPT !.pc = "start", !.kind = kind])
          /\ [Idle EXCEPT !.pc = "start", !.kind = kind].heard = 0
    <2>1. Idle \in Workers /\ Idle.born = 0 /\ Idle.heard = 0
      BY <1>1 DEF WorkerOK, Idle
    <2> TAKE kind \in {"Text", "Toggle", "Approve", "Reject", "Revise"}
    <2> DEFINE p == [Idle EXCEPT !.pc = "start", !.kind = kind]
    <2>2. p \in Workers
      BY <2>1 DEF Workers, Places
    <2>3. p.pc = "start" /\ p.born = 0 /\ p.heard = 0
      BY <2>1 DEF Workers
    <2> HIDE DEF p
    <2>4. WorkerOK(p)
      BY <2>2, <2>3 DEF WorkerOK
    <2> QED BY <2>3, <2>4 DEF p
  <1>3. /\ MaxRequests \in Nat /\ MaxQueue \in Nat /\ MaxSteer \in Nat /\ MaxCrashes \in Nat
        /\ steer \in Seq(1..MaxRequests) /\ Len(steer) \in Nat
        /\ steers \in 0..MaxSteer /\ queued \in 0..MaxQueue /\ sent \in 0..MaxRequests
        /\ crashes \in 0..MaxCrashes
        /\ w.heard \in Nat /\ w.heard + Len(steer) <= steers /\ sent + queued <= MaxRequests
        /\ ui.busy => 1 <= sent
        /\ ui \in [busy : BOOLEAN, mode : {"Editing", "Awaiting", "Revising"}, prompt : BOOLEAN]
        /\ cancelled \in BOOLEAN /\ nudged \in BOOLEAN
        /\ resp \in {None, "Message", "Approval", "Toggled", "Error"}
    BY <1>1, BoundsAssumption DEF TypeOK, Counted, WorkerOK, Workers
  <1>4. SUFFICES /\ WorkerOK(w') /\ w'.heard + Len(steer') <= steers'
                 /\ sent' + queued' <= MaxRequests /\ (ui'.busy => 1 <= sent')
                 /\ w'.heard <= steers'
                 /\ ui' \in [busy : BOOLEAN, mode : {"Editing", "Awaiting", "Revising"},
                             prompt : BOOLEAN]
                 /\ queued' \in 0..MaxQueue /\ steer' \in Seq(1..MaxRequests)
                 /\ nudged' \in BOOLEAN /\ cancelled' \in BOOLEAN
                 /\ resp' \in {None, "Message", "Approval", "Toggled", "Error"}
                 /\ sent' \in 0..MaxRequests /\ steers' \in 0..MaxSteer
                 /\ crashes' \in 0..MaxCrashes
                 /\ mem' \in {mem, disk}
                 /\ UNCHANGED <<disk, failures, started, approved, denied, calls>>
    <2>1. /\ w'.pc \in Places /\ w'.turn \in Turns /\ w'.ops \subseteq Call
          /\ w'.op \in {None} \cup Call /\ w'.heard \in 0..MaxSteer /\ w'.born \in 0..MaxSteer
      BY <1>4, WorkerTyped
    <2>2. TypeOK'
      BY <1>1, <1>4, <2>1 DEF TypeOK
    <2> QED BY <1>4, <2>2 DEF TypeInv, Counted
  <1>5. CASE \E kind \in {"Text", "Toggle", "Approve", "Reject", "Revise"} : Submit(kind)
    <2>1. PICK kind \in {"Text", "Toggle", "Approve", "Reject", "Revise"} : Submit(kind)
      BY <1>5
    <2>2. /\ w' = [Idle EXCEPT !.pc = "start", !.kind = kind] /\ sent' = sent + 1
          /\ cancelled' = FALSE /\ sent + queued < MaxRequests
          /\ ui' = [ui EXCEPT !.busy = TRUE, !.mode = "Editing"]
          /\ UNCHANGED <<queued, steer, nudged, resp, session, history, calls, steers, crashes>>
      BY <2>1 DEF Submit, Send
    <2>3. WorkerOK(w') /\ w'.heard = 0
      BY <1>2, <2>2
    <2>4. sent' + queued' <= MaxRequests /\ 1 <= sent' /\ sent' \in 0..MaxRequests
      BY <1>3, <2>2, SMTT(30)
    <2>5. w'.heard + Len(steer') <= steers' /\ w'.heard <= steers'
      BY <1>3, <2>2, <2>3, SMTT(30)
    <2> QED BY <1>3, <2>2, <2>3, <2>4, <2>5
  <1>6. CASE ChooseRevise
    BY <1>1, <1>3, <1>6, SMTT(30) DEF ChooseRevise
  <1>7. CASE Enqueue
    <2>1. queued' \in 0..MaxQueue /\ sent' + queued' <= MaxRequests
      BY <1>3, <1>7 DEF Enqueue
    <2> QED BY <1>1, <1>3, <1>7, <2>1 DEF Enqueue
  <1>8. CASE Steer
    <2>1. /\ ui.busy /\ steers < MaxSteer /\ steers' = steers + 1 /\ nudged' = TRUE
          /\ steer' = Append(steer, sent)
          /\ UNCHANGED <<ui, queued, cancelled, resp, w, session, history, sent, calls, crashes>>
      BY <1>8 DEF Steer
    <2>2. sent \in 1..MaxRequests
      BY <1>3, <2>1
    <2>3. steer' \in Seq(1..MaxRequests) /\ Len(steer') = Len(steer) + 1
      BY <1>3, <2>1, <2>2, AppendProperties
    <2>4. w'.heard + Len(steer') <= steers' /\ w'.heard <= steers' /\ steers' \in 0..MaxSteer
      BY <1>3, <2>1, <2>3
    <2> QED BY <1>1, <1>3, <2>1, <2>3, <2>4
  <1>9. CASE Cancel
    BY <1>1, <1>3, <1>9 DEF Cancel
  <1>10. CASE Receive
    <2> DEFINE prompt == CASE resp = "Message"  -> FALSE
                           [] resp = "Approval" -> TRUE
                           [] OTHER             -> ui.prompt
               mode   == IF resp = "Approval" THEN "Awaiting" ELSE "Editing"
               next   == mode = "Editing" /\ ~prompt /\ queued > 0
    <2>1. /\ resp # None /\ resp' = None /\ ui' = [busy |-> next, mode |-> mode, prompt |-> prompt]
          /\ IF next THEN Send("Text") /\ queued' = queued - 1
             ELSE UNCHANGED <<w, sent, cancelled, queued>>
          /\ UNCHANGED <<steer, nudged, session, history, calls, steers, crashes>>
      BY <1>10 DEF Receive
    <2>2. prompt \in BOOLEAN /\ mode \in {"Editing", "Awaiting", "Revising"}
      BY <1>3
    <2>3. next \in BOOLEAN /\ (next => queued > 0)
      BY <2>2
    <2>4. ui.busy
      BY <2>1 DEF Threads
    <2> HIDE DEF prompt, mode, next
    <2>5. ui' \in [busy : BOOLEAN, mode : {"Editing", "Awaiting", "Revising"}, prompt : BOOLEAN]
      BY <2>1, <2>2, <2>3
    <2>6. CASE next
      <3>1. /\ w' = [Idle EXCEPT !.pc = "start", !.kind = "Text"] /\ sent' = sent + 1
            /\ cancelled' = FALSE /\ queued' = queued - 1
        BY <2>1, <2>6 DEF Send
      <3>2. WorkerOK(w') /\ w'.heard = 0
        BY <1>2, <3>1
      <3>3. /\ sent' + queued' <= MaxRequests /\ 1 <= sent' /\ sent' \in 0..MaxRequests
            /\ queued' \in 0..MaxQueue
        <4>1. /\ queued \in Nat /\ sent \in Nat /\ queued > 0 /\ queued <= MaxQueue
              /\ sent + queued <= MaxRequests
          BY <1>3, <2>3, <2>6
        <4>2. queued' = queued - 1 /\ sent' = sent + 1
          BY <3>1
        <4> QED BY <1>3, <4>1, <4>2
      <3>4. w'.heard + Len(steer') <= steers' /\ w'.heard <= steers'
        BY <1>3, <2>1, <3>2
      <3> QED BY <1>3, <2>1, <2>5, <3>1, <3>2, <3>3, <3>4
    <2>7. CASE ~ next
      BY <1>1, <1>3, <2>1, <2>4, <2>5, <2>7
    <2> QED BY <2>6, <2>7
  <1>11. CASE Crash
    <2>1. /\ crashes < MaxCrashes /\ crashes' = crashes + 1 /\ mem' = disk /\ w' = Idle
          /\ resp' = None /\ queued' = 0 /\ steer' = << >> /\ nudged' = FALSE /\ cancelled' = FALSE
          /\ ui' = [busy |-> FALSE, prompt |-> Pending(disk),
                    mode |-> IF Pending(disk) THEN "Awaiting" ELSE "Editing"]
          /\ UNCHANGED <<disk, failures, history, sent, calls, steers>>
      BY <1>11 DEF Crash
    <2>2. Pending(disk) \in BOOLEAN
      BY <1>1 DEF Pending, TypeOK, Sessions
    <2> DEFINE b == Pending(disk)
               mode == IF b THEN "Awaiting" ELSE "Editing"
    <2>3. mode \in {"Editing", "Awaiting", "Revising"}
      OBVIOUS
    <2> HIDE DEF b, mode
    <2>4. ui' = [busy |-> FALSE, prompt |-> b, mode |-> mode] /\ b \in BOOLEAN
      BY <2>1, <2>2 DEF b, mode
    <2>5. /\ ~ ui'.busy
          /\ ui' \in [busy : BOOLEAN, mode : {"Editing", "Awaiting", "Revising"}, prompt : BOOLEAN]
      BY <2>3, <2>4
    <2>6. Idle.heard = 0 /\ Len(steer') = 0 /\ steer' \in Seq(1..MaxRequests)
      BY <2>1, EmptySeq DEF Idle
    <2>7. w'.heard + Len(steer') <= steers' /\ w'.heard <= steers'
      BY <1>3, <2>1, <2>6
    <2>8. crashes' \in 0..MaxCrashes /\ queued' \in 0..MaxQueue /\ sent' + queued' <= MaxRequests
      BY <1>3, <2>1
    <2> QED BY <1>1, <1>3, <2>1, <2>5, <2>6, <2>7, <2>8
  <1> QED BY <1>5, <1>6, <1>7, <1>8, <1>9, <1>10, <1>11 DEF Keys

\* Every step keeps the threads in agreement.
LEMMA ThreadsStep ==
  ASSUME TypeInv, Threads, Next
  PROVE  Threads'
PROOF
  <1> USE DEF uiVars, shared, session, history
  <1>1. /\ w.pc # "idle" => ui.busy /\ resp = None
        /\ resp # None => ui.busy
        /\ resp # None /\ resp = "Approval" => Pending(mem)
        /\ ~ ui.busy /\ ui.mode \in {"Awaiting", "Revising"} => Pending(mem)
    BY DEF Threads, AwaitingIsPending
  <1>2. ui \in [busy : BOOLEAN, mode : {"Editing", "Awaiting", "Revising"}, prompt : BOOLEAN]
    BY DEF TypeInv, TypeOK
  <1>3. Idle.pc = "idle" /\ \A k : [Idle EXCEPT !.pc = "start", !.kind = k].pc = "start"
    BY DEF Idle
  <1>4. SUFFICES /\ w'.pc # "idle" => ui'.busy /\ resp' = None
                 /\ resp' # None => ui'.busy
                 /\ resp' # None /\ resp' = "Approval" => Pending(mem')
                 /\ ~ ui'.busy /\ ui'.mode \in {"Awaiting", "Revising"} => Pending(mem')
    BY <1>4 DEF Threads, AwaitingIsPending, Pending
  <1>5. CASE Worker
    <2>1. ui' = ui /\ ui.busy /\ resp = None
      BY <1>1, <1>5, WorkerFrame, WorkerBusy
    <2>2. CASE Reply
      <3>1. w' = Idle /\ mem' = mem
        BY <2>2 DEF Reply
      <3>2. resp' = "Approval" => Pending(mem)
        BY <2>2 DEF Reply
      <3> QED BY <1>3, <2>1, <3>1, <3>2
    <2>3. CASE ~ Reply
      <3>1. resp' = None
        BY <1>5, <2>1, <2>3, WorkerFrame
      <3> QED BY <2>1, <3>1
    <2> QED BY <2>2, <2>3
  <1>6. CASE \E kind \in {"Text", "Toggle", "Approve", "Reject", "Revise"} : Submit(kind)
    <2>1. ~ ui.busy /\ ui'.busy /\ resp' = resp
      BY <1>2, <1>6 DEF Submit
    <2> QED BY <1>1, <2>1
  <1>7. CASE ChooseRevise
    <2>1. /\ ~ ui.busy /\ ui.mode = "Awaiting" /\ ui'.busy = ui.busy
          /\ w' = w /\ resp' = resp /\ mem' = mem
      BY <1>2, <1>7 DEF ChooseRevise
    <2> QED BY <1>1, <2>1
  <1>8. CASE Enqueue
    BY <1>1, <1>8 DEF Enqueue
  <1>9. CASE Steer
    BY <1>1, <1>9 DEF Steer
  <1>10. CASE Cancel
    BY <1>1, <1>10 DEF Cancel
  <1>11. CASE Receive
    <2> DEFINE prompt == CASE resp = "Message"  -> FALSE
                           [] resp = "Approval" -> TRUE
                           [] OTHER             -> ui.prompt
               mode   == IF resp = "Approval" THEN "Awaiting" ELSE "Editing"
               next   == mode = "Editing" /\ ~prompt /\ queued > 0
    <2>1. /\ resp # None /\ resp' = None /\ ui' = [busy |-> next, mode |-> mode, prompt |-> prompt]
          /\ IF next THEN Send("Text") ELSE w' = w
          /\ mem' = mem
      BY <1>11 DEF Receive
    <2>2. mode \in {"Awaiting", "Revising"} => Pending(mem)
      BY <1>1, <2>1
    <2>3. w.pc = "idle"
      BY <1>1, <2>1
    <2> HIDE DEF prompt, mode, next
    <2>4. w'.pc # "idle" => next
      BY <2>1, <2>3
    <2> QED BY <2>1, <2>2, <2>4
  <1>12. CASE Crash
    <2>1. /\ mem' = disk /\ w' = Idle /\ resp' = None
          /\ ui'.mode = IF Pending(disk) THEN "Awaiting" ELSE "Editing"
      BY <1>12 DEF Crash
    <2> QED BY <1>3, <2>1
  <1> QED BY <1>5, <1>6, <1>7, <1>8, <1>9, <1>10, <1>11, <1>12 DEF Next, Keys

-----------------------------------------------------------------------------
(* Sessions whose calls wait *)

\* The calls that wait in a session are calls.
LEMMA WaitingCalls ==
  ASSUME NEW s \in Sessions
  PROVE  Asked(s) \in SUBSET Call /\ Waiting(s) \in SUBSET Call
PROOF
  <1>1. /\ s.plan.calls \in SUBSET Call
        /\ s.approval # None => s.approval.op \in Call /\ s.approval.rest \in SUBSET Call
    BY SessionParts
  <1> QED BY <1>1 DEF Asked, Waiting

\* A session stays in order while others are approved and more are asked for.
LEMMA StaysOK ==
  ASSUME NEW s \in Sessions, NEW t, t.plan = s.plan, t.approval = s.approval,
         NEW count, NEW yes, NEW more, yes \subseteq more, NEW no,
         NEW n \in Nat, NEW m \in Nat, n <= m, SessionOK(s, count, yes, no, n)
  PROVE  SessionOK(t, count, more, no, m)
PROOF
  <1>1. Waiting(s) \in SUBSET Call /\ Asked(t) = Asked(s) /\ Waiting(t) = Waiting(s)
    BY WaitingCalls DEF Asked, Waiting
  <1>2. \A c \in Waiting(s) : c.id \in Nat
    BY <1>1, ToolsAssumption DEF Call
  <1>3. Open(Waiting(t), m, no)
    BY <1>1, <1>2 DEF SessionOK, Open
  <1> QED BY <1>1, <1>3 DEF SessionOK

\* A session stays in order when its plan goes, and some of its calls are denied.
LEMMA PlanGoneOK ==
  ASSUME NEW s \in Sessions, NEW t, t.plan = NoPlan, t.approval = s.approval,
         NEW count, NEW yes, NEW no, NEW n, NEW ids, ids \subseteq Ids(s.plan.calls),
         SessionOK(s, count, yes, no, n)
  PROVE  SessionOK(t, count, yes, no \cup ids, n)
PROOF
  <1>1. Asked(t) = Asked(s) /\ Waiting(t) = Asked(s) /\ Asked(s) \subseteq Waiting(s)
    BY DEF Asked, Waiting, NoPlan
  <1>2. \A c \in Asked(s) : c.id \notin ids
    BY DEF SessionOK, Apart, Ids
  <1>3. Open(Waiting(t), n, no \cup ids)
    BY <1>1, <1>2 DEF SessionOK, Open
  <1>4. Distinct(t.plan.calls) /\ Apart(t.plan.calls, Asked(t)) /\ t.plan.inFlight = 0
        /\ t.plan.calls = {}
    BY DEF NoPlan, Distinct, Apart
  <1> QED BY <1>3, <1>4 DEF SessionOK

\* It stays in order when its approval goes, and some of those calls are denied.
LEMMA ApprovalGoneOK ==
  ASSUME NEW s \in Sessions, NEW t, t.plan = s.plan, t.approval = None,
         NEW count, NEW yes, NEW no, NEW n, NEW ids, ids \subseteq Ids(Asked(s)),
         SessionOK(s, count, yes, no, n)
  PROVE  SessionOK(t, count, yes, no \cup ids, n)
PROOF
  <1>1. Asked(t) = {} /\ Waiting(t) = s.plan.calls /\ s.plan.calls \subseteq Waiting(s)
    BY DEF Asked, Waiting
  <1>2. \A c \in s.plan.calls : c.id \notin ids
    BY DEF SessionOK, Apart, Ids
  <1>3. Open(Waiting(t), n, no \cup ids)
    BY <1>1, <1>2 DEF SessionOK, Open
  <1>4. Apart(t.plan.calls, Asked(t))
    BY <1>1 DEF Apart
  <1> QED BY <1>1, <1>3, <1>4 DEF SessionOK

\* A call of the plan is marked before any of the plan has started.
LEMMA BegunOK ==
  ASSUME NEW s \in Sessions, s.plan.calls # {}, s.plan.inFlight = 0,
         NEW count \in [1..MaxCalls -> Nat], NEW yes, NEW no, NEW n,
         SessionOK(s, count, yes, no, n)
  PROVE  /\ SessionOK(PlanBegun(s), count, yes, no, n)
         /\ Waiting(PlanBegun(s)) = Waiting(s)
         /\ \A c \in s.plan.calls : count[c.id] = 0
         /\ PlanBegun(s).plan.calls = s.plan.calls
         /\ PlanBegun(s).plan.inFlight = First(s.plan.calls).id
         /\ PlanBegun(s).approval = s.approval /\ PlanBegun(s).mode = s.mode
PROOF
  <1> DEFINE t == PlanBegun(s)
  <1>1. /\ t.plan.calls = s.plan.calls /\ t.approval = s.approval
        /\ t.plan.inFlight = First(s.plan.calls).id /\ t.mode = s.mode
    BY DEF PlanBegun, Sessions
  <1> HIDE DEF t
  <1>2. Asked(t) = Asked(s) /\ Waiting(t) = Waiting(s)
    BY <1>1 DEF Asked, Waiting
  <1>3. ASSUME NEW c \in s.plan.calls PROVE count[c.id] = 0
    <2>1. c.id \in 1..MaxCalls
      BY SessionParts DEF Call
    <2>2. ~ (count[c.id] > 0)
      BY <2>1 DEF SessionOK
    <2> QED BY <2>1, <2>2
  <1>4. SessionOK(t, count, yes, no, n)
    BY <1>1, <1>2, <1>3 DEF SessionOK
  <1> QED BY <1>1, <1>2, <1>3, <1>4 DEF t

\* The call in flight leaves the plan, and no other of it has started.
LEMMA ProgressOK ==
  ASSUME NEW s \in Sessions, s.plan.calls # {}, s.plan.inFlight = First(s.plan.calls).id,
         NEW count \in [1..MaxCalls -> Nat], NEW yes, NEW no, NEW n,
         SessionOK(s, count, yes, no, n)
  PROVE  /\ SessionOK(PlanProgress(s, s.plan.inFlight), count, yes, no, n)
         /\ Waiting(PlanProgress(s, s.plan.inFlight)) \subseteq Waiting(s)
PROOF
  <1> DEFINE t == PlanProgress(s, s.plan.inFlight)
  <1>1. /\ t.plan.calls = Rest(s.plan.calls) /\ t.approval = s.approval
        /\ t.plan.inFlight = 0
    BY DEF PlanProgress, Sessions
  <1> HIDE DEF t
  <1>2. s.plan.calls \in SUBSET Call
    BY SessionParts
  <1>3. /\ Distinct(t.plan.calls) /\ t.plan.calls \subseteq s.plan.calls
        /\ Apart({First(s.plan.calls)}, t.plan.calls)
    BY <1>1, <1>2, FirstApart, RestCalls DEF SessionOK
  <1>4. Asked(t) = Asked(s) /\ Waiting(t) \subseteq Waiting(s)
    BY <1>1, <1>3 DEF Asked, Waiting
  <1>5. Apart(t.plan.calls, Asked(t)) /\ Open(Waiting(t), n, no)
    BY <1>3, <1>4 DEF SessionOK, Apart, Open
  <1>6. ASSUME NEW c \in t.plan.calls, count[c.id] > 0 PROVE FALSE
    <2>1. c.id = s.plan.inFlight
      BY <1>3, <1>6 DEF SessionOK
    <2> QED BY <1>3, <2>1 DEF Apart
  <1>7. SessionOK(t, count, yes, no, n)
    BY <1>1, <1>3, <1>4, <1>5, <1>6 DEF SessionOK
  <1> QED BY <1>4, <1>7 DEF t

\* Calls of a batch, none of them started, become the plan.
LEMMA PlanStoredOK ==
  ASSUME NEW s \in Sessions, NEW ops \in SUBSET Call,
         NEW count \in [1..MaxCalls -> Nat], NEW yes, NEW no, NEW n,
         SessionOK(s, count, yes, no, n), LiveOK(ops, count, no, n), Apart(ops, Waiting(s))
  PROVE  SessionOK(PlanStored(s, ops), count, yes, no, n)
PROOF
  <1> DEFINE t == PlanStored(s, ops)
  <1>1. t.plan.calls = ops /\ t.approval = s.approval /\ t.plan.inFlight = 0
    BY DEF PlanStored, Sessions
  <1> HIDE DEF t
  <1>2. Asked(t) = Asked(s) /\ Waiting(t) = ops \cup Asked(s) /\ Asked(s) \subseteq Waiting(s)
    BY <1>1 DEF Asked, Waiting
  <1>3. Distinct(ops) /\ Open(ops, n, no) /\ \A c \in ops : count[c.id] = 0
    BY DEF LiveOK
  <1>4. Apart(ops, Asked(s)) /\ Open(Waiting(t), n, no)
    BY <1>2, <1>3 DEF Apart, Open, SessionOK
  <1>5. \A c \in ops : ~ (count[c.id] > 0)
    BY <1>3
  <1>6. SessionOK(t, count, yes, no, n)
    BY <1>1, <1>2, <1>3, <1>4, <1>5 DEF SessionOK
  <1> QED BY <1>6 DEF t

\* Calls of a batch, none of them started, wait for an approval of the first.
LEMMA ApprovalStoredOK ==
  ASSUME NEW s \in Sessions, NEW ops \in SUBSET Call, ops # {}, NEW turn,
         NEW count \in [1..MaxCalls -> Nat], NEW yes, NEW no, NEW n,
         SessionOK(s, count, yes, no, n), LiveOK(ops, count, no, n), Apart(ops, Waiting(s))
  PROVE  SessionOK(ApprovalStored(s, First(ops), Rest(ops), turn), count, yes, no, n)
PROOF
  <1> DEFINE t == ApprovalStored(s, First(ops), Rest(ops), turn)
  <1>1. /\ t.plan = s.plan /\ t.approval.op = First(ops) /\ t.approval.rest = Rest(ops)
    BY DEF ApprovalStored, Sessions
  <1> HIDE DEF t
  <1>2. Distinct(ops) /\ Open(ops, n, no) /\ \A c \in ops : count[c.id] = 0
    BY DEF LiveOK
  <1>3. /\ Apart({First(ops)}, Rest(ops)) /\ Distinct(Rest(ops))
        /\ Rest(ops) \cup {First(ops)} = ops
    BY <1>2, FirstApart
  <1>4. Asked(t) \subseteq ops /\ Waiting(t) \subseteq s.plan.calls \cup ops
        /\ s.plan.calls \subseteq Waiting(s)
    BY <1>1, <1>3 DEF Asked, Waiting
  <1>5. Apart(s.plan.calls, Asked(t)) /\ Open(Waiting(t), n, no)
    BY <1>2, <1>4 DEF Apart, Open, SessionOK
  <1>6. ~ (count[First(ops).id] > 0) /\ \A c \in Rest(ops) : count[c.id] = 0
    <2>1. First(ops) \in ops /\ Rest(ops) \subseteq ops
      BY <1>3
    <2>2. count[First(ops).id] = 0
      BY <1>2, <2>1
    <2> QED BY <1>2, <2>1, <2>2
  <1>7. SessionOK(t, count, yes, no, n)
    BY <1>1, <1>3, <1>5, <1>6 DEF SessionOK
  <1> QED BY <1>7 DEF t

\* A call that starts leaves a session in order if it does not wait there, or
\* is the approved command of it, or the call of its plan in flight.
LEMMA StartedOK ==
  ASSUME NEW s \in Sessions, NEW op \in Call,
         NEW count \in [1..MaxCalls -> Nat], NEW yes, NEW no, NEW n,
         SessionOK(s, count, yes, no, n),
         \/ Apart({op}, Waiting(s))
         \/ s.approval # None /\ op = s.approval.op /\ op.id \in yes
         \/ s.plan.calls # {} /\ op = First(s.plan.calls) /\ s.plan.inFlight = op.id
  PROVE  SessionOK(s, [count EXCEPT ![op.id] = @ + 1], yes, no, n)
PROOF
  <1> DEFINE more == [count EXCEPT ![op.id] = @ + 1]
  <1>1. \A c \in Call : c.id \in 1..MaxCalls /\ (c.id # op.id => more[c.id] = count[c.id])
    BY DEF Call
  <1> HIDE DEF more
  <1>2. /\ s.plan.calls \in SUBSET Call
        /\ s.approval # None => s.approval.op \in Call /\ s.approval.rest \in SUBSET Call
    BY SessionParts
  <1>3. s.plan.calls # {} => First(s.plan.calls) \in s.plan.calls
    BY <1>2, FirstCall
  <1>4. /\ s.approval # None => Asked(s) = {s.approval.op} \cup s.approval.rest
        /\ Asked(s) \subseteq Waiting(s) /\ s.plan.calls \subseteq Waiting(s)
    BY DEF Asked, Waiting
  <1>5. ASSUME NEW c \in s.plan.calls, more[c.id] > 0 PROVE c.id = s.plan.inFlight
    <2>1. c.id # op.id => count[c.id] > 0
      BY <1>1, <1>2, <1>5
    <2>2. CASE c.id # op.id
      BY <2>1, <2>2 DEF SessionOK
    <2>3. CASE c.id = op.id
      <3>1. s.approval # None => s.approval.op # op
        BY <1>4, <2>3 DEF SessionOK, Apart
      <3>2. ~ Apart({op}, Waiting(s))
        BY <1>4, <2>3 DEF Apart
      <3> QED BY <2>3, <3>1, <3>2
    <2> QED BY <2>2, <2>3
  <1>6. ASSUME s.approval # None, NEW c \in s.approval.rest PROVE more[c.id] = 0
    <2>1. c \in Asked(s) /\ c \in Waiting(s)
      BY <1>4, <1>6
    <2>2. c.id # op.id
      <3>1. CASE Apart({op}, Waiting(s))
        BY <2>1, <3>1 DEF Apart
      <3>2. CASE op = s.approval.op
        BY <1>6, <3>2 DEF SessionOK, Apart
      <3>3. CASE s.plan.calls # {} /\ op = First(s.plan.calls)
        BY <1>3, <2>1, <3>3 DEF SessionOK, Apart
      <3> QED BY <3>1, <3>2, <3>3
    <2> QED BY <1>1, <1>2, <1>6, <2>2 DEF SessionOK
  <1>7. ASSUME s.approval # None, more[s.approval.op.id] > 0 PROVE s.approval.op.id \in yes
    <2>1. s.approval.op \in Asked(s) /\ s.approval.op \in Waiting(s)
      BY <1>4, <1>7
    <2>2. CASE s.approval.op.id # op.id
      BY <1>1, <1>2, <1>7, <2>2 DEF SessionOK
    <2>3. CASE s.approval.op.id = op.id
      <3>1. ~ Apart({op}, Waiting(s))
        BY <2>1, <2>3 DEF Apart
      <3>2. ~ (s.plan.calls # {} /\ op = First(s.plan.calls))
        BY <1>3, <2>1, <2>3 DEF SessionOK, Apart
      <3> QED BY <2>3, <3>1, <3>2
    <2> QED BY <2>2, <2>3
  <1>8. SessionOK(s, more, yes, no, n)
    BY <1>5, <1>6, <1>7 DEF SessionOK
  <1> QED BY <1>8 DEF more

\* The call about to run: the model asked for it, nobody denied it, and it has
\* not started before unless the user approved it.
LEMMA RunOpen ==
  ASSUME TypeInv, SessionsOK, BatchOK, RunOK, w.pc = "run"
  PROVE  /\ w.op \in Call /\ w.op.id <= calls /\ w.op.id \notin denied
         /\ started[w.op.id] > 0 => w.op.id \in approved
PROOF
  <1>1. w.op \in Call /\ w.origin \in {"turn", "approved", "plan"}
    BY DEF TypeInv, WorkerOK
  <1>2. /\ mem.plan.calls \in SUBSET Call /\ Open(Waiting(mem), calls, denied)
        /\ mem.plan.calls # {} => First(mem.plan.calls) \in mem.plan.calls
    BY SessionParts, FirstCall DEF TypeInv, TypeOK, SessionsOK, SessionOK
  <1>3. CASE w.origin = "turn"
    <2>1. w.op \in Live(w)
      BY <1>3 DEF Live
    <2> QED BY <1>1, <2>1 DEF BatchOK, LiveOK, Open
  <1>4. CASE w.origin = "approved"
    <2>1. w.op \in Waiting(mem) /\ w.op.id \in approved
      BY <1>4 DEF RunOK, Waiting, Asked
    <2> QED BY <1>1, <1>2, <2>1 DEF Open
  <1>5. CASE w.origin = "plan"
    <2>1. w.op \in Waiting(mem) /\ started[w.op.id] = 0
      BY <1>2, <1>5 DEF RunOK, Waiting
    <2> QED BY <1>1, <1>2, <2>1 DEF Open
  <1> QED BY <1>1, <1>3, <1>4, <1>5

\* What most steps of the worker do to the session: save it as it is.
LEMMA QuietSession ==
  ASSUME Worker,
         ~ \/ StartToggle \/ StartRejectPlan \/ StartRevise \/ Settle \/ BatchTaken
           \/ ClearTurn \/ PlanNext \/ PlanDone
           \/ \E result \in {"ok", "execution", "duplicate_mutation"} : ToolReturns(result)
  PROVE  mem' = mem /\ disk' \in {mem, disk}
PROOF
  <1>1. ASSUME NEW next, Save(mem, next) PROVE mem' = mem /\ disk' \in {mem, disk}
    BY <1>1, SaveCases
  <1> USE DEF session, OnlyPlace, Record, Drain
  <1>2. CASE StartText
    BY <1>1, <1>2 DEF StartText
  <1>3. CASE StartApprovePlan
    BY <1>1, <1>3 DEF StartApprovePlan
  <1>4. CASE StartApproveCommand
    BY <1>1, <1>4 DEF StartApproveCommand
  <1>5. CASE StartRejectCommand
    BY <1>1, <1>5 DEF StartRejectCommand
  <1>6. CASE StartRefused
    BY <1>1, <1>6 DEF StartRefused
  <1>7. CASE CallModel
    BY <1>1, <1>7 DEF CallModel
  <1>8. CASE HeadCancelled
    BY <1>1, <1>8 DEF HeadCancelled
  <1>9. CASE ModelResponds
    BY <1>1, <1>9 DEF ModelResponds
  <1>10. CASE ModelCallsTools
    BY <1>1, <1>10 DEF ModelCallsTools
  <1>11. CASE ModelInterrupted
    BY <1>1, <1>11 DEF ModelInterrupted
  <1>12. CASE AnswerDiscarded
    BY <1>1, <1>12 DEF AnswerDiscarded
  <1>13. CASE AnswerIsText
    BY <1>1, <1>13 DEF AnswerIsText
  <1>14. CASE AnswerIsCalls
    BY <1>1, <1>14 DEF AnswerIsCalls
  <1>15. CASE CallsDone
    BY <1>1, <1>15 DEF CallsDone
  <1>16. CASE CallsCancelled
    BY <1>1, <1>16 DEF CallsCancelled
  <1>17. CASE CallAsks
    BY <1>1, <1>17 DEF CallAsks
  <1>18. CASE CallStarts
    BY <1>1, <1>18 DEF CallStarts
  <1>19. CASE RunTool
    BY <1>1, <1>19 DEF RunTool
  <1>20. CASE ToolCancelled
    BY <1>1, <1>20 DEF ToolCancelled
  <1>21. CASE BatchDiscarded
    BY <1>1, <1>21 DEF BatchDiscarded
  <1>22. CASE PlanRefused
    BY <1>1, <1>22 DEF PlanRefused
  <1>23. CASE Reply
    BY <1>1, <1>23 DEF Reply
  <1> QED BY <1>2, <1>3, <1>4, <1>5, <1>6, <1>7, <1>8, <1>9, <1>10, <1>11, <1>12, <1>13, <1>14, <1>15, <1>16, <1>17, <1>18, <1>19, <1>20, <1>21, <1>22, <1>23 DEF Worker

\* More calls and more approvals: the worker takes none back.
LEMMA WorkerGrows ==
  ASSUME TypeInv, Worker
  PROVE  /\ calls \in Nat /\ calls' \in Nat /\ calls <= calls'
         /\ approved \subseteq approved'
         /\ ~ RunTool => started' = started
PROOF
  <1>1. calls \in 0..MaxCalls /\ MaxCalls \in Nat
    BY ToolsAssumption DEF TypeInv, TypeOK
  <1>2. calls' \in calls..MaxCalls
    BY WorkerFrame
  <1>3. calls \in Nat /\ calls' \in Nat /\ calls <= calls'
    BY <1>1, <1>2
  <1>4. CASE StartApproveCommand
    BY <1>3, <1>4, WorkerFrame DEF StartApproveCommand
  <1> QED BY <1>3, <1>4, WorkerFrame

\* A call is denied only while it waits.
LEMMA DeniedWaited ==
  ASSUME TypeInv, RunOK, Worker
  PROVE  \A n \in denied' : n \in denied \/ n \in Ids(Waiting(mem))
PROOF
  <1>1. Ids(mem.plan.calls) \subseteq Ids(Waiting(mem))
    BY DEF Ids, Waiting
  <1>2. ASSUME NEW ids, NEW m, Deny(ids, m), ids \subseteq Ids(Waiting(mem))
        PROVE  \A n \in denied' : n \in denied \/ n \in Ids(Waiting(mem))
    BY <1>2 DEF Deny
  <1>3. mem.approval # None => {mem.approval.op.id} \cup Ids(mem.approval.rest)
                                 \subseteq Ids(Waiting(mem))
    BY DEF Ids, Waiting, Asked
  <1>4. CASE StartToggle \/ StartRejectPlan
    <2>1. \E m : Deny(Ids(mem.plan.calls), m) \/ Deny({}, m)
      BY <1>4 DEF StartToggle, StartRejectPlan
    <2> QED BY <1>1, <1>2, <2>1
  <1>5. CASE StartRevise
    <2> DEFINE dropped == IF mem.plan.open THEN Ids(mem.plan.calls)
                          ELSE {mem.approval.op.id} \cup Ids(mem.approval.rest)
    <2>1. \E m : Deny(dropped, m)
      BY <1>5 DEF StartRevise
    <2>2. dropped \subseteq Ids(Waiting(mem))
      BY <1>1, <1>3, <1>5 DEF StartRevise, Pending
    <2> HIDE DEF dropped
    <2> QED BY <1>2, <2>1, <2>2
  <1>6. CASE Settle
    <2>1. \E m : Deny({w.op.id}, m) \/ Deny({}, m)
      BY <1>6 DEF Settle
    <2>2. {w.op.id} \subseteq Ids(Waiting(mem))
      BY <1>3, <1>6 DEF Settle, RunOK
    <2> QED BY <1>2, <2>1, <2>2
  <1> QED BY <1>4, <1>5, <1>6, WorkerDenies

\* Nothing but a call that the model asked for is started or denied, and only
\* an approved one is started again.
LEMMA WorkerPast ==
  ASSUME TypeInv, SessionsOK, PastOK, BatchOK, RunOK, Worker
  PROVE  PastOK'
PROOF
  <1>1. /\ calls \in Nat /\ calls' \in Nat /\ calls <= calls'
        /\ ~ RunTool => started' = started
        /\ approved \subseteq approved'
    BY WorkerGrows
  <1>2. /\ \A n \in 1..MaxCalls : started[n] > 0 => n <= calls
        /\ \A n \in denied : n <= calls
        /\ \A n \in 1..MaxCalls : started[n] > 1 => n \in approved
        /\ denied \subseteq 1..MaxCalls /\ started \in [1..MaxCalls -> Nat]
    BY DEF PastOK, StartedOnce, TypeInv, TypeOK
  <1>3. ASSUME NEW n \in denied' PROVE n <= calls'
    <2>1. CASE n \in denied
      BY <1>1, <1>2, <2>1
    <2>2. CASE n \in Ids(Waiting(mem))
      <3>1. PICK c \in Waiting(mem) : n = c.id
        BY <2>2 DEF Ids
      <3>2. c \in Call /\ c.id <= calls
        BY <3>1, WaitingCalls DEF TypeInv, TypeOK, SessionsOK, SessionOK, Open
      <3>3. c.id \in Nat
        BY <3>2, ToolsAssumption DEF Call
      <3> QED BY <1>1, <3>1, <3>2, <3>3
    <2> QED BY <2>1, <2>2, DeniedWaited
  <1>4. CASE RunTool
    <2>1. /\ w.op.id \in 1..MaxCalls /\ w.op.id <= calls
          /\ started[w.op.id] > 0 => w.op.id \in approved
      BY <1>4, RunOpen DEF RunTool, Call
    <2>2. started' = [started EXCEPT ![w.op.id] = @ + 1]
      BY <1>4 DEF RunTool
    <2>3. ASSUME NEW n \in 1..MaxCalls, n # w.op.id
          PROVE  started'[n] = started[n]
      BY <1>2, <2>2, <2>3
    <2>4. started'[w.op.id] = started[w.op.id] + 1 /\ started[w.op.id] \in Nat
      BY <1>2, <2>1, <2>2
    <2>5. ASSUME NEW n \in 1..MaxCalls
          PROVE  /\ started'[n] > 0 => n <= calls'
                 /\ started'[n] > 1 => n \in approved'
      <3>1. CASE n = w.op.id
        BY <1>1, <2>1, <2>4, <3>1
      <3>2. CASE n # w.op.id
        BY <1>1, <1>2, <2>3, <3>2
      <3> QED BY <3>1, <3>2
    <2> QED BY <1>3, <2>5 DEF PastOK, StartedOnce
  <1>5. CASE ~ RunTool
    <2>1. ASSUME NEW n \in 1..MaxCalls
          PROVE  /\ started'[n] > 0 => n <= calls'
                 /\ started'[n] > 1 => n \in approved'
      BY <1>1, <1>2, <1>5
    <2> QED BY <1>3, <2>1 DEF PastOK, StartedOnce
  <1> QED BY <1>4, <1>5

\* A step of the worker leaves both sessions in order.
LEMMA WorkerSessions ==
  ASSUME TypeInv, SessionsOK, PastOK, BatchOK, RunOK, Worker
  PROVE  SessionsOK'
PROOF
  <1> DEFINE quiet ==
        ~ \/ StartToggle \/ StartRejectPlan \/ StartRevise \/ Settle \/ BatchTaken
          \/ ClearTurn \/ PlanNext \/ PlanDone
          \/ \E result \in {"ok", "execution", "duplicate_mutation"} : ToolReturns(result)
  <1>1. /\ mem \in Sessions /\ disk \in Sessions /\ calls \in Nat /\ calls' \in Nat
        /\ calls <= calls' /\ approved \subseteq approved'
        /\ started \in [1..MaxCalls -> Nat]
        /\ ~ RunTool => started' = started
    BY WorkerGrows DEF TypeInv, TypeOK
  <1>2. /\ SessionOK(mem, started, approved, denied, calls)
        /\ SessionOK(disk, started, approved, denied, calls)
    BY DEF SessionsOK
  <1>3. ASSUME NEW s \in Sessions, SessionOK(s, started, approved, denied, calls),
               NEW t, t.plan = s.plan, t.approval = s.approval
        PROVE  SessionOK(t, started, approved', denied, calls')
    BY <1>1, <1>3, StaysOK
  <1>4. /\ SessionOK(mem, started, approved', denied, calls')
        /\ SessionOK(disk, started, approved', denied, calls')
    BY <1>1, <1>2, <1>3
  <1>5. ASSUME started' = started, denied' = denied,
               NEW m, SessionOK(m, started, approved', denied, calls'),
               mem' \in {m, mem}, disk' \in {m, disk}
        PROVE  SessionsOK'
    BY <1>4, <1>5 DEF SessionsOK
  <1>6. ASSUME started' = started, NEW ids, NEW m, NEW next, Deny(ids, m),
               Save(m, next) \/ SaveTwice(m, next),
               SessionOK(m, started, approved', denied, calls'),
               SessionOK(m, started, approved', denied \cup ids, calls')
        PROVE  SessionsOK'
    <2>1. mem' = m /\ disk' \in {m, disk}
      BY <1>6 DEF Save, SaveTwice
    <2>2. CASE disk' = m
      <3>1. denied' = denied \cup ids
        BY <1>6, <2>2 DEF Deny
      <3> QED BY <1>6, <2>1, <2>2, <3>1 DEF SessionsOK
    <2>3. CASE disk' # m
      <3>1. denied' = denied /\ disk' = disk
        BY <1>6, <2>1, <2>3 DEF Deny
      <3> QED BY <1>4, <1>6, <2>1, <3>1 DEF SessionsOK
    <2> QED BY <2>2, <2>3
  <1>7. ASSUME NEW s, SessionOK(s, started, approved, denied, calls)
        PROVE  SessionOK(s, started, approved, denied \cup {}, calls)
    <2>1. denied \cup {} = denied
      OBVIOUS
    <2> QED BY <1>7, <2>1
  <1>8. CASE RunTool
    <2>1. /\ w.pc = "run" /\ started' = [started EXCEPT ![w.op.id] = @ + 1]
          /\ UNCHANGED <<mem, disk, approved, denied, calls>>
      BY <1>8 DEF RunTool, session
    <2>2. w.op \in Call /\ w.origin \in {"turn", "approved", "plan"}
      BY <2>1 DEF TypeInv, WorkerOK
    <2>3. disk = mem
      BY <2>1 DEF RunOK
    <2>4. \/ Apart({w.op}, Waiting(mem))
          \/ mem.approval # None /\ w.op = mem.approval.op /\ w.op.id \in approved
          \/ mem.plan.calls # {} /\ w.op = First(mem.plan.calls) /\ mem.plan.inFlight = w.op.id
      <3>1. CASE w.origin = "turn"
        <4>1. w.op \in Live(w) /\ Apart(Live(w), Waiting(mem))
          BY <2>1, <3>1 DEF Live, BatchOK
        <4> QED BY <4>1 DEF Apart
      <3>2. CASE w.origin \in {"approved", "plan"}
        BY <2>1, <3>2 DEF RunOK
      <3> QED BY <2>2, <3>1, <3>2
    <2>5. SessionOK(mem, [started EXCEPT ![w.op.id] = @ + 1], approved, denied, calls)
      BY <1>1, <1>2, <2>2, <2>4, StartedOK
    <2> QED BY <2>1, <2>3, <2>5 DEF SessionsOK
  <1>9. CASE quiet /\ ~ RunTool
    <2>1. mem' = mem /\ disk' \in {mem, disk} /\ denied' = denied /\ started' = started
      BY <1>1, <1>9, QuietSession, WorkerDenies
    <2> QED BY <1>4, <2>1 DEF SessionsOK
  <1>10. CASE StartToggle
    <2> DEFINE on == mem.mode # "Plan"
               m  == ModeSet(mem, on)
               ids == IF on THEN {} ELSE Ids(mem.plan.calls)
    <2>1. /\ Save(m, At("reply")) /\ Deny(ids, m)
          /\ started' = started /\ approved' = approved /\ calls' = calls
      BY <1>10 DEF StartToggle, ButDenied
    <2>2. CASE on
      <3>1. m.plan = mem.plan /\ m.approval = mem.approval
        BY <1>1, <2>2 DEF ModeSet, Sessions
      <3>2. ids = {}
        BY <2>2
      <3> HIDE DEF m, ids, on
      <3>3. SessionOK(m, started, approved', denied, calls')
        BY <1>1, <1>2, <1>3, <3>1
      <3>4. denied \cup ids = denied
        BY <3>2
      <3> QED BY <1>6, <2>1, <3>3, <3>4
    <2>3. CASE ~ on
      <3>1. m.plan = NoPlan /\ m.approval = mem.approval /\ ids \subseteq Ids(mem.plan.calls)
        BY <1>1, <2>3 DEF ModeSet, Sessions
      <3> HIDE DEF m, ids, on
      <3>2. SessionOK(m, started, approved, denied \cup ids, calls)
        BY <1>1, <1>2, <3>1, PlanGoneOK
      <3>3. SessionOK(m, started, approved, denied \cup {}, calls)
        BY <1>1, <1>2, <3>1, PlanGoneOK
      <3>4. denied \cup {} = denied
        OBVIOUS
      <3> QED BY <1>6, <2>1, <3>2, <3>3, <3>4
    <2> QED BY <2>2, <2>3
  <1>11. PlanFinished(mem).plan = NoPlan /\ PlanFinished(mem).approval = mem.approval
    BY <1>1 DEF PlanFinished, Sessions
  <1>12. /\ SessionOK(PlanFinished(mem), started, approved, denied \cup Ids(mem.plan.calls), calls)
         /\ SessionOK(PlanFinished(mem), started, approved, denied, calls)
    <2> DEFINE m == PlanFinished(mem)
    <2>1. m.plan = NoPlan /\ m.approval = mem.approval
      BY <1>11
    <2> HIDE DEF m
    <2>2. SessionOK(m, started, approved, denied \cup {}, calls)
      BY <1>1, <1>2, <2>1, PlanGoneOK
    <2>3. SessionOK(m, started, approved, denied \cup Ids(mem.plan.calls), calls)
      BY <1>1, <1>2, <2>1, PlanGoneOK
    <2>4. denied \cup {} = denied
      OBVIOUS
    <2> QED BY <2>2, <2>3, <2>4 DEF m
  <1>13. CASE StartRejectPlan
    <2>1. /\ SaveTwice(PlanFinished(mem), At("reply"))
          /\ Deny(Ids(mem.plan.calls), PlanFinished(mem))
          /\ started' = started /\ approved' = approved /\ calls' = calls
      BY <1>13 DEF StartRejectPlan, ButDenied
    <2> QED BY <1>6, <1>12, <2>1
  <1>14. CASE StartRevise
    <2> DEFINE m == IF mem.plan.open THEN PlanFinished(mem) ELSE ApprovalCleared(mem)
               ids == IF mem.plan.open THEN Ids(mem.plan.calls)
                      ELSE {mem.approval.op.id} \cup Ids(mem.approval.rest)
    <2>1. /\ \E next : Save(m, next) \/ SaveTwice(m, next)
          /\ Deny(ids, m)
          /\ started' = started /\ approved' = approved /\ calls' = calls
      BY <1>14 DEF StartRevise, ButDenied
    <2>2. SessionOK(m, started, approved, denied, calls)
          /\ SessionOK(m, started, approved, denied \cup ids, calls)
      <3>1. CASE mem.plan.open
        BY <1>12, <3>1
      <3>2. CASE ~ mem.plan.open
        <4>1. /\ mem.approval # None
              /\ m.plan = mem.plan /\ m.approval = None
          BY <1>1, <1>14, <3>2 DEF StartRevise, Pending, ApprovalCleared, Sessions
        <4>2. ids \subseteq Ids(Asked(mem))
          BY <3>2, <4>1 DEF Ids, Asked
        <4> HIDE DEF m, ids
        <4>3. SessionOK(m, started, approved, denied \cup {}, calls)
          BY <1>1, <1>2, <4>1, ApprovalGoneOK
        <4>4. SessionOK(m, started, approved, denied \cup ids, calls)
          BY <1>1, <1>2, <4>1, <4>2, ApprovalGoneOK
        <4>5. denied \cup {} = denied
          OBVIOUS
        <4> QED BY <4>3, <4>4, <4>5
      <3> QED BY <3>1, <3>2
    <2> HIDE DEF m, ids
    <2> QED BY <1>6, <2>1, <2>2
  <1>15. CASE Settle
    <2> DEFINE t == Feedback(w.turn, w.op.tool, w.out)
               m == [mem EXCEPT !.approval = None, !.turn = t]
               ids == IF w.kind = "Reject" THEN {w.op.id} ELSE {}
    <2>1. /\ \E next : Save(m, next)
          /\ Deny(ids, m)
          /\ started' = started /\ approved' = approved /\ calls' = calls
      BY <1>15 DEF Settle, ButDenied
    <2>2. m.plan = mem.plan /\ m.approval = None
      BY <1>1 DEF Sessions
    <2>3. ids \subseteq Ids(Asked(mem))
      BY <1>15 DEF Settle, RunOK, Asked, Ids
    <2> HIDE DEF m, ids
    <2>4. SessionOK(m, started, approved, denied \cup {}, calls)
      BY <1>1, <1>2, <2>2, ApprovalGoneOK
    <2>5. SessionOK(m, started, approved, denied \cup ids, calls)
      BY <1>1, <1>2, <2>2, <2>3, ApprovalGoneOK
    <2>6. denied \cup {} = denied
      OBVIOUS
    <2> QED BY <1>6, <2>1, <2>4, <2>5, <2>6
  <1>16. CASE BatchTaken
    <2>1. /\ started' = started /\ denied' = denied /\ approved' = approved /\ calls' = calls
          /\ w.pc = "processed" /\ w.out \in {"Continue", "Stopped", "Planned", "Asks"}
          /\ w.ops \in SUBSET Call /\ (w.out = "Asks" => w.ops # {})
      BY <1>16 DEF BatchTaken, OnlySession, history, TypeInv, WorkerOK, Workers
    <2>2. LiveOK(w.ops, started, denied, calls) /\ Apart(w.ops, Waiting(mem))
      BY <2>1 DEF BatchOK, Live
    <2>3. CASE w.out = "Planned"
      <3>1. Save(PlanStored(mem, w.ops), At("clear"))
        BY <1>16, <2>3 DEF BatchTaken
      <3>2. SessionOK(PlanStored(mem, w.ops), started, approved, denied, calls)
        BY <1>1, <1>2, <2>1, <2>2, PlanStoredOK
      <3> QED BY <1>5, <2>1, <3>1, <3>2, SaveCases
    <2>4. CASE w.out = "Asks"
      <3> DEFINE m == ApprovalStored(mem, First(w.ops), Rest(w.ops), w.turn)
      <3>1. UNCHANGED session \/ Save(m, At("reply"))
        BY <1>16, <2>4 DEF BatchTaken
      <3>2. SessionOK(m, started, approved, denied, calls)
        BY <1>1, <1>2, <2>1, <2>2, <2>4, ApprovalStoredOK
      <3> HIDE DEF m
      <3>3. mem' \in {m, mem} /\ disk' \in {m, disk}
        BY <3>1, SaveCases DEF session
      <3> QED BY <1>5, <2>1, <3>2, <3>3
    <2>5. CASE w.out \in {"Continue", "Stopped"}
      <3>1. mem' = mem /\ disk' = disk
        BY <1>16, <2>5 DEF BatchTaken, session
      <3> QED BY <1>4, <1>5, <2>1, <3>1
    <2> QED BY <2>1, <2>3, <2>4, <2>5
  <1>17. CASE ClearTurn
    <2> DEFINE m == [mem EXCEPT !.turn = None]
    <2>1. /\ SaveTwice(m, At("reply")) /\ started' = started /\ denied' = denied
      BY <1>17 DEF ClearTurn, OnlySession, history
    <2>2. m.plan = mem.plan /\ m.approval = mem.approval
      BY <1>1 DEF Sessions
    <2> HIDE DEF m
    <2>3. SessionOK(m, started, approved', denied, calls')
      BY <1>1, <1>2, <1>3, <2>2
    <2> QED BY <1>5, <2>1, <2>3, SaveCases
  <1>18. CASE PlanNext
    <2> DEFINE m == PlanBegun(mem)
    <2>1. /\ mem' \in {m, mem} /\ disk' \in {m, disk}
          /\ mem.plan.inFlight = 0 /\ mem.plan.calls # {}
          /\ started' = started /\ denied' = denied /\ approved' = approved /\ calls' = calls
      BY <1>18 DEF PlanNext, SaveCandidate, OnlySession, history
    <2>2. SessionOK(m, started, approved, denied, calls)
      BY <1>1, <1>2, <2>1, BegunOK
    <2> HIDE DEF m
    <2> QED BY <1>5, <2>1, <2>2
  <1>19. CASE PlanDone
    <2>1. /\ SaveTwice(PlanFinished(mem), At("reply"))
          /\ started' = started /\ denied' = denied /\ approved' = approved /\ calls' = calls
      BY <1>19 DEF PlanDone, OnlySession, history
    <2> QED BY <1>5, <1>12, <2>1, SaveCases
  <1>20. CASE \E result \in {"ok", "execution", "duplicate_mutation"} : ToolReturns(result)
    <2>1. PICK result \in {"ok", "execution", "duplicate_mutation"} : ToolReturns(result)
      BY <1>20
    <2>2. /\ w.pc \in {"run", "running"} /\ w.origin \in {"turn", "approved", "plan"}
          /\ started' = started /\ denied' = denied /\ approved' = approved /\ calls' = calls
      BY <2>1 DEF ToolReturns, OnlySession, history, TypeInv, WorkerOK
    <2>3. \/ \E next : Save(mem, next)
          \/ w.origin = "plan" /\ \E next : SaveCandidate(PlanProgress(mem, w.op.id), next)
      BY <2>1, <2>2 DEF ToolReturns, Record
    <2>4. CASE \E next : Save(mem, next)
      BY <1>4, <1>5, <2>2, <2>4, SaveCases
    <2>5. CASE w.origin = "plan" /\ \E next : SaveCandidate(PlanProgress(mem, w.op.id), next)
      <3>1. /\ mem.plan.calls # {} /\ mem.plan.inFlight = First(mem.plan.calls).id
            /\ mem.plan.inFlight = w.op.id
        BY <2>2, <2>5 DEF RunOK
      <3>2. SessionOK(PlanProgress(mem, w.op.id), started, approved, denied, calls)
        BY <1>1, <1>2, <3>1, ProgressOK
      <3> QED BY <1>5, <2>2, <2>5, <3>2, SaveCases
    <2> QED BY <2>3, <2>4, <2>5
  <1> QED BY <1>8, <1>9, <1>10, <1>13, <1>14, <1>15, <1>16, <1>17, <1>18, <1>19, <1>20

-----------------------------------------------------------------------------
(* Calls in progress *)

\* Places at which no call of a batch is in progress.
Between == {"idle", "start", "head", "model", "clear", "reply", "plan", "error"}

\* There nothing is asked of the local state of the worker.
LEMMA BetweenOK ==
  ASSUME w'.pc \in Between
  PROVE  BatchOK' /\ RunOK' /\ AskOK'
PROOF
  <1>1. /\ w'.pc # "calls" /\ w'.pc # "processed" /\ w'.pc # "answered" /\ w'.pc # "run"
        /\ w'.pc # "running" /\ w'.pc # "settle"
    BY DEF Between
  <1>2. Live(w') = {}
    BY <1>1 DEF Live
  <1>3. BatchOK'
    BY <1>1, <1>2 DEF BatchOK, LiveOK, Distinct, Open, Apart
  <1>4. RunOK'
    BY <1>1 DEF RunOK
  <1>5. AskOK'
    BY <1>1 DEF AskOK
  <1> QED BY <1>3, <1>4, <1>5

\* The calls of a batch are calls.
LEMMA LiveCalls ==
  ASSUME WorkerOK(w)
  PROVE  Live(w) \in SUBSET Call
PROOF
  BY DEF Live, WorkerOK, Workers

\* Calls of the batch stay startable while nothing starts and nothing is denied.
LEMMA LiveStays ==
  ASSUME TypeInv, Worker, BatchOK, started' = started, denied' = denied,
         NEW S, S \subseteq Live(w)
  PROVE  /\ LiveOK(S, started', denied', calls')
         /\ Apart(S, Waiting(mem)) /\ Apart(S, Waiting(disk))
PROOF
  <1>1. Live(w) \in SUBSET Call
    BY LiveCalls DEF TypeInv
  <1>2. LiveOK(Live(w), started, denied, calls)
        /\ Apart(Live(w), Waiting(mem)) /\ Apart(Live(w), Waiting(disk))
    BY DEF BatchOK
  <1>3. \A c \in S : c \in Call /\ c.id \in Nat /\ c.id <= calls /\ c.id \notin denied /\ started[c.id] = 0
    BY <1>1, <1>2, ToolsAssumption DEF LiveOK, Open, Call
  <1>4. Open(S, calls', denied')
    BY <1>3, WorkerGrows DEF Open
  <1>5. Distinct(S) /\ Apart(S, Waiting(mem)) /\ Apart(S, Waiting(disk))
    BY <1>2 DEF LiveOK, Distinct, Apart
  <1> QED BY <1>3, <1>4, <1>5 DEF LiveOK

\* What a batch that is not planned may hold in plan mode.
LEMMA NoMutation ==
  ASSUME NEW ops, Planned(ops) = {}, mem.mode = "Plan", ~ \E c \in ops : c.tool \in Deletes
  PROVE  \A c \in ops : c.tool \notin Mutating
PROOF
  BY DEF Planned

\* Most steps of the worker lead to such a place.
LEMMA LeadsBetween ==
  ASSUME TypeInv, Worker,
         ~ \/ StartApproveCommand \/ StartRejectCommand \/ ModelResponds \/ ModelCallsTools
           \/ AnswerIsCalls \/ CallsDone \/ CallAsks \/ CallStarts \/ RunTool \/ Settle \/ PlanNext
           \/ \E result \in {"ok", "execution", "duplicate_mutation"} : ToolReturns(result)
  PROVE  w'.pc \in Between
PROOF
  <1>1. w \in Workers /\ WorkerOK(w)
    BY DEF TypeInv, WorkerOK
  <1>2. /\ Fails.pc \in Between /\ Idle.pc \in Between
        /\ \A pc \in {"head", "model", "clear", "reply", "plan"} :
             At(pc).pc \in Between /\ At(pc) \in Workers /\ At(pc).pc = pc
    BY <1>1 DEF Fails, Idle, At, Between, Workers, Places
  <1>3. ASSUME NEW m, NEW next, next.pc \in Between,
               Save(m, next) \/ SaveTwice(m, next) \/ SaveCandidate(m, next)
        PROVE  w'.pc \in Between
    BY <1>2, <1>3, SaveCases
  <1>4. ASSUME NEW next, next \in Workers, next.pc \in Between, Drain(next)
        PROVE  w'.pc \in Between
    <2> DEFINE then == [next EXCEPT !.heard = @ + 1]
    <2>1. Save(mem, then)
      BY <1>4 DEF Drain, Record
    <2>2. then.pc \in Between
      BY <1>4 DEF Workers
    <2> HIDE DEF then
    <2> QED BY <1>3, <2>1, <2>2
  <1>5. CASE StartText
    BY <1>2, <1>3, <1>4, <1>5 DEF StartText, Record
  <1>6. CASE StartToggle
    BY <1>2, <1>3, <1>4, <1>6 DEF StartToggle
  <1>7. CASE StartApprovePlan
    BY <1>2, <1>3, <1>4, <1>7 DEF StartApprovePlan
  <1>8. CASE StartRejectPlan
    BY <1>2, <1>3, <1>4, <1>8 DEF StartRejectPlan
  <1>9. CASE StartRefused
    BY <1>2, <1>3, <1>4, <1>9 DEF StartRefused
  <1>10. CASE StartRevise
    <2>1. PICK m : Save(m, Fails) \/ SaveTwice(m, At("head"))
      BY <1>10 DEF StartRevise
    <2> QED BY <1>2, <1>3, <2>1
  <1>11. CASE CallModel
    BY <1>2, <1>3, <1>4, <1>11 DEF CallModel
  <1>12. CASE HeadCancelled
    BY <1>2, <1>3, <1>4, <1>12 DEF HeadCancelled
  <1>13. CASE ModelInterrupted
    BY <1>2, <1>3, <1>4, <1>13 DEF ModelInterrupted
  <1>14. CASE AnswerDiscarded
    <2> DEFINE t == [w.turn EXCEPT !.steps = IF ToolsEnabled THEN @ + 1 ELSE @]
               next == [w EXCEPT !.pc = "head", !.turn = t, !.heard = w.heard + 1]
    <2>1. Save(mem, next)
      BY <1>1, <1>14 DEF AnswerDiscarded, Drain, Record, Workers
    <2> HIDE DEF t
    <2>2. next.pc \in Between
      BY <1>1 DEF Workers, Between
    <2> HIDE DEF next
    <2> QED BY <1>3, <2>1, <2>2
  <1>15. CASE AnswerIsText
    BY <1>2, <1>3, <1>4, <1>15 DEF AnswerIsText
  <1>16. CASE CallsCancelled
    BY <1>2, <1>3, <1>4, <1>16 DEF CallsCancelled
  <1>17. CASE ToolCancelled
    BY <1>2, <1>3, <1>4, <1>17 DEF ToolCancelled, Record
  <1>18. CASE BatchDiscarded
    BY <1>2, <1>3, <1>4, <1>18 DEF BatchDiscarded
  <1>19. CASE BatchTaken
    <2>1. w.out \in {"Continue", "Stopped", "Planned", "Asks"}
      BY <1>1, <1>19 DEF BatchTaken, WorkerOK
    <2>2. \/ w' \in {At("head"), At("clear"), Fails}
          \/ \E m : Save(m, At("clear")) \/ Save(m, At("reply"))
      BY <1>19, <2>1 DEF BatchTaken
    <2> QED BY <1>2, <1>3, <2>2
  <1>20. CASE ClearTurn
    BY <1>2, <1>3, <1>4, <1>20 DEF ClearTurn
  <1>21. CASE PlanRefused
    BY <1>2, <1>3, <1>4, <1>21 DEF PlanRefused
  <1>22. CASE PlanDone
    BY <1>2, <1>3, <1>4, <1>22 DEF PlanDone
  <1>23. CASE Reply
    BY <1>2, <1>3, <1>4, <1>23 DEF Reply
  <1> QED BY <1>5, <1>6, <1>7, <1>8, <1>9, <1>10, <1>11, <1>12, <1>13, <1>14, <1>15, <1>16, <1>17, <1>18, <1>19, <1>20, <1>21, <1>22, <1>23 DEF Worker

\* Nor is anything asked of it while no call of a batch may start or runs.
LEMMA NoBatchOK ==
  ASSUME Live(w') = {}, w'.pc \notin {"run", "running", "settle"}
  PROVE  BatchOK' /\ RunOK' /\ AskOK'
PROOF
  <1>1. BatchOK'
    BY DEF BatchOK, LiveOK, Distinct, Open, Apart
  <1>2. RunOK'
    BY DEF RunOK
  <1>3. AskOK'
    BY DEF AskOK
  <1> QED BY <1>1, <1>2, <1>3

\* The parts of the invariant that are about the batch, when no call runs.
LEMMA BatchHeld ==
  ASSUME w'.pc \in {"answered", "calls", "processed"}, LiveOK(Live(w'), started', denied', calls'),
         Apart(Live(w'), Waiting(mem')), Apart(Live(w'), Waiting(disk')),
         w'.pc = "calls" /\ ~ w'.deletes /\ mem'.mode = "Plan"
           => \A c \in w'.ops : c.tool \notin Mutating
  PROVE  BatchOK' /\ RunOK' /\ AskOK'
PROOF
  <1>1. BatchOK'
    BY DEF BatchOK
  <1>2. RunOK'
    BY DEF RunOK
  <1>3. w'.pc = "calls" => Live(w') = w'.ops
    BY DEF Live
  <1>4. AskOK'
    BY <1>3 DEF AskOK
  <1> QED BY <1>1, <1>2, <1>4

\* The model's answer is a batch of new calls.
LEMMA AnswerBatch ==
  ASSUME TypeInv, SessionsOK, PastOK, ModelCallsTools
  PROVE  BatchOK' /\ RunOK' /\ AskOK'
PROOF
  <1>1. PICK d \in Decisions :
          /\ calls + Len(d) <= MaxCalls /\ calls' = calls + Len(d)
          /\ w' = [w EXCEPT !.pc = "answered", !.out = "ToolCalls", !.born = w.heard,
                            !.ops = {[id |-> calls + i, tool |-> d[i]] : i \in DOMAIN d}]
    BY DEF ModelCallsTools
  <1>2. UNCHANGED <<mem, disk, started, denied>>
    BY DEF ModelCallsTools, session, history
  <1> DEFINE ops == {[id |-> calls + i, tool |-> d[i]] : i \in DOMAIN d}
  <1>3. /\ ops \in SUBSET Call /\ Distinct(ops)
        /\ \A c \in ops : calls < c.id /\ c.id <= calls + Len(d)
    BY <1>1, NewCalls DEF TypeInv, TypeOK
  <1>4. w' = [w EXCEPT !.pc = "answered", !.out = "ToolCalls", !.born = w.heard, !.ops = ops]
    BY <1>1
  <1> HIDE DEF ops
  <1>5. w'.pc = "answered" /\ w'.out = "ToolCalls" /\ w'.ops = ops
    BY <1>4 DEF TypeInv, WorkerOK, Workers
  <1>6. Live(w') = ops
    BY <1>5 DEF Live
  <1>7. calls \in Nat /\ started \in [1..MaxCalls -> Nat] /\ denied \subseteq 1..MaxCalls
    BY ToolsAssumption DEF TypeInv, TypeOK
  <1>8. ASSUME NEW c \in ops
        PROVE  c.id \in 1..MaxCalls /\ c.id <= calls' /\ c.id \notin denied /\ started[c.id] = 0
    <2>1. c.id \in 1..MaxCalls /\ c.id \in Nat /\ ~ (c.id <= calls) /\ c.id <= calls'
      BY <1>1, <1>3, <1>7, ToolsAssumption DEF Call
    <2>2. c.id \notin denied /\ ~ (started[c.id] > 0)
      BY <2>1 DEF PastOK
    <2> QED BY <1>7, <2>1, <2>2
  <1>9. LiveOK(ops, started, denied, calls')
    BY <1>3, <1>8 DEF LiveOK, Open
  <1>10. ASSUME NEW s \in Sessions, SessionOK(s, started, approved, denied, calls)
         PROVE  Apart(ops, Waiting(s))
    <2>1. SUFFICES ASSUME NEW c \in ops, NEW e \in Waiting(s) PROVE c.id # e.id
      BY DEF Apart
    <2>2. e \in Call /\ e.id <= calls
      BY <1>10, WaitingCalls DEF SessionOK, Open
    <2>3. c.id \in Nat /\ e.id \in Nat /\ calls < c.id
      BY <1>3, <2>2, ToolsAssumption DEF Call
    <2> QED BY <1>7, <2>2, <2>3
  <1>11. Apart(ops, Waiting(mem)) /\ Apart(ops, Waiting(disk))
    BY <1>10 DEF SessionsOK, TypeInv, TypeOK
  <1> QED BY <1>2, <1>5, <1>6, <1>9, <1>11, BatchHeld

\* The answer is counted, and its calls are planned or processed.
LEMMA AnswerTaken ==
  ASSUME TypeInv, BatchOK, Worker, AnswerIsCalls
  PROVE  BatchOK' /\ RunOK' /\ AskOK'
PROOF
  <1>1. w \in Workers /\ WorkerOK(w)
    BY DEF TypeInv, WorkerOK
  <1> DEFINE t == [w.turn EXCEPT !.steps = @ + 1]
             p == [w EXCEPT !.turn = t]
             next == Batch(p, w.ops, "turn")
  <1>2. /\ w.pc = "answered" /\ w.out = "ToolCalls" /\ Save(mem, next)
        /\ started' = started /\ denied' = denied
    BY <1>1 DEF AnswerIsCalls, Record, Workers, OnlySession, history
  <1>3. t \in Turns
    <2>1. w.turn \in Turns /\ w.turn.steps < MaxSteps
      BY <1>1, <1>2 DEF WorkerOK, Workers
    <2> QED BY <2>1, ToolsAssumption DEF Turns
  <1> HIDE DEF t
  <1>4. p \in Workers /\ p.born = p.heard /\ w.ops \in SUBSET Call
    BY <1>1, <1>2, <1>3 DEF WorkerOK, Workers
  <1> HIDE DEF p
  <1>5. /\ WorkerOK(next) /\ next.pc \in {"calls", "processed"} /\ next.ops \subseteq w.ops
        /\ next.pc = "calls" =>
             /\ next.ops = w.ops /\ Planned(w.ops) = {}
             /\ next.deletes = \E c \in w.ops : c.tool \in Deletes
    BY <1>4, BatchPlace
  <1> HIDE DEF next
  <1>6. CASE w' = Fails
    BY <1>6, FailsIdle, BetweenOK DEF Between, Fails, At, TypeInv, WorkerOK, Workers
  <1>7. CASE w' = next /\ mem' = mem /\ disk' = mem
    <2>1. Live(w') = next.ops /\ Live(w) = w.ops
      BY <1>2, <1>5, <1>7 DEF Live
    <2>2. LiveOK(Live(w'), started', denied', calls') /\ Apart(Live(w'), Waiting(mem))
      BY <1>2, <1>5, <2>1, LiveStays
    <2>3. w'.pc = "calls" /\ ~ w'.deletes /\ mem'.mode = "Plan"
            => \A c \in w'.ops : c.tool \notin Mutating
      BY <1>5, <1>7, NoMutation
    <2> QED BY <1>5, <1>7, <2>2, <2>3, BatchHeld
  <1> QED BY <1>2, <1>6, <1>7, SaveCases

\* The next call of the batch is one that need not ask, or a deletion.
LEMMA CallTaken ==
  ASSUME TypeInv, BatchOK, AskOK, Worker, CallStarts
  PROVE  BatchOK' /\ RunOK' /\ AskOK'
PROOF
  <1>1. w \in Workers /\ WorkerOK(w)
    BY DEF TypeInv, WorkerOK
  <1> DEFINE op == First(w.ops)
             next == [w EXCEPT !.pc = "run", !.op = op, !.origin = "turn", !.ops = Rest(@)]
  <1>2. /\ w.pc = "calls" /\ w.ops # {} /\ (~ Asks(op) \/ FallsThrough(op)) /\ Save(mem, next)
        /\ started' = started /\ denied' = denied
    BY DEF CallStarts, Record, OnlySession, history
  <1>3. w.ops \in SUBSET Call /\ Live(w) = w.ops /\ Distinct(w.ops)
    BY <1>1, <1>2 DEF Workers, Live, BatchOK, LiveOK
  <1>4. /\ op \in w.ops /\ Apart({op}, Rest(w.ops)) /\ Rest(w.ops) \cup {op} = w.ops
    BY <1>2, <1>3, FirstCall, FirstApart
  <1>5. /\ next.pc = "run" /\ next.op = op /\ next.origin = "turn" /\ next.ops = Rest(w.ops)
        /\ next.deletes = w.deletes
    BY <1>1 DEF Workers
  <1>6. op.tool \notin Commands /\ (mem.mode = "Plan" => op.tool \notin Mutating \ Deletes)
    <2>1. op.tool \notin Commands
      BY <1>2, ToolsAssumption DEF Asks, FallsThrough
    <2>2. ASSUME mem.mode = "Plan", op.tool \notin Deletes PROVE op.tool \notin Mutating
      <3>1. CASE w.deletes
        BY <1>2, <2>2, <3>1 DEF Asks, FallsThrough
      <3>2. CASE ~ w.deletes
        BY <1>2, <1>3, <1>4, <2>2, <3>2 DEF AskOK
      <3> QED BY <3>1, <3>2
    <2> QED BY <2>1, <2>2
  <1> HIDE DEF next, op
  <1>7. CASE w' = Fails
    BY <1>7, FailsIdle, BetweenOK DEF Between, Fails, At, TypeInv, WorkerOK, Workers
  <1>8. CASE w' = next /\ mem' = mem /\ disk' = mem
    <2>1. Live(w') = w.ops
      BY <1>4, <1>5, <1>8 DEF Live
    <2>2. LiveOK(Live(w'), started', denied', calls') /\ Apart(Live(w'), Waiting(mem))
      BY <1>2, <1>3, <2>1, LiveStays
    <2>3. BatchOK'
      BY <1>4, <1>5, <1>8, <2>2 DEF BatchOK
    <2>4. RunOK'
      BY <1>5, <1>8 DEF RunOK
    <2>5. ~ w'.deletes /\ mem'.mode = "Plan" => \A c \in Live(w') : c.tool \notin Mutating
      BY <1>2, <1>3, <1>5, <1>8, <2>1 DEF AskOK
    <2>6. AskOK'
      BY <1>5, <1>6, <1>8, <2>5 DEF AskOK
    <2> QED BY <2>3, <2>4, <2>6
  <1> QED BY <1>2, <1>7, <1>8, SaveCases

\* A call that starts is out of the batch.
LEMMA CallStarted ==
  ASSUME TypeInv, BatchOK, RunOK, AskOK, RunTool
  PROVE  BatchOK' /\ RunOK' /\ AskOK'
PROOF
  <1>1. w \in Workers /\ WorkerOK(w)
    BY DEF TypeInv, WorkerOK
  <1>2. /\ w.pc = "run" /\ started' = [started EXCEPT ![w.op.id] = @ + 1]
        /\ w' = [w EXCEPT !.pc = "running"]
        /\ UNCHANGED <<mem, disk, approved, denied, calls>>
    BY DEF RunTool, At, session
  <1>3. /\ w'.pc = "running" /\ w'.op = w.op /\ w'.origin = w.origin /\ w'.ops = w.ops
        /\ w'.deletes = w.deletes
    BY <1>1, <1>2 DEF Workers
  <1>4. Live(w') \subseteq Live(w) /\ Live(w) \in SUBSET Call
    BY <1>1, <1>2, <1>3, LiveCalls DEF Live
  <1>5. ASSUME NEW c \in Live(w') PROVE started'[c.id] = 0
    <2>1. c.id # w.op.id
      BY <1>2, <1>3 DEF Live, BatchOK, Apart
    <2>2. c.id \in 1..MaxCalls /\ started[c.id] = 0
      BY <1>4 DEF Call, BatchOK, LiveOK
    <2> QED BY <1>2, <2>1, <2>2 DEF TypeInv, TypeOK
  <1>6. LiveOK(Live(w'), started', denied', calls')
    BY <1>2, <1>4, <1>5 DEF BatchOK, LiveOK, Distinct, Open
  <1>7. Apart(Live(w'), Waiting(mem')) /\ Apart(Live(w'), Waiting(disk'))
    BY <1>2, <1>4 DEF BatchOK, Apart
  <1>8. BatchOK'
    BY <1>3, <1>6, <1>7 DEF BatchOK
  <1>9. RunOK'
    BY <1>2, <1>3 DEF RunOK
  <1>10. AskOK'
    BY <1>2, <1>3, <1>4 DEF AskOK
  <1> QED BY <1>8, <1>9, <1>10

\* A failed operation has no call in progress.
LEMMA FailedOK ==
  ASSUME TypeInv, w' = Fails
  PROVE  BatchOK' /\ RunOK' /\ AskOK'
PROOF
  <1>1. Fails.pc = "error"
    BY DEF Fails, At, TypeInv, WorkerOK, Workers
  <1> QED BY <1>1, BetweenOK DEF Between

\* A call that returns leaves the rest of its batch, its decision or its plan.
LEMMA CallReturned ==
  ASSUME TypeInv, BatchOK, RunOK, AskOK, Worker,
         NEW result \in {"ok", "execution", "duplicate_mutation"}, ToolReturns(result)
  PROVE  BatchOK' /\ RunOK' /\ AskOK'
PROOF
  <1>1. w \in Workers /\ WorkerOK(w)
    BY DEF TypeInv, WorkerOK
  <1>2. /\ w.pc \in {"run", "running"} /\ w.op \in Call
        /\ w.origin \in {"turn", "approved", "plan"}
        /\ started' = started /\ denied' = denied
    BY <1>1 DEF ToolReturns, WorkerOK, OnlySession, history
  <1>3. CASE w.origin = "turn"
    <2> DEFINE t == Feedback(w.turn, w.op.tool, result)
               after == [w EXCEPT !.pc = "calls", !.turn = t]
               stopped == [after EXCEPT !.pc = "processed", !.out = "Stopped"]
    <2>1. Save(mem, IF Repeated(w.turn, w.op.tool, result) THEN stopped ELSE after)
      BY <1>1, <1>3 DEF ToolReturns, Record, Workers
    <2> HIDE DEF t
    <2>2. /\ after.pc = "calls" /\ after.ops = w.ops /\ after.deletes = w.deletes
          /\ stopped.pc = "processed" /\ stopped.ops = w.ops
      BY <1>1 DEF Workers
    <2> HIDE DEF after, stopped
    <2>3. CASE w' = Fails
      BY <2>3, FailedOK
    <2>4. CASE w' \in {after, stopped} /\ mem' = mem /\ disk' = mem
      <3>1. Live(w') = w.ops /\ w.ops \subseteq Live(w)
        BY <1>2, <1>3, <2>2, <2>4 DEF Live
      <3>2. LiveOK(Live(w'), started', denied', calls') /\ Apart(Live(w'), Waiting(mem))
        BY <1>2, <3>1, LiveStays
      <3>3. w'.pc = "calls" /\ ~ w'.deletes /\ mem'.mode = "Plan"
              => \A c \in w'.ops : c.tool \notin Mutating
        BY <1>2, <2>2, <2>4, <3>1 DEF AskOK
      <3> QED BY <2>2, <2>4, <3>2, <3>3, BatchHeld
    <2> QED BY <2>1, <2>3, <2>4, SaveCases
  <1>4. CASE w.origin = "approved"
    <2> DEFINE next == [w EXCEPT !.pc = "settle", !.out = result]
    <2>1. Save(mem, next)
      BY <1>4 DEF ToolReturns, Record
    <2>2. next.pc = "settle" /\ next.op = w.op
      BY <1>1 DEF Workers
    <2> HIDE DEF next
    <2>3. CASE w' = Fails
      BY <2>3, FailedOK
    <2>4. CASE w' = next /\ mem' = mem
      <3>1. Live(w') = {}
        BY <2>2, <2>4 DEF Live
      <3>2. BatchOK'
        BY <2>2, <2>4, <3>1 DEF BatchOK, LiveOK, Distinct, Open, Apart
      <3>3. RunOK'
        BY <1>2, <1>4, <2>2, <2>4 DEF RunOK
      <3>4. AskOK'
        BY <2>2, <2>4 DEF AskOK
      <3> QED BY <3>2, <3>3, <3>4
    <2> QED BY <2>1, <2>3, <2>4, SaveCases
  <1>5. CASE w.origin = "plan"
    <2>1. w' = At("plan") \/ w' = Fails
      BY <1>5, SaveCases DEF ToolReturns, Record
    <2>2. At("plan").pc = "plan"
      BY <1>1 DEF At, Workers
    <2> QED BY <2>1, <2>2, FailedOK, BetweenOK DEF Between
  <1> QED BY <1>2, <1>3, <1>4, <1>5

\* After the decision the calls behind the command are the batch.
LEMMA DecisionTaken ==
  ASSUME TypeInv, SessionsOK, BatchOK, RunOK, Worker, Settle
  PROVE  BatchOK' /\ RunOK' /\ AskOK'
PROOF
  <1>1. w \in Workers /\ WorkerOK(w) /\ mem \in Sessions
    BY DEF TypeInv, TypeOK, WorkerOK
  <1> DEFINE t == Feedback(w.turn, w.op.tool, w.out)
             p == [w EXCEPT !.turn = t]
             cleared == [p EXCEPT !.pc = "clear"]
             m == [mem EXCEPT !.approval = None, !.turn = t]
             rest == mem.approval.rest
             next == Batch(p, rest, "decision")
  <1>2. /\ w.pc = "settle" /\ mem.approval # None /\ w.op = mem.approval.op
        /\ Save(m, IF Repeated(w.turn, w.op.tool, w.out) THEN cleared ELSE next)
        /\ denied' \subseteq denied \cup {w.op.id}
        /\ UNCHANGED <<started, calls>>
    BY DEF Settle, RunOK, Deny, ButDenied
  <1>3. /\ w.op \in Call /\ w.out \in {"ok", "execution", "user_denied"}
        /\ w.born = w.heard /\ rest \in SUBSET Call
    BY <1>1, <1>2, SessionParts DEF WorkerOK
  <1>4. t \in Turns
    BY <1>1, <1>3, FeedbackIn DEF Workers, Call
  <1>5. m.plan = mem.plan /\ m.approval = None /\ m.mode = mem.mode
    BY <1>1 DEF Sessions
  <1> HIDE DEF t
  <1>6. p \in Workers /\ p.born = p.heard /\ cleared.pc = "clear"
    BY <1>1, <1>3, <1>4 DEF Workers
  <1> HIDE DEF p, cleared, m, rest
  <1>7. /\ WorkerOK(next) /\ next.pc \in {"calls", "processed"} /\ next.ops \subseteq rest
        /\ next.pc = "calls" =>
             /\ next.ops = rest /\ Planned(rest) = {}
             /\ next.deletes = \E c \in rest : c.tool \in Deletes
    BY <1>3, <1>6, BatchPlace
  <1> HIDE DEF next
  <1>8. CASE w' = Fails
    BY <1>8, FailedOK
  <1>9. CASE w' = cleared
    BY <1>6, <1>9, BetweenOK DEF Between
  <1>10. CASE w' = next /\ mem' = m /\ disk' = m
    <2>1. Live(w') = next.ops
      BY <1>7, <1>10 DEF Live
    <2>2. /\ Distinct(rest) /\ Apart({w.op}, rest) /\ Apart(mem.plan.calls, Asked(mem))
          /\ \A c \in rest : started[c.id] = 0
          /\ Open(Waiting(mem), calls, denied)
      BY <1>2 DEF SessionsOK, SessionOK, rest
    <2>3. rest \subseteq Asked(mem) /\ rest \subseteq Waiting(mem) /\ Waiting(m) = mem.plan.calls
      BY <1>2, <1>5 DEF rest, Asked, Waiting
    <2>4. \A c \in rest : c.id <= calls /\ c.id \notin denied /\ c.id # w.op.id
      BY <2>2, <2>3 DEF Open, Apart
    <2>5. LiveOK(Live(w'), started', denied', calls')
      BY <1>2, <1>7, <2>1, <2>2, <2>4 DEF LiveOK, Distinct, Open
    <2>6. Apart(Live(w'), Waiting(m))
      BY <1>7, <2>1, <2>2, <2>3 DEF Apart
    <2>7. w'.pc = "calls" /\ ~ w'.deletes /\ mem'.mode = "Plan"
            => \A c \in w'.ops : c.tool \notin Mutating
      BY <1>5, <1>7, <1>10, NoMutation
    <2> QED BY <1>7, <1>10, <2>5, <2>6, <2>7, BatchHeld
  <1> QED BY <1>2, <1>8, <1>9, <1>10, SaveCases

\* The next call of a plan is marked in flight, and has not started.
LEMMA PlanCallTaken ==
  ASSUME TypeInv, SessionsOK, PlanNext
  PROVE  BatchOK' /\ RunOK' /\ AskOK'
PROOF
  <1>1. w \in Workers /\ mem \in Sessions /\ started \in [1..MaxCalls -> Nat]
    BY DEF TypeInv, TypeOK, WorkerOK
  <1> DEFINE op == First(mem.plan.calls)
             m == PlanBegun(mem)
             next == [w EXCEPT !.pc = "run", !.op = op, !.origin = "plan"]
  <1>2. /\ mem.plan.inFlight = 0 /\ mem.plan.calls # {}
        /\ (w' = next /\ mem' = m /\ disk' = m) \/ w' = Fails
        /\ started' = started
    BY DEF PlanNext, SaveCandidate, OnlySession, history
  <1>3. /\ m.plan.calls = mem.plan.calls /\ m.plan.inFlight = op.id
        /\ \A c \in mem.plan.calls : started[c.id] = 0
    BY <1>1, <1>2, BegunOK DEF SessionsOK
  <1>4. op \in mem.plan.calls
    BY <1>1, <1>2, FirstCall, SessionParts
  <1>5. next.pc = "run" /\ next.op = op /\ next.origin = "plan"
    BY <1>1 DEF Workers
  <1>6. CASE w' = Fails
    BY <1>6, FailedOK
  <1>7. CASE w' = next /\ mem' = m /\ disk' = m
    <2>1. w'.op = First(mem'.plan.calls) /\ mem'.plan.calls # {} /\ mem'.plan.inFlight = w'.op.id
      BY <1>2, <1>3, <1>5, <1>7
    <2>2. started'[w'.op.id] = 0
      BY <1>2, <1>3, <1>4, <1>5, <1>7
    <2> HIDE DEF next, op, m
    <2>3. Live(w') = {}
      BY <1>5, <1>7 DEF Live
    <2>4. BatchOK'
      BY <1>5, <1>7, <2>3 DEF BatchOK, LiveOK, Distinct, Open, Apart
    <2>5. RunOK'
      BY <1>5, <1>7, <2>1, <2>2 DEF RunOK
    <2>6. AskOK'
      BY <1>5, <1>7, <2>3 DEF AskOK
    <2> QED BY <2>4, <2>5, <2>6
  <1> QED BY <1>2, <1>6, <1>7

\* The decision on a command runs it, or settles it at once.
LEMMA CommandDecided ==
  ASSUME TypeInv, StartApproveCommand \/ StartRejectCommand
  PROVE  BatchOK' /\ RunOK' /\ AskOK'
PROOF
  <1>1. w \in Workers
    BY DEF TypeInv, WorkerOK
  <1>2. CASE StartApproveCommand
    <2> DEFINE next == [w EXCEPT !.pc = "run", !.op = mem.approval.op, !.origin = "approved",
                                 !.turn = mem.turn]
    <2>1. /\ Save(mem, next) /\ mem.approval # None
          /\ approved' = approved \cup {mem.approval.op.id}
      BY <1>2 DEF StartApproveCommand, Record
    <2>2. next.pc = "run" /\ next.op = mem.approval.op /\ next.origin = "approved"
      BY <1>1 DEF Workers
    <2> HIDE DEF next
    <2>3. CASE w' = Fails
      BY <2>3, FailedOK
    <2>4. CASE w' = next /\ mem' = mem /\ disk' = mem
      <3>1. Live(w') = {}
        BY <2>2, <2>4 DEF Live
      <3>2. BatchOK'
        BY <2>2, <2>4, <3>1 DEF BatchOK, LiveOK, Distinct, Open, Apart
      <3>3. RunOK'
        BY <2>1, <2>2, <2>4 DEF RunOK
      <3>4. AskOK'
        BY <2>2, <2>4, <3>1 DEF AskOK
      <3> QED BY <3>2, <3>3, <3>4
    <2> QED BY <2>1, <2>3, <2>4, SaveCases
  <1>3. CASE StartRejectCommand
    <2>1. /\ w' = [w EXCEPT !.pc = "settle", !.op = mem.approval.op, !.turn = mem.turn,
                            !.out = "user_denied"]
          /\ mem.approval # None /\ mem' = mem
      BY <1>3 DEF StartRejectCommand, OnlyPlace, session
    <2>2. w'.pc = "settle" /\ w'.op = mem.approval.op
      BY <1>1, <2>1 DEF Workers
    <2>3. Live(w') = {}
      BY <2>2 DEF Live
    <2>4. BatchOK'
      BY <2>2, <2>3 DEF BatchOK, LiveOK, Distinct, Open, Apart
    <2>5. RunOK'
      BY <2>1, <2>2 DEF RunOK
    <2>6. AskOK'
      BY <2>2 DEF AskOK
    <2> QED BY <2>4, <2>5, <2>6
  <1> QED BY <1>2, <1>3

\* Every step of the worker keeps track of the calls in progress.
LEMMA WorkerCalls ==
  ASSUME TypeInv, SessionsOK, PastOK, BatchOK, RunOK, AskOK, Worker
  PROVE  BatchOK' /\ RunOK' /\ AskOK'
PROOF
  <1>1. w \in Workers
    BY DEF TypeInv, WorkerOK
  <1>2. CASE ModelResponds
    <2>1. w'.pc = "answered" /\ w'.out = "Respond"
      BY <1>1, <1>2 DEF ModelResponds, Workers
    <2>2. Live(w') = {}
      BY <2>1 DEF Live
    <2> QED BY <2>1, <2>2, NoBatchOK
  <1>3. CASE CallsDone \/ CallAsks
    <2>1. /\ w'.pc = "processed" /\ w'.ops = w.ops /\ w.pc = "calls"
          /\ UNCHANGED <<mem, disk, started, denied>>
      BY <1>1, <1>3 DEF CallsDone, CallAsks, Processed, Workers, OnlyPlace, OnlySession,
                        session, history
    <2>2. Live(w') = w.ops /\ Live(w) = w.ops
      BY <2>1 DEF Live
    <2>3. /\ LiveOK(Live(w'), started', denied', calls')
          /\ Apart(Live(w'), Waiting(mem)) /\ Apart(Live(w'), Waiting(disk))
      BY <2>1, <2>2, LiveStays
    <2> QED BY <2>1, <2>3, BatchHeld
  <1> QED BY <1>2, <1>3, AnswerBatch, AnswerTaken, CallTaken, CallStarted, CallReturned,
             DecisionTaken, PlanCallTaken, CommandDecided, LeadsBetween, BetweenOK

\* Keys, the answer and a restart leave the calls alone: the worker goes on or
\* has just been started.
LEMMA KeysQuiet ==
  ASSUME Keys \/ Receive \/ Crash
  PROVE  /\ UNCHANGED <<disk, started, approved, denied, calls>> /\ mem' \in {mem, disk}
         /\ (w' = w /\ mem' = mem) \/ w'.pc \in Between
PROOF
  <1> USE DEF uiVars, shared, session, history
  <1>1. Idle.pc \in Between /\ \A k : [Idle EXCEPT !.pc = "start", !.kind = k].pc \in Between
    BY DEF Idle, Between
  <1>2. CASE \E kind \in {"Text", "Toggle", "Approve", "Reject", "Revise"} : Submit(kind)
    BY <1>1, <1>2 DEF Submit, Send
  <1>3. CASE ChooseRevise \/ Enqueue \/ Steer \/ Cancel
    BY <1>3 DEF ChooseRevise, Enqueue, Steer, Cancel
  <1>4. CASE Receive
    <2>1. /\ UNCHANGED <<mem, disk, started, approved, denied, calls>>
          /\ w' = w \/ Send("Text")
      BY <1>4 DEF Receive
    <2> QED BY <1>1, <2>1 DEF Send
  <1>5. CASE Crash
    BY <1>1, <1>5 DEF Crash
  <1> QED BY <1>2, <1>3, <1>4, <1>5 DEF Keys

\* So they keep what is known of the calls.
LEMMA KeysCalls ==
  ASSUME SessionsOK, PastOK, BatchOK, RunOK, AskOK, Keys \/ Receive \/ Crash
  PROVE  SessionsOK' /\ PastOK' /\ BatchOK' /\ RunOK' /\ AskOK'
PROOF
  <1>1. /\ UNCHANGED <<disk, started, approved, denied, calls>> /\ mem' \in {mem, disk}
        /\ (w' = w /\ mem' = mem) \/ w'.pc \in Between
    BY KeysQuiet
  <1>2. SessionsOK' /\ PastOK'
    BY <1>1 DEF SessionsOK, PastOK, StartedOnce
  <1>3. CASE w' = w /\ mem' = mem
    <2>1. Live(w') = Live(w)
      BY <1>3
    <2>2. Waiting(mem') = Waiting(mem) /\ Waiting(disk') = Waiting(disk)
      BY <1>1, <1>3
    <2>3. BatchOK'
      BY <1>1, <1>3, <2>1, <2>2 DEF BatchOK
    <2>4. RunOK'
      BY <1>1, <1>3 DEF RunOK
    <2>5. AskOK'
      BY <1>1, <1>3, <2>1 DEF AskOK
    <2> QED BY <1>2, <2>3, <2>4, <2>5
  <1>4. CASE w'.pc \in Between
    BY <1>2, <1>4, BetweenOK
  <1> QED BY <1>1, <1>2, <1>3, <1>4

-----------------------------------------------------------------------------
(* The theorems *)

\* The initial state is in order.
LEMMA AgentStart == Init => AgentInv
PROOF
  <1> SUFFICES ASSUME Init PROVE AgentInv
    OBVIOUS
  <1>1. /\ ui = [busy |-> FALSE, mode |-> "Editing", prompt |-> FALSE]
        /\ queued = 0 /\ steer = << >> /\ nudged = FALSE /\ cancelled = FALSE /\ resp = None
        /\ w = Idle /\ mem = NewSession /\ disk = NewSession
        /\ started = [n \in 1..MaxCalls |-> 0] /\ approved = {} /\ denied = {}
        /\ sent = 0 /\ calls = 0 /\ steers = 0 /\ crashes = 0 /\ failures = 0
    BY DEF Init
  <1>2. NewSession \in Sessions
    <2>1. NoPlan \in Plans
      BY NoPlanIn
    <2> QED BY <2>1 DEF NewSession, Sessions, Plans
  <1>3. Idle \in Workers /\ Idle.pc = "idle" /\ Idle.born = 0 /\ Idle.heard = 0
    <2>1. Idle.turn \in Turns
      BY NewTurnIn DEF Idle
    <2> QED BY <2>1 DEF Idle, Workers, Places
  <1>4. WorkerOK(w)
    BY <1>1, <1>3 DEF WorkerOK
  <1>5. /\ MaxRequests \in Nat /\ MaxSteer \in Nat /\ MaxQueue \in Nat /\ MaxCrashes \in Nat
        /\ MaxFailures \in Nat /\ MaxCalls \in Nat
    BY BoundsAssumption, ToolsAssumption
  <1>6. Len(steer) = 0 /\ steer \in Seq(1..MaxRequests)
    BY <1>1, EmptySeq
  <1>7. Counted
    BY <1>1, <1>3, <1>5, <1>6 DEF Counted
  <1>8. /\ w.pc \in Places /\ w.turn \in Turns /\ w.ops \subseteq Call /\ w.op \in {None} \cup Call
        /\ w.heard \in 0..MaxSteer /\ w.born \in 0..MaxSteer
    BY <1>1, <1>3, <1>4, <1>5, WorkerTyped
  <1>9. TypeOK
    <2>1. /\ ui \in [busy : BOOLEAN, mode : {"Editing", "Awaiting", "Revising"}, prompt : BOOLEAN]
          /\ started \in [1..MaxCalls -> Nat] /\ approved \subseteq 1..MaxCalls
          /\ denied \subseteq 1..MaxCalls /\ {nudged, cancelled} \subseteq BOOLEAN
          /\ resp \in {None, "Message", "Approval", "Toggled", "Error"}
      BY <1>1
    <2>2. /\ queued \in 0..MaxQueue /\ sent \in 0..MaxRequests /\ calls \in 0..MaxCalls
          /\ steers \in 0..MaxSteer /\ crashes \in 0..MaxCrashes /\ failures \in 0..MaxFailures
      BY <1>1, <1>5
    <2>3. mem \in Sessions /\ disk \in Sessions
      BY <1>1, <1>2
    <2> QED BY <1>6, <1>8, <2>1, <2>2, <2>3 DEF TypeOK
  <1>10. Threads
    BY <1>1, <1>3 DEF Threads, AwaitingIsPending
  <1>11. SessionOK(NewSession, started, approved, denied, calls)
    <2>1. /\ NewSession.plan.calls = {} /\ NewSession.plan.inFlight = 0
          /\ NewSession.approval = None /\ Asked(NewSession) = {} /\ Waiting(NewSession) = {}
      BY DEF NewSession, NoPlan, Asked, Waiting
    <2> QED BY <2>1 DEF SessionOK, Distinct, Apart, Open
  <1>12. PastOK
    BY <1>1 DEF PastOK, StartedOnce
  <1>13. Live(w) = {}
    BY <1>1, <1>3 DEF Live
  <1>14. BatchOK /\ RunOK /\ AskOK
    BY <1>1, <1>3, <1>13 DEF BatchOK, LiveOK, Distinct, Open, Apart, RunOK, AskOK
  <1> QED BY <1>1, <1>4, <1>7, <1>9, <1>10, <1>11, <1>12, <1>14 DEF AgentInv, TypeInv, SessionsOK

\* Every step keeps it.
LEMMA AgentStep == AgentInv /\ [Next]_vars => AgentInv'
PROOF
  <1> SUFFICES ASSUME AgentInv, [Next]_vars PROVE AgentInv'
    OBVIOUS
  <1>1. TypeInv /\ Threads /\ SessionsOK /\ PastOK /\ BatchOK /\ RunOK /\ AskOK
    BY DEF AgentInv
  <1>2. CASE Worker
    <2>1. TypeInv'
      BY <1>1, <1>2, WorkerTypes
    <2>2. Threads'
      BY <1>1, <1>2, ThreadsStep DEF Next
    <2>3. SessionsOK' /\ PastOK'
      BY <1>1, <1>2, WorkerSessions, WorkerPast
    <2>4. BatchOK' /\ RunOK' /\ AskOK'
      BY <1>1, <1>2, WorkerCalls
    <2> QED BY <2>1, <2>2, <2>3, <2>4 DEF AgentInv
  <1>3. CASE Keys \/ Receive \/ Crash
    <2>1. TypeInv'
      BY <1>1, <1>3, KeyTypes
    <2>2. Threads'
      BY <1>1, <1>3, ThreadsStep DEF Next
    <2>3. SessionsOK' /\ PastOK' /\ BatchOK' /\ RunOK' /\ AskOK'
      BY <1>1, <1>3, KeysCalls
    <2> QED BY <2>1, <2>2, <2>3 DEF AgentInv
  <1>4. CASE UNCHANGED vars
    <2>1. TypeInv' /\ Threads'
      BY <1>1, <1>4 DEF vars, TypeInv, TypeOK, Counted, Threads, AwaitingIsPending, Pending
    <2>2. SessionsOK' /\ PastOK'
      BY <1>1, <1>4 DEF vars, SessionsOK, PastOK, StartedOnce
    <2>3. BatchOK' /\ RunOK' /\ AskOK'
      BY <1>1, <1>4 DEF vars, BatchOK, RunOK, AskOK, Live
    <2> QED BY <2>1, <2>2, <2>3 DEF AgentInv
  <1> QED BY <1>2, <1>3, <1>4 DEF Next

\* The agent keeps its invariant: the two threads agree, and every call the
\* model asked for is at one place only, from which it can start.
THEOREM AgentInvariant == Spec => []AgentInv
PROOF
  <1> QED BY AgentStart, AgentStep, PTL DEF Spec

\* The types of the sessions, the worker and the terminal.
THEOREM AgentTypes == Spec => []TypeOK
PROOF
  <1>1. AgentInv => TypeOK
    BY DEF AgentInv, TypeInv
  <1> QED BY <1>1, AgentInvariant, PTL

\* The plan on disk offers only calls whose effect is not there yet, but for
\* the first, which is then marked: a crash cannot make an approval of the
\* rest of a plan run what was done before.
THEOREM PlansAreAccurate == Spec => []PlanAccurate
PROOF
  <1>1. AgentInv => PlanAccurate
    <2> SUFFICES ASSUME AgentInv, NEW c \in disk.plan.calls, started[c.id] > 0
                 PROVE  c = First(disk.plan.calls) /\ disk.plan.inFlight = c.id
      BY DEF PlanAccurate
    <2>1. disk.plan.calls \in SUBSET Call
      BY SessionParts DEF AgentInv, TypeInv, TypeOK
    <2>2. c.id = disk.plan.inFlight /\ c.id # 0
      BY <2>1 DEF AgentInv, SessionsOK, SessionOK, Call
    <2>3. c.id = First(disk.plan.calls).id /\ Distinct(disk.plan.calls)
      BY <2>2 DEF AgentInv, SessionsOK, SessionOK
    <2>4. First(disk.plan.calls) \in disk.plan.calls
      BY <2>1, FirstCall
    <2> QED BY <2>2, <2>3, <2>4 DEF Distinct
  <1> QED BY <1>1, AgentInvariant, PTL

\* No call is started twice but a command the user approved by itself.
THEOREM CallsStartOnce == Spec => []StartedOnce
PROOF
  <1>1. AgentInv => StartedOnce
    BY DEF AgentInv, PastOK
  <1> QED BY <1>1, AgentInvariant, PTL

\* The terminal asks for a decision only while the engine waits for one.
THEOREM AskingIsPending == Spec => []AwaitingIsPending
PROOF
  <1>1. AgentInv => AwaitingIsPending
    BY DEF AgentInv, Threads
  <1> QED BY <1>1, AgentInvariant, PTL

\* Only the run of a tool starts a call.
LEMMA OnlyRunStarts ==
  ASSUME AgentInv, [Next]_vars, started' # started
  PROVE  RunTool /\ w.pc = "run" /\ started' = [started EXCEPT ![w.op.id] = @ + 1]
PROOF
  <1>1. Worker
    BY KeysQuiet DEF Next, vars
  <1>2. RunTool
    BY <1>1, WorkerFrame DEF AgentInv
  <1> QED BY <1>2 DEF RunTool

\* What the user denied never starts once the decision is saved, not after a
\* restart and not as part of another decision.
THEOREM DeniedNeverStarts == Spec => DeniedStays
PROOF
  <1>1. AgentInv /\ [Next]_vars => [\A n \in denied : started'[n] = started[n]]_vars
    <2> SUFFICES ASSUME AgentInv, [Next]_vars, NEW n \in denied
                 PROVE  started'[n] = started[n]
      OBVIOUS
    <2>1. CASE started' = started
      BY <2>1
    <2>2. CASE started' # started
      <3>1. w.pc = "run" /\ started' = [started EXCEPT ![w.op.id] = @ + 1]
        BY <2>2, OnlyRunStarts
      <3>2. w.op.id # n
        BY <3>1, RunOpen DEF AgentInv
      <3> QED BY <3>1, <3>2 DEF AgentInv, TypeInv, TypeOK
    <2> QED BY <2>1, <2>2
  <1> QED BY <1>1, AgentInvariant, PTL DEF Spec, DeniedStays

\* A turn runs no unclassified command of its own accord, and in plan mode no
\* mutation but a deletion whose path could not be resolved when asking was due.
THEOREM TurnsAskFirst == Spec => AskedFirst
PROOF
  <1>1. AgentInv /\ [Next]_vars =>
          [started' # started /\ w.origin = "turn"
             => /\ w.op.tool \notin Commands
                /\ mem.mode = "Plan" => w.op.tool \notin Mutating \ Deletes]_vars
    <2> SUFFICES ASSUME AgentInv, [Next]_vars, started' # started, w.origin = "turn"
                 PROVE  /\ w.op.tool \notin Commands
                        /\ mem.mode = "Plan" => w.op.tool \notin Mutating \ Deletes
      OBVIOUS
    <2>1. w.pc = "run"
      BY OnlyRunStarts
    <2> QED BY <2>1 DEF AgentInv, AskOK
  <1> QED BY <1>1, AgentInvariant, PTL DEF Spec, AskedFirst

\* What the model chose before an instruction was taken has no effect after it.
THEOREM StaleCallsNeverRun == Spec => StaleCallsDropped
PROOF
  <1>1. AgentInv /\ [Next]_vars =>
          [\/ started' # started /\ w.origin = "turn"
           \/ mem.plan # mem'.plan /\ w.pc = "processed" /\ w.caller = "turn"
           \/ mem.approval # mem'.approval /\ w.pc = "processed" /\ w.caller = "turn"
           => w.born = w.heard]_vars
    <2> SUFFICES ASSUME AgentInv, [Next]_vars, started' # started \/ w.pc = "processed"
                 PROVE  w.born = w.heard
      OBVIOUS
    <2>1. w.pc \in {"run", "processed"}
      BY OnlyRunStarts
    <2> QED BY <2>1 DEF AgentInv, TypeInv, WorkerOK
  <1> QED BY <1>1, AgentInvariant, PTL DEF Spec, StaleCallsDropped
=============================================================================
