------------------------------ MODULE AgentTurn ------------------------------
(***************************************************************************)
(* The interactive agent: the terminal thread, which reads keys and owns   *)
(* the input queue, and the worker thread, which runs one operation at a   *)
(* time on the engine -- a turn of model calls and tool calls, a plan, or  *)
(* a decision on a command -- and saves the session as it goes.  The two   *)
(* share the queue of steering instructions, the interrupt of the model    *)
(* call in flight and the cancellation token.                              *)
(*                                                                         *)
(* One session is followed: mem is AgentEngine.session, disk the session   *)
(* file.  The dialogue itself is abstracted to what control depends on, a  *)
(* call to its tool and a number that identifies it from the moment the    *)
(* model asked for it.  Requests, calls, instructions, crashes and failed  *)
(* saves are bounded by the constants Max...; the bounds are in the        *)
(* guards.                                                                 *)
(***************************************************************************)
EXTENDS Naturals, Sequences, FiniteSets

CONSTANTS
  Tools,          \* the tools the model may call
  Mutating,       \* ToolHandler::mutates_with
  NeedsApproval,  \* requires_approval_with, commands and deletions excepted
  Commands,       \* run_command that command_policy classifies as AskUser
  Deletes,        \* delete_external_path
  Decisions,      \* the sequences of tools that one model answer may ask for
  MaxSteps,       \* AgentRuntimePolicy::max_steps
  MaxRequests, MaxCalls, MaxSteer, MaxQueue, MaxCrashes, MaxFailures,
  None            \* Option::None

ASSUME ToolsAssumption ==
  /\ Mutating \subseteq Tools /\ Commands \subseteq Tools
  /\ NeedsApproval \subseteq Mutating /\ Deletes \subseteq Mutating
  /\ Commands \cap (Deletes \cup NeedsApproval) = {} /\ Deletes \cap NeedsApproval = {}
  /\ Decisions \subseteq Seq(Tools) /\ MaxSteps \in Nat \ {0} /\ MaxCalls \in Nat

ASSUME BoundsAssumption ==
  {MaxRequests, MaxSteer, MaxQueue, MaxCrashes, MaxFailures} \subseteq Nat

VARIABLES
  \* the terminal thread
  ui,        \* InteractionState and approval_prompt
  queued,    \* Len(pending_inputs)
  \* shared by the threads
  steer,     \* TurnSteering.pending: for each instruction, the request it is for
  nudged,    \* the guard of the model call in flight has seen a submit
  cancelled, \* the guard of the operation has seen a cancel
  resp,      \* the response channel
  \* the worker thread
  w,         \* where it is and the local state of the operation
  mem,       \* engine.session
  disk,      \* the session file
  \* history and bounds
  started,   \* started[n]: how often the effect of call n was started
  approved,  \* calls the user approved one by one, as a command
  denied,    \* calls whose rejection was saved
  sent, calls, steers, crashes, failures

uiVars   == <<ui, queued>>
shared   == <<steer, nudged, cancelled, resp>>
session  == <<mem, disk, failures>>
history  == <<started, approved, denied>>
vars     == <<ui, queued, steer, nudged, cancelled, resp, w, mem, disk,
              started, approved, denied, sent, calls, steers, crashes, failures>>

Call == [id : 1..MaxCalls, tool : Tools]

\* The calls of a batch are taken in the order in which the model asked for
\* them, which is that of their numbers.
First(ops) == CHOOSE c \in ops : \A d \in ops : c.id <= d.id
Rest(ops)  == ops \ {First(ops)}
Ids(ops)   == {c.id : c \in ops}

-----------------------------------------------------------------------------
(* The session *)

NoPlan     == [open |-> FALSE, calls |-> {}, inFlight |-> 0]
NewSession == [mode |-> "Chat", plan |-> NoPlan, approval |-> None, turn |-> None]

Pending(s) == s.plan.open \/ s.approval # None   \* pending_approval_prompt

\* AgentTurnState: the model steps used, the mutations that succeeded and the
\* calls that failed once, with the category of the failure.
NewTurn == [steps |-> 0, done |-> {}, failed |-> {}]

\* Mutant of PlanFinished: the plan stays.
PlanFinishedKept(s) == [s EXCEPT !.mode = "Chat"]

PlanFinished(s) == [s EXCEPT !.mode = "Chat", !.plan = NoPlan]
PlanStored(s, ops) ==
  [s EXCEPT !.mode = "Plan", !.plan = [open |-> TRUE, calls |-> ops, inFlight |-> 0]]

\* Mutant of PlanBegun: the operation is not marked.
PlanBegunUnmarked(s) == s

PlanBegun(s) == [s EXCEPT !.plan.inFlight = First(s.plan.calls).id]

\* Mutant of PlanProgress: the completed call stays in the plan.
PlanProgressUncounted(s, id) == [s EXCEPT !.plan.inFlight = 0]

PlanProgress(s, id) ==
  IF s.plan.inFlight # id THEN s
  ELSE [s EXCEPT !.plan.calls = Rest(@), !.plan.inFlight = 0]
ModeSet(s, on) ==
  IF on THEN [s EXCEPT !.mode = "Plan"] ELSE [s EXCEPT !.mode = "Chat", !.plan = NoPlan]
ApprovalStored(s, op, rest, turn) ==
  [s EXCEPT !.approval = [op |-> op, rest |-> rest], !.turn = turn]
ApprovalCleared(s) == [s EXCEPT !.approval = None, !.turn = None]

-----------------------------------------------------------------------------
(* The worker's place *)

\* pc is a point of the operation in progress, kind its TuiAction; ops are the
\* calls of the batch still to process, op the one being run, origin why it
\* runs and caller who processes the batch; heard counts the instructions the
\* operation has taken and born is heard when the model chose the batch.
Idle  == [pc |-> "idle", kind |-> None, turn |-> NewTurn, ops |-> {},
          deletes |-> FALSE, op |-> None, origin |-> None, caller |-> None,
          out |-> None, heard |-> 0, born |-> 0]
At(pc) == [w EXCEPT !.pc = pc]
Fails  == At("error")

\* A save of the session with the change m already made to it in memory.  (A
\* session without dialogue leaves no file; the dialogue is abstracted.)
Save(m, next) ==
  /\ mem' = m
  /\ \/ disk' = m /\ w' = next /\ UNCHANGED failures
     \/ failures < MaxFailures /\ failures' = failures + 1 /\ w' = Fails /\ UNCHANGED disk

\* Two saves in a row with no step between that another thread could see.
SaveTwice(m, next) ==
  \/ Save(m, next)
  \/ /\ failures < MaxFailures /\ failures' = failures + 1
     /\ mem' = m /\ disk' = m /\ w' = Fails

\* A save of a candidate, which becomes the session only when it is on disk.
SaveCandidate(m, next) ==
  \/ mem' = m /\ disk' = m /\ w' = next /\ UNCHANGED failures
  \/ /\ failures < MaxFailures /\ failures' = failures + 1 /\ w' = Fails
     /\ UNCHANGED <<mem, disk>>

\* The session record of an event: nothing but the dialogue changes.
Record(next) == Save(mem, next)

\* The user turned these calls down, and the session on disk says so.
Deny(ids, m) == denied' = IF disk' = m THEN denied \cup ids ELSE denied

\* The calls of a batch that must go into a plan instead of running.
Planned(ops) ==
  LET inPlan == mem.mode = "Plan"
      plans(c) == /\ c.tool \in Mutating
                  /\ c.tool \in Commands => inPlan
                  /\ inPlan \/ c.tool \in NeedsApproval
  IN IF \E c \in ops : c.tool \in Deletes THEN {} ELSE {c \in ops : plans(c)}

\* Entry of process_tool_calls.
Batch(place, ops, caller) ==
  LET planned == Planned(ops)
      entered == [place EXCEPT !.caller = caller,
                    !.deletes = \E c \in ops : c.tool \in Deletes]
  IN CASE ops = {} -> [entered EXCEPT !.pc = "processed", !.ops = {},
                           !.out = IF caller = "turn" THEN "Stopped" ELSE "Continue"]
       [] ops # {} /\ planned # {} ->
            [entered EXCEPT !.pc = "processed", !.ops = planned, !.out = "Planned"]
       [] OTHER -> [entered EXCEPT !.pc = "calls", !.ops = ops]

Processed(out) == [w EXCEPT !.pc = "processed", !.out = out]

\* record_tool_feedback: a call that fails the same way a second time stops
\* the batch.
Feedback(turn, tool, result) ==
  IF result = "ok"
  THEN [turn EXCEPT !.done = IF tool \in Mutating THEN @ \cup {tool} ELSE @]
  ELSE [turn EXCEPT !.failed = @ \cup {<<tool, result>>}]
Repeated(turn, tool, result) == <<tool, result>> \in turn.failed

-----------------------------------------------------------------------------
(* Keys that start an operation *)

Init ==
  /\ ui = [busy |-> FALSE, mode |-> "Editing", prompt |-> FALSE]
  /\ queued = 0 /\ steer = <<>> /\ nudged = FALSE /\ cancelled = FALSE /\ resp = None
  /\ w = Idle /\ mem = NewSession /\ disk = NewSession
  /\ started = [n \in 1..MaxCalls |-> 0] /\ approved = {} /\ denied = {}
  /\ sent = 0 /\ calls = 0 /\ steers = 0 /\ crashes = 0 /\ failures = 0

Send(kind) ==
  /\ sent' = sent + 1
  /\ cancelled' = FALSE
  /\ w' = [Idle EXCEPT !.pc = "start", !.kind = kind]

Allowed(mode) ==
  CASE mode = "Editing"  -> {"Text", "Toggle"}
    [] mode = "Awaiting" -> {"Approve", "Reject", "Toggle"}
    [] mode = "Revising" -> {"Revise", "Reject", "Toggle"}

Submit(kind) ==
  /\ ~ui.busy /\ kind \in Allowed(ui.mode)
  /\ sent + queued < MaxRequests
  /\ Send(kind)
  /\ ui' = [ui EXCEPT !.busy = TRUE, !.mode = "Editing"]
  /\ UNCHANGED <<queued, steer, nudged, resp, session, history, calls, steers, crashes>>

ChooseRevise ==
  /\ ~ui.busy /\ ui.mode = "Awaiting"
  /\ ui' = [ui EXCEPT !.mode = "Revising"]
  /\ UNCHANGED <<queued, shared, w, session, history, sent, calls, steers, crashes>>

(* Keys while an operation is running *)

Enqueue ==
  /\ ui.busy /\ queued < MaxQueue /\ sent + queued < MaxRequests
  /\ queued' = queued + 1
  /\ UNCHANGED <<ui, shared, w, session, history, sent, calls, steers, crashes>>

Steer ==
  /\ ui.busy /\ steers < MaxSteer
  /\ steers' = steers + 1
  /\ steer' = Append(steer, sent)
  /\ nudged' = TRUE
  /\ UNCHANGED <<uiVars, cancelled, resp, w, session, history, sent, calls, crashes>>

Cancel ==
  /\ ui.busy /\ ~cancelled
  /\ cancelled' = TRUE
  /\ UNCHANGED <<uiVars, steer, nudged, resp, w, session, history, sent, calls, steers, crashes>>

\* Mutant of Receive: after an error an approval that was asked for is asked
\* for again.
ReceiveAsking ==
  /\ resp # None
  /\ resp' = None
  /\ ui' = [ui EXCEPT !.busy = FALSE, !.prompt = resp = "Approval" \/ (@ /\ resp = "Error"),
               !.mode = IF resp = "Approval" \/ (ui.prompt /\ resp = "Error")
                        THEN "Awaiting" ELSE "Editing"]
  /\ UNCHANGED <<w, sent, cancelled, queued, steer, nudged, session, history, calls,
                 steers, crashes>>

\* The answer of the worker, and submit_next_queued.
Receive ==
  /\ resp # None
  /\ resp' = None
  /\ LET prompt == CASE resp = "Message"  -> FALSE
                     [] resp = "Approval" -> TRUE
                     [] OTHER             -> ui.prompt
         mode   == IF resp = "Approval" THEN "Awaiting" ELSE "Editing"
         next   == mode = "Editing" /\ ~prompt /\ queued > 0
     IN /\ ui' = [busy |-> next, mode |-> mode, prompt |-> prompt]
        /\ IF next
           THEN Send("Text") /\ queued' = queued - 1
           ELSE UNCHANGED <<w, sent, cancelled, queued>>
  /\ UNCHANGED <<steer, nudged, session, history, calls, steers, crashes>>

-----------------------------------------------------------------------------
(* The worker takes a request *)

Starts(kind) == w.pc = "start" /\ w.kind = kind
OnlySession  == UNCHANGED <<uiVars, shared, history, sent, calls, steers, crashes>>
ButDenied    == UNCHANGED <<uiVars, shared, started, approved, sent, calls, steers, crashes>>
OnlyPlace    == OnlySession /\ UNCHANGED session

StartText ==
  /\ Starts("Text")
  /\ IF cancelled THEN w' = Fails /\ UNCHANGED session ELSE Record(At("head"))
  /\ OnlySession

StartToggle ==
  /\ Starts("Toggle")
  /\ LET on == mem.mode # "Plan"
         m  == ModeSet(mem, on)
     IN Save(m, At("reply")) /\ Deny(IF on THEN {} ELSE Ids(mem.plan.calls), m)
  /\ ButDenied

StartApprovePlan ==
  /\ Starts("Approve") /\ mem.plan.open
  /\ w' = At("plan")
  /\ OnlyPlace

\* handle_command_decision, Approve, up to the run of the tool.
StartApproveCommand ==
  /\ Starts("Approve") /\ ~mem.plan.open /\ mem.approval # None /\ mem.turn # None
  /\ approved' = approved \cup {mem.approval.op.id}
  /\ Record([w EXCEPT !.pc = "run", !.op = mem.approval.op, !.origin = "approved",
                      !.turn = mem.turn])
  /\ UNCHANGED <<uiVars, shared, started, denied, sent, calls, steers, crashes>>

StartRejectPlan ==
  /\ Starts("Reject") /\ mem.plan.open
  /\ SaveTwice(PlanFinished(mem), At("reply"))
  /\ Deny(Ids(mem.plan.calls), PlanFinished(mem))
  /\ ButDenied

\* handle_command_decision, Reject, up to the feedback.
StartRejectCommand ==
  /\ Starts("Reject") /\ ~mem.plan.open /\ mem.approval # None /\ mem.turn # None
  /\ w' = [w EXCEPT !.pc = "settle", !.op = mem.approval.op, !.turn = mem.turn,
                    !.out = "user_denied"]
  /\ OnlyPlace

\* Mutant of StartRefused: the worker goes back to its queue without an answer.
StartRefusedSilently ==
  /\ Starts("Approve") \/ Starts("Reject")
  /\ ~mem.plan.open /\ (mem.approval = None \/ mem.turn = None)
  /\ w' = Idle
  /\ OnlyPlace

\* No approval to decide on, or one whose turn is no longer persisted.
StartRefused ==
  /\ Starts("Approve") \/ Starts("Reject")
  /\ ~mem.plan.open /\ (mem.approval = None \/ mem.turn = None)
  /\ w' = Fails
  /\ OnlyPlace

\* revise_pending_approval, and run_line on the replacement.
StartRevise ==
  /\ Starts("Revise") /\ Pending(mem)
  /\ LET m == IF mem.plan.open THEN PlanFinished(mem) ELSE ApprovalCleared(mem)
         dropped == IF mem.plan.open THEN Ids(mem.plan.calls)
                    ELSE {mem.approval.op.id} \cup Ids(mem.approval.rest)
     IN /\ IF cancelled THEN Save(m, Fails) ELSE SaveTwice(m, At("head"))
        /\ Deny(dropped, m)
  /\ ButDenied

-----------------------------------------------------------------------------
(* A turn of the model *)

\* Mutant of ToolsEnabled: one step too many.
ToolsEnabledAtLimit == w.turn.steps <= MaxSteps

ToolsEnabled == w.turn.steps < MaxSteps

\* apply_pending_steering with instructions in the queue.
Drain(next) ==
  /\ steer # <<>>
  /\ steer' = <<>>
  /\ Record([next EXCEPT !.heard = @ + 1])

\* The head of the loop, up to the model call and its fresh guard.
CallModel ==
  /\ w.pc = "head"
  /\ ToolsEnabled => ~cancelled
  /\ nudged' = FALSE
  /\ \/ Drain(At("model"))
     \/ steer = <<>> /\ w' = At("model") /\ UNCHANGED <<steer, session>>
  /\ UNCHANGED <<uiVars, cancelled, resp, history, sent, calls, steers, crashes>>

HeadCancelled ==
  /\ w.pc = "head" /\ ToolsEnabled /\ cancelled
  /\ w' = Fails
  /\ OnlyPlace

\* The model answers with text, or the provider fails: Respond and AskUser.
ModelResponds ==
  /\ w.pc = "model"
  /\ w' = [w EXCEPT !.pc = "answered", !.out = "Respond", !.born = w.heard]
  /\ OnlyPlace

ModelCallsTools ==
  /\ w.pc = "model" /\ ToolsEnabled
  /\ \E d \in Decisions :
       /\ calls + Len(d) <= MaxCalls
       /\ calls' = calls + Len(d)
       /\ w' = [w EXCEPT !.pc = "answered", !.out = "ToolCalls", !.born = w.heard,
                         !.ops = {[id |-> calls + i, tool |-> d[i]] : i \in DOMAIN d}]
  /\ UNCHANGED <<uiVars, shared, session, history, sent, steers, crashes>>

\* The guard of the call sees the cancellation or a new instruction.
ModelInterrupted ==
  /\ w.pc = "model" /\ (cancelled \/ nudged)
  /\ IF cancelled
     THEN w' = Fails /\ UNCHANGED <<steer, session>>
     ELSE Drain(At("head"))
  /\ UNCHANGED <<uiVars, nudged, cancelled, resp, history, sent, calls, steers, crashes>>

\* Mutant of AnswerDiscarded: the instruction is taken, the answer is kept.
AnswerKept ==
  /\ w.pc = "answered" /\ w.out = "ToolCalls"
  /\ Drain(Batch([w EXCEPT !.turn.steps = @ + 1], w.ops, "turn"))
  /\ UNCHANGED <<uiVars, nudged, cancelled, resp, history, sent, calls, steers, crashes>>

\* A step is counted, then an instruction discards the answer.
AnswerDiscarded ==
  /\ w.pc = "answered"
  /\ Drain([w EXCEPT !.pc = "head", !.turn.steps = IF ToolsEnabled THEN @ + 1 ELSE @])
  /\ UNCHANGED <<uiVars, nudged, cancelled, resp, history, sent, calls, steers, crashes>>

AnswerIsText ==
  /\ w.pc = "answered" /\ steer = <<>> /\ w.out = "Respond"
  /\ w' = At("clear")
  /\ OnlyPlace

AnswerIsCalls ==
  /\ w.pc = "answered" /\ steer = <<>> /\ w.out = "ToolCalls"
  /\ Record(Batch([w EXCEPT !.turn.steps = @ + 1], w.ops, "turn"))
  /\ OnlySession

-----------------------------------------------------------------------------
(* process_tool_calls *)

\* Mutant of Asks: a mutation next to a deletion runs in plan mode as well.
AsksAlone(c) == c.tool \in Deletes \cup Commands

\* Calls that wait for a decision of their own.
Asks(c) ==
  \/ c.tool \in Deletes \cup Commands
  \/ w.deletes /\ mem.mode = "Plan" /\ c.tool \in Mutating

\* A deletion waits only if prepare_external_delete_call can resolve its path
\* at this moment.  Otherwise it falls through to run_tool, which resolves the
\* path again and deletes what has appeared there since.
FallsThrough(c) == c.tool \in Deletes

CallsDone ==
  /\ w.pc = "calls" /\ (w.ops = {} \/ steer # <<>>)
  /\ w' = Processed("Continue")
  /\ OnlyPlace

CallsCancelled ==
  /\ w.pc = "calls" /\ w.ops # {} /\ steer = <<>> /\ cancelled
  /\ w' = Fails
  /\ OnlyPlace

CallAsks ==
  /\ w.pc = "calls" /\ w.ops # {} /\ steer = <<>> /\ ~cancelled
  /\ Asks(First(w.ops))
  /\ w' = Processed("Asks")
  /\ OnlyPlace

CallStarts ==
  /\ w.pc = "calls" /\ w.ops # {} /\ steer = <<>> /\ ~cancelled
  /\ ~Asks(First(w.ops)) \/ FallsThrough(First(w.ops))
  /\ Record([w EXCEPT !.pc = "run", !.op = First(w.ops), !.origin = "turn", !.ops = Rest(@)])
  /\ OnlySession

\* A mutation that already succeeded in this task is answered, not run.
Duplicate == w.origin = "turn" /\ w.op.tool \in Mutating \cap w.turn.done

\* run_tool from its check of the cancellation to its first effect.
RunTool ==
  /\ w.pc = "run" /\ ~Duplicate /\ ~cancelled
  /\ started' = [started EXCEPT ![w.op.id] = @ + 1]
  /\ w' = At("running")
  /\ UNCHANGED <<uiVars, shared, session, approved, denied, sent, calls, steers, crashes>>

ToolCancelled ==
  /\ w.pc \in {"run", "running"} /\ cancelled /\ ~(w.pc = "run" /\ Duplicate)
  /\ Record(Fails)
  /\ OnlySession

\* The tool is done, or refused as a duplicate, and its result is recorded.
ToolReturns(result) ==
  /\ \/ w.pc = "running" /\ result \in {"ok", "execution"}
     \/ w.pc = "run" /\ Duplicate /\ result = "duplicate_mutation"
  /\ CASE w.origin = "turn" ->
            LET after == [w EXCEPT !.pc = "calls", !.turn = Feedback(@, w.op.tool, result)]
            IN Record(IF Repeated(w.turn, w.op.tool, result)
                      THEN [after EXCEPT !.pc = "processed", !.out = "Stopped"] ELSE after)
       [] w.origin = "approved" -> Record([w EXCEPT !.pc = "settle", !.out = result])
       [] w.origin = "plan" /\ result = "ok" ->
            SaveCandidate(PlanProgress(mem, w.op.id), At("plan"))
       [] w.origin = "plan" /\ result # "ok" -> Record(Fails)
  /\ OnlySession

\* The rest of handle_command_decision: the decision is recorded, then the
\* calls that were waiting behind the command are processed.
Settle ==
  /\ w.pc = "settle"
  /\ LET turn == Feedback(w.turn, w.op.tool, w.out)
         m    == [mem EXCEPT !.approval = None, !.turn = turn]
         next == [w EXCEPT !.turn = turn]
     IN /\ Save(m, IF Repeated(w.turn, w.op.tool, w.out)
                   THEN [next EXCEPT !.pc = "clear"]
                   ELSE Batch(next, mem.approval.rest, "decision"))
        /\ Deny(IF w.kind = "Reject" THEN {w.op.id} ELSE {}, m)
  /\ ButDenied

\* After the batch: an instruction drops what a turn prepared.
BatchDiscarded ==
  /\ w.pc = "processed" /\ w.caller = "turn"
  /\ Drain(At("head"))
  /\ UNCHANGED <<uiVars, nudged, cancelled, resp, history, sent, calls, steers, crashes>>

BatchTaken ==
  /\ w.pc = "processed" /\ (w.caller = "turn" => steer = <<>>)
  /\ CASE w.out = "Continue" -> w' = At("head") /\ UNCHANGED session
       [] w.out = "Stopped"  -> w' = At("clear") /\ UNCHANGED session
       [] w.out = "Planned"  -> Save(PlanStored(mem, w.ops), At("clear"))
       [] w.out = "Asks"     ->
            IF Pending(mem) THEN w' = Fails /\ UNCHANGED session
            ELSE Save(ApprovalStored(mem, First(w.ops), Rest(w.ops), w.turn), At("reply"))
  /\ OnlySession

\* clear_pending_agent_turn and finish_response.
ClearTurn ==
  /\ w.pc = "clear"
  /\ SaveTwice([mem EXCEPT !.turn = None], At("reply"))
  /\ OnlySession

-----------------------------------------------------------------------------
(* approve_plan *)

PlanNext ==
  /\ w.pc = "plan" /\ mem.plan.inFlight = 0 /\ mem.plan.calls # {} /\ ~cancelled
  /\ LET begun == PlanBegun(mem)
     IN \/ SaveCandidate(begun, [w EXCEPT !.pc = "run", !.op = First(mem.plan.calls),
                                          !.origin = "plan"])
        \/ /\ failures < MaxFailures /\ failures' = failures + 1
           /\ mem' = begun /\ disk' = begun /\ w' = Fails
  /\ OnlySession

\* The outcome of an earlier call is unknown, or the user cancelled.
PlanRefused ==
  /\ w.pc = "plan"
  /\ mem.plan.inFlight # 0 \/ (mem.plan.calls # {} /\ cancelled)
  /\ w' = Fails
  /\ OnlyPlace

PlanDone ==
  /\ w.pc = "plan" /\ mem.plan.inFlight = 0 /\ mem.plan.calls = {}
  /\ SaveTwice(PlanFinished(mem), At("reply"))
  /\ OnlySession

-----------------------------------------------------------------------------
(* The answer to the terminal, and the end of the process *)

\* The session is saved once more, whether the operation failed or not; an
\* error of that save is ignored.
Reply ==
  /\ w.pc \in {"reply", "error"}
  /\ w' = Idle
  /\ resp' = CASE w.pc = "error"      -> "Error"
               [] w.pc = "reply" /\ w.kind = "Toggle" -> "Toggled"
               [] w.pc = "reply" /\ w.kind # "Toggle" ->
                    IF Pending(mem) THEN "Approval" ELSE "Message"
  /\ UNCHANGED mem
  /\ \/ disk' = mem /\ UNCHANGED failures
     \/ failures < MaxFailures /\ failures' = failures + 1 /\ UNCHANGED disk
  /\ UNCHANGED <<uiVars, steer, nudged, cancelled, history, sent, calls, steers, crashes>>

\* The process stops anywhere and the session is resumed.
Crash ==
  /\ crashes < MaxCrashes
  /\ crashes' = crashes + 1
  /\ mem' = disk /\ w' = Idle /\ resp' = None
  /\ ui' = [busy |-> FALSE, prompt |-> Pending(disk),
            mode |-> IF Pending(disk) THEN "Awaiting" ELSE "Editing"]
  /\ queued' = 0 /\ steer' = <<>> /\ nudged' = FALSE /\ cancelled' = FALSE
  /\ UNCHANGED <<disk, failures, history, sent, calls, steers>>

Keys == \/ \E kind \in {"Text", "Toggle", "Approve", "Reject", "Revise"} : Submit(kind)
        \/ ChooseRevise \/ Enqueue \/ Steer \/ Cancel

Worker ==
  \/ StartText \/ StartToggle \/ StartApprovePlan \/ StartApproveCommand
  \/ StartRejectPlan \/ StartRejectCommand \/ StartRefused \/ StartRevise
  \/ CallModel \/ HeadCancelled \/ ModelResponds \/ ModelCallsTools \/ ModelInterrupted
  \/ AnswerDiscarded \/ AnswerIsText \/ AnswerIsCalls
  \/ CallsDone \/ CallsCancelled \/ CallAsks \/ CallStarts
  \/ RunTool \/ ToolCancelled
  \/ \E result \in {"ok", "execution", "duplicate_mutation"} : ToolReturns(result)
  \/ Settle \/ BatchDiscarded \/ BatchTaken \/ ClearTurn
  \/ PlanNext \/ PlanRefused \/ PlanDone \/ Reply

Next == Keys \/ Receive \/ Worker \/ Crash

\* Both threads keep running: a provider answers or times out, a tool returns.
Fairness == WF_vars(Worker) /\ WF_vars(Receive)
Spec == Init /\ [][Next]_vars /\ Fairness
-----------------------------------------------------------------------------
(* Properties *)

Turns == [steps : 0..MaxSteps, done : SUBSET Mutating,
          failed : SUBSET (Tools \X {"execution", "duplicate_mutation", "user_denied"})]
Sessions ==
  [mode     : {"Chat", "Plan"},
   plan     : [open : BOOLEAN, calls : SUBSET Call, inFlight : 0..MaxCalls],
   approval : {None} \cup [op : Call, rest : SUBSET Call],
   turn     : {None} \cup Turns]
Places == {"idle", "start", "head", "model", "answered", "calls", "run", "running",
           "settle", "processed", "clear", "plan", "reply", "error"}

\* The types of the sessions, the worker and the terminal.
TypeOK ==
  /\ ui \in [busy : BOOLEAN, mode : {"Editing", "Awaiting", "Revising"}, prompt : BOOLEAN]
  /\ queued \in 0..MaxQueue /\ steer \in Seq(1..MaxRequests)
  /\ {nudged, cancelled} \subseteq BOOLEAN
  /\ resp \in {None, "Message", "Approval", "Toggled", "Error"}
  /\ w.pc \in Places /\ w.turn \in Turns /\ w.ops \subseteq Call /\ w.op \in {None} \cup Call
  /\ w.heard \in 0..MaxSteer /\ w.born \in 0..MaxSteer
  /\ mem \in Sessions /\ disk \in Sessions
  /\ started \in [1..MaxCalls -> Nat] /\ approved \subseteq 1..MaxCalls
  /\ denied \subseteq 1..MaxCalls
  /\ sent \in 0..MaxRequests /\ calls \in 0..MaxCalls /\ steers \in 0..MaxSteer
  /\ crashes \in 0..MaxCrashes /\ failures \in 0..MaxFailures

\* The plan on disk never offers a call whose effect may already be there:
\* only its first call can have been started, and then it is marked in flight.
\* This is what begin_call saves before, and complete_call with, a result.
PlanAccurate ==
  \A c \in disk.plan.calls :
    started[c.id] > 0 => c = First(disk.plan.calls) /\ disk.plan.inFlight = c.id

\* Whatever is cancelled, fails to be saved or crashes, no call is started
\* twice, neither a call of a plan nor one that waited behind a command.  A
\* command the user approved by itself is the exception: its approval stays
\* pending until the decision is saved.
StartedOnce == \A n \in 1..MaxCalls : started[n] > 1 => n \in approved

\* What the user rejected, revised or dropped with its plan never starts
\* afterwards, once that decision is saved: not after a restart, and not as
\* part of another decision.
DeniedStays ==
  [][ \A n \in denied : started'[n] = started[n] ]_vars

\* The terminal asks for a decision only while the engine has one to take: no
\* key in the approval picker can act on an approval that is gone.
AwaitingIsPending == ~ui.busy /\ ui.mode \in {"Awaiting", "Revising"} => Pending(mem)

\* A turn runs no unclassified command of its own accord, and in plan mode no
\* mutation, in whatever batch the call comes.  A deletion outside the project
\* is excepted: it starts unasked when its path could not be resolved at the
\* moment the question was due (FallsThrough).
AskedFirst ==
  [][ started' # started /\ w.origin = "turn"
        => /\ w.op.tool \notin Commands
           /\ mem.mode = "Plan" => w.op.tool \notin Mutating \ Deletes ]_vars

\* Once an instruction is taken, what the model chose before it has no effect
\* any more: none of those calls starts, becomes a plan or asks for approval.
StaleCallsDropped ==
  [][ \/ started' # started /\ w.origin = "turn"
      \/ mem.plan # mem'.plan /\ w.pc = "processed" /\ w.caller = "turn"
      \/ mem.approval # mem'.approval /\ w.pc = "processed" /\ w.caller = "turn"
      => w.born = w.heard ]_vars

\* Every operation is answered: the terminal does not stay busy.
Answered == ui.busy ~> ~ui.busy

(* A property the code does not have *)

\* tools.rs: asset changes require approval.  No such call is run by a turn.
ApprovalRequired ==
  [][ started' # started /\ w.origin = "turn" => w.op.tool \notin NeedsApproval ]_vars
=============================================================================
