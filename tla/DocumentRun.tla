----------------------------- MODULE DocumentRun -----------------------------
(***************************************************************************)
(* run_document as a sequence of stages that ask the provider: correction  *)
(* of text that was read by OCR, terminology preflight, translation and    *)
(* review -- the windows of BatchRecovery -- and the final validation with *)
(* its repair.  Correction and preflight are optional stages: depending on *)
(* the mode the run goes on without their result, or fails.  A store is    *)
(* attached, as in every program of the repository; what the stages write  *)
(* into it is the subject of TranslationRun.                               *)
(***************************************************************************)
EXTENDS BatchRecovery

\* The call of another stage than translation and review.
Call(b, loop) == stack' = << [Frame(b, 1, Lines[b], TRUE, "ok") EXCEPT !.at = loop] >>

CallReturned == status = "running" /\ ~ window.open /\ stack = << >> /\ ret # NoValue
Idle         == Running /\ ~ window.open /\ stack = << >>

\* One more attempt, while there is one.
Again(f, e) == IF f.attempt <= Retries THEN Goto([f EXCEPT !.attempt = @ + 1])
                                       ELSE Return(Err(e))

Enter(next) == stage' = next

\* cancellation.check() between two stages.
EnterUnlessCancelled(next) ==
  IF cancelled THEN status' = "cancelled" /\ UNCHANGED stage
               ELSE Enter(next) /\ UNCHANGED status

-----------------------------------------------------------------------------
(* ocr_correction *)

\* correct_with_model: the candidates of a batch are sent together, and one
\* that does not fit by itself is the end of the correction.
CorrectBatch ==
  /\ Idle /\ stage = "correction"
  /\ mode.correction # "off" /\ Unanswered # {}
  /\ IF cancelled THEN ret' = Err("cancelled") /\ UNCHANGED <<stack, trouble>>
     ELSE IF Lines[NextBatch] > RequestLines
     THEN ret' = Err("budget") /\ Note("budget") /\ UNCHANGED stack
     ELSE Call(NextBatch, "correction") /\ UNCHANGED <<ret, trouble>>
  /\ UNCHANGED <<stage, answers, window, accounting, cancelled, status>>

\* Every error is followed by the next attempt, also one of the provider and
\* a refused reservation.
AfterCorrection(f, e) ==
  CASE e = "ok"        -> Return(Ok(From(f.lo, f.hi)))
    [] e = "cancelled" -> Return(Err(e))
    [] OTHER           -> Again(f, "invalid")

CorrectionCached ==
  /\ In("correction") /\ Top.attempt = 1
  /\ \E e \in Cached : AfterCorrection(Top, e) /\ Note(e)
  /\ UNCHANGED <<stage, answers, window, accounting, cancelled, status>>

\* The guard is checked by the transport only, after the reservation.
CorrectionAsked ==
  /\ In("correction") /\ CanReserve(1)
  /\ \E e \in IF cancelled THEN {"cancelled"} ELSE Outcome :
       /\ Send(Top.b) /\ Note(e) /\ AfterCorrection(Top, e)
       /\ cancelled' = (e = "cancelled")
  /\ UNCHANGED <<stage, answers, window, concurrency, wasLimited, status>>

CorrectionRefused ==
  /\ In("correction") /\ ~ CanReserve(1)
  /\ AfterCorrection(Top, "budget") /\ Note("budget")
  /\ UNCHANGED <<stage, answers, window, accounting, cancelled, status>>

\* In Cinema an error of the correction is one of the run; the other modes
\* fall back to the corrections that need no model.
CorrectionReturns ==
  /\ CallReturned /\ stage = "correction"
  /\ ret' = NoValue
  /\ \/ /\ ret.kind = "ok"
        /\ Answer(NextBatch, ret.lines) /\ UNCHANGED <<stage, status>>
     \/ /\ ret.kind = "cancelled"
        /\ status' = "cancelled" /\ UNCHANGED <<stage, answers>>
     \/ /\ ret.kind \notin {"ok", "cancelled"} /\ mode.correction = "strict"
        /\ status' = "failed" /\ UNCHANGED <<stage, answers>>
     \/ /\ ret.kind \notin {"ok", "cancelled"} /\ mode.correction = "optional"
        /\ EnterUnlessCancelled("terminology") /\ UNCHANGED answers
  /\ UNCHANGED <<window, stack, accounting, cancelled, trouble>>

\* The report is saved, and the glossary loaded.
CorrectionEnds ==
  /\ Idle /\ stage = "correction"
  /\ mode.correction = "off" \/ Unanswered = {}
  /\ EnterUnlessCancelled("terminology")
  /\ UNCHANGED <<answers, window, stack, ret, accounting, cancelled, trouble>>

-----------------------------------------------------------------------------
(* terminology: TerminologyStage::run and generate *)

PreflightCached ==
  /\ Idle /\ stage = "terminology" /\ mode.preflight # "off" /\ Unanswered # {}
  /\ Answer(1, AllLines(1))
  /\ UNCHANGED <<stage, window, stack, ret, accounting, cancelled, status, trouble>>

Preflight ==
  /\ Idle /\ stage = "terminology" /\ mode.preflight # "off" /\ Unanswered # {}
  /\ Call(1, "terminology")
  /\ UNCHANGED <<stage, answers, window, ret, accounting, cancelled, status, trouble>>

AfterPreflight(f, e) ==
  CASE e = "ok" -> Return(Ok(From(f.lo, f.hi)))
    [] e = "cancelled" \/ IsOperational(e) -> Return(Err(e))
    [] OTHER -> Again(f, e)

PreflightStopped ==
  /\ In("terminology")
  /\ \/ /\ cancelled
        /\ Return(Err("cancelled")) /\ UNCHANGED trouble
     \/ /\ ~ cancelled /\ ~ CanReserve(1)
        /\ Return(Err("budget")) /\ Note("budget")
  /\ UNCHANGED <<stage, answers, window, accounting, cancelled, status>>

PreflightAsked ==
  /\ In("terminology") /\ ~ cancelled /\ CanReserve(1)
  /\ \E e \in Outcome :
       /\ Send(1) /\ Note(e) /\ AfterPreflight(Top, e)
       /\ cancelled' = (e = "cancelled")
  /\ UNCHANGED <<stage, answers, window, concurrency, wasLimited, status>>

\* Mutant of PreflightReturns: the policy is not asked.
PreflightReturnsStrict ==
  /\ CallReturned /\ stage = "terminology"
  /\ ret' = NoValue
  /\ IF ret.kind = "ok" THEN Answer(1, ret.lines) /\ UNCHANGED <<stage, status>>
     ELSE /\ status' = IF ret.kind = "cancelled" THEN "cancelled" ELSE "failed"
          /\ UNCHANGED <<stage, answers>>
  /\ UNCHANGED <<window, stack, accounting, cancelled, trouble>>

\* A degraded preflight forgives a cancellation too: the next check finds it.
PreflightReturns ==
  /\ CallReturned /\ stage = "terminology"
  /\ ret' = NoValue
  /\ \/ /\ ret.kind = "ok"
        /\ Answer(1, ret.lines) /\ UNCHANGED <<stage, status>>
     \/ /\ ret.kind = "budget" \/ (ret.kind # "ok" /\ mode.preflight = "strict")
        /\ status' = IF ret.kind = "cancelled" THEN "cancelled" ELSE "failed"
        /\ UNCHANGED <<stage, answers>>
     \/ /\ ret.kind \notin {"ok", "budget"} /\ mode.preflight = "optional"
        /\ Enter("translation") /\ UNCHANGED <<answers, status>>
  /\ UNCHANGED <<window, stack, accounting, cancelled, trouble>>

PreflightEnds ==
  /\ Idle /\ stage = "terminology"
  /\ mode.preflight = "off" \/ Unanswered = {}
  /\ Enter("translation")
  /\ UNCHANGED <<answers, window, stack, ret, accounting, cancelled, status, trouble>>

-----------------------------------------------------------------------------
(* translation, review and final validation *)

\* Every batch is committed, now or by the run that is resumed.
WindowsEnd ==
  /\ Idle /\ stage \in {"translation", "review"} /\ Unanswered = {}
  /\ EnterUnlessCancelled(IF stage = "translation" THEN "review" ELSE "validation")
  /\ UNCHANGED <<answers, window, stack, ret, accounting, cancelled, trouble>>

\* The output has no issues, or run_model_repair is asked for the lines that
\* have.
Validate ==
  /\ Idle /\ stage = "validation" /\ Unanswered # {}
  /\ \/ /\ Answer(1, AllLines(1))
        /\ UNCHANGED <<stack, status, trouble>>
     \/ /\ Note("invalid")
        /\ IF RepairLimit > 0
           THEN /\ stack' = << [Frame(1, 1, 1, TRUE, "invalid") EXCEPT !.at = "repair"] >>
                /\ UNCHANGED status
           ELSE status' = "failed" /\ UNCHANGED stack
        /\ UNCHANGED answers
  /\ UNCHANGED <<stage, window, ret, accounting, cancelled>>

ValidationReturns ==
  /\ CallReturned /\ stage = "validation"
  /\ ret' = NoValue
  /\ IF ret.kind = "ok" THEN Answer(1, ret.lines) /\ UNCHANGED status
     ELSE /\ status' = IF ret.kind = "cancelled" THEN "cancelled" ELSE "failed"
          /\ UNCHANGED answers
  /\ UNCHANGED <<stage, window, stack, accounting, cancelled, trouble>>

\* The translation memory is saved and the last checkpoint committed.
ValidationEnds ==
  /\ Idle /\ stage = "validation" /\ Unanswered = {}
  /\ status' = IF cancelled THEN "cancelled" ELSE "done"
  /\ UNCHANGED <<stage, answers, window, stack, ret, accounting, cancelled, trouble>>

-----------------------------------------------------------------------------

StageStep ==
  /\ UNCHANGED mode
  /\ \/ CorrectBatch \/ CorrectionCached \/ CorrectionAsked \/ CorrectionRefused
     \/ CorrectionReturns \/ CorrectionEnds
     \/ PreflightCached \/ Preflight \/ PreflightStopped \/ PreflightAsked
     \/ PreflightReturns \/ PreflightEnds
     \/ WindowsEnd \/ Validate \/ ValidationReturns \/ ValidationEnds

Step == StageStep \/ RecoveryStep

Finished == status # "running" /\ UNCHANGED vars

Next == Step \/ (Cancel /\ UNCHANGED <<mode, stage>>) \/ Finished

\* The run is one thread: it goes on as long as it can.
Spec == Init /\ [][Next]_vars /\ WF_vars(Step)

-----------------------------------------------------------------------------

FrameType(f) ==
  /\ f.b \in BatchNo /\ 1 <= f.lo /\ f.lo <= f.cut /\ f.cut <= f.hi
  /\ f.hi <= Lines[f.b]
  /\ f.at \in {"attempt", "left", "right", "repair", "correction", "terminology"}
  /\ f.attempt \in 1..(Retries + 1 + RepairLimit)

TypeOK ==
  /\ mode \in Modes /\ stage \in Stages
  /\ \A s \in Stages : DOMAIN answers[s] = DOMAIN mode.batches[s]
  /\ \A i \in 1..Len(stack) : FrameType(stack[i])
  /\ ret.kind \in Error \cup {"ok", "none"}
  /\ requests \in 0..mode.maxRequests
  /\ concurrency \in 1..Configured
  /\ wasLimited \in BOOLEAN /\ cancelled \in BOOLEAN
  /\ status \in {"running", "done", "failed", "cancelled"}

Calls == IF mode.align = "none" THEN 1 ELSE 2

\* The most that a batch of n lines can cost in a stage.
Cost(s, n) ==
  CASE s = "translation" -> (IF Parallel THEN 1 ELSE 0)
                            + Calls * ((2 * n - 1) * (Retries + 1) + RepairLimit)
    [] s = "review"      -> 1 + (Retries + 1) + RepairLimit
    [] s = "validation"  -> RepairLimit
    [] OTHER             -> Retries + 1

(***************************************************************************)
(* The recursion stays within a budget known in advance: a batch of n      *)
(* lines costs at most one request of its window and a call, one call more *)
(* to align its names: Retries + 1 for each of the 2n - 1 parts that       *)
(* splitting down to single lines can make, and the repairs of one failure,*)
(* whatever the backend answers.  A review is called once and never split, *)
(* the final validation only repaired, the optional stages only retried.   *)
(***************************************************************************)
RequestsBounded ==
  \A s \in Stages : \A b \in DOMAIN asked[s] : asked[s][b] <= Cost(s, mode.batches[s][b])

(***************************************************************************)
(* Once the run has met an error of the provider or of the budget, no      *)
(* request is sent any more, by no retry, split, repair, alignment or later*)
(* stage, unless a stage that the run can do without met it, or the OCR    *)
(* correction.  The run meets an error of a parallel window when it takes  *)
(* that response: the batches in front of it are still asked for again.    *)
(* And the first rate limit of a batch in a window is no such error: the   *)
(* batch is requeued, once.                                                *)
(***************************************************************************)
NoRequestAfterFatal == [][trouble = "fatal" => requests' = requests]_vars

(***************************************************************************)
(* The run is done when every batch of the translation and the review is   *)
(* answered, with its own lines, all of them, in order, however it was     *)
(* split or resumed, when the output is valid, and when correction and     *)
(* preflight have succeeded in the modes that insist on them.              *)
(***************************************************************************)
Required(s) ==
  CASE s = "correction"  -> mode.correction = "strict"
    [] s = "terminology" -> mode.preflight = "strict"
    [] OTHER             -> TRUE

DoneIsComplete ==
  status = "done" =>
    \A s \in Stages : Required(s) =>
      \A b \in DOMAIN answers[s] : answers[s][b] = From(1, mode.batches[s][b])

(***************************************************************************)
(* Splits and windows lose nothing by themselves, and a stage that the run *)
(* can do without does not fail it: when every other request was allowed   *)
(* and answered well, the run does not fail.                               *)
(***************************************************************************)
NoSpuriousFailure == status = "failed" => trouble # "none"

(***************************************************************************)
(* Whatever the backend answers, the run ends.                             *)
(***************************************************************************)
Terminates == <>(status # "running")
=============================================================================
