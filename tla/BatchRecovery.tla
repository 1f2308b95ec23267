---------------------------- MODULE BatchRecovery ----------------------------
(***************************************************************************)
(* How the translation and the review of a document get an answer for      *)
(* every batch: the loops of translation_runner.rs and review_runner.rs    *)
(* and, in pipeline.rs, translate_window, reconcile_translation_window,    *)
(* translate_batch_impl, translate_split, review_window, review_batch_impl *)
(* and the two finish_..._failure with run_model_repair, under the         *)
(* accounting of pipeline/accounting.rs.  DocumentRun puts the other       *)
(* stages of a run around them.                                            *)
(*                                                                         *)
(* A request is answered well, with lines that do not validate, with       *)
(* something that is no translation, or not at all: the provider limits    *)
(* the rate, fails, or the user cancels.  The recursion of the code is a   *)
(* stack of frames, one per call of translate_batch_impl in progress with  *)
(* the split it waits for, and a value on its way back to the caller.      *)
(* Lines of a batch are numbered from 1; the token budget of one request   *)
(* is a number of lines.  A batch of another stage than the translation is *)
(* never split and counts as one line.                                     *)
(***************************************************************************)
EXTENDS Integers, Sequences, FiniteSets

CONSTANTS
  Modes,        \* the ways to run: document, settings and policy of a mode
  RequestLines, \* lines that fit in request_token_budget
  ErrorLines    \* what retry_correction_message adds for each error, in lines

Stages == {"correction", "terminology", "translation", "review", "validation"}

\* batches[s] are the batches of stage s with their numbers of lines, and
\* resumed[s] says how many of them the resumed checkpoint has.  maxRequests is
\* execution.max_requests, retries execution.retries, repairs
\* model_repair_attempts (0 without model_repair), configured
\* translation_concurrency and reviewers review_concurrency.
\* strategy is the ConcurrencyStrategy and multiplier its window_multiplier;
\* parallel says that the backend supports parallel generation, correctFirst
\* that structural recovery is CorrectBeforeSplit, not SplitImmediately, and
\* review that the review policy is not Off.  align is how names are
\* reconciled: by LightweightNames, by online terminology or not at all.
\* correction and preflight are the two optional stages: off, optional, or
\* such that their failure fails the run.
Mode ==
  [batches : [Stages -> Seq(Nat \ {0})], resumed : [Stages -> Nat],
   maxRequests : Nat, retries : Nat, repairs : Nat,
   configured : Nat \ {0}, reviewers : Nat \ {0},
   strategy : {"fixed", "adaptive", "scene"}, multiplier : Nat \ {0},
   parallel : BOOLEAN, correctFirst : BOOLEAN, review : BOOLEAN,
   align : {"none", "names", "online"},
   correction : {"off", "optional", "strict"}, preflight : {"off", "optional", "strict"}]

ASSUME ModesAssumption ==
  /\ Modes \subseteq Mode
  /\ \A r \in Modes :
       /\ r.batches.translation # << >>
       /\ r.batches.terminology = <<1>> /\ r.batches.validation = <<1>>
       /\ r.batches.review # << >> => r.review
       /\ \A i \in DOMAIN r.batches.review : r.batches.review[i] = 1
       /\ \A s \in Stages : r.resumed[s] <= Len(r.batches[s])
       /\ r.resumed.review > 0 => r.resumed.translation = Len(r.batches.translation)

\* How a request ends.  "invalid" is CoreError::InvalidTranslation,
\* "malformed" an LlmCallError::InvalidResponse, "failed" any other error of
\* the provider, "cancelled" a cancellation while it is in flight.  "budget"
\* is ResourceBudgetExceeded, before any request.  What is in the cache was
\* valid when it was saved, under rules that may have changed since.
Outcome == {"ok", "invalid", "malformed", "limited", "failed", "cancelled"}
Error   == (Outcome \ {"ok"}) \cup {"budget"}
Cached  == {"ok", "invalid"}

ASSUME LimitsAssumption == RequestLines \in Nat /\ ErrorLines \in [Error -> Nat]

IsOperational(e) == e \in {"limited", "failed"}    \* is_operational_llm_failure
IsRepairable(e)  == e \in {"invalid", "malformed"} \* is_model_repairable

VARIABLES
  mode,        \* the member of Modes this run was started with
  stage,       \* of the run
  answers,     \* answers[s][b]: the lines that batch b of stage s was answered with
  window,      \* the window in progress
  stack,       \* calls in progress, the innermost first
  ret,         \* value of the call that just returned
  requests,    \* accounting.provider_requests
  concurrency, \* accounting.adaptive_translation_concurrency
  wasLimited,  \* accounting.translation_window_was_rate_limited
  cancelled,   \* the cancellation guard was triggered
  status,      \* of the run
  asked,       \* asked[s][b]: requests sent for batch b of stage s (history)
  trouble      \* the worst that happened so far (history)

Retries      == mode.retries
RepairLimit  == mode.repairs
Configured   == mode.configured
Adaptive     == mode.strategy = "adaptive"
Parallel     == mode.parallel
CorrectFirst == mode.correctFirst

Lines   == mode.batches[stage]
BatchNo == 1..Len(Lines)
answer  == answers[stage]

accounting == <<requests, concurrency, wasLimited, asked>>
vars == <<mode, stage, answers, window, stack, ret, accounting, cancelled, status, trouble>>

From(lo, hi) == [i \in 1..(hi - lo + 1) |-> lo + i - 1]
AllLines(b) == From(1, Lines[b])

(***************************************************************************)
(* A window in progress: batches called one by one (`calls`), batches      *)
(* requested together, before (`sent` is FALSE) and after, with what they  *)
(* were all answered, and those whose names are still to be reconciled,    *)
(* the first one called again (`again`).  Batches are taken in the order   *)
(* of their numbers.                                                       *)
(***************************************************************************)
NoReplies == [b \in {} |-> "ok"]
NoWindow  == [open |-> FALSE, calls |-> {}, pending |-> {}, sent |-> FALSE,
              replies |-> NoReplies, names |-> {}, again |-> FALSE]

First(batches) == CHOOSE b \in batches : \A c \in batches : b <= c

(***************************************************************************)
(* A frame is a call for the lines lo..hi of batch b: in its loop of       *)
(* attempts, waiting for the left or the right part of a split after line  *)
(* `cut`, or in run_model_repair; `error` is the last error, "ok" for none.*)
(* A call of another stage has a loop of its own, named after the stage.   *)
(* `record` is record_failure; `forced` says that the split was made       *)
(* because the request would have been too large, not after an invalid     *)
(* answer.                                                                 *)
(***************************************************************************)
Frame(b, lo, hi, record, error) ==
  [b |-> b, lo |-> lo, hi |-> hi, record |-> record, at |-> "attempt",
   attempt |-> 1, cut |-> lo, forced |-> FALSE, left |-> << >>, error |-> error]

Top == Head(stack)
Size(f) == f.hi - f.lo + 1

Ok(lines) == [kind |-> "ok", lines |-> lines]
Err(e)    == [kind |-> e, lines |-> << >>]
NoValue   == [kind |-> "none", lines |-> << >>]

Running  == status = "running" /\ ret = NoValue
In(at)   == Running /\ stack # << >> /\ Top.at = at
InWindow == Running /\ stack = << >> /\ window.open

-----------------------------------------------------------------------------
(* Accounting *)

CanReserve(n) == n = 0 \/ requests + n <= mode.maxRequests

\* reserve_requests(1) and the request that follows.
Send(b) ==
  /\ requests' = requests + 1
  /\ asked' = [asked EXCEPT ![stage][b] = @ + 1]

SendNothing == UNCHANGED <<requests, asked>>

NoteRateLimit ==
  IF Adaptive
  THEN /\ wasLimited' = TRUE
       /\ concurrency' = IF concurrency >= 2 THEN concurrency \div 2 ELSE 1
  ELSE UNCHANGED <<wasLimited, concurrency>>

NoteIfLimited(e) ==
  IF e = "limited" /\ stage = "translation"
  THEN NoteRateLimit ELSE UNCHANGED <<wasLimited, concurrency>>

\* Mutant of NoteWindowSuccess: the configured limit is forgotten.
NoteWindowSuccessUncapped ==
  IF Adaptive
  THEN /\ wasLimited' = FALSE
       /\ concurrency' = IF wasLimited THEN concurrency ELSE concurrency + 1
  ELSE UNCHANGED <<wasLimited, concurrency>>

NoteWindowSuccess ==
  IF Adaptive
  THEN /\ wasLimited' = FALSE
       /\ concurrency' = IF wasLimited \/ concurrency >= Configured
                         THEN concurrency ELSE concurrency + 1
  ELSE UNCHANGED <<wasLimited, concurrency>>

Concurrency ==
  IF stage = "review" THEN mode.reviewers
  ELSE IF Adaptive THEN concurrency ELSE Configured

\* With scenes, the window ends before the second batch of a scene.
WindowSizes ==
  CASE mode.strategy = "scene" -> 1..(IF Parallel THEN Concurrency ELSE 1)
    [] ~ Parallel              -> {1}
    [] Adaptive                -> {Concurrency * mode.multiplier}
    [] OTHER                   -> {Concurrency}

\* A stage that the run can do without: what fails in it is no trouble, but
\* the preflight does not outlive a budget that is used up.
Forgiven(e) ==
  \/ stage = "correction" /\ mode.correction = "optional"
  \/ stage = "terminology" /\ mode.preflight = "optional" /\ e # "budget"

\* History: "bad" after anything but a good answer, "fatal" after an error
\* that ends the run.  A response of a window counts when it is taken, and that
\* of a batch that is "requeued" is no end yet.
Note(e) ==
  trouble' = IF e = "ok" \/ Forgiven(e) \/ trouble = "fatal" THEN trouble
             ELSE IF stage # "correction" /\ (IsOperational(e) \/ e = "budget")
             THEN "fatal" ELSE "bad"

-----------------------------------------------------------------------------
(* Calls and their values *)

Return(v) ==
  /\ stack' = Tail(stack)
  /\ ret' = v

Goto(f) ==
  /\ stack' = << f >> \o Tail(stack)
  /\ ret' = NoValue

\* Mutant of SplitAt: a part that fails is repaired by itself.
SplitAtRecording(f, cut, forced) ==
  /\ stack' = << Frame(f.b, f.lo, cut, TRUE, "ok"),
                 [f EXCEPT !.at = "left", !.cut = cut, !.forced = forced] >>
              \o Tail(stack)
  /\ ret' = NoValue

\* translate_split: the left part first; parts never record a failure.
SplitAt(f, cut, forced) ==
  /\ stack' = << Frame(f.b, f.lo, cut, FALSE, "ok"),
                 [f EXCEPT !.at = "left", !.cut = cut, !.forced = forced] >>
              \o Tail(stack)
  /\ ret' = NoValue

\* split_index: some line boundary inside the batch.
Split(f, forced) == \E cut \in f.lo..(f.hi - 1) : SplitAt(f, cut, forced)

\* finish_translation_failure: repair what can be repaired, once the attempts
\* and splits of a whole batch have failed.
FinishFailure(f, e) ==
  IF e = "cancelled" \/ cancelled THEN Return(Err("cancelled"))
  ELSE IF IsRepairable(e) /\ RepairLimit > 0
  THEN Goto([f EXCEPT !.at = "repair", !.attempt = 1, !.error = e])
  ELSE Return(Err(e))

GiveUp(f, e) == IF f.record THEN FinishFailure(f, e) ELSE Return(Err(e))

-----------------------------------------------------------------------------
(* translate_batch_impl and review_batch_impl: one attempt of the innermost call *)

\* Mutant of AfterAttempt: errors of the provider are retried as well.
AfterAttemptRetryingAll(f, e) ==
  CASE e = "ok" -> Return(Ok(From(f.lo, f.hi)))
    [] e = "cancelled" -> Return(Err(e))
    [] OTHER -> IF f.attempt <= Retries
                THEN Goto([f EXCEPT !.attempt = @ + 1, !.error = e])
                ELSE GiveUp(f, e)

\* Mutant of AfterAttempt: attempts are not counted.
AfterAttemptUncounted(f, e) ==
  CASE e = "ok" -> Return(Ok(From(f.lo, f.hi)))
    [] e = "cancelled" \/ IsOperational(e) -> Return(Err(e))
    [] OTHER -> Goto([f EXCEPT !.error = e])

\* What follows an attempt that was answered with e.
AfterAttempt(f, e) ==
  CASE e = "ok" -> Return(Ok(From(f.lo, f.hi)))
    [] e = "cancelled" \/ IsOperational(e) -> Return(Err(e))
    [] e = "invalid" /\ Size(f) > 1
         /\ ~ (CorrectFirst /\ f.record /\ f.attempt = 1 /\ Retries > 0) ->
         Split(f, FALSE)
    [] OTHER -> IF f.attempt <= Retries
                THEN Goto([f EXCEPT !.attempt = @ + 1, !.error = e])
                ELSE GiveUp(f, e)

\* A request after an error quotes it.  Reviews are not measured.
Unsendable(f) ==
  /\ stage = "translation"
  /\ Size(f) + (IF f.error = "ok" THEN 0 ELSE ErrorLines[f.error]) > RequestLines

\* The guard is checked, then the size of the request.
AttemptStopped ==
  /\ In("attempt")
  /\ \/ /\ cancelled
        /\ Return(Err("cancelled"))
        /\ UNCHANGED trouble
     \/ /\ ~ cancelled /\ Unsendable(Top)
        /\ IF Size(Top) > 1 THEN Split(Top, TRUE) /\ UNCHANGED trouble
                            ELSE Return(Err("budget")) /\ Note("budget")
  /\ UNCHANGED <<answers, window, accounting, cancelled, status>>

\* translate_once or review_once finds a cached response.
AttemptCached ==
  /\ In("attempt") /\ ~ cancelled /\ ~ Unsendable(Top)
  /\ \E e \in Cached : AfterAttempt(Top, e) /\ Note(e)
  /\ UNCHANGED <<answers, window, accounting, cancelled, status>>

\* It asks the backend, within the request limit.
AttemptAsked ==
  /\ In("attempt") /\ ~ cancelled /\ ~ Unsendable(Top)
  /\ CanReserve(1)
  /\ \E e \in Outcome :
       /\ Send(Top.b) /\ NoteIfLimited(e) /\ Note(e)
       /\ AfterAttempt(Top, e)
       /\ cancelled' = (e = "cancelled")
  /\ UNCHANGED <<answers, window, status>>

\* A refused reservation is an error like an unusable answer.
AttemptRefused ==
  /\ In("attempt") /\ ~ cancelled /\ ~ Unsendable(Top)
  /\ ~ CanReserve(1)
  /\ AfterAttempt(Top, "budget")
  /\ Note("budget")
  /\ UNCHANGED <<answers, window, accounting, cancelled, status>>

-----------------------------------------------------------------------------
(* translate_split: a part returns *)

\* Without the other part there is no answer.
SplitFailed(f, e) ==
  IF f.forced THEN /\ stack' = Tail(stack) /\ ret' = Err(e)
              ELSE GiveUp(f, e)

LeftReturns ==
  /\ status = "running" /\ ret # NoValue
  /\ stack # << >> /\ Top.at = "left"
  /\ IF ret.kind = "ok"
     THEN /\ stack' = << Frame(Top.b, Top.cut + 1, Top.hi, FALSE, "ok"),
                         [Top EXCEPT !.at = "right", !.left = ret.lines] >>
                      \o Tail(stack)
          /\ ret' = NoValue
     ELSE SplitFailed(Top, ret.kind)
  /\ UNCHANGED <<answers, window, accounting, cancelled, status, trouble>>

\* Mutant of RightReturns: the lines of the left part are lost.
RightReturnsUnjoined ==
  /\ status = "running" /\ ret # NoValue
  /\ stack # << >> /\ Top.at = "right"
  /\ IF ret.kind # "ok" THEN SplitFailed(Top, ret.kind) ELSE Return(Ok(ret.lines))
  /\ UNCHANGED <<answers, window, accounting, cancelled, status, trouble>>

\* The combined lines are validated against the whole batch.
RightReturns ==
  /\ status = "running" /\ ret # NoValue
  /\ stack # << >> /\ Top.at = "right"
  /\ LET lines == Top.left \o ret.lines IN
     IF ret.kind # "ok" THEN SplitFailed(Top, ret.kind)
     ELSE IF lines = From(Top.lo, Top.hi) THEN Return(Ok(lines))
     ELSE SplitFailed(Top, "invalid")
  /\ UNCHANGED <<answers, window, accounting, cancelled, status, trouble>>

-----------------------------------------------------------------------------
(* run_model_repair: one attempt *)

\* In the final validation, the lines that did not pass it come back as they
\* were.
Unchanged == IF stage = "validation" THEN {"unchanged"} ELSE {}

\* Errors are fed to the next attempt, except those of the provider; the
\* error of the batch is what the caller gets in the end.
AfterRepair(f, e) ==
  IF e = "ok" THEN Return(Ok(From(f.lo, f.hi)))
  ELSE IF IsOperational(e) \/ e = "unchanged" \/ f.attempt = RepairLimit
  THEN Return(Err(f.error))
  ELSE Goto([f EXCEPT !.attempt = @ + 1])

RepairStopped ==
  /\ In("repair") /\ cancelled
  /\ Return(Err("cancelled"))
  /\ UNCHANGED <<answers, window, accounting, cancelled, status, trouble>>

\* Rate limits met by a repair do not lower the concurrency.
RepairAsked ==
  /\ In("repair") /\ ~ cancelled /\ CanReserve(1)
  /\ \E e \in Outcome \cup Unchanged :
       /\ Send(Top.b) /\ Note(e) /\ AfterRepair(Top, e)
       /\ cancelled' = (e = "cancelled")
  /\ UNCHANGED <<answers, window, concurrency, wasLimited, status>>

RepairUnasked ==
  /\ In("repair") /\ ~ cancelled
  /\ \E e \in Cached \cup Unchanged \cup (IF CanReserve(1) THEN {} ELSE {"budget"}) :
       AfterRepair(Top, e) /\ Note(e)
  /\ UNCHANGED <<answers, window, accounting, cancelled, status>>

-----------------------------------------------------------------------------
(* translate_window and review_window *)

Unanswered == {b \in BatchNo : answer[b] = << >>}

NextBatch == First(Unanswered)

Windows == {{b \in BatchNo : NextBatch <= b /\ b < NextBatch + n} : n \in WindowSizes}

BetweenWindows == stage \in {"translation", "review"} /\ ~ window.open /\ Unanswered # {}

\* The next batches of the plan.  Cached ones are answered; those that need
\* more than one request are called one by one, as are all batches when the
\* backend cannot generate in parallel.
OpenWindow ==
  /\ status = "running" /\ BetweenWindows /\ ~ cancelled
  /\ \E batches \in Windows :
     \E cached \in {c \in SUBSET batches : Parallel \/ c = {}} :
       LET called == {b \in batches \ cached : ~ Parallel \/ Lines[b] > RequestLines}
       IN  /\ window' = [open    |-> TRUE,
                         calls   |-> called,
                         pending |-> (batches \ cached) \ called,
                         sent    |-> FALSE,
                         replies |-> NoReplies,
                         names   |-> IF stage = "translation" /\ mode.align # "none"
                                     THEN batches ELSE {},
                         again   |-> FALSE]
           /\ answers' = [answers EXCEPT ![stage] =
                            [b \in BatchNo |-> IF b \in cached THEN AllLines(b) ELSE @[b]]]
  /\ UNCHANGED <<stack, ret, accounting, cancelled, status, trouble>>

\* The run is cancelled between windows, or a parallel window finds a cached
\* response that is not valid any more, which no retry replaces.
OpenWindowFails ==
  /\ status = "running" /\ BetweenWindows
  /\ \/ /\ cancelled
        /\ status' = "cancelled" /\ UNCHANGED trouble
     \/ /\ ~ cancelled /\ Parallel
        /\ status' = "failed" /\ Note("invalid")
  /\ UNCHANGED <<answers, window, stack, ret, accounting, cancelled>>

\* A batch is called on its own: split at once in a parallel window, where a
\* single line that is too long fails the run.
CallBatch ==
  /\ InWindow /\ window.calls # {}
  /\ LET b == First(window.calls)
         f == Frame(b, 1, Lines[b], ~ Parallel, "ok")
     IN  IF Parallel /\ Lines[b] > 1
         THEN /\ \E cut \in 1..(Lines[b] - 1) :
                   stack' = << Frame(b, 1, cut, FALSE, "ok"),
                               [f EXCEPT !.at = "left", !.cut = cut, !.forced = TRUE] >>
              /\ UNCHANGED window
         ELSE stack' = << f >> /\ UNCHANGED window
  /\ UNCHANGED <<answers, window, ret, accounting, cancelled, status, trouble>>

\* reserve_requests for all of them, then execute_many, which may be refused,
\* cancelled or fail as a whole, or returns all their responses.
SendWindow ==
  /\ InWindow /\ window.calls = {} /\ window.pending # {} /\ ~ window.sent
  /\ IF CanReserve(Cardinality(window.pending))
     THEN /\ requests' = requests + Cardinality(window.pending)
          /\ asked' = [asked EXCEPT ![stage] = [b \in BatchNo |->
               IF b \in window.pending THEN @[b] + 1 ELSE @[b]]]
          /\ \/ /\ ~ cancelled
                /\ \E replies \in [window.pending -> Outcome \ {"cancelled"}] :
                     window' = [window EXCEPT !.sent = TRUE, !.replies = replies]
                /\ UNCHANGED <<status, trouble>>
             \/ /\ ~ cancelled
                /\ status' = "failed" /\ Note("failed") /\ UNCHANGED window
             \/ /\ cancelled
                /\ status' = "cancelled" /\ UNCHANGED <<window, trouble>>
     ELSE /\ status' = "failed" /\ Note("budget")
          /\ UNCHANGED <<window, requests, asked>>
  /\ UNCHANGED <<answers, stack, ret, concurrency, wasLimited, cancelled>>

Answer(b, lines) == answers' = [answers EXCEPT ![stage][b] = lines]
DropPending == window' = [window EXCEPT !.pending = @ \ {First(@)}]

\* The responses are taken in order, with no look at those behind.  A good one is
\* kept whatever the others are; one with a bad answer is called once more, and
\* so is a throttled batch of the translation, which is requeued once; any other
\* error of the provider ends the run.
TakeResponse ==
  /\ InWindow /\ window.sent /\ window.pending # {}
  /\ LET b == First(window.pending)
         e == window.replies[b] IN
       /\ NoteIfLimited(e)
       /\ \/ /\ e = "ok" /\ Answer(b, AllLines(b)) /\ DropPending
             /\ UNCHANGED <<stack, status, trouble>>
          \/ /\ IsRepairable(e) \/ (e = "limited" /\ stage = "translation")
             /\ stack' = << Frame(b, 1, Lines[b], TRUE,
                                  IF e = "limited" THEN "ok" ELSE e) >>
             /\ Note(IF e = "limited" THEN "requeued" ELSE e)
             /\ UNCHANGED <<answers, window, status>>
          \/ /\ e = "failed" \/ (e = "limited" /\ stage = "review")
             /\ status' = "failed" /\ Note(e)
             /\ UNCHANGED <<answers, window, stack>>
  /\ UNCHANGED <<ret, requests, asked, cancelled>>

AllAnswered == InWindow /\ window.calls = {} /\ window.pending = {}

\* reconcile_translation_window: a batch whose names cannot be aligned is
\* called once more; its second answer must do.
ReconcileNames ==
  /\ AllAnswered /\ window.names # {}
  /\ LET b == First(window.names) IN
     \/ /\ window' = [window EXCEPT !.names = @ \ {b}, !.again = FALSE]
        /\ UNCHANGED <<stack, status, trouble>>
     \/ /\ ~ window.again
        /\ window' = [window EXCEPT !.again = TRUE]
        /\ stack' = << Frame(b, 1, Lines[b], TRUE, "invalid") >>
        /\ Note("invalid") /\ UNCHANGED status
     \/ /\ window.again
        /\ status' = "failed" /\ Note("invalid")
        /\ UNCHANGED <<window, stack>>
  /\ UNCHANGED <<answers, ret, accounting, cancelled>>

\* What the window called for: a batch that has no answer yet, or one whose
\* names did not align.
Caller ==
  IF window.calls # {} THEN First(window.calls)
  ELSE IF window.pending # {} THEN First(window.pending)
  ELSE First(window.names)

\* A call of the window returns: its batch is answered, or the run ends.  A
\* LightweightNames alignment that fails is an InvalidTranslation whatever the
\* reason.
CallReturns ==
  /\ status = "running" /\ window.open /\ stack = << >> /\ ret # NoValue
  /\ ret' = NoValue
  /\ IF ret.kind = "ok"
     THEN /\ Answer(Caller, ret.lines)
          /\ IF window.calls # {}
             THEN window' = [window EXCEPT !.calls = @ \ {First(@)}]
             ELSE IF window.pending # {} THEN DropPending ELSE UNCHANGED window
          /\ UNCHANGED status
     ELSE /\ status' = IF ret.kind = "cancelled" /\ ~ (window.again /\ mode.align = "names")
                       THEN "cancelled" ELSE "failed"
          /\ UNCHANGED <<answers, window>>
  /\ UNCHANGED <<stack, accounting, cancelled, trouble>>

\* The batches of the window were applied and committed one by one, unless
\* the run was cancelled in between.  Without a review to come, a translation
\* that lacks a required term fails the run.
CloseWindow ==
  /\ AllAnswered /\ window.names = {}
  /\ \/ /\ stage = "translation" /\ ~ mode.review
        /\ status' = "failed" /\ Note("invalid")
        /\ UNCHANGED <<window, concurrency, wasLimited>>
     \/ /\ cancelled
        /\ status' = "cancelled"
        /\ UNCHANGED <<window, concurrency, wasLimited, trouble>>
     \/ /\ ~ cancelled
        /\ window' = NoWindow
        /\ IF stage = "translation" THEN NoteWindowSuccess
                                    ELSE UNCHANGED <<concurrency, wasLimited>>
        /\ UNCHANGED <<status, trouble>>
  /\ SendNothing
  /\ UNCHANGED <<answers, stack, ret, cancelled>>

Cancel ==
  /\ status = "running" /\ ~ cancelled
  /\ cancelled' = TRUE
  /\ UNCHANGED <<answers, window, stack, ret, accounting, status, trouble>>

-----------------------------------------------------------------------------

Init ==
  /\ mode \in Modes /\ stage = "correction"
  /\ answers = [s \in Stages |-> [b \in 1..Len(mode.batches[s]) |->
                  IF b <= mode.resumed[s] THEN From(1, mode.batches[s][b]) ELSE << >>]]
  /\ window = NoWindow
  /\ stack = << >> /\ ret = NoValue
  /\ requests = 0
  /\ concurrency = IF Configured < 2 THEN Configured ELSE 2
  /\ wasLimited = FALSE
  /\ cancelled = FALSE
  /\ status = "running"
  /\ asked = [s \in Stages |-> [b \in 1..Len(mode.batches[s]) |-> 0]]
  /\ trouble = "none"

\* A step that gets an answer for a batch of the translation or the review,
\* or repairs lines of the final validation.
RecoveryStep ==
  /\ UNCHANGED <<mode, stage>>
  /\ \/ OpenWindow \/ OpenWindowFails \/ CallBatch \/ SendWindow \/ TakeResponse
     \/ ReconcileNames \/ CallReturns \/ CloseWindow
     \/ AttemptStopped \/ AttemptCached \/ AttemptAsked \/ AttemptRefused
     \/ LeftReturns \/ RightReturns
     \/ RepairStopped \/ RepairAsked \/ RepairUnasked
=============================================================================
