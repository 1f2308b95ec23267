--------------------------- MODULE TranslationRun ---------------------------
(***************************************************************************)
(* One translation of one input, across interruptions and restarts: what   *)
(* run_document (subbake-core/src/pipeline.rs) keeps in memory, what it    *)
(* saves, and in which order.                                              *)
(*                                                                         *)
(* The run loads the glossary file, freezes a fingerprint of it, resumes   *)
(* the saved checkpoint when the fingerprints agree, and then translates   *)
(* window after window.  Names that the model marks in its answers are     *)
(* aligned with the choices made before (name_alignment.rs, the            *)
(* LightweightNames strategy) and learned: they go to the memory of the    *)
(* checkpoint and to the glossary file, which the next run loads.  Review  *)
(* and final validation follow.  The process may stop between any two      *)
(* writes.                                                                 *)
(*                                                                         *)
(* The checkpoint store appears as the single saved value that             *)
(* CheckpointStore is shown to implement.  A batch is the set of terms its *)
(* lines contain, one line per term; its text is the word each line uses.  *)
(***************************************************************************)
EXTENDS Integers, Sequences, FiniteSets

CONSTANTS
  Term,           \* names found in the source
  Target,         \* words a model may use for them
  SourceSpelling, \* the word that is the name as the source writes it
  Unknown,        \* no entry in a glossary
  TermsIn,        \* TermsIn[b]: terms in the lines of translation batch b
  ReviewPlan,     \* the translation batches the review plan covers, in order
  Window,         \* bound on the batches of one window (adaptive concurrency)
  Supplied,       \* the glossary file before the first run
  OtherGlossary,  \* what the user or another run may write in that file
  MaxEdits,       \* bound on how often they do
  HardGlossary,   \* --glossary was given (identity.glossary_path is set)
  ReviewOn,       \* review_policy is not Off
  ResumeFlag,     \* choices of the user: {TRUE}, or BOOLEAN with --no-resume
  NoState         \* no checkpoint

Glossary  == [Term -> Target \cup {Unknown}]
Empty     == [t \in Term |-> Unknown]
BatchNo   == 1..Len(TermsIn)
BatchesDone(s) == Len(s.text)

ASSUME ConstantsAssumption ==
  /\ SourceSpelling \in Target
  /\ Unknown \notin Target
  /\ TermsIn \in Seq(SUBSET Term)
  /\ ReviewPlan \in Seq(BatchNo)
  /\ \A i, j \in 1..Len(ReviewPlan) : ReviewPlan[i] = ReviewPlan[j] => i = j
  /\ Window \in Nat \ {0}
  /\ MaxEdits \in Nat
  /\ Supplied \in Glossary
  /\ OtherGlossary \subseteq Glossary
  /\ HardGlossary \in BOOLEAN /\ ReviewOn \in BOOLEAN
  /\ ReviewPlan # <<>> => ReviewOn
  /\ ResumeFlag \subseteq BOOLEAN

VARIABLES
  saved,        \* the checkpoint published last, or NoState
  glossaryFile, \* glossary.<languages>.json, or the --glossary file
  report,       \* review_report.json: the reviewed batches it covers, and
                \* the guide of the run that wrote it
  run,          \* the run in progress
  edits         \* how often OtherGlossary was written

vars == <<saved, glossaryFile, report, run, edits>>

\* The text of a batch: the word of each line, the lines whose name was
\* marked, and the guide of the run that produced it (for the properties).
Words(b) == [TermsIn[b] -> Target]
AnyWords == UNION {Words(b) : b \in BatchNo}
Rendering == [word : AnyWords, marked : SUBSET Term, guide : Glossary]

Phase == {"idle", "translate", "apply", "commit", "review", "commitReview",
          "endReview", "finalize", "done"}

NoReport == [guide |-> Empty, covers |-> 0]

\* A final output is the words of every batch.
NoOutput == << >>
Outputs == {f \in [BatchNo -> AnyWords] : \A b \in BatchNo : f[b] \in Words(b)}

IdleRun ==
  [phase |-> "idle", guide |-> Empty, required |-> Empty, glossary |-> Empty,
   names |-> Empty, text |-> << >>, reviewed |-> << >>, final |-> NoOutput,
   resumed |-> [reviewed |-> 0, final |-> FALSE],
   window |-> 0, ready |-> << >>, retried |-> FALSE]

-----------------------------------------------------------------------------
(* Starting and resuming *)

\* run_document up to the translation stage.  The fingerprint is that of the
\* glossary as loaded; the other inputs of it do not change here.  Entries of
\* a glossary given by the user are requirements.  A checkpoint of the same
\* fingerprint brings its memory back, learned names included.
\* The entries of a glossary given by the user.
Required(g) == IF HardGlossary THEN g ELSE Empty

Fresh(g) ==
  [IdleRun EXCEPT !.phase = "translate", !.guide = g, !.glossary = g,
                  !.required = Required(g)]

Resumed(s, g) ==
  [Fresh(g) EXCEPT !.glossary = s.glossary, !.names = s.names, !.text = s.text,
                   !.reviewed = s.reviewed, !.final = s.final,
                   !.resumed = [reviewed |-> Len(s.reviewed), final |-> s.validated]]

\* Mutant of Resumable: the glossary is no part of the fingerprint.
ResumableAnyGuide(s, g) == s # NoState

\* Mutant of Resumable: learned names are part of the fingerprint too.
ResumableUnnamed(s, g) == s # NoState /\ s.guide = g /\ s.names = Empty

Resumable(s, g) == s # NoState /\ s.guide = g

Start(resume) ==
  /\ run.phase = "idle"
  /\ run' = IF resume /\ Resumable(saved, glossaryFile)
            THEN Resumed(saved, glossaryFile)
            ELSE Fresh(glossaryFile)
  /\ UNCHANGED <<saved, glossaryFile, report, edits>>

\* PipelinePersistence::commit_checkpoint with RunState::new: the fingerprint
\* frozen at the start, the memory as it is now.  n reviewed batches count.
Checkpoint(r, n, validated) ==
  [guide |-> r.guide, glossary |-> r.glossary, names |-> r.names,
   text |-> r.text, reviewed |-> SubSeq(r.reviewed, 1, n),
   final |-> IF validated THEN r.final ELSE NoOutput,
   validated |-> validated]

-----------------------------------------------------------------------------
(* Translation, window by window *)

\* What a window asks for: up to `Window` of the next batches.
OpenWindow ==
  /\ run.phase = "translate" /\ run.window = 0
  /\ BatchesDone(run) < Len(TermsIn)
  /\ \E k \in 1..Window :
       /\ BatchesDone(run) + k <= Len(TermsIn)
       /\ run' = [run EXCEPT !.window = k]
  /\ UNCHANGED <<saved, glossaryFile, report, edits>>

NextAnswered == BatchesDone(run) + Len(run.ready) + 1

Answers(b) == [word : Words(b), marked : SUBSET TermsIn[b]]

\* Mutant of Choice: only persisted guidance counts, not the names that this
\* run has given already.
ChoiceByGlossary(r, t, proposed) ==
  IF r.required[t] # Unknown THEN r.required[t]
  ELSE IF r.glossary[t] # Unknown THEN r.glossary[t]
  ELSE proposed

\* name_alignment.rs: the word used for a marked name.
Choice(r, t, proposed) ==
  IF r.required[t] # Unknown THEN r.required[t]
  ELSE IF r.names[t] # Unknown THEN r.names[t]
  ELSE IF r.glossary[t] # Unknown THEN r.glossary[t]
  ELSE proposed

\* It is remembered for the rest of the run, the first choice staying.
Remember(r, answer, terms) ==
  [t \in Term |-> IF t \in terms /\ r.names[t] = Unknown
                  THEN Choice(r, t, answer.word[t]) ELSE r.names[t]]

Align(r, answer) ==
  [word |-> [t \in DOMAIN answer.word |->
               IF t \in answer.marked THEN Choice(r, t, answer.word[t])
                                      ELSE answer.word[t]],
   marked |-> answer.marked, guide |-> r.guide]

Untranslated(answer) ==
  {t \in answer.marked : answer.word[t] = SourceSpelling}

\* reconcile_translation_window for one batch of the window.
AlignBatch ==
  /\ run.phase = "translate" /\ Len(run.ready) < run.window
  /\ \E answer \in Answers(NextAnswered) :
       /\ Untranslated(answer) = {}
       /\ run' = [run EXCEPT !.ready = Append(@, Align(run, answer)),
                             !.names = Remember(run, answer, answer.marked),
                             !.retried = FALSE]
  /\ UNCHANGED <<saved, glossaryFile, report, edits>>

\* A marked name left in source spelling rejects the answer, once; the names
\* of the lines before it are remembered all the same.
RejectAnswer ==
  /\ run.phase = "translate" /\ Len(run.ready) < run.window
  /\ ~ run.retried
  /\ \E answer \in Answers(NextAnswered) :
       /\ Untranslated(answer) # {}
       /\ \E before \in SUBSET (answer.marked \ Untranslated(answer)) :
            run' = [run EXCEPT !.names = Remember(run, answer, before),
                               !.retried = TRUE]
  /\ UNCHANGED <<saved, glossaryFile, report, edits>>

\* TermMatcher::missing_required finds nothing: each line uses the required
\* word of its term.
Honours(r, word) ==
  \A t \in DOMAIN word : r.required[t] \in {Unknown, word[t]}

\* validate_window_terminology: without a review to repair it, a line that
\* lacks a required word fails the run (which then stops).
AcceptWindow ==
  /\ run.phase = "translate" /\ run.window > 0
  /\ Len(run.ready) = run.window
  /\ ReviewOn \/ \A i \in 1..run.window : Honours(run, run.ready[i].word)
  /\ run' = [run EXCEPT !.phase = "apply"]
  /\ UNCHANGED <<saved, glossaryFile, report, edits>>

\* ContextMemory::update with the aligned names of one batch.
Learn(g, rendering) ==
  [t \in Term |-> IF t \in rendering.marked THEN rendering.word[t] ELSE g[t]]

\* Mutant of ApplyBatch: the result stays among the generated ones.
ApplyBatchKeepsResult ==
  /\ run.phase = "apply"
  /\ LET g == Learn(run.glossary, Head(run.ready)) IN
     /\ run' = [run EXCEPT !.text = Append(@, Head(run.ready)),
                           !.glossary = g, !.phase = "commit"]
     /\ glossaryFile' = g
  /\ UNCHANGED <<saved, report, edits>>

\* TranslationStage::apply, memory.update and save_glossary.
ApplyBatch ==
  /\ run.phase = "apply"
  /\ LET g == Learn(run.glossary, Head(run.ready)) IN
     /\ run' = [run EXCEPT !.text = Append(@, Head(run.ready)),
                           !.ready = Tail(@),
                           !.glossary = g,
                           !.phase = "commit"]
     /\ glossaryFile' = g
  /\ UNCHANGED <<saved, report, edits>>

\* commit_checkpoint after one applied batch: reviewed batches stay, the
\* validation is open again.
CommitBatch ==
  /\ run.phase = "commit"
  /\ saved' = Checkpoint(run, run.resumed.reviewed, FALSE)
  /\ run' = IF run.ready = << >>
            THEN [run EXCEPT !.phase = "translate", !.window = 0]
            ELSE [run EXCEPT !.phase = "apply"]
  /\ UNCHANGED <<glossaryFile, report, edits>>

\* The end of translation_runner::run: save_run_state with what was resumed.
EndTranslation ==
  /\ run.phase = "translate" /\ run.window = 0
  /\ BatchesDone(run) = Len(TermsIn)
  /\ saved' = Checkpoint(run, run.resumed.reviewed, run.resumed.final)
  /\ run' = [run EXCEPT !.phase = "review"]
  /\ UNCHANGED <<glossaryFile, report, edits>>

-----------------------------------------------------------------------------
(* Review and final validation *)

\* ReviewStage::apply: a changed line is kept unless it breaks a required
\* word that it had.
KeepSafe(r, before, proposed) ==
  [t \in DOMAIN before |-> IF r.required[t] = before[t] THEN before[t]
                                                        ELSE proposed[t]]

\* Mutant of ReviewBatch: the report is left to the end of the review.
ReviewBatchUnreported ==
  /\ run.phase = "review" /\ Len(run.reviewed) < Len(ReviewPlan)
  /\ LET b == ReviewPlan[Len(run.reviewed) + 1] IN
     \E proposed \in Words(b) :
       run' = [run EXCEPT
         !.reviewed = Append(@, KeepSafe(run, run.text[b].word, proposed)),
         !.phase = "commitReview"]
  /\ UNCHANGED <<saved, glossaryFile, report, edits>>

\* review_runner::run, one reviewed batch: the report is saved first.
ReviewBatch ==
  /\ run.phase = "review" /\ Len(run.reviewed) < Len(ReviewPlan)
  /\ LET b == ReviewPlan[Len(run.reviewed) + 1] IN
     \E proposed \in Words(b) :
       run' = [run EXCEPT
         !.reviewed = Append(@, KeepSafe(run, run.text[b].word, proposed)),
         !.phase = "commitReview"]
  /\ report' = [guide |-> run.guide, covers |-> Len(run'.reviewed)]
  /\ UNCHANGED <<saved, glossaryFile, edits>>

CommitReview ==
  /\ run.phase = "commitReview"
  /\ saved' = Checkpoint(run, Len(run.reviewed), FALSE)
  /\ run' = [run EXCEPT !.phase = "review"]
  /\ UNCHANGED <<glossaryFile, report, edits>>

\* The last report, then save_run_state with the resumed validation.
FinishReport ==
  /\ run.phase = "review" /\ Len(run.reviewed) = Len(ReviewPlan)
  /\ report' = [guide |-> run.guide, covers |-> Len(ReviewPlan)]
  /\ run' = [run EXCEPT !.phase = "endReview"]
  /\ UNCHANGED <<saved, glossaryFile, edits>>

EndReview ==
  /\ run.phase = "endReview"
  /\ saved' = Checkpoint(run, Len(ReviewPlan), run.resumed.final)
  /\ run' = [run EXCEPT !.phase = "finalize"]
  /\ UNCHANGED <<glossaryFile, report, edits>>

\* The words of every batch, reviewed where the plan covers it.
Output(r) ==
  [b \in BatchNo |->
     IF \E i \in 1..Len(ReviewPlan) : ReviewPlan[i] = b
     THEN r.reviewed[CHOOSE i \in 1..Len(ReviewPlan) : ReviewPlan[i] = b]
     ELSE r.text[b].word]

\* repair_final_validation: what a model may answer for the lines that have
\* an issue, the others staying as they are.
Failing(r, output, b) ==
  {t \in TermsIn[b] : r.required[t] \notin {Unknown, output[b][t]}}

Repairs(r, output) ==
  {final \in Outputs : \A b \in BatchNo :
     \A t \in TermsIn[b] \ Failing(r, output, b) : final[b][t] = output[b][t]}

\* Mutant of Finalize: the repaired output is not validated.
FinalizeUnvalidated ==
  /\ run.phase = "finalize"
  /\ LET output == IF run.resumed.final THEN run.final ELSE Output(run) IN
     \E final \in Repairs(run, output) :
       /\ run' = [run EXCEPT !.final = final, !.phase = "done"]
       /\ saved' = Checkpoint(run', Len(ReviewPlan), TRUE)
  /\ UNCHANGED <<glossaryFile, report, edits>>

\* run_document after the review: a validated checkpoint brings its output,
\* which is validated again; issues are repaired or fail the run.
Finalize ==
  /\ run.phase = "finalize"
  /\ LET output == IF run.resumed.final THEN run.final ELSE Output(run) IN
     \E final \in Repairs(run, output) :
       /\ \A b \in BatchNo : Honours(run, final[b])
       /\ run' = [run EXCEPT !.final = final, !.phase = "done"]
       /\ saved' = Checkpoint(run', Len(ReviewPlan), TRUE)
  /\ UNCHANGED <<glossaryFile, report, edits>>

-----------------------------------------------------------------------------
(* Interruptions *)

\* The process ends, finished, failed, cancelled or killed.
Stop ==
  /\ run.phase # "idle"
  /\ run' = IdleRun
  /\ UNCHANGED <<saved, glossaryFile, report, edits>>

\* The glossary file is shared: the user edits it, or a run on another input
\* saves its own glossary over it.
WriteGlossary ==
  /\ edits < MaxEdits
  /\ edits' = edits + 1
  /\ glossaryFile' \in OtherGlossary
  /\ UNCHANGED <<saved, report, run>>

-----------------------------------------------------------------------------

Init ==
  /\ saved = NoState
  /\ glossaryFile = Supplied
  /\ report = NoReport
  /\ run = IdleRun
  /\ edits = 0

Work ==
  \/ OpenWindow \/ AlignBatch \/ AcceptWindow \/ ApplyBatch \/ CommitBatch
  \/ EndTranslation \/ ReviewBatch \/ CommitReview \/ FinishReport
  \/ EndReview \/ Finalize

Next ==
  \/ \E resume \in ResumeFlag : Start(resume)
  \/ Work \/ RejectAnswer \/ Stop \/ WriteGlossary

Spec == Init /\ [][Next]_vars

(***************************************************************************)
(* Fairness: somebody restarts an interrupted run, and no step is          *)
(* interrupted every time it is due at the same batch.  A model whose      *)
(* answers are rejected for ever, or a run killed for ever at the same     *)
(* point, is excluded.                                                     *)
(***************************************************************************)
Fairness ==
  /\ WF_vars(\E resume \in ResumeFlag : Start(resume))
  /\ \A b \in BatchNo :
       /\ SF_vars(BatchesDone(run) = b - 1 /\ OpenWindow)
       /\ SF_vars(NextAnswered = b /\ AlignBatch)
       /\ SF_vars(BatchesDone(run) = b - 1 /\ AcceptWindow)
       /\ SF_vars(BatchesDone(run) = b - 1 /\ ApplyBatch)
       /\ SF_vars(BatchesDone(run) = b /\ CommitBatch)
  /\ \A i \in 1..Len(ReviewPlan) :
       /\ SF_vars(Len(run.reviewed) = i - 1 /\ ReviewBatch)
       /\ SF_vars(Len(run.reviewed) = i /\ CommitReview)
  /\ SF_vars(EndTranslation)
  /\ SF_vars(FinishReport) /\ SF_vars(EndReview) /\ SF_vars(Finalize)

FairSpec == Spec /\ Fairness

-----------------------------------------------------------------------------

TypeOK ==
  /\ saved # NoState =>
       /\ saved.text \in Seq(Rendering) /\ Len(saved.text) <= Len(TermsIn)
       /\ saved.reviewed \in Seq(AnyWords)
       /\ Len(saved.reviewed) <= Len(ReviewPlan)
       /\ saved.glossary \in Glossary /\ saved.names \in Glossary
       /\ saved.guide \in Glossary /\ saved.validated \in BOOLEAN
       /\ saved.final \in IF saved.validated THEN Outputs ELSE {NoOutput}
  /\ glossaryFile \in Glossary
  /\ report \in [guide : Glossary, covers : 0..Len(ReviewPlan)]
  /\ run.phase \in Phase
  /\ run.text \o run.ready \in Seq(Rendering)
  /\ Len(run.text) + Len(run.ready) <= Len(TermsIn)
  /\ run.reviewed \in Seq(AnyWords) /\ Len(run.reviewed) <= Len(ReviewPlan)
  /\ {run.guide, run.required, run.glossary, run.names} \subseteq Glossary
  /\ Len(run.ready) <= run.window /\ run.window \in 0..Window
  /\ edits \in 0..MaxEdits

(***************************************************************************)
(* A name is translated one way: whatever batches a checkpoint holds, made *)
(* in different windows and by different processes, after rejected answers *)
(* and edits of the glossary, a name that was marked in two of them has    *)
(* the same word in both.                                                  *)
(***************************************************************************)
TermConsistency ==
  saved # NoState =>
    \A i, j \in 1..BatchesDone(saved) :
      \A t \in saved.text[i].marked \cap saved.text[j].marked :
        saved.text[i].word[t] = saved.text[j].word[t]

(***************************************************************************)
(* A checkpoint never mixes batches made under different guidance, however *)
(* the glossary file changed between the processes that made them.         *)
(***************************************************************************)
OneGuide ==
  saved # NoState =>
    \A i \in 1..BatchesDone(saved) : saved.text[i].guide = saved.guide

(***************************************************************************)
(* A run that resumes reviewed batches finds the report of their review:   *)
(* it was saved by a run under the same guide and covers all of them.      *)
(***************************************************************************)
ReportCoversReview ==
  saved # NoState /\ saved.reviewed # << >> =>
    report.guide = saved.guide /\ report.covers >= Len(saved.reviewed)

(***************************************************************************)
(* With --glossary every line of a validated output uses the word that the *)
(* glossary requires, resumed or not, reviewed or not.                     *)
(***************************************************************************)
FinalHonoursGlossary ==
  saved # NoState /\ saved.validated /\ HardGlossary =>
    \A b \in BatchNo : \A t \in TermsIn[b] :
      saved.guide[t] \in {Unknown, saved.final[b][t]}

(***************************************************************************)
(* However often it is interrupted, a run that is restarted (without       *)
(* --no-resume) is completed at last: learned names invalidate a           *)
(* checkpoint only finitely often.                                         *)
(***************************************************************************)
Completes == <>(saved # NoState /\ saved.validated)

(***************************************************************************)
(* "The latest published state is still the default Resume candidate for   *)
(* an input": a run restarted with nothing changed by the user goes on     *)
(* from the batches already published.                                     *)
(***************************************************************************)
ResumeContinues ==
  [][run.phase = "idle" /\ run'.phase # "idle" /\ saved # NoState
       => run'.text = saved.text]_vars
=============================================================================
