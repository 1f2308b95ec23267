# TLA+ models of subbake

subbake translates subtitles with language models. It plans batches, asks a
provider for them, aligns names, reviews, validates and writes a subtitle file;
around this core there are transcription, directory runs, overnight jobs and an
agent with a terminal interface. The modules here model what a paid,
interrupted and resumed job depends on: the checkpoints, the order in which a
run saves what it knows and the recovery from bad answers; the streaming
pipeline with its child processes; overnight jobs and the lock of the file
writer; the agent's turns, plans and approvals; and its undo.

Contents: [System](#the-system) · [Modules](#the-modules) ·
[Runs](#the-runs) · [Fairness](#fairness) · [Proofs](#proofs) ·
[Findings](#findings) · [Abstractions](#abstractions-and-what-is-not-modelled) ·
[Plan](#plan)

## The system

Four crates. `subbake-core` holds the pipeline and its data, `subbake-adapters`
files, processes and providers, `subbake-agent` the agent, `subbake-cli` the
commands. `PROJECT.json` lists every component with its status; the ones with
state of their own are:

| component | state | operations | what makes it hard | what makes it correct |
|---|---|---|---|---|
| checkpoint store (`runtime_store.rs`, `storage.rs`, `persistence.rs`) | shard files, `run_state.json`, the checkpoint a process accepted last | load, commit, import of old formats, `runtime clean` | crashes between writes, several processes on one input, five older formats | what is published can be resumed; no mixing of two runs |
| translation run (`pipeline.rs`, `translation_runner.rs`, `review_runner.rs`) | memory of the run, glossary file, review report, checkpoint | start, resume, window, apply, learn, commit, review, final validation | each of these files is written at its own time; learned names change the input of the next run | one guidance per checkpoint, one rendering per name, a validated output honours the glossary |
| batch recovery (`pipeline.rs`, `accounting.rs`, `recovery.rs`) | answers, call stack, request counters, adaptive concurrency | windows, attempts, splits, repairs, alignment retries | recursion, partial failure, limits, cancellation | every line once, bounded requests, the run ends |
| review (`pipeline.rs` 1210-1477, `review_runner.rs`, `review_stage.rs`) | report and output | review windows, attempts, repairs, unsafe changes rejected | as above, without splits; the report is saved before the checkpoint | the report covers what was reviewed |
| optional stages (`ocr_correction.rs`, `terminology.rs`) | corrected source, document guide | requests with retries, fallback or failure | policy of the mode, shared request limit, cancellation | they fail the run exactly when the mode insists on them |
| planning and support (`planning.rs`, `support.rs`, `term_matcher.rs`) | none | pure functions | boundary cases | batches partition the document, expansion inverts deduplication |
| atomic writer (`fs.rs`) | lock file, staged file | acquire, stale removal, rename, read-back | two writers, stale locks | one writer at a time reads back its own bytes |
| directory runs (`translation.rs`) | manifest, outputs | next file, failure, fail-fast, cancel | crash between output and manifest | the manifest says of a file what happened to it |
| streaming pipeline (`adapters/pipeline.rs`) | saved chunks and groups, a bounded channel, outputs | produce, consume, publish, restart | two threads, restarts under other options | what is published belongs together and to this run's inputs |
| transcription, Whisper models (`whisper.rs`, `transcription.rs`) | recognitions, cut cues, partial downloads | incremental recognition; resume, verify, install | interrupted runs and downloads | a recognition belongs to its chunk; only verified models are used |
| processes (`process.rs`) | child, readers, a queue | spawn, poll, timeout, cancel | blocked pipes, descendants | no line of normal length is lost, nobody is left blocked |
| overnight jobs (`overnight.rs`) | remote job, manifest | submit, status, collect | answers in any order, an edited input | results are applied to the input they were made for |
| agent turns and plans (`engine.rs`, `decision.rs`, `plan_coordinator.rs`, `steering.rs`) | session, plan, operation in flight | decide, run a call, ask, approve, begin, complete, steer | two threads, crash in an operation, steering during a model call | nothing that needs an approval starts without one, no operation starts twice unnoticed |
| agent terminal (`tui.rs`, `input_router.rs`, `worker.rs`) | phase of the input, queue | submit, steer, queue, cancel, answer a prompt | events of the worker race the keys | every operation is answered |
| agent files and undo (`undo.rs`, `session.rs`, `patch.rs`, `tool_execution.rs`) | event log, backups, files | patch, single changes, series, commands, undo of a group | failure in the middle of a group, one output for two sources, edits by the user | the log explains the files, undo overwrites only what it recorded |
| profiles (`profile_coordinator.rs`) | active backend, session | switch, rollback | failure after half of the switch | session and backend agree |

They interact by calls inside one process, and between processes only through
files: the run directory of an input (shards, state, report), the glossary and
the translation memory of a language pair, and the response cache. One thread
drives a translation; concurrency is the number of requests in flight, whose
answers are handled in order. The streaming pipeline has a transcription thread
beside the translation, a child process has reader threads, and the agent runs
its turns in a worker beside the terminal. Cancellation is a generation
counter that is tested before requests and saves.

Hazards, each at its line and with the properties that cover it or the reason
why none does yet, are listed in `PROJECT.json`.

## The modules

**`ResumeLog`** is the abstract specification of the checkpoint store: one saved
value, replaced as a whole, from which a run starts entirely or not at all, and
which grows by one batch at a time in stage order.

**`CheckpointStore`** is the store as the code has it. The variables are the
files (`shards`, `padded`, `runState`), and per process the accepted state
(`checkpoint` is `FileRuntimeStore.checkpoint`), the run and the commit in
progress. `Open` is `load_resume_snapshot`; `TranslateBatch`,
`FinishTranslation`, `ReviewBatch`, `FinishReview` and `Finalize` are the calls
of `commit_checkpoint` and `save_run_state` made by the runners and by
`run_document`, each with the counts that caller passes; `WriteShard`, `Verify`
and `Publish` are the steps of a commit: its files, the loading of what the new
state names, and the renaming of `run_state.json`. A crash (`Stop`), a clean
(`CleanRuns`) or another process comes between any two of them. A clean after
`Verify` makes the commit `void`, since the rename creates the directory again:
it publishes a state without shards. `torn` remembers that this was the last
state published, `cleaned` the processes whose accepted state lost its shards;
both are history variables, and the properties except exactly these. A manifest
is a set of ranges with the digest of their content; a digest is the content
itself. States of versions 1 to 5 are initial states, since the current code no
longer writes them.

**`TranslationRun`** is `run_document` from the glossary to the final commit,
over many processes one after the other. The store is the single value `saved`,
as `CheckpointStore` is shown to implement. A batch is the set of names its
lines contain; a rendering records the word of each line and which names the
model marked. `AlignBatch` and `RejectAnswer` are
`reconcile_translation_window`, `ApplyBatch` is the update of memory and the
glossary save, `CommitBatch` the checkpoint after it,
`ReviewBatch`/`CommitReview` the report before the checkpoint, and `Finalize`
validation and repair. `Stop` may come between any two. `guide`, kept in each
rendering and in `report`, is a history variable: it names the glossary under
which a text was made.

**`BatchRecovery`** is the recursion that gets an answer for each batch of the
translation and of the review: `translate_batch_impl`, `review_batch_impl`,
`translate_split` and `run_model_repair` as a stack of frames, below the windows
of `translate_window` and `review_window`, with name alignment, the request
counter and the adaptive concurrency. `SendWindow` fixes all responses of a
window at once, as `execute_many` returns them; `TakeResponse` takes them in
order, and calls again where one is bad, or throttled, without a look at those
behind it. A run is started in one of `Modes`, each
the document, settings and `TranslationPolicy` of a mode; nothing in the module
depends on which. **`DocumentRun`** extends it with what `run_document` does
around the windows: OCR correction and terminology preflight, which the mode may
do without or insist on, the checks of the cancellation between the stages, and
the final validation with its repair. It holds `Spec` and the properties. `asked`
and `trouble` are history variables.

**`ProcessRunner`** is `ProcessSupervisor::run_inner`: a child and a helper it
started, the thread that reads its output, the bounded queue of lines and the
polling loop. The child writes lines 1, 2, 3, ...; `told` is what the callback
has seen. Any line may be `long`: `DiscardLine` drops it, as the code does.
**`MediaPipeline`** instantiates it as the child of the transcription thread and
composes it with that thread (`Producer`: caches of recognitions and cuts, the
send into `channel`), the translation of groups (`Consumer`) and the caller that
starts both, joins them and publishes the source (not if the output has the same
path, `PublishOnly`), the output and `complete.json` (`Caller`). A cue carries
the run whose recognition it is from, a translated cue also the run that
translated it, so that "belongs together" is a statement about numbers.
`Restart` starts the program again, with other options, on the files the last
run left.

**`AtomicWrite`** is `write_file_atomically`: create the lock, remove one that
is older than five minutes, give up after ten seconds, stage, rename, read back,
release. The removal of a lock may fail, of a stale one again and again (`kept`
marks the lock somebody could not remove); the code ignores it. `aged` remembers
that some lock has outlived the five minutes, as the lock of a process that
stopped does. **`Overnight`** uses it for the output of `collect`. Around it are
`submit` (plan, job, manifest), the provider, which completes requests in any
order, exchanges or garbles answers or fails the job, and two `Readers` that run
`status` or `collect`, while the user may edit the input between any two steps.

**`AgentTurn`** is the terminal thread and the worker. Keys (`Keys`) submit,
steer, queue, cancel, approve and reject by the phases of `ui`; `Worker` is one
operation on the engine: a turn (save, decide, run or plan the calls of a batch,
finish), an approved plan or command, or a rejection. `mem` is the session in
memory and `disk` its file; every save may fail, and a `Crash` drops everything
but `disk`, from which a restart rebuilds plan and prompt. `FallsThrough` is the
deletion whose path cannot be resolved when the question is due: the call goes
on to `run_tool`, which resolves it again. `started`, `approved` and `denied`
are history variables.

**`AgentFiles`** is what those calls do to files: `apply_patch` with its
rollback, single changes, subtitle writers and previews, directory runs with
their manifest, and approved commands, each with its backups, its writes and the
records it leaves in the log; and `/undo` of a group, verified first, restored
and saved one file at a time. A series may write one output twice: with an
output format, `ep1.srt` and `ep1.ass` have the same one. A failed write may
leave what it should not: a patch's file replaced before the writer fails, or a
command's old file not moved back. `base`, `dirty` and `edited` are history
variables: what the user last left in a file, and after how many events (an undo
that puts an older state back under such an edit, because the file is again as
the event had left it, counts as that edit's); files that no log can explain (a
crash, an I/O error or an edit came between a write and its record); and files
the user changed under a running undo.

What has no order in the code that any property could see is a set here and not a
sequence: the batches of a window, the calls of an agent's batch and plan, of
which the lowest id is the next, the segments of a request, the answers to it
and the events an undo restores.

The `MC...` modules give the instances, and the theorems are in a `_proofs`
module beside each component: `CheckpointStore_proofs` and, on it,
`CheckpointLog_proofs`; `TranslationRun_proofs`, `DocumentRun_proofs` (with
`BatchRecovery`), `AgentTurn_proofs`, `AgentFiles_proofs`, `Overnight_proofs`
(with `AtomicWrite`) and `MediaPipeline_proofs` (with `ProcessRunner`).

Operators whose comment begins with "Mutant of" are not part of any
specification. Each changes one definition the way a plausible mistake would,
and `PROJECT.json` names the property that finds it.

## The runs

| run | instance | states | what it shows |
|---|---|---|---|
| CheckpointSharedRun | 2 processes, 1 translation of a translated and a reviewed batch, 2 texts | 0.41 M | typing; what a process accepted can be loaded while another publishes over it or a clean comes between; the store implements `ResumeLog` |
| CheckpointMigration | 1 process, 2 translations with review, states of version 3 and 5, both old layouts | 0.47 M | what is published can be loaded and a checkpoint is what its process has in memory, from migrated states through review and final validation |
| RunSafety | 3 batches of one name, 3 words, windows of 1 or 2, one reviewed batch, one edit of the glossary, `--glossary` | 1.0 M | names are consistent, guidance is not mixed, the report covers the review, a validated output honours the glossary |
| RunCompletes | 2 batches of one name, auto glossary | 1.3 k | a run that is restarted after each interruption ends |
| Recovery | the three modes, a Cinema run resumed in its review, an Economy run with a single request | 0.50 M | every line once and in order, bounded requests, optional stages do not fail a run and required ones are not skipped, nothing is sent after a fatal error was met, termination |
| MediaPipeline | 2 chunks, 2 runs, 1 failure, pipe, queue and channel of 1, 2 lines, each of any length | 0.74 M | what is published belongs together, resumed groups keep their context, no line of normal length is lost, a run ends |
| Overnight | 3 segments in 2 requests, 2 versions of the input, 2 readers, 1 job | 0.36 M | what is collected is the translation of what was submitted, writers exclude each other, every command ends unless a stale lock cannot be removed |
| AgentTurn | 4 tools in 4 batches, 2 steps, 3 requests, 3 calls; 1 instruction, queued input, crash and failed save | 0.42 M | the plan on disk is accurate, an effect starts once, calls wait for their approval and denials stay, stale calls are dropped, every operation is answered |
| AgentFiles | 2 paths, 8 calls, 2 of them run; 1 edit, crash and failure | 4.2 M | the log explains every file, conflicts have a cause, undo restores and overwrites only what it recorded, session and manifest tell the truth |
| RunResumes, AgentInstall, MediaCancel | | | see [Findings](#findings) |

**Why these bounds.** *Checkpoints:* two processes suffice for every pairwise
interleaving, and the properties relate a process to the published state, not
to a third process; a translated and a reviewed batch are two shards, of which
one is replaced while the other stays, and with two texts they differ. Two
batches of one stage are in CheckpointMigration. Two different
translations of one input meet in CheckpointMigration one after the other; at
the same time they are covered by the theorems. Version 3 lies before the change
of `validation_completed`, version 5 after it. Process and text permutations are
symmetric; nothing chooses among them. *Runs:* of three batches with the same
name two fall into one window and one into another, or each into its own, and
the last is reviewed; the name becomes a requirement by an edit of the glossary
or by a restart. Three words, one of them the source spelling, let an answer
disagree with both a glossary and an earlier choice. Restarts are unbounded,
edits are bounded by `MaxEdits`. *Recovery:* four lines give two levels of
splits and a batch longer than `RequestLines`; a reply that is no JSON is quoted
at such a length that a single line does not fit beside it, other errors take
one line. Each mode has a limit that some runs reach in a window, an attempt or
a repair, and a two-line batch of Cinema reaches the bound of `RequestsBounded`.
*Media:* a second run is the first that can find caches, two chunks give a
group a predecessor, and a recognition a chunk it does not belong to; a restart
keeps the strategy, so that other chunk boundaries are not in question. Buffers
of one make every sender wait, and of two lines the long one is the first, the
last, both or none. *Overnight:* the second segment exceeds the token
budget of the first request, so that a request has one and another two; two
readers are two writers of one output, or a status and a collect. *Agent:* in
the batches an approval, a command or a deletion stands before another call; a second request lets a plan be answered, a third lets the user say
something new instead; one crash and one failed save reach every point of an
operation, and what follows them is a fresh start. *Files:* two calls let one
overwrite, rename over or delete what the other wrote, two paths make a group in
which one file fails, and a series of two with one output is the smallest whose
second event has the first one's path; undos are bounded only by the log.

Deadlock is checked in the checkpoint, translation and recovery runs;
`DocumentRun` stutters explicitly once the run has ended (`Finished`).
`CHECK_DEADLOCK FALSE` stands where the system may really stop: the bounds on
keys, calls, runs and jobs are used up, or every command has ended. That nobody
waits for ever is what `Answered`, `RunEnds`, `CommandsEnd` and `Terminates` say,
`CommandsEnd` but for a command that tries in vain to remove a stale lock.

## Fairness

Safety is checked without relying on fairness. Where progress is claimed:

- `DocumentRun` assumes weak fairness of its whole step: the code is one thread
  that goes on as long as it can, and every request ends, if only by the time
  limit of its transport. Nothing is assumed about what the provider answers.
- `TranslationRun`'s `Completes` is a promise to a user who restarts an
  interrupted run: a start is weakly fair, and each step of each batch strongly
  fair. The code cannot guarantee that nobody kills a run for ever at one point;
  what the property says is that nothing else prevents completion, in particular
  not the learned names that invalidate a run's own checkpoints. The steps are
  fair per batch, so that progress on one batch is no substitute for another.
  A model that leaves a name untranslated in every answer is excluded.
- `MediaPipeline` assumes weak fairness of the transcription thread, the
  translation, the caller, the reader and the polling loop: they are threads of
  a running program. The child gets none; it may hang, and then `RunEnds`
  promises an end only once the run is cancelled.
- `Overnight` assumes weak fairness of time passing (`Tick`, for the age of a
  lock and the deadline) and of the steps of each command; a command may still
  stop anywhere. Nothing is assumed of the removal of a lock; `CommandsEnd`
  claims an end only if from some time on there is no lock that somebody tried
  in vain to remove (`StaleLockStays`). The provider gets none.
- `AgentTurn` assumes weak fairness of the worker (a model call is answered or
  times out, a tool returns) and of the terminal taking the worker's events,
  none of the user.

## Proofs

Every safety property of the passing runs is a theorem, for every value of the
constants that the assumptions of its module allow: their invariants, their
action properties and the refinement. Each `_proofs` module has
one inductive invariant (two where a component has two independent concerns),
the conjunction of named parts, one lemma per action that it is kept, and the
properties as consequences. TLC has checked each invariant on the instance of
the run before its proof.

The assumptions say what the code's types say: counts are numbers, a limit that
is a divisor or a capacity is positive, a plan fits its document, `None`,
`NoState` and the like are no values of the data they stand beside. Three say
more. `IdsAssumption` (`Overnight`): the segments of one document have distinct
ids, which parsers assign by place or TTML wants of `xml:id`. `CallsAssumption`
(`AgentFiles`): the changes of one call other than a series have distinct paths
(a patch and a command refuse a path named twice, `patch.rs:96`, `guard.rs:553`),
and such a call changes something.
`ModesAssumption` (`BatchRecovery`): a review is planned only if the policy asks
for one, of single requests, and begins when the translation is complete.

**`CheckpointStore_proofs`**: any processes, translations, texts, numbers of
batches and plans of stages. `TypeCorrect` is typing; `LoadInvariant` gives
`PublishedIsLoadable` and `AcceptedIsLoadable`. `PublishedLoadable` is not
inductive by itself: a process that commits builds the next manifest from its
own `checkpoint`, which need not be the published state, so `AcceptedLoadable`
belongs to the invariant; and an idle process must hold neither a checkpoint nor
a commit (`IdleIsEmpty`), because `Open` forgives an earlier clean. The argument
rests on two facts: loadability is monotone in the shards on disk, so only
`CleanRuns` can destroy it; and it does not depend on the padded files once a
manifest is there. `Verify` establishes it for the state about to be published,
and while that waits for its renaming it is part of the invariant
(`VerifiedLoadable`): writes of others keep it, and a clean turns "passed" into
"void". So the one gap the code has is the one the theorems name.

**`CheckpointLog_proofs`** adds what the states contain. `MemoryInv` says that a
manifest holds contiguous batches whose content is the text of the run that
accepted it (`Holds`), that the counts of a run are in stage order (`RunOK`),
and that a commit in progress stores what it writes (`CommitsInMemory`). From it:

- `CheckpointHoldsMemory`: `CheckpointIsMemory`.
- `StoreImplementsLog`: `Spec => ImplementsResumeLog`, the refinement of
  `ResumeLog` under `saved <- Saved`, `view <- View`: what the published state
  loads, and what each run has in memory. Every initial state maps to one
  (`LogInitial`); `Publish` maps to a commit, because the state it publishes is
  that of the run after its step; `Open` maps to a resume or a fresh start,
  `CleanRuns` to the loss of the saved value, `Stop` to the end of a run, and
  the writing of a shard to a stutter, because it only adds files that the
  published manifest does not name, or holds already.

**`TranslationRun_proofs`**: any names, words, batches, windows, review plan,
glossary, number of edits and restarts. What a checkpoint and a run have in
common is `Sound`: the names chosen agree with the required ones of their
guidance, and each rendering was made under this guidance (`Made`) with these
names at the marked places. The saved state and the run carry it, the window in
progress carries it for answers not yet applied, and `ReportInv` ties the report
to the batches that either counts. `Validated` is kept beside the final output,
because the glossary it was validated against changes afterwards. Theorems:
`TermConsistency`, `OneGuide`, `ReportCoversReview`, `FinalHonoursGlossary`.

**`DocumentRun_proofs`**: any modes, so documents, retries, repairs, requests,
policies of the optional stages, concurrency; and every answer. The recursion is
handled by an invariant of its stack, not by induction: each frame asks for a
part that the frame below it waits for, the last one for the whole batch
(`Chain`), and a value on its way up is just the lines that were asked for
(`ValueOK`); so an answer to the window is the whole batch in order.
`ProgressInv` gives what every stage left behind, `FatalInv` that once a fatal
error is met (in a window: when its response is taken) either no request can be
reserved or the error is on its way out as one nothing repairs. Theorems:
`DoneIsComplete`, `NoSpuriousFailure`, and the action property
`NoRequestAfterFatal`.

`RequestsBounded` has an inductive invariant of its own, `BudgetInv`, on top of
that one, and needs no sum over the stack. A part asks at most `Retries + 1`
times for itself (`Paid`), and a batch of n lines makes at most 2n - 1 parts.
When a part begins at line l, the parts of the lines before it and the splits
that wait for their right part are 2(l - 1) at most; on top come the splits that
wait for their left part, which have different cuts (`Cuts`), none before the
end of the part and none at the end of the batch. So what the call has asked is
bounded by the place of its innermost frame and the number of those splits
(`Within`), and a repair follows only when the parts of the whole batch are
over. `Spent` adds what was asked for the batch before the call: one request of
the window, and for the alignment of names the whole first call. `WindowPaid`
says what was asked for the batches that the window does not call now,
`Untouched` and `Ahead` that nothing was asked for the batches behind them and
for the later stages: batches are answered in order, so one that has no answer
and waits for nothing was not asked for, and a call starts from zero. TLC has
checked `BudgetInv` on the instance of Recovery.

**`AgentTurn_proofs`**: any tools, policies of approval, batches, instructions,
requests, crashes and failed saves. A call is in one place at a time: in the
batch the worker holds (`Live`), in the plan or behind the approval of a session
(`Waiting`), or started; and a crash can bring back only what the session on
disk has, which is why `SessionOK` is stated of `mem` and of `disk`. The call of
a plan that may have started is the one marked in flight, and it is saved with
that mark before it starts (`RunOK`), which makes `StartedOnce` survive a crash.
Theorems: `PlanAccurate`, `StartedOnce`, `AwaitingIsPending`, and the action
properties `DeniedStays`, `AskedFirst` and `StaleCallsDropped`.

**`AgentFiles_proofs`**: any paths, calls, requests, edits, crashes and
failures. The argument turns on what the log says of a path, `Says(p)`: what its
last open event left there, or the user's own edit after it. `Explained` is that
files hold it outside the paths the operation in progress has touched; `Chain`
that an event's backup is what the log said of the path before the event, unless
the user has edited it since; `Groups` and `GroupOfCall` that the events of a
group lie together at the end while they are made, and that two of one path come
from a series that wrote it twice, of which the verification finds the earlier
one changed; `TargetsLast` that an undo restores the last open events, the
latest first. So what is put back is what the log will say once the event is
marked, and a failure or crash in between leaves a prefix of the undo done.
`StillPosted` carries the verification of the whole group to each of its
restorations. Theorems: `LogExplainsFiles`, `UndoneIsRestored`,
`ManifestRecorded`, `ConflictIsReal`, and the action property `UndoPreserves`.

The proof corrected the model. `LogExplainsFiles` did not hold with two edits by
the user: one that changes a file and one that changes it back to what the event
left, after which undo rightly proceeds, but `base` still named the second edit
as the file's last state. TLC finds it with `MaxEdits = 2`; `RestorePart` now
moves `base` with it, and the invariant has been checked with three edits too.

**`Overnight_proofs`**: any processes on one output, versions of the input, jobs
and segments. `OneWriter` is `WritersExclude`: a writer between its lock and its
release holds the lock, the one that has renamed still finds its own content,
and none is about to remove a lock as stale (`LockHeld`), while no lock has
aged. A stopped process leaves its lock, and after five minutes nothing excludes
two writers that both find it (see below). `CollectsItsDocument` is
`ResultsApplied`, an order of versions: the signature in a manifest is not
younger than the document the job was sent with, and that is not younger than
the input (`ManifestFits`, `JobsOK`). A check that finds the input to have the
signature has therefore found it unchanged in between. `PlanPartitions` shows
that requests cover every segment once, `AcceptedIsRight` and `RightIsAccepted`
that the checks accept an answer exactly when it is right.

**`MediaPipeline_proofs`**: any chunks, cues, runs, lines and failures, any size
of the channel, the queue and the pipe. `EveryLineTold` is `LinesDelivered`:
`LinesInv` follows each line on its way (`Sound`), those told, then those
queued, then the one the reader holds, then those in the pipe that are not too
long, numbered in order; the loop takes its last round only when the reader has
finished. For what is published, the document of a run has one recognition per
chunk (`DocOK`), all that was sent or translated is part of it (`SentOK`), and
there are never more groups than chunks; the translation is as long as the
document only if it is the document, which is what the check before publishing
compares (`Aligned`). Theorems: `PublishedIsCurrent`, `ContextConfirmed`.

**Data that is computed recursively.** The installed provers cannot instantiate
the induction theorems. Where a proof needs the least or greatest member of a
set of numbers, or the value of a recursive function for every input (the plan
of the requests in `Overnight`, the concatenation of groups in
`MediaPipeline`), it argues by the least counterexample: `WFMin` of
`WellFoundedInduction` has no operator parameter, and the set of the inputs for
which the claim fails has a minimal element if it has any.

**Only model-checked.** Liveness (`Completes`, `Terminates`, `RunEnds`,
`CommandsEnd`, `Answered`), which is out of the prover's reach with fairness and
`ENABLED`; and the three properties that the code violates.

## Findings

**A run that learned a name is not resumed** (`RunResumes`,
`ResumeContinues`). `translation_runner.rs:197` saves learned names into the
glossary file after every batch. The next run loads that file before it
computes the guide fingerprint (`pipeline.rs:300-390`), which therefore differs
from the one in the checkpoint, and starts from nothing. `docs/usage.md:890`
says "The latest published state is still the default Resume candidate for an
input." The response cache softens the cost, not the loss of reviewed batches.
That the run still ends is `Completes`.

**An installation runs unasked** (`AgentInstall`, `ApprovalRequired`). In chat
mode, calls are planned and shown only if no call of the batch deletes outside
the workspace (`decision.rs:512-514`); the replacement, an approval of each
mutation, exists in plan mode only (`decision.rs:683`). An installation that
precedes such a deletion in a batch runs without approval, although
`tools.rs:1210-1223` requires one for it.

**A cancelled streaming run reports another error** (`MediaCancel`,
`CancelledIsReported`). When the translation ends as cancelled it drops the
receiver; the transcription thread, about to send, fails with "incremental
translation consumer stopped", and its error is reported before the
translation's (`pipeline.rs:485`). The command then ends with the status of an
invalid input and not with the 130 of `error.rs:39-40`.

Seen while modelling, without a run:

- With `--glossary`, learned names are saved to the user's own file, and the next
  run requires all of it (`pipeline.rs:299-307`), against the comment there.
- The comment at `memory.rs:31-33` says that advisory entries do not decide
  names; `name_alignment.rs:141-146` falls back to `memory.glossary`.
- A cancellation in the retry of a name alignment (`pipeline.rs:612`) or in the
  last attempt of a repair ends the run as an invalid translation: the
  `~ (window.again /\ ...)` of `CallReturns`. A degraded preflight swallows a
  cancellation (`terminology.rs:139`) until the next check.
- The OCR correction retries errors of the provider and refused reservations, and
  reserves a request although it is cancelled (`ocr_correction.rs:232-279`).
- An overnight `submit` that stops between creating the job (180) and writing its
  manifest (219) loses a paid job. An edit of the input between `collect`'s
  check (265) and its reading (277) gets through, against "Collection verifies
  that the source subtitle has not changed before publishing output"
  (`docs/usage.md`); `ResultsApplied` excludes it by `late`. A status that
  overlaps a collect may set the manifest back, harmlessly.
- Two writers that both find a stale lock both write (`fs.rs:206-208`): the
  second removes the lock the first has just made. A stale lock that cannot be
  removed is tried for ever, without sleep or deadline.
- `runtime clean --runs` takes no lock (`runtime.rs:87-151`). Between the
  verification of a checkpoint and its renaming it leaves a `run_state.json`
  without shards, against the comment "Do not publish a state referring to
  missing or corrupted data" (`runtime_store.rs:470`).
- An external deletion is asked about only if its path can be resolved
  (`decision.rs:670-673`). If not, the call runs unasked, resolves the path
  again and deletes what is there by then (`guard.rs:170-209`), against "callers
  must put every invocation behind explicit user approval" (`guard.rs:127-129`).
- A line of a child's output that is longer than 64 KiB is dropped without a
  word (`process.rs:417-421`), and the callback never learns of it.
- A window in which a bad response comes before a fatal one sends the retries of
  the bad one first, although the fatal error is already there
  (`pipeline.rs:844-920`); a throttled batch is requeued (891-906).
- With an output format, two sources that differ in their extension have one
  output in a directory run (`translation.rs:1018-1040`, `fs.rs:365-388`), and
  nothing notices. With overwrite both are recorded in one group, whose undo
  conflicts with itself for ever, and with it every undo of what came before.
- The fingerprint of an operation is taken when it is recorded
  (`tool_runner.rs:64-66`, 80-82, 268), so an edit made between the write and the
  record passes for the agent's own, and undo discards it.
- `complete.json` of the pipeline is not invalidated by a later run that fails. A
  chunk without cues empties the context of the next in Turbo. A crash leaves
  the whisper child running, and a descendant outside the process group keeps
  the reader's join waiting after a terminate.
- Input queued in the terminal stays there after an error (`tui.rs:396-416`,
  `input_router.rs:618-624`; `docs/usage.md:315` says it runs next); an
  instruction can be taken by a later operation than the one it was meant for
  (`usage.md:316-318`); an approved command may run twice after a crash or a
  failed save between `ToolCompleted` and `CommandApproved`; and an approval is
  lost after Shift+Tab or a cancel followed by new text (`decision.rs:956-964`).
- `edit_subtitle` with `dry_run` records an undoable event
  (`tool_execution.rs:935-985`, against `usage.md:313`). If the save of a group's
  second record fails, the group is half recorded. A crash between a restore and
  its save makes that undo a conflict for ever. Restoring uses a copy that is
  not atomic.
- A retry of failed files overwrites its own manifest with an empty list before
  it starts (`translation.rs:650-662`), and the check whether an output exists is
  minutes before its writing (`translation.rs:341` and 409, `overnight.rs:271`
  and 295).

## Abstractions and what is not modelled

- Texts are members of small sets. A line contains at most one name, and a
  required term is honoured or not; matching inside a text is left to
  `term_matcher.rs` and its tests. Contents of files in `AgentFiles` are numbers,
  new for each version somebody writes.
- Digests and fingerprints do not collide. Outside `AtomicWrite` a file
  replacement is one step. `runtime clean` removes a run directory in one step.
- `TranslationRun` models the LightweightNames strategy. Document terminology,
  translation memory and deduplication come before the fingerprint is frozen, or
  leave the order of writes as it is.
- The plan of a document does not change between runs; the code checks that the
  resumed counts fit it.
- In `BatchRecovery` the token budget of a request is a number of lines, and
  `max_tokens` is left out. Applying and committing the batches of a window is
  one step, because `TranslationRun` has it in detail. Every shipped backend
  supports the preflight, so its unsupported branch is left out, and the reviewer
  supports parallel requests exactly when the translator does. A part of the
  issues of the final validation cannot stay: they are found per segment
  (`validation.rs:155`), so lines that were repaired make the output valid.
- `MediaPipeline` leaves out the sequential pipeline of Cinema, the extraction of
  a chunk and the resumption of a group half translated. `ProcessRunner` models
  one of the two output streams; the other has no queue.
- `AgentTurn` leaves out the substitution of a transcription for a missing
  subtitle, commands that are approved automatically, the limit on failures of
  one kind, and pickers. `AgentFiles` leaves out tracks inside containers and
  whole directories.
- **Not modelled.** Formats, validation, number facts, evaluation and reports are
  pure functions of text, with round-trip tests and fuzz targets of their own;
  settings, project files, arguments and drawing have no state that two actors
  share; FFmpeg calls and downloads are I/O around the processes modelled here.
  `PROJECT.json` gives the reason for each component.

## Plan

Left, in this order:

1. Translation memory in `TranslationRun`, shared by runs on different inputs,
   and the token counters in `BatchRecovery`.
2. Profile switch with rollback, and the installation of Whisper models.
3. Pure algorithms as functions against reference definitions: batch planning
   and scene groups, deduplication, `split_index`, `merge_review_patch`.
