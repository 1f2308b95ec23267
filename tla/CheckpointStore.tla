-------------------------- MODULE CheckpointStore --------------------------
(***************************************************************************)
(* Checkpoints of a translation run, as kept by FileRuntimeStore           *)
(* (subbake-adapters/src/runtime_store.rs) and driven by run_document      *)
(* through PipelinePersistence (subbake-core/src/pipeline/persistence.rs). *)
(*                                                                         *)
(* One run directory is shared by every process that translates the same   *)
(* input.  It holds content-addressed shard files, the padded batch files  *)
(* of older versions, and one state file that names the shards.  A process *)
(* loads the state file once, keeps the state it loaded or published last  *)
(* in memory (FileRuntimeStore.checkpoint), and commits one batch at a     *)
(* time: shard files first, then the state is read back, then the state    *)
(* file is replaced.  It may stop between any two of these steps, and      *)
(* `runtime clean --runs`, which takes no lock, may remove the directory   *)
(* between any two of them.                                                *)
(*                                                                         *)
(* Batches are numbered from 1 and carry one text each; a shard payload is *)
(* a function from the batches it holds to their texts, and its SHA-256    *)
(* digest is the payload itself (no collisions).                           *)
(***************************************************************************)
EXTENDS Integers, FiniteSets

CONSTANTS
  Proc,        \* processes, each one `subbake` invocation at a time
  Fingerprint, \* translation fingerprints (options, input signature, guide)
  Text,        \* what a backend may answer for a batch
  MaxBatch,    \* bound on the batches of any stage
  LegacyVersion, \* state versions that may be found on disk
  Batches,     \* Batches[f][k]: batches of stage k under fingerprint f
  NoState,     \* no run_state.json / FileRuntimeStore.checkpoint is None
  NoCommit     \* no commit_checkpoint call in progress

Kind == {"translated", "reviewed", "finalized"}

RunStateVersion == 6     \* RUN_STATE_VERSION
FinalizedSince  == 4     \* older versions set validation_completed too early

BatchNo == 1..MaxBatch
Count   == 0..MaxBatch
Payload == UNION {[S -> Text] : S \in SUBSET BatchNo}

\* storage.rs CheckpointShardRef and CheckpointManifest.  The code keeps a
\* vector sorted by first_batch with no two equal first_batch, here a set.
ShardRef == [first : BatchNo, last : BatchNo, sha : Payload]
Manifest == [Kind -> SUBSET ShardRef]

\* storage.rs RunState: `done` holds translation_batches_completed,
\* review_batches_completed and validation_completed (0 or 1); `pinned` is
\* shard_manifest.is_some(); `inline` holds the segments that the oldest
\* versions stored in the state itself.
RunState ==
  [version  : 1..RunStateVersion,
   fp       : Fingerprint,
   done     : [Kind -> Count],
   pinned   : BOOLEAN,
   manifest : Manifest,
   inline   : [Kind -> Payload]]

Phase == {"idle", "translate", "review", "finalize", "done"}

\* What a process holds in memory: its stage outputs, how many batches of
\* each stage they cover, and the ResumeSnapshot counts it started from.
Run ==
  [phase   : Phase,
   fp      : Fingerprint,
   text    : [Kind -> Payload],
   done    : [Kind -> Count],
   resumed : [Kind -> Count]]

\* A commit_checkpoint call in progress: `check` is the reading back of the
\* new state, "due" until it has succeeded; "void" when the run directory was
\* removed after it, which the call does not notice.
Commit == [state : RunState, toWrite : SUBSET Payload, after : Run,
           check : {"due", "passed", "void"}]

ASSUME ConstantsAssumption ==
  /\ MaxBatch \in Nat \ {0}
  /\ LegacyVersion \subseteq 1..(RunStateVersion - 1)
  /\ Batches \in [Fingerprint -> [Kind -> Count]]
  /\ \A f \in Fingerprint : Batches[f]["translated"] > 0
                         /\ Batches[f]["finalized"] = 1
  /\ Fingerprint # {}
  /\ NoState \notin RunState
  /\ NoState \notin [fp : Fingerprint, text : [Kind -> Payload]]
  /\ NoCommit \notin Commit

VARIABLES
  shards,      \* payloads present under run_dir/shards-v1
  padded,      \* padded[k]: batches present as <index>.json of stage k
  runState,    \* run_state.json
  checkpoint,  \* checkpoint[p]: FileRuntimeStore.checkpoint of process p
  run,         \* run[p]: the run in progress in process p
  commit       \* commit[p]: the commit_checkpoint call in progress

\* For the invariants only: what `runtime clean --runs` took away.
VARIABLES
  torn,        \* run_state.json was written after the removal of shards that
               \* its process had already read back
  cleaned      \* processes that accepted a state whose shards were removed

vars == <<shards, padded, runState, checkpoint, run, commit, torn, cleaned>>

NoText == [i \in {} |-> i]
Nothing == [k \in Kind |-> 0]
NoTexts == [k \in Kind |-> NoText]
EmptyManifest == [k \in Kind |-> {}]

-----------------------------------------------------------------------------
(* Reading a checkpoint *)

\* runtime_store.rs checkpoint_counts: versions before 4 marked validation
\* complete before the final validation had run.
CheckpointCount(s, k) ==
  IF k = "finalized" /\ s.version < FinalizedSince THEN 0 ELSE s.done[k]

Shard(b, t) == [i \in {b} |-> t]

Covers(r, i) == r.first <= i /\ i <= r.last

\* The ranges that load_checkpoint_segments accepts: the references up to n
\* follow each other from batch 1, and none of them reaches beyond n.
Contiguous(refs, n) ==
  /\ \A r \in refs : r.first <= n => r.first <= r.last /\ r.last <= n
  /\ \A i \in 1..n : \E r \in refs : Covers(r, i)
  /\ \A r, q \in refs : (\E i \in 1..n : Covers(r, i) /\ Covers(q, i)) => r = q

\* load_checkpoint_segments and load_batch_segments succeed: every shard is
\* there with the content its digest names, for exactly its batches.
Loadable(s, k, disk, pad) ==
  LET n == CheckpointCount(s, k) IN
  IF s.pinned
  THEN /\ Contiguous(s.manifest[k], n)
       /\ \A r \in s.manifest[k] :
            r.first <= n => r.sha \in disk /\ DOMAIN r.sha = r.first..r.last
  ELSE IF DOMAIN s.inline[k] # {}
       THEN DOMAIN s.inline[k] = 1..n
       ELSE 1..n \subseteq DOMAIN pad[k]

\* The segments they return, batch by batch.
Loaded(s, k, pad) ==
  LET n == CheckpointCount(s, k) IN
  IF s.pinned
  THEN [i \in 1..n |-> (CHOOSE r \in s.manifest[k] : Covers(r, i)).sha[i]]
  ELSE IF DOMAIN s.inline[k] # {}
       THEN s.inline[k]
       ELSE [i \in 1..n |-> pad[k][i]]

\* runtime_store.rs import_manifest: the manifest of the state accepted last;
\* an older state's inline segments become one reference, its padded files
\* one reference each.
ImportManifest(s) ==
  IF s.pinned
  THEN s.manifest
  ELSE [k \in Kind |->
    LET n == CheckpointCount(s, k) IN
    IF n > 0 /\ DOMAIN s.inline[k] # {}
    THEN {[first |-> 1, last |-> n, sha |-> s.inline[k]]}
    ELSE {[first |-> i, last |-> i, sha |-> Shard(i, padded[k][i])] :
            i \in 1..n}]

CanImport(s) ==
  s.pinned \/ \A k \in Kind : Loadable(s, k, shards, padded)


-----------------------------------------------------------------------------
(* Runs *)

IdleRun == [phase |-> "idle", fp |-> CHOOSE f \in Fingerprint : TRUE,
            text |-> NoTexts, done |-> Nothing, resumed |-> Nothing]

FreshRun(f) == [phase |-> "translate", fp |-> f,
                text |-> NoTexts, done |-> Nothing, resumed |-> Nothing]

\* Mutant of ResumedRun: the reviewed batches of the state are ignored.
ResumedRunWithoutReview(s) ==
  LET n == [k \in Kind |-> IF k = "reviewed" THEN 0 ELSE CheckpointCount(s, k)] IN
  [phase |-> "translate", fp |-> s.fp,
   text |-> [k \in Kind |-> IF k = "reviewed" THEN NoText ELSE Loaded(s, k, padded)],
   done |-> n, resumed |-> n]

\* RunState::resume_snapshot and load_resume_snapshot: the run starts from
\* the counts of the state and from the segments its shards hold.
ResumedRun(s) ==
  LET n == [k \in Kind |-> CheckpointCount(s, k)] IN
  [phase |-> "translate", fp |-> s.fp,
   text |-> [k \in Kind |-> Loaded(s, k, padded)], done |-> n, resumed |-> n]

(***************************************************************************)
(* Open(p, f, resume): process p starts translating under fingerprint f.   *)
(* Without --no-resume it reads run_state.json, which also becomes its     *)
(* `checkpoint`, whatever the fingerprint; it continues from it only when  *)
(* the fingerprint is the one expected.  A state whose shards cannot be    *)
(* read ends the run with an error, before anything is written.            *)
(***************************************************************************)
Open(p, f, resume) ==
  /\ run[p].phase = "idle"
  /\ IF resume /\ runState # NoState
     THEN /\ checkpoint' = [checkpoint EXCEPT ![p] = runState]
          /\ IF runState.fp = f
             THEN /\ \A k \in Kind : Loadable(runState, k, shards, padded)
                  /\ run' = [run EXCEPT ![p] = ResumedRun(runState)]
             ELSE run' = [run EXCEPT ![p] = FreshRun(f)]
     ELSE /\ run' = [run EXCEPT ![p] = FreshRun(f)]
          /\ UNCHANGED checkpoint
  /\ cleaned' = IF resume /\ torn THEN cleaned \cup {p} ELSE cleaned \ {p}
  /\ UNCHANGED <<shards, padded, runState, commit, torn>>

-----------------------------------------------------------------------------
(* Committing a checkpoint *)

\* The state accepted last counts only if it is of the same translation.
HasPrior(p) == checkpoint[p] # NoState /\ checkpoint[p].fp = run[p].fp

ReadyToCommit(p) ==
  /\ commit[p] = NoCommit
  /\ HasPrior(p) => CanImport(checkpoint[p])

\* Mutant of BaseManifest: the shards of the state on disk are kept, not
\* those of the state this process accepted.
BaseManifestOnDisk(p) ==
  IF runState # NoState /\ runState.fp = run[p].fp
  THEN ImportManifest(runState) ELSE EmptyManifest

BaseManifest(p) ==
  IF HasPrior(p) THEN ImportManifest(checkpoint[p]) ELSE EmptyManifest

\* The shard files that importing an older state writes.
Imported(p) ==
  IF HasPrior(p) /\ ~ checkpoint[p].pinned
  THEN {r.sha : r \in UNION {BaseManifest(p)[k] : k \in Kind}}
  ELSE {}

\* Mutant of WithShard: a reference to the batch that is already there stays.
WithShardFirstWins(m, k, b, t) ==
  IF \E r \in m[k] : r.first = b THEN m
  ELSE [m EXCEPT ![k] = @ \cup {[first |-> b, last |-> b, sha |-> Shard(b, t)]}]

\* One new shard replaces the reference to the same batch; a reference that
\* spans several batches is never cut.
WithShard(m, k, b, t) ==
  [m EXCEPT ![k] = {r \in @ : r.first # b}
                     \cup {[first |-> b, last |-> b, sha |-> Shard(b, t)]}]

SpansSeveral(m, k, b) ==
  \E r \in m[k] : r.first # r.last /\ Covers(r, b)

\* RunState::new followed by commit_checkpoint's own fields.
NewState(f, done, m) ==
  [version |-> RunStateVersion, fp |-> f, done |-> done, pinned |-> TRUE,
   manifest |-> m, inline |-> NoTexts]

\* commit_checkpoint up to its first file write.  The process goes on to
\* `after` when the state is published.
StartCommit(p, m, new, done, after) ==
  /\ commit' = [commit EXCEPT ![p] =
       [state   |-> NewState(run[p].fp, done, m),
        toWrite |-> Imported(p) \cup new,
        after   |-> after,
        check   |-> "due"]]
  /\ UNCHANGED <<shards, padded, runState, checkpoint, run, torn, cleaned>>

\* A checkpoint with one more batch, and one with none (save_run_state).
CommitShard(p, k, b, t, done, after) ==
  StartCommit(p, WithShard(BaseManifest(p), k, b, t), {Shard(b, t)}, done, after)

CommitCounts(p, done, after) == StartCommit(p, BaseManifest(p), {}, done, after)

\* The run after batch b of stage k was answered with t.
WithBatch(r, k, b, t) ==
  [r EXCEPT !.text[k] = [i \in DOMAIN @ \cup {b} |-> IF i = b THEN t ELSE @[i]],
            !.done[k] = b]

\* Mutant of TranslateBatch: one batch more than there are.
TranslateBatchPastEnd(p) ==
  LET r == run[p]
      b == r.done["translated"] + 1
  IN  /\ r.phase = "translate" /\ ReadyToCommit(p)
      /\ b <= Batches[r.fp]["translated"] + 1
      /\ \E t \in Text :
           CommitShard(p, "translated", b, t,
             [r.resumed EXCEPT !["translated"] = b, !["finalized"] = 0],
             WithBatch(r, "translated", b, t))

\* translation_runner::run, one applied batch: the review count stays the
\* resumed one and validation is open again.
TranslateBatch(p) ==
  LET r == run[p]
      b == r.done["translated"] + 1
  IN  /\ r.phase = "translate" /\ ReadyToCommit(p)
      /\ b <= Batches[r.fp]["translated"]
      /\ ~ SpansSeveral(BaseManifest(p), "translated", b)
      /\ \E t \in Text :
           CommitShard(p, "translated", b, t,
             [r.resumed EXCEPT !["translated"] = b, !["finalized"] = 0],
             WithBatch(r, "translated", b, t))

\* Mutant of FinishTranslation: the resumed review count is not passed on.
FinishTranslationResetsReview(p) ==
  LET r == run[p] IN
  /\ r.phase = "translate" /\ ReadyToCommit(p)
  /\ r.done["translated"] = Batches[r.fp]["translated"]
  /\ CommitCounts(p,
       [r.resumed EXCEPT !["translated"] = r.done["translated"], !["reviewed"] = 0],
       [r EXCEPT !.phase = "review"])

\* translation_runner::run, end of the stage: save_run_state without shards.
FinishTranslation(p) ==
  LET r == run[p] IN
  /\ r.phase = "translate" /\ ReadyToCommit(p)
  /\ r.done["translated"] = Batches[r.fp]["translated"]
  /\ CommitCounts(p,
       [r.resumed EXCEPT !["translated"] = r.done["translated"]],
       [r EXCEPT !.phase = "review"])

\* review_runner::run, one reviewed batch.
ReviewBatch(p) ==
  LET r == run[p]
      b == r.done["reviewed"] + 1
  IN  /\ r.phase = "review" /\ ReadyToCommit(p)
      /\ b <= Batches[r.fp]["reviewed"]
      /\ ~ SpansSeveral(BaseManifest(p), "reviewed", b)
      /\ \E t \in Text :
           CommitShard(p, "reviewed", b, t,
             [r.done EXCEPT !["reviewed"] = b, !["finalized"] = 0],
             WithBatch(r, "reviewed", b, t))

\* review_runner::run, end of the stage.
FinishReview(p) ==
  LET r == run[p] IN
  /\ r.phase = "review" /\ ReadyToCommit(p)
  /\ r.done["reviewed"] = Batches[r.fp]["reviewed"]
  /\ CommitCounts(p,
       [r.done EXCEPT !["finalized"] = r.resumed["finalized"]],
       [r EXCEPT !.phase = "finalize"])

\* run_document, final validation (which may repair a resumed output) and the
\* last commit: the whole output is one finalized shard.
Finalize(p) ==
  LET r == run[p] IN
  /\ r.phase = "finalize" /\ ReadyToCommit(p)
  /\ \E t \in Text :
       CommitShard(p, "finalized", 1, t,
         [r.done EXCEPT !["finalized"] = 1],
         [WithBatch(r, "finalized", 1, t) EXCEPT !.phase = "done"])

\* write_immutable_shard: identical content shares a file.
WriteShard(p) ==
  /\ commit[p] # NoCommit
  /\ \E c \in commit[p].toWrite :
       /\ shards' = shards \cup {c}
       /\ commit' = [commit EXCEPT ![p].toWrite = @ \ {c}]
  /\ UNCHANGED <<padded, runState, checkpoint, run, torn, cleaned>>

\* Before it is published, the new state is read back through its own
\* manifest.  What is missing then ends the call, and the run, with an error.
Verify(p) ==
  /\ commit[p] # NoCommit
  /\ commit[p].toWrite = {} /\ commit[p].check = "due"
  /\ \A k \in Kind : Loadable(commit[p].state, k, shards, padded)
  /\ commit' = [commit EXCEPT ![p].check = "passed"]
  /\ UNCHANGED <<shards, padded, runState, checkpoint, run, torn, cleaned>>

Accept(p) ==
  /\ runState' = commit[p].state
  /\ checkpoint' = [checkpoint EXCEPT ![p] = commit[p].state]
  /\ run' = [run EXCEPT ![p] = commit[p].after]
  /\ commit' = [commit EXCEPT ![p] = NoCommit]
  /\ torn' = (commit[p].check = "void")
  /\ cleaned' = IF commit[p].check = "void" THEN cleaned \cup {p} ELSE cleaned \ {p}

\* Mutant of Publish: the state is not read back before the rename.
PublishUnverified(p) ==
  /\ commit[p] # NoCommit /\ commit[p].toWrite = {}
  /\ Accept(p)
  /\ UNCHANGED <<shards, padded>>

\* Mutant of Publish: shards that the new state does not name are removed.
PublishPruning(p) ==
  /\ commit[p] # NoCommit /\ commit[p].check # "due"
  /\ Accept(p)
  /\ shards' = shards \cap {r.sha : r \in UNION {commit[p].state.manifest[k] : k \in Kind}}
  /\ UNCHANGED padded

\* The end of commit_checkpoint: run_state.json is replaced by a rename, its
\* directory made again if it is gone, and the state becomes the one accepted
\* last.  Nothing is read again: a directory removed since Verify is not seen.
Publish(p) ==
  /\ commit[p] # NoCommit /\ commit[p].check # "due"
  /\ Accept(p)
  /\ UNCHANGED <<shards, padded>>

-----------------------------------------------------------------------------
(* Interruptions *)

\* The process ends: finished, failed, cancelled or killed, at any point.
Stop(p) ==
  /\ run[p].phase # "idle"
  /\ run' = [run EXCEPT ![p] = IdleRun]
  /\ checkpoint' = [checkpoint EXCEPT ![p] = NoState]
  /\ commit' = [commit EXCEPT ![p] = NoCommit]
  /\ cleaned' = cleaned \ {p}
  /\ UNCHANGED <<shards, padded, runState, torn>>

\* runtime.rs clean_runtime with --runs: the run directory goes as a whole.
\* Its removal is one step here, between two steps of a process.
CleanRuns ==
  /\ runState' = NoState
  /\ shards' = {}
  /\ padded' = NoTexts
  /\ commit' = [p \in Proc |->
       IF commit[p] # NoCommit /\ commit[p].check = "passed"
       THEN [commit[p] EXCEPT !.check = "void"] ELSE commit[p]]
  /\ torn' = FALSE
  /\ cleaned' = {p \in Proc : checkpoint[p] # NoState}
  /\ UNCHANGED <<checkpoint, run>>

-----------------------------------------------------------------------------

\* What versions 1 to 5 may have left behind: stages completed in order,
\* segments inline or in padded files, no manifest.
LegacyState(v, f, done, text) ==
  [version |-> v, fp |-> f, done |-> done, pinned |-> FALSE,
   manifest |-> EmptyManifest, inline |-> text]

InOrder(f, done) ==
  /\ \A k \in Kind : done[k] <= Batches[f][k]
  /\ done["reviewed"] + done["finalized"] > 0 =>
       done["translated"] = Batches[f]["translated"]
  /\ done["finalized"] > 0 => done["reviewed"] = Batches[f]["reviewed"]

Legacy ==
  \E v \in LegacyVersion, f \in Fingerprint, done \in [Kind -> Count] :
    /\ InOrder(f, done)
    /\ \E text \in {x \in [Kind -> Payload] :
                     \A k \in Kind : DOMAIN x[k] = 1..done[k]} :
         \/ /\ padded = text
            /\ runState = LegacyState(v, f, done, NoTexts)
         \/ /\ padded = [text EXCEPT !["translated"] = NoText,
                                    !["reviewed"] = NoText]
            /\ runState = LegacyState(v, f, done,
                            [text EXCEPT !["finalized"] = NoText])

Init ==
  /\ shards = {}
  /\ (runState = NoState /\ padded = NoTexts) \/ Legacy
  /\ checkpoint = [p \in Proc |-> NoState]
  /\ run = [p \in Proc |-> IdleRun]
  /\ commit = [p \in Proc |-> NoCommit]
  /\ torn = FALSE
  /\ cleaned = {}

Next ==
  \/ \E p \in Proc :
       \/ \E f \in Fingerprint, resume \in BOOLEAN : Open(p, f, resume)
       \/ TranslateBatch(p) \/ FinishTranslation(p)
       \/ ReviewBatch(p) \/ FinishReview(p) \/ Finalize(p)
       \/ WriteShard(p) \/ Verify(p) \/ Publish(p) \/ Stop(p)
  \/ CleanRuns

Spec == Init /\ [][Next]_vars

-----------------------------------------------------------------------------

TypeOK ==
  /\ shards \subseteq Payload
  /\ padded \in [Kind -> Payload]
  /\ runState \in RunState \cup {NoState}
  /\ checkpoint \in [Proc -> RunState \cup {NoState}]
  /\ run \in [Proc -> Run]
  /\ commit \in [Proc -> Commit \cup {NoCommit}]
  /\ torn \in BOOLEAN
  /\ cleaned \subseteq Proc

(***************************************************************************)
(* What is published can be resumed: every shard run_state.json names is   *)
(* on disk with the right batches, although processes stop between a shard *)
(* and a state, publish over each other, migrate old formats and lose the  *)
(* directory.  The exception is the one commit_checkpoint leaves open:     *)
(* `runtime clean --runs` between the reading back of a state and its      *)
(* rename leaves a state without its shards (`torn`), until the next state *)
(* is published or the directory is removed again.                         *)
(***************************************************************************)
PublishedLoadable ==
  runState # NoState /\ ~ torn =>
    \A k \in Kind : Loadable(runState, k, shards, padded)

(***************************************************************************)
(* A process reads the checkpoint it accepted even after another process   *)
(* has published a newer one, unless `runtime clean` removed the files:    *)
(* after the process accepted it, or before, between the reading back of   *)
(* the state and its rename.                                               *)
(***************************************************************************)
AcceptedLoadable ==
  \A p \in Proc :
    checkpoint[p] # NoState /\ p \notin cleaned =>
      \A k \in Kind : Loadable(checkpoint[p], k, shards, padded)

(***************************************************************************)
(* No mixing: what a running process can resume from its own checkpoint    *)
(* is, batch by batch, what it has in memory, never a batch of another run *)
(* or an earlier answer that has since been replaced.                      *)
(***************************************************************************)
CheckpointIsMemory ==
  \A p \in Proc, k \in Kind :
    run[p].phase # "idle" /\ HasPrior(p) =>
      LET s == checkpoint[p] IN
      /\ CheckpointCount(s, k) = run[p].done[k]
      /\ (s.pinned \/ Loadable(s, k, shards, padded)) =>
           Loaded(s, k, padded) = run[p].text[k]

-----------------------------------------------------------------------------
(* The store implements ResumeLog *)

Content(s) == [fp |-> s.fp, text |-> [k \in Kind |-> Loaded(s, k, padded)]]

\* The progress a run that resumes would find.
Saved == IF runState = NoState THEN NoState ELSE Content(runState)

\* The progress of each run, without the stage it is in.
View == [p \in Proc |-> IF run[p].phase = "idle"
                       THEN NoState
                       ELSE [fp |-> run[p].fp, text |-> run[p].text]]

Log == INSTANCE ResumeLog WITH Nobody <- NoState, saved <- Saved, view <- View

(***************************************************************************)
(* Seen from a run, the store behaves as one saved value: a resumed run    *)
(* starts from exactly what was published last for its translation, each   *)
(* publication adds one batch to what its own process had and nothing of   *)
(* another, and shard writes, migrations and unpublished commits are       *)
(* invisible.                                                              *)
(***************************************************************************)
ImplementsResumeLog == Log!LogSpec
=============================================================================
