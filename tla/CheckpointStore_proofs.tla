---------------------- MODULE CheckpointStore_proofs ----------------------
(***************************************************************************)
(* Proofs about CheckpointStore for any number of processes, translations, *)
(* batches and texts.                                                      *)
(***************************************************************************)
EXTENDS CheckpointStore, TLAPS

-----------------------------------------------------------------------------
(* Facts about the operators *)

\* The three stages, and the empty values, are of their types.
LEMMA KindFacts ==
  /\ "translated" \in Kind /\ "reviewed" \in Kind /\ "finalized" \in Kind
  /\ NoTexts \in [Kind -> Payload]
  /\ Nothing \in [Kind -> Count]
  /\ EmptyManifest \in Manifest
PROOF
  <1>1. NoText \in Payload
    <2>1. {} \in SUBSET BatchNo
      OBVIOUS
    <2>2. NoText \in [{} -> Text]
      BY DEF NoText
    <2> QED BY <2>1, <2>2 DEF Payload
  <1>2. 0 \in Count
    BY ConstantsAssumption DEF Count
  <1> QED BY <1>1, <1>2 DEF Kind, NoTexts, Nothing, EmptyManifest, Manifest

\* One batch of a shard payload.
LEMMA ShardType ==
  ASSUME NEW b \in BatchNo, NEW t \in Text
  PROVE  Shard(b, t) \in Payload
PROOF
  <1>1. {b} \in SUBSET BatchNo
    OBVIOUS
  <1>2. Shard(b, t) \in [{b} -> Text]
    BY DEF Shard
  <1> QED BY <1>1, <1>2 DEF Payload

\* A payload is a function into Text on its domain.
LEMMA PayloadFunction ==
  ASSUME NEW f \in Payload
  PROVE  /\ DOMAIN f \subseteq BatchNo
         /\ f \in [DOMAIN f -> Text]
         /\ \A i \in DOMAIN f : f[i] \in Text
PROOF
  <1>1. PICK S \in SUBSET BatchNo : f \in [S -> Text]
    BY DEF Payload
  <1> QED BY <1>1

\* A function from batches to texts is a payload.
LEMMA FunctionPayload ==
  ASSUME NEW S \in SUBSET BatchNo, NEW f \in [S -> Text]
  PROVE  f \in Payload
BY DEF Payload

\* What checkpoint_counts reads off a state is a batch count.
LEMMA CountFacts ==
  ASSUME NEW s \in RunState, NEW k \in Kind
  PROVE  CheckpointCount(s, k) \in Count
BY ConstantsAssumption DEF CheckpointCount, RunState, Count

\* The memory of a process that runs nothing is typed.
LEMMA IdleRunType == IdleRun \in Run
BY KindFacts, ConstantsAssumption DEF IdleRun, Run, Phase

\* So is that of a run that starts from nothing.
LEMMA FreshRunType ==
  ASSUME NEW f \in Fingerprint
  PROVE  FreshRun(f) \in Run
BY KindFacts DEF FreshRun, Run, Phase

\* A loadable checkpoint loads texts for its own batches.
LEMMA LoadedType ==
  ASSUME NEW s \in RunState, NEW k \in Kind, NEW disk, NEW pad \in [Kind -> Payload],
         Loadable(s, k, disk, pad)
  PROVE  /\ Loaded(s, k, pad) \in Payload
         /\ DOMAIN Loaded(s, k, pad) = 1..CheckpointCount(s, k)
PROOF
  <1> DEFINE n == CheckpointCount(s, k)
  <1>1. n \in Count /\ 1..n \in SUBSET BatchNo
    <2>1. n \in Count
      BY CountFacts
    <2> QED BY <2>1, ConstantsAssumption DEF Count, BatchNo
  <1>2. CASE s.pinned
    <2> DEFINE ref(i) == CHOOSE r \in s.manifest[k] : Covers(r, i)
    <2>1. ASSUME NEW i \in 1..n
          PROVE  ref(i).sha[i] \in Text
      <3>1. ref(i) \in s.manifest[k] /\ Covers(ref(i), i)
        BY <1>2 DEF Loadable, Contiguous
      <3>2. ref(i) \in ShardRef
        BY <3>1 DEF RunState, Manifest
      <3>3. ref(i).first <= n
        BY <3>1, <3>2, <1>1, ConstantsAssumption DEF Covers, ShardRef, BatchNo, Count
      <3>4. DOMAIN ref(i).sha = ref(i).first..ref(i).last
        BY <3>1, <3>3, <1>2 DEF Loadable
      <3>5. i \in DOMAIN ref(i).sha
        BY <3>1, <3>2, <3>4 DEF Covers, ShardRef, BatchNo
      <3> QED BY <3>2, <3>5, PayloadFunction DEF ShardRef
    <2>2. Loaded(s, k, pad) = [i \in 1..n |-> ref(i).sha[i]]
      BY <1>2 DEF Loaded
    <2>3. Loaded(s, k, pad) \in [1..n -> Text]
      BY <2>1, <2>2
    <2> QED BY <2>3, <1>1, FunctionPayload
  <1>3. CASE ~ s.pinned /\ DOMAIN s.inline[k] # {}
    <2>1. Loaded(s, k, pad) = s.inline[k] /\ DOMAIN s.inline[k] = 1..n
      BY <1>3 DEF Loaded, Loadable
    <2> QED BY <2>1 DEF RunState
  <1>4. CASE ~ s.pinned /\ ~ (DOMAIN s.inline[k] # {})
    <2>1. Loaded(s, k, pad) = [i \in 1..n |-> pad[k][i]] /\ 1..n \subseteq DOMAIN pad[k]
      BY <1>4 DEF Loaded, Loadable
    <2>2. Loaded(s, k, pad) \in [1..n -> Text]
      BY <2>1, PayloadFunction
    <2> QED BY <2>1, <2>2, <1>1, FunctionPayload
  <1> QED BY <1>2, <1>3, <1>4

\* import_manifest yields a manifest when it can read what it imports.
LEMMA ImportManifestType ==
  ASSUME NEW s \in RunState, padded \in [Kind -> Payload], CanImport(s)
  PROVE  ImportManifest(s) \in Manifest
PROOF
  <1>1. CASE s.pinned
    BY <1>1 DEF ImportManifest, RunState
  <1>2. CASE ~ s.pinned
    <2> DEFINE n(k) == CheckpointCount(s, k)
               inl(k) == {[first |-> 1, last |-> n(k), sha |-> s.inline[k]]}
               pads(k) == {[first |-> i, last |-> i, sha |-> Shard(i, padded[k][i])] :
                             i \in 1..n(k)}
               refs(k) == IF n(k) > 0 /\ DOMAIN s.inline[k] # {} THEN inl(k) ELSE pads(k)
    <2>1. ASSUME NEW k \in Kind
          PROVE  refs(k) \in SUBSET ShardRef
      <3>1. n(k) \in Count
        BY CountFacts
      <3>2. CASE n(k) > 0 /\ DOMAIN s.inline[k] # {}
        <4>1. 1 \in BatchNo /\ n(k) \in BatchNo
          BY <3>1, <3>2, ConstantsAssumption DEF Count, BatchNo
        <4>2. s.inline[k] \in Payload
          BY DEF RunState
        <4> QED BY <3>2, <4>1, <4>2 DEF ShardRef
      <3>3. CASE n(k) = 0
        <4>1. 1..n(k) = {}
          BY <3>3
        <4>2. refs(k) = {}
          BY <3>3, <4>1
        <4> QED BY <4>2
      <3>4. CASE n(k) > 0 /\ DOMAIN s.inline[k] = {}
        <4>1. 1..n(k) \subseteq DOMAIN padded[k]
          BY <1>2, <3>4 DEF CanImport, Loadable
        <4>2. ASSUME NEW i \in 1..n(k)
              PROVE  [first |-> i, last |-> i, sha |-> Shard(i, padded[k][i])] \in ShardRef
          <5>1. i \in BatchNo
            BY <3>1, ConstantsAssumption DEF Count, BatchNo
          <5>2. padded[k][i] \in Text
            BY <4>1, PayloadFunction
          <5> QED BY <5>1, <5>2, ShardType DEF ShardRef
        <4> QED BY <3>4, <4>2
      <3> QED BY <3>1, <3>2, <3>3, <3>4 DEF Count
    <2>2. ImportManifest(s) = [k \in Kind |-> refs(k)]
      BY <1>2 DEF ImportManifest
    <2> QED BY <2>1, <2>2 DEF Manifest
  <1> QED BY <1>1, <1>2

\* So does the manifest a commit starts from.
LEMMA BaseManifestType ==
  ASSUME TypeOK, NEW p \in Proc, ReadyToCommit(p)
  PROVE  /\ BaseManifest(p) \in Manifest
         /\ Imported(p) \subseteq Payload
PROOF
  <1>1. BaseManifest(p) \in Manifest
    BY ImportManifestType, KindFacts DEF TypeOK, ReadyToCommit, BaseManifest, HasPrior
  <1>2. ASSUME NEW k \in Kind, NEW r \in BaseManifest(p)[k]
        PROVE  r.sha \in Payload
    BY <1>1, <1>2 DEF Manifest, ShardRef
  <1> QED BY <1>1, <1>2 DEF Imported

\* Adding the shard of one batch keeps a manifest a manifest.
LEMMA WithShardType ==
  ASSUME NEW m \in Manifest, NEW k \in Kind, NEW b \in BatchNo, NEW t \in Text
  PROVE  WithShard(m, k, b, t) \in Manifest
PROOF
  <1>1. [first |-> b, last |-> b, sha |-> Shard(b, t)] \in ShardRef
    BY ShardType DEF ShardRef
  <1> QED BY <1>1 DEF WithShard, Manifest

\* A run that was given one more batch is typed.
LEMMA WithBatchType ==
  ASSUME NEW r \in Run, NEW k \in Kind, NEW b \in BatchNo, NEW t \in Text
  PROVE  WithBatch(r, k, b, t) \in Run
PROOF
  <1> DEFINE f == [i \in DOMAIN r.text[k] \cup {b} |->
                     IF i = b THEN t ELSE r.text[k][i]]
  <1>1. r.text[k] \in Payload
    BY DEF Run
  <1>2. DOMAIN r.text[k] \cup {b} \in SUBSET BatchNo
    BY <1>1, PayloadFunction
  <1>3. f \in [DOMAIN r.text[k] \cup {b} -> Text]
    BY <1>1, PayloadFunction
  <1>4. f \in Payload
    BY <1>2, <1>3, FunctionPayload
  <1>5. b \in Count
    BY ConstantsAssumption DEF BatchNo, Count
  <1> QED BY <1>4, <1>5 DEF WithBatch, Run

\* RunState::new builds a state.
LEMMA NewStateType ==
  ASSUME NEW f \in Fingerprint, NEW done \in [Kind -> Count], NEW m \in Manifest
  PROVE  NewState(f, done, m) \in RunState
BY KindFacts DEF NewState, RunState, RunStateVersion

-----------------------------------------------------------------------------
(* Type correctness *)

\* What every commit puts into commit[p].
LEMMA CommitShardType ==
  ASSUME TypeOK, NEW p \in Proc, ReadyToCommit(p), NEW k \in Kind, NEW b \in BatchNo,
         NEW t \in Text, NEW done \in [Kind -> Count], NEW after \in Run,
         CommitShard(p, k, b, t, done, after)
  PROVE  TypeOK'
PROOF
  <1>1. /\ WithShard(BaseManifest(p), k, b, t) \in Manifest
        /\ Imported(p) \cup {Shard(b, t)} \subseteq Payload
    BY BaseManifestType, WithShardType, ShardType
  <1>2. run[p].fp \in Fingerprint
    BY DEF TypeOK, Run
  <1> DEFINE c == [state   |-> NewState(run[p].fp, done, WithShard(BaseManifest(p), k, b, t)),
                   toWrite |-> Imported(p) \cup {Shard(b, t)},
                   after   |-> after,
                   check   |-> "due"]
  <1>3. c \in Commit
    BY <1>1, <1>2, NewStateType DEF Commit
  <1>4. commit' = [commit EXCEPT ![p] = c]
    BY DEF CommitShard, StartCommit
  <1>5. commit' \in [Proc -> Commit \cup {NoCommit}]
    BY <1>3, <1>4 DEF TypeOK
  <1> QED BY <1>5 DEF CommitShard, StartCommit, TypeOK

\* A commit without shards (save_run_state) is typed.
LEMMA CommitCountsType ==
  ASSUME TypeOK, NEW p \in Proc, ReadyToCommit(p), NEW done \in [Kind -> Count],
         NEW after \in Run, CommitCounts(p, done, after)
  PROVE  TypeOK'
PROOF
  <1>1. /\ BaseManifest(p) \in Manifest
        /\ Imported(p) \cup {} \subseteq Payload
    BY BaseManifestType
  <1>2. run[p].fp \in Fingerprint
    BY DEF TypeOK, Run
  <1> DEFINE c == [state   |-> NewState(run[p].fp, done, BaseManifest(p)),
                   toWrite |-> Imported(p) \cup {},
                   after   |-> after,
                   check   |-> "due"]
  <1>3. c \in Commit
    BY <1>1, <1>2, NewStateType DEF Commit
  <1>4. commit' = [commit EXCEPT ![p] = c]
    BY DEF CommitCounts, StartCommit
  <1>5. commit' \in [Proc -> Commit \cup {NoCommit}]
    BY <1>3, <1>4 DEF TypeOK
  <1> QED BY <1>5 DEF CommitCounts, StartCommit, TypeOK

\* The fields of a run.
LEMMA RunFields ==
  ASSUME TypeOK, NEW p \in Proc
  PROVE  /\ run[p] \in Run /\ run[p].fp \in Fingerprint
         /\ run[p].done \in [Kind -> Count] /\ run[p].resumed \in [Kind -> Count]
         /\ \A k \in Kind : Batches[run[p].fp][k] \in Count
BY ConstantsAssumption DEF TypeOK, Run

\* Opening a run keeps the types, resumed or not.
LEMMA OpenType ==
  ASSUME TypeOK, NEW p \in Proc, NEW f \in Fingerprint, NEW resume \in BOOLEAN,
         Open(p, f, resume)
  PROVE  TypeOK'
PROOF
  <1>1. FreshRun(f) \in Run
    BY FreshRunType
  <1>2. CASE resume /\ runState # NoState /\ runState.fp = f
    <2>1. runState \in RunState
      BY <1>2 DEF TypeOK
    <2>2. \A k \in Kind : Loadable(runState, k, shards, padded)
      BY <1>2 DEF Open
    <2>3. \A k \in Kind : Loaded(runState, k, padded) \in Payload
                        /\ CheckpointCount(runState, k) \in Count
      BY <2>1, <2>2, LoadedType, CountFacts DEF TypeOK
    <2>4. ResumedRun(runState) \in Run
      BY <1>2, <2>3 DEF ResumedRun, Run, Phase
    <2> QED BY <1>2, <2>1, <2>4 DEF Open, TypeOK
  <1>3. CASE ~ (resume /\ runState # NoState /\ runState.fp = f)
    <2>1. run' = [run EXCEPT ![p] = FreshRun(f)]
      BY <1>3 DEF Open
    <2>2. checkpoint' \in [Proc -> RunState \cup {NoState}]
      BY DEF Open, TypeOK
    <2> QED BY <1>1, <2>1, <2>2 DEF Open, TypeOK
  <1> QED BY <1>2, <1>3

\* Each step of a stage keeps the types.
LEMMA WorkType ==
  ASSUME TypeOK, NEW p \in Proc,
         \/ TranslateBatch(p) \/ FinishTranslation(p)
         \/ ReviewBatch(p) \/ FinishReview(p) \/ Finalize(p)
  PROVE  TypeOK'
PROOF
  <1> DEFINE r == run[p]
  <1>1. /\ r \in Run /\ r.done \in [Kind -> Count] /\ r.resumed \in [Kind -> Count]
        /\ \A k \in Kind : Batches[r.fp][k] \in Count
    BY RunFields
  <1>2. 0 \in Count /\ 1 \in Count /\ 1 \in BatchNo
    BY ConstantsAssumption DEF Count, BatchNo
  <1>3. \A k \in Kind : r.done[k] + 1 <= Batches[r.fp][k] =>
          r.done[k] + 1 \in BatchNo /\ r.done[k] + 1 \in Count
    BY <1>1, ConstantsAssumption DEF Count, BatchNo
  <1>4. CASE TranslateBatch(p)
    <2> DEFINE b == r.done["translated"] + 1
    <2>1. b \in BatchNo /\ b \in Count
      BY <1>3, <1>4, KindFacts DEF TranslateBatch
    <2>2. PICK t \in Text :
            CommitShard(p, "translated", b, t,
              [r.resumed EXCEPT !["translated"] = b, !["finalized"] = 0],
              WithBatch(r, "translated", b, t))
      BY <1>4 DEF TranslateBatch
    <2>3. [r.resumed EXCEPT !["translated"] = b, !["finalized"] = 0] \in [Kind -> Count]
      BY <1>1, <1>2, <2>1
    <2>4. WithBatch(r, "translated", b, t) \in Run
      BY <1>1, <2>1, WithBatchType, KindFacts
    <2>5. ReadyToCommit(p)
      BY <1>4 DEF TranslateBatch
    <2> QED BY <2>1, <2>2, <2>3, <2>4, <2>5, CommitShardType, KindFacts
  <1>5. CASE FinishTranslation(p)
    <2>1. [r.resumed EXCEPT !["translated"] = r.done["translated"]] \in [Kind -> Count]
      BY <1>1, KindFacts
    <2>2. [r EXCEPT !.phase = "review"] \in Run
      BY <1>1 DEF Run, Phase
    <2> QED BY <1>5, <2>1, <2>2, CommitCountsType DEF FinishTranslation
  <1>6. CASE ReviewBatch(p)
    <2> DEFINE b == r.done["reviewed"] + 1
    <2>1. b \in BatchNo /\ b \in Count
      BY <1>3, <1>6, KindFacts DEF ReviewBatch
    <2>2. PICK t \in Text :
            CommitShard(p, "reviewed", b, t,
              [r.done EXCEPT !["reviewed"] = b, !["finalized"] = 0],
              WithBatch(r, "reviewed", b, t))
      BY <1>6 DEF ReviewBatch
    <2>3. [r.done EXCEPT !["reviewed"] = b, !["finalized"] = 0] \in [Kind -> Count]
      BY <1>1, <1>2, <2>1
    <2>4. WithBatch(r, "reviewed", b, t) \in Run
      BY <1>1, <2>1, WithBatchType, KindFacts
    <2>5. ReadyToCommit(p)
      BY <1>6 DEF ReviewBatch
    <2> QED BY <2>1, <2>2, <2>3, <2>4, <2>5, CommitShardType, KindFacts
  <1>7. CASE FinishReview(p)
    <2>1. [r.done EXCEPT !["finalized"] = r.resumed["finalized"]] \in [Kind -> Count]
      BY <1>1, KindFacts
    <2>2. [r EXCEPT !.phase = "finalize"] \in Run
      BY <1>1 DEF Run, Phase
    <2>3. ReadyToCommit(p)
      BY <1>7 DEF FinishReview
    <2> QED BY <1>7, <2>1, <2>2, <2>3, CommitCountsType DEF FinishReview
  <1>8. CASE Finalize(p)
    <2>1. PICK t \in Text :
            CommitShard(p, "finalized", 1, t, [r.done EXCEPT !["finalized"] = 1],
              [WithBatch(r, "finalized", 1, t) EXCEPT !.phase = "done"])
      BY <1>8 DEF Finalize
    <2>2. [r.done EXCEPT !["finalized"] = 1] \in [Kind -> Count]
      BY <1>1, <1>2
    <2>3. WithBatch(r, "finalized", 1, t) \in Run
      BY <1>1, <1>2, WithBatchType, KindFacts
    <2>4. [WithBatch(r, "finalized", 1, t) EXCEPT !.phase = "done"] \in Run
      BY <2>3 DEF Run, Phase
    <2>5. ReadyToCommit(p)
      BY <1>8 DEF Finalize
    <2> QED BY <1>2, <2>1, <2>2, <2>4, <2>5, CommitShardType, KindFacts
  <1> QED BY <1>4, <1>5, <1>6, <1>7, <1>8

\* The initial states are typed, those with a legacy state included.
LEMMA InitType ==
  ASSUME Init
  PROVE  TypeOK
PROOF
  <1>1. padded \in [Kind -> Payload] /\ runState \in RunState \cup {NoState}
    <2>1. CASE runState = NoState /\ padded = NoTexts
      BY <2>1, KindFacts
    <2>2. CASE Legacy
      <3>1. PICK v \in LegacyVersion, f \in Fingerprint, done \in [Kind -> Count],
                 text \in [Kind -> Payload] :
               \/ padded = text /\ runState = LegacyState(v, f, done, NoTexts)
               \/ /\ padded = [text EXCEPT !["translated"] = NoText, !["reviewed"] = NoText]
                  /\ runState = LegacyState(v, f, done, [text EXCEPT !["finalized"] = NoText])
        BY <2>2 DEF Legacy
      <3>2. NoText \in Payload
        BY KindFacts DEF NoTexts
      <3>3. v \in 1..RunStateVersion
        BY ConstantsAssumption DEF RunStateVersion
      <3>4. \A x \in [Kind -> Payload] : LegacyState(v, f, done, x) \in RunState
        BY <3>3, KindFacts DEF LegacyState, RunState
      <3> QED BY <3>1, <3>2, <3>4, KindFacts
    <2> QED BY <2>1, <2>2 DEF Init
  <1> QED BY <1>1, IdleRunType DEF Init, TypeOK

\* The types are kept by every step.
LEMMA NextType ==
  ASSUME TypeOK, [Next]_vars
  PROVE  TypeOK'
PROOF
  <1>1. CASE UNCHANGED vars
    BY <1>1 DEF vars, TypeOK
  <1>2. ASSUME NEW p \in Proc, NEW f \in Fingerprint, NEW resume \in BOOLEAN,
               Open(p, f, resume)
        PROVE  TypeOK'
    BY <1>2, OpenType
  <1>3. ASSUME NEW p \in Proc,
               \/ TranslateBatch(p) \/ FinishTranslation(p)
               \/ ReviewBatch(p) \/ FinishReview(p) \/ Finalize(p)
        PROVE  TypeOK'
    BY <1>3, WorkType
  <1>4. ASSUME NEW p \in Proc, WriteShard(p)
        PROVE  TypeOK'
    <2>1. commit[p] \in Commit
      BY <1>4 DEF WriteShard, TypeOK
    <2>2. PICK c \in commit[p].toWrite :
            /\ shards' = shards \cup {c}
            /\ commit' = [commit EXCEPT ![p].toWrite = @ \ {c}]
      BY <1>4 DEF WriteShard
    <2>3. c \in Payload /\ commit[p].toWrite \ {c} \in SUBSET Payload
      BY <2>1 DEF Commit
    <2>4. [commit[p] EXCEPT !.toWrite = @ \ {c}] \in Commit
      BY <2>1, <2>3 DEF Commit
    <2>5. commit' \in [Proc -> Commit \cup {NoCommit}]
      BY <2>2, <2>4 DEF TypeOK
    <2> QED BY <1>4, <2>2, <2>3, <2>5 DEF WriteShard, TypeOK
  <1>5. ASSUME NEW p \in Proc, Publish(p)
        PROVE  TypeOK'
    <2>1. commit[p] \in Commit
      BY <1>5 DEF Publish, Accept, TypeOK
    <2>2. commit[p].state \in RunState /\ commit[p].after \in Run
      BY <2>1 DEF Commit
    <2>3. torn' \in BOOLEAN /\ cleaned' \subseteq Proc
      BY <1>5 DEF Publish, Accept, TypeOK
    <2> QED BY <1>5, <2>2, <2>3 DEF Publish, Accept, TypeOK
  <1>6. ASSUME NEW p \in Proc, Stop(p)
        PROVE  TypeOK'
    BY <1>6, IdleRunType DEF Stop, TypeOK
  <1>7. CASE CleanRuns
    <2>1. commit' \in [Proc -> Commit \cup {NoCommit}]
      <3>1. ASSUME NEW q \in Proc, commit[q] # NoCommit
            PROVE  [commit[q] EXCEPT !.check = "void"] \in Commit
        BY <3>1 DEF TypeOK, Commit
      <3> QED BY <1>7, <3>1 DEF CleanRuns, TypeOK
    <2> QED BY <1>7, <2>1, KindFacts DEF CleanRuns, TypeOK
  <1>8. ASSUME NEW p \in Proc, Verify(p)
        PROVE  TypeOK'
    <2>1. [commit[p] EXCEPT !.check = "passed"] \in Commit
      BY <1>8 DEF Verify, TypeOK, Commit
    <2> QED BY <1>8, <2>1 DEF Verify, TypeOK
  <1> QED BY <1>1, <1>2, <1>3, <1>4, <1>5, <1>6, <1>7, <1>8 DEF Next

\* Every reachable state of the store is well typed.
THEOREM TypeCorrect == Spec => []TypeOK
PROOF
  <1>1. Init => TypeOK
    BY InitType
  <1>2. TypeOK /\ [Next]_vars => TypeOK'
    BY NextType
  <1> QED BY <1>1, <1>2, PTL DEF Spec

-----------------------------------------------------------------------------
(* What is published or accepted can be read back *)

\* A process without a run holds no checkpoint and commits nothing.
IdleIsEmpty ==
  \A p \in Proc :
    /\ run[p].phase = "idle" => checkpoint[p] = NoState /\ commit[p] = NoCommit
    /\ commit[p] # NoCommit => commit[p].after.phase # "idle"

\* A state that was read back and not undercut since can still be read.
VerifiedLoadable ==
  \A p \in Proc :
    commit[p] # NoCommit /\ commit[p].check = "passed" =>
      \A k \in Kind : Loadable(commit[p].state, k, shards, padded)

\* The inductive invariant: none of the readability properties holds alone,
\* since a process accepts what is published and publishes what it has read
\* back before, when other processes may have gone on since.
LoadInv ==
  TypeOK /\ IdleIsEmpty /\ VerifiedLoadable /\ PublishedLoadable /\ AcceptedLoadable

\* More shard files never make a checkpoint unreadable.
LEMMA LoadableMonotone ==
  ASSUME NEW s, NEW k, NEW disk, NEW more, NEW pad,
         disk \subseteq more, Loadable(s, k, disk, pad)
  PROVE  Loadable(s, k, more, pad)
BY DEF Loadable

\* What older versions left behind is loadable.
LEMMA LegacyLoadable ==
  ASSUME Init, runState # NoState, NEW k \in Kind
  PROVE  Loadable(runState, k, shards, padded)
PROOF
  <1>1. PICK v \in LegacyVersion, f \in Fingerprint, done \in [Kind -> Count],
             text \in [Kind -> Payload] :
           /\ \A j \in Kind : DOMAIN text[j] = 1..done[j]
           /\ \/ padded = text /\ runState = LegacyState(v, f, done, NoTexts)
              \/ /\ padded = [text EXCEPT !["translated"] = NoText, !["reviewed"] = NoText]
                 /\ runState = LegacyState(v, f, done, [text EXCEPT !["finalized"] = NoText])
    BY DEF Init, Legacy
  <1>2. DOMAIN text[k] = 1..done[k] /\ done[k] \in Count
    BY <1>1
  <1>3. DOMAIN NoText = {} /\ NoTexts[k] = NoText
    BY DEF NoText, NoTexts
  <1>4. ~ runState.pinned /\ runState.done = done
    BY <1>1 DEF LegacyState
  <1> DEFINE n == CheckpointCount(runState, k)
  <1>5. 1..n \subseteq 1..done[k] /\ (k # "finalized" => n = done[k])
    BY <1>2, <1>4, ConstantsAssumption DEF CheckpointCount, Count
  <1>6. CASE padded = text /\ runState = LegacyState(v, f, done, NoTexts)
    <2>1. DOMAIN runState.inline[k] = {}
      BY <1>3, <1>6 DEF LegacyState
    <2> QED BY <1>2, <1>4, <1>5, <1>6, <2>1 DEF Loadable
  <1>7. CASE /\ padded = [text EXCEPT !["translated"] = NoText, !["reviewed"] = NoText]
             /\ runState = LegacyState(v, f, done, [text EXCEPT !["finalized"] = NoText])
    <2>1. CASE k = "finalized"
      <3>1. DOMAIN runState.inline[k] = {} /\ padded[k] = text[k]
        BY <1>3, <1>7, <2>1, <1>1 DEF LegacyState
      <3> QED BY <1>2, <1>4, <1>5, <3>1 DEF Loadable
    <2>2. CASE k # "finalized"
      <3>1. runState.inline[k] = text[k]
        BY <1>1, <1>7, <2>2 DEF LegacyState
      <3>2. n = done[k]
        BY <1>5, <2>2
      <3>3. done[k] = 0 => 1..n = {}
        BY <3>2
      <3>4. CASE DOMAIN text[k] = {}
        <4>1. done[k] = 0
          <5>1. done[k] # 0 => 1 \in 1..done[k]
            BY <1>2, ConstantsAssumption DEF Count
          <5> QED BY <1>2, <3>4, <5>1
        <4> QED BY <1>4, <3>1, <3>3, <3>4, <4>1 DEF Loadable
      <3>5. CASE DOMAIN text[k] # {}
        BY <1>2, <1>4, <3>1, <3>2, <3>5 DEF Loadable
      <3> QED BY <3>4, <3>5
    <2> QED BY <2>1, <2>2
  <1> QED BY <1>1, <1>6, <1>7

\* The invariant holds at first.
LEMMA LoadInit ==
  ASSUME Init
  PROVE  LoadInv
PROOF
  <1>1. TypeOK
    BY InitType
  <1>2. IdleIsEmpty /\ VerifiedLoadable /\ AcceptedLoadable
    BY DEF Init, IdleIsEmpty, VerifiedLoadable, AcceptedLoadable
  <1>3. PublishedLoadable
    BY LegacyLoadable DEF PublishedLoadable
  <1> QED BY <1>1, <1>2, <1>3 DEF LoadInv

\* Starting a commit touches nothing that is published or accepted.
LEMMA StartCommitLoad ==
  ASSUME LoadInv, NEW p \in Proc, NEW m, NEW new, NEW done, NEW after,
         run[p].phase # "idle", after.phase # "idle",
         StartCommit(p, m, new, done, after)
  PROVE  IdleIsEmpty' /\ VerifiedLoadable' /\ PublishedLoadable' /\ AcceptedLoadable'
PROOF
  <1> DEFINE c == [state   |-> NewState(run[p].fp, done, m),
                   toWrite |-> Imported(p) \cup new,
                   after   |-> after,
                   check   |-> "due"]
  <1>1. /\ commit' = [commit EXCEPT ![p] = c]
        /\ UNCHANGED <<shards, padded, runState, checkpoint, run, torn, cleaned>>
    BY DEF StartCommit
  <1>2. IdleIsEmpty'
    <2>1. ASSUME NEW q \in Proc
          PROVE  /\ run'[q].phase = "idle" => checkpoint'[q] = NoState /\ commit'[q] = NoCommit
                 /\ commit'[q] # NoCommit => commit'[q].after.phase # "idle"
      <3>1. CASE q = p
        <4>1. commit'[p] = c /\ c.after = after
          BY <1>1 DEF LoadInv, TypeOK
        <4> QED BY <1>1, <3>1, <4>1
      <3>2. CASE q # p
        <4>1. commit'[q] = commit[q]
          BY <1>1, <3>2 DEF LoadInv, TypeOK
        <4> QED BY <1>1, <4>1 DEF LoadInv, IdleIsEmpty
      <3> QED BY <3>1, <3>2
    <2> QED BY <2>1 DEF IdleIsEmpty
  <1>3. PublishedLoadable' /\ AcceptedLoadable'
    BY <1>1 DEF LoadInv, PublishedLoadable, AcceptedLoadable
  <1>4. VerifiedLoadable'
    <2>1. ASSUME NEW q \in Proc
          PROVE  commit'[q] = commit[q] \/ commit'[q].check = "due"
      BY <1>1 DEF LoadInv, TypeOK
    <2> QED BY <1>1, <2>1 DEF LoadInv, VerifiedLoadable
  <1> QED BY <1>2, <1>3, <1>4

\* Every step keeps the invariant, one case per action.
LEMMA LoadNext ==
  ASSUME LoadInv, [Next]_vars
  PROVE  LoadInv'
PROOF
  <1> USE DEF LoadInv
  <1>0. TypeOK'
    BY NextType
  <1>1. CASE UNCHANGED vars
    BY <1>0, <1>1 DEF vars, IdleIsEmpty, VerifiedLoadable, PublishedLoadable,
       AcceptedLoadable
  <1>2. ASSUME NEW p \in Proc, NEW f \in Fingerprint, NEW resume \in BOOLEAN,
               Open(p, f, resume)
        PROVE  LoadInv'
    <2>1. /\ checkpoint[p] = NoState /\ commit[p] = NoCommit
          /\ UNCHANGED <<shards, padded, runState, commit, torn>>
          /\ cleaned \ {p} \subseteq cleaned'
      BY <1>2 DEF Open, IdleIsEmpty
    <2>2. \/ /\ checkpoint' = [checkpoint EXCEPT ![p] = runState]
             /\ torn => p \in cleaned'
          \/ checkpoint' = checkpoint
      BY <1>2 DEF Open
    <2>3. \E r : r.phase = "translate" /\ run' = [run EXCEPT ![p] = r]
      BY <1>2 DEF Open, ResumedRun, FreshRun
    <2>4. IdleIsEmpty'
      <3>1. ASSUME NEW q \in Proc
            PROVE  /\ run'[q].phase = "idle" => checkpoint'[q] = NoState /\ commit'[q] = NoCommit
                   /\ commit'[q] # NoCommit => commit'[q].after.phase # "idle"
        <4>1. CASE q = p
          <5>1. run'[q].phase = "translate"
            BY <2>3, <4>1 DEF TypeOK
          <5> QED BY <2>1, <4>1, <5>1
        <4>2. CASE q # p
          <5>1. run'[q] = run[q] /\ checkpoint'[q] = checkpoint[q]
            BY <2>2, <2>3, <4>2 DEF TypeOK
          <5> QED BY <2>1, <5>1 DEF IdleIsEmpty
        <4> QED BY <4>1, <4>2
      <3> QED BY <3>1 DEF IdleIsEmpty
    <2>5. PublishedLoadable' /\ VerifiedLoadable'
      BY <2>1 DEF PublishedLoadable, VerifiedLoadable
    <2>6. AcceptedLoadable'
      <3>1. ASSUME NEW q \in Proc, checkpoint'[q] # NoState, q \notin cleaned', NEW k \in Kind
            PROVE  Loadable(checkpoint'[q], k, shards, padded)
        <4>1. CASE q = p
          <5>1. checkpoint'[q] = runState /\ ~ torn
            BY <2>1, <2>2, <3>1, <4>1 DEF TypeOK
          <5> QED BY <3>1, <5>1 DEF PublishedLoadable
        <4>2. CASE q # p
          <5>1. checkpoint'[q] = checkpoint[q] /\ q \notin cleaned
            BY <2>1, <2>2, <3>1, <4>2 DEF TypeOK
          <5> QED BY <3>1, <5>1 DEF AcceptedLoadable
        <4> QED BY <4>1, <4>2
      <3> QED BY <2>1, <3>1 DEF AcceptedLoadable
    <2> QED BY <1>0, <2>4, <2>5, <2>6
  <1>3. ASSUME NEW p \in Proc,
               \/ TranslateBatch(p) \/ FinishTranslation(p)
               \/ ReviewBatch(p) \/ FinishReview(p) \/ Finalize(p)
        PROVE  LoadInv'
    <2>1. run[p] \in Run
      BY RunFields
    <2>2. \E m, new, done, after :
            after.phase # "idle" /\ StartCommit(p, m, new, done, after)
      <3>1. CASE TranslateBatch(p)
        <4>1. \A b, t : WithBatch(run[p], "translated", b, t).phase = run[p].phase
          BY <2>1 DEF WithBatch, Run
        <4> QED BY <3>1, <4>1 DEF TranslateBatch, CommitShard
      <3>2. CASE FinishTranslation(p)
        <4>1. [run[p] EXCEPT !.phase = "review"].phase = "review"
          BY <2>1 DEF Run
        <4> QED BY <3>2, <4>1 DEF FinishTranslation, CommitCounts
      <3>3. CASE ReviewBatch(p)
        <4>1. \A b, t : WithBatch(run[p], "reviewed", b, t).phase = run[p].phase
          BY <2>1 DEF WithBatch, Run
        <4> QED BY <3>3, <4>1 DEF ReviewBatch, CommitShard
      <3>4. CASE FinishReview(p)
        <4>1. [run[p] EXCEPT !.phase = "finalize"].phase = "finalize"
          BY <2>1 DEF Run
        <4> QED BY <3>4, <4>1 DEF FinishReview, CommitCounts
      <3>5. CASE Finalize(p)
        <4>1. \A b, t : [WithBatch(run[p], "finalized", b, t)
                           EXCEPT !.phase = "done"].phase = "done"
          BY <2>1 DEF WithBatch, Run
        <4> QED BY <3>5, <4>1 DEF Finalize, CommitShard
      <3> QED BY <1>3, <3>1, <3>2, <3>3, <3>4, <3>5
    <2>3. run[p].phase # "idle"
      BY <1>3 DEF TranslateBatch, FinishTranslation, ReviewBatch, FinishReview, Finalize
    <2> QED BY <1>0, <2>2, <2>3, StartCommitLoad
  <1>4. ASSUME NEW p \in Proc, WriteShard(p)
        PROVE  LoadInv'
    <2>1. PICK c \in commit[p].toWrite :
            /\ shards' = shards \cup {c}
            /\ commit' = [commit EXCEPT ![p].toWrite = @ \ {c}]
            /\ UNCHANGED <<padded, runState, checkpoint, run, torn, cleaned>>
      BY <1>4 DEF WriteShard
    <2>2. commit[p] \in Commit
      BY <1>4 DEF WriteShard, TypeOK
    <2>3. commit'[p].after = commit[p].after
      BY <2>1, <2>2 DEF TypeOK, Commit
    <2>4. IdleIsEmpty'
      <3>1. ASSUME NEW q \in Proc
            PROVE  /\ run'[q].phase = "idle" => checkpoint'[q] = NoState /\ commit'[q] = NoCommit
                   /\ commit'[q] # NoCommit => commit'[q].after.phase # "idle"
        <4>1. CASE q = p
          BY <1>4, <2>1, <2>3, <4>1 DEF IdleIsEmpty, WriteShard
        <4>2. CASE q # p
          <5>1. commit'[q] = commit[q]
            BY <2>1, <4>2 DEF TypeOK
          <5> QED BY <2>1, <5>1 DEF IdleIsEmpty
        <4> QED BY <4>1, <4>2
      <3> QED BY <3>1 DEF IdleIsEmpty
    <2>5. PublishedLoadable' /\ AcceptedLoadable'
      BY <2>1, LoadableMonotone DEF PublishedLoadable, AcceptedLoadable
    <2>6. VerifiedLoadable'
      <3>1. ASSUME NEW q \in Proc
            PROVE  /\ commit'[q].state = commit[q].state
                   /\ commit'[q].check = commit[q].check
                   /\ commit'[q] # NoCommit => commit[q] # NoCommit
        <4>1. CASE q = p
          BY <1>4, <2>1, <2>2, <4>1 DEF TypeOK, Commit, WriteShard
        <4>2. CASE q # p
          BY <2>1, <4>2 DEF TypeOK
        <4> QED BY <4>1, <4>2
      <3>2. ASSUME NEW q \in Proc, commit'[q] # NoCommit, commit'[q].check = "passed",
                   NEW k \in Kind
            PROVE  Loadable(commit'[q].state, k, shards', padded')
        <4>1. Loadable(commit[q].state, k, shards, padded)
          BY <3>1, <3>2 DEF VerifiedLoadable
        <4> QED BY <2>1, <3>1, <4>1, LoadableMonotone
      <3> QED BY <3>2 DEF VerifiedLoadable
    <2> QED BY <1>0, <2>4, <2>5, <2>6
  <1>5. ASSUME NEW p \in Proc, Publish(p)
        PROVE  LoadInv'
    <2>1. IdleIsEmpty'
      <3>1. ASSUME NEW q \in Proc
            PROVE  /\ run'[q].phase = "idle" => checkpoint'[q] = NoState /\ commit'[q] = NoCommit
                   /\ commit'[q] # NoCommit => commit'[q].after.phase # "idle"
        <4>1. CASE q = p
          <5>1. run'[q] = commit[p].after /\ commit'[q] = NoCommit
            BY <1>5, <4>1 DEF Publish, Accept, TypeOK
          <5> QED BY <1>5, <5>1 DEF IdleIsEmpty, Publish, Accept
        <4>2. CASE q # p
          <5>1. run'[q] = run[q] /\ commit'[q] = commit[q] /\ checkpoint'[q] = checkpoint[q]
            BY <1>5, <4>2 DEF Publish, Accept, TypeOK
          <5> QED BY <5>1 DEF IdleIsEmpty
        <4> QED BY <4>1, <4>2
      <3> QED BY <3>1 DEF IdleIsEmpty
    <2>0. commit[p] \in Commit /\ commit[p] # NoCommit
      BY <1>5 DEF Publish, TypeOK
    <2>4. commit[p].check = "void" \/ \A k \in Kind : Loadable(commit[p].state, k, shards, padded)
      BY <1>5, <2>0 DEF VerifiedLoadable, Publish, Commit
    <2>2. PublishedLoadable'
      BY <1>5, <2>4 DEF Publish, Accept, PublishedLoadable
    <2>3. AcceptedLoadable'
      <3>1. ASSUME NEW q \in Proc, checkpoint'[q] # NoState, q \notin cleaned', NEW k \in Kind
            PROVE  Loadable(checkpoint'[q], k, shards, padded)
        <4>1. CASE q = p
          <5>1. checkpoint'[q] = commit[p].state /\ commit[p].check # "void"
            BY <1>5, <3>1, <4>1 DEF Publish, Accept, TypeOK
          <5> QED BY <2>4, <5>1
        <4>2. CASE q # p
          <5>1. checkpoint'[q] = checkpoint[q] /\ q \notin cleaned
            BY <1>5, <3>1, <4>2 DEF Publish, Accept, TypeOK
          <5> QED BY <3>1, <5>1 DEF AcceptedLoadable
        <4> QED BY <4>1, <4>2
      <3> QED BY <1>5, <3>1 DEF AcceptedLoadable, Publish, Accept
    <2>5. VerifiedLoadable'
      <3>1. ASSUME NEW q \in Proc
            PROVE  commit'[q] = commit[q] \/ commit'[q] = NoCommit
        BY <1>5 DEF Publish, Accept, TypeOK
      <3> QED BY <1>5, <3>1 DEF VerifiedLoadable, Publish
    <2> QED BY <1>0, <2>1, <2>2, <2>3, <2>5
  <1>6. ASSUME NEW p \in Proc, Stop(p)
        PROVE  LoadInv'
    <2>1. ASSUME NEW q \in Proc
          PROVE  \/ /\ q = p /\ checkpoint'[q] = NoState /\ commit'[q] = NoCommit
                 \/ /\ q # p /\ run'[q] = run[q] /\ checkpoint'[q] = checkpoint[q]
                    /\ commit'[q] = commit[q]
      BY <1>6 DEF Stop, TypeOK
    <2>2. IdleIsEmpty'
      BY <2>1 DEF IdleIsEmpty
    <2>3. cleaned' = cleaned \ {p} /\ UNCHANGED <<shards, padded, runState, torn>>
      BY <1>6 DEF Stop
    <2>4. PublishedLoadable' /\ AcceptedLoadable' /\ VerifiedLoadable'
      BY <2>1, <2>3 DEF PublishedLoadable, AcceptedLoadable, VerifiedLoadable
    <2> QED BY <1>0, <2>2, <2>4
  <1>7. CASE CleanRuns
    <2>1. ASSUME NEW q \in Proc, commit'[q] # NoCommit
          PROVE  /\ commit[q] # NoCommit
                 /\ commit'[q].check # "passed" /\ commit'[q].after = commit[q].after
      <3>1. commit[q] \in Commit
        BY <1>7, <2>1 DEF CleanRuns, TypeOK
      <3> QED BY <1>7, <2>1, <3>1 DEF CleanRuns, Commit
    <2>2. IdleIsEmpty'
      BY <1>7, <2>1 DEF CleanRuns, IdleIsEmpty
    <2>3. VerifiedLoadable' /\ PublishedLoadable' /\ AcceptedLoadable'
      BY <1>7, <2>1 DEF CleanRuns, VerifiedLoadable, PublishedLoadable, AcceptedLoadable
    <2> QED BY <1>0, <2>2, <2>3
  <1>8. ASSUME NEW p \in Proc, Verify(p)
        PROVE  LoadInv'
    <2>1. commit[p] \in Commit
      BY <1>8 DEF Verify, TypeOK
    <2>2. ASSUME NEW q \in Proc
          PROVE  \/ commit'[q] = commit[q]
                 \/ /\ q = p /\ commit[q] # NoCommit
                    /\ commit'[q].after = commit[q].after
                    /\ commit'[q].state = commit[q].state
      BY <1>8, <2>1 DEF Verify, TypeOK, Commit
    <2>3. UNCHANGED <<shards, padded, runState, checkpoint, run, torn, cleaned>>
      BY <1>8 DEF Verify
    <2>4. IdleIsEmpty'
      BY <2>2, <2>3 DEF IdleIsEmpty
    <2>5. VerifiedLoadable'
      BY <1>8, <2>2, <2>3 DEF VerifiedLoadable, Verify
    <2>6. PublishedLoadable' /\ AcceptedLoadable'
      BY <2>3 DEF PublishedLoadable, AcceptedLoadable
    <2> QED BY <1>0, <2>4, <2>5, <2>6
  <1> QED BY <1>1, <1>2, <1>3, <1>4, <1>5, <1>6, <1>7, <1>8 DEF Next

\* The inductive invariant of the two theorems below: types, what an idle
\* process holds, and both loadability invariants together.
THEOREM LoadInvariant == Spec => []LoadInv
PROOF
  <1>1. Init => LoadInv
    BY LoadInit
  <1>2. LoadInv /\ [Next]_vars => LoadInv'
    BY LoadNext
  <1> QED BY <1>1, <1>2, PTL DEF Spec

\* The state file names no shard that is missing, whatever stops or races, and
\* after every removal but the one between the reading back of a state and its
\* rename, which nothing in commit_checkpoint excludes.
THEOREM PublishedIsLoadable == Spec => []PublishedLoadable
PROOF
  <1>1. LoadInv => PublishedLoadable
    BY DEF LoadInv
  <1> QED BY <1>1, LoadInvariant, PTL

\* An accepted checkpoint stays readable while other processes publish, unless
\* `runtime clean` removed its files (before or after it was accepted).
THEOREM AcceptedIsLoadable == Spec => []AcceptedLoadable
PROOF
  <1>1. LoadInv => AcceptedLoadable
    BY DEF LoadInv
  <1> QED BY <1>1, LoadInvariant, PTL
=============================================================================
