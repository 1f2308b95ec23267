----------------------- MODULE CheckpointLog_proofs -----------------------
(***************************************************************************)
(* What a run may resume is what it had in memory, and the store as a      *)
(* whole implements ResumeLog: proofs for any number of processes,         *)
(* translations, batches and texts.                                        *)
(***************************************************************************)
EXTENDS CheckpointStore_proofs

-----------------------------------------------------------------------------
(* The inductive invariant *)

\* References that hold the first n batches of a stage, with these texts.
Stored(refs, n, text) ==
  /\ Contiguous(refs, n)
  /\ \A r \in refs, i \in 1..n : Covers(r, i) => r.sha[i] = text[i]

\* A checkpoint holds what a run has in memory.  An older state counts only
\* as long as its files can still be read.
Holds(s, r) ==
  /\ s.fp = r.fp
  /\ \A k \in Kind :
       /\ CheckpointCount(s, k) = r.done[k]
       /\ s.pinned => Stored(s.manifest[k], r.done[k], r.text[k])
       /\ ~ s.pinned /\ Loadable(s, k, shards, padded) => Loaded(s, k, padded) = r.text[k]

\* A run's stages are completed in order, its texts are those of the batches
\* it counts, and a stage not reached yet is as it was resumed.
RunOK(r) ==
  /\ InOrder(r.fp, r.done)
  /\ \A k \in Kind : DOMAIN r.text[k] = 1..r.done[k]
  /\ r.phase = "translate" => r.resumed["reviewed"] = r.done["reviewed"]
  /\ r.phase \in {"translate", "review"} => r.resumed["finalized"] = r.done["finalized"]
  /\ r.phase \in {"review", "finalize"} => r.done["translated"] = Batches[r.fp]["translated"]
  /\ r.phase = "finalize" => r.done["reviewed"] = Batches[r.fp]["reviewed"]

\* The run a commit leads to: one batch more of the stage the run is in, or
\* the next stage.
Advances(r, after) ==
  \/ /\ r.phase = "translate"
     /\ r.done["translated"] < Batches[r.fp]["translated"]
     /\ \E t \in Text : after = WithBatch(r, "translated", r.done["translated"] + 1, t)
  \/ /\ r.phase = "translate"
     /\ r.done["translated"] = Batches[r.fp]["translated"]
     /\ after = [r EXCEPT !.phase = "review"]
  \/ /\ r.phase = "review"
     /\ r.done["reviewed"] < Batches[r.fp]["reviewed"]
     /\ \E t \in Text : after = WithBatch(r, "reviewed", r.done["reviewed"] + 1, t)
  \/ /\ r.phase = "review"
     /\ r.done["reviewed"] = Batches[r.fp]["reviewed"]
     /\ after = [r EXCEPT !.phase = "finalize"]
  \/ /\ r.phase = "finalize"
     /\ \E t \in Text :
          after = [WithBatch(r, "finalized", 1, t) EXCEPT !.phase = "done"]

\* The published state counts its stages in order.
PublishedInOrder ==
  runState # NoState =>
    InOrder(runState.fp, [k \in Kind |-> CheckpointCount(runState, k)])

\* What each run has in memory, and where it stands without a checkpoint.
RunsInMemory ==
  \A p \in Proc :
    run[p].phase # "idle" =>
      /\ RunOK(run[p])
      /\ HasPrior(p) => Holds(checkpoint[p], run[p])
      /\ ~ HasPrior(p) => run[p] = FreshRun(run[p].fp)

\* What each commit in progress is about to publish.
CommitsInMemory ==
  \A p \in Proc :
    commit[p] # NoCommit =>
      /\ Advances(run[p], commit[p].after)
      /\ Holds(commit[p].state, commit[p].after)
      /\ commit[p].state.pinned

MemoryInv == LoadInv /\ PublishedInOrder /\ RunsInMemory /\ CommitsInMemory

-----------------------------------------------------------------------------
(* References and the texts they hold *)

\* A pinned state loads the texts its references hold, whatever the disk.
LEMMA StoredLoads ==
  ASSUME NEW s \in RunState, NEW k \in Kind, NEW pad, NEW text \in Payload,
         s.pinned, DOMAIN text = 1..CheckpointCount(s, k),
         Stored(s.manifest[k], CheckpointCount(s, k), text)
  PROVE  Loaded(s, k, pad) = text
PROOF
  <1> DEFINE n == CheckpointCount(s, k)
             ref(i) == CHOOSE r \in s.manifest[k] : Covers(r, i)
  <1>1. ASSUME NEW i \in 1..n
        PROVE  ref(i).sha[i] = text[i]
    <2>1. ref(i) \in s.manifest[k] /\ Covers(ref(i), i)
      BY DEF Stored, Contiguous
    <2> QED BY <2>1 DEF Stored
  <1>2. Loaded(s, k, pad) = [i \in 1..n |-> ref(i).sha[i]]
    BY DEF Loaded
  <1>3. Loaded(s, k, pad) = [i \in 1..n |-> text[i]]
    BY <1>1, <1>2
  <1>4. text = [i \in 1..n |-> text[i]]
    BY PayloadFunction
  <1> QED BY <1>3, <1>4

\* The references of a state that can be read hold what they load.
LEMMA LoadableStored ==
  ASSUME NEW s \in RunState, NEW k \in Kind, NEW disk, NEW pad,
         s.pinned, Loadable(s, k, disk, pad)
  PROVE  Stored(s.manifest[k], CheckpointCount(s, k), Loaded(s, k, pad))
PROOF
  <1> DEFINE n == CheckpointCount(s, k)
             ref(i) == CHOOSE r \in s.manifest[k] : Covers(r, i)
  <1>1. Contiguous(s.manifest[k], n)
    BY DEF Loadable
  <1>2. ASSUME NEW r \in s.manifest[k], NEW i \in 1..n, Covers(r, i)
        PROVE  r.sha[i] = Loaded(s, k, pad)[i]
    <2>1. ref(i) \in s.manifest[k] /\ Covers(ref(i), i)
      BY <1>2
    <2>2. ref(i) = r
      BY <1>1, <1>2, <2>1 DEF Contiguous
    <2>3. Loaded(s, k, pad)[i] = ref(i).sha[i]
      BY DEF Loaded
    <2> QED BY <2>2, <2>3
  <1> QED BY <1>1, <1>2 DEF Stored

\* Importing an older state yields references to the texts it loads.
LEMMA ImportStored ==
  ASSUME NEW s \in RunState, NEW k \in Kind, ~ s.pinned,
         Loadable(s, k, shards, padded)
  PROVE  Stored(ImportManifest(s)[k], CheckpointCount(s, k), Loaded(s, k, padded))
PROOF
  <1> DEFINE n == CheckpointCount(s, k)
  <1>1. n \in Nat
    BY CountFacts, ConstantsAssumption DEF Count
  <1>2. CASE n > 0 /\ DOMAIN s.inline[k] # {}
    <2> DEFINE ref == [first |-> 1, last |-> n, sha |-> s.inline[k]]
    <2>1. ImportManifest(s)[k] = {ref}
      BY <1>2 DEF ImportManifest
    <2>2. Loaded(s, k, padded) = s.inline[k]
      BY <1>2 DEF Loaded
    <2>3. Contiguous({ref}, n)
      BY <1>1 DEF Contiguous, Covers
    <2> QED BY <2>1, <2>2, <2>3 DEF Stored
  <1>3. CASE n = 0
    <2>1. 1..n = {}
      BY <1>3
    <2>2. ImportManifest(s)[k] = {}
      BY <1>3, <2>1 DEF ImportManifest
    <2> QED BY <2>1, <2>2 DEF Stored, Contiguous
  <1>4. CASE n > 0 /\ DOMAIN s.inline[k] = {}
    <2> DEFINE ref(i) == [first |-> i, last |-> i, sha |-> Shard(i, padded[k][i])]
    <2>1. ImportManifest(s)[k] = {ref(i) : i \in 1..n}
      BY <1>4 DEF ImportManifest
    <2>2. \A i \in 1..n : Loaded(s, k, padded)[i] = padded[k][i]
      BY <1>4 DEF Loaded
    <2>3. ASSUME NEW i \in 1..n, NEW j \in 1..n
          PROVE  /\ Covers(ref(j), i) <=> i = j
                 /\ ref(i).sha[i] = padded[k][i]
                 /\ ref(i).first = i /\ ref(i).last = i
      BY <1>1 DEF Covers, Shard
    <2>4. Contiguous({ref(i) : i \in 1..n}, n)
      <3>1. \A i \in 1..n : ref(i).first <= n => ref(i).first <= ref(i).last /\ ref(i).last <= n
        BY <1>1
      <3>2. \A i \in 1..n : Covers(ref(i), i)
        BY <2>3
      <3>3. \A i, j \in 1..n : (\E l \in 1..n : Covers(ref(i), l) /\ Covers(ref(j), l)) => i = j
        BY <2>3
      <3> HIDE DEF ref
      <3> QED BY <3>1, <3>2, <3>3 DEF Contiguous
    <2>5. \A r \in {ref(i) : i \in 1..n}, i \in 1..n :
             Covers(r, i) => r.sha[i] = Loaded(s, k, padded)[i]
      <3> HIDE DEF ref
      <3> QED BY <2>2, <2>3
    <2> QED BY <2>1, <2>4, <2>5 DEF Stored
  <1> QED BY <1>1, <1>2, <1>3, <1>4

\* The next batch of a stage, or the first one again, is added to what the
\* references hold.
LEMMA WithShardStored ==
  ASSUME NEW m \in Manifest, NEW k \in Kind, NEW b \in BatchNo, NEW t \in Text,
         NEW n \in Count, NEW text, Stored(m[k], n, text),
         b = n + 1 \/ (b = 1 /\ n = 1)
  PROVE  Stored(WithShard(m, k, b, t)[k], b,
                [i \in 1..b |-> IF i = b THEN t ELSE text[i]])
PROOF
  <1> DEFINE new  == [first |-> b, last |-> b, sha |-> Shard(b, t)]
             kept == {r \in m[k] : r.first # b}
             all  == kept \cup {new}
             f    == [i \in 1..b |-> IF i = b THEN t ELSE text[i]]
  <1>1. WithShard(m, k, b, t)[k] = all
    BY DEF WithShard, Manifest
  <1>2. /\ \A r \in kept : r \in m[k] /\ r.first \in Nat \ {0} /\ r.last \in Nat /\ r.first # b
        /\ n \in Nat /\ b \in Nat \ {0}
    BY ConstantsAssumption DEF Manifest, ShardRef, BatchNo, Count
  <1>3. Contiguous(m[k], n)
    BY DEF Stored
  <1>4. \A r \in kept : r.first <= b => r.first <= n /\ r.first <= r.last /\ r.last <= n /\ r.last < b
    BY <1>2, <1>3 DEF Contiguous
  <1>5. new.first = b /\ new.last = b /\ new.sha[b] = t
    BY DEF Shard
  <1>6. \A i \in 1..b : Covers(new, i) <=> i = b
    BY <1>2, <1>5 DEF Covers
  <1>7. \A r \in kept, i \in 1..b : Covers(r, i) => i <= n /\ i # b
    BY <1>2, <1>4 DEF Covers
  <1>8. Contiguous(all, b)
    <2>1. \A r \in all : r.first <= b => r.first <= r.last /\ r.last <= b
      BY <1>2, <1>4, <1>5
    <2>2. ASSUME NEW i \in 1..b
          PROVE  \E r \in all : Covers(r, i)
      <3>1. CASE i = b
        BY <1>6, <3>1
      <3>2. CASE i # b
        <4>1. i \in 1..n
          BY <1>2, <3>2
        <4>2. PICK r \in m[k] : Covers(r, i)
          BY <1>3, <4>1 DEF Contiguous
        <4>3. r.first \in Nat
          BY DEF Manifest, ShardRef, BatchNo
        <4>4. r.first # b
          BY <1>2, <3>2, <4>2, <4>3 DEF Covers
        <4> QED BY <4>2, <4>4
      <3> QED BY <3>1, <3>2
    <2>3. ASSUME NEW r \in all, NEW q \in all, NEW i \in 1..b, Covers(r, i), Covers(q, i)
          PROVE  r = q
      <3>1. CASE i = b
        BY <1>7, <2>3, <3>1
      <3>2. CASE i # b
        <4>1. r \in kept /\ q \in kept /\ i \in 1..n
          BY <1>2, <1>6, <2>3, <3>2
        <4> QED BY <1>3, <2>3, <4>1 DEF Contiguous
      <3> QED BY <3>1, <3>2
    <2> QED BY <2>1, <2>2, <2>3 DEF Contiguous
  <1>9. ASSUME NEW r \in all, NEW i \in 1..b, Covers(r, i)
        PROVE  r.sha[i] = f[i]
    <2>1. CASE i = b
      BY <1>5, <1>7, <1>9, <2>1
    <2>2. CASE i # b
      <3>1. r \in kept /\ i \in 1..n
        BY <1>2, <1>6, <1>9, <2>2
      <3> QED BY <1>9, <2>2, <3>1 DEF Stored
    <2> QED BY <2>1, <2>2
  <1> QED BY <1>1, <1>8, <1>9 DEF Stored

\* The other stages of a manifest are not touched.
LEMMA WithShardOthers ==
  ASSUME NEW m \in Manifest, NEW k \in Kind, NEW j \in Kind, j # k, NEW b, NEW t
  PROVE  WithShard(m, k, b, t)[j] = m[j]
BY DEF WithShard, Manifest

-----------------------------------------------------------------------------
(* Runs *)

\* The fields of a run that was given one more batch.
LEMMA WithBatchFields ==
  ASSUME NEW r \in Run, NEW k \in Kind, NEW b, NEW t
  PROVE  /\ WithBatch(r, k, b, t).phase = r.phase
         /\ WithBatch(r, k, b, t).fp = r.fp
         /\ WithBatch(r, k, b, t).resumed = r.resumed
         /\ WithBatch(r, k, b, t).done = [r.done EXCEPT ![k] = b]
BY DEF WithBatch, Run

\* Its texts: the given one for the batch, the others as they were.
LEMMA WithBatchText ==
  ASSUME NEW r \in Run, NEW k \in Kind, NEW b, NEW t
  PROVE  /\ DOMAIN WithBatch(r, k, b, t).text[k] = DOMAIN r.text[k] \cup {b}
         /\ \A i \in DOMAIN r.text[k] \cup {b} :
              WithBatch(r, k, b, t).text[k][i] = IF i = b THEN t ELSE r.text[k][i]
         /\ \A j \in Kind \ {k} : WithBatch(r, k, b, t).text[j] = r.text[j]
BY DEF WithBatch, Run

\* What a run starts from when nothing was saved for it is in order.
LEMMA FreshRunOK ==
  ASSUME NEW f \in Fingerprint
  PROVE  RunOK(FreshRun(f))
PROOF
  <1>1. DOMAIN NoText = {} /\ 1..0 = {}
    BY DEF NoText
  <1> QED BY <1>1, ConstantsAssumption
          DEF FreshRun, RunOK, InOrder, Nothing, NoTexts, Kind, Count

\* One batch more leaves the run typed, in order and in its translation.
LEMMA AdvanceOK ==
  ASSUME NEW r \in Run, RunOK(r), NEW after, Advances(r, after)
  PROVE  /\ after \in Run /\ after.fp = r.fp /\ after.phase # "idle"
         /\ RunOK(after)
PROOF
  <1>1. /\ r.fp \in Fingerprint /\ r.done \in [Kind -> Count] /\ r.resumed \in [Kind -> Count]
        /\ r.text \in [Kind -> Payload] /\ r.phase \in Phase
        /\ \A k \in Kind : r.done[k] \in Nat /\ Batches[r.fp][k] \in Nat
        /\ \A k \in Kind : Batches[r.fp][k] <= MaxBatch
        /\ Batches[r.fp]["finalized"] = 1 /\ MaxBatch \in Nat \ {0}
    BY ConstantsAssumption DEF Run, Count
  <1>2. \A k \in Kind : DOMAIN r.text[k] = 1..r.done[k]
    BY DEF RunOK
  <1>3. InOrder(r.fp, r.done)
    BY DEF RunOK
  <1>4. ASSUME NEW k \in Kind, NEW b \in BatchNo, NEW t \in Text,
               b = r.done[k] + 1 \/ (b = 1 /\ r.done[k] = 1)
        PROVE  /\ WithBatch(r, k, b, t) \in Run
               /\ \A j \in Kind : DOMAIN WithBatch(r, k, b, t).text[j]
                                    = 1..WithBatch(r, k, b, t).done[j]
    <2> DEFINE w == WithBatch(r, k, b, t)
    <2>1. w \in Run
      BY WithBatchType
    <2>2. w.done = [r.done EXCEPT ![k] = b]
      BY WithBatchFields
    <2>3. DOMAIN w.text[k] = DOMAIN r.text[k] \cup {b}
      BY WithBatchText DEF w
    <2>4. \A j \in Kind \ {k} : w.text[j] = r.text[j]
      BY WithBatchText DEF w
    <2>5. ASSUME NEW j \in Kind
          PROVE  DOMAIN w.text[j] = 1..w.done[j]
      <3> HIDE DEF w
      <3>1. CASE j = k
        <4>1. w.done[j] = b /\ DOMAIN w.text[j] = 1..r.done[k] \cup {b}
          BY <1>1, <1>2, <2>2, <2>3, <3>1
        <4>2. 1..r.done[k] \cup {b} = 1..b
          BY <1>1, <1>4
        <4> QED BY <4>1, <4>2
      <3>2. CASE j # k
        BY <1>1, <1>2, <2>2, <2>4, <3>2
      <3> QED BY <3>1, <3>2
    <2> QED BY <2>1, <2>5
  <1>5. ASSUME NEW k \in Kind, r.done[k] < Batches[r.fp][k]
        PROVE  r.done[k] + 1 \in BatchNo
    BY <1>1, <1>5 DEF BatchNo
  <1>6. CASE /\ r.phase = "translate"
             /\ r.done["translated"] < Batches[r.fp]["translated"]
             /\ \E t \in Text : after = WithBatch(r, "translated", r.done["translated"] + 1, t)
    <2>1. PICK t \in Text : after = WithBatch(r, "translated", r.done["translated"] + 1, t)
      BY <1>6
    <2>2. /\ after \in Run
          /\ \A j \in Kind : DOMAIN after.text[j] = 1..after.done[j]
      BY <1>4, <1>5, <1>6, <2>1, KindFacts
    <2>3. /\ after.phase = "translate" /\ after.fp = r.fp /\ after.resumed = r.resumed
          /\ after.done = [r.done EXCEPT !["translated"] = r.done["translated"] + 1]
      BY <1>6, <2>1, WithBatchFields, KindFacts
    <2>4. r.done["reviewed"] = 0 /\ r.done["finalized"] = 0
      BY <1>1, <1>3, <1>6, KindFacts DEF InOrder
    <2>5. InOrder(after.fp, after.done)
      BY <1>1, <1>3, <1>6, <2>3, <2>4 DEF InOrder, Kind
    <2>6. r.resumed["reviewed"] = 0 /\ r.resumed["finalized"] = 0
      BY <1>6, <2>4 DEF RunOK
    <2>7. after.done["reviewed"] = 0 /\ after.done["finalized"] = 0
      BY <1>1, <2>3, <2>4, KindFacts
    <2>8. RunOK(after)
      BY <2>2, <2>3, <2>5, <2>6, <2>7 DEF RunOK
    <2> QED BY <2>2, <2>3, <2>8
  <1>7. CASE /\ r.phase = "translate"
             /\ r.done["translated"] = Batches[r.fp]["translated"]
             /\ after = [r EXCEPT !.phase = "review"]
    <2>1. /\ after.phase = "review" /\ after.fp = r.fp /\ after.resumed = r.resumed
          /\ after.done = r.done /\ after.text = r.text /\ after \in Run
      BY <1>7 DEF Run, Phase
    <2> QED BY <1>7, <2>1 DEF RunOK
  <1>8. CASE /\ r.phase = "review"
             /\ r.done["reviewed"] < Batches[r.fp]["reviewed"]
             /\ \E t \in Text : after = WithBatch(r, "reviewed", r.done["reviewed"] + 1, t)
    <2>1. PICK t \in Text : after = WithBatch(r, "reviewed", r.done["reviewed"] + 1, t)
      BY <1>8
    <2>2. /\ after \in Run
          /\ \A j \in Kind : DOMAIN after.text[j] = 1..after.done[j]
      BY <1>4, <1>5, <1>8, <2>1, KindFacts
    <2>3. /\ after.phase = "review" /\ after.fp = r.fp /\ after.resumed = r.resumed
          /\ after.done = [r.done EXCEPT !["reviewed"] = r.done["reviewed"] + 1]
      BY <1>8, <2>1, WithBatchFields, KindFacts
    <2>4. r.done["finalized"] = 0 /\ r.done["translated"] = Batches[r.fp]["translated"]
      BY <1>1, <1>3, <1>8, KindFacts DEF InOrder, RunOK
    <2>5. InOrder(after.fp, after.done)
      BY <1>1, <1>3, <1>8, <2>3, <2>4 DEF InOrder, Kind
    <2>6. RunOK(after)
      BY <1>1, <1>8, <2>2, <2>3, <2>4, <2>5, KindFacts DEF RunOK, Kind
    <2> QED BY <2>2, <2>3, <2>6
  <1>9. CASE /\ r.phase = "review"
             /\ r.done["reviewed"] = Batches[r.fp]["reviewed"]
             /\ after = [r EXCEPT !.phase = "finalize"]
    <2>1. /\ after.phase = "finalize" /\ after.fp = r.fp /\ after.resumed = r.resumed
          /\ after.done = r.done /\ after.text = r.text /\ after \in Run
      BY <1>9 DEF Run, Phase
    <2> QED BY <1>9, <2>1 DEF RunOK
  <1>10. CASE /\ r.phase = "finalize"
              /\ \E t \in Text :
                   after = [WithBatch(r, "finalized", 1, t) EXCEPT !.phase = "done"]
    <2>1. PICK t \in Text : after = [WithBatch(r, "finalized", 1, t) EXCEPT !.phase = "done"]
      BY <1>10
    <2> DEFINE w == WithBatch(r, "finalized", 1, t)
    <2>2. r.done["finalized"] \in {0, 1} /\ 1 \in BatchNo
      BY <1>1, <1>3, KindFacts DEF InOrder, BatchNo
    <2>3. w \in Run /\ \A j \in Kind : DOMAIN w.text[j] = 1..w.done[j]
      BY <1>4, <2>2, KindFacts
    <2>4. /\ w.fp = r.fp /\ w.done = [r.done EXCEPT !["finalized"] = 1]
      BY WithBatchFields, KindFacts
    <2>5. /\ after \in Run /\ after.phase = "done" /\ after.fp = w.fp
          /\ after.done = w.done /\ after.text = w.text
      <3> HIDE DEF w
      <3> QED BY <2>1, <2>3 DEF Run, Phase, w
    <2>6. r.done["translated"] = Batches[r.fp]["translated"]
          /\ r.done["reviewed"] = Batches[r.fp]["reviewed"]
      BY <1>10 DEF RunOK
    <2>7. InOrder(after.fp, after.done)
      BY <1>1, <1>3, <2>4, <2>5, <2>6 DEF InOrder, Kind
    <2> QED BY <2>3, <2>4, <2>5, <2>7 DEF RunOK
  <1> QED BY <1>6, <1>7, <1>8, <1>9, <1>10 DEF Advances

\* A new state over references to a run's texts holds that run.
LEMMA NewStateHolds ==
  ASSUME NEW f \in Fingerprint, NEW done \in [Kind -> Count], NEW m \in Manifest, NEW r,
         r.fp = f,
         \A k \in Kind : done[k] = r.done[k] /\ Stored(m[k], done[k], r.text[k])
  PROVE  Holds(NewState(f, done, m), r)
BY DEF Holds, NewState, CheckpointCount, RunStateVersion, FinalizedSince

\* The manifest that a commit starts from holds the texts of its run.
LEMMA BaseStored ==
  ASSUME MemoryInv, NEW p \in Proc, run[p].phase # "idle", ReadyToCommit(p), NEW k \in Kind
  PROVE  Stored(BaseManifest(p)[k], run[p].done[k], run[p].text[k])
PROOF
  <1> USE DEF MemoryInv, LoadInv
  <1>1. CASE HasPrior(p)
    <2>1. checkpoint[p] \in RunState /\ Holds(checkpoint[p], run[p])
      BY <1>1 DEF HasPrior, TypeOK, RunsInMemory
    <2>2. CASE checkpoint[p].pinned
      BY <1>1, <2>1, <2>2 DEF BaseManifest, ImportManifest, Holds
    <2>3. CASE ~ checkpoint[p].pinned
      <3>1. Loadable(checkpoint[p], k, shards, padded)
        BY <1>1, <2>3 DEF ReadyToCommit, CanImport
      <3>2. Stored(ImportManifest(checkpoint[p])[k], CheckpointCount(checkpoint[p], k),
                   Loaded(checkpoint[p], k, padded))
        BY <2>1, <2>3, <3>1, ImportStored
      <3> QED BY <1>1, <2>1, <2>3, <3>1, <3>2 DEF BaseManifest, Holds
    <2> QED BY <2>2, <2>3
  <1>2. CASE ~ HasPrior(p)
    <2>1. run[p] = FreshRun(run[p].fp)
      BY <1>2 DEF RunsInMemory
    <2>2. run[p].done[k] = 0 /\ BaseManifest(p)[k] = {}
      BY <1>2, <2>1 DEF FreshRun, Nothing, BaseManifest, EmptyManifest
    <2>3. 1..0 = {}
      OBVIOUS
    <2> QED BY <2>2, <2>3 DEF Stored, Contiguous
  <1> QED BY <1>1, <1>2

-----------------------------------------------------------------------------
(* Commits *)

\* A commit that starts with what its run will have in memory keeps the
\* invariant: nothing else changes.
LEMMA StartCommitMemory ==
  ASSUME MemoryInv, NEW p \in Proc, NEW c,
         commit' = [commit EXCEPT ![p] = c],
         UNCHANGED <<shards, padded, runState, checkpoint, run, torn, cleaned>>,
         Advances(run[p], c.after), Holds(c.state, c.after), c.state.pinned
  PROVE  PublishedInOrder' /\ RunsInMemory' /\ CommitsInMemory'
PROOF
  <1> USE DEF MemoryInv, LoadInv
  <1>1. PublishedInOrder'
    BY DEF PublishedInOrder
  <1>2. RunsInMemory'
    BY DEF RunsInMemory, HasPrior, Holds
  <1>3. ASSUME NEW q \in Proc, commit'[q] # NoCommit
        PROVE  /\ Advances(run'[q], commit'[q].after)
               /\ Holds(commit'[q].state, commit'[q].after)
               /\ commit'[q].state.pinned
    <2>1. CASE q = p
      <3>1. commit'[q] = c
        BY <2>1 DEF TypeOK
      <3> QED BY <2>1, <3>1
    <2>2. CASE q # p
      <3>1. commit'[q] = commit[q]
        BY <2>2 DEF TypeOK
      <3> QED BY <1>3, <3>1 DEF CommitsInMemory
    <2> QED BY <2>1, <2>2
  <1>4. CommitsInMemory'
    BY <1>3 DEF CommitsInMemory, Holds
  <1> QED BY <1>1, <1>2, <1>4

\* The commit of one batch publishes its run with that batch.
LEMMA CommitShardMemory ==
  ASSUME MemoryInv, NEW p \in Proc, run[p].phase # "idle", ReadyToCommit(p),
         NEW k \in Kind, NEW b \in BatchNo, NEW t \in Text,
         b = run[p].done[k] + 1 \/ (b = 1 /\ run[p].done[k] = 1),
         NEW done \in [Kind -> Count], NEW after, Advances(run[p], after),
         after.fp = run[p].fp, after.done = done, done[k] = b,
         after.text = WithBatch(run[p], k, b, t).text,
         \A j \in Kind \ {k} : done[j] = run[p].done[j],
         CommitShard(p, k, b, t, done, after)
  PROVE  PublishedInOrder' /\ RunsInMemory' /\ CommitsInMemory'
PROOF
  <1> DEFINE r == run[p]
             m == BaseManifest(p)
             c == [state   |-> NewState(r.fp, done, WithShard(m, k, b, t)),
                   toWrite |-> Imported(p) \cup {Shard(b, t)},
                   after   |-> after,
                   check   |-> "due"]
  <1>1. TypeOK /\ RunOK(r)
    BY DEF MemoryInv, LoadInv, RunsInMemory
  <1>2. r \in Run /\ r.fp \in Fingerprint /\ r.done \in [Kind -> Count]
    BY <1>1, RunFields
  <1>3. m \in Manifest /\ WithShard(m, k, b, t) \in Manifest
    BY <1>1, BaseManifestType, WithShardType
  <1>4. DOMAIN r.text[k] \cup {b} = 1..b
    <2>1. DOMAIN r.text[k] = 1..r.done[k] /\ r.done[k] \in Nat
      BY <1>1, <1>2, ConstantsAssumption DEF RunOK, Count
    <2> QED BY <2>1
  <1>5. \A i \in 1..b : after.text[k][i] = IF i = b THEN t ELSE r.text[k][i]
    BY <1>2, <1>4, WithBatchText
  <1>6. \A j \in Kind \ {k} : after.text[j] = r.text[j]
    BY <1>2, WithBatchText
  <1>7. ASSUME NEW j \in Kind
        PROVE  Stored(WithShard(m, k, b, t)[j], done[j], after.text[j])
    <2>1. Stored(m[j], r.done[j], r.text[j])
      BY BaseStored
    <2>2. CASE j = k
      <3>1. Stored(WithShard(m, k, b, t)[k], b,
                   [i \in 1..b |-> IF i = b THEN t ELSE r.text[k][i]])
        <4>1. m \in Manifest /\ r.done[k] \in Count
          BY <1>2, <1>3
        <4>2. Stored(m[k], r.done[k], r.text[k])
          BY <2>1, <2>2
        <4>3. b = r.done[k] + 1 \/ (b = 1 /\ r.done[k] = 1)
          OBVIOUS
        <4> HIDE DEF m, r
        <4> QED BY <4>1, <4>2, <4>3, WithShardStored
      <3> QED BY <1>5, <2>2, <3>1 DEF Stored
    <2>3. CASE j # k
      <3>1. WithShard(m, k, b, t)[j] = m[j]
        BY <1>3, <2>3, WithShardOthers
      <3> QED BY <1>6, <2>1, <2>3, <3>1
    <2> QED BY <2>2, <2>3
  <1>8. Holds(c.state, c.after) /\ c.state.pinned
    <2>1. Holds(NewState(r.fp, done, WithShard(m, k, b, t)), after)
      BY <1>2, <1>3, <1>7, NewStateHolds
    <2> QED BY <2>1 DEF NewState
  <1>9. /\ commit' = [commit EXCEPT ![p] = c]
        /\ UNCHANGED <<shards, padded, runState, checkpoint, run, torn, cleaned>>
    BY DEF CommitShard, StartCommit
  <1>10. c.after = after
    OBVIOUS
  <1> HIDE DEF c
  <1> QED BY <1>8, <1>9, <1>10, StartCommitMemory

\* The commit at the end of a stage publishes its run as it is.
LEMMA CommitCountsMemory ==
  ASSUME MemoryInv, NEW p \in Proc, run[p].phase # "idle", ReadyToCommit(p),
         NEW done \in [Kind -> Count], NEW after, Advances(run[p], after),
         after.fp = run[p].fp, after.done = run[p].done, after.text = run[p].text,
         \A j \in Kind : done[j] = run[p].done[j],
         CommitCounts(p, done, after)
  PROVE  PublishedInOrder' /\ RunsInMemory' /\ CommitsInMemory'
PROOF
  <1> DEFINE c == [state   |-> NewState(run[p].fp, done, BaseManifest(p)),
                   toWrite |-> Imported(p) \cup {},
                   after   |-> after,
                   check   |-> "due"]
  <1>1. TypeOK
    BY DEF MemoryInv, LoadInv
  <1>2. run[p].fp \in Fingerprint /\ BaseManifest(p) \in Manifest
    BY <1>1, RunFields, BaseManifestType
  <1>3. \A j \in Kind : Stored(BaseManifest(p)[j], done[j], after.text[j])
    BY BaseStored
  <1>4. Holds(c.state, c.after) /\ c.state.pinned
    <2>1. Holds(NewState(run[p].fp, done, BaseManifest(p)), after)
      BY <1>2, <1>3, NewStateHolds
    <2> QED BY <2>1 DEF NewState
  <1>5. /\ commit' = [commit EXCEPT ![p] = c]
        /\ UNCHANGED <<shards, padded, runState, checkpoint, run, torn, cleaned>>
    BY DEF CommitCounts, StartCommit
  <1>6. c.after = after
    OBVIOUS
  <1> HIDE DEF c
  <1> QED BY <1>4, <1>5, <1>6, StartCommitMemory

\* Each step of a stage starts a commit of what its run will have in memory.
LEMMA WorkMemory ==
  ASSUME MemoryInv, NEW p \in Proc,
         \/ TranslateBatch(p) \/ FinishTranslation(p)
         \/ ReviewBatch(p) \/ FinishReview(p) \/ Finalize(p)
  PROVE  PublishedInOrder' /\ RunsInMemory' /\ CommitsInMemory'
PROOF
  <1> DEFINE r == run[p]
  <1>1. /\ r.phase # "idle" /\ ReadyToCommit(p)
    BY DEF TranslateBatch, FinishTranslation, ReviewBatch, FinishReview, Finalize
  <1>2. TypeOK /\ RunOK(r)
    BY <1>1 DEF MemoryInv, LoadInv, RunsInMemory
  <1>3. /\ r \in Run /\ r.done \in [Kind -> Count] /\ r.resumed \in [Kind -> Count]
        /\ \A k \in Kind : Batches[r.fp][k] \in Count
    BY <1>2, RunFields
  <1>4. /\ 0 \in Count /\ 1 \in Count /\ 1 \in BatchNo
        /\ \A k \in Kind : r.done[k] \in Nat
        /\ \A k \in Kind : r.done[k] + 1 <= Batches[r.fp][k] =>
             r.done[k] + 1 \in BatchNo /\ r.done[k] < Batches[r.fp][k]
    BY <1>3, ConstantsAssumption DEF Count, BatchNo
  <1>5. InOrder(r.fp, r.done) /\ Batches[r.fp]["finalized"] = 1
    BY <1>2, <1>3, ConstantsAssumption DEF RunOK, Run
  <1>6. CASE TranslateBatch(p)
    <2> DEFINE b    == r.done["translated"] + 1
               done == [r.resumed EXCEPT !["translated"] = b, !["finalized"] = 0]
    <2>1. b \in BatchNo /\ r.done["translated"] < Batches[r.fp]["translated"]
      BY <1>4, <1>6, KindFacts DEF TranslateBatch
    <2>2. PICK t \in Text :
            CommitShard(p, "translated", b, t, done, WithBatch(r, "translated", b, t))
      BY <1>6 DEF TranslateBatch
    <2>3. r.done["reviewed"] = 0 /\ r.done["finalized"] = 0 /\ r.resumed["reviewed"] = 0
      BY <1>2, <1>4, <1>5, <1>6, <2>1, KindFacts DEF InOrder, RunOK, TranslateBatch
    <2>4. done \in [Kind -> Count] /\ done = [r.done EXCEPT !["translated"] = b]
      <3>1. b \in Count
        BY <1>4, <2>1, ConstantsAssumption DEF BatchNo, Count
      <3> QED BY <1>3, <1>4, <2>3, <3>1 DEF Kind
    <2> DEFINE after == WithBatch(r, "translated", b, t)
    <2>5. after.fp = r.fp /\ after.done = done /\ done["translated"] = b
          /\ \A j \in Kind \ {"translated"} : done[j] = r.done[j]
      BY <1>3, <2>4, WithBatchFields, KindFacts
    <2>6. Advances(r, after)
      BY <1>6, <2>1 DEF Advances, TranslateBatch
    <2> HIDE DEF done, after
    <2> QED BY <1>1, <2>1, <2>2, <2>4, <2>5, <2>6, CommitShardMemory, KindFacts DEF after
  <1>7. CASE FinishTranslation(p)
    <2> DEFINE done  == [r.resumed EXCEPT !["translated"] = r.done["translated"]]
               after == [r EXCEPT !.phase = "review"]
    <2>1. after.fp = r.fp /\ after.done = r.done /\ after.text = r.text
      BY <1>3 DEF Run
    <2>2. done \in [Kind -> Count]
      BY <1>3, KindFacts
    <2>3. \A j \in Kind : done[j] = r.done[j]
      BY <1>2, <1>3, <1>7, KindFacts DEF RunOK, Kind, FinishTranslation
    <2>4. Advances(r, after)
      BY <1>7 DEF Advances, FinishTranslation
    <2>5. CommitCounts(p, done, after)
      BY <1>7 DEF FinishTranslation
    <2> HIDE DEF done, after
    <2> QED BY <1>1, <2>1, <2>2, <2>3, <2>4, <2>5, CommitCountsMemory
  <1>8. CASE ReviewBatch(p)
    <2> DEFINE b    == r.done["reviewed"] + 1
               done == [r.done EXCEPT !["reviewed"] = b, !["finalized"] = 0]
    <2>1. b \in BatchNo /\ r.done["reviewed"] < Batches[r.fp]["reviewed"]
      BY <1>4, <1>8, KindFacts DEF ReviewBatch
    <2>2. PICK t \in Text :
            CommitShard(p, "reviewed", b, t, done, WithBatch(r, "reviewed", b, t))
      BY <1>8 DEF ReviewBatch
    <2>3. r.done["finalized"] = 0
      BY <1>4, <1>5, <2>1, KindFacts DEF InOrder
    <2>4. done \in [Kind -> Count] /\ done = [r.done EXCEPT !["reviewed"] = b]
      <3>1. b \in Count
        BY <1>4, <2>1, ConstantsAssumption DEF BatchNo, Count
      <3> QED BY <1>3, <1>4, <2>3, <3>1 DEF Kind
    <2> DEFINE after == WithBatch(r, "reviewed", b, t)
    <2>5. after.fp = r.fp /\ after.done = done /\ done["reviewed"] = b
          /\ \A j \in Kind \ {"reviewed"} : done[j] = r.done[j]
      BY <1>3, <2>4, WithBatchFields, KindFacts
    <2>6. Advances(r, after)
      BY <1>8, <2>1 DEF Advances, ReviewBatch
    <2> HIDE DEF done, after
    <2> QED BY <1>1, <2>1, <2>2, <2>4, <2>5, <2>6, CommitShardMemory, KindFacts DEF after
  <1>9. CASE FinishReview(p)
    <2> DEFINE done  == [r.done EXCEPT !["finalized"] = r.resumed["finalized"]]
               after == [r EXCEPT !.phase = "finalize"]
    <2>1. after.fp = r.fp /\ after.done = r.done /\ after.text = r.text
      BY <1>3 DEF Run
    <2>2. done \in [Kind -> Count]
      BY <1>3, KindFacts
    <2>3. \A j \in Kind : done[j] = r.done[j]
      BY <1>2, <1>3, <1>9, KindFacts DEF RunOK, Kind, FinishReview
    <2>4. Advances(r, after)
      BY <1>9 DEF Advances, FinishReview
    <2>5. CommitCounts(p, done, after)
      BY <1>9 DEF FinishReview
    <2> HIDE DEF done, after
    <2> QED BY <1>1, <2>1, <2>2, <2>3, <2>4, <2>5, CommitCountsMemory
  <1>10. CASE Finalize(p)
    <2> DEFINE done     == [r.done EXCEPT !["finalized"] = 1]
               batch(t) == WithBatch(r, "finalized", 1, t)
    <2>1. PICK t \in Text :
            CommitShard(p, "finalized", 1, t, done, [batch(t) EXCEPT !.phase = "done"])
      BY <1>10 DEF Finalize
    <2> DEFINE after == [batch(t) EXCEPT !.phase = "done"]
    <2>2. r.done["finalized"] \in {0, 1}
      BY <1>4, <1>5, KindFacts DEF InOrder
    <2>3. done \in [Kind -> Count]
      BY <1>3, <1>4, KindFacts
    <2>4. batch(t) \in Run
      BY <1>3, <1>4, WithBatchType, KindFacts
    <2>5. batch(t).fp = r.fp /\ batch(t).done = done
      BY <1>3, WithBatchFields, KindFacts
    <2>6. after.fp = batch(t).fp /\ after.done = batch(t).done /\ after.text = batch(t).text
      <3> HIDE DEF batch
      <3> QED BY <2>4 DEF Run
    <2>7. done["finalized"] = 1 /\ \A j \in Kind \ {"finalized"} : done[j] = r.done[j]
      BY <1>3, KindFacts
    <2>8. Advances(r, after)
      BY <1>10 DEF Advances, Finalize
    <2>9. CommitShard(p, "finalized", 1, t, done, after)
      BY <2>1
    <2>10. after.text = WithBatch(r, "finalized", 1, t).text
      BY <2>6
    <2> HIDE DEF done, after
    <2> QED BY <1>1, <1>4, <2>2, <2>3, <2>5, <2>6, <2>7, <2>8, <2>9, <2>10,
               CommitShardMemory, KindFacts
  <1> QED BY <1>6, <1>7, <1>8, <1>9, <1>10

-----------------------------------------------------------------------------
(* The invariant *)

\* An older state that is still readable without any file loads what it did.
LEMMA CleanedLoaded ==
  ASSUME NEW s \in RunState, NEW k \in Kind, NEW disk, NEW pad, NEW none,
         ~ s.pinned, Loadable(s, k, none, NoTexts)
  PROVE  Loadable(s, k, disk, pad) /\ Loaded(s, k, NoTexts) = Loaded(s, k, pad)
PROOF
  <1> DEFINE n == CheckpointCount(s, k)
  <1>1. CASE DOMAIN s.inline[k] # {}
    BY <1>1 DEF Loadable, Loaded
  <1>2. CASE DOMAIN s.inline[k] = {}
    <2>1. DOMAIN NoTexts[k] = {}
      BY DEF NoTexts, NoText
    <2>2. 1..n = {}
      BY <1>2, <2>1 DEF Loadable
    <2>3. Loaded(s, k, NoTexts) = [i \in {} |-> NoTexts[k][i]]
      BY <1>2, <2>2 DEF Loaded
    <2>4. Loaded(s, k, pad) = [i \in {} |-> pad[k][i]]
      BY <1>2, <2>2 DEF Loaded
    <2>5. Loaded(s, k, NoTexts) = Loaded(s, k, pad)
      BY <2>3, <2>4
    <2> QED BY <1>2, <2>2, <2>5 DEF Loadable
  <1> QED BY <1>1, <1>2

\* What older versions left behind counts its stages in order.
LEMMA MemoryInit ==
  ASSUME Init
  PROVE  MemoryInv
PROOF
  <1>1. LoadInv
    BY LoadInit
  <1>2. RunsInMemory /\ CommitsInMemory
    BY DEF Init, RunsInMemory, CommitsInMemory, IdleRun
  <1>3. ASSUME runState # NoState
        PROVE  InOrder(runState.fp, [k \in Kind |-> CheckpointCount(runState, k)])
    <2>1. PICK v \in LegacyVersion, f \in Fingerprint, done \in [Kind -> Count] :
            /\ InOrder(f, done)
            /\ \E text : runState = LegacyState(v, f, done, text)
      BY <1>3 DEF Init, Legacy
    <2>2. runState.fp = f /\ runState.done = done
      BY <2>1 DEF LegacyState
    <2> DEFINE n == [k \in Kind |-> CheckpointCount(runState, k)]
    <2>3. /\ n["translated"] = done["translated"] /\ n["reviewed"] = done["reviewed"]
          /\ n["finalized"] \in {0, done["finalized"]}
      BY <2>2, KindFacts DEF CheckpointCount
    <2>4. \A k \in Kind : done[k] \in Nat /\ Batches[f][k] \in Nat
      BY ConstantsAssumption DEF Count
    <2> QED BY <2>1, <2>2, <2>3, <2>4 DEF InOrder, Kind
  <1> QED BY <1>1, <1>2, <1>3 DEF MemoryInv, PublishedInOrder

\* A run opens with nothing, or with what the state it accepts loads.
LEMMA OpenMemory ==
  ASSUME MemoryInv, NEW p \in Proc, NEW f \in Fingerprint, NEW resume \in BOOLEAN,
         Open(p, f, resume)
  PROVE  PublishedInOrder' /\ RunsInMemory' /\ CommitsInMemory'
PROOF
  <1> USE DEF MemoryInv, LoadInv
  <1>1. /\ checkpoint[p] = NoState /\ commit[p] = NoCommit
        /\ UNCHANGED <<shards, padded, runState, commit>>
    BY DEF Open, IdleIsEmpty
  <1>2. ASSUME NEW q \in Proc, q # p
        PROVE  run'[q] = run[q] /\ checkpoint'[q] = checkpoint[q]
    BY <1>2 DEF Open, TypeOK
  <1>3. PublishedInOrder'
    BY <1>1 DEF PublishedInOrder
  <1>4. CommitsInMemory'
    BY <1>1, <1>2 DEF CommitsInMemory, Holds
  <1>5. ASSUME resume, runState # NoState, runState.fp = f
        PROVE  RunOK(run'[p]) /\ HasPrior(p)' /\ Holds(checkpoint'[p], run'[p])
    <2> DEFINE r == ResumedRun(runState)
    <2>1. /\ run'[p] = r /\ checkpoint'[p] = runState /\ runState \in RunState
          /\ \A k \in Kind : Loadable(runState, k, shards, padded)
      BY <1>5 DEF Open, TypeOK
    <2>2. /\ r.phase = "translate" /\ r.fp = runState.fp /\ r.done = r.resumed
          /\ r.done = [k \in Kind |-> CheckpointCount(runState, k)]
          /\ r.text = [k \in Kind |-> Loaded(runState, k, padded)]
      BY DEF ResumedRun
    <2>3. \A k \in Kind : DOMAIN r.text[k] = 1..r.done[k]
      BY <2>1, <2>2, LoadedType DEF TypeOK
    <2>4. RunOK(r)
      BY <1>5, <2>2, <2>3 DEF RunOK, PublishedInOrder
    <2>5. Holds(runState, r)
      BY <2>1, <2>2, LoadableStored DEF Holds
    <2> QED BY <1>5, <2>1, <2>2, <2>4, <2>5 DEF HasPrior
  <1>6. ASSUME ~ (resume /\ runState # NoState /\ runState.fp = f)
        PROVE  RunOK(run'[p]) /\ ~ HasPrior(p)' /\ run'[p] = FreshRun(run'[p].fp)
    <2>1. run'[p] = FreshRun(f)
      BY <1>6 DEF Open, TypeOK
    <2>2. checkpoint'[p] = NoState \/ (checkpoint'[p] = runState /\ runState.fp # f)
      BY <1>1, <1>6 DEF Open, TypeOK
    <2>3. FreshRun(f).fp = f
      BY DEF FreshRun
    <2> QED BY <2>1, <2>2, <2>3, FreshRunOK DEF HasPrior
  <1>7. ASSUME NEW q \in Proc, run'[q].phase # "idle"
        PROVE  /\ RunOK(run'[q])
               /\ HasPrior(q)' => Holds(checkpoint'[q], run'[q])
               /\ ~ HasPrior(q)' => run'[q] = FreshRun(run'[q].fp)
    <2>1. CASE q = p
      BY <1>5, <1>6, <2>1
    <2>2. CASE q # p
      BY <1>2, <1>7, <2>2 DEF RunsInMemory, HasPrior
    <2> QED BY <2>1, <2>2
  <1>8. RunsInMemory'
    BY <1>1, <1>7 DEF RunsInMemory, Holds
  <1> QED BY <1>3, <1>4, <1>8

\* Writing a shard changes no state, no run and no commit's outcome.
LEMMA WriteShardMemory ==
  ASSUME MemoryInv, NEW p \in Proc, WriteShard(p)
  PROVE  PublishedInOrder' /\ RunsInMemory' /\ CommitsInMemory'
PROOF
  <1> USE DEF MemoryInv, LoadInv
  <1>1. UNCHANGED <<padded, runState, checkpoint, run>>
    BY DEF WriteShard
  <1>2. \A s, r : Holds(s, r) => Holds(s, r)'
    BY <1>1 DEF Holds, Loadable
  <1>3. \A q \in Proc : /\ commit'[q] = NoCommit <=> commit[q] = NoCommit
                        /\ commit[q] # NoCommit => /\ commit'[q].state = commit[q].state
                                                   /\ commit'[q].after = commit[q].after
    <2>1. PICK c \in commit[p].toWrite : commit' = [commit EXCEPT ![p].toWrite = @ \ {c}]
      BY DEF WriteShard
    <2>2. commit[p] \in Commit
      BY DEF WriteShard, TypeOK
    <2>3. commit'[p] \in Commit /\ commit'[p].state = commit[p].state
          /\ commit'[p].after = commit[p].after
      BY <2>1, <2>2 DEF TypeOK, Commit
    <2>4. \A q \in Proc \ {p} : commit'[q] = commit[q]
      BY <2>1 DEF TypeOK
    <2>5. commit[p] # NoCommit /\ commit'[p] # NoCommit
      BY <2>3, ConstantsAssumption DEF WriteShard
    <2> QED BY <2>3, <2>4, <2>5
  <1>4. RunsInMemory'
    BY <1>1, <1>2 DEF RunsInMemory, HasPrior
  <1>5. CommitsInMemory'
    BY <1>1, <1>2, <1>3 DEF CommitsInMemory
  <1> QED BY <1>1, <1>4, <1>5 DEF PublishedInOrder

\* Reading a state back changes nothing but its mark.
LEMMA VerifyMemory ==
  ASSUME MemoryInv, NEW p \in Proc, Verify(p)
  PROVE  PublishedInOrder' /\ RunsInMemory' /\ CommitsInMemory'
PROOF
  <1> USE DEF MemoryInv, LoadInv
  <1>1. UNCHANGED <<shards, padded, runState, checkpoint, run>>
    BY DEF Verify
  <1>2. \A s, r : Holds(s, r) => Holds(s, r)'
    BY <1>1 DEF Holds
  <1>3. \A q \in Proc : commit'[q] # NoCommit =>
                        /\ commit[q] # NoCommit
                        /\ commit'[q].state = commit[q].state
                        /\ commit'[q].after = commit[q].after
    <2>1. commit[p] \in Commit /\ commit[p] # NoCommit
      BY DEF Verify, TypeOK
    <2>2. commit'[p].state = commit[p].state /\ commit'[p].after = commit[p].after
      BY <2>1 DEF Verify, TypeOK, Commit
    <2>3. \A q \in Proc \ {p} : commit'[q] = commit[q]
      BY DEF Verify, TypeOK
    <2> QED BY <2>1, <2>2, <2>3
  <1>4. RunsInMemory'
    BY <1>1, <1>2 DEF RunsInMemory, HasPrior
  <1>5. CommitsInMemory'
    BY <1>1, <1>2, <1>3 DEF CommitsInMemory
  <1> QED BY <1>1, <1>4, <1>5 DEF PublishedInOrder

\* A published state holds the run its process goes on with.
LEMMA PublishMemory ==
  ASSUME MemoryInv, NEW p \in Proc, Publish(p)
  PROVE  PublishedInOrder' /\ RunsInMemory' /\ CommitsInMemory'
PROOF
  <1> USE DEF MemoryInv, LoadInv
  <1> DEFINE s == commit[p].state
             a == commit[p].after
  <1>1. /\ commit[p] # NoCommit /\ commit[p] \in Commit
        /\ runState' = s /\ run'[p] = a /\ checkpoint'[p] = s /\ commit'[p] = NoCommit
        /\ UNCHANGED <<shards, padded>>
    BY DEF Publish, Accept, TypeOK
  <1>2. ASSUME NEW q \in Proc, q # p
        PROVE  run'[q] = run[q] /\ checkpoint'[q] = checkpoint[q] /\ commit'[q] = commit[q]
    BY <1>2 DEF Publish, Accept, TypeOK
  <1>3. Advances(run[p], a) /\ Holds(s, a) /\ s \in RunState
    BY <1>1 DEF CommitsInMemory, Commit
  <1>4. run[p] \in Run /\ RunOK(run[p])
    BY <1>1 DEF RunsInMemory, IdleIsEmpty, TypeOK
  <1>5. a \in Run /\ RunOK(a)
    BY <1>3, <1>4, AdvanceOK
  <1>6. HasPrior(p)'
    <2>1. s # NoState
      BY <1>3, ConstantsAssumption
    <2> QED BY <1>1, <1>3, <2>1 DEF HasPrior, Holds
  <1>7. PublishedInOrder'
    <2>1. InOrder(a.fp, a.done)
      BY <1>5 DEF RunOK
    <2>2. a.done = [k \in Kind |-> CheckpointCount(s, k)]
      BY <1>3, <1>5 DEF Holds, Run
    <2> QED BY <1>1, <1>3, <2>1, <2>2 DEF PublishedInOrder, Holds
  <1>8. ASSUME NEW q \in Proc, run'[q].phase # "idle"
        PROVE  /\ RunOK(run'[q])
               /\ HasPrior(q)' => Holds(checkpoint'[q], run'[q])
               /\ ~ HasPrior(q)' => run'[q] = FreshRun(run'[q].fp)
    <2>1. CASE q = p
      BY <1>1, <1>3, <1>5, <1>6, <2>1
    <2>2. CASE q # p
      BY <1>2, <1>8, <2>2 DEF RunsInMemory, HasPrior
    <2> QED BY <2>1, <2>2
  <1>9. RunsInMemory'
    BY <1>1, <1>8 DEF RunsInMemory, Holds
  <1>10. CommitsInMemory'
    BY <1>1, <1>2 DEF CommitsInMemory, Holds
  <1> QED BY <1>7, <1>9, <1>10

\* A process that ends forgets its run and its commit.
LEMMA StopMemory ==
  ASSUME MemoryInv, NEW p \in Proc, Stop(p)
  PROVE  PublishedInOrder' /\ RunsInMemory' /\ CommitsInMemory'
PROOF
  <1> USE DEF MemoryInv, LoadInv
  <1>1. UNCHANGED <<shards, padded, runState>>
    BY DEF Stop
  <1>2. run'[p].phase = "idle" /\ commit'[p] = NoCommit
    BY DEF Stop, TypeOK, IdleRun
  <1>3. ASSUME NEW q \in Proc, q # p
        PROVE  run'[q] = run[q] /\ checkpoint'[q] = checkpoint[q] /\ commit'[q] = commit[q]
    BY <1>3 DEF Stop, TypeOK
  <1>4. RunsInMemory'
    BY <1>1, <1>2, <1>3 DEF RunsInMemory, HasPrior, Holds
  <1>5. CommitsInMemory'
    BY <1>1, <1>2, <1>3 DEF CommitsInMemory, Holds
  <1> QED BY <1>1, <1>4, <1>5 DEF PublishedInOrder

\* Removing the directory takes files away, never what a pinned state names.
LEMMA CleanMemory ==
  ASSUME MemoryInv, CleanRuns
  PROVE  PublishedInOrder' /\ RunsInMemory' /\ CommitsInMemory'
PROOF
  <1> USE DEF MemoryInv, LoadInv
  <1>1. /\ UNCHANGED <<checkpoint, run>>
        /\ runState' = NoState /\ shards' = {} /\ padded' = NoTexts
    BY DEF CleanRuns
  <1>2. ASSUME NEW s \in RunState, NEW r, Holds(s, r)
        PROVE  Holds(s, r)'
    <2>1. ASSUME NEW k \in Kind, ~ s.pinned, Loadable(s, k, shards', padded')
          PROVE  Loaded(s, k, padded') = r.text[k]
      <3>1. /\ Loadable(s, k, shards, padded)
            /\ Loaded(s, k, NoTexts) = Loaded(s, k, padded)
        BY <1>1, <2>1, CleanedLoaded
      <3> QED BY <1>1, <1>2, <2>1, <3>1 DEF Holds
    <2> QED BY <1>2, <2>1 DEF Holds
  <1>3. \A p \in Proc : HasPrior(p) => checkpoint[p] \in RunState
    BY DEF HasPrior, TypeOK
  <1>4. RunsInMemory'
    BY <1>1, <1>2, <1>3 DEF RunsInMemory, HasPrior
  <1>5. ASSUME NEW p \in Proc, commit'[p] # NoCommit
        PROVE  /\ commit[p] # NoCommit /\ commit[p].state \in RunState
               /\ commit'[p].state = commit[p].state /\ commit'[p].after = commit[p].after
    <2>1. commit[p] \in Commit /\ commit[p] # NoCommit
      BY <1>5 DEF CleanRuns, TypeOK
    <2> QED BY <2>1 DEF CleanRuns, Commit
  <1>6. CommitsInMemory'
    BY <1>1, <1>2, <1>5 DEF CommitsInMemory
  <1> QED BY <1>1, <1>4, <1>6 DEF PublishedInOrder

\* Every step keeps the invariant.
LEMMA MemoryNext ==
  ASSUME MemoryInv, [Next]_vars
  PROVE  MemoryInv'
PROOF
  <1>1. LoadInv'
    BY LoadNext DEF MemoryInv
  <1>2. CASE UNCHANGED vars
    BY <1>1, <1>2 DEF vars, MemoryInv, PublishedInOrder, RunsInMemory, CommitsInMemory,
                      HasPrior, Holds
  <1>3. CASE Next
    <2>1. PublishedInOrder' /\ RunsInMemory' /\ CommitsInMemory'
      BY <1>3, OpenMemory, WorkMemory, WriteShardMemory, VerifyMemory, PublishMemory, StopMemory,
         CleanMemory DEF Next
    <2> QED BY <1>1, <2>1 DEF MemoryInv
  <1> QED BY <1>2, <1>3

\* The inductive invariant of the next two results holds in every reachable
\* state: each run, and each commit in progress, is held by its checkpoint.
THEOREM MemoryInvariant == Spec => []MemoryInv
PROOF
  <1>1. Init => MemoryInv
    BY MemoryInit
  <1>2. MemoryInv /\ [Next]_vars => MemoryInv'
    BY MemoryNext
  <1> QED BY <1>1, <1>2, PTL DEF Spec

\* No mixing: what a run can resume from its own checkpoint is, batch by
\* batch, what it has in memory, whatever other processes publish, whichever
\* format the checkpoint had, and after the directory was removed.
THEOREM CheckpointHoldsMemory == Spec => []CheckpointIsMemory
PROOF
  <1>1. ASSUME MemoryInv, NEW p \in Proc, NEW k \in Kind, run[p].phase # "idle", HasPrior(p),
               NEW s, s = checkpoint[p]
        PROVE  /\ CheckpointCount(s, k) = run[p].done[k]
               /\ (s.pinned \/ Loadable(s, k, shards, padded)) =>
                    Loaded(s, k, padded) = run[p].text[k]
    <2>1. Holds(s, run[p]) /\ RunOK(run[p]) /\ s \in RunState /\ run[p].text[k] \in Payload
      BY <1>1 DEF MemoryInv, LoadInv, TypeOK, RunsInMemory, HasPrior, Run
    <2>2. CASE s.pinned
      BY <2>1, <2>2, StoredLoads DEF Holds, RunOK
    <2>3. CASE ~ s.pinned
      BY <2>1, <2>3 DEF Holds
    <2> QED BY <2>1, <2>2, <2>3 DEF Holds
  <1>2. MemoryInv => CheckpointIsMemory
    BY <1>1 DEF CheckpointIsMemory
  <1> QED BY <1>2, MemoryInvariant, PTL

-----------------------------------------------------------------------------
(* The store implements ResumeLog *)

\* The progress of a run is never mistaken for the absence of one.
LEMMA ProgressFacts ==
  ASSUME NEW r \in Run
  PROVE  [fp |-> r.fp, text |-> r.text] # NoState
BY ConstantsAssumption DEF Run

\* What a state that holds a run's progress loads is that progress.
LEMMA HoldsContent ==
  ASSUME NEW s \in RunState, NEW r \in Run, s.pinned, RunOK(r), Holds(s, r)
  PROVE  Content(s) = [fp |-> r.fp, text |-> r.text]
PROOF
  <1>1. \A k \in Kind : Loaded(s, k, padded) = r.text[k]
    BY StoredLoads DEF Holds, RunOK, Run
  <1>2. r.text = [k \in Kind |-> r.text[k]]
    BY DEF Run
  <1> QED BY <1>1, <1>2 DEF Content, Holds

\* A step that changes the run of one process changes only its view.
LEMMA ViewStep ==
  ASSUME TypeOK, NEW p \in Proc, NEW v,
         \A q \in Proc \ {p} : run'[q] = run[q],
         v = IF run'[p].phase = "idle"
             THEN NoState ELSE [fp |-> run'[p].fp, text |-> run'[p].text]
  PROVE  View' = [View EXCEPT ![p] = v]
BY DEF View

\* One more batch of a run is one more batch of its progress.
LEMMA WithBatchWith ==
  ASSUME NEW r \in Run, NEW k \in Kind, NEW b, NEW t
  PROVE  Log!With([fp |-> r.fp, text |-> r.text], k, b, t)
           = [fp |-> WithBatch(r, k, b, t).fp, text |-> WithBatch(r, k, b, t).text]
PROOF
  <1> DEFINE f == [i \in DOMAIN r.text[k] \cup {b} |-> IF i = b THEN t ELSE r.text[k][i]]
  <1>1. Log!With([fp |-> r.fp, text |-> r.text], k, b, t)
          = [fp |-> r.fp, text |-> [r.text EXCEPT ![k] = f]]
    BY DEF Log!With, Log!Done
  <1>2. WithBatch(r, k, b, t).fp = r.fp /\ WithBatch(r, k, b, t).text = [r.text EXCEPT ![k] = f]
    BY DEF WithBatch, Run
  <1> QED BY <1>1, <1>2

\* The store starts as a log does.
LEMMA LogInitial ==
  ASSUME Init
  PROVE  Log!LogInit
PROOF
  <1>1. View = [p \in Proc |-> NoState]
    BY DEF Init, View, IdleRun
  <1>2. CASE runState = NoState
    BY <1>1, <1>2 DEF Log!LogInit, Saved
  <1>3. CASE runState # NoState
    <2>1. TypeOK
      BY InitType
    <2>2. ASSUME NEW k \in Kind
          PROVE  Loaded(runState, k, padded) \in UNION {[1..n -> Text] : n \in 0..MaxBatch}
      <3> DEFINE n == CheckpointCount(runState, k)
                 f == Loaded(runState, k, padded)
      <3>1. f \in Payload /\ DOMAIN f = 1..n /\ n \in 0..MaxBatch
        BY <1>3, <2>1, LegacyLoadable, LoadedType, CountFacts DEF TypeOK, Count
      <3>2. f \in [1..n -> Text]
        <4> HIDE DEF f, n
        <4> QED BY <3>1, PayloadFunction
      <3> QED BY <3>1, <3>2
    <2>3. Saved \in [fp : Fingerprint,
                     text : [Kind -> UNION {[1..n -> Text] : n \in 0..MaxBatch}]]
      BY <1>3, <2>1, <2>2 DEF Saved, Content, TypeOK, RunState
    <2> QED BY <1>1, <2>3 DEF Log!LogInit, Log!Kind, Kind
  <1> QED BY <1>2, <1>3

\* Opening a run begins or resumes the progress of its process.
LEMMA OpenLog ==
  ASSUME MemoryInv, NEW p \in Proc, NEW f \in Fingerprint, NEW resume \in BOOLEAN,
         Open(p, f, resume)
  PROVE  Log!Resume(p) \/ Log!Begin(p, f)
PROOF
  <1>1. TypeOK
    BY DEF MemoryInv, LoadInv
  <1>2. View[p] = NoState /\ UNCHANGED <<runState, padded>>
    BY DEF Open, View
  <1>3. Saved' = Saved
    BY <1>2 DEF Saved, Content, Loaded
  <1>4. \A q \in Proc \ {p} : run'[q] = run[q]
    BY <1>1 DEF Open, TypeOK
  <1>5. CASE resume /\ runState # NoState /\ runState.fp = f
    <2>1. run'[p] = ResumedRun(runState)
      BY <1>1, <1>5 DEF Open, TypeOK
    <2>2. Saved = [fp |-> run'[p].fp, text |-> run'[p].text] /\ run'[p].phase # "idle"
      BY <1>5, <2>1 DEF Saved, Content, ResumedRun
    <2>3. View' = [View EXCEPT ![p] = Saved]
      BY <1>1, <1>4, <2>2, ViewStep
    <2>4. Saved # NoState
      <3>1. MemoryInv' => run'[p] \in Run
        BY DEF MemoryInv, LoadInv, TypeOK
      <3>2. MemoryInv'
        BY MemoryNext DEF Next
      <3> QED BY <2>2, <3>1, <3>2, ProgressFacts
    <2> QED BY <1>2, <1>3, <2>3, <2>4 DEF Log!Resume
  <1>6. CASE ~ (resume /\ runState # NoState /\ runState.fp = f)
    <2>1. run'[p] = FreshRun(f)
      BY <1>1, <1>6 DEF Open, TypeOK
    <2>2. Log!Empty(f) = [fp |-> run'[p].fp, text |-> run'[p].text] /\ run'[p].phase # "idle"
      BY <2>1 DEF Log!Empty, Log!Kind, Kind, FreshRun, NoTexts, NoText
    <2>3. View' = [View EXCEPT ![p] = Log!Empty(f)]
      BY <1>1, <1>4, <2>2, ViewStep
    <2> QED BY <1>2, <1>3, <2>3 DEF Log!Begin
  <1> QED BY <1>5, <1>6

\* Publishing a state saves its process's progress, extended by one batch or
\* as it was.
LEMMA PublishLog ==
  ASSUME MemoryInv, NEW p \in Proc, Publish(p)
  PROVE  Log!Translate(p) \/ Log!Review(p) \/ Log!Finish(p) \/ Log!Save(p)
PROOF
  <1> DEFINE s == commit[p].state
             a == commit[p].after
             r == run[p]
             v == [fp |-> r.fp, text |-> r.text]
             w == [fp |-> a.fp, text |-> a.text]
  <1>1. TypeOK /\ commit[p] # NoCommit /\ commit[p] \in Commit
    BY DEF MemoryInv, LoadInv, Publish, TypeOK
  <1>2. /\ s \in RunState /\ r \in Run /\ r.phase # "idle" /\ RunOK(r)
        /\ Advances(r, a) /\ Holds(s, a) /\ s.pinned
    BY <1>1 DEF MemoryInv, LoadInv, TypeOK, Commit, IdleIsEmpty, RunsInMemory, CommitsInMemory
  <1>3. a \in Run /\ a.phase # "idle" /\ RunOK(a)
    BY <1>2, AdvanceOK
  <1>4. /\ runState' = s /\ run'[p] = a /\ UNCHANGED padded
        /\ \A q \in Proc \ {p} : run'[q] = run[q]
    BY <1>1 DEF Publish, Accept, TypeOK
  <1>5. View[p] = v /\ v # NoState
    BY <1>2, ProgressFacts DEF View
  <1>6. View' = [View EXCEPT ![p] = w]
    <2>1. w = IF run'[p].phase = "idle"
              THEN NoState ELSE [fp |-> run'[p].fp, text |-> run'[p].text]
      BY <1>3, <1>4
    <2> HIDE DEF w
    <2> QED BY <1>1, <1>4, <2>1, ViewStep
  <1>7. Saved' = w
    <2>1. Content(s) = w
      BY <1>2, <1>3, HoldsContent
    <2>2. s # NoState
      BY <1>2, ConstantsAssumption
    <2> QED BY <1>4, <2>1, <2>2, SMTT(30) DEF Saved, Content, Loaded
  <1>8. Log!SaveAs(p, w)
    BY <1>6, <1>7 DEF Log!SaveAs
  <1>9. /\ v.fp = r.fp /\ \A k \in Kind : Log!Done(v, k) = 1..r.done[k]
        /\ \A k \in Kind : r.done[k] \in Nat /\ Batches[r.fp][k] \in Nat
    BY <1>2, ConstantsAssumption DEF Log!Done, RunOK, Run, Count
  <1>10. \A k \in Kind : r.done[k] = Batches[r.fp][k] => Log!Complete(v, k)
    BY <1>9 DEF Log!Complete
  <1>11. ASSUME NEW k \in Kind, NEW before, \A j \in before : Log!Complete(v, j),
                r.done[k] < Batches[r.fp][k],
                NEW t \in Text, a = WithBatch(r, k, r.done[k] + 1, t)
         PROVE  Log!Extend(p, k, before)
    <2> DEFINE b == r.done[k] + 1
    <2>1. w = Log!With(v, k, b, t)
      BY <1>2, <1>11, WithBatchWith
    <2>2. b \in 1..Batches[v.fp][k] /\ Log!Done(v, k) = 1..(b - 1)
      BY <1>9, <1>11
    <2> HIDE DEF b, v, w
    <2> QED BY <1>5, <1>8, <1>11, <2>1, <2>2 DEF Log!Extend
  <1>12. r.phase \in {"review", "finalize"} => Log!Complete(v, "translated")
    BY <1>2, <1>10, KindFacts DEF RunOK
  <1>13. CASE /\ r.phase = "translate"
              /\ r.done["translated"] < Batches[r.fp]["translated"]
              /\ \E t \in Text : a = WithBatch(r, "translated", r.done["translated"] + 1, t)
    BY <1>11, <1>13, KindFacts DEF Log!Translate
  <1>14. CASE /\ r.phase = "review"
              /\ r.done["reviewed"] < Batches[r.fp]["reviewed"]
              /\ \E t \in Text : a = WithBatch(r, "reviewed", r.done["reviewed"] + 1, t)
    BY <1>11, <1>12, <1>14, KindFacts DEF Log!Review
  <1>15. CASE /\ r.phase = "finalize"
              /\ \E t \in Text :
                   a = [WithBatch(r, "finalized", 1, t) EXCEPT !.phase = "done"]
    <2>1. PICK t \in Text : a = [WithBatch(r, "finalized", 1, t) EXCEPT !.phase = "done"]
      BY <1>15
    <2>2. WithBatch(r, "finalized", 1, t) \in Run
      <3>1. 1 \in BatchNo
        BY ConstantsAssumption DEF BatchNo
      <3> QED BY <1>2, <3>1, WithBatchType, KindFacts
    <2>3. /\ a.fp = WithBatch(r, "finalized", 1, t).fp
          /\ a.text = WithBatch(r, "finalized", 1, t).text
      BY <2>1, <2>2 DEF Run
    <2>4. w = Log!With(v, "finalized", 1, t)
      BY <1>2, <2>3, WithBatchWith, KindFacts
    <2>5. Log!Complete(v, "reviewed")
      BY <1>2, <1>10, <1>15, KindFacts DEF RunOK
    <2> HIDE DEF v, w
    <2> QED BY <1>5, <1>8, <1>12, <1>15, <2>4, <2>5 DEF Log!Finish
  <1>16. CASE \/ /\ r.phase = "translate"
                 /\ r.done["translated"] = Batches[r.fp]["translated"]
                 /\ a = [r EXCEPT !.phase = "review"]
              \/ /\ r.phase = "review"
                 /\ r.done["reviewed"] = Batches[r.fp]["reviewed"]
                 /\ a = [r EXCEPT !.phase = "finalize"]
    <2>1. a.fp = r.fp /\ a.text = r.text
      BY <1>2, <1>16 DEF Run
    <2>2. w = v
      BY <2>1
    <2>3. Log!Complete(v, "translated")
      BY <1>10, <1>12, <1>16, KindFacts
    <2> HIDE DEF v, w
    <2> QED BY <1>5, <1>8, <2>2, <2>3 DEF Log!Save
  <1> QED BY <1>2, <1>13, <1>14, <1>15, <1>16 DEF Advances

\* Steps that touch neither the published state nor a run are invisible.
LEMMA LogStutter ==
  ASSUME UNCHANGED <<padded, runState, run>>
  PROVE  Saved' = Saved /\ View' = View
BY DEF Saved, View, Content, Loaded

\* Every step of the store is a step of the log, or none.
LEMMA LogStep ==
  ASSUME MemoryInv, [Next]_vars
  PROVE  Log!LogNext \/ (Saved' = Saved /\ View' = View)
PROOF
  <1>1. TypeOK
    BY DEF MemoryInv, LoadInv
  <1>2. CASE UNCHANGED vars
    BY <1>2, LogStutter DEF vars
  <1>3. ASSUME NEW p \in Proc, NEW f \in Fingerprint, NEW resume \in BOOLEAN,
               Open(p, f, resume)
        PROVE  Log!LogNext
    BY <1>3, OpenLog DEF Log!LogNext
  <1>4. ASSUME NEW p \in Proc,
               \/ TranslateBatch(p) \/ FinishTranslation(p)
               \/ ReviewBatch(p) \/ FinishReview(p) \/ Finalize(p) \/ WriteShard(p) \/ Verify(p)
        PROVE  Saved' = Saved /\ View' = View
    BY <1>4, LogStutter DEF TranslateBatch, FinishTranslation, ReviewBatch, FinishReview,
                            Finalize, WriteShard, Verify, CommitShard, CommitCounts, StartCommit
  <1>5. ASSUME NEW p \in Proc, Publish(p)
        PROVE  Log!LogNext
    BY <1>5, PublishLog DEF Log!LogNext
  <1>6. ASSUME NEW p \in Proc, Stop(p)
        PROVE  Log!LogNext
    <2>1. run'[p].phase = "idle" /\ (\A q \in Proc \ {p} : run'[q] = run[q])
          /\ UNCHANGED <<runState, padded>>
      BY <1>1, <1>6 DEF Stop, TypeOK, IdleRun
    <2>2. View' = [View EXCEPT ![p] = NoState]
      BY <1>1, <2>1, ViewStep
    <2>3. Saved' = Saved
      BY <2>1 DEF Saved, Content, Loaded
    <2> QED BY <2>2, <2>3 DEF Log!LogNext, Log!Leave
  <1>7. CASE CleanRuns
    BY <1>7 DEF CleanRuns, Saved, View, Log!LogNext, Log!Erase
  <1> QED BY <1>2, <1>3, <1>4, <1>5, <1>6, <1>7 DEF Next

\* Seen from the runs, the store is one saved value, replaced as a whole: the
\* shards, manifests, migrations, unpublished commits and races of
\* commit_checkpoint are invisible.
THEOREM StoreImplementsLog == Spec => ImplementsResumeLog
PROOF
  <1>1. Init => Log!LogInit
    BY LogInitial
  <1>2. MemoryInv /\ [Next]_vars => [Log!LogNext]_(Log!logVars)
    BY LogStep DEF Log!logVars
  <1> QED BY <1>1, <1>2, MemoryInvariant, PTL DEF Spec, ImplementsResumeLog, Log!LogSpec
=============================================================================
