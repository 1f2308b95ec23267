CONSTANTS
  p1 = p1
  p2 = p2
  t1 = t1
  t2 = t2
  f1 = f1
  f2 = f2
  NoState = NoState
  NoCommit = NoCommit
  Text = {t1, t2}
  MaxBatch = 2
  Proc = {p1}
  Fingerprint = {f1, f2}
  LegacyVersion = {3, 5}
  Batches <- BatchesMigration
SPECIFICATION Spec
INVARIANTS PublishedLoadable CheckpointIsMemory
