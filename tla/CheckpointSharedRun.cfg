CONSTANTS
  p1 = p1
  p2 = p2
  t1 = t1
  t2 = t2
  f1 = f1
  f2 = f2
  NoState = NoState
  NoCommit = NoCommit
  Text = {t1, t2}
  MaxBatch = 1
  Proc = {p1, p2}
  Fingerprint = {f1}
  LegacyVersion = {}
  Batches <- BatchesSharedRun
SPECIFICATION Spec
INVARIANTS TypeOK AcceptedLoadable
PROPERTY ImplementsResumeLog
SYMMETRY Symmetric
