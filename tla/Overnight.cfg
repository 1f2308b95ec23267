CONSTANTS
  r1 = r1
  r2 = r2
  None = None
  Docs <- TwoVersions
  BatchSize = 2
  TokenBudget = 25
  Readers = {r1, r2}
  MaxJobs = 1
SPECIFICATION Spec
INVARIANTS TypeOK ResultsApplied WritersExclude
PROPERTY CommandsEnd
CHECK_DEADLOCK FALSE
