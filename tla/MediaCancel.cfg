CONSTANTS
  Chunks = 2
  CueCounts = {1}
  BatchSize = 2
  Capacity = 1
  Strategies = {"turbo", "economy"}
  Reuse <- Options
  MaxRuns = 1
  MaxFailures = 0
  QueueLimit = 1
  PipeSize = 1
  MaxLines = 1
  None = None
SPECIFICATION Spec
INVARIANT CancelledIsReported
CHECK_DEADLOCK FALSE
