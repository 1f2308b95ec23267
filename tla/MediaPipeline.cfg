CONSTANTS
  Chunks = 2
  CueCounts = {1}
  BatchSize = 2
  Capacity = 1
  Strategies = {"turbo", "economy"}
  Reuse <- Options
  MaxRuns = 2
  MaxFailures = 1
  QueueLimit = 1
  PipeSize = 1
  MaxLines = 2
  None = None
SPECIFICATION Spec
INVARIANTS TypeOK PublishedIsCurrent ContextConfirmed LinesDelivered
PROPERTY RunEnds
CHECK_DEADLOCK FALSE
