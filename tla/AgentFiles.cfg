CONSTANTS
  Paths = {"a", "b"}
  Calls <- AllCalls
  MaxRequests = 2
  MaxEdits = 1
  MaxCrashes = 1
  MaxFailures = 1
  None = None
SPECIFICATION Spec
INVARIANTS TypeOK LogExplainsFiles ConflictIsReal UndoneIsRestored ManifestRecorded
PROPERTIES UndoPreserves
CHECK_DEADLOCK FALSE
