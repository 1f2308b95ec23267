CONSTANTS
  Tools <- AllTools
  Mutating = {"edit", "install", "delete"}
  NeedsApproval = {"install"}
  Commands = {"command"}
  Deletes = {"delete"}
  Decisions <- Batches
  MaxSteps = 2
  MaxRequests = 3
  MaxCalls = 3
  MaxSteer = 1
  MaxQueue = 1
  MaxCrashes = 1
  MaxFailures = 1
  None = None
SPECIFICATION Spec
INVARIANTS TypeOK PlanAccurate StartedOnce AwaitingIsPending
PROPERTIES AskedFirst DeniedStays StaleCallsDropped Answered
CHECK_DEADLOCK FALSE
