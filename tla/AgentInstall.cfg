CONSTANTS
  Tools <- AllTools
  Mutating = {"edit", "install", "delete"}
  NeedsApproval = {"install"}
  Commands = {"command"}
  Deletes = {"delete"}
  Decisions <- FewBatches
  MaxSteps = 2
  MaxRequests = 3
  MaxCalls = 3
  MaxSteer = 1
  MaxQueue = 1
  MaxCrashes = 0
  MaxFailures = 0
  None = None
SPECIFICATION Spec
PROPERTY ApprovalRequired
CHECK_DEADLOCK FALSE
