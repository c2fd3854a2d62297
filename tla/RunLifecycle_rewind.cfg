SPECIFICATION Spec
CONSTANTS
  NSteps = 3
  NRescue = 0
  NAlways = 1
  Kind <- ApprovalKind
  Conditional <- None
  FactValues = {}
  Rank <- Descending
  Overrides = {"none", "yes"}
  Targets = {0, 1, 2, 3, 4}
  Modes = {"warn", "strict"}
  MaxAttempts = 3
  MaxEdits = 2
  MaxCrashes = 1
  MaxWriteFaults = 1
  MaxReadFaults = 0
INVARIANTS
  CheckpointsInOrder
  RewindChangedFresh
CHECK_DEADLOCK FALSE
