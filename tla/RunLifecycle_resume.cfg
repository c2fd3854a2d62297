SPECIFICATION Spec
CONSTANTS
  NSteps = 3
  NRescue = 1
  NAlways = 2
  Kind <- MixedKind
  Conditional <- First
  FactValues = {"no", "yes"}
  Rank <- Ascending
  Overrides = {"none", "yes"}
  Targets = {0}
  Modes = {"warn"}
  MaxAttempts = 3
  MaxEdits = 0
  MaxCrashes = 1
  MaxWriteFaults = 1
  MaxReadFaults = 1
INVARIANTS
  CompletedMeansDone
  TeardownComplete
PROPERTY CheckpointsAreFinal
CHECK_DEADLOCK FALSE
