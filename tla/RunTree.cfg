CONSTANTS
  Runs <- Three
  Root = "main"
  Steps <- ThreeSteps
  Child <- Calls
  NoRun = "norun"
  Workflows = {"w1", "w2"}
  Default = "w1"
  Templated = {"b"}
  Ignoring = {"b"}
  WithHandlers = {"a"}
  Conditional <- WithWhen
  Gates <- GateSteps
  Targets <- RewindTargets
  MaxAttempts = 3
  MaxEdits = 1
  MaxCrashes = 1
  MaxRefused = 1
SPECIFICATION Spec
INVARIANTS TreeInv CompletedToTheLeaves RewoundIsFresh
CHECK_DEADLOCK FALSE
