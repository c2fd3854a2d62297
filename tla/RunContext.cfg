SPECIFICATION ContextSpec
CONSTANTS
  NSteps = 3
  Name <- Names
  Vars = {"a", "b"}
  Workflows <- Mixed
  Initial <- VarsAndName
  Overrides <- SomeOverrides
  Numbers = {"int", "float"}
  MaxAttempts = 3
  MaxVersion = 2
INVARIANT ContextInv
CHECK_DEADLOCK FALSE
