CONSTANTS
  G = {g1, g2}
  NSteps = 2
  Skip = 1
  BreakpointLists <- SomeLists
  StepFlag = TRUE
  Cmds = {"continue", "step", "until", "terminate", "evaluate", "set_breakpoints"}
  MaxCmds = 2
  IgnoreErrors = FALSE
SPECIFICATION FairSpec
INVARIANTS PauseInv
PROPERTIES StepModeHolds NothingLeftBlocked AbandonedPauseFails
