SPECIFICATION Spec
CHECK_DEADLOCK FALSE
CONSTANTS
    Trees <- SmallTrees
    Contents <- Edited
    Executor = {"shell_exec", "script_exec"}
    MaxEdits = 2
    MaxAttempts = 2
INVARIANTS StrictMeansSame AcceptedIsClosed LayersOverride
