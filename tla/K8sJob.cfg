SPECIFICATION JobSpec
CHECK_DEADLOCK FALSE
CONSTANTS
    a = a
    b = b
    w = w
    Step = {a}
    Waiter = {w}
    JobName <- DistinctNames
    Timed = {a, w}
    MaxAttempts = 3
    None = None
INVARIANTS JobInv OwnJobDecides
PROPERTY TimedStepsEnd
