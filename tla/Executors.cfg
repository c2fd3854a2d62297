SPECIFICATION Dispatch
CHECK_DEADLOCK FALSE
CONSTANTS
    Turn = {"m1", "m2"}
    SubAgent = {"s1"}
    Tokens = {1, 2}
    maxTurns = 1
    maxTokens = 3
    maxDuration = TRUE
    Timeout = TRUE
    eventsLimit = 1
    PipeSize = 2
    MaxEvents = 3
    StepTimeoutSet = TRUE
    MaxOutput = 2
    MaxExecutions = 3
INVARIANTS LimitsInv SuccessIsEarned LocalInv
PROPERTIES StoppedStepsEnd HostStepsEnd
