SPECIFICATION Spec
CHECK_DEADLOCK FALSE
CONSTANTS
    Caller = {"a", "b", "c"}
    Asks <- SmallAsks
    Answer = {"yes", "no"}
    Concurrency = 2
    MaxRuns = 2
INVARIANTS ClientInv AnswersAreStable
PROPERTY CallersEnd
