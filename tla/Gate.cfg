SPECIFICATION GateSpec
CHECK_DEADLOCK FALSE
CONSTANTS
    FactKey = {"x", "y"}
    Saliences <- AroundZero
    RuleLists <- Lists
    GateFacts <- OneFact
    MaxCycle = 2
INVARIANTS HighestSalienceWins GateInv
