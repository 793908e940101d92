SPECIFICATION Spec
CONSTANTS
    NumSteps = 2
    HasPlanner = TRUE
    MaxReplan = 2
    MaxNew = 2
    MaxRuns = 2
INVARIANTS
    TypeOK
    StatusTellsProgress
    NoStepLost
    SpanTellsOutcome
PROPERTIES
    DoneWorkIsKept
    LoopUsesFuel
    ExecutionEnds
