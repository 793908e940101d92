SPECIFICATION Spec
CONSTANTS
    NumWorkers = 2
    MaxSteps = 3
    PoolSize = 1
INVARIANTS
    ResultsTellEveryStep
    OneAtATime
PROPERTIES
    NothingStartsAfterwards
    RunEnds
