SPECIFICATION BatchSpec
CONSTANTS
    Calls = {1, 2, 3}
    NumCandidates = 2
    MaxRetries = 2
INVARIANTS
    TypeOK
    AttemptsInPolicyOrder
    ExhaustedBeforeRaise
    TraceMatchesOutcome
    ResultsTellEveryRequest
PROPERTIES
    CancelStopsProviderCalls
    PromiseSpec
    BatchEnds
