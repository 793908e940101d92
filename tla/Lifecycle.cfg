SPECIFICATION WorkSpec
CONSTANTS
    Tuners = {t1, t2}
    Trackers = {"mlflow", "memory", "none"}
    Names = {n1, n2}
    Versions = {v1, v2}
    Builds = {b1, b2}
    MaxOps = 3
    MaxRuns = 2
    None = None
    CaseLists <- SomeCaseLists
    Case1 = Case1
    Case2 = Case2
    Texts <- TextsUpTo
    Queries <- AllQueries
    MaxVariants = 3
    MaxRepeat = 2
    MaxCalls = 6
    Top = 2
    MaxTasks = 3
    Latencies = {1, 2}
    TokenCounts = {0, 3}
    ChunkTokens = 2
    WordLengths = {1, 3, 4, 9}
    MaxWords = 4
    Lengths = {0, 5, 9, 24}
    Given = {0, 2}
    Budget = 5
    Words = {w1, w2}
    Times = {1, 2}
    MaxShort = 5
    MaxLong = 3
SYMMETRY Symmetry
INVARIANTS
    HubAndLogAgree
    TrackedRunsAreEnded
    EvaluationTellsEveryCall
    SummaryCoversText
    LatestThatFit
    SearchFindsTheBest
CHECK_DEADLOCK FALSE
