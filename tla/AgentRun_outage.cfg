SPECIFICATION Spec
CONSTANTS
    e1 = e1
    e2 = e2
    c1 = c1
    c2 = c2
    Graph = "single"
    NTasks <- MCNTasks
    Deps <- MCDeps
    Reviews <- MCReviews
    MergeTask <- MCMerge
    RewriteTask <- MCRewrite
    RecheckTask <- MCRecheck
    Skippable <- MCSkippable
    TaskBudget <- MCTaskBudget
    LaneLimit = 6
    Costs = {1}
    MaxParallel = 2
    MaxAttempts = 1
    MaxRetryable = 1
    PauseStreak = 1
    MaxRounds = 2
    MaxProbes = 1
    Executors = {e1}
    Clients = {c1}
    Outcomes = {"ok", "retryable", "fatal"}
    Overlap = TRUE
    Interleave = TRUE
    MaxControls = 1
    MaxCrashes = 1
    MaxFailures = 1
    MaxDuplicates = 0
INVARIANTS
    NothingLeftClaimed
    ActiveIsDriven
PROPERTY
    FinalUnlessStale
CHECK_DEADLOCK FALSE
