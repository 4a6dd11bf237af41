SPECIFICATION FairSpec
CONSTANTS
    e1 = e1
    e2 = e2
    c1 = c1
    c2 = c2
    Graph = "chain"
    NTasks <- MCNTasks
    Deps <- MCDeps
    Reviews <- MCReviews
    MergeTask <- MCMerge
    RewriteTask <- MCRewrite
    RecheckTask <- MCRecheck
    Skippable <- MCSkippable
    TaskBudget <- MCTaskBudget
    LaneLimit = 6
    Costs = {1}
    MaxParallel = 2
    MaxAttempts = 1
    MaxRetryable = 2
    PauseStreak = 2
    MaxRounds = 2
    MaxProbes = 1
    Executors = {e1}
    Clients = {c1}
    Outcomes = {"ok", "fatal"}
    Overlap = FALSE
    Interleave = FALSE
    MaxControls = 1
    MaxCrashes = 1
    MaxFailures = 0
    MaxDuplicates = 0
PROPERTY
    RunSettles
CHECK_DEADLOCK FALSE
