SPECIFICATION Spec
CONSTANTS
    e1 = e1
    e2 = e2
    c1 = c1
    c2 = c2
    Graph = "join"
    NTasks <- MCNTasks
    Deps <- MCDeps
    Reviews <- MCReviews
    MergeTask <- MCMerge
    RewriteTask <- MCRewrite
    RecheckTask <- MCRecheck
    Skippable <- MCSkippable
    TaskBudget <- MCTaskBudget
    LaneLimit = 1
    Costs = {1}
    MaxParallel = 2
    MaxAttempts = 2
    MaxRetryable = 1
    PauseStreak = 1
    MaxRounds = 1
    MaxProbes = 1
    Executors = {e1, e2}
    Clients = {c1}
    Outcomes = {"ok"}
    Overlap = TRUE
    Interleave = TRUE
    MaxControls = 1
    MaxCrashes = 1
    MaxFailures = 0
    MaxDuplicates = 2
SYMMETRY ExecutorSymmetry
CONSTRAINT FewDisturbances
PROPERTIES
    StartsAfterDeps
    CancelStopsWork
    
    CompletedIsDone
CHECK_DEADLOCK FALSE
