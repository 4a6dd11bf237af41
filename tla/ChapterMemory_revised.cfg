SPECIFICATION Spec
CONSTANTS
  Chapters = {"c1", "c2"}
  Closing = "c2"
  Versions = {"a", "b"}
  Proposals = {"p1"}
  Writers = {1, 2}
  Workers = {1, 2}
  MaxAttempts = 2
  RunChapter = "c2"
  RunVersion = "a"
  RowLocks = FALSE
  Scenarios <- MCScenarios
INVARIANT
  IndexCatchesUp
  FreshRecapIsCurrent
  StaleRecapIsNotServed
  FreshRecapIsServed
PROPERTY
  JobsSettle
CHECK_DEADLOCK FALSE
