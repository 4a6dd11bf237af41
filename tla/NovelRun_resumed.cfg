SPECIFICATION Spec
CONSTANTS
  Chapters = 2
  Tasks = {1, 2}
  MaxRetries = 1
  Scenarios <- MCScenarios
PROPERTY
  CancelSticks
  LeavesActive
CHECK_DEADLOCK FALSE
