SPECIFICATION Spec
CONSTANTS
  Order <- MCOrder
  Tasks = {1, 2}
  Scenarios <- MCScenarios
INVARIANT
  WorkedOnce
  CompletedIsWhole
PROPERTY
  CancelSticks
  RunSettles
CHECK_DEADLOCK FALSE
