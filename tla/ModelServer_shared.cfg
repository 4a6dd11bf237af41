SPECIFICATION Spec
CONSTANTS
  Callers = {"c1", "c2"}
  Slots = {"s1", "s2", "s3", "s4"}
  None = "none"
  Left = "left"
  Scenarios <- MCScenarios
INVARIANTS
  OneAtWork
  Blameless
PROPERTY
  Heals
