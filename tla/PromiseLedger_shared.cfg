SPECIFICATION Spec
CONSTANTS
  Keys = {1}
  r1 = r1
  r2 = r2
  q1 = q1
  q2 = q2
  Runs <- MCRuns
  Chapters = {1, 2}
  Quotes <- MCQuotes
  Scenarios <- MCScenarios
SYMMETRY Symmetry
INVARIANTS
    OneCount
    NoSilentMiss
PROPERTIES
    SettledOnEvidence
    FulfilmentsKept
CHECK_DEADLOCK FALSE
