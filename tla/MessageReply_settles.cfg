SPECIFICATION Spec
CONSTANTS
  w1 = w1
  w2 = w2
  q1 = q1
  p1 = p1
  p2 = p2
  c1 = c1
  Workers = {w1}
  Requests = {q1}
  Writers = {p1}
  Calls = {c1}
  MaxFrames = 2
  MaxRounds = 2
  MaxSameCall = 1
  MaxRetries = 1
  MaxRequests = 1
  MaxFaults = 1
  MaxRevivals = 1
PROPERTY
  MessageSettles
  TailEnds
  PlaceholderSettles
CHECK_DEADLOCK FALSE
