\* One thread: a single context overflow is enough.
SPECIFICATION Spec
CONSTANTS
  N = 1
  NumMicrobatches = 1
  Workers = {w1}
  Calls = 1
  MaxRetries = 1
INVARIANT OverflowKeepsStep
CHECK_DEADLOCK FALSE
