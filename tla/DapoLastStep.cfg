\* Data that ends before the last step.
SPECIFICATION Spec
CONSTANTS
  NumBatches = 3
  GenSize = 2
  TrainSize = 2
  N = 2
  Filter = TRUE
  MaxGenBatches = 0
  TotalSteps = 3
  SaveFreq = 1
  MaxRestarts = 1
INVARIANTS LastStepIsSaved
CHECK_DEADLOCK FALSE
