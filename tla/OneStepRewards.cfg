\* Rows are balanced over the ranks while their scores are computed behind: the
\* smallest instance.
SPECIFICATION Spec
CONSTANTS
  NumBatches = 4
  Epochs = 1
  Responses = 2
  BalanceBatch = TRUE
  RewardAsync = TRUE
  Warmup = 0
  SaveFreq = 2
  TestFreq = 2
  MaxRestarts = 1
  MaxErrors = 1
INVARIANTS RowsKeepScores
CHECK_DEADLOCK FALSE
