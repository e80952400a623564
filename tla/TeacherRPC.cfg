\* Two threads, two calls with one retry each: a late answer of the first call
\* can meet the second, and a thread can be lost in the first.
\* The driver stops after its last call or when it raises, so a deadlock is
\* the end of the run.
SPECIFICATION FairSpec
CONSTANTS
  N = 2
  NumMicrobatches = 1
  Workers = {w1}
  Calls = 2
  MaxRetries = 1
INVARIANTS AnswersMatch RowsFollowBatch ReturnIsComplete
PROPERTIES ResolvedOnce TimedOutThreadIsLost EveryCallEnds
CHECK_DEADLOCK FALSE
