\* "gkd": both schedulers, long enough for two iterations of the steady state and
\* the statements after the loop, a checkpoint every second step and two restarts.
\* fit returns or raises, so a deadlock is the end of the run.
SPECIFICATION MCSpec
CONSTANTS
  Schedulers = {"one_step_off", "two_step_off"}
  NumBatches = 7
  SaveFreq = 2
  MaxRestarts = 2
INVARIANTS StepsMatch DataIsUsedOnce StepsAreSound
PROPERTIES StepsFollowDataflow EveryFitEnds
CHECK_DEADLOCK FALSE
