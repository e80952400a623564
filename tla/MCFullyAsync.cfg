\* fit returns, so a deadlock is the end of the run.
SPECIFICATION FairSpec
CONSTANT Configs <- MCConfigs
INVARIANTS BacklogBounded SamplesAccounted StrictlyOnPolicy
PROPERTIES BothEnd
CHECK_DEADLOCK FALSE
