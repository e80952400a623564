SPECIFICATION PromptFairSpec
CONSTANT Configs <- StarvingConfigs
PROPERTY FitEnds
CHECK_DEADLOCK FALSE
