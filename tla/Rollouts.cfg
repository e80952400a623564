\* "partial": two turns of at most three tokens, two synchronizations.  A
\* trajectory ends, so a deadlock is its end.
SPECIFICATION MCSpec
CONSTANTS
    PromptLength = 2
    ResponseLength = 5
    MaxTurn = 3
    MaxAssistantTurns = 2
    MaxUserTurns = 0
    MaxParallel = 1
    Answers = {1, 2}
    Interactive = FALSE
    WholeTurn = TRUE
    MaxVersion = 2
    EngineRanks = {e1, e2}
    Setups <- MCSetups
    MaxUpdates = 2
    MaxRestarts = 1
INVARIANTS ResumedIsSound OutputIsSound GeneratesWithCurrent DrawsItsOwn
PROPERTIES Implements LoopsEnd
CHECK_DEADLOCK FALSE
