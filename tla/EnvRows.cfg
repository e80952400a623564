\* Two workers with two stages each: the smallest instance whose rows change
\* places.  The run returns, so a deadlock is its end.
SPECIFICATION Spec
CONSTANTS
    Workers = 2
    Stages = 2
    Envs = 1
    Ranks = 2
    max_interactions = 2
    Chunk = 2
    Successes = {{}, {0, 3}, {1, 2}}
    Faulty = FALSE
INVARIANTS RowsAreTheirStates
CHECK_DEADLOCK FALSE
