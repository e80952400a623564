\* "router": one worker, three batches of two conversations, a cache of two.
\* Conversations end and requests return, so a deadlock is the end of the run.
SPECIFICATION MCSpec
CONSTANTS
    Servers = {s1, s2}
    Workers = 1
    Chunk = 2
    Batches = 3
    MaxTurns = 2
    CacheSize = 2
    Continuous = FALSE
    MaxAlive = 2
    Sample = {p1, p2}
    Request = {r1, r2, r3}
    Limits <- MCLimits
INVARIANTS Balanced SessionsStick PiecesMakeWhole LimitsHold
PROPERTIES CancelIsPrompt RequestsReturn
CHECK_DEADLOCK FALSE
