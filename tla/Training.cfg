\* "ranks": two ranks of three rows each, whose numbers of micro-batches are
\* rounded up to even.  The work ends, so a deadlock is the end of the run.
SPECIFICATION MCSpec
CONSTANTS
    Ranks = {0, 1}
    Size = 3
    Lengths = {1, 2, 3}
    EqualSize = FALSE
    Partitions = 1
    MaxTokenLen = 4
    MinNum = 1
    DividedBy = 2
    SameNumInDp = TRUE
    Jobs <- MCJobs
INVARIANTS Balanced OutputsReturn UpdateIsSplitInvariant BackwardReadsItsOwn TrackedCanBeLoaded
PROPERTIES UpdateEnds RestartsGoOn
CHECK_DEADLOCK FALSE
