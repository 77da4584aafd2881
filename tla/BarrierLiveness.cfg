\* Two dispatchers racing to open the barrier, one worker, one upheaval.
SPECIFICATION FairSpec
CONSTANTS
    Dispatchers = {mcp, api}
    Workers = {w1}
    Barriers <- TwoBarriers
    Labels = {round}
    Keys = {k1, k2}
    Callbacks = {m1}
    None = None
    MAX_GEN = 2
    MAX_CHANGES = 1
INVARIANT OneOpenBarrier
PROPERTY EveryBarrierCloses
CHECK_DEADLOCK FALSE
