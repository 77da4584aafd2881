\* Two workers answering two barriers under one label, one upheaval.
SPECIFICATION Spec
CONSTANTS
    Dispatchers = {mcp}
    Workers = {w1, w2}
    Barriers <- TwoBarriers
    Labels = {round}
    Keys = {k1, k2}
    Callbacks = {m1, m2}
    None = None
    MAX_GEN = 2
    MAX_CHANGES = 1
SYMMETRY Interchangeable
INVARIANTS
    OneCombinedMessage
    DigestedIsQuoted
    CompletedIsClosed
CHECK_DEADLOCK FALSE
