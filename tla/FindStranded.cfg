\* Only the HELD rows and their barriers; no upheaval is needed.
SPECIFICATION Spec
CONSTANTS
    Dispatchers = {mcp}
    Workers = {w1}
    Barriers <- TwoBarriers
    Labels = {round}
    Keys = {k1, k2}
    Callbacks = {m1}
    None = None
    MAX_GEN = 2
    MAX_CHANGES = 0
INVARIANT HeldWhileOpen
CHECK_DEADLOCK FALSE
