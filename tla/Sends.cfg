SPECIFICATION Spec
CONSTANTS
  NoReceiver = nobody
  wrk = wrk
  operator = operator
  sup = sup
  peer = peer
  x = x
  y = y
  s1 = s1
  s2 = s2
  s3 = s3
  old1 = old1
  old2 = old2
  Rejected = {}
  Readers = {sup}
  WINDOW = 1
  ADOPT_LIMIT = 1
  MAX_TIME = 3
  MAX_BUSY = 2
  MAX_FAULTS = 0
  Sends = {s1, s2, s3}
  Draft <- Callbacks
  Legacy <- NoRows
INVARIANTS
  RepeatSuppressed
  LiveAckOnlyListed
PROPERTIES
  RefinesLifecycle
CHECK_DEADLOCK FALSE
