SPECIFICATION FairSpec
CONSTANTS
  NoReceiver = nobody
  wrk = wrk
  operator = operator
  sup = sup
  peer = peer
  x = x
  y = y
  s1 = s1
  s2 = s2
  s3 = s3
  old1 = old1
  old2 = old2
  Rejected = {s2}
  Readers = {}
  WINDOW = 1
  ADOPT_LIMIT = 1
  MAX_TIME = 0
  MAX_BUSY = 1
  MAX_FAULTS = 2
  Sends = {s1, s2, s3, old1, old2}
  Draft <- Mixed
  Legacy <- TwoRows
INVARIANTS
  AnsweredIsCarried
  CarriedOnce
  RetiredIsCarried
PROPERTIES
  EveryOrphanAdopted
CHECK_DEADLOCK FALSE
