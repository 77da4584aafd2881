SPECIFICATION Spec
CONSTANTS
  sup = sup
  wrk = wrk
  Msgs = {m1, m2}
  Receivers = {sup, wrk}
  Seats = {sup}
  ServiceSender = service
  Drafts <- Callbacks
  SeatOutcomes = {"delivered"}
  PaneOutcomes = {"delivered"}
  LEASE = 1
  BACKOFF = 1
  MAX_ATTEMPTS = 1
  VETO_CEILING = 3
  MAX_LIFETIME = 4
  CLAIM_LIMIT = 2
  LIST_LIMIT = 2
  LAST_SEND = 1
  MAX_TIME = 3
  MAX_LAG = 3
  MAX_FAULTS = 0
INVARIANTS
  OneOpenEpoch
  WakesWithinLeases
  AckSettlesOnlyShown
PROPERTIES
  ClosedEpochFrozen
