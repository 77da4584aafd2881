SPECIFICATION FairSpec
CONSTANTS
  sup = sup
  wrk = wrk
  Msgs = {m1}
  Receivers = {sup, wrk}
  Seats = {sup}
  ServiceSender = service
  Drafts <- Traffic
  SeatOutcomes = {"delivered"}
  PaneOutcomes = {"delivered", "submission_uncertain", "veto_dialog", "veto_unverified"}
  LEASE = 1
  BACKOFF = 1
  MAX_ATTEMPTS = 1
  VETO_CEILING = 3
  MAX_LIFETIME = 4
  CLAIM_LIMIT = 1
  LIST_LIMIT = 1
  LAST_SEND = 0
  MAX_TIME = 13
  MAX_LAG = 1
  MAX_FAULTS = 1
INVARIANTS
  BoundedLife
  QuarantineHolds
PROPERTIES
  RefinesLifecycle
  EveryMessageEnds
  FinishedEpochsClose
