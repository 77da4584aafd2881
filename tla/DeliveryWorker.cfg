SPECIFICATION Spec
CONSTANTS
  sup = sup
  wrk = wrk
  Msgs = {m1}
  Receivers = {sup, wrk}
  Seats = {sup}
  ServiceSender = service
  Drafts <- Steers
  SeatOutcomes = {"delivered"}
  PaneOutcomes = {"delivered", "veto_dialog", "veto_unverified", "submission_uncertain"}
  LEASE = 1
  BACKOFF = 1
  MAX_ATTEMPTS = 2
  VETO_CEILING = 5
  MAX_LIFETIME = 6
  CLAIM_LIMIT = 2
  LIST_LIMIT = 2
  LAST_SEND = 0
  MAX_TIME = 9
  MAX_LAG = 9
  MAX_FAULTS = 0
INVARIANTS
  HoldClockHonest
  DeathsAnnounced
  LeasedRowsCovered
PROPERTIES
  NoResubmission
