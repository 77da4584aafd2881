SPECIFICATION Spec
CONSTANTS
  None = None
  lane = lane
  gateRun = gateRun
  sup = sup
  Questions = {q1, q2}
  Dispatches = {lane}
  RunOf <- LaneRun
  Runs = {gateRun}
  Conversations = {sup, heir}
  FirstOwner <- Opener
  AskKeys = {k1, k2}
  AnswerKeys = {a1}
  ClaimKeys = {c1}
  Answers = {yes}
  Recordable = {"DISPATCHED", "AWAITING_ANSWER", "RETURNED"}
  Windows = {1}
  Epochs = {0, 1}
  LOCK_WAIT = 1
  MAX_TIME = 2
  MAX_CRASHES = 1
SYMMETRY Interchangeable
INVARIANTS
  SuspensionHasRelease
  OneOpenQuestion
  AnsweredByOwner
  OneAnomaly
PROPERTIES
  FinishedStaysFinished
  ImplementsLifecycle
CHECK_DEADLOCK FALSE
