SPECIFICATION Spec
CONSTANTS
  None = None
  Callers = {c1, c2}
  Runs = {r1}
  Rounds = {i1, i2, i3}
  Snapshots = {s1, s2}
  Reports = {p1, p2}
  MaxRounds = {1}
  MAX_CLAIMS = 1
  MAX_VERSION = 5
SYMMETRY Interchangeable
INVARIANTS
  VerdictHasItsReport
  RoundsBounded
PROPERTIES
  ReviewedRowsKeep
  RunEndsOnce
CHECK_DEADLOCK FALSE
