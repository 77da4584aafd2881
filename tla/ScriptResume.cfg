\* One step, two fingerprints for it, two resumes, one handler, one crash.
SPECIFICATION Spec
CONSTANTS
  None = None
  Steps = {s1}
  Policy <- Manual
  Prints = {f1, f2}
  Resumes = {r1, r2}
  Calls = {h1}
  MAX_CRASHES = 1
SYMMETRY Alike
INVARIANTS
  ClaimHasOneHolder
  NoStandingConsent
  ConsentEndsWithDrive
  CancelIsKept
PROPERTIES
  RecordedRunsWithLeave
\* A run whose requests are answered waits for the next request.
CHECK_DEADLOCK FALSE
