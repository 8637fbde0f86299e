SPECIFICATION Spec
CONSTANTS
  Requests = {r1}
  Engines = {e1, e2}
  NoJob = NoJob
  ScanLimit = 10
  MaxTokens = 1
  MaxAttempts = 2
  MaxCrashes = 1
  MaxFaults = 0
  HeartbeatsReliable = TRUE
  Expiring = {"results"}
INVARIANTS
  SingleOwner
  AckedStreamExpires
PROPERTY
  ImplementsAttemptLog
SYMMETRY EngineSymmetry
