SPECIFICATION Spec
CONSTANTS
  Requests = {r1}
  Engines = {e1, e2}
  NoJob = NoJob
  ScanLimit = 10
  MaxTokens = 0
  MaxAttempts = 2
  MaxCrashes = 1
  MaxFaults = 0
  HeartbeatsReliable = TRUE
  Expiring = {"reservation", "status"}
INVARIANT
  CompletedStreamsRetained
SYMMETRY EngineSymmetry
