SPECIFICATION Spec
CONSTANTS
  Requests = {r1}
  Engines = {e1, e2}
  NoJob = NoJob
  ScanLimit = 10
  MaxTokens = 1
  MaxAttempts = 2
  MaxCrashes = 0
  MaxFaults = 1
  HeartbeatsReliable = FALSE
  Expiring = {"status"}
INVARIANTS
  TypeOK
  AckedIsFinished
  FinishedIsSettled
  CompletedIsWhole
SYMMETRY EngineSymmetry
PROPERTY
  ImplementsResultLog
