SPECIFICATION FairSpec
CONSTANTS
  Requests = {r1}
  Engines = {e1, e2}
  NoJob = NoJob
  ScanLimit = 10
  MaxTokens = 0
  MaxAttempts = 2
  MaxCrashes = 0
  MaxFaults = 1
  HeartbeatsReliable = FALSE
  Expiring = {}
PROPERTIES
  EventuallyAcked
  ImplementsJobQueue
