SPECIFICATION FairJobSpec
CONSTANTS
  Requests = {r1, r2}
  Workers = {e1, e2}
  NoJob = NoJob
  Hung = {e1}
  ScanLimit = 1
  MaxFailures = 2
INVARIANT
  TypeOK
PROPERTY
  EveryJobAcked
