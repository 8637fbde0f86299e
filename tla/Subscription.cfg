SPECIFICATION BoundedSpec
CONSTANTS
  Requests = {r1}
  Attempts = {1, 2}
  Chunks = 1
  Clients = {c1}
  Caller = c1
  MaxEvents = 4
  MaxLate = 1
  MaxCalls = 2
  MaxInFlight = 1
INVARIANTS
  TypeOK
  InStreamOrder
  NothingSkipped
  WholeResponse
PROPERTY
  CallsEnd
CHECK_DEADLOCK FALSE
