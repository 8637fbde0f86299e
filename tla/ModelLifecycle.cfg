SPECIFICATION FairLifecycleSpec
CONSTANTS
  Models = {m1}
  Procs = {p1}
  Calls = {c1, c2}
  NoProc = NoProc
  Foreign = Foreign
  NoCall = NoCall
  MaxTries = 2
INVARIANTS
  TypeOK
  NoStrayChild
  ShutdownStopsChildren
  UnloadedIsTold
PROPERTIES
  NoLateReady
  LoadsEnd
  UnloadsEnd
CHECK_DEADLOCK FALSE
