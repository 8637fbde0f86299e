SPECIFICATION Spec
CONSTANTS
  Keys = {k1}
  Ids = {i1, i2, i3}
  Window = 2
  Ttl = 3
  MaxLag = 1
  Limit <- MCLimit
  MaxPrompt = 1
  MaxOutput = 2
  MaxTime = 4
INVARIANTS
  TypeOK
  CountersExact
  WithinLimit
  NoImmortalCounter
SYMMETRY Symmetry
CHECK_DEADLOCK FALSE
