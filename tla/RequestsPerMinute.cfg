SPECIFICATION Spec
CONSTANTS
  Keys = {k1}
  Ids = {i1, i2, i3}
  Limit <- MCLimitOne
  MaxPrompt = 2
  MaxOutput = 2
  MaxMinute = 1
  Free = Free
INVARIANTS
  RequestsPerMinute
SYMMETRY Symmetry
CHECK_DEADLOCK FALSE
