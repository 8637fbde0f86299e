SPECIFICATION Spec
CONSTANTS
  Keys = {k1}
  Ids = {i1, i2, i3}
  Limit <- MCLimit
  MaxPrompt = 2
  MaxOutput = 2
  MaxMinute = 1
  Free = Free
INVARIANTS
  CountersWithinLimit
  ExactWithinMinute
  CountersJustified
SYMMETRY Symmetry
CHECK_DEADLOCK FALSE
