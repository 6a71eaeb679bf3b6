SPECIFICATION FairSpec
CONSTANTS
  Versions = {v1, v2}
  Networks = {n1, n2}
  Entries = {e1, e2}
  MaxTransitions = 3
  MaxFaults = 1
  MaxPreviews = 1
  None = None
  Unmarked = Unmarked
  Torn = Torn
PROPERTIES
  RecoveryEnds
CHECK_DEADLOCK FALSE
