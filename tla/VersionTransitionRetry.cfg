SPECIFICATION Spec
CONSTANTS
  Versions = {v1, v2}
  Networks = {n1, n2}
  Entries = {e1, e2}
  MaxTransitions = 2
  MaxFaults = 2
  MaxPreviews = 1
  None = None
  Unmarked = Unmarked
  Torn = Torn
INVARIANTS
  FirstSelectionRetryable
CHECK_DEADLOCK FALSE
