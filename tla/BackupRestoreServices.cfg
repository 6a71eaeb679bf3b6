SPECIFICATION Spec
CONSTANTS
  Files = {f1, f2}
  Configurations = {c1, c2}
  Units = {u1, u2}
  MaxRequests = 2
  MaxFaults = 2
  None = None
  Broken = Broken
INVARIANT RolledBackRuns
CHECK_DEADLOCK FALSE
