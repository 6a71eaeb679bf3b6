SPECIFICATION FairSpec
CONSTANTS
  Files = {f1, f2}
  Configurations = {c1, c2}
  Units = {u1, u2}
  MaxRequests = 2
  MaxFaults = 3
  None = None
  Broken = Broken
INVARIANTS
  Undoable
PROPERTIES
  StartsOnWholeUnlessUndoFailed
  ImplementsRestore
  RestoreEnds
  ServicesReturn
CHECK_DEADLOCK FALSE
