SPECIFICATION FairSpec
CONSTANTS
  Folders = {f1, f2}
  Versions = {v1, v2}
  Configs = {Default, c1, c2}
  Default = Default
  MaxPending = 2
  MaxApplied = 2
  MaxSwitches = 1
  MaxFaults = 2
  None = None
INVARIANTS
  TypeOK
  NoConcurrentChange
  RecoveryAdmits
  SettledConfigInForce
PROPERTIES
  ChangeEnds
  ConfigWrittenAhead
  ImplementsConfigChange
CHECK_DEADLOCK FALSE
