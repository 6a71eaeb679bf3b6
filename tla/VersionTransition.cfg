SPECIFICATION FairSpec
CONSTANTS
  Versions = {v1, v2}
  Networks = {n1, n2}
  Entries = {e1, e2}
  MaxTransitions = 3
  MaxFaults = 3
  MaxPreviews = 2
  None = None
  Unmarked = Unmarked
  Torn = Torn
INVARIANTS
  TypeOK
  OldNeverRunsAfterDeletion
  RecoveryAdmits
  FinishedNodeBoots
  ProfilesUsable
  StepsAdmitted
PROPERTIES
  RecoveryEndsUnlessStale
  StartsOnOwnData
  DeletionWrittenAhead
  ImplementsSwitch
CHECK_DEADLOCK FALSE
