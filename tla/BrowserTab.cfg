SPECIFICATION Spec
CONSTANTS
  MaxTokens = 2
  MaxPasswords = 1
  MaxCalls = 1
  MaxFaults = 1
  None = None
INVARIANTS
  TabWatched
PROPERTIES
  TabSettles
