SPECIFICATION Spec
CONSTANTS
  MaxTokens = 3
  MaxPasswords = 2
  MaxFaults = 2
  Logins = {l1, l2}
  Streams = {w1}
  None = None
PROPERTIES
  ImplementsRegistry
  StreamsEnd
