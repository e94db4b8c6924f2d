SPECIFICATION Spec
CONSTANTS
  MaxExec = 1
  MalformedCalls = TRUE
  Limits = {0, 1}
  DefaultMax = 2
  MaxSuspended = 3
INVARIANT ProtocolKept

