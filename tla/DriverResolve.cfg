SPECIFICATION Spec
CONSTANTS
  MaxCalls = 3
  MaxDrivers = 3
CHECK_DEADLOCK FALSE
PROPERTY ResolvesLikeRun
