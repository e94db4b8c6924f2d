SPECIFICATION FairSpec
CONSTANTS
  MaxCalls = 4
  MaxDrivers = 3
CHECK_DEADLOCK FALSE
INVARIANT BooksAgree
INVARIANT SettledOnce
INVARIANT OutcomeKept
PROPERTY MethodReturns
PROPERTY GoroutinesEnd
