SPECIFICATION Spec
CONSTANTS
  MaxExec = 2
  MalformedCalls = TRUE
  Limits = {0, 1}
  DefaultMax = 2
  MaxSuspended = 3
INVARIANT HostChildAgree
INVARIANT OnlyMalformedTears
INVARIANT OnlyPendingOpen
INVARIANT LimitAgrees
INVARIANT ClockAgrees
PROPERTY OwnAnswerResumes
PROPERTY RunSettles
