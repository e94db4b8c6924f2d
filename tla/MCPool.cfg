SPECIFICATION Spec
CONSTANTS
  c1 = c1
  c2 = c2
  w1 = w1
  w2 = w2
  w3 = w3
  w4 = w4
  w5 = w5
  NoClient = NoClient
  NoWorker = NoWorker
  Client = {c1, c2}
  Worker = {w1, w2, w3, w4, w5}
  Idle = 1
  MaxRunsOption = 2
  DefaultMaxRuns = 3
  BuildsFail = TRUE
CHECK_DEADLOCK FALSE
SYMMETRY Symmetry
INVARIANT Exclusive
INVARIANT NoOrphan
INVARIANT HeldExist
INVARIANT IdleClean
INVARIANT OwnState
INVARIANT IdleBound
INVARIANT NoLostKick
PROPERTY ImplementsLease
