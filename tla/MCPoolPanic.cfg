SPECIFICATION Spec
CONSTANTS
  c1 = c1
  w1 = w1
  w2 = w2
  w3 = w3
  NoClient = NoClient
  NoWorker = NoWorker
  Client = {c1}
  Worker = {w1, w2, w3}
  Idle = 1
  MaxRunsOption = 2
  DefaultMaxRuns = 3
  BuildsFail = FALSE
CHECK_DEADLOCK FALSE
PROPERTY SessionCloseSurvives
