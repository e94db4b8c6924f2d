SPECIFICATION Spec
CONSTANTS
  MaxInt = 63
  Nanos = 3
  Micros = 3
  Seconds = 2
  MaxSmall = 7
  MaxInt32 = 31
  Double <- MCDouble
  Single <- MCSingle
  Inf = 2000
  NaN = 2001
  MaxDepth = 4
  Keys <- MCKeys
  BadText = {"bad"}
  Known = {"o", "C"}
  MaxNesting = 4
  Attrs <- MCAttrs
  Spelling <- MCSpelling
  Echoed <- MCEchoed
  Calls <- MCCalls
  Mounts <- MCMounts
  Asks <- MCAsks
  OSRequests <- MCOSRequests
  GoErrors <- MCGoErrors
  Registered <- MCRegistered
  Stored <- MCStored
INVARIANT CrossingsFaithful
INVARIANT StubAccepted
INVARIANT StubsAgree
INVARIANT ArgumentKept
INVARIANT ResultFits
INVARIANT CallLikeLookup
INVARIANT RoutingAgrees
INVARIANT RenameMoves
CHECK_DEADLOCK FALSE
