SPECIFICATION Spec
CONSTANTS
  s1 = s1
  s2 = s2
  Path <- MCPath
  Trees <- MCTrees
  Chunk = {"new"}
  Sandbox = {s1, s2}
  Interfaces <- MCInterfaces
  Limit = 2
  MaxSize = 2
SYMMETRY Symmetry
INVARIANT QuotaHolds
PROPERTY LoneCallsAgree
