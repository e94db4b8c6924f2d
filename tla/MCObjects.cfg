SPECIFICATION Spec
CONSTANTS
  s1 = s1
  s2 = s2
  c1 = c1
  o1 = o1
  i1 = i1
  i2 = i2
  i3 = i3
  NoId = NoId
  None = None
  Session = {s1, s2}
  Class = {c1}
  Object = {o1}
  ClassOf <- MCClassOf
  WithAttrs = {c1}
  MaxOut = 1
  Id = {i1, i2, i3}
CHECK_DEADLOCK FALSE
SYMMETRY Symmetry
INVARIANT NeverMisrouted
INVARIANT ReachesHost
INVARIANT AttrsArrive
INVARIANT NothingLeaks
