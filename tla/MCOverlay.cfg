SPECIFICATION Spec
CONSTANTS
  r1 = r1
  r2 = r2
  Path <- MCPath
  Bases <- MCBases
  Chunk = {"new"}
  MaxChunks = 2
  Remover = {r1, r2}
  NotExistOnly = TRUE
  WildRenames = FALSE
CHECK_DEADLOCK FALSE
SYMMETRY Symmetry
INVARIANT ListingAgrees
INVARIANT ChangesComplete
INVARIANT AnswersAgree
PROPERTY ImplementsTree
