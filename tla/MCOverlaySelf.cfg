SPECIFICATION Spec
CONSTANTS
  r1 = r1
  Path <- MCPath
  Bases <- MCBases
  Chunk = {"new"}
  MaxChunks = 2
  Remover = {r1}
  NotExistOnly = FALSE
  WildRenames = TRUE
CHECK_DEADLOCK FALSE
PROPERTY RenameArrives
