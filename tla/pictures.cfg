CONSTANTS
  TileSize = 1
  MaxVersion = 2
  None = None
  Clients = {c1, c2}
  Setters = {t1}
  States = {"connected"}
  StartState = "connected"
  Sizes <- MCSizes
  Corners <- OneTile
  BufferSize = 1
  MaxSets = 0
  MaxForces = 1
  MaxGone = 0
SPECIFICATION Spec
INVARIANTS ClientsTypeOK MirrorSettled
PROPERTIES NeverBackwards
CHECK_DEADLOCK FALSE
SYMMETRY AnyClient
