CONSTANTS
  TileSize = 1
  MaxVersion = 2
  None = None
  Clients = {c1}
  Setters = {t1}
  States = {"connected"}
  StartState = "idle"
  Sizes <- MCSizes
  Corners <- WithOrigin
  BufferSize = 1
  MaxSets = 1
  MaxForces = 0
  MaxGone = 0
SPECIFICATION Spec
INVARIANTS MirrorSettled
CHECK_DEADLOCK FALSE
