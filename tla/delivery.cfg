CONSTANTS
  TileSize = 1
  MaxVersion = 1
  None = None
  Clients = {c1, c2}
  Setters = {t1}
  States = {"connecting", "connected"}
  StartState = "connected"
  Sizes <- OneMode
  Corners <- OneTile
  BufferSize = 1
  MaxSets = 2
  MaxForces = 1
  MaxGone = 1
SPECIFICATION FairSpec
CONSTRAINT Few
INVARIANTS KnowsState
PROPERTIES Delivered
CHECK_DEADLOCK FALSE
