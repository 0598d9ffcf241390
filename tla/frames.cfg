\* Two video modes, every tile, six changes.
CONSTANTS
  TileSize = 2
  MaxVersion = 6
  None = None
  Sizes <- MCSizes
  Corners <- MCCorners
SPECIFICATION Spec
INVARIANTS
  StreamTypeOK
  NothingMissed
PROPERTY AsGoodAsFullFrames
CHECK_DEADLOCK FALSE
