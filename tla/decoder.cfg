\* Three slots and four colours: hits, misses, replacements; tiles of nine
\* pixels, so that runs of either kind end, fill and overflow a tile.
CONSTANTS
  Colors = {c1, c2, c3, c4}
  Slots = 3
  BlockSize = 9
  MaxCode = 10
  ParamSlots = 1
  FatalFirst = 1
  FatalSecond = 3
  FatalLast = 5
  FatalAgain = 1
SPECIFICATION DecoderSpec
INVARIANTS
  DecoderTypeOK
  WholeTiles
PROPERTIES
  UsesCache
  SelfHeals
