\* Every order of seven colours in a cache of six slots.
CONSTANTS
  Colors = {c1, c2, c3, c4, c5, c6, c7}
  Slots = 6
SPECIFICATION CacheSpec
INVARIANTS
  CacheTypeOK
  Ranks
  Addressable
PROPERTY IsRecentColors
