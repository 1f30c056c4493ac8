\* Five experts of sizes 1, 1, 2, 3 and 6 in a cache of 5 bytes.
CONSTANTS
  e1 = e1
  e2 = e2
  e3 = e3
  e4 = e4
  e5 = e5
  Expert = {e1, e2, e3, e4, e5}
  Size <- MCSize
  Capacity = 5
  MaxPins = 2
SPECIFICATION Spec
INVARIANTS
  CacheConsistent
PROPERTIES
  PinnedStays
  EvictionIsLeastRecent
