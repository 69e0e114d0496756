SPECIFICATION VhdSpec
CONSTANTS
  Blocks = 3
  Spb = 2
  CacheSize = 2
  VReqs = 3
  Disks <- MCDisks
  Shapes <- MCShapes
  Reqs = 3
  Faults = 1
INVARIANTS NoPanic Survives ReadsHonest IdleIsClean LeafReads CoalesceSound
CHECK_DEADLOCK FALSE
