\* Any mix of three calls, with either driver.
SPECIFICATION Spec
CONSTANTS
  c1 = c1
  c2 = c2
  c3 = c3
  None = None
  Call <- MCCall
  TTL = 5
  TicksPerSecond = 3
  MaxTime = 8
INVARIANTS
  TypeOK
  VersionsDistinct
  VersionCoversDocument
  AgeIsTrue
  VersionOutlivesDocument
SYMMETRY CallSymmetry
CHECK_DEADLOCK FALSE
