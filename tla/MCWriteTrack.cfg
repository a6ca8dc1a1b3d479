\* An independent write among exclusive ones.
SPECIFICATION Spec
CONSTANTS
  w1 = w1
  w2 = w2
  w3 = w3
  w4 = w4
  NoWrite = NoWrite
  Resource <- MCResource
  Write <- MCWrite
  Target <- MCTarget
  Independent <- OneIndependent
INVARIANTS
  TypeOK
  LockedByCommitTrack
  OneUnresolvedPerResource
PROPERTIES
  LocksAreReleased
  KeepsContract
CHECK_DEADLOCK FALSE
