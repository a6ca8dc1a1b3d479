\* Two independent writes to one resource.
SPECIFICATION Spec
CONSTANTS
  w1 = w1
  w2 = w2
  w3 = w3
  w4 = w4
  NoWrite = NoWrite
  Resource <- MCResource
  Write <- MCWrite
  Target <- MCTarget
  Independent <- TwoIndependent
PROPERTY
  IndependentWritesResolve
CHECK_DEADLOCK FALSE
