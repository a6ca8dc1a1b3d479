\* A write that loses the race for the lock.
SPECIFICATION Spec
CONSTANTS
  w1 = w1
  w2 = w2
  w3 = w3
  w4 = w4
  NoWrite = NoWrite
  Resource <- MCResource
  Write <- MCWrite
  Target <- MCTarget
  Independent <- NoneIndependent
INVARIANT
  ConflictNotExecuted
CHECK_DEADLOCK FALSE
