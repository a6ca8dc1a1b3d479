CONSTANTS
  Read = {r1}
  Write = {w1}
  Stream = {s1, s2}
  MaxBroken = 1
  None = None
SPECIFICATION Spec
INVARIANTS
  AnsweredOnce
  StreamFollowsList
  IntervalPerStream
  FinishedWriteIsAnswered
CHECK_DEADLOCK FALSE
PROPERTIES
  StreamCatchesUp
