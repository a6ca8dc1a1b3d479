SPECIFICATION Spec
CONSTANTS
  Stream = {s1, s2}
  Capacity = 1
  MaxCalls = 1
  Overlap = FALSE
INVARIANTS
  HeldBackOnlyIfDisturbed
PROPERTIES
  ImplementsResolver
  SignalsEndSpeculation
CHECK_DEADLOCK FALSE
