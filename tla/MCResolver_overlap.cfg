\* A call while another one is under way.
SPECIFICATION Spec
CONSTANTS
  MaxCalls = 2
  Overlap = TRUE
INVARIANT
  ConfirmAwaitsSignal
CHECK_DEADLOCK FALSE
