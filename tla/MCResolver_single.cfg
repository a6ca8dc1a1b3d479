\* Calls that do not overlap.
SPECIFICATION Spec
CONSTANTS
  MaxCalls = 3
  Overlap = FALSE
INVARIANTS
  TypeOK
  NothingLeftBehind
  OnlyOwnSignals
  ConfirmedIsComplete
PROPERTIES
  SettledIsFinal
  SpeculationEnds
CHECK_DEADLOCK FALSE
