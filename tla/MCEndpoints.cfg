SPECIFICATION Spec
CONSTANTS
  f = f
  g = g
  a = a
  b = b
  c = c
  q = q
  Param = Param
  Slash = Slash
  Colon = Colon
  Question = Question
  Unset = Unset
  Field = {f, g}
  Request <- MCRequest
  Configs <- MCConfigs
  MaxTracks = 1
  MaxEntries = 2
  AgeStep = 3000
  MaxAge = 6000
INVARIANTS
  EntryIsOwn
  AnsweredAsWritten
CHECK_DEADLOCK FALSE
