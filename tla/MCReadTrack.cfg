\* Two requests for one resource, documents with and without deferred fields.
SPECIFICATION Spec
CONSTANTS
  q1 = q1
  q2 = q2
  id = id
  name = name
  team = team
  score = score
  ext = ext
  null = null
  u1 = u1
  x = x
  y = y
  NoDoc = NoDoc
  Field <- MCField
  Value <- MCValue
  Null <- null
  TypeOf <- MCTypeOf
  FieldConfig <- MCFieldConfig
  DefaultClass = "SPECULATIVE"
  ThresholdNum = 2
  ThresholdDen = 3
  Resource <- OneResource
  Request <- TwoRequests
  Target <- TwoTargets
  UpstreamDocs <- MCDocs
  MaxChanges = 1
INVARIANTS
  TypeOK
  ReconciledToFresh
  DeferredNeverSpeculated
  InvariantNeverRevised
  PatchNeverNull
  FillIsAnnounced
PROPERTIES
  KeepsContract
  AnswerReachesVault
CHECK_DEADLOCK FALSE
