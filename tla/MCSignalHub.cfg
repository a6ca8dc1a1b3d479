\* Three streams of one client, which may overlap.
SPECIFICATION Spec
CONSTANTS
  s1 = s1
  s2 = s2
  s3 = s3
  Stream <- ThreeStreams
  Capacity = 2
  MaxMsgs = 3
INVARIANTS
  TypeOK
  ExactlyOnePlace
  ActiveWhileServing
  OrderedInFirstStream
PROPERTY
  DeliveredToLoneStream
CHECK_DEADLOCK FALSE
