\* An old stream ends while a new one is open.
SPECIFICATION Spec
CONSTANTS
  s1 = s1
  s2 = s2
  s3 = s3
  Stream <- TwoStreams
  Capacity = 2
  MaxMsgs = 3
PROPERTY
  DeliveredWhileConnected
CHECK_DEADLOCK FALSE
