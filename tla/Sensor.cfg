CONSTANTS
  Bytes <- Sensors
  BufSize = 5
  LinePayload = 2
  GraySlots = 1
  Noise = FALSE
SPECIFICATION Spec
INVARIANTS
  TypeOK
  SealReadsFrame
PROPERTY FollowsGrammar
