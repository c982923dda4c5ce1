CONSTANTS
  Bytes <- LineOption
  BufSize = 5
  LinePayload = 2
  GraySlots = 1
  Noise = TRUE
SPECIFICATION Spec
INVARIANT ModeAgrees
PROPERTY FollowsGrammar
