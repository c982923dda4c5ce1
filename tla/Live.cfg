CONSTANTS
  Programs <- OneP
  MaxId = 5
  MaxPolls = 2
  DebugTab = TRUE
  SlowStart = TRUE
SPECIFICATION FairSpec
INVARIANTS
  TypeOK
  WaiterOwned
  AnswerMatches
  HaltTakesEffect
PROPERTIES
  ReadEnds
  StopEnds
