CONSTANTS
  MaxJobs = 2
  MaxLines = 1
  MayDie = TRUE
SPECIFICATION FairSpec
CHECK_DEADLOCK FALSE
INVARIANTS
  TypeOK
  DirectSerialized
  VerdictFinal
  NoLineTwice
PROPERTY PollEnds
