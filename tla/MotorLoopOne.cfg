CONSTANTS
  Tasks = {t1}
  Motors = {A}
  Speeds <- MCSpeeds
  Counts <- MCCounts
  RampStep = 32
  Grace = 2
  GraceReversal = 3
  RecoverTicks = 2
  StallCounts = 20
  StallFloor = 5
  IntegralMax = 20
SPECIFICATION FairSpec
PROPERTIES
  RampBounded
  GoalReached
