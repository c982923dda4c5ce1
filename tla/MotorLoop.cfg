CONSTANTS
  Tasks = {t1, t2}
  Motors = {A}
  Speeds <- MCSpeeds
  Counts <- MCCounts
  RampStep = 32
  Grace = 1
  GraceReversal = 2
  RecoverTicks = 1
  StallCounts = 20
  StallFloor = 5
  IntegralMax = 30
SPECIFICATION Spec
INVARIANTS
  TypeOK
  ParkedReleased
  StalledGoalCut
  HoldBeforeStall
PROPERTIES
  StallCapped
SYMMETRY MCSymmetry
