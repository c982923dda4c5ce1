SPECIFICATION Spec
CONSTANTS
  Hosts = {1, 2, 3}
  Plan <- MCPlan
  Sizes = {0, 6}
  Ports = 2
  Wrap = 4
INVARIANTS
  StopHonest
  BlocksSeqAligned

  
CHECK_DEADLOCK FALSE
