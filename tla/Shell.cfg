SPECIFICATION Spec
CONSTANTS
  Shells = {1, 2}
  Ports = {1}
  Candidates = 2
INVARIANTS
  NoOrphans
  AllReaped
PROPERTIES
  ExitCompletes
  DeathReported
CHECK_DEADLOCK FALSE
