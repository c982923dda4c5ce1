SPECIFICATION MCSpec
CONSTANTS
  Tasks = {1, 2}
  Slots = 2
  ProgramSlot = 1
  Values = {770}
  Speakers = {1, 2}
  Files = {0, 1, 3}
  Click = 1
INVARIANTS
  TypeOK
  NoForeignValue
  LoneWriteLands
  BootsSelected
  LoneInOrder
  LoneAlmostWhole
  QuietIsIdle
CHECK_DEADLOCK FALSE
