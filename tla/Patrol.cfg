SPECIFICATION Spec
CONSTANTS
  Percents = {0, 8, 33, 85}
  Hold = 2
  Cap = 4
  Near = 1
  EndOfTime = 2
INVARIANTS
  LatchFresh
  LostTurnsBack
  CrossIsBoth
