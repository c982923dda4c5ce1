SPECIFICATION Spec
CONSTANTS
  Tasks = {1}
  Files = {1, 2, 3}
INVARIANT LoneWhole
