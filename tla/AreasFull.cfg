SPECIFICATION Spec
CONSTANTS
  Word = 32
  Low = 1
  High = 6
  Bases = {1, 2, 3, 4, 5}
  Lens = {0, 1, 2, 3}
  Fits = TRUE
  Padded = TRUE
  Device = {d}
INVARIANT ReturnsEnabled
CHECK_DEADLOCK FALSE
