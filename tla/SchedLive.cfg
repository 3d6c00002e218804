SPECIFICATION LiveSpec
CONSTANTS
  Task = {init, a, b}
  Idle = Idle
  InitTask = init
  Null = Null
  Driver = {a}
  Server = {init, a}
  Mortal = {init, a, b}
  QuietConnect = TRUE
  QuietClose = TRUE
  PoliteClose = TRUE
  MaxWork = 4
PROPERTIES
  WaitOnReturns
  WaitOnPortReturns
