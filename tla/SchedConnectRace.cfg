SPECIFICATION Spec
CONSTANTS
  Task = {init, a, b}
  Idle = Idle
  InitTask = init
  Null = Null
  Driver = {a}
  Server = {b}
  Mortal = {}
  QuietConnect = FALSE
  QuietClose = TRUE
  PoliteClose = TRUE
PROPERTY IdleOnlyWhenNothingRunnable
CHECK_DEADLOCK FALSE
