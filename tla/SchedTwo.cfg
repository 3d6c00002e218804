SPECIFICATION Spec
CONSTANTS
  Task = {init, a}
  Idle = Idle
  InitTask = init
  Null = Null
  Driver = {init, a}
  Server = {init, a}
  Mortal = {init, a}
  QuietConnect = TRUE
  QuietClose = TRUE
  PoliteClose = TRUE
INVARIANTS
  TypeOK
  RunqSound
  NoLostWakeup
  PortSleepersListed
  DeadUnreferenced
  KernelChecks
PROPERTY IdleOnlyWhenNothingRunnable
