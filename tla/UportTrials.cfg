SPECIFICATION Spec
CONSTANTS
  c1 = c1
  c2 = c2
  Server = {s}
  Client = {c1, c2}
  Null = Null
  MaxObj = 6
  MaxFds = 4
  Trials <- MCTrials
INVARIANTS ObjectsLinked MessagesOwned KernelSafe SleepersWaitForNothing
PROPERTY RequestsAnsweredOnce
CHECK_DEADLOCK FALSE
