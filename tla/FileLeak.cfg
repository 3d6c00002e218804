SPECIFICATION FileServerSpec
CONSTANTS
  c1 = c1
  c2 = c2
  c3 = c3
  Name = {"tarfs", "sata", "bin", "a", "b", "c", "f", "no_such_name"}
  Client = {c1, c2, c3}
  Groups <- MCGroups
  MaxHandles = 2
  Opens <- MCOpens
  Dirs <- MCDirs
  Steps <- MCSteps
  Does <- MCDoes
  BlockSize = 2
  Archives <- MCArchives
  MaxDepth = 2
  Counts = {2}
  Big = 4
  Offsets = {1}
  MaxPos = 3
  Null = Null
  Machines <- MCMachines
  NCS = 2
  Lba = {a, b}
  Val = {u, v}
  None = None
PROPERTY HandlesReleased
CHECK_DEADLOCK FALSE
