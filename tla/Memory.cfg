SPECIFICATION MemorySpec
CONSTANTS
  LowTop = 1
  PerPage <- MCPerPage
  None = None
  Null = Null
  Width = 4
  Smaps <- MCSmaps
  Kernel <- MCKernel
  Extra = 2
  DevicePage = {9, 12}
  MaxRef = 2
  MaxOther = 1
  MaxItems = 2
  P = 3
  Pages = 3
  MaxUsed = 9
  Sizes = {1, 5, 8, 9}
  Word = 32
  Low = 1
  High = 5
  Bases = {1, 2, 3, 4}
  Lens = {0, 1, 3}
  Fits = TRUE
  Padded = TRUE
  Device = {d}
INVARIANTS PagesAccounted TreeExact ObjectsOwned AreasSound OperationsExact
           HeapTiled FreeListsExact
CHECK_DEADLOCK FALSE
