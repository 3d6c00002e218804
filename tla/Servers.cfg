SPECIFICATION ServersSpec
CONSTANTS
  R = 3
  C = 2
  VBuf = 7
  LineMax = 2
  Ring = 3
  Proc = {p1, p2}
  First = p1
  Lens = {1, 9}
  Key = {"char", "tab", "enter", "esc", "lctrl", "rctrl", "pause"}
  Stale = {1}
  MaxTyped = 3
  MaxCells = 9
  Blank = Blank
  OldChar = OldChar
  NoProc = NoProc
  Path <- MCPath
  Root = "/"
  Up <- MCUp
  Handle = {h1}
  BlockSize = 2
  DataBits = 3
  Formatted = 2
  MaxFiles = 4
  MaxPos = 4
  Pattern <- MCPattern
  Zero = 0
  None = None
  Junk = 9
INVARIANTS
  LinesExact
  ModifiersHeld
  ScreenTail
  Directories
  BlocksOwned
  ReadExact
PROPERTIES
  ReadsServed
  FilesKept
