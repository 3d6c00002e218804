SPECIFICATION Spec
CONSTANTS
  AS = {a1, a2}
  InitAs = a1
  VA = {text, data}
  Text = text
  Data = data
  Frame = {zf, f1, f2}
  ZeroFrame = zf
  Value = {v0, v1}
  Zero = v0
  Null = Null
  Loader = {}
  Sends = {}
INVARIANT NoPanic
CHECK_DEADLOCK FALSE
