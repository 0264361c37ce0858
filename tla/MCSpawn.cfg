SPECIFICATION Spec
CONSTANTS
  Proc = {p1, p2, p3}
  Name <- MCName
  NoWindow = NoWindow
  MaxUser = 1
SYMMETRY Symmetric
CHECK_DEADLOCK FALSE
INVARIANTS
  OneWindow
  RightWindow
