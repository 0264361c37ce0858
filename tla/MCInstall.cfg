SPECIFICATION InstallSpec
CONSTANTS
  Harness = {"a", "b"}
  Dst = {"rc", "hook", "own"}
  Version = {1, 2}
  Manifest <- MCManifest
  NoFile = NoFile
  NoReceipt = NoReceipt
  Torn = Torn
  MaxRuns = 3
  MaxEdits = 1
CHECK_DEADLOCK FALSE
INVARIANTS
  Accounted
PROPERTIES
  UserLinesStay
  Reconciles
