SPECIFICATION Spec
CONSTANTS
  x1 = x1
  AgentId = {a1}
  Pane = {p1}
  NoPane = NoPane
  Text = {x1}
  NoText = NoText
  NoAgent = NoAgent
  SubId = {}
  SubBuf = 1
  UserPane = {}
  Harness <- OnlyOutside
  MaxConn = 2
  MaxEmit = 2
CHECK_DEADLOCK FALSE
INVARIANTS
  AllHaveReaper
