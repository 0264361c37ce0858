SPECIFICATION FairSpec
CONSTANTS
  x1 = x1
  AgentId = {a1}
  Pane = {p1, u1}
  NoPane = NoPane
  Text = {x1}
  NoText = NoText
  NoAgent = NoAgent
  SubId = {}
  SubBuf = 1
  UserPane = {u1}
  Harness <- AllHarnesses
  MaxConn = 3
  MaxEmit = 3
CHECK_DEADLOCK FALSE
INVARIANTS
  EntryHasReaper
  ShowsLastStatus
PROPERTIES
  OnlyOwnersRemove
  DeadLeave
