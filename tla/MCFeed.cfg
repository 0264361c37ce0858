SPECIFICATION FairSpec
CONSTANTS
  a1 = a1
  a2 = a2
  p1 = p1
  AgentId = {a1, a2}
  Pane = {p1}
  NoPane = NoPane
  Text = {x1}
  NoText = NoText
  NoAgent = NoAgent
  SubId = {1, 2, 3, 4}
  SubBuf = 1
  Input <- MCInput
  WireCap = 1
  FrameCap = 2
  MaxInput = 4
  MaxCrash = 1
CHECK_DEADLOCK FALSE
INVARIANTS
  ViewFollows
PROPERTIES
  Recovers
  Forgotten
