SPECIFICATION Spec
CONSTANTS
  a1 = a1
  a2 = a2
  p1 = p1
  AgentId = {a1, a2}
  Pane = {p1}
  NoPane = NoPane
  Text = {x1}
  NoText = NoText
  NoAgent = NoAgent
  SubId = {1}
  SubBuf = 1
  Input <- MCInput
  WireCap = 1
  FrameCap = 1
  MaxInput = 2
  MaxCrash = 0
CHECK_DEADLOCK FALSE
INVARIANTS
  PureView
