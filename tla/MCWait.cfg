SPECIFICATION FairSpec
CONSTANTS
  a1 = a1
  a2 = a2
  x1 = x1
  x2 = x2
  AgentId = {a1, a2}
  Pane = {}
  NoPane = NoPane
  Text = {x1, x2}
  NoText = NoText
  NoAgent = NoAgent
  SubId = {w1}
  SubBuf = 1
  Input <- MCInput
  MaxInput = 5
  NoAnswer = NoAnswer
CHECK_DEADLOCK FALSE
INVARIANTS
  NoLostResult
  AnswerWasTrue
PROPERTIES
  ResultReleases
