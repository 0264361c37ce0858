SPECIFICATION FairSpec
CONSTANTS
  a1 = a1
  a2 = a2
  p1 = p1
  x1 = x1
  AgentId = {a1, a2}
  Pane = {p1}
  NoPane = NoPane
  Text = {x1}
  NoText = NoText
  NoAgent = NoAgent
  SubId = {s1}
  SubBuf = 1
  Caller = {c1, c2}
  Dir = {d1}
  NoDir = NoDir
  ReqCap = 2
  Input <- MCInput
  MaxLog = 2
  NoSnapshot = NoSnapshot
CHECK_DEADLOCK FALSE
INVARIANTS
  TypeOK
  NoPanic
  GapFree
  FeedFaithful
  SilentIsClosed
  OneReply
PROPERTIES
  Linearizable
  CallReturns
  CloseReturns
