SPECIFICATION FairSpec
CONSTANTS
  Request = {r1, r2, r3}
  Nobody = Nobody
  MaxUnsolicited = 1
CHECK_DEADLOCK FALSE
INVARIANTS
  AnsweredOnce
  OwnReply
  NoPipelining
PROPERTIES
  RunReturns
  CloseReturns
