CONSTANTS
  a = a
  b = b
  None = None
  Conns = {a, b}
  MaxReqs = 2
SPECIFICATION FairSpec
INVARIANTS HandlersFinish ReplyNotCut
PROPERTIES StopsAfterSignal
CHECK_DEADLOCK FALSE
