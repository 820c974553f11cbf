CONSTANTS
  p = p
  q = q
  Callers = {p}
  MaxReqs = 5
  ChanSize = 1
  MaxTries = 3
  MaxBreaks = 1
  MaxMisread = 1
SPECIFICATION FairSpec
INVARIANTS OwnReply RunOnce FailedNotRun DoneOnce 
PROPERTIES SendReturns
CHECK_DEADLOCK FALSE
