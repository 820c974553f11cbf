CONSTANTS
  p = p
  q = q
  Callers = {p, q}
  MaxReqs = 3
  ChanSize = 1
  MaxTries = 3
  MaxBreaks = 1
  MaxMisread = 0
SPECIFICATION Spec
INVARIANTS RepliesPaired
CHECK_DEADLOCK FALSE
