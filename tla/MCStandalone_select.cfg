CONSTANTS
  cl1 = cl1
  cl2 = cl2
  k1 = k1
  k2 = k2
  k3 = k3
  None = None
  Clients = {cl1, cl2}
  Keys = {k1}
  NumDB = 2
  Menu <- TwoDBMenu
  MaxCmds = 3
  MaxCrashes = 1
  IOErrors = TRUE
SPECIFICATION FairSpec
INVARIANTS SelectFraming
PROPERTIES AnsweredUnlessStopped 
