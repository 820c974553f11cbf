CONSTANTS
  n1 = n1
  n2 = n2
  cl1 = cl1
  cl2 = cl2
  k1 = k1
  k2 = k2
  None = None
  Nodes = {n1, n2}
  Keys = {k1, k2}
  NumDB = 2
  Clients = {cl1, cl2}
  Order <- TwoOrder
  Hash <- TwoHash
  NoName = NoName
  Home <- TwoHome
  Menu <- RouteMenu
  PoolSize = 1
  MaxQueue = 1
  MaxCmds = 2
  MaxTrouble = 1
  MaxRuns = 0
SPECIFICATION FairSpec
INVARIANTS StoredAtOwner
PROPERTIES ClientsAnswered 
