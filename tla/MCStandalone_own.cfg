CONSTANTS
  cl1 = cl1
  cl2 = cl2
  k1 = k1
  k2 = k2
  k3 = k3
  None = None
  Clients = {cl1, cl2}
  Keys = {k1, k2, k3}
  NumDB = 1
  Menu <- OwnMenu
  MaxCmds = 3
  MaxCrashes = 2
  IOErrors = FALSE
SPECIFICATION Spec
INVARIANTS OwnedMatches
PROPERTIES ImplementsDurableStore
