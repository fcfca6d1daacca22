SPECIFICATION FairSpec
CONSTANTS
  e1 = e1
  Exports = {e1}
  Schemas = {s1}
  Claims = {c1}
  Longer <- MCDistinct
  ClaimNamed = {}
  Eponyms <- MCNoEponyms
  MaxContexts = 4
  MaxChanges = 2
  MaxFaults = 1
INVARIANT NoStrayControllers
INVARIANT StoreInv
PROPERTY Converges
CHECK_DEADLOCK FALSE
