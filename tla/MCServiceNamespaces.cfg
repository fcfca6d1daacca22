SPECIFICATION FairSpec
CONSTANTS
  Claims = {c}
  NoRole = NoRole
  NamespacedScope = TRUE
  MaxOps = 2
  MaxLag = 1
  MaxFaults = 1
PROPERTY ObjectsGetNamespaces
PROPERTY NamespacesGoAway
CHECK_DEADLOCK FALSE
