SPECIFICATION Spec
CONSTANTS
  r1 = r1
  r2 = r2
  c1 = c1
  c2 = c2
  Exported <- OneScopeOnly
  Resources = {r1, r2}
  Contents = {c1}
  ClusterScoped = {}
  Gone = Gone
  NamedAlike = FALSE
  MaxTime = 2
  MaxOps = 2
  MaxLag = 1
  MaxFaults = 1
PROPERTY PhaseIsDecided
CHECK_DEADLOCK FALSE
