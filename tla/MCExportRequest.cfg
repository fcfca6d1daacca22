SPECIFICATION Spec
CONSTANTS
  r1 = r1
  r2 = r2
  c1 = c1
  c2 = c2
  Exported <- OneOrTwoScopes
  Resources = {r1, r2}
  Contents = {c1, c2}
  ClusterScoped = {c2}
  Gone = Gone
  NamedAlike = TRUE
  MaxTime = 2
  MaxOps = 2
  MaxLag = 1
  MaxFaults = 1
INVARIANT ExportsAreValid
INVARIANT RequestInv
PROPERTY PhaseIsFinal
PROPERTY RequestIsServed
PROPERTY ExportFollowsSchemas
CHECK_DEADLOCK FALSE
