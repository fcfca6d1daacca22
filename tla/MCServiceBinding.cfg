SPECIFICATION FairSpec
CONSTANTS
  Schemas = {s1, s2, bad}
  Invalid = {bad}
  Gone = Gone
  NamedAlike = FALSE
  MaxOps = 2
  MaxLag = 1
  MaxFaults = 1
PROPERTY BindingSettles
PROPERTY ConditionsAreKept
PROPERTY ForeignCrdIsKept
CHECK_DEADLOCK FALSE
