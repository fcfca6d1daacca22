SPECIFICATION Spec
CONSTANTS
  Namespaced = FALSE
  Statuses = {s1}
  NoStatus = NoStatus
  FieldNames = {"a"}
  Metadata = {}
  Values = {0, 1, NoField}
  NoField = NoField
  Content <- MCContent
  MaxEdits = 2
  MaxProviderOps = 1
  MaxWrites = 3
  MaxFaults = 0
PROPERTY StatusDeletesOrphansOnly
CHECK_DEADLOCK FALSE
