SPECIFICATION FairSpec
CONSTANTS
  Namespaced = TRUE
  Statuses = {s1}
  NoStatus = NoStatus
  FieldNames = {"a"}
  Metadata = {}
  Values = {0, 1, NoField}
  NoField = NoField
  Content <- MCContent
  MaxEdits = 3
  MaxProviderOps = 1
  MaxWrites = 3
  MaxFaults = 1
INVARIANT UpstreamIsGuarded
INVARIANT SyncInv
PROPERTY CreatedForLiveConsumer
PROPERTY NoLostEdit
PROPERTY NoLostProviderWrite
PROPERTY SpecNeverRegresses
PROPERTY MirrorsObject
PROPERTY Converges
CHECK_DEADLOCK FALSE
