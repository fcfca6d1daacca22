SPECIFICATION Spec
CONSTANTS
  Clis = {c1, c2}
  Users = {u1}
  Namespaces = {n1, n2}
  Secrets = {s1, s2, s3, s4}
  None = None
  MaxTries = 2
  MaxOps = 1
INVARIANT BindInv
INVARIANT ResponseIsComplete
PROPERTY SuccessIsBound
PROPERTY SecretKeepsItsRemote
PROPERTY CliEnds
CHECK_DEADLOCK FALSE
