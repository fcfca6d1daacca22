SPECIFICATION Spec
CONSTANTS
  Resources = {r1, r2}
  NoRole = NoRole
  MaxOps = 3
  MaxLag = 1
  MaxFaults = 1
PROPERTY RoleFollowsExports
PROPERTY AccessIsGranted
CHECK_DEADLOCK FALSE
