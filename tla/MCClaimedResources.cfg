SPECIFICATION FairSpec
CONSTANTS
  Data = {d1, d2}
  Unclaimed = {}
  Gone = Gone
  MaxOps = 4
  MaxLag = 2
  MaxFaults = 1
INVARIANT OwnersAgree
INVARIANT OwnersInv
PROPERTY OwnersDecide
PROPERTY ClaimedConverges
CHECK_DEADLOCK FALSE
