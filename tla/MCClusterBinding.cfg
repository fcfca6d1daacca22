SPECIFICATION FairSpec
CONSTANTS
  Interval = 4
  Kubeconfigs = {k1, k2}
  NoSecret = NoSecret
  NoKey = NoKey
  MaxOps = 2
  MaxFaults = 1
INVARIANT HeartbeatPromise
INVARIANT HeartbeatInv
PROPERTY SecretConverges
PROPERTY HeartbeatingRecovers
CHECK_DEADLOCK FALSE
