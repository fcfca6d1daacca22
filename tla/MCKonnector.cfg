SPECIFICATION FairSpec
CONSTANTS
  b1 = b1
  b2 = b2
  s1 = s1
  s2 = s2
  Bindings = {b1, b2}
  Secrets = {s1, s2}
  SecretOf <- MCOwn
  Kubeconfigs = {k1, k2, kbad, kfail}
  NoKubeconfig = NoKubeconfig
  Invalid = {kbad}
  Failing = {kfail}
  MaxContexts = 5
  MaxChanges = 2
  MaxCrashes = 1
  MaxEvents = 2
INVARIANT OneControllerPerKubeconfig
INVARIANT StoppedWhenEmpty
INVARIANT RegistryInv
PROPERTY Converges
CHECK_DEADLOCK FALSE
