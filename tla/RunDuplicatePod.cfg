SPECIFICATION Spec
CONSTANTS
  Targets = {c1}
  Clusters = {c1}
  NameOf <- OwnName
  SpecMaxRetries = 1
  MaxPods = 2
  MaxFaults = 0
  MaxRequests = 0
INVARIANT OnePodPerCluster
