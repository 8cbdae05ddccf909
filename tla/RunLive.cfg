SPECIFICATION FairSpec
CONSTANTS
  Targets = {c1}
  Clusters = {c1}
  NameOf <- OwnName
  SpecMaxRetries = 2
  MaxPods = 2
  MaxFaults = 0
  MaxRequests = 1
PROPERTY StatusCatchesUp
