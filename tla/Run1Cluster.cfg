SPECIFICATION Spec
CONSTANTS
  Targets = {c1}
  Clusters = {c1}
  NameOf <- OwnName
  SpecMaxRetries = 2
  MaxPods = 2
  MaxFaults = 1
  MaxRequests = 1
INVARIANT TypeOK SuccessIsReal PhaseAgrees DeletionIsRecorded
PROPERTY BoardSpec CancelIsFinal ResultIsFinal
