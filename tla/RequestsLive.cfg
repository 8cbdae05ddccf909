SPECIFICATION FairSpec
CONSTANTS
  o1 = o1
  o2 = o2
  c1 = c1
  Operators = {o1, o2}
  Self = o1
  Clusters = {c1}
  MaxChanges = 0
  MaxFaults = 1
PROPERTY RequestEnds
CHECK_DEADLOCK FALSE
