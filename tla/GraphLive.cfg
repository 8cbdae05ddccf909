SPECIFICATION FairSpec
CONSTANTS
  a = a
  b = b
  c = c
  d = d
  Nodes = {a, b}
  NoNode = NoNode
  Empty = Empty
  Missing = Missing
  Graphs <- ChainAndOdd
  MaxFaults = 0
  MaxRequests = 1
  MaxReturns = 0
CHECK_DEADLOCK FALSE
PROPERTY GraphEnds DeletionCompletes
