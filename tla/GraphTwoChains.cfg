SPECIFICATION Spec
CONSTANTS
  a = a
  b = b
  c = c
  d = d
  Nodes = {a, b, c, d}
  NoNode = NoNode
  Empty = Empty
  Missing = Missing
  Graphs <- TwoChains
  MaxFaults = 0
  MaxRequests = 0
  MaxReturns = 0
CHECK_DEADLOCK FALSE
SYMMETRY Swap
INVARIANT LevelBarrier
