SPECIFICATION Spec
CONSTANTS
  a = a
  b = b
  c = c
  d = d
  Nodes = {a, b}
  NoNode = NoNode
  Empty = Empty
  Missing = Missing
  Graphs <- ChainAndOdd
  MaxFaults = 1
  MaxRequests = 1
  MaxReturns = 0
CHECK_DEADLOCK FALSE
INVARIANT TypeOK LevelBarrier CompletedIsReal PhaseAgrees
PROPERTY TerminalIsFinal
