SPECIFICATION Spec
CONSTANTS
  Nodes = {a, b, c, d}
  NoNode = NoNode
  Empty = Empty
  Missing = Missing
CHECK_DEADLOCK FALSE
INVARIANT TypeOK CyclesAreRefused LevelsRespectDependencies LevelsAsDefined
