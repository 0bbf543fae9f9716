\* Two operators applied to every address at a border of a range.
CONSTANTS
  MaxSteps = 2
  Starts <- MCStarts
  V4Operands <- MCV4Operands
  V6Operands <- MCV6Operands
SPECIFICATION Spec
CHECK_DEADLOCK FALSE
INVARIANTS
  NetworksAsCommented
  OneKind
  OrderIsOfOctets
  SocketsOrdered
  NetworkAndHost
PROPERTIES
  MasksAreBounds
