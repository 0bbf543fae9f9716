\* The same addresses, no operators: are the other networks those that the
\* comments name?
CONSTANTS
  MaxSteps = 0
  Starts <- MCStarts
  V4Operands <- MCV4Operands
  V6Operands <- MCV6Operands
SPECIFICATION Spec
CHECK_DEADLOCK FALSE
INVARIANT
  SpecialNetworksAsCommented
