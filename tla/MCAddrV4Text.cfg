\* AddrV4::FromStr on every text of up to six pieces.
CONSTANTS
  NoNumber = NoNumber
  MaxPieces = 6
  Pieces <- MCPieces
  Value <- MCValue
  Whole <- MCWhole
  Inputs <- MCInputs
SPECIFICATION Spec
CHECK_DEADLOCK FALSE
INVARIANTS
  TypeOK
  AcceptsLenientQuads
  BlamesFirstMistake
