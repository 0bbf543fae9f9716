\* AddrV6::ToString on every address over three words.
CONSTANTS
  NoNumber = NoNumber
  Nil = ""
  Garbled = "garbled"
  Pieces <- MCPieces
  Value <- MCValue
  Whole <- MCWhole
  Hex <- MCHex
  Hextets <- MCHextets
  Hexadecimal <- MCHexadecimal
  Decimal <- MCDecimal
SPECIFICATION FairSpec
CHECK_DEADLOCK FALSE
INVARIANTS
  TypeOK
  RunIsLeftmostLongest
  RoundTrip
PROPERTIES
  Returns
