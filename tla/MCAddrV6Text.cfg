\* AddrV6::FromStr on every text of up to five parts, and of up to ten parts
\* over the three that a long address is made of.
CONSTANTS
  NoNumber = NoNumber
  Nil = ""
  MaxShort = 5
  MaxLong = 10
  Pieces <- MCPieces
  Value <- MCValue
  Whole <- MCWhole
  Hex <- MCHex
  Inputs <- MCInputs
SPECIFICATION FairSpec
CHECK_DEADLOCK FALSE
INVARIANTS
  TypeOK
  AgreesWithGrammar
PROPERTIES
  MovesOn
  Returns
