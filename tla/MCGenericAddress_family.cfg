\* The texts of the AddrV6 tests: does IPAddress::FromStr take them for IPv6?
CONSTANTS
  NoNumber = NoNumber
  NULL = NULL
  MaxParts = 5
  MaxJunk = 5
  Atoms <- MCAtoms
  Leading <- MCLeading
  Plain <- MCPlain
  HexOf <- MCHexOf
  HexText <- MCHexText
  DecText <- MCDecText
  Hosts <- MCHosts
  Inputs <- TestedTexts
SPECIFICATION Spec
CHECK_DEADLOCK FALSE
INVARIANT
  FamilyAsWritten
