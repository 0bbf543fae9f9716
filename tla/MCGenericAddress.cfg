\* Hosts of both families with what may follow them, and any short text.
CONSTANTS
  NoNumber = NoNumber
  NULL = NULL
  MaxParts = 5
  MaxJunk = 5
  Atoms <- MCAtoms
  Leading <- MCLeading
  Plain <- MCPlain
  HexOf <- MCHexOf
  HexText <- MCHexText
  DecText <- MCDecText
  Hosts <- MCHosts
  Inputs <- MCInputs
SPECIFICATION Spec
CHECK_DEADLOCK FALSE
INVARIANTS
  TypeOK
  SocketsAsWritten
  BlamesPartAtFault
  RoundTrip
