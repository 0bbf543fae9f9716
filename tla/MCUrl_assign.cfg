\* With move assignment the contract is broken.
CONSTANTS
  NULL = NULL
  ABSENT = ABSENT
  FRAME = FRAME
  dom = dom
  four = four
  six = six
  absDom = absDom
  absFour = absFour
  rel = rel
  binary = binary
  Urls = {u1, u2}
  Handles = {h1, h2}
  CStrings = {c1}
  DebugBuild = FALSE
  Values <- MCValues
  Texts <- MCTexts
  Unicode <- MCUnicode
  Parsed <- MCParsed
  Joined <- MCJoined
  WithQuery <- MCWithQuery
  HostKind <- MCHostKind
  ParamLists <- MCParamListsFew
  Args <- MCArgsFew
SPECIFICATION Spec
CHECK_DEADLOCK FALSE
PROPERTIES
  KeepsContractSaveNullParams
