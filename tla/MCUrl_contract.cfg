\* Every use short of move assignment implements the contract of the headers,
\* but for a NULL parameter array, which is refused (release build: a
\* moved-from object can be read).
CONSTANTS
  NULL = NULL
  ABSENT = ABSENT
  FRAME = FRAME
  dom = dom
  four = four
  six = six
  absDom = absDom
  absFour = absFour
  rel = rel
  binary = binary
  Urls = {u1, u2}
  Handles = {h1, h2}
  CStrings = {c1}
  DebugBuild = FALSE
  Values <- MCValues
  Texts <- MCTexts
  Unicode <- MCUnicode
  Parsed <- MCParsed
  Joined <- MCJoined
  WithQuery <- MCWithQuery
  HostKind <- MCHostKind
  ParamLists <- MCParamLists
  Args <- MCArgsAll
SPECIFICATION UseSpec
CHECK_DEADLOCK FALSE
PROPERTIES
  KeepsContractSaveNullParams
