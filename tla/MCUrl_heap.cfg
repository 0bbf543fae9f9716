\* Objects, handles and views under every interleaving of the member
\* functions, move assignment included.
CONSTANTS
  NULL = NULL
  ABSENT = ABSENT
  FRAME = FRAME
  dom = dom
  four = four
  six = six
  absDom = absDom
  absFour = absFour
  rel = rel
  binary = binary
  Urls = {u1, u2, u3}
  Handles = {h1, h2, h3}
  CStrings = {c1}
  DebugBuild = TRUE
  Values <- MCValues
  Texts <- MCTexts
  Unicode <- MCUnicode
  Parsed <- MCParsed
  Joined <- MCJoined
  WithQuery <- MCWithQuery
  HostKind <- MCHostKind
  ParamLists <- MCParamListsFew
  Args <- MCArgsCut
SYMMETRY Symmetric
SPECIFICATION Spec
CHECK_DEADLOCK FALSE
INVARIANTS
  TypeOK
  ExclusiveOwner
  HandlesLive
  NothingLost
  BorrowedViewsLive
  FaultsBlamed
PROPERTIES
  OnlyOwnersFree
