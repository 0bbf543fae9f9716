\* A C program that keeps to url.h, over every sequence of calls.
CONSTANTS
  NULL = NULL
  FRAME = FRAME
  dom = dom
  four = four
  six = six
  absDom = absDom
  absFour = absFour
  rel = rel
  binary = binary
  Pointers = {p1, p2}
  Handles = {h1, h2}
  CStrings = {c1, c2}
  Values <- MCValues
  Texts <- MCTexts
  Unicode <- MCUnicode
  Parsed <- MCParsed
  Joined <- MCJoined
  WithQuery <- MCWithQuery
  HostKind <- MCHostKind
  ParamLists <- MCParamLists
SPECIFICATION FairSpec
CHECK_DEADLOCK FALSE
INVARIANTS
  TypeOK
  NeverFaults
  EachBoxHeld
  ViewsLive
PROPERTIES
  OnlyFreeDrops
  CleansUp
