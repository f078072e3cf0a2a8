SPECIFICATION RpcSpec
CONSTANTS
  p1 = p1
  p2 = p2
  abc = abc
  NULL = NULL
  Procs = {p1, p2}
  Names <- OneName
  Paths <- TwoPaths
  Requests <- FewRequests
  NUM_BLOCKS = 7
  NUM_INODES = 2
  IPB = 3
  UNITS = 2
  NUM_DIRECT = 2
  NUM_INDIRECT = 1
  INT_MAX = 15
  MAX_OPEN_FILES = 1
  Sizes = {6}
  Offsets = {0}
  Promises = {"buffer"}
PROPERTIES ImplementsCalls CallsReturn ShutdownEnds
