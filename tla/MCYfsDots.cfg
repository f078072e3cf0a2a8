SPECIFICATION Spec
CONSTANTS
  p1 = p1
  p2 = p2
  abc = abc
  xyz = xyz
  NULL = NULL
  Procs = {p1}
  Names <- TwoNames
  Paths <- CwdPaths
  NUM_BLOCKS = 7
  NUM_INODES = 3
  IPB = 4
  UNITS = 2
  NUM_DIRECT = 2
  INT_MAX = 15
  NUM_INDIRECT = 1
  MAX_OPEN_FILES = 1
  Sizes = {2}
  Offsets = {}
  Promises <- AllPromises
CHECK_DEADLOCK FALSE
INVARIANTS DotsResolve
