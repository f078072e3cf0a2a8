SPECIFICATION Spec
CONSTANTS
  p1 = p1
  p2 = p2
  abc = abc
  xyz = xyz
  NULL = NULL
  Procs = {p1}
  Names <- TwoNames
  Paths <- FlatPaths
  NUM_BLOCKS = 6
  NUM_INODES = 3
  IPB = 4
  UNITS = 2
  NUM_DIRECT = 2
  INT_MAX = 15
  NUM_INDIRECT = 1
  MAX_OPEN_FILES = 2
  Sizes = {2}
  Offsets <- Extreme
  Promises <- AllPromises
SYMMETRY Symmetry
INVARIANTS BlocksExclusive OwnData  
 
