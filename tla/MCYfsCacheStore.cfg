CONSTANTS
  v1 = v1
  v2 = v2
  NumBlocks = 3
  NumTable = 2
  IPB = 2
  Val <- TwoVals
  NULL = NULL
  BLOCK_CACHESIZE = 2
  INODE_CACHESIZE = 1
  UnmarkedStores = FALSE
SPECIFICATION Spec
SYMMETRY Symmetry
PROPERTY ImplementsStore
 
