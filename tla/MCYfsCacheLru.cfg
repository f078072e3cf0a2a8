CONSTANTS
  v1 = v1
  v2 = v2
  NumBlocks = 5
  NumTable = 3
  IPB = 1
  Val <- OneVal
  NULL = NULL
  BLOCK_CACHESIZE = 3
  INODE_CACHESIZE = 2
  UnmarkedStores = TRUE
SPECIFICATION Spec
INVARIANTS CacheOK 
