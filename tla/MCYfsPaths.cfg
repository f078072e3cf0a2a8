SPECIFICATION Spec
CONSTANTS
  NUL = NUL
  Chars <- OneLetter
  Names <- TwoLong
  Spelling <- TwoSpelled
  DIRNAMELEN = 2
  MAXPATHNAMELEN = 6
  NUM_BLOCKS = 6
  NUM_INODES = 3
  IPB = 4
  UNITS = 4
  NUM_DIRECT = 1
  NUM_INDIRECT = 1
  INT_MAX = 15
INVARIANTS LookUpAgrees ParentAgrees
PROPERTY CreatedIsFound
