------------------------------ MODULE YfsFiles ------------------------------
(* The file system of yfs.c as the request handlers see it, with the caches   *)
(* out of the way (YfsCache shows they are transparent): inodes, the blocks of *)
(* a file, directories, path names, and what each handler computes.            *)
(*                                                                             *)
(* Lengths and offsets are counted in units of one directory entry, 32 bytes.  *)
(* A unit is a cell [inum, name]; a unit of file data is a cell whose name is  *)
(* Junk and whose inum is the inode it was written to.  A handler is an        *)
(* operator from the file system and its arguments to [fs, ret].               *)
EXTENDS Integers, Sequences, FiniteSetsExt, SequencesExt

CONSTANTS
  Names,                \* file names: at least three characters, no dots
  NUM_BLOCKS,           \* sectors of the disk, numbered from 0
  NUM_INODES,           \* inodes 1..NUM_INODES; 0 is the file system header
  IPB,                  \* inodes per block: BLOCKSIZE / INODESIZE
  UNITS,                \* units per block: BLOCKSIZE / sizeof(struct dir_entry)
  NUM_DIRECT,
  NUM_INDIRECT,         \* BLOCKSIZE / sizeof(int)
  INT_MAX               \* the largest int, in units

ERROR == -1
ROOTINODE == 1
INODE_FREE == 0
INODE_DIRECTORY == 1
INODE_REGULAR == 2
HEADER == 3             \* the type field of inode 0: the low half of num_blocks

Junk == "junk"          \* a name no path name can spell
NumTable == NUM_INODES \div IPB + 1
Inodes == 0 .. NumTable * IPB - 1
Blocks == 0 .. NUM_BLOCKS - 1
TableBlocks == 1 .. NumTable

(* An fs is a record                                                          *)
(*   inode    each inode: type, nlink, size and the direct block numbers      *)
(*   indirect the block numbers in block 0: no handler ever sets the          *)
(*            indirect field of an inode, so it is 0 for all of them          *)
(*   cell     the cells of each block                                         *)
(*   i_head   the free inodes, first to be taken first                        *)
(*   b_head   the free blocks                                                 *)
(*   bad      the server did something C leaves undefined, or handed out a    *)
(*            block of the inode table (or block 0) as an ordinary block      *)

-----------------------------------------------------------------------------
(* Free lists *)

NextInode(fs) == IF fs.i_head = << >> THEN 0 ELSE Head(fs.i_head)
NextBlock(fs) == IF fs.b_head = << >> THEN 0 ELSE Head(fs.b_head)

(* Fault: the head stays on the list it is taken from.                        *)
RestStays(q) == q

Rest(q) == IF q = << >> THEN << >> ELSE Tail(q)

-----------------------------------------------------------------------------
(* The blocks of a file *)

MaxBlocks == NUM_DIRECT + NUM_INDIRECT

Pointer(fs, i, n) ==
  IF n < NUM_DIRECT THEN fs.inode[i].direct[n] ELSE fs.indirect[n - NUM_DIRECT]

(* get_nth_b(inode, n, false)                                                 *)
NthBlock(fs, i, n) ==
  IF n < MaxBlocks /\ n * UNITS < fs.inode[i].size THEN Pointer(fs, i, n) ELSE 0

(* Fault: an indirect block is taken without leaving the free list.           *)
GrowBlockPeeks(fs, i, n) ==
  LET b == NextBlock(fs)
      put == IF n < NUM_DIRECT THEN [fs EXCEPT !.b_head = Rest(@), !.inode[i].direct[n] = b]
                               ELSE [fs EXCEPT !.indirect[n - NUM_DIRECT] = b]
  IN  IF n >= MaxBlocks THEN [fs |-> fs, b |-> 0]
      ELSE IF n * UNITS < fs.inode[i].size THEN [fs |-> fs, b |-> Pointer(fs, i, n)]
      ELSE [fs |-> put, b |-> b]

(* get_nth_b(inode, n, true): a block beyond the size is always a new one,    *)
(* whatever the old pointer was.                                              *)
GrowBlock(fs, i, n) ==
  LET b == NextBlock(fs)
      taken == [fs EXCEPT !.b_head = Rest(@), !.bad = @ \/ b \in TableBlocks]
  IN  IF n >= MaxBlocks THEN [fs |-> fs, b |-> 0]
      ELSE IF n * UNITS < fs.inode[i].size THEN [fs |-> fs, b |-> Pointer(fs, i, n)]
      ELSE IF n < NUM_DIRECT
           THEN [fs |-> [taken EXCEPT !.inode[i].direct[n] = b], b |-> b]
           ELSE [fs |-> [taken EXCEPT !.indirect[n - NUM_DIRECT] = b], b |-> b]

(* The loops that walk a file stop at the first block number that is 0.       *)
NumBlocks(fs, i) == Min({n \in 0 .. MaxBlocks : NthBlock(fs, i, n) = 0})
BlocksOf(fs, i) == [n \in 1 .. NumBlocks(fs, i) |-> NthBlock(fs, i, n - 1)]

(* Faults: the size is reset before the loop that looks for the blocks; it is *)
(* not reset; the blocks are put at the end of the free list.                 *)
ClearKeepsSize(fs, i) == [fs EXCEPT !.b_head = Reverse(BlocksOf(fs, i)) \o @]
ClearSizeFirst(fs, i) == [fs EXCEPT !.inode[i].size = 0]
ClearToEnd(fs, i) ==
  [fs EXCEPT !.b_head = @ \o BlocksOf(fs, i), !.inode[i].size = 0]

(* zero_file, clear_file and the loop of handle_unlink: every block goes to   *)
(* the front of the free list; the pointers stay.                             *)
Clear(fs, i) ==
  [fs EXCEPT !.b_head = Reverse(BlocksOf(fs, i)) \o @, !.inode[i].size = 0]

-----------------------------------------------------------------------------
(* Directories *)

IsDir(fs, i) == fs.inode[i].type = INODE_DIRECTORY

Places(fs, i) == 0 .. Min({fs.inode[i].size, NumBlocks(fs, i) * UNITS}) - 1
CellAt(fs, i, k) == fs.cell[NthBlock(fs, i, k \div UNITS)][k % UNITS]

(* get_dir_entry looks for the name alone: an entry whose inum is 0 matches   *)
(* like any other.                                                            *)
Matching(fs, i, name) == {k \in Places(fs, i) : CellAt(fs, i, k).name = name}
Vacant(fs, i) == {k \in Places(fs, i) : CellAt(fs, i, k).inum = 0}

Found(fs, i, name) == Matching(fs, i, name) # {}
Inum(fs, i, name) == CellAt(fs, i, Min(Matching(fs, i, name))).inum

(* get_dir_entry(..., true): the place of the entry with that name, else of   *)
(* the first vacant one, else of a new one at the end.                        *)
At(fs, i, k) == [fs |-> fs, b |-> NthBlock(fs, i, k \div UNITS), c |-> k % UNITS]

Append1(fs, i) ==
  LET n == NumBlocks(fs, i)
      c == fs.inode[i].size % UNITS
      r == IF c = 0 THEN GrowBlock(fs, i, n)
                    ELSE [fs |-> fs, b |-> IF n = 0 THEN 0 ELSE NthBlock(fs, i, n - 1)]
  IN  [fs |-> [r.fs EXCEPT !.cell[r.b][c].inum = 0,
                           !.inode[i].size = @ + 1,
                           !.bad = @ \/ r.b = 0],
       b  |-> r.b,
       c  |-> c]

(* Fault: the first vacant place is taken before the name is looked for.      *)
EntryForVacant(fs, i, name) ==
  IF Vacant(fs, i) # {} THEN At(fs, i, Min(Vacant(fs, i)))
  ELSE IF Found(fs, i, name) THEN At(fs, i, Min(Matching(fs, i, name)))
  ELSE Append1(fs, i)

EntryFor(fs, i, name) ==
  IF Found(fs, i, name) THEN At(fs, i, Min(Matching(fs, i, name)))
  ELSE IF Vacant(fs, i) # {} THEN At(fs, i, Min(Vacant(fs, i)))
  ELSE Append1(fs, i)

-----------------------------------------------------------------------------
(* Path names: [abs, parts], with the repeated slashes squeezed.  The path    *)
(* "/" has no part and is looked up as the empty name in the root.            *)

Start(path, cur) == IF path.abs THEN ROOTINODE ELSE cur
Parts(path) == IF path.parts = << >> THEN <<"">> ELSE path.parts

(* get_path_i_num: 0 as soon as the walk is not in a directory.               *)
PathInode(fs, parts, start) ==
  LET Step(i, name) ==
        IF i = ERROR \/ ~IsDir(fs, i) THEN ERROR
        ELSE IF Found(fs, i, name) THEN Inum(fs, i, name)
        ELSE 0
      i == FoldLeft(Step, start, parts)
  IN  IF i = ERROR THEN 0 ELSE i

Resolve(fs, path, cur) == PathInode(fs, Parts(path), Start(path, cur))

(* get_super_dir                                                              *)
SuperDir(fs, path, cur) ==
  LET parts == Parts(path)
      i == PathInode(fs, Front(parts), Start(path, cur))
  IN  IF Len(parts) = 1 THEN Start(path, cur)
      ELSE IF i = 0 THEN ERROR
      ELSE i

FileName(path) == Last(Parts(path))
=============================================================================
