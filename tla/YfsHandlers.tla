---------------------------- MODULE YfsHandlers ----------------------------
(* The request handlers of yfs.c that work on the file system: each is an     *)
(* operator from the file system and the arguments of the request to the new  *)
(* file system and the reply, [fs, ret].  The server serves one request at a  *)
(* time, from Receive to Reply, so a handler is a single step.                *)
EXTENDS YfsFiles

Fail(fs) == [fs |-> fs, ret |-> ERROR]

(* get_i(ERROR): no block holds that inode.                                   *)
Undefined(fs) == Fail([fs EXCEPT !.bad = TRUE])

-----------------------------------------------------------------------------
(* The disk of mkyfs, and the free lists the server builds when it starts.    *)

Blank == [type |-> INODE_FREE, nlink |-> 0, size |-> 0,
          direct |-> [n \in 0 .. NUM_DIRECT - 1 |-> 0]]
EmptyCell == [inum |-> 0, name |-> ""]

MkYfs ==
  [inode |-> [i \in Inodes |->
                CASE i = 0 -> [Blank EXCEPT !.type = HEADER]
                  [] i = ROOTINODE -> [Blank EXCEPT !.type = INODE_DIRECTORY, !.nlink = 2,
                                                    !.size = 2, !.direct[0] = NumTable + 1]
                  [] OTHER -> Blank],
   indirect |-> [n \in 0 .. NUM_INDIRECT - 1 |-> 0],
   cell |-> [b \in Blocks |-> [c \in 0 .. UNITS - 1 |->
               IF b # NumTable + 1 THEN EmptyCell
               ELSE CASE c = 0 -> [inum |-> ROOTINODE, name |-> "."]
                      [] c = 1 -> [inum |-> ROOTINODE, name |-> ".."]
                      [] OTHER -> EmptyCell]],
   i_head |-> << >>,
   b_head |-> << >>,
   bad |-> FALSE]

(* make_free_lists goes through whole blocks of inodes while the next inode   *)
(* is below num_inodes, takes the pointers of an inode up to the first 0      *)
(* whatever its size is, and marks block 0 as used but not the inode table.   *)
Scanned == 1 .. IPB * ((NUM_INODES + IPB - 1) \div IPB) - 1

(* Fault: the last pointer of an inode is not looked at.                      *)
PointersButLast(fs, i) ==
  LET n == Min({k \in 0 .. MaxBlocks : k = MaxBlocks \/ Pointer(fs, i, k) = 0})
  IN  {Pointer(fs, i, k) : k \in 0 .. n - 2}

Pointers(fs, i) ==
  LET n == Min({k \in 0 .. MaxBlocks : k = MaxBlocks \/ Pointer(fs, i, k) = 0})
  IN  {Pointer(fs, i, k) : k \in 0 .. n - 1}

(* The loops go up and push each number of S below n onto a list.             *)
Descending(S, n) ==
  LET list[k \in 0 .. n] == IF k = 0 THEN << >>
                            ELSE IF k - 1 \in S THEN <<k - 1>> \o list[k - 1]
                            ELSE list[k - 1]
  IN  list[n]

Boot(fs) ==
  LET free == {i \in Scanned : fs.inode[i].type = INODE_FREE}
      used == {0} \cup UNION {Pointers(fs, i) : i \in Scanned \ free}
      header == fs.inode[0]
  IN  [fs EXCEPT !.i_head = Descending(free, NumTable * IPB),
                 !.b_head = Descending(Blocks \ used, NUM_BLOCKS),
                 !.bad = @ \/ header.type # HEADER \/ header.nlink # 0]

-----------------------------------------------------------------------------
(* Names and files *)

(* Fault: a place that is used again keeps its old name.                      *)
SetEntryUnnamed(e, i, name) == [e.fs EXCEPT !.cell[e.b][e.c].inum = i]

SetEntry(e, i, name) == [e.fs EXCEPT !.cell[e.b][e.c] = [inum |-> i, name |-> name]]

(* make_file with new_i_num = -1.  Without a free inode the inode is 0.       *)
MakeFile(fs) ==
  LET i == NextInode(fs)
  IN  [fs EXCEPT !.i_head = Rest(@),
                 !.inode[i].type = INODE_REGULAR,
                 !.inode[i].size = 0,
                 !.inode[i].nlink = 1]

(* handle_create and get_create_file: new is the inode to link to, or ERROR.  *)
CreateFile(fs, path, cur, new) ==
  LET d == SuperDir(fs, path, cur)
      e == EntryFor(fs, d, FileName(path))
      i == e.fs.cell[e.b][e.c].inum
      j == IF new = ERROR THEN NextInode(e.fs) ELSE new
      named == SetEntry(e, j, FileName(path))
  IN  IF path.abs /\ path.parts = << >> THEN Fail(fs)
      ELSE IF d = ERROR THEN Fail(fs)
      ELSE IF ~IsDir(fs, d) THEN Fail(fs)
      ELSE IF i # 0 /\ new # ERROR THEN Fail(e.fs)
      ELSE IF i # 0 THEN [fs |-> Clear(e.fs, i), ret |-> i]
      ELSE [fs |-> IF new = ERROR THEN MakeFile(named) ELSE named, ret |-> j]

LookUp(fs, path, cur) ==
  LET i == Resolve(fs, path, cur) IN IF i = 0 THEN ERROR ELSE i

(* Fault: nlink grows before the new entry is made, and stays when that fails. *)
LinkFileEarly(fs, old, new, cur) ==
  LET i == Resolve(fs, old, cur)
      more == [fs EXCEPT !.inode[i].nlink = @ + 1]
      r == CreateFile(more, [abs |-> FALSE, parts |-> new.parts],
                      Start(new, Start(old, cur)), i)
  IN  IF i = 0 \/ IsDir(fs, i) THEN Fail(fs) ELSE r

(* handle_link: adj_path_i takes the first slash away and goes to the root,   *)
(* and the current directory it sets for the old name stays for the new one.  *)
LinkFile(fs, old, new, cur) ==
  LET i == Resolve(fs, old, cur)
      r == CreateFile(fs, [abs |-> FALSE, parts |-> new.parts],
                      Start(new, Start(old, cur)), i)
  IN  IF i = 0 THEN Fail(fs)
      ELSE IF IsDir(fs, i) THEN Fail(fs)
      ELSE IF r.ret = ERROR THEN r
      ELSE [fs |-> [r.fs EXCEPT !.inode[i].nlink = @ + 1], ret |-> 0]

UnlinkFile(fs, path, cur) ==
  LET d == SuperDir(fs, path, cur)
      name == FileName(path)
      k == Min(Matching(fs, d, name))
      i == CellAt(fs, d, k).inum
      less == [fs EXCEPT !.inode[i].nlink = @ - 1]
      done == IF less.inode[i].nlink = 0 THEN Clear(less, i) ELSE less
  IN  IF d = ERROR THEN Undefined(fs)
      ELSE IF ~IsDir(fs, d) \/ ~Found(fs, d, name) THEN Fail(fs)
      ELSE [fs |-> [done EXCEPT !.cell[NthBlock(fs, d, k \div UNITS)][k % UNITS].inum = 0],
            ret |-> 0]

-----------------------------------------------------------------------------
(* Directories *)

(* handle_mkdir stores one character over the name in the first entry of the  *)
(* new directory's block and two over the second: what the block held before  *)
(* shows through behind them.                                                 *)
DotOver(name) == IF name \in {"", "."} THEN "." ELSE IF name = ".." THEN ".." ELSE Junk

(* Fault: the second dot is forgotten.                                        *)
DotDotOverOnce(name) == DotOver(name)

DotDotOver(name) == IF name \in {"", ".", ".."} THEN ".." ELSE Junk

DirRow(row, i, d) ==
  [row EXCEPT ![0] = [inum |-> i, name |-> DotOver(@.name)],
              ![1] = [inum |-> d, name |-> DotDotOver(@.name)]]

MakeDir(fs, path, cur) ==
  LET d == SuperDir(fs, path, cur)
      e == EntryFor(fs, d, FileName(path))
      i == NextInode(e.fs)
      b == NextBlock(e.fs)
      named == SetEntry(e, i, FileName(path))
  IN  IF d = ERROR THEN Undefined(fs)
      ELSE IF e.fs.cell[e.b][e.c].inum # 0 THEN Fail(e.fs)
      ELSE [fs |-> [named EXCEPT
                      !.i_head = Rest(@),
                      !.b_head = Rest(@),
                      !.inode[i] = [@ EXCEPT !.type = INODE_DIRECTORY, !.size = 2,
                                             !.nlink = 1, !.direct[0] = b],
                      !.cell[b] = DirRow(@, i, d),
                      !.bad = @ \/ b \in TableBlocks \cup {0}],
            ret |-> 0]

(* Fault: the entry keeps its inode number.                                   *)
RemoveDirNamed(fs, path, cur) ==
  LET i == Resolve(fs, path, cur)
  IN  IF fs.inode[i].size > 2 THEN Fail(fs)
      ELSE [fs |-> [Clear(fs, i) EXCEPT !.i_head = <<i>> \o @], ret |-> 0]

(* handle_rmdir clears and frees the inode before it looks for the entry, and *)
(* takes whatever inode the path leads to, 0 for none.                        *)
RemoveDir(fs, path, cur) ==
  LET i == Resolve(fs, path, cur)
      gone == [Clear(fs, i) EXCEPT !.i_head = <<i>> \o @]
      d == SuperDir(gone, path, cur)
      e == EntryFor(gone, d, FileName(path))
  IN  IF fs.inode[i].size > 2 THEN Fail(fs)
      ELSE IF d = ERROR THEN Undefined(gone)
      ELSE [fs |-> [e.fs EXCEPT !.cell[e.b][e.c].inum = 0], ret |-> 0]

-----------------------------------------------------------------------------
(* File data *)

ReadFile(fs, i, pos, n) ==
  LET size == fs.inode[i].size
      left == IF size - pos < n THEN size - pos ELSE n
      hole == \E k \in pos .. pos + left - 1 : NthBlock(fs, i, k \div UNITS) = 0
  IN  IF pos > size \/ hole THEN ERROR ELSE left

(* handle_write copies block by block, each as a whole or not at all; of the   *)
(* n units of the buffer the process can let the server read the first valid. *)
ChunkEnd(k, end) == Min({(k \div UNITS + 1) * UNITS, end})

(* Fault: the size counts one unit too many.                                  *)
WriteFileLong(fs, i, pos, n, valid) ==
  LET Put(r, k) ==
        LET g == GrowBlock(r.fs, i, k \div UNITS)
        IN  IF r.ret = ERROR THEN r
            ELSE IF g.b = 0 \/ ChunkEnd(k, pos + n) > pos + valid THEN Fail(g.fs)
            ELSE [r EXCEPT !.fs = [g.fs EXCEPT
                    !.cell[g.b][k % UNITS] = [inum |-> i, name |-> Junk],
                    !.inode[i].size = Max({@, k + 2})]]
  IN  FoldLeft(Put, [fs |-> fs, ret |-> n], [j \in 1 .. n |-> pos + j - 1])

(* The size grows with each block written, so a later failure leaves what was *)
(* written before it in the file; the block that was taken for what could not *)
(* be copied stays taken, although it is beyond the size.                     *)
WriteFile(fs, i, pos, n, valid) ==
  LET Put(r, k) ==
        LET g == GrowBlock(r.fs, i, k \div UNITS)
        IN  IF r.ret = ERROR THEN r
            ELSE IF g.b = 0 \/ ChunkEnd(k, pos + n) > pos + valid THEN Fail(g.fs)
            ELSE [r EXCEPT !.fs = [g.fs EXCEPT
                    !.cell[g.b][k % UNITS] = [inum |-> i, name |-> Junk],
                    !.inode[i].size = Max({@, k + 1})]]
  IN  FoldLeft(Put, [fs |-> fs, ret |-> n], [j \in 1 .. n |-> pos + j - 1])

(* The value an int holds: sums wrap around.                                  *)
Wrap(x) == ((x + INT_MAX + 1) % (2 * (INT_MAX + 1))) - (INT_MAX + 1)

(* Faults: the end of the file is no limit, and a sum is tested against the   *)
(* end of the file only.                                                      *)
SeekFileBeyond(fs, i, offset, whence, pos) ==
  LET to == CASE whence = "SEEK_SET" -> offset
              [] whence = "SEEK_CUR" -> Wrap(pos + offset)
              [] whence = "SEEK_END" -> Wrap(fs.inode[i].size + offset)
  IN  IF to >= 0 THEN to ELSE ERROR

SeekFileUnsigned(fs, i, offset, whence, pos) ==
  LET size == fs.inode[i].size
      to == CASE whence = "SEEK_SET" -> offset
              [] whence = "SEEK_CUR" -> Wrap(pos + offset)
              [] whence = "SEEK_END" -> Wrap(size + offset)
  IN  IF pos \in 0 .. size /\ to <= size /\ (whence # "SEEK_CUR" => to >= 0)
      THEN to ELSE ERROR

SeekFile(fs, i, offset, whence, pos) ==
  LET size == fs.inode[i].size
      to == CASE whence = "SEEK_SET" -> offset
              [] whence = "SEEK_CUR" -> Wrap(pos + offset)
              [] whence = "SEEK_END" -> Wrap(size + offset)
  IN  IF /\ pos \in 0 .. size
         /\ IF whence = "SEEK_END" THEN offset <= 0 /\ to >= 0 ELSE to \in 0 .. size
      THEN to ELSE ERROR
=============================================================================
