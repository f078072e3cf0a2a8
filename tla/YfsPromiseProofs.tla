-------------------------- MODULE YfsPromiseProofs --------------------------
(* What processes that keep their promises may rely on: each block has one    *)
(* owner, a file holds what was written to it, names lead to their files, the *)
(* directories are a tree, what is free is unused and no block is lost.  The  *)
(* calls are those of YfsTree.                                                *)
EXTENDS YfsStepProofs

-----------------------------------------------------------------------------
(* "." and ".." *)

(* handle_mkdir writes over what a block held, so that its dots come out      *)
(* right only in a block whose first two names are dots or nothing.  Where no *)
(* file is written the other blocks are the later ones of directories, which  *)
(* have more than two entries and are never removed.                          *)
Fine(m, b) ==
  m.cell[b][0].name \in {"", "."} /\ m.cell[b][1].name \in {"", ".", ".."}
Beyond(m, b) == \E d \in Inodes, n \in Nat \ {0} : Dir(m, d) /\ NthBlock(m, d, n) = b
DotRow(m, d) ==
  Dir(m, d) => /\ m.inode[d].size >= 2 /\ Whole(m, d)
               /\ CellAt(m, d, 0).name = "." /\ CellAt(m, d, 1).name = ".."
Unwritten(m) == \A i \in Inodes : IsDir(m, i) \/ m.inode[i].size = 0
Dots(m) ==
  /\ Unwritten(m)
  /\ \A d \in Inodes : DotRow(m, d)
  /\ \A b \in Blocks \ {0} : Fine(m, b) \/ Beyond(m, b)

LEMMA FirstPlaces ==
  /\ 0 \div UNITS = 0 /\ 0 % UNITS = 0 /\ 1 \div UNITS = 0 /\ 1 % UNITS = 1
  /\ 0 \in 0 .. UNITS - 1 /\ 1 \in 0 .. UNITS - 1
BY UnitFacts

(* The first two entries are in the first block.                              *)
LEMMA FirstCells ==
  ASSUME NEW m, NEW d
  PROVE  /\ CellAt(m, d, 0) = m.cell[NthBlock(m, d, 0)][0]
         /\ CellAt(m, d, 1) = m.cell[NthBlock(m, d, 0)][1]
BY FirstPlaces DEF CellAt

LEMMA NthOfInode ==
  ASSUME NEW m, Sound(m), NEW m2, Sound(m2), NEW x \in Inodes,
         m2.inode[x].size = m.inode[x].size, m2.inode[x].direct = m.inode[x].direct
  PROVE  \A n \in Nat : NthBlock(m2, x, n) = NthBlock(m, x, n)
<1> SUFFICES ASSUME NEW n \in Nat PROVE NthBlock(m2, x, n) = NthBlock(m, x, n)
  OBVIOUS
<1>1. NthBlock(m, x, n) = IF n * UNITS < m.inode[x].size THEN m.inode[x].direct[n] ELSE 0
  BY NthDirect DEF Sound
<1>2. NthBlock(m2, x, n) = IF n * UNITS < m2.inode[x].size THEN m2.inode[x].direct[n] ELSE 0
  BY NthDirect DEF Sound
<1> QED BY <1>1, <1>2

(* A directory that has a later block has more than two entries.              *)
LEMMA LaterBlock ==
  ASSUME NEW m \in FsType, NEW d \in Inodes, NEW n \in Nat \ {0}, NthBlock(m, d, n) # 0
  PROVE  m.inode[d].size > 2
<1>1. n * UNITS < m.inode[d].size /\ m.inode[d].size \in Nat
  BY NthFacts, SizeNat
<1>2. UNITS \in Nat /\ UNITS >= 2 /\ n \in Nat /\ n >= 1
  BY UnitFacts
<1>3. n * UNITS >= 2 /\ n * UNITS \in Nat
  BY <1>2
<1> QED BY <1>1, <1>3

(* A step that makes no entry.                                                *)
LEMMA DotsKept ==
  ASSUME NEW m, Sound(m), Dots(m), NEW m2, Sound(m2), SameNames(m, m2),
         \A x \in Inodes : Dir(m2, x) =>
           /\ Dir(m, x) /\ m2.inode[x].size = m.inode[x].size
           /\ m2.inode[x].direct = m.inode[x].direct,
         \A x \in Inodes : Dir(m, x) => Dir(m2, x) \/ m.inode[x].size <= 2,
         Unwritten(m2)
  PROVE  Dots(m2)
<1>1. m \in FsType /\ m2 \in FsType
  BY DEF Sound
<1>2. ASSUME NEW x \in Inodes, Dir(m2, x)
      PROVE  /\ Dir(m, x) /\ m2.inode[x].size = m.inode[x].size
             /\ \A n \in Nat : NthBlock(m2, x, n) = NthBlock(m, x, n)
  BY <1>2, NthOfInode
<1>3. ASSUME NEW x \in Inodes PROVE DotRow(m2, x)
  <2> SUFFICES ASSUME Dir(m2, x) PROVE DotRow(m2, x)
    BY DEF DotRow
  <2>1. DotRow(m, x)
    BY DEF Dots
  <2>2. NthBlock(m2, x, 0) = NthBlock(m, x, 0) /\ NthBlock(m, x, 0) \in Blocks
    BY <1>1, <1>2, NthFacts
  <2>3. CellAt(m2, x, 0).name = CellAt(m, x, 0).name /\ CellAt(m2, x, 1).name = CellAt(m, x, 1).name
    BY <2>2, FirstCells, FirstPlaces DEF SameNames
  <2>4. Whole(m2, x)
    BY <1>2, <2>1 DEF DotRow, Whole
  <2> QED BY <1>2, <2>1, <2>3, <2>4 DEF DotRow
<1>4. ASSUME NEW b \in Blocks \ {0} PROVE Fine(m2, b) \/ Beyond(m2, b)
  <2>1. CASE Fine(m, b)
    BY <2>1, FirstPlaces DEF Fine, SameNames
  <2>2. CASE Beyond(m, b)
    <3>1. PICK d \in Inodes, n \in Nat \ {0} : Dir(m, d) /\ NthBlock(m, d, n) = b
      BY <2>2 DEF Beyond
    <3>2. m.inode[d].size > 2 /\ m.inode[d].size \in Nat
      BY <1>1, <3>1, LaterBlock, SizeNat
    <3>3. Dir(m2, d)
      BY <3>1, <3>2
    <3> QED BY <1>2, <3>1, <3>3 DEF Beyond
  <2> QED BY <2>1, <2>2 DEF Dots
<1> QED BY <1>3, <1>4 DEF Dots

LEMMA EntersDots ==
  ASSUME NEW m, Healthy(m), Dots(m), NEW d \in Inodes, Dir(m, d),
         NEW k \in Nat, NEW j, NEW name, NEW f, Enters(m, f, d, k, j, name)
  PROVE  Dots(f) /\ \A x \in Inodes : Dir(f, x) <=> Dir(m, x)
<1> DEFINE s == m.inode[d].size
           b == NthBlock(f, d, k \div UNITS)
<1>1. /\ m \in FsType /\ f \in FsType /\ Whole(f, d) /\ OnlyInode(m, f, d)
      /\ Named(m, f, d, k, j, name) /\ Placed(m, f, d, k) /\ DotRow(m, d) /\ Unwritten(m)
  BY HealthyIs DEF Enters, Sound, Dots
<1>2. s \in Nat /\ s >= 2 /\ CellAt(m, d, 0).inum # 0 /\ CellAt(m, d, 1).inum # 0
  BY DirFacts
<1>3. /\ f.inode[d].type = m.inode[d].type /\ f.inode[d].size = IF k < s THEN s ELSE s + 1
      /\ k <= s /\ (k < s => CellAt(m, d, k).inum = 0)
      /\ \A l \in 0 .. s - 1 : l # k => CellAt(f, d, l) = CellAt(m, d, l)
      /\ \A x \in Inodes : x # d => Alike(m, f, x)
  BY <1>1 DEF Named
<1>4. /\ b # 0
      /\ \A b2 \in Blocks, c \in 0 .. UNITS - 1 : b2 # b \/ c # k % UNITS => f.cell[b2][c] = m.cell[b2][c]
      /\ \A n \in Nat : NthBlock(m, d, n) # 0 => NthBlock(f, d, n) = NthBlock(m, d, n)
  BY <1>1 DEF Placed
<1>5. k >= 2 /\ f.inode[d].size >= 2 /\ f.inode[d].size > 0
  <2>1. k # 0 /\ k # 1
    <3>1. CASE k < s
      BY <1>2, <1>3, <3>1
    <3>2. CASE ~(k < s)
      <4> HIDE DEF s
      <4> QED BY <1>2, <3>2
    <3> QED BY <3>1, <3>2
  <2> HIDE DEF s
  <2> QED BY <1>2, <1>3, <2>1
<1>6. \A x \in Inodes : (IsDir(f, x) <=> IsDir(m, x)) /\ (Dir(f, x) <=> Dir(m, x))
  <2> SUFFICES ASSUME NEW x \in Inodes PROVE (IsDir(f, x) <=> IsDir(m, x)) /\ (Dir(f, x) <=> Dir(m, x))
    OBVIOUS
  <2>1. CASE x = d
    BY <1>3, <1>5, <2>1 DEF IsDir, Dir
  <2>2. CASE x # d
    BY <1>3, <2>2 DEF IsDir, Dir, Alike
  <2> QED BY <2>1, <2>2
<1>7. ASSUME NEW x \in Inodes PROVE DotRow(f, x)
  <2>1. CASE x = d
    <3>1. 0 \in 0 .. s - 1 /\ 1 \in 0 .. s - 1 /\ 0 # k /\ 1 # k
      <4> HIDE DEF s
      <4> QED BY <1>2, <1>5
    <3>2. CellAt(f, d, 0) = CellAt(m, d, 0) /\ CellAt(f, d, 1) = CellAt(m, d, 1)
      BY <1>3, <3>1
    <3> QED BY <1>1, <1>5, <2>1, <3>2 DEF DotRow
  <2>2. CASE x # d /\ Dir(f, x)
    <3>1. Dir(m, x) /\ DotRow(m, x) /\ Alike(m, f, x)
      BY <1>3, <1>6, <2>2 DEF Dots
    <3>2. 0 * UNITS < m.inode[x].size /\ 0 \in Nat
      BY <3>1, SizeNat, <1>1, UnitFacts DEF DotRow
    <3>3. NthBlock(m, x, 0) # 0
      BY <3>1, <3>2 DEF DotRow, Whole
    <3>4. CellAt(f, x, 0) = CellAt(m, x, 0) /\ CellAt(f, x, 1) = CellAt(m, x, 1)
      BY <3>1, <3>3, FirstPlaces DEF Alike
    <3>5. Whole(f, x)
      BY <1>1, <3>1, AlikeKeeps DEF DotRow
    <3> QED BY <3>1, <3>4, <3>5 DEF DotRow, Alike
  <2> QED BY <2>1, <2>2 DEF DotRow
<1>8. ASSUME NEW b2 \in Blocks \ {0} PROVE Fine(f, b2) \/ Beyond(f, b2)
  <2>1. CASE Beyond(m, b2)
    <3>1. PICK x \in Inodes, n \in Nat \ {0} : Dir(m, x) /\ NthBlock(m, x, n) = b2
      BY <2>1 DEF Beyond
    <3>2. NthBlock(f, x, n) = b2
      BY <1>3, <1>4, <3>1 DEF Alike
    <3> QED BY <1>6, <3>1, <3>2 DEF Beyond
  <2>2. CASE Fine(m, b2) /\ b2 # b
    BY <1>4, <2>2, FirstPlaces DEF Fine
  <2>3. CASE Fine(m, b2) /\ b2 = b /\ k \div UNITS = 0
    <3>1. k % UNITS # 0 /\ k % UNITS # 1
      <4>1. k = UNITS * (k \div UNITS) + (k % UNITS)
        BY UnitFacts, DivFacts
      <4>2. k = k % UNITS
        BY <2>3, <4>1, <1>1, CellFacts, UnitFacts
      <4> QED BY <1>5, <4>2
    <3> QED BY <1>4, <2>3, <3>1, FirstPlaces DEF Fine
  <2>4. CASE b2 = b /\ k \div UNITS # 0
    <3>1. k \div UNITS \in Nat \ {0}
      BY <2>4, UnitFacts, DivFacts
    <3> QED BY <1>6, <2>4, <3>1 DEF Beyond
  <2> QED BY <2>1, <2>2, <2>3, <2>4 DEF Dots
<1>9. ASSUME NEW x \in Inodes PROVE IsDir(f, x) \/ f.inode[x].size = 0
  <2>1. CASE x = d
    BY <1>6, <2>1 DEF Dir
  <2>2. CASE x # d
    BY <1>1, <1>6, <2>2 DEF Unwritten, OnlyInode
  <2> QED BY <2>1, <2>2
<1> QED BY <1>6, <1>7, <1>8, <1>9 DEF Dots, Unwritten

(* A step that touches files only.                                            *)
LEMMA FilesDots ==
  ASSUME NEW m, Sound(m), Dots(m), NEW m2, Sound(m2), m2.cell = m.cell,
         \A x \in Inodes : IsDir(m2, x) <=> IsDir(m, x),
         \A x \in Inodes : IsDir(m, x) =>
           m2.inode[x].size = m.inode[x].size /\ m2.inode[x].direct = m.inode[x].direct,
         \A x \in Inodes : ~IsDir(m, x) => m2.inode[x].size = 0
  PROVE  Dots(m2)
<1>1. SameNames(m, m2)
  BY DEF SameNames
<1>2. \A x \in Inodes : Dir(m2, x) <=> Dir(m, x)
  BY DEF Dir
<1>3. \A x \in Inodes : Dir(m2, x) => /\ Dir(m, x) /\ m2.inode[x].size = m.inode[x].size
                                      /\ m2.inode[x].direct = m.inode[x].direct
  BY <1>2 DEF Dir
<1>4. Unwritten(m2)
  BY DEF Unwritten
<1> QED BY <1>1, <1>2, <1>3, <1>4, DotsKept

LEMMA ClearDots ==
  ASSUME NEW m, Healthy(m), Dots(m), NEW i \in Inodes, ~IsDir(m, i), NEW m2, m2 = Clear(m, i)
  PROVE  Dots(m2)
<1>1. /\ Sound(m) /\ Sound(m2) /\ OnlyInode(m, m2, i) /\ m2.cell = m.cell
      /\ m2.inode[i].size = 0 /\ m2.inode[i].type = m.inode[i].type
  BY HealthyIs, ClearSound
<1>2. \A x \in Inodes : x # i => m2.inode[x] = m.inode[x]
  BY <1>1 DEF OnlyInode
<1>3. \A x \in Inodes : ~IsDir(m, x) => m2.inode[x].size = 0
  BY <1>1, <1>2 DEF Dots, Unwritten
<1>4. \A x \in Inodes : IsDir(m2, x) <=> IsDir(m, x)
  BY <1>1, <1>2 DEF IsDir
<1>5. \A x \in Inodes : IsDir(m, x) =>
        m2.inode[x].size = m.inode[x].size /\ m2.inode[x].direct = m.inode[x].direct
  BY <1>2
<1> QED BY <1>1, <1>3, <1>4, <1>5, FilesDots

(* The directory of a free inode has no size, so that a file takes no place   *)
(* of an entry.                                                               *)
LEMMA CreatesDots ==
  ASSUME NEW m, Healthy(m), Dots(m), m.i_head # << >>, NEW d \in Inodes, Dir(m, d),
         NEW name, NEW m2, Creates(m, m2, d, name)
  PROVE  Dots(m2)
<1> DEFINE i == NextInode(m)
<1>1. PICK k \in Nat, f \in FsType : Enters(m, f, d, k, i, name) /\ m2 = MakeFile(f)
  BY DEF Creates
<1>2. Dots(f) /\ Sound(f) /\ f.i_head = m.i_head /\ \A x \in Inodes : Dir(f, x) <=> Dir(m, x)
  BY <1>1, EntersDots DEF Enters
<1>3. i \in Inodes /\ ~Dir(m, i)
  BY NextUnused
<1>4. i = NextInode(f)
  BY <1>2, NextOfSame
<1> HIDE DEF i
<1>5. /\ Sound(m2) /\ m2.inode[i].size = 0 /\ m2.inode[i].type = INODE_REGULAR
      /\ OnlyInode(f, m2, i) /\ m2.cell = f.cell
  BY <1>1, <1>2, <1>4, MakeFileSound
<1>6. ~Dir(f, i) /\ ~IsDir(m2, i) /\ ~Dir(m2, i)
  BY <1>2, <1>3, <1>5 DEF Dir, IsDir, INODE_REGULAR, INODE_DIRECTORY
<1>7. \A x \in Inodes : x # i => m2.inode[x] = f.inode[x]
  BY <1>5 DEF OnlyInode
<1>8. \A x \in Inodes : Dir(m2, x) <=> Dir(f, x)
  BY <1>6, <1>7 DEF Dir, IsDir
<1>9. \A x \in Inodes : Dir(m2, x) => /\ Dir(f, x) /\ m2.inode[x].size = f.inode[x].size
                                      /\ m2.inode[x].direct = f.inode[x].direct
  BY <1>6, <1>7, <1>8
<1>10. Unwritten(m2)
  <2> SUFFICES ASSUME NEW x \in Inodes PROVE IsDir(m2, x) \/ m2.inode[x].size = 0
    BY DEF Unwritten
  <2>1. CASE x = i
    BY <1>5, <2>1
  <2>2. CASE x # i
    BY <1>2, <1>7, <2>2 DEF Dots, Unwritten, IsDir
  <2> QED BY <2>1, <2>2
<1>11. SameNames(f, m2)
  BY <1>5 DEF SameNames
<1> QED BY <1>2, <1>5, <1>8, <1>9, <1>10, <1>11, DotsKept

LEMMA LinksDots ==
  ASSUME NEW m, Healthy(m), Dots(m), NEW d \in Inodes, Dir(m, d), NEW i \in Inodes,
         NEW name, NEW m2, Links(m, m2, d, i, name)
  PROVE  Dots(m2)
<1>1. PICK k \in Nat, f \in FsType : Enters(m, f, d, k, i, name) /\ m2 = Counted(f, i)
  BY DEF Links
<1>2. Dots(f) /\ Sound(f)
  BY <1>1, EntersDots DEF Enters
<1> DEFINE y == f.inode[i].nlink + 1
<1>4. y \in Int /\ m2 = [f EXCEPT !.inode = [f.inode EXCEPT ![i].nlink = y]]
  BY <1>1 DEF FsType, InodeType, Counted
<1> HIDE DEF y
<1>5. Sound(m2) /\ (\A j \in Inodes : Alike(f, m2, j)) /\ OnlyInode(f, m2, i)
  BY <1>2, <1>4, NlinkSound
<1>6. m2.cell = f.cell /\ m2.inode[i].direct = f.inode[i].direct
  BY <1>1, <1>4 DEF FsType, InodeType
<1>3. /\ Sound(m2) /\ m2.cell = f.cell
      /\ \A x \in Inodes : /\ m2.inode[x].type = f.inode[x].type
                           /\ m2.inode[x].size = f.inode[x].size
                           /\ m2.inode[x].direct = f.inode[x].direct
  BY <1>5, <1>6 DEF Alike, OnlyInode
<1> QED BY <1>2, <1>3, FilesDots DEF IsDir, Dots, Unwritten

(* The block of a new directory is none of the later ones of another.         *)
LEMMA NewDirDots ==
  ASSUME NEW f, Sound(f), Dots(f), f.b_head # << >>, NEW i, i = NextInode(f), ~Dir(f, i),
         NEW d \in Inodes, NEW b, b = NextBlock(f), NEW m2, m2 = NewDir(f, i, d, b)
  PROVE  Dots(m2)
<1>1. /\ i \in Inodes /\ Sound(m2) /\ NewEntries(m2, i, d) /\ OnlyInode(f, m2, i)
      /\ \A j \in Inodes : j # i => Alike(f, m2, j)
      /\ NewRow(f, m2, i, b)
  BY NewDirSound
<1>2. f \in FsType /\ m2 \in FsType /\ BlocksInv(f) /\ Unwritten(f)
  BY <1>1 DEF Sound, Dots
<1>3. b = f.b_head[1] /\ 1 \in 1 .. Len(f.b_head) /\ b \in Blocks
  <2>1. f.b_head \in Seq(Blocks)
    BY <1>2 DEF FsType
  <2>2. b = f.b_head[1]
    BY DEF NextBlock
  <2> QED BY <2>1, <2>2
<1>4. b # 0 /\ \A x \in Inodes, n \in Nat : NthBlock(f, x, n) # b
  BY <1>2, <1>3 DEF BlocksInv
<1>5. Fine(f, b)
  BY <1>3, <1>4 DEF Dots, Beyond
<1>6. /\ m2.inode[i].type = INODE_DIRECTORY /\ m2.inode[i].size = 2 /\ Whole(m2, i)
      /\ CellAt(m2, i, 0).name = "." /\ CellAt(m2, i, 1).name = ".." /\ NthBlock(m2, i, 0) = b
  BY <1>1, <1>5 DEF NewEntries, NewRow, Fine, DotOver, DotDotOver
<1>7. \A x \in Inodes : x # i => (Dir(m2, x) <=> Dir(f, x)) /\ (IsDir(m2, x) <=> IsDir(f, x))
  BY <1>1 DEF Alike, Dir, IsDir
<1>8. ASSUME NEW x \in Inodes PROVE DotRow(m2, x)
  <2>1. CASE x = i
    <3>1. m2.inode[i].size >= 2
      BY <1>6
    <3> QED BY <1>6, <2>1, <3>1 DEF DotRow
  <2>2. CASE x # i /\ Dir(m2, x)
    <3>1. Dir(f, x) /\ DotRow(f, x) /\ Alike(f, m2, x)
      BY <1>1, <1>7, <2>2 DEF Dots
    <3>2. 0 * UNITS < f.inode[x].size /\ 0 \in Nat
      BY <3>1, SizeNat, <1>2, UnitFacts DEF DotRow
    <3>3. NthBlock(f, x, 0) # 0
      BY <3>1, <3>2 DEF DotRow, Whole
    <3>4. CellAt(m2, x, 0) = CellAt(f, x, 0) /\ CellAt(m2, x, 1) = CellAt(f, x, 1)
      BY <3>1, <3>3, FirstPlaces DEF Alike
    <3>5. Whole(m2, x)
      BY <1>2, <3>1, AlikeKeeps DEF DotRow
    <3> QED BY <3>1, <3>4, <3>5 DEF DotRow, Alike
  <2> QED BY <2>1, <2>2 DEF DotRow
<1>9. ASSUME NEW b2 \in Blocks \ {0} PROVE Fine(m2, b2) \/ Beyond(m2, b2)
  <2>1. CASE b2 = b
    <3>1. CellAt(m2, i, 0) = m2.cell[b][0] /\ CellAt(m2, i, 1) = m2.cell[b][1]
      BY <1>6, FirstCells
    <3> QED BY <1>6, <2>1, <3>1 DEF Fine
  <2>2. CASE b2 # b /\ Fine(f, b2)
    <3>1. m2.cell[b2][0] = f.cell[b2][0] /\ m2.cell[b2][1] = f.cell[b2][1]
      BY <1>1, <2>2, FirstPlaces DEF NewRow
    <3> QED BY <2>2, <3>1 DEF Fine
  <2>3. CASE Beyond(f, b2)
    <3>1. PICK x \in Inodes, n \in Nat \ {0} : Dir(f, x) /\ NthBlock(f, x, n) = b2
      BY <2>3 DEF Beyond
    <3>2. x # i /\ Dir(m2, x) /\ NthBlock(m2, x, n) = b2
      BY <1>1, <1>7, <3>1 DEF Alike
    <3> QED BY <3>2 DEF Beyond
  <2> QED BY <2>1, <2>2, <2>3 DEF Dots
<1>10. ASSUME NEW x \in Inodes PROVE IsDir(m2, x) \/ m2.inode[x].size = 0
  <2>1. CASE x = i
    BY <1>6, <2>1 DEF IsDir
  <2>2. CASE x # i
    BY <1>1, <1>2, <1>7, <2>2 DEF Unwritten, OnlyInode
  <2> QED BY <2>1, <2>2
<1> QED BY <1>8, <1>9, <1>10 DEF Dots, Unwritten

LEMMA MakesDirDots ==
  ASSUME NEW m, Healthy(m), Dots(m), m.i_head # << >>, NEW d \in Inodes, Dir(m, d),
         NEW name, NEW m2, MakesDir(m, m2, d, name)
  PROVE  Dots(m2)
<1> DEFINE i == NextInode(m)
<1>1. PICK k \in Nat, f \in FsType :
        /\ Enters(m, f, d, k, i, name) /\ f.b_head # << >>
        /\ m2 = NewDir(f, i, d, NextBlock(f))
  BY DEF MakesDir
<1>2. Dots(f) /\ Sound(f) /\ f.i_head = m.i_head /\ \A x \in Inodes : Dir(f, x) <=> Dir(m, x)
  BY <1>1, EntersDots DEF Enters
<1>3. i \in Inodes /\ ~Dir(m, i)
  BY NextUnused
<1>4. i = NextInode(f)
  BY <1>2, NextOfSame
<1> HIDE DEF i
<1>5. ~Dir(f, i)
  BY <1>2, <1>3
<1> QED BY <1>1, <1>2, <1>4, <1>5, NewDirDots

(* An entry that is removed leaves its name.                                  *)
LEMMA UnlinksDots ==
  ASSUME NEW m, Healthy(m), Dots(m), NEW d \in Inodes, NEW t \in Inodes \ {0},
         ~IsDir(m, t), NEW name, NEW m2, Unlinks(m, m2, d, t, name)
  PROVE  Dots(m2)
<1> DEFINE f == Dropped(m, t)
<1>1. Sound(m2) /\ SameNames(m, m2) /\ m2.inode = f.inode
  BY DEF Unlinks, Removed
<1>2. /\ Sound(m) /\ OnlyInode(m, f, t) /\ f.inode[t].type = m.inode[t].type
      /\ f.inode[t].size = 0 \/ Alike(m, f, t)
  BY HealthyIs, DroppedFacts
<1> HIDE DEF f
<1>3. m.inode[t].size = 0
  BY DEF Dots, Unwritten
<1>4. m2.inode[t].size = 0 /\ m2.inode[t].type = m.inode[t].type
  BY <1>1, <1>2, <1>3 DEF Alike
<1>5. \A x \in Inodes : x # t => m2.inode[x] = m.inode[x]
  BY <1>1, <1>2 DEF OnlyInode
<1>6. \A x \in Inodes : (Dir(m2, x) <=> Dir(m, x)) /\ (Dir(m2, x) => x # t)
  BY <1>4, <1>5 DEF Dir, IsDir
<1>7. Unwritten(m2)
  <2> SUFFICES ASSUME NEW x \in Inodes PROVE IsDir(m2, x) \/ m2.inode[x].size = 0
    BY DEF Unwritten
  <2>1. CASE x = t
    BY <1>4, <2>1
  <2>2. CASE x # t
    BY <1>5, <2>2 DEF Dots, Unwritten, IsDir
  <2> QED BY <2>1, <2>2
<1> QED BY <1>1, <1>2, <1>5, <1>6, <1>7, DotsKept

LEMMA RemovesDots ==
  ASSUME NEW m, Healthy(m), Dots(m), NEW d \in Inodes, NEW t \in Inodes \ {0},
         IsDir(m, t), m.inode[t].size <= 2, NEW name, NEW m2, Removes(m, m2, d, t, name)
  PROVE  Dots(m2)
<1> DEFINE c == Clear(m, t)
<1>1. Sound(m2) /\ SameNames(m, m2) /\ m2.inode = Gone(m, t).inode
  BY DEF Removes, Removed
<1>2. Sound(m) /\ m \in FsType
  BY HealthyIs
<1>3. OnlyInode(m, c, t) /\ c.inode[t].size = 0 /\ c.inode[t].type = m.inode[t].type
  BY <1>2, ClearSound
<1>4. m2.inode = c.inode
  BY <1>1, <1>2, GoneType
<1> HIDE DEF c
<1>5. m2.inode[t].size = 0 /\ m2.inode[t].type = m.inode[t].type
  BY <1>3, <1>4
<1>6. \A x \in Inodes : x # t => m2.inode[x] = m.inode[x]
  BY <1>3, <1>4 DEF OnlyInode
<1>7. \A x \in Inodes : Dir(m2, x) => x # t /\ Dir(m, x)
  BY <1>5, <1>6 DEF Dir, IsDir
<1>8. \A x \in Inodes : Dir(m, x) => Dir(m2, x) \/ m.inode[x].size <= 2
  BY <1>6 DEF Dir, IsDir
<1>9. Unwritten(m2)
  <2> SUFFICES ASSUME NEW x \in Inodes PROVE IsDir(m2, x) \/ m2.inode[x].size = 0
    BY DEF Unwritten
  <2>1. CASE x = t
    BY <1>5, <2>1
  <2>2. CASE x # t
    BY <1>6, <2>2 DEF Dots, Unwritten, IsDir
  <2> QED BY <2>1, <2>2
<1> QED BY <1>1, <1>2, <1>6, <1>7, <1>8, <1>9, DotsKept

LEMMA BootDots ==
  ASSUME NEW m, Healthy(m), Dots(m), NEW m2, m2 = Boot(m)
  PROVE  Dots(m2)
<1>1. Sound(m) /\ m \in FsType /\ Sound(m2)
  BY HealthyIs, BootHealthy
<1>2. m2.inode = m.inode /\ m2.cell = m.cell
  BY <1>1, BootType
<1> QED BY <1>1, <1>2, FilesDots DEF IsDir, Dots, Unwritten

LEMMA NothingWritten ==
  ASSUME NEW m \in FsType, NEW i \in Inodes, NEW pos \in Nat, NEW valid \in Nat
  PROVE  WriteFile(m, i, pos, 0, valid).fs = m
<1>1. PICK at \in [0 .. 0 -> ReplyType(0)] : WritesBy(m, i, pos, 0, valid, at)
  BY WriteSteps
<1> QED BY <1>1 DEF WritesBy

(* mkyfs leaves all blocks empty but that of the root.                        *)
LEMMA MkYfsNames ==
  \A b \in Blocks \ {NumTable + 1}, c \in 0 .. UNITS - 1 : MkYfs.cell[b][c].name = ""
<1> SUFFICES ASSUME NEW b \in Blocks \ {NumTable + 1}, NEW c \in 0 .. UNITS - 1
             PROVE  MkYfs.cell[b][c].name = ""
  OBVIOUS
<1> DEFINE cell == MkYfs.cell[b][c]
<1>1. cell = EmptyCell
  BY DEF MkYfs
<1> HIDE DEF cell
<1>2. cell.name = ""
  BY <1>1 DEF EmptyCell
<1> QED BY <1>2 DEF cell

LEMMA MkYfsDots == Dots(MkYfs)
<1> DEFINE m == MkYfs
           b0 == NumTable + 1
<1>1. /\ m \in FsType
      /\ \A i \in Inodes :
           IF i = ROOTINODE
           THEN m.inode[i].type = INODE_DIRECTORY /\ m.inode[i].size = 2 /\ m.inode[i].direct[0] = b0
           ELSE m.inode[i].type \in {INODE_FREE, HEADER} /\ m.inode[i].size = 0
      /\ m.cell[b0][0] = [inum |-> ROOTINODE, name |-> "."]
      /\ m.cell[b0][1] = [inum |-> ROOTINODE, name |-> ".."]
  BY MkYfsType
<1>2. Healthy(m) /\ ROOTINODE \in Inodes
  BY MkYfsHealthy, ConstantFacts DEF ROOTINODE
<1>3. \A b \in Blocks \ {b0}, c \in 0 .. UNITS - 1 : m.cell[b][c].name = ""
  BY MkYfsNames
<1> HIDE DEF m, b0
<1>4. Unwritten(m)
  BY <1>1 DEF Unwritten, IsDir
<1>5. \A x \in Inodes : Dir(m, x) => x = ROOTINODE
  BY <1>1 DEF Dir
<1>6. m.cell[b0][0].name = "." /\ m.cell[b0][1].name = ".."
  BY <1>1
<1>7. DotRow(m, ROOTINODE)
  <2> SUFFICES ASSUME Dir(m, ROOTINODE) PROVE DotRow(m, ROOTINODE)
    BY DEF DotRow
  <2>1. m.inode[ROOTINODE].size = 2 /\ m.inode[ROOTINODE].direct[0] = b0
    BY <1>1, <1>2
  <2>2. 0 \in Nat /\ 0 * UNITS < m.inode[ROOTINODE].size
    BY <2>1, UnitFacts
  <2>3. NthBlock(m, ROOTINODE, 0) = b0
    BY <1>1, <1>2, <2>1, <2>2, NthDirect, HealthyIs DEF Sound
  <2>4. Whole(m, ROOTINODE)
    BY <1>2, DirFacts
  <2> QED BY <1>6, <2>1, <2>3, <2>4, FirstCells DEF DotRow
<1>8. \A b \in Blocks : Fine(m, b)
  <2> SUFFICES ASSUME NEW b \in Blocks PROVE Fine(m, b)
    OBVIOUS
  <2>1. CASE b = b0
    BY <1>6, <2>1 DEF Fine
  <2>2. CASE b # b0
    BY <1>3, <2>2, FirstPlaces DEF Fine
  <2> QED BY <2>1, <2>2
<1>9. \A x \in Inodes : DotRow(m, x)
  BY <1>5, <1>7 DEF DotRow
<1> QED BY <1>4, <1>8, <1>9 DEF Dots, m

LEMMA DotsStep ==
  ASSUME Promised, Sizes \subseteq {0}, Fits, Inv, Defined, Dots(fs), [Next]_vars
  PROVE  Dots(fs')
<1>1. ASSUME NEW p \in Procs, NEW path \in Paths, Create(p, path) PROVE Dots(fs')
  <2> DEFINE d == Parent(p, path)
             t == Target(p, path)
  <2>1. /\ Healthy(fs) /\ d \in Inodes /\ Dir(fs, d) /\ t \in Inodes /\ ~IsDir(fs, t)
        /\ t # 0 => fs' = Clear(fs, t)
        /\ t = 0 => fs.i_head # << >> /\ Creates(fs, fs', d, FileName(path))
    BY <1>1, Created
  <2> HIDE DEF d, t
  <2>2. CASE t # 0
    BY <2>1, <2>2, ClearDots
  <2>3. CASE t = 0
    BY <2>1, <2>3, CreatesDots
  <2> QED BY <2>2, <2>3
<1>2. ASSUME NEW p \in Procs, NEW old \in Paths, NEW new \in Paths, Link(p, old, new)
      PROVE  Dots(fs')
  <2> DEFINE d == LinkParent(p, old, new)
  <2>1. /\ Healthy(fs) /\ d \in Inodes /\ Dir(fs, d)
        /\ \/ fs' = fs
           \/ \E i \in Inodes \ {0} :
                Legal(fs, i) /\ ~IsDir(fs, i) /\ Links(fs, fs', d, i, FileName(new))
    BY <1>2, Linked
  <2> HIDE DEF d
  <2> QED BY <2>1, LinksDots
<1>3. ASSUME NEW p \in Procs, NEW path \in Paths, Unlink(p, path) PROVE Dots(fs')
  <2> DEFINE d == Parent(p, path)
             t == Target(p, path)
  <2>1. /\ Healthy(fs) /\ d \in Inodes /\ Dir(fs, d) /\ t \in Inodes \ {0} /\ ~IsDir(fs, t)
        /\ Unlinks(fs, fs', d, t, FileName(path))
    BY <1>3, Unlinked
  <2> HIDE DEF d, t
  <2> QED BY <2>1, UnlinksDots
<1>4. ASSUME NEW p \in Procs, NEW path \in Paths, MkDir(p, path) PROVE Dots(fs')
  <2> DEFINE d == Parent(p, path)
             t == Target(p, path)
  <2>1. /\ Healthy(fs) /\ d \in Inodes /\ Dir(fs, d)
        /\ t # 0 => fs' = fs
        /\ t = 0 => fs.i_head # << >> /\ MakesDir(fs, fs', d, FileName(path))
    BY <1>4, DirMadeIn
  <2> HIDE DEF d, t
  <2> QED BY <2>1, MakesDirDots
<1>5. ASSUME NEW p \in Procs, NEW path \in Paths, RmDir(p, path) PROVE Dots(fs')
  <2> DEFINE d == Parent(p, path)
             t == Target(p, path)
  <2>1. /\ Healthy(fs) /\ d \in Inodes /\ Dir(fs, d) /\ t \in Inodes \ {0} /\ IsDir(fs, t)
        /\ fs.inode[t].size > 2 => fs' = fs
        /\ fs.inode[t].size <= 2 => t # d /\ Removes(fs, fs', d, t, FileName(path))
    BY <1>5, DirRemoved
  <2> HIDE DEF d, t
  <2>2. fs.inode[t].size \in Nat
    BY <2>1, SizeNat DEF Healthy, Safe, Sound
  <2>3. fs.inode[t].size > 2 \/ fs.inode[t].size <= 2
    BY <2>2
  <2> QED BY <2>1, <2>3, RemovesDots
<1>6. ASSUME NEW p \in Procs, NEW fd \in Slots, NEW n \in Sizes, Write(p, fd, n) PROVE Dots(fs')
  <2> DEFINE i == fds[p][fd].i_num
             pos == fds[p][fd].pos
  <2>1. /\ Healthy(fs) /\ i \in Inodes /\ pos \in Nat /\ n = 0
    BY <1>6, Wrote
  <2>2. PICK valid \in 0 .. n : fs' = WriteFile(fs, i, pos, n, valid).fs
    BY <1>6, Wrote
  <2> HIDE DEF i, pos
  <2>3. fs \in FsType /\ valid \in Nat
    BY <2>1, HealthyIs
  <2>4. fs' = fs
    BY <2>1, <2>2, <2>3, NothingWritten
  <2> QED BY <2>4
<1>7. ASSUME Restart PROVE Dots(fs')
  <2>1. Healthy(fs) /\ fs' = Boot(fs)
    BY <1>7 DEF Restart, Inv, Defined
  <2> QED BY <2>1, BootDots
<1>8. fs' = fs => Dots(fs')
  OBVIOUS
<1>9. ASSUME NEW p \in Procs, NEW path \in Paths, Open(p, path) \/ ChDir(p, path) PROVE fs' = fs
  BY <1>9 DEF Open, ChDir
<1>10. ASSUME NEW p \in Procs, NEW fd \in Slots, NEW n \in Sizes, Read(p, fd, n) PROVE fs' = fs
  BY <1>10 DEF Read
<1>11. ASSUME NEW p \in Procs, NEW fd \in Slots, Close(p, fd) PROVE fs' = fs
  BY <1>11 DEF Close
<1>12. ASSUME NEW p \in Procs, NEW fd \in Slots, NEW offset \in Offsets,
              NEW whence \in {"SEEK_SET", "SEEK_CUR", "SEEK_END"}, Seek(p, fd, offset, whence)
       PROVE  fs' = fs
  BY <1>12 DEF Seek
<1>13. CASE UNCHANGED vars
  BY <1>8, <1>13 DEF vars
<1>14. CASE Next
  BY <1>1, <1>2, <1>3, <1>4, <1>5, <1>6, <1>7, <1>8, <1>9, <1>10, <1>11, <1>12, <1>14 DEF Next
<1> QED BY <1>13, <1>14

LEMMA DotsAlways ==
  ASSUME Promised, Sizes \subseteq {0}
  PROVE  Spec => [](Fits /\ Inv /\ Clean(fs) /\ Dots(fs))
<1>1. Init => Dots(fs)
  BY MkYfsDots, MkYfsHealthy, BootDots DEF Init
<1>2. Fits /\ Inv /\ Clean(fs) /\ Dots(fs) /\ [Next]_vars => Dots(fs')
  BY DotsStep DEF Clean, Defined
<1>3. Spec => [](Fits /\ Inv /\ Clean(fs))
  BY CleanAlways
<1> DEFINE Ok == Dots(fs)
           Most == Fits /\ Inv /\ Clean(fs)
<1>4. Most /\ Ok /\ [Next]_vars => Ok'
  BY <1>2
<1>5. Init => Ok
  BY <1>1
<1>7. Spec => []Most
  BY <1>3
<1> HIDE DEF Ok, Most
<1>6. Spec => [](Most /\ Ok)
  BY <1>4, <1>5, <1>7, PTL DEF Spec
<1> QED BY <1>6 DEF Ok, Most

(* No entry after the first two has such a name.                              *)
LEMMA DotsFound ==
  ASSUME NEW m, Healthy(m), Dots(m), NEW d \in Inodes, Dir(m, d),
         NEW k \in {0, 1}, NEW name, name = CellAt(m, d, k).name
  PROVE  Found(m, d, name) /\ Inum(m, d, name) = CellAt(m, d, k).inum
<1>1. /\ m \in FsType /\ m.inode[d].size \in Nat /\ m.inode[d].size >= 2
      /\ DirOf(m, d) /\ DotRow(m, d) /\ Whole(m, d)
  BY HealthyIs, DirFacts DEF DirInv, Dots
<1>2. /\ CellAt(m, d, 0).name = "." /\ CellAt(m, d, 1).name = ".."
      /\ name \notin Names
  BY <1>1 DEF DotRow, DirOf, Dotted
<1>3. k \in Nat /\ k < m.inode[d].size
  BY <1>1
<1>4. k \in Places(m, d)
  <2>1. k \div UNITS = 0
    BY FirstPlaces
  <2>2. 0 < NumBlocks(m, d)
    <3>1. 0 * UNITS < m.inode[d].size /\ 0 \in Nat
      BY <1>1, UnitFacts
    <3>2. NthBlock(m, d, 0) # 0
      BY <1>1, <3>1 DEF Whole
    <3>3. NumBlocks(m, d) \in Nat /\ NthBlock(m, d, NumBlocks(m, d)) = 0
      BY <1>1, NumFacts, ConstantFacts
    <3> QED BY <3>2, <3>3
  <2> QED BY <1>1, <1>3, <2>1, <2>2, PlacesFacts
<1>5. k \in Matching(m, d, name)
  BY <1>4 DEF Matching
<1>6. Found(m, d, name)
  BY <1>5 DEF Found
<1> DEFINE l == Min(Matching(m, d, name))
<1>7. /\ l \in Nat /\ l < m.inode[d].size /\ CellAt(m, d, l).name = name
      /\ CellAt(m, d, l).inum = Inum(m, d, name)
  BY <1>6, InumCases
<1> HIDE DEF l
<1>8. l \notin Below(m, d)
  BY <1>1, <1>2, <1>7 DEF DirOf
<1>9. l = 0 \/ l = 1
  BY <1>1, <1>7, <1>8 DEF Below
<1>10. l = k
  BY <1>2, <1>7, <1>9
<1> QED BY <1>6, <1>7, <1>10

LEMMA DotsHold ==
  ASSUME Fits, Inv, Clean(fs), Dots(fs)
  PROVE  DotsResolve
<1>1. Healthy(fs)
  BY DEF Inv, Clean
<1> SUFFICES ASSUME NEW d \in LiveDirs
             PROVE  /\ Found(fs, d, ".") /\ Inum(fs, d, ".") = d
                    /\ Found(fs, d, "..") /\ Inum(fs, d, "..") = CellAt(fs, d, 1).inum
  BY DEF DotsResolve
<1>2. d \in Inodes /\ Dir(fs, d)
  BY <1>1, LiveLegal DEF LiveDirs, Legal
<1>3. CellAt(fs, d, 0).name = "." /\ CellAt(fs, d, 1).name = ".." /\ CellAt(fs, d, 0).inum = d
  BY <1>1, <1>2, DirFacts DEF Dots, DotRow
<1> QED BY <1>1, <1>2, <1>3, DotsFound

-----------------------------------------------------------------------------
(* No block is lost *)

(* A block behind the inode table is on the free list or in a file.           *)
OnList(m, b) == \E k \in 1 .. Len(m.b_head) : m.b_head[k] = b
InFile(m, b) == \E i \in Inodes, n \in Nat : NthBlock(m, i, n) = b
Somewhere(m, b) == OnList(m, b) \/ InFile(m, b)
Accounted(m) == \A b \in Extra : Somewhere(m, b)

LEMMA ExtraNot0 == \A b \in Extra : b # 0 /\ b \in Blocks
BY DEF Extra

LEMMA ListTaken ==
  ASSUME NEW m \in FsType, m.b_head # << >>, NEW b, OnList(m, b),
         NEW m2, m2.b_head = Rest(m.b_head)
  PROVE  b = NextBlock(m) \/ OnList(m2, b)
<1> DEFINE q == m.b_head
           r == m2.b_head
<1>1. q \in Seq(Blocks) /\ q # << >> /\ Len(q) \in Nat
  BY DEF FsType
<1>2. NextBlock(m) = q[1] /\ r = Tail(q)
  BY DEF NextBlock, Rest
<1>3. PICK k \in 1 .. Len(q) : q[k] = b
  BY DEF OnList
<1> HIDE DEF q, r
<1>4. Len(r) = Len(q) - 1 /\ \A l \in 1 .. Len(q) - 1 : r[l] = q[l + 1]
  BY <1>1, <1>2
<1>5. CASE k = 1
  BY <1>2, <1>3, <1>5
<1>6. CASE k # 1
  <2>1. k - 1 \in 1 .. Len(r) /\ (k - 1) + 1 = k /\ k - 1 \in 1 .. Len(q) - 1
    BY <1>1, <1>4, <1>6
  <2>2. r[k - 1] = b
    BY <1>3, <1>4, <2>1
  <2> QED BY <2>1, <2>2 DEF OnList, r
<1> QED BY <1>5, <1>6

(* The blocks of a file that is emptied are on the list then.                 *)
LEMMA ListFreed ==
  ASSUME NEW m \in FsType, NEW i \in Inodes, NEW m2,
         m2.b_head = Reverse(BlocksOf(m, i)) \o m.b_head
  PROVE  /\ \A b : OnList(m, b) => OnList(m2, b)
         /\ \A n \in 0 .. NumBlocks(m, i) - 1 : OnList(m2, NthBlock(m, i, n))
<1> DEFINE s == Reverse(BlocksOf(m, i))
           q == m.b_head
           h == m2.b_head
           N == NumBlocks(m, i)
<1>1. /\ s \in Seq(Blocks) /\ Len(s) = N /\ q \in Seq(Blocks) /\ h = s \o q
      /\ \A n \in 1 .. N : s[n] = NthBlock(m, i, N - n)
  BY BlocksOfType DEF FsType
<1>2. N \in Nat
  BY NumFacts, ConstantFacts
<1>3. \A b : OnList(m, b) <=> \E k \in 1 .. Len(q) : q[k] = b
  BY DEF OnList
<1>4. \A b : OnList(m2, b) <=> \E k \in 1 .. Len(h) : h[k] = b
  BY DEF OnList
<1> HIDE DEF s, q, h, N
<1>5. /\ Len(s) \in Nat /\ Len(q) \in Nat /\ Len(h) = Len(s) + Len(q)
      /\ \A k \in 1 .. Len(s) + Len(q) : h[k] = IF k <= Len(s) THEN s[k] ELSE q[k - Len(s)]
  BY <1>1
<1>6. ASSUME NEW k \in 1 .. Len(s) PROVE \E l \in 1 .. Len(h) : h[l] = s[k]
  <2>1. k \in 1 .. Len(h) /\ k \in 1 .. Len(s) + Len(q) /\ k <= Len(s)
    BY <1>5
  <2>2. h[k] = s[k]
    BY <1>5, <2>1
  <2> QED BY <2>1, <2>2
<1>7. ASSUME NEW k \in 1 .. Len(q) PROVE \E l \in 1 .. Len(h) : h[l] = q[k]
  <2> DEFINE l == Len(s) + k
  <2>1. /\ l \in 1 .. Len(h) /\ l \in 1 .. Len(s) + Len(q) /\ ~(l <= Len(s))
        /\ l - Len(s) = k
    BY <1>5
  <2> HIDE DEF l
  <2>2. h[l] = q[k]
    BY <1>5, <2>1
  <2> QED BY <2>1, <2>2
<1>8. /\ \A k \in 1 .. Len(s) : \E l \in 1 .. Len(h) : h[l] = s[k]
      /\ \A k \in 1 .. Len(q) : \E l \in 1 .. Len(h) : h[l] = q[k]
  BY <1>6, <1>7
<1>9. ASSUME NEW n \in 0 .. N - 1 PROVE OnList(m2, NthBlock(m, i, n))
  <2>1. N - n \in 1 .. N /\ N - (N - n) = n
    BY <1>2
  <2>2. s[N - n] = NthBlock(m, i, n) /\ N - n \in 1 .. Len(s)
    BY <1>1, <2>1
  <2> QED BY <1>4, <1>8, <2>2
<1>10. \A b : OnList(m, b) => OnList(m2, b)
  BY <1>3, <1>4, <1>8
<1> QED BY <1>9, <1>10 DEF N

LEMMA WholeBlocks ==
  ASSUME NEW m \in FsType, NEW i \in Inodes, Whole(m, i), NEW n \in Nat, NthBlock(m, i, n) # 0
  PROVE  n \in 0 .. NumBlocks(m, i) - 1
<1> DEFINE N == NumBlocks(m, i)
           s == m.inode[i].size
<1>1. N \in Nat /\ NthBlock(m, i, N) = 0
  BY NumFacts, ConstantFacts
<1>2. s \in Nat /\ UNITS \in Nat
  BY SizeNat, UnitFacts
<1>3. n * UNITS < s
  BY NthFacts
<1>4. ~(N * UNITS < s)
  BY <1>1 DEF Whole
<1> HIDE DEF N, s
<1>5. n < N
  BY <1>1, <1>2, <1>3, <1>4
<1> QED BY <1>1, <1>5 DEF N

LEMMA NoBlocks ==
  ASSUME NEW m \in FsType, NEW i \in Inodes, m.inode[i].size = 0
  PROVE  \A n \in Nat : NthBlock(m, i, n) = 0
<1> SUFFICES ASSUME NEW n \in Nat, NthBlock(m, i, n) # 0 PROVE FALSE
  OBVIOUS
<1>1. n * UNITS < 0
  BY NthFacts
<1>2. n * UNITS \in Nat
  BY UnitFacts
<1> QED BY <1>1, <1>2

(* What every step has to do.                                                 *)
LEMMA AccountedIf ==
  ASSUME NEW m, Accounted(m), NEW m2,
         \A b \in Extra : OnList(m, b) => Somewhere(m2, b),
         \A i \in Inodes, n \in Nat : NthBlock(m, i, n) # 0 => Somewhere(m2, NthBlock(m, i, n))
  PROVE  Accounted(m2)
BY ExtraNot0 DEF Accounted, Somewhere, InFile

LEMMA EntersAccounted ==
  ASSUME NEW m, Healthy(m), Accounted(m), m.b_head # << >>, NEW d \in Inodes,
         NEW k \in Nat, NEW j, NEW name, NEW f, Enters(m, f, d, k, j, name)
  PROVE  Accounted(f)
<1> DEFINE b == NthBlock(f, d, k \div UNITS)
<1>1. m \in FsType /\ k \div UNITS \in Nat
  BY HealthyIs, DivFacts, UnitFacts
<1>2. /\ f.b_head = m.b_head \/ (f.b_head = Rest(m.b_head) /\ b = NextBlock(m))
      /\ \A n \in Nat : NthBlock(m, d, n) # 0 => NthBlock(f, d, n) = NthBlock(m, d, n)
      /\ \A x \in Inodes : x # d => Alike(m, f, x)
  BY DEF Enters, Placed, Named
<1>3. InFile(f, b)
  BY <1>1 DEF InFile
<1> HIDE DEF b
<1>4. ASSUME NEW b2 \in Extra, OnList(m, b2) PROVE Somewhere(f, b2)
  <2>1. CASE f.b_head = m.b_head
    BY <1>4, <2>1 DEF Somewhere, OnList
  <2>2. CASE f.b_head = Rest(m.b_head) /\ b = NextBlock(m)
    <3>1. b2 = NextBlock(m) \/ OnList(f, b2)
      BY <1>1, <1>4, <2>2, ListTaken
    <3> QED BY <1>3, <2>2, <3>1 DEF Somewhere
  <2> QED BY <1>2, <2>1, <2>2
<1>5. ASSUME NEW x \in Inodes, NEW n \in Nat, NthBlock(m, x, n) # 0
      PROVE  NthBlock(f, x, n) = NthBlock(m, x, n)
  BY <1>2, <1>5 DEF Alike
<1>6. \A x \in Inodes, n \in Nat : NthBlock(m, x, n) # 0 => Somewhere(f, NthBlock(m, x, n))
  BY <1>5 DEF Somewhere, InFile
<1> QED BY <1>4, <1>6, AccountedIf

(* A step that leaves the blocks of all files that have any, and the list.    *)
LEMMA SameAccounted ==
  ASSUME NEW f, Accounted(f), NEW m2, m2.b_head = f.b_head,
         \A x \in Inodes, n \in Nat : NthBlock(f, x, n) # 0 => NthBlock(m2, x, n) = NthBlock(f, x, n)
  PROVE  Accounted(m2)
<1>1. \A b \in Extra : OnList(f, b) => Somewhere(m2, b)
  BY DEF OnList, Somewhere
<1>2. \A x \in Inodes, n \in Nat : NthBlock(f, x, n) # 0 => Somewhere(m2, NthBlock(f, x, n))
  BY DEF Somewhere, InFile
<1> QED BY <1>1, <1>2, AccountedIf

LEMMA CreatesAccounted ==
  ASSUME NEW m, Healthy(m), Accounted(m), m.b_head # << >>, m.i_head # << >>,
         NEW d \in Inodes, Dir(m, d), NEW name, NEW m2, Creates(m, m2, d, name)
  PROVE  Accounted(m2)
<1> DEFINE i == NextInode(m)
<1>1. PICK k \in Nat, f \in FsType : Enters(m, f, d, k, i, name) /\ m2 = MakeFile(f)
  BY DEF Creates
<1>2. Accounted(f) /\ Sound(f) /\ f.i_head = m.i_head /\ OnlyInode(m, f, d)
  BY <1>1, EntersAccounted DEF Enters
<1>3. i \in Inodes /\ ~Dir(m, i) /\ m.inode[i].size = 0
  BY NextUnused
<1>4. i = NextInode(f)
  BY <1>2, NextOfSame
<1> HIDE DEF i
<1>5. f.inode[i].size = 0
  BY <1>2, <1>3 DEF OnlyInode
<1>6. m2.b_head = f.b_head /\ \A x \in Inodes : x # i => Alike(f, m2, x)
  BY <1>1, <1>2, <1>4, MakeFileSound
<1>7. \A n \in Nat : NthBlock(f, i, n) = 0
  BY <1>3, <1>5, NoBlocks
<1>8. \A x \in Inodes, n \in Nat : NthBlock(f, x, n) # 0 => NthBlock(m2, x, n) = NthBlock(f, x, n)
  BY <1>6, <1>7 DEF Alike
<1> QED BY <1>2, <1>6, <1>8, SameAccounted

LEMMA LinksAccounted ==
  ASSUME NEW m, Healthy(m), Accounted(m), m.b_head # << >>, NEW d \in Inodes,
         NEW i \in Inodes, NEW name, NEW m2, Links(m, m2, d, i, name)
  PROVE  Accounted(m2)
<1>1. PICK k \in Nat, f \in FsType : Enters(m, f, d, k, i, name) /\ m2 = Counted(f, i)
  BY DEF Links
<1>2. Accounted(f) /\ Sound(f)
  BY <1>1, EntersAccounted DEF Enters
<1> DEFINE y == f.inode[i].nlink + 1
<1>3. y \in Int /\ m2 = [f EXCEPT !.inode = [f.inode EXCEPT ![i].nlink = y]]
  BY <1>1 DEF FsType, InodeType, Counted
<1> HIDE DEF y
<1>4. (\A j \in Inodes : Alike(f, m2, j)) /\ m2.b_head = f.b_head
  BY <1>2, <1>3, NlinkSound
<1> QED BY <1>2, <1>4, SameAccounted DEF Alike

LEMMA MakesDirAccounted ==
  ASSUME NEW m, Healthy(m), Accounted(m), m.b_head # << >>, m.i_head # << >>,
         NEW d \in Inodes, Dir(m, d), NEW name, NEW m2, MakesDir(m, m2, d, name)
  PROVE  Accounted(m2)
<1> DEFINE i == NextInode(m)
<1>1. PICK k \in Nat, f \in FsType :
        /\ Enters(m, f, d, k, i, name) /\ f.b_head # << >>
        /\ m2 = NewDir(f, i, d, NextBlock(f))
  BY DEF MakesDir
<1>2. Accounted(f) /\ Sound(f) /\ f.i_head = m.i_head /\ OnlyInode(m, f, d)
  BY <1>1, EntersAccounted DEF Enters
<1>3. i \in Inodes /\ ~Dir(m, i) /\ m.inode[i].size = 0
  BY NextUnused
<1>4. i = NextInode(f)
  BY <1>2, NextOfSame
<1> HIDE DEF i
<1>5. f.inode[i].size = 0
  BY <1>2, <1>3 DEF OnlyInode
<1> DEFINE b == NextBlock(f)
<1>6. m2 = NewDir(f, i, d, b)
  BY <1>1
<1> HIDE DEF b
<1>7. /\ m2.b_head = Rest(f.b_head) /\ NthBlock(m2, i, 0) = b
      /\ \A x \in Inodes : x # i => Alike(f, m2, x)
  BY <1>1, <1>2, <1>4, <1>6, NewDirSound DEF NewRow, b
<1>8. \A n \in Nat : NthBlock(f, i, n) = 0
  BY <1>3, <1>5, NoBlocks
<1>9. InFile(m2, b)
  BY <1>3, <1>7 DEF InFile
<1>10. ASSUME NEW b2 \in Extra, OnList(f, b2) PROVE Somewhere(m2, b2)
  <2>1. b2 = b \/ OnList(m2, b2)
    BY <1>1, <1>7, <1>10, ListTaken DEF b
  <2> QED BY <1>9, <2>1 DEF Somewhere
<1>11. \A x \in Inodes, n \in Nat : NthBlock(f, x, n) # 0 => Somewhere(m2, NthBlock(f, x, n))
  BY <1>7, <1>8 DEF Alike, Somewhere, InFile
<1> QED BY <1>2, <1>10, <1>11, AccountedIf

(* A file that is emptied gives its blocks back.                              *)
LEMMA FreesAccounted ==
  ASSUME NEW m, Healthy(m), Accounted(m), NEW i \in Inodes, Whole(m, i), NEW m2,
         m2.b_head = Reverse(BlocksOf(m, i)) \o m.b_head,
         \A x \in Inodes, n \in Nat : x # i => NthBlock(m2, x, n) = NthBlock(m, x, n)
  PROVE  Accounted(m2)
<1>1. m \in FsType
  BY HealthyIs
<1>2. /\ \A b : OnList(m, b) => OnList(m2, b)
      /\ \A n \in 0 .. NumBlocks(m, i) - 1 : OnList(m2, NthBlock(m, i, n))
  BY <1>1, ListFreed
<1>3. \A b \in Extra : OnList(m, b) => Somewhere(m2, b)
  BY <1>2 DEF Somewhere
<1>4. ASSUME NEW x \in Inodes, NEW n \in Nat, NthBlock(m, x, n) # 0
      PROVE  Somewhere(m2, NthBlock(m, x, n))
  <2>1. CASE x = i
    BY <1>1, <1>2, <1>4, <2>1, WholeBlocks DEF Somewhere
  <2>2. CASE x # i
    BY <2>2 DEF Somewhere, InFile
  <2> QED BY <2>1, <2>2
<1> QED BY <1>3, <1>4, AccountedIf

LEMMA ClearAccounted ==
  ASSUME NEW m, Healthy(m), Accounted(m), NEW i \in Inodes, Whole(m, i), NEW m2, m2 = Clear(m, i)
  PROVE  Accounted(m2)
<1>1. Sound(m) /\ m \in FsType
  BY HealthyIs
<1>2. m2.b_head = Reverse(BlocksOf(m, i)) \o m.b_head
  BY <1>1, ClearFacts
<1>3. \A x \in Inodes : x # i => Alike(m, m2, x)
  BY <1>1, ClearSound
<1> QED BY <1>2, <1>3, FreesAccounted DEF Alike

LEMMA UnlinksAccounted ==
  ASSUME NEW m, Healthy(m), Accounted(m), NEW d \in Inodes, NEW t \in Inodes \ {0},
         m.inode[t].size = 0, NEW name, NEW m2, Unlinks(m, m2, d, t, name)
  PROVE  Accounted(m2)
<1> DEFINE f == Dropped(m, t)
<1>1. Sound(m2) /\ m2.inode = f.inode /\ m2.b_head = f.b_head
  BY DEF Unlinks, Removed
<1>2. /\ Sound(m) /\ m \in FsType /\ OnlyInode(m, f, t)
      /\ \A x \in Inodes : f.inode[x].direct = m.inode[x].direct
      /\ DroppedList(m, f, t)
  BY HealthyIs, DroppedFacts
<1> HIDE DEF f
<1>3. \A n \in Nat : NthBlock(m, t, n) = 0
  BY <1>2, NoBlocks
<1>4. ASSUME NEW x \in Inodes, x # t PROVE \A n \in Nat : NthBlock(m2, x, n) = NthBlock(m, x, n)
  <2>1. m2.inode[x] = m.inode[x]
    BY <1>1, <1>2, <1>4 DEF OnlyInode
  <2> QED BY <1>1, <1>2, <2>1, NthOfInode
<1>5. CASE m2.b_head = m.b_head
  BY <1>3, <1>4, <1>5, SameAccounted
<1>6. CASE m2.b_head = Reverse(BlocksOf(m, t)) \o m.b_head
  BY <1>4, <1>6, NoData, FreesAccounted
<1> QED BY <1>1, <1>2, <1>5, <1>6 DEF DroppedList

LEMMA RemovesAccounted ==
  ASSUME NEW m, Healthy(m), Accounted(m), NEW d \in Inodes, NEW t \in Inodes \ {0},
         Dir(m, t), NEW name, NEW m2, Removes(m, m2, d, t, name)
  PROVE  Accounted(m2)
<1> DEFINE c == Clear(m, t)
<1>1. Sound(m2) /\ m2.inode = Gone(m, t).inode /\ m2.b_head = Gone(m, t).b_head
  BY DEF Removes, Removed
<1>2. Sound(m) /\ m \in FsType /\ Whole(m, t)
  BY HealthyIs, DirFacts
<1>3. OnlyInode(m, c, t)
  BY <1>2, ClearSound
<1>4. m2.inode = c.inode /\ m2.b_head = c.b_head
  BY <1>1, <1>2, GoneType
<1>5. c.b_head = Reverse(BlocksOf(m, t)) \o m.b_head
  BY <1>2, ClearFacts
<1> HIDE DEF c
<1>6. ASSUME NEW x \in Inodes, x # t PROVE \A n \in Nat : NthBlock(m2, x, n) = NthBlock(m, x, n)
  <2>1. m2.inode[x] = m.inode[x]
    BY <1>3, <1>4, <1>6 DEF OnlyInode
  <2> QED BY <1>1, <1>2, <2>1, NthOfInode
<1> QED BY <1>2, <1>4, <1>5, <1>6, FreesAccounted

(* The list that the server makes of the disk of mkyfs has all other blocks.  *)
LEMMA FirstAccounted ==
  ASSUME NEW m, m = Boot(MkYfs)
  PROVE  Accounted(m)
<1> DEFINE B == NumTable + 1
           free == {i \in Scanned : MkYfs.inode[i].type = INODE_FREE}
           used == {0} \cup UNION {Pointers(MkYfs, i) : i \in Scanned \ free}
           S == Blocks \ used
<1>1. /\ MkYfs \in FsType /\ m \in FsType /\ m.inode = MkYfs.inode
      /\ m.b_head = Descending(S, NUM_BLOCKS)
  BY MkYfsType, BootType
<1>2. \A n \in 0 .. NUM_INDIRECT - 1 : MkYfs.indirect[n] = 0
  BY DEF MkYfs
<1>3. \A i \in Inodes : \A n \in 0 .. MaxBlocks - 1 : Pointer(MkYfs, i, n) \in {0, B}
  <2> SUFFICES ASSUME NEW i \in Inodes, NEW n \in 0 .. MaxBlocks - 1
               PROVE  Pointer(MkYfs, i, n) \in {0, B}
    OBVIOUS
  <2>1. NUM_DIRECT \in Nat /\ NUM_INDIRECT \in Nat /\ MaxBlocks = NUM_DIRECT + NUM_INDIRECT
    BY ConstantFacts DEF MaxBlocks
  <2>2. CASE n < NUM_DIRECT
    <3>1. n \in 0 .. NUM_DIRECT - 1
      BY <2>1, <2>2
    <3> QED BY <2>2, <3>1, MkYfsDirect DEF Pointer
  <2>3. CASE ~(n < NUM_DIRECT)
    <3>1. n - NUM_DIRECT \in 0 .. NUM_INDIRECT - 1
      BY <2>1, <2>3
    <3> QED BY <1>2, <2>3, <3>1 DEF Pointer
  <2> QED BY <2>2, <2>3
<1>4. ASSUME NEW i \in Inodes PROVE Pointers(MkYfs, i) \subseteq {0, B}
  <2> DEFINE ends == {k \in 0 .. MaxBlocks : k = MaxBlocks \/ Pointer(MkYfs, i, k) = 0}
             n == Min(ends)
  <2>1. MaxBlocks \in Nat /\ MaxBlocks \in ends
    BY ConstantFacts
  <2>2. n \in 0 .. MaxBlocks
    <3>1. ends \subseteq Nat /\ ends # {}
      BY <2>1
    <3>2. n \in ends
      <4> HIDE DEF ends
      <4> QED BY <3>1, MinFacts
    <3> QED BY <3>2
  <2>3. Pointers(MkYfs, i) = {Pointer(MkYfs, i, k) : k \in 0 .. n - 1}
    BY DEF Pointers
  <2> HIDE DEF n
  <2>4. 0 .. n - 1 \subseteq 0 .. MaxBlocks - 1
    BY <2>1, <2>2
  <2> QED BY <1>3, <2>3, <2>4
<1>5. used \subseteq {0, B}
  BY <1>4, RootScanned
<1>6. ListOf(S, NUM_BLOCKS, m.b_head)
  <2>1. NUM_BLOCKS \in Nat
    BY ConstantFacts
  <2> HIDE DEF S
  <2> QED BY <1>1, <2>1, DescendingFacts
<1> HIDE DEF used
<1>7. ASSUME NEW b \in Extra, b # B PROVE OnList(m, b)
  <2>1. b \in S \cap (0 .. NUM_BLOCKS - 1)
    BY <1>5, <1>7, ExtraNot0 DEF Blocks
  <2> HIDE DEF S
  <2> QED BY <1>6, <2>1 DEF ListOf, OnList
<1>8. InFile(m, B)
  <2>1. ROOTINODE \in Inodes /\ MaxBlocks >= 1 /\ NUM_DIRECT >= 1 /\ MaxBlocks \in Nat /\ NUM_DIRECT \in Nat
    BY ConstantFacts DEF ROOTINODE
  <2>2. m.inode[ROOTINODE].size = 2 /\ m.inode[ROOTINODE].direct[0] = B
    BY <1>1, <2>1, MkYfsType
  <2>3. 0 * UNITS < 2 /\ 0 < MaxBlocks /\ 0 < NUM_DIRECT /\ 0 \in Nat
    BY <2>1, UnitFacts
  <2> HIDE DEF B
  <2>4. NthBlock(m, ROOTINODE, 0) = B
    BY <2>2, <2>3 DEF NthBlock, Pointer
  <2> QED BY <2>1, <2>3, <2>4 DEF InFile
<1> QED BY <1>7, <1>8 DEF Accounted, Somewhere

LEMMA RoomLeft ==
  ASSUME fs \in FsType, NEW n \in Nat, n > 0, Tabled(n)
  PROVE  fs.b_head # << >>
<1>1. NumTable \in Nat /\ fs.b_head \in Seq(Blocks) /\ Len(fs.b_head) >= NumTable + n
  BY ConstantFacts DEF Tabled, FsType
<1> QED BY <1>1

LEMMA AccountedStep ==
  ASSUME Promised, "stay" \in Promises, Sizes \subseteq {0}, Fits, Inv, Defined, Unwritten(fs),
         Accounted(fs), [Next]_vars
  PROVE  Accounted(fs')
<1>1. ASSUME NEW p \in Procs, NEW path \in Paths, Create(p, path) PROVE Accounted(fs')
  <2> DEFINE d == Parent(p, path)
             t == Target(p, path)
  <2>1. /\ Healthy(fs) /\ d \in Inodes /\ Dir(fs, d) /\ t \in Inodes /\ ~IsDir(fs, t)
        /\ t # 0 => fs' = Clear(fs, t)
        /\ fs.b_head # << >> /\ (t = 0 \/ Legal(fs, t))
        /\ t = 0 => fs.i_head # << >> /\ Creates(fs, fs', d, FileName(path))
    BY <1>1, Created, HealthyIs, RoomLeft
  <2> HIDE DEF d, t
  <2>2. CASE t # 0
    <3>1. Whole(fs, t)
      BY <2>1, NoData DEF Unwritten
    <3> QED BY <2>1, <2>2, <3>1, ClearAccounted
  <2>3. CASE t = 0
    BY <2>1, <2>3, CreatesAccounted
  <2> QED BY <2>2, <2>3
<1>2. ASSUME NEW p \in Procs, NEW old \in Paths, NEW new \in Paths, Link(p, old, new)
      PROVE  Accounted(fs')
  <2> DEFINE d == LinkParent(p, old, new)
  <2>1. /\ Healthy(fs) /\ d \in Inodes /\ Dir(fs, d) /\ fs.b_head # << >>
        /\ \/ fs' = fs
           \/ \E i \in Inodes \ {0} :
                Legal(fs, i) /\ ~IsDir(fs, i) /\ Links(fs, fs', d, i, FileName(new))
    BY <1>2, Linked, HealthyIs, RoomLeft
  <2> HIDE DEF d
  <2> QED BY <2>1, LinksAccounted
<1>3. ASSUME NEW p \in Procs, NEW path \in Paths, Unlink(p, path) PROVE Accounted(fs')
  <2> DEFINE d == Parent(p, path)
             t == Target(p, path)
  <2>1. /\ Healthy(fs) /\ d \in Inodes /\ Dir(fs, d) /\ t \in Inodes \ {0} /\ ~IsDir(fs, t)
        /\ Unlinks(fs, fs', d, t, FileName(path))
    BY <1>3, Unlinked
  <2> HIDE DEF d, t
  <2>2. fs.inode[t].size = 0
    BY <2>1 DEF Unwritten
  <2> QED BY <2>1, <2>2, UnlinksAccounted
<1>4. ASSUME NEW p \in Procs, NEW path \in Paths, MkDir(p, path) PROVE Accounted(fs')
  <2> DEFINE d == Parent(p, path)
             t == Target(p, path)
  <2>1. /\ Healthy(fs) /\ d \in Inodes /\ Dir(fs, d)
        /\ fs.b_head # << >> /\ (t # 0 => fs' = fs)
        /\ t = 0 => fs.i_head # << >> /\ MakesDir(fs, fs', d, FileName(path))
    BY <1>4, DirMadeIn, HealthyIs, RoomLeft
  <2> HIDE DEF d, t
  <2> QED BY <2>1, MakesDirAccounted
<1>5. ASSUME NEW p \in Procs, NEW path \in Paths, RmDir(p, path) PROVE Accounted(fs')
  <2> DEFINE d == Parent(p, path)
             t == Target(p, path)
  <2>1. /\ Healthy(fs) /\ d \in Inodes /\ Dir(fs, d) /\ t \in Inodes \ {0} /\ Dir(fs, t)
        /\ fs.inode[t].size > 2 => fs' = fs
        /\ fs.inode[t].size <= 2 => t # d /\ Removes(fs, fs', d, t, FileName(path))
    BY <1>5, DirRemoved DEF Legal
  <2> HIDE DEF d, t
  <2>2. fs.inode[t].size \in Nat
    BY <2>1, SizeNat DEF Healthy, Safe, Sound
  <2>3. fs.inode[t].size > 2 \/ fs.inode[t].size <= 2
    BY <2>2
  <2> QED BY <2>1, <2>3, RemovesAccounted
<1>6. ASSUME NEW p \in Procs, NEW fd \in Slots, NEW n \in Sizes, Write(p, fd, n) PROVE Accounted(fs')
  <2> DEFINE i == fds[p][fd].i_num
             pos == fds[p][fd].pos
  <2>1. /\ Healthy(fs) /\ i \in Inodes /\ pos \in Nat /\ n = 0
    BY <1>6, Wrote
  <2>2. PICK valid \in 0 .. n : fs' = WriteFile(fs, i, pos, n, valid).fs
    BY <1>6, Wrote
  <2> HIDE DEF i, pos
  <2>3. fs \in FsType /\ valid \in Nat
    BY <2>1, HealthyIs
  <2>4. fs' = fs
    BY <2>1, <2>2, <2>3, NothingWritten
  <2> QED BY <2>4
<1>7. ~Restart
  BY DEF Restart, Kept
<1>8. fs' = fs => Accounted(fs')
  OBVIOUS
<1>9. ASSUME NEW p \in Procs, NEW path \in Paths, Open(p, path) \/ ChDir(p, path) PROVE fs' = fs
  BY <1>9 DEF Open, ChDir
<1>10. ASSUME NEW p \in Procs, NEW fd \in Slots, NEW n \in Sizes, Read(p, fd, n) PROVE fs' = fs
  BY <1>10 DEF Read
<1>11. ASSUME NEW p \in Procs, NEW fd \in Slots, Close(p, fd) PROVE fs' = fs
  BY <1>11 DEF Close
<1>12. ASSUME NEW p \in Procs, NEW fd \in Slots, NEW offset \in Offsets,
              NEW whence \in {"SEEK_SET", "SEEK_CUR", "SEEK_END"}, Seek(p, fd, offset, whence)
       PROVE  fs' = fs
  BY <1>12 DEF Seek
<1>13. CASE UNCHANGED vars
  BY <1>8, <1>13 DEF vars
<1>14. CASE Next
  BY <1>1, <1>2, <1>3, <1>4, <1>5, <1>6, <1>7, <1>8, <1>9, <1>10, <1>11, <1>12, <1>14 DEF Next
<1> QED BY <1>13, <1>14

LEMMA AccountedAlways ==
  ASSUME Promised, "stay" \in Promises, Sizes \subseteq {0}
  PROVE  Spec => [](Fits /\ Inv /\ Clean(fs) /\ Graph(fs) /\ Dots(fs) /\ Accounted(fs))
<1>1. Init => Accounted(fs)
  BY FirstAccounted DEF Init
<1>2. Fits /\ Inv /\ Clean(fs) /\ Graph(fs) /\ Dots(fs) /\ Accounted(fs) /\ [Next]_vars
      => Accounted(fs')
  BY AccountedStep DEF Clean, Defined, Dots
<1>3. Spec => [](Fits /\ Inv /\ Clean(fs) /\ Graph(fs))
  BY GraphAlways
<1>4. Spec => [](Fits /\ Inv /\ Clean(fs) /\ Dots(fs))
  BY DotsAlways
<1> DEFINE Ok == Accounted(fs)
           Most == Fits /\ Inv /\ Clean(fs) /\ Graph(fs)
           Dot == Dots(fs)
<1>5. Most /\ Dot /\ Ok /\ [Next]_vars => Ok'
  BY <1>2
<1>6. Init => Ok
  BY <1>1
<1>7. Spec => [](Most /\ Dot)
  BY <1>3, <1>4, PTL
<1> HIDE DEF Ok, Most, Dot
<1>8. Spec => [](Most /\ Dot /\ Ok)
  BY <1>5, <1>6, <1>7, PTL DEF Spec
<1> QED BY <1>8 DEF Ok, Most, Dot

LEMMA AccountedHolds ==
  ASSUME Healthy(fs), Graph(fs), Unwritten(fs), Accounted(fs)
  PROVE  BlocksAccounted
<1>1. SUFFICES ASSUME NEW b \in Extra PROVE UsesIn(AllUses, b) # {} \/ FreeAt(b) # {}
  BY DEF BlocksAccounted
<1>2. b # 0 /\ fs \in FsType
  BY ExtraNot0, HealthyIs
<1>3. CASE OnList(fs, b)
  <2>1. DOMAIN fs.b_head = 1 .. Len(fs.b_head)
    BY <1>2 DEF FsType
  <2> QED BY <1>3, <2>1 DEF OnList, FreeAt
<1>4. CASE InFile(fs, b)
  <2>1. PICK i \in Inodes, n \in Nat : NthBlock(fs, i, n) = b
    BY <1>4 DEF InFile
  <2>2. fs.inode[i].size # 0
    BY <1>2, <2>1, NoBlocks
  <2>3. Dir(fs, i)
    BY <1>2, <2>2, SizeNat DEF Unwritten, Dir
  <2>4. i \in InUse
    BY <2>3, DirsAreLive DEF Graph, LiveDirs, InUse
  <2>5. n \in 0 .. NumBlocks(fs, i) - 1
    BY <1>2, <2>1, <2>3, DirFacts, WholeBlocks
  <2>6. <<i, n>> \in AllUses
    BY <2>4, <2>5 DEF AllUses
  <2> QED BY <2>1, <2>6 DEF UsesIn
<1> QED BY <1>3, <1>4 DEF Accounted, Somewhere

-----------------------------------------------------------------------------
(* The tree that processes see *)

LEMMA NullIs ==
  /\ NULL \notin Inodes /\ NULL \notin Nat /\ Inodes \subseteq Nat
  /\ \A i \in Nat, pos \in Nat : [i_num |-> i, pos |-> pos] # NULL
<1>1. Inodes \subseteq Nat
  BY DEF Inodes
<1>2. ASSUME NEW i \in Nat, NEW pos \in Nat PROVE [i_num |-> i, pos |-> pos] # NULL
  <2>1. [i_num |-> i, pos |-> pos] \in [i_num : Nat, pos : Nat]
    OBVIOUS
  <2> QED BY <2>1, NullAssumption
<1> QED BY <1>1, <1>2, NullAssumption

(* What a directory has under a name.                                         *)
Leads(m, d, name, j) == \E k \in Nat : Edge(m, d, k, j) /\ CellAt(m, d, k).name = name

LEMMA LeadsOnce ==
  ASSUME NEW m, Healthy(m), NEW d \in Inodes, NEW k \in Nat, NEW l \in Nat, NEW i, NEW j,
         Edge(m, d, k, i), Edge(m, d, l, j), CellAt(m, d, k).name = CellAt(m, d, l).name
  PROVE  k = l /\ i = j
<1>1. DirOf(m, d)
  BY HealthyIs DEF DirInv
<1>2. k \in Below(m, d) /\ l \in Below(m, d) /\ Dir(m, d)
  BY DEF Edge, Entry
<1>3. k = l
  BY <1>1, <1>2 DEF DirOf
<1> QED BY <1>3 DEF Edge, Entry

LEMMA EntryOfCases ==
  ASSUME NEW m, NEW i, NEW name, NEW at,
         at = {k \in 2 .. m.inode[i].size - 1 : CellAt(m, i, k).name = name /\ CellAt(m, i, k).inum # 0}
  PROVE  /\ at = {} => EntryOf(m, i, name) = NULL
         /\ at # {} => \E k \in at : EntryOf(m, i, name) = CellAt(m, i, k).inum
<1> DEFINE cells == {CellAt(m, i, k) : k \in 2 .. m.inode[i].size - 1}
           here == {c.inum : c \in {x \in cells : x.name = name}} \ {0}
<1>1. EntryOf(m, i, name) = IF here = {} THEN NULL ELSE CHOOSE j \in here : TRUE
  BY DEF EntryOf
<1>2. \A j \in here : \E k \in at : j = CellAt(m, i, k).inum
  OBVIOUS
<1>3. \A k \in at : CellAt(m, i, k).inum \in here
  OBVIOUS
<1> HIDE DEF here, cells
<1> QED BY <1>1, <1>2, <1>3

LEMMA EntryOfIs ==
  ASSUME NEW m, Healthy(m), NEW d \in Inodes, Dir(m, d), NEW name
  PROVE  /\ EntryOf(m, d, name) \in (Inodes \ {0}) \cup {NULL}
         /\ \A j \in Inodes \ {0} : EntryOf(m, d, name) = j <=> Leads(m, d, name, j)
<1> DEFINE here == {k \in 2 .. m.inode[d].size - 1 :
                      CellAt(m, d, k).name = name /\ CellAt(m, d, k).inum # 0}
<1>1. /\ here = {} => EntryOf(m, d, name) = NULL
      /\ here # {} => \E k \in here : EntryOf(m, d, name) = CellAt(m, d, k).inum
  BY EntryOfCases
<1>2. \A k \in here : k \in Nat /\ k \in Below(m, d) /\ CellAt(m, d, k).name = name
                      /\ CellAt(m, d, k).inum # 0
  BY DEF Below
<1>3. \A k \in Nat, j \in Inodes : Edge(m, d, k, j) /\ CellAt(m, d, k).name = name => k \in here
  BY DEF Edge, Entry, Below
<1> HIDE DEF here
<1>4. CASE here = {}
  <2>1. \A j \in Inodes : ~Leads(m, d, name, j)
    BY <1>3, <1>4 DEF Leads
  <2> QED BY <1>1, <1>4, <2>1, NullIs
<1>5. CASE here # {}
  <2>0. PICK k0 \in here : EntryOf(m, d, name) = CellAt(m, d, k0).inum
    BY <1>1, <1>5
  <2> DEFINE j0 == CellAt(m, d, k0).inum
  <2>1. k0 \in Nat /\ k0 \in Below(m, d) /\ CellAt(m, d, k0).name = name /\ j0 # 0
    BY <1>2
  <2>2. j0 \in Inodes
    BY <2>1, HealthyIs, CellFacts DEF CellType
  <2>3. Edge(m, d, k0, j0)
    BY <2>1 DEF Edge, Entry
  <2>4. EntryOf(m, d, name) = j0
    BY <2>0
  <2> HIDE DEF j0
  <2>5. Leads(m, d, name, j0)
    BY <2>1, <2>3 DEF Leads
  <2>6. ASSUME NEW j \in Inodes, Leads(m, d, name, j) PROVE j = j0
    <3>1. PICK k \in Nat : Edge(m, d, k, j) /\ CellAt(m, d, k).name = name
      BY <2>6 DEF Leads
    <3> QED BY <2>1, <2>3, <3>1, LeadsOnce
  <2> QED BY <2>1, <2>2, <2>4, <2>5, <2>6
<1> QED BY <1>4, <1>5

LEMMA TreeIs ==
  ASSUME NEW m, Healthy(m), NEW t, t = TreeOf(m)
  PROVE  /\ t = [entry |-> t.entry, up |-> t.up, size |-> t.size]
         /\ t.entry \in [Inodes -> [Names -> (Inodes \ {0}) \cup {NULL}]]
         /\ t.up \in [Inodes -> (Inodes \ {0}) \cup {NULL}] /\ t.size \in [Inodes -> Nat \cup {NULL}]
         /\ \A d \in Inodes, name \in Names :
              /\ Dir(m, d) => t.entry[d][name] = EntryOf(m, d, name)
              /\ ~Dir(m, d) => t.entry[d][name] = NULL
         /\ \A d \in Inodes, name \in Names, j \in Inodes \ {0} :
              t.entry[d][name] = j <=> Leads(m, d, name, j)
         /\ \A d \in Inodes : t.up[d] = IF Dir(m, d) THEN CellAt(m, d, 1).inum ELSE NULL
         /\ \A i \in Inodes : t.size[i] = IF Regular(m, i) THEN m.inode[i].size ELSE NULL
         /\ \A i \in Inodes : Tree!IsDir(t, i) <=> Dir(m, i)
         /\ \A i \in Inodes : Tree!IsFile(t, i) <=> Regular(m, i)
<1>1. m \in FsType
  BY HealthyIs
<1>2. ASSUME NEW d \in Inodes, NEW name \in Names
      PROVE  /\ Dir(m, d) => t.entry[d][name] = EntryOf(m, d, name)
             /\ ~Dir(m, d) => t.entry[d][name] = NULL
  <2>1. t.entry[d] = IF IsDir(m, d) THEN [x \in Names |-> EntryOf(m, d, x)] ELSE NoEntries
    BY DEF TreeOf
  <2>2. CASE ~IsDir(m, d)
    BY <2>1, <2>2 DEF NoEntries, Dir
  <2>3. CASE IsDir(m, d) /\ ~Dir(m, d)
    <3>1. m.inode[d].size = 0
      BY <1>1, <2>3, SizeNat DEF Dir
    <3>2. {k \in 2 .. m.inode[d].size - 1 :
             CellAt(m, d, k).name = name /\ CellAt(m, d, k).inum # 0} = {}
      BY <3>1
    <3>3. EntryOf(m, d, name) = NULL
      BY <3>2, EntryOfCases
    <3> QED BY <2>1, <2>3, <3>3
  <2>4. CASE Dir(m, d)
    BY <2>1, <2>4 DEF Dir
  <2> QED BY <2>2, <2>3, <2>4
<1>3. ASSUME NEW d \in Inodes, NEW name \in Names
      PROVE  /\ t.entry[d][name] \in (Inodes \ {0}) \cup {NULL}
             /\ \A j \in Inodes \ {0} : t.entry[d][name] = j <=> Leads(m, d, name, j)
  <2>1. CASE Dir(m, d)
    BY <1>2, <2>1, EntryOfIs
  <2>2. CASE ~Dir(m, d)
    <3>1. \A j : ~Leads(m, d, name, j)
      BY <2>2 DEF Leads, Edge
    <3> QED BY <1>2, <2>2, <3>1, NullIs
  <2> QED BY <2>1, <2>2
<1>4. ASSUME NEW d \in Inodes PROVE t.entry[d] = [name \in Names |-> t.entry[d][name]]
  BY DEF TreeOf, NoEntries
<1>5. /\ t = [entry |-> t.entry, up |-> t.up, size |-> t.size]
      /\ t.entry = [d \in Inodes |-> t.entry[d]]
      /\ t.up = [d \in Inodes |-> IF Dir(m, d) THEN CellAt(m, d, 1).inum ELSE NULL]
      /\ t.size = [i \in Inodes |-> IF Regular(m, i) THEN m.inode[i].size ELSE NULL]
  BY DEF TreeOf, Dir, Regular
<1>6. \A d \in Inodes : Dir(m, d) => CellAt(m, d, 1).inum \in Inodes \ {0}
  BY DirFacts
<1>7. \A i \in Inodes : m.inode[i].size \in Nat
  BY <1>1, SizeNat
<1>8. \A i \in Inodes : Tree!IsDir(t, i) <=> Dir(m, i)
  BY <1>5, <1>6, NullIs DEF Tree!IsDir
<1>9. \A i \in Inodes : Tree!IsFile(t, i) <=> Regular(m, i)
  BY <1>5, <1>7, NullIs DEF Tree!IsFile
<1> HIDE DEF TreeOf
<1>10. t.entry \in [Inodes -> [Names -> (Inodes \ {0}) \cup {NULL}]]
  <2>1. \A d \in Inodes : t.entry[d] \in [Names -> (Inodes \ {0}) \cup {NULL}]
    <3> SUFFICES ASSUME NEW d \in Inodes PROVE t.entry[d] \in [Names -> (Inodes \ {0}) \cup {NULL}]
      OBVIOUS
    <3> DEFINE e == t.entry[d]
    <3>1. e = [name \in Names |-> e[name]] /\ \A name \in Names : e[name] \in (Inodes \ {0}) \cup {NULL}
      BY <1>3, <1>4
    <3> HIDE DEF e
    <3>2. e \in [Names -> (Inodes \ {0}) \cup {NULL}]
      BY <3>1
    <3> QED BY <3>2 DEF e
  <2> DEFINE e == t.entry
  <2>2. e = [d \in Inodes |-> e[d]] /\ \A d \in Inodes : e[d] \in [Names -> (Inodes \ {0}) \cup {NULL}]
    BY <1>5, <2>1
  <2> HIDE DEF e
  <2>3. e \in [Inodes -> [Names -> (Inodes \ {0}) \cup {NULL}]]
    BY <2>2
  <2> QED BY <2>3 DEF e
<1>11. t.up \in [Inodes -> (Inodes \ {0}) \cup {NULL}] /\ t.size \in [Inodes -> Nat \cup {NULL}]
  BY <1>5, <1>6, <1>7, SMTT(30)
<1> QED BY <1>2, <1>3, <1>5, <1>8, <1>9, <1>10, <1>11

-----------------------------------------------------------------------------
(* A path leads in the tree where it leads in the file system *)

TreeStep(t, i, part) ==
  IF i = NULL \/ ~Tree!IsDir(t, i) THEN NULL
  ELSE CASE part = "."     -> i
         [] part = ".."    -> t.up[i]
         [] part \in Names -> t.entry[i][part]
         [] OTHER          -> NULL

TreeWalking(t, start, parts, it) ==
  it = [s \in SUBSET (DOMAIN parts) |->
          IF s = {} THEN start ELSE TreeStep(t, it[s \ {Max(s)}], parts[Max(s)])]

LEMMA TreeWalkIs ==
  ASSUME NEW t, NEW start, NEW parts, NEW i,
         i = (CHOOSE it : TreeWalking(t, start, parts, it))[DOMAIN parts]
  PROVE  Tree!Walk(t, parts, start) = i
BY DEF Tree!Walk, Tree!FoldLeft, Tree!MapThenFoldSet, Tree!Max, Max, TreeWalking, TreeStep

LEMMA TreeStepType ==
  ASSUME NEW m, Healthy(m), NEW t, t = TreeOf(m), NEW i \in Inodes \cup {NULL}, NEW part
  PROVE  TreeStep(t, i, part) \in Inodes \cup {NULL}
<1>1. /\ t.entry \in [Inodes -> [Names -> (Inodes \ {0}) \cup {NULL}]]
      /\ t.up \in [Inodes -> (Inodes \ {0}) \cup {NULL}]
  BY TreeIs
<1>2. CASE i = NULL \/ ~Tree!IsDir(t, i)
  BY <1>2 DEF TreeStep
<1>3. CASE i # NULL /\ Tree!IsDir(t, i)
  <2>1. i \in Inodes
    BY <1>3
  <2>2. t.up[i] \in Inodes \cup {NULL}
    BY <1>1, <2>1
  <2>3. part \in Names => t.entry[i][part] \in Inodes \cup {NULL}
    BY <1>1, <2>1
  <2>4. part = "." \/ part = ".." \/ part \in Names \/ part \notin Names \cup {".", ".."}
    OBVIOUS
  <2>5. /\ part = "." => TreeStep(t, i, part) = i
        /\ part = ".." => TreeStep(t, i, part) = t.up[i]
        /\ part \in Names => TreeStep(t, i, part) = t.entry[i][part]
        /\ part \notin Names \cup {".", ".."} => TreeStep(t, i, part) = NULL
    BY <1>3, PathsAssumption DEF TreeStep
  <2> QED BY <2>1, <2>2, <2>3, <2>4, <2>5
<1> QED BY <1>2, <1>3

LEMMA TreeSteps ==
  ASSUME NEW m, Healthy(m), NEW t, t = TreeOf(m), NEW parts \in Seq(PathNames), NEW start \in Inodes
  PROVE  \E at \in [0 .. Len(parts) -> Inodes \cup {NULL}] :
           /\ at[0] = start
           /\ \A k \in 1 .. Len(parts) : at[k] = TreeStep(t, at[k - 1], parts[k])
           /\ Tree!Walk(t, parts, start) = at[Len(parts)]
<1> DEFINE A == Inodes \cup {NULL}
           l == Len(parts)
           G == [x \in A \X (1 .. l) |-> TreeStep(t, x[1], parts[x[2]])]
<1>1. l \in Nat /\ DOMAIN parts = 1 .. l
  OBVIOUS
<1>2. \A a \in A : \A k \in 1 .. l : G[<<a, k>>] = TreeStep(t, a, parts[k]) /\ G[<<a, k>>] \in A
  BY TreeStepType
<1> HIDE DEF G
<1>3. start \in A
  OBVIOUS
<1>4. PICK it0 \in [SUBSET (1 .. l) -> A] : Folding(start, G, l, it0)
  <2> HIDE DEF A, l
  <2>1. \A a \in A : \A k \in 1 .. l : G[<<a, k>>] \in A
    BY <1>2
  <2> QED
    BY <1>1, <1>3, <2>1, FoldExists
<1>5. \A s \in SUBSET (1 .. l) : s # {} => Max(s) \in 1 .. l /\ s \ {Max(s)} \in SUBSET (1 .. l)
  <2> SUFFICES ASSUME NEW s \in SUBSET (1 .. l), s # {}
               PROVE  Max(s) \in 1 .. l
    OBVIOUS
  <2>1. Max(s) \in s
    BY <1>1, MaxOfInterval
  <2> QED
    BY <2>1
<1>6. TreeWalking(t, start, parts, it0)
  <2>1. \A s \in SUBSET (1 .. l) : s # {} =>
          G[<<it0[s \ {Max(s)}], Max(s)>>] = TreeStep(t, it0[s \ {Max(s)}], parts[Max(s)])
    <3> SUFFICES ASSUME NEW s \in SUBSET (1 .. l), s # {}
                 PROVE  G[<<it0[s \ {Max(s)}], Max(s)>>] = TreeStep(t, it0[s \ {Max(s)}], parts[Max(s)])
      OBVIOUS
    <3> DEFINE r == s \ {Max(s)}
               x == Max(s)
    <3>1. r \in SUBSET (1 .. l) /\ x \in 1 .. l
      BY <1>5
    <3> HIDE DEF r, x
    <3>2. it0[r] \in A
      BY <1>4, <3>1
    <3>3. G[<<it0[r], x>>] = TreeStep(t, it0[r], parts[x])
      BY <1>2, <3>1, <3>2
    <3> QED
      BY <3>3 DEF r, x
  <2>2. [s \in SUBSET (1 .. l) |->
           IF s = {} THEN start ELSE G[<<it0[s \ {Max(s)}], Max(s)>>]]
        = [s \in SUBSET (1 .. l) |->
             IF s = {} THEN start ELSE TreeStep(t, it0[s \ {Max(s)}], parts[Max(s)])]
    BY <2>1
  <2>3. it0 = [s \in SUBSET (1 .. l) |->
                 IF s = {} THEN start ELSE TreeStep(t, it0[s \ {Max(s)}], parts[Max(s)])]
    BY <1>4, <2>2 DEF Folding
  <2> QED
    BY <1>1, <2>3 DEF TreeWalking
<1> DEFINE it == CHOOSE it : TreeWalking(t, start, parts, it)
           at == [k \in 0 .. l |-> it[1 .. k]]
<1>7. TreeWalking(t, start, parts, it)
  BY <1>6
<1>8. Tree!Walk(t, parts, start) = it[1 .. l]
  BY <1>1, TreeWalkIs, SMTT(30)
<1> HIDE DEF it
<1>9. it = [s \in SUBSET (1 .. l) |->
              IF s = {} THEN start ELSE TreeStep(t, it[s \ {Max(s)}], parts[Max(s)])]
  BY <1>1, <1>7 DEF TreeWalking
<1>10. at[0] = start
  <2>1. 1 .. 0 = {} /\ {} \in SUBSET (1 .. l) /\ 0 \in 0 .. l
    BY <1>1
  <2>2. it[{}] = start
    BY <1>9, <2>1
  <2> QED
    BY <2>1, <2>2
<1>11. ASSUME NEW k \in 1 .. l PROVE at[k] = TreeStep(t, at[k - 1], parts[k])
  <2>1. /\ 1 .. k # {} /\ Max(1 .. k) = k /\ (1 .. k) \ {k} = 1 .. k - 1
        /\ 1 .. k \in SUBSET (1 .. l) /\ k - 1 \in 0 .. l /\ k \in 0 .. l
    BY <1>1, PrefixFacts
  <2>2. it[1 .. k] = TreeStep(t, it[(1 .. k) \ {Max(1 .. k)}], parts[Max(1 .. k)])
    BY <1>9, <2>1
  <2>3. it[1 .. k] = TreeStep(t, it[1 .. k - 1], parts[k])
    BY <2>1, <2>2
  <2> QED
    BY <2>1, <2>3
<1>12. at = [k \in 0 .. l |-> at[k]] /\ l \in 0 .. l /\ at[l] = it[1 .. l]
  BY <1>1
<1> HIDE DEF at
<1>13. \A k \in 0 .. l : at[k] \in A
  <2>1. at[0] \in A
    BY <1>3, <1>10
  <2>2. \A k \in 1 .. l : at[k - 1] \in A => at[k] \in A
    BY <1>11, TreeStepType
  <2> HIDE DEF A, l
  <2> QED
    BY <1>1, <2>1, <2>2, StepsStay
<1>14. at \in [0 .. l -> A]
  BY <1>12, <1>13
<1> QED
  BY <1>8, <1>10, <1>11, <1>12, <1>14

(* What the tree has of what a name leads to in the file system.              *)
Shown(i) == IF i \in {0, ERROR} THEN NULL ELSE i

LEMMA LeadsFound ==
  ASSUME NEW m, Healthy(m), NEW d \in Inodes, Dir(m, d), NEW name \in Names, NEW j \in Inodes \ {0}
  PROVE  Leads(m, d, name, j) <=> Found(m, d, name) /\ Inum(m, d, name) = j
<1>1. m \in FsType /\ Whole(m, d) /\ m.inode[d].size \in Nat /\ DirOf(m, d)
  BY HealthyIs, DirFacts DEF DirInv
<1> DEFINE l == Min(Matching(m, d, name))
<1>2. Found(m, d, name) => /\ l \in Nat /\ CellAt(m, d, l).name = name
                           /\ Entry(m, d, l, Inum(m, d, name))
  BY InumCases
<1> HIDE DEF l
<1>3. ASSUME Leads(m, d, name, j) PROVE Found(m, d, name) /\ Inum(m, d, name) = j
  <2>1. PICK k \in Nat : Edge(m, d, k, j) /\ CellAt(m, d, k).name = name
    BY <1>3 DEF Leads
  <2>2. k \in Below(m, d) /\ CellAt(m, d, k).inum = j
    BY <2>1 DEF Edge, Entry
  <2>3. k < m.inode[d].size
    BY <1>1, <2>2 DEF Below
  <2>4. k \in Places(m, d)
    BY <1>1, <2>3, WholePlaces
  <2>5. Found(m, d, name)
    BY <2>1, <2>4 DEF Found, Matching
  <2>6. l \in Below(m, d) /\ CellAt(m, d, l).inum = Inum(m, d, name) /\ CellAt(m, d, l).name = name
    BY <1>2, <2>5 DEF Entry
  <2>7. l = k
    BY <1>1, <2>1, <2>2, <2>6 DEF DirOf
  <2> QED BY <2>2, <2>5, <2>6, <2>7
<1>4. ASSUME Found(m, d, name), Inum(m, d, name) = j PROVE Leads(m, d, name, j)
  BY <1>2, <1>4 DEF Leads, Edge
<1> QED BY <1>3, <1>4

(* A file system without data has dots; processes need none of them if they   *)
(* use none.                                                                  *)
LEMMA StepShows ==
  ASSUME NEW m, Healthy(m), NEW t, t = TreeOf(m), NEW i, Reached(m, i), NEW part \in PathNames,
         part \in {".", ".."} => Dots(m)
  PROVE  TreeStep(t, Shown(i), part) = Shown(Walk(m, i, part))
<1>1. /\ \A d \in Inodes : Tree!IsDir(t, d) <=> Dir(m, d)
      /\ \A d \in Inodes, name \in Names, j \in Inodes \ {0} : t.entry[d][name] = j <=> Leads(m, d, name, j)
      /\ \A d \in Inodes, name \in Names : t.entry[d][name] \in (Inodes \ {0}) \cup {NULL}
      /\ \A d \in Inodes : t.up[d] = IF Dir(m, d) THEN CellAt(m, d, 1).inum ELSE NULL
  BY TreeIs
<1>2. ~IsDir(m, 0)
  BY HealthyIs DEF InodesInv
<1>3. ERROR \notin Inodes /\ 0 \in Inodes
  BY ConstantFacts, NullIs DEF ERROR, Inodes
<1>4. CASE i \in {0, ERROR}
  <2>1. Walk(m, i, part) = ERROR
    BY <1>2, <1>4 DEF Walk
  <2>2. Shown(i) = NULL /\ Shown(ERROR) = NULL
    BY <1>4 DEF Shown
  <2> QED BY <2>1, <2>2 DEF TreeStep
<1>5. CASE i \notin {0, ERROR}
  <2>1. i \in Inodes /\ Legal(m, i) /\ Shown(i) = i /\ i # NULL /\ i # ERROR
    BY <1>5, <1>3, NullIs DEF Reached, Shown
  <2>2. CASE ~IsDir(m, i)
    <3>1. ~Dir(m, i) /\ Walk(m, i, part) = ERROR /\ Shown(ERROR) = NULL
      BY <2>2 DEF Dir, Walk, Shown
    <3>2. ~Tree!IsDir(t, i)
      BY <1>1, <2>1, <3>1
    <3> QED BY <2>1, <3>1, <3>2 DEF TreeStep
  <2>3. CASE IsDir(m, i)
    <3>1. Dir(m, i) /\ Tree!IsDir(t, i)
      BY <1>1, <2>1, <2>3 DEF Legal
    <3>2. Walk(m, i, part) = IF Found(m, i, part) THEN Inum(m, i, part) ELSE 0
      BY <2>1, <2>3 DEF Walk
    <3>3. CASE part \in Names
      <4>1. TreeStep(t, i, part) = t.entry[i][part]
        <5>1. part # "." /\ part # ".."
          BY <3>3, PathsAssumption
        <5> QED BY <2>1, <3>1, <3>3, <5>1 DEF TreeStep
      <4>2. Found(m, i, part) => Inum(m, i, part) \in Inodes
        BY <2>1, <3>1, InumCases
      <4>3. CASE Found(m, i, part) /\ Inum(m, i, part) # 0
        <5> DEFINE j == Inum(m, i, part)
        <5>1. j \in Inodes \ {0} /\ j # ERROR
          BY <4>2, <4>3, <1>3
        <5>2. Leads(m, i, part, j)
          BY <2>1, <3>1, <3>3, <4>3, <5>1, LeadsFound
        <5>3. t.entry[i][part] = j /\ Walk(m, i, part) = j /\ Shown(j) = j
          BY <1>1, <2>1, <3>2, <3>3, <4>3, <5>1, <5>2 DEF Shown
        <5> QED BY <2>1, <4>1, <5>3
      <4>4. CASE ~Found(m, i, part) \/ Inum(m, i, part) = 0
        <5>1. \A j \in Inodes \ {0} : ~Leads(m, i, part, j)
          BY <2>1, <3>1, <3>3, <4>4, LeadsFound
        <5>2. t.entry[i][part] = NULL
          BY <1>1, <2>1, <3>3, <5>1
        <5>3. Walk(m, i, part) = 0 /\ Shown(0) = NULL
          BY <3>2, <4>4 DEF Shown
        <5> QED BY <2>1, <4>1, <5>2, <5>3
      <4> QED BY <4>3, <4>4
    <3>4. CASE part \in {".", ".."}
      <4>1. DotRow(m, i)
        BY <2>1, <3>4 DEF Dots
      <4>2. part \notin Names /\ "." # ".."
        BY <3>4, PathsAssumption
      <4>3. /\ CellAt(m, i, 0).name = "." /\ CellAt(m, i, 1).name = ".."
            /\ CellAt(m, i, 0).inum = i /\ CellAt(m, i, 1).inum \in Inodes \ {0}
        BY <2>1, <3>1, <4>1, DirFacts DEF DotRow
      <4>4. CASE part = "."
        <5>1. Found(m, i, part) /\ Inum(m, i, part) = i
          BY <2>1, <3>1, <3>4, <4>3, <4>4, DotsFound
        <5>2. TreeStep(t, i, part) = i
          BY <2>1, <3>1, <4>2, <4>4 DEF TreeStep
        <5> QED BY <2>1, <3>2, <5>1, <5>2
      <4>5. CASE part = ".."
        <5>1. Found(m, i, part) /\ Inum(m, i, part) = CellAt(m, i, 1).inum
          BY <2>1, <3>1, <3>4, <4>3, <4>5, DotsFound
        <5>2. TreeStep(t, i, part) = t.up[i]
          BY <2>1, <3>1, <4>2, <4>5 DEF TreeStep
        <5>3. t.up[i] = CellAt(m, i, 1).inum
          BY <1>1, <2>1, <3>1
        <5>4. Shown(CellAt(m, i, 1).inum) = CellAt(m, i, 1).inum
          BY <4>3, <1>3 DEF Shown
        <5> QED BY <2>1, <3>2, <5>1, <5>2, <5>3, <5>4
      <4> QED BY <3>4, <4>4, <4>5
    <3>5. CASE part = ""
      <4>1. ~Found(m, i, part)
        <5> SUFFICES ASSUME Found(m, i, part) PROVE FALSE
          OBVIOUS
        <5> DEFINE k == Min(Matching(m, i, part))
        <5>1. k \in Nat /\ k < m.inode[i].size /\ CellAt(m, i, k).name = part
          BY <2>1, <3>1, InumCases
        <5> HIDE DEF k
        <5>2. DirOf(m, i) /\ m.inode[i].size \in Nat
          BY <2>1, <3>1, HealthyIs, DirFacts DEF DirInv
        <5> DEFINE s == m.inode[i].size
        <5>3. k \in Nat /\ s \in Nat /\ k < s
          BY <5>1, <5>2
        <5> HIDE DEF s
        <5>4. k = 0 \/ k = 1 \/ k \in 2 .. s - 1
          BY <5>3
        <5>5. k = 0 \/ k = 1 \/ k \in Below(m, i)
          BY <5>4 DEF Below, s
        <5> QED BY <3>1, <3>5, <5>1, <5>2, <5>5, PathsAssumption DEF DirOf, Dotted
      <4>2. TreeStep(t, i, part) = NULL
        <5>1. part \notin Names /\ part # "." /\ part # ".."
          BY <3>5, PathsAssumption
        <5> QED BY <2>1, <3>1, <5>1 DEF TreeStep
      <4> QED BY <2>1, <3>2, <4>1, <4>2 DEF Shown
    <3> QED BY <3>3, <3>4, <3>5 DEF PathNames
  <2> QED BY <2>2, <2>3
<1> QED BY <1>4, <1>5

(* The inodes at are those along the parts of a path from start.              *)
Leading(m, parts, start, at) ==
  /\ parts \in Seq(PathNames) /\ start \in Inodes /\ Legal(m, start) /\ at[0] = start
  /\ \A k \in DOMAIN parts : parts[k] \in {".", ".."} => Dots(m)
  /\ \A k \in 1 .. Len(parts) : at[k] = Walk(m, at[k - 1], parts[k])
  /\ \A k \in 0 .. Len(parts) : Reached(m, at[k])

LEMMA WalkShows ==
  ASSUME NEW m, Healthy(m), NEW t, t = TreeOf(m), NEW parts, NEW start, NEW at,
         Leading(m, parts, start, at)
  PROVE  Tree!Walk(t, parts, start) = Shown(at[Len(parts)])
<1> DEFINE n == Len(parts)
<1>0. /\ parts \in Seq(PathNames) /\ start \in Inodes /\ Legal(m, start) /\ at[0] = start
      /\ \A k \in DOMAIN parts : parts[k] \in {".", ".."} => Dots(m)
      /\ \A k \in 1 .. n : at[k] = Walk(m, at[k - 1], parts[k])
      /\ \A k \in 0 .. n : Reached(m, at[k])
  BY DEF Leading
<1>1. n \in Nat /\ \A k \in 1 .. n : k \in DOMAIN parts /\ parts[k] \in PathNames
  BY <1>0
<1>2. PICK it : /\ it[0] = start
                /\ \A k \in 1 .. n : it[k] = TreeStep(t, it[k - 1], parts[k])
                /\ Tree!Walk(t, parts, start) = it[n]
  BY <1>0, TreeSteps
<1>3. /\ at[0] = start /\ \A k \in 1 .. n : at[k] = Walk(m, at[k - 1], parts[k])
      /\ \A k \in 0 .. n : Reached(m, at[k])
  BY <1>0
<1> HIDE DEF n
<1> DEFINE S == {k \in 0 .. n : it[k] = Shown(at[k])}
<1>4. 0 \in S
  <2>1. start # 0
    BY <1>0, HealthyNot0
  <2>2. start # ERROR
    BY <1>0, ConstantFacts, NullIs DEF ERROR
  <2> QED BY <1>1, <1>2, <1>3, <2>1, <2>2 DEF Shown
<1>5. ASSUME NEW k \in 1 .. n, k - 1 \in S PROVE k \in S
  <2>1. k - 1 \in 0 .. n /\ k \in 0 .. n
    BY <1>1
  <2> DEFINE i == at[k - 1]
             part == parts[k]
  <2>2. it[k - 1] = Shown(i) /\ Reached(m, i)
    BY <1>3, <1>5, <2>1
  <2>3. part \in PathNames /\ (part \in {".", ".."} => Dots(m))
    BY <1>0, <1>1
  <2>4. it[k] = TreeStep(t, Shown(i), part) /\ at[k] = Walk(m, i, part)
    BY <1>2, <1>3, <2>2
  <2> HIDE DEF i, part
  <2>5. TreeStep(t, Shown(i), part) = Shown(Walk(m, i, part))
    BY <2>2, <2>3, StepShows
  <2> QED BY <2>1, <2>4, <2>5
<1>6. n \in S
  <2> HIDE DEF S
  <2>1. \A k \in 0 .. n : k \in S
    BY <1>1, <1>4, <1>5, StepsMeet
  <2> QED BY <1>1, <2>1
<1> QED BY <1>2, <1>6 DEF n

LEMMA TreeWalks ==
  ASSUME NEW m, Healthy(m), NEW parts, NEW start, NEW at, Leading(m, parts, start, at)
  PROVE  Tree!Walk(TreeOf(m), parts, start) = Shown(at[Len(parts)])
<1> DEFINE t == TreeOf(m)
<1>1. t = TreeOf(m)
  OBVIOUS
<1> HIDE DEF t
<1>2. Tree!Walk(t, parts, start) = Shown(at[Len(parts)])
  BY <1>1, WalkShows
<1> QED BY <1>1, <1>2

(* Nobody minds "." and "..": there are none on the path, or they are right.  *)
DotsRight(m, path) == \A k \in DOMAIN path.parts : path.parts[k] \in {".", ".."} => Dots(m)

LEMMA PathShows ==
  ASSUME NEW m, Healthy(m), NEW t, t = TreeOf(m), NEW path \in PathType, path.parts # << >>,
         DotsRight(m, path), NEW cur \in Inodes, Legal(m, cur)
  PROVE  /\ Tree!Walk(t, path.parts, Start(path, cur)) = Shown(Resolve(m, path, cur))
         /\ Tree!Walk(t, Front(path.parts), Start(path, cur)) = Shown(SuperDir(m, path, cur))
<1> DEFINE q == path.parts
           n == Len(q)
           s == Start(path, cur)
<1>1. Parts(path) = q /\ m \in FsType
  BY HealthyIs DEF Parts
<1>2. PICK at \in [0 .. n -> Inodes \cup {ERROR}] : Along(m, path, cur, at)
  BY <1>1, PathParent
<1>3. /\ n \in Nat /\ n >= 1 /\ at[0] = s
      /\ \A k \in 1 .. n : at[k] = Walk(m, at[k - 1], q[k])
      /\ Resolve(m, path, cur) = Ends(at[n])
      /\ SuperDir(m, path, cur) = IF n = 1 THEN at[0]
                                  ELSE IF at[n - 1] \in {0, ERROR} THEN ERROR
                                  ELSE at[n - 1]
  BY <1>1, <1>2 DEF Along
<1>4. s \in Inodes /\ Legal(m, s) /\ \A k \in 0 .. n : Reached(m, at[k])
  <2>1. /\ at \in [0 .. Len(Parts(path)) -> Inodes \cup {ERROR}] /\ at[0] = Start(path, cur)
        /\ \A k \in 1 .. Len(Parts(path)) : at[k] = Walk(m, at[k - 1], Parts(path)[k])
    BY <1>1, <1>3
  <2>2. /\ Start(path, cur) \in Inodes /\ Legal(m, Start(path, cur))
        /\ \A k \in 0 .. Len(Parts(path)) : Reached(m, at[k])
    BY ONLY Healthy(m), path \in PathType, cur \in Inodes, Legal(m, cur), <2>1, PathReaches
  <2> QED BY <1>1, <2>2
<1>5. /\ q \in Seq(PathNames) /\ Front(q) \in Seq(PathNames) /\ Len(Front(q)) = n - 1
      /\ \A k \in 1 .. n - 1 : Front(q)[k] = q[k]
  BY <1>1, PathFacts
<1>6. \A k \in 1 .. n : q[k] \in {".", ".."} => Dots(m)
  BY <1>5 DEF DotsRight
<1>7. Tree!Walk(t, q, s) = Shown(at[n])
  <2>1. \A k \in DOMAIN q : q[k] \in {".", ".."} => Dots(m)
    BY DEF DotsRight
  <2> HIDE DEF q, n, s
  <2>2. /\ q \in Seq(PathNames) /\ s \in Inodes /\ Legal(m, s) /\ at[0] = s
        /\ \A k \in 1 .. Len(q) : at[k] = Walk(m, at[k - 1], q[k])
        /\ \A k \in 0 .. Len(q) : Reached(m, at[k])
    BY <1>3, <1>4, <1>5 DEF n
  <2>3. Leading(m, q, s, at)
    BY <2>1, <2>2 DEF Leading
  <2>4. Tree!Walk(t, q, s) = Shown(at[Len(q)])
    <3>1. Tree!Walk(TreeOf(m), q, s) = Shown(at[Len(q)])
      BY ONLY Healthy(m), <2>3, TreeWalks
    <3> QED BY <3>1
  <2> QED BY <2>4 DEF n
<1>8. Tree!Walk(t, Front(q), s) = Shown(at[n - 1])
  <2> DEFINE f == Front(q)
  <2>1. f \in Seq(PathNames) /\ Len(f) = n - 1 /\ \A k \in 1 .. n - 1 : f[k] = q[k]
    BY <1>5
  <2> HIDE DEF f, n, q
  <2>2. DOMAIN f = 1 .. n - 1 /\ n - 1 \in Nat
    BY <1>3, <2>1
  <2>3. \A k \in 1 .. n - 1 : k \in 1 .. n
    BY <1>3
  <2>4. \A k \in DOMAIN f : f[k] \in {".", ".."} => Dots(m)
    BY <1>6, <2>1, <2>2, <2>3
  <2>5. \A k \in 1 .. n - 1 : at[k] = Walk(m, at[k - 1], f[k])
    BY <1>3, <2>1, <2>3
  <2>6. \A k \in 0 .. n - 1 : Reached(m, at[k])
    BY <1>3, <1>4
  <2> HIDE DEF s
  <2>7. Leading(m, f, s, at)
    BY <1>3, <1>4, <2>1, <2>4, <2>5, <2>6 DEF Leading
  <2>8. Tree!Walk(t, f, s) = Shown(at[Len(f)])
    <3>1. Tree!Walk(TreeOf(m), f, s) = Shown(at[Len(f)])
      BY ONLY Healthy(m), <2>7, TreeWalks
    <3> QED BY <3>1
  <2> QED BY <2>1, <2>8 DEF f
<1>9. Shown(Ends(at[n])) = Shown(at[n])
  BY DEF Shown, Ends
<1>10. Shown(SuperDir(m, path, cur)) = Shown(at[n - 1])
  <2> HIDE DEF n, s
  <2>1. CASE n = 1
    BY <1>3, <2>1
  <2>2. CASE n # 1
    BY <1>3, <2>2 DEF Shown
  <2> QED BY <2>1, <2>2
<1> QED BY <1>3, <1>7, <1>8, <1>9, <1>10

LEMMA LookupShows ==
  ASSUME NEW m, Healthy(m), NEW t, t = TreeOf(m), NEW path \in PathType, DotsRight(m, path),
         NEW cur \in Inodes, Legal(m, cur)
  PROVE  Tree!Lookup(t, path, cur) = Shown(Resolve(m, path, cur))
<1> DEFINE s == Start(path, cur)
           i == Resolve(m, path, cur)
<1>1. CASE path.parts # << >>
  <2>1. Tree!Walk(t, path.parts, s) = Shown(i)
    BY <1>1, PathShows
  <2>2. Tree!From(path, cur) = s
    BY DEF Tree!From, Start
  <2>3. Tree!Lookup(t, path, cur) = Tree!Walk(t, path.parts, Tree!From(path, cur))
    BY <1>1 DEF Tree!Lookup
  <2> QED BY <2>1, <2>2, <2>3
<1>2. CASE path.parts = << >>
  <2>1. Parts(path) = <<"">> /\ m \in FsType
    BY <1>2, HealthyIs DEF Parts
  <2> DEFINE q == <<"">>
  <2>2. Len(q) = 1 /\ q[1] = "" /\ 1 \in 1 .. 1 /\ 1 - 1 = 0
    OBVIOUS
  <2> HIDE DEF q
  <2>3. PICK at \in [0 .. 1 -> Inodes \cup {ERROR}] : Along(m, path, cur, at)
    BY <2>1, <2>2, PathParent DEF q
  <2>4. at[0] = s /\ at[1] = Walk(m, at[0], "") /\ i = Ends(at[1])
    <3>1. Parts(path) = q
      BY <2>1 DEF q
    <3> QED BY <2>2, <2>3, <3>1 DEF Along
  <2>5. Reached(m, s)
    BY StartLegal DEF Reached
  <2>6. "" \in PathNames /\ "" \notin {".", ".."} /\ "" \notin Names
    BY PathsAssumption DEF PathNames
  <2> HIDE DEF s, i
  <2>7. TreeStep(t, Shown(s), "") = Shown(Walk(m, s, ""))
    <3>1. "" \in PathNames /\ ("" \in {".", ".."} => Dots(m))
      BY <2>6
    <3> QED BY ONLY Healthy(m), t = TreeOf(m), <2>5, <3>1, StepShows
  <2>8. TreeStep(t, Shown(s), "") = NULL
    BY <2>6 DEF TreeStep
  <2>9. Shown(i) = NULL
    BY <2>4, <2>7, <2>8 DEF Shown, Ends
  <2>10. Tree!Lookup(t, path, cur) = NULL
    BY <1>2 DEF Tree!Lookup
  <2> QED BY <2>9, <2>10 DEF i
<1> QED BY <1>1, <1>2

(* Where the last part of a path goes.                                        *)
LEMMA ParentShows ==
  ASSUME NEW m, Healthy(m), NEW t, t = TreeOf(m), NEW path \in PathType, DotsRight(m, path),
         NEW cur \in Inodes, Legal(m, cur),
         NEW d, d = SuperDir(m, path, cur), d # ERROR, IsDir(m, d), FileName(path) \in Names
  PROVE  /\ Tree!Name(path) = FileName(path) /\ Tree!Dir(t, path, cur) = d /\ d # NULL
         /\ Tree!CanName(t, path, cur)
         /\ Tree!At(t, path, cur) = Shown(Resolve(m, path, cur))
<1> DEFINE s == Start(path, cur)
           i == Resolve(m, path, cur)
           name == FileName(path)
<1>1. path.parts # << >>
  <2> SUFFICES ASSUME path.parts = << >> PROVE FALSE
    OBVIOUS
  <2>1. Parts(path) = <<"">>
    BY DEF Parts
  <2>2. Len(<<"">>) = 1 /\ <<"">>[1] = ""
    OBVIOUS
  <2>3. FileName(path) = ""
    BY <2>1, <2>2 DEF FileName, Last
  <2> QED BY <2>3, PathsAssumption
<1>2. /\ d \in Inodes /\ Dir(m, d) /\ Legal(m, d)
      /\ i = IF Found(m, d, name) THEN Inum(m, d, name) ELSE 0
  BY TargetIs
<1>3. d # NULL /\ d # 0 /\ Shown(d) = d
  BY <1>2, NullIs, DirFacts DEF Shown
<1>4. Tree!Walk(t, Front(path.parts), s) = d
  BY <1>1, <1>3, PathShows
<1>5. Tree!IsDir(t, d)
  BY <1>2, TreeIs
<1>6. Tree!Name(path) = name
  BY <1>1 DEF Tree!Name, Tree!Last, FileName, Last, Parts
<1>7. Tree!Dir(t, path, cur) = d
  <2>1. Tree!From(path, cur) = s
    BY DEF Tree!From, Start
  <2>2. Tree!Front(path.parts) = Front(path.parts)
    BY DEF Tree!Front, Front
  <2> HIDE DEF s
  <2> QED BY <1>1, <1>3, <1>4, <1>5, <2>1, <2>2 DEF Tree!Dir
<1>8. Tree!At(t, path, cur) = t.entry[d][name]
  <2> HIDE DEF name
  <2>1. name \in Names
    BY DEF name
  <2> QED BY <1>3, <1>6, <1>7, <2>1 DEF Tree!At
<1>9. TreeStep(t, Shown(d), name) = Shown(Walk(m, d, name))
  <2>1. Reached(m, d) /\ name \in PathNames /\ name \notin {".", ".."}
    BY <1>2, PathsAssumption DEF Reached, PathNames
  <2> HIDE DEF name
  <2> QED BY <2>1, StepShows
<1>10. Walk(m, d, name) = i
  <2> HIDE DEF name, i
  <2> QED BY <1>2 DEF Walk
<1>11. TreeStep(t, d, name) = t.entry[d][name]
  <2>1. name \in Names /\ name # "." /\ name # ".."
    BY PathsAssumption
  <2> HIDE DEF name
  <2> QED BY <1>3, <1>5, <2>1 DEF TreeStep
<1>12. Tree!CanName(t, path, cur)
  <2> HIDE DEF name
  <2>1. name \in Names
    BY DEF name
  <2> QED BY <1>3, <1>6, <1>7, <2>1 DEF Tree!CanName
<1> QED BY <1>3, <1>6, <1>7, <1>8, <1>9, <1>10, <1>11, <1>12

-----------------------------------------------------------------------------
(* What steps do to the tree *)

(* The entries that stay keep their names.                                    *)
NamesStay(m, m2, d, k) ==
  \A x, y \in Inodes, l \in Nat :
    Edge(m, x, l, y) /\ ~(x = d /\ l = k) => CellAt(m2, x, l).name = CellAt(m, x, l).name

LEMMA EdgeName ==
  ASSUME NEW m, Healthy(m), NEW m2 \in FsType, NEW x \in Inodes, NEW l \in Nat, NEW y,
         Edge(m, x, l, y)
  PROVE  /\ l \in 0 .. m.inode[x].size - 1 /\ CellAt(m, x, l).name \in Names
         /\ Alike(m, m2, x) => CellAt(m2, x, l).name = CellAt(m, x, l).name
<1>1. m \in FsType /\ DirOf(m, x) /\ Dir(m, x) /\ l \in Below(m, x)
  BY HealthyIs DEF DirInv, Edge, Entry
<1> DEFINE s == m.inode[x].size
<1>2. s \in Nat /\ l \in 2 .. s - 1
  BY <1>1, SizeNat DEF Below
<1>3. CellAt(m, x, l).name \in Names
  BY <1>1 DEF DirOf
<1> HIDE DEF s
<1>4. l \in 0 .. s - 1 /\ l < s
  BY <1>2
<1>5. Alike(m, m2, x) => CellAt(m2, x, l) = CellAt(m, x, l)
  BY <1>1, <1>4, AlikeDir DEF s
<1> QED BY <1>3, <1>4, <1>5 DEF s

LEMMA NamesStayIf ==
  ASSUME NEW m, Healthy(m), NEW m2 \in FsType, NEW d \in Inodes, NEW k, NEW j \in Inodes,
         \A x \in Inodes : x # d /\ x # j => Alike(m, m2, x),
         \A l \in Nat, y \in Inodes : ~Edge(m, j, l, y),
         \A l \in 0 .. m.inode[d].size - 1 : l # k => CellAt(m2, d, l) = CellAt(m, d, l)
  PROVE  NamesStay(m, m2, d, k)
<1> SUFFICES ASSUME NEW x \in Inodes, NEW y \in Inodes, NEW l \in Nat,
                    Edge(m, x, l, y), ~(x = d /\ l = k)
             PROVE  CellAt(m2, x, l).name = CellAt(m, x, l).name
  BY DEF NamesStay
<1>1. x # j
  OBVIOUS
<1>2. CASE x = d
  <2>1. l \in 0 .. m.inode[d].size - 1 /\ l # k
    BY <1>2, EdgeName
  <2> QED BY <1>2, <2>1
<1>3. CASE x # d
  BY <1>1, <1>3, EdgeName
<1> QED BY <1>2, <1>3

LEMMA AddsLeads ==
  ASSUME NEW m, Healthy(m), NEW m2, NEW d \in Inodes, NEW k \in Nat, NEW j \in Inodes, NEW name,
         Adds(m, m2, d, k, j), NamesStay(m, m2, d, k), CellAt(m2, d, k).name = name
  PROVE  \A x, y \in Inodes, n \in Names : Leads(m2, x, n, y) <=> Leads(m, x, n, y) \/ (x = d /\ n = name /\ y = j)
<1> SUFFICES ASSUME NEW x \in Inodes, NEW y \in Inodes, NEW n \in Names
             PROVE  Leads(m2, x, n, y) <=> Leads(m, x, n, y) \/ (x = d /\ n = name /\ y = j)
  OBVIOUS
<1>1. \A l \in Nat : Edge(m2, x, l, y) <=> Edge(m, x, l, y) \/ (x = d /\ l = k /\ y = j)
  BY DEF Adds
<1>2. \A l \in Nat : Edge(m, x, l, y) => ~(x = d /\ l = k)
  BY DEF Adds
<1>3. \A l \in Nat : Edge(m, x, l, y) => CellAt(m2, x, l).name = CellAt(m, x, l).name
  BY <1>2 DEF NamesStay
<1>4. ASSUME Leads(m2, x, n, y) PROVE Leads(m, x, n, y) \/ (x = d /\ n = name /\ y = j)
  <2>1. PICK l \in Nat : Edge(m2, x, l, y) /\ CellAt(m2, x, l).name = n
    BY <1>4 DEF Leads
  <2>2. CASE Edge(m, x, l, y)
    BY <1>3, <2>1, <2>2 DEF Leads
  <2>3. CASE x = d /\ l = k /\ y = j
    BY <2>1, <2>3
  <2> QED BY <1>1, <2>1, <2>2, <2>3
<1>5. ASSUME Leads(m, x, n, y) PROVE Leads(m2, x, n, y)
  <2>1. PICK l \in Nat : Edge(m, x, l, y) /\ CellAt(m, x, l).name = n
    BY <1>5 DEF Leads
  <2> QED BY <1>1, <1>3, <2>1 DEF Leads
<1>6. ASSUME x = d, n = name, y = j PROVE Leads(m2, x, n, y)
  BY <1>1, <1>6 DEF Leads
<1> QED BY <1>4, <1>5, <1>6

LEMMA DropsLeads ==
  ASSUME NEW m, Healthy(m), NEW m2, NEW d \in Inodes, NEW k \in Nat, NEW j \in Inodes, NEW name,
         Drops(m, m2, d, k, j), NamesStay(m, m2, d, k), CellAt(m, d, k).name = name
  PROVE  \A x, y \in Inodes, n \in Names : Leads(m2, x, n, y) <=> Leads(m, x, n, y) /\ ~(x = d /\ n = name)
<1> SUFFICES ASSUME NEW x \in Inodes, NEW y \in Inodes, NEW n \in Names
             PROVE  Leads(m2, x, n, y) <=> Leads(m, x, n, y) /\ ~(x = d /\ n = name)
  OBVIOUS
<1>1. \A l \in Nat : Edge(m2, x, l, y) <=> Edge(m, x, l, y) /\ ~(x = d /\ l = k)
  BY DEF Drops
<1>2. \A l \in Nat : Edge(m, x, l, y) /\ ~(x = d /\ l = k) => CellAt(m2, x, l).name = CellAt(m, x, l).name
  BY DEF NamesStay
<1>3. Edge(m, d, k, j)
  BY DEF Drops
<1>4. ASSUME NEW l \in Nat, Edge(m, x, l, y)
      PROVE  (x = d /\ l = k) <=> (x = d /\ CellAt(m, x, l).name = name)
  BY <1>3, <1>4, LeadsOnce
<1>5. ASSUME Leads(m2, x, n, y) PROVE Leads(m, x, n, y) /\ ~(x = d /\ n = name)
  <2>1. PICK l \in Nat : Edge(m2, x, l, y) /\ CellAt(m2, x, l).name = n
    BY <1>5 DEF Leads
  <2>2. Edge(m, x, l, y) /\ ~(x = d /\ l = k) /\ CellAt(m, x, l).name = n
    BY <1>1, <1>2, <2>1
  <2>3. ~(x = d /\ n = name)
    BY <1>4, <2>2
  <2> QED BY <2>2, <2>3 DEF Leads
<1>6. ASSUME Leads(m, x, n, y), ~(x = d /\ n = name) PROVE Leads(m2, x, n, y)
  <2>1. PICK l \in Nat : Edge(m, x, l, y) /\ CellAt(m, x, l).name = n
    BY <1>6 DEF Leads
  <2>2. ~(x = d /\ l = k)
    BY <1>4, <1>6, <2>1
  <2> QED BY <1>1, <1>2, <2>1, <2>2 DEF Leads
<1> QED BY <1>5, <1>6

(* The entries of a tree are what leads somewhere.                            *)
EntryType == [Inodes -> [Names -> (Inodes \ {0}) \cup {NULL}]]

LEMMA EntryIs ==
  ASSUME NEW m, Healthy(m), NEW t, t = TreeOf(m), NEW e \in EntryType,
         \A x \in Inodes, n \in Names, y \in Inodes \ {0} : e[x][n] = y <=> Leads(m, x, n, y)
  PROVE  t.entry = e
<1> DEFINE N == (Inodes \ {0}) \cup {NULL}
           f == t.entry
<1>1. /\ f \in [Inodes -> [Names -> N]]
      /\ \A x \in Inodes, n \in Names, y \in Inodes \ {0} : f[x][n] = y <=> Leads(m, x, n, y)
  BY TreeIs
<1>2. e \in [Inodes -> [Names -> N]]
  BY DEF EntryType
<1> HIDE DEF f
<1>3. \A x \in Inodes, n \in Names : f[x][n] \in N /\ e[x][n] \in N
  BY <1>1, <1>2
<1>4. ASSUME NEW x \in Inodes, NEW n \in Names PROVE f[x][n] = e[x][n]
  <2>1. CASE f[x][n] = NULL
    <3>1. \A y \in Inodes \ {0} : f[x][n] # y
      BY <2>1, NullIs
    <3>2. \A y \in Inodes \ {0} : e[x][n] # y
      BY <1>1, <3>1
    <3> QED BY <1>3, <2>1, <3>2
  <2>2. CASE f[x][n] # NULL
    BY <1>1, <1>3, <2>2
  <2> QED BY <2>1, <2>2
<1>5. \A x \in Inodes : f[x] = [n \in Names |-> f[x][n]] /\ e[x] = [n \in Names |-> e[x][n]]
  BY <1>1, <1>2
<1>6. ASSUME NEW x \in Inodes PROVE f[x] = e[x]
  <2>1. [n \in Names |-> f[x][n]] = [n \in Names |-> e[x][n]]
    BY <1>4
  <2> QED BY <1>5, <2>1
<1>7. f = [x \in Inodes |-> f[x]] /\ e = [x \in Inodes |-> e[x]]
  BY <1>1, <1>2
<1>8. [x \in Inodes |-> f[x]] = [x \in Inodes |-> e[x]]
  BY <1>6
<1> QED BY <1>7, <1>8 DEF f

(* A step changes the entries, and the parent or the size of one inode.       *)
Entried(t, e) == [t EXCEPT !.entry = e]
Sized(t, j, a) == [t EXCEPT !.size[j] = a]
Parented(t, j, a) == [t EXCEPT !.up[j] = a]

LEMMA TreeUpdate ==
  ASSUME NEW m, Healthy(m), NEW t, t = TreeOf(m), NEW m2, Healthy(m2), NEW t2, t2 = TreeOf(m2),
         NEW j \in Inodes,
         \A x \in Inodes : x # j => t2.up[x] = t.up[x] /\ t2.size[x] = t.size[x]
  PROVE  /\ t2.up[j] = t.up[j] => t2 = Sized(Entried(t, t2.entry), j, t2.size[j])
         /\ t2.size[j] = t.size[j] => t2 = Parented(Entried(t, t2.entry), j, t2.up[j])
         /\ t2.up[j] = t.up[j] /\ t2.entry = t.entry => t2 = Sized(t, j, t2.size[j])
         /\ t2.up[j] = t.up[j] /\ t2.size[j] = t.size[j] => t2 = Entried(t, t2.entry)
         /\ t2.up[j] = t.up[j] /\ t2.size[j] = t.size[j] /\ t2.entry = t.entry => t2 = t
<1> DEFINE e == t.entry
           u == t.up
           s == t.size
           e2 == t2.entry
           u2 == t2.up
           s2 == t2.size
<1>1. /\ t = [entry |-> e, up |-> u, size |-> s] /\ t2 = [entry |-> e2, up |-> u2, size |-> s2]
      /\ u = [x \in Inodes |-> u[x]] /\ s = [x \in Inodes |-> s[x]]
      /\ u2 = [x \in Inodes |-> u2[x]] /\ s2 = [x \in Inodes |-> s2[x]]
  <2>1. /\ t = [entry |-> e, up |-> u, size |-> s] /\ t2 = [entry |-> e2, up |-> u2, size |-> s2]
        /\ u \in [Inodes -> (Inodes \ {0}) \cup {NULL}] /\ s \in [Inodes -> Nat \cup {NULL}]
        /\ u2 \in [Inodes -> (Inodes \ {0}) \cup {NULL}] /\ s2 \in [Inodes -> Nat \cup {NULL}]
    BY TreeIs
  <2> HIDE DEF e, u, s, e2, u2, s2
  <2> QED BY <2>1
<1>2. \A x \in Inodes : x # j => u2[x] = u[x] /\ s2[x] = s[x]
  OBVIOUS
<1> HIDE DEF e, u, s, e2, u2, s2
<1>3. u2 = [u EXCEPT ![j] = u2[j]] /\ s2 = [s EXCEPT ![j] = s2[j]]
  BY <1>1, <1>2
<1>4. (u2[j] = u[j] => u2 = u) /\ (s2[j] = s[j] => s2 = s)
  BY <1>1, <1>2
<1> SUFFICES /\ u2[j] = u[j] => t2 = Sized(Entried(t, e2), j, s2[j])
             /\ s2[j] = s[j] => t2 = Parented(Entried(t, e2), j, u2[j])
             /\ u2[j] = u[j] /\ e2 = e => t2 = Sized(t, j, s2[j])
             /\ u2[j] = u[j] /\ s2[j] = s[j] => t2 = Entried(t, e2)
             /\ u2[j] = u[j] /\ s2[j] = s[j] /\ e2 = e => t2 = t
  BY DEF e, u, s, e2, u2, s2
<1> DEFINE w == Entried(t, e2)
<1>5. w = [entry |-> e2, up |-> u, size |-> s]
  BY <1>1 DEF Entried
<1>6. Sized(t, j, s2[j]) = [entry |-> e, up |-> u, size |-> [s EXCEPT ![j] = s2[j]]]
  BY <1>1 DEF Sized
<1> HIDE DEF w
<1>7. Sized(w, j, s2[j]) = [entry |-> e2, up |-> u, size |-> [s EXCEPT ![j] = s2[j]]]
  BY <1>5 DEF Sized
<1>8. Parented(w, j, u2[j]) = [entry |-> e2, up |-> [u EXCEPT ![j] = u2[j]], size |-> s]
  BY <1>5 DEF Parented
<1> SUFFICES /\ u2[j] = u[j] => t2 = Sized(w, j, s2[j])
             /\ s2[j] = s[j] => t2 = Parented(w, j, u2[j])
             /\ u2[j] = u[j] /\ e2 = e => t2 = Sized(t, j, s2[j])
             /\ u2[j] = u[j] /\ s2[j] = s[j] => t2 = w
             /\ u2[j] = u[j] /\ s2[j] = s[j] /\ e2 = e => t2 = t
  BY DEF w
<1> QED BY <1>1, <1>3, <1>4, <1>5, <1>6, <1>7, <1>8

(* What is not in the directory that changes, nor the inode of the entry.     *)
LEMMA OthersInTree ==
  ASSUME NEW m, Healthy(m), NEW t, t = TreeOf(m), NEW m2, Healthy(m2), NEW t2, t2 = TreeOf(m2),
         NEW x \in Inodes, Alike(m, m2, x)
  PROVE  t2.up[x] = t.up[x] /\ t2.size[x] = t.size[x]
<1>1. /\ t.up[x] = IF Dir(m, x) THEN CellAt(m, x, 1).inum ELSE NULL
      /\ t.size[x] = IF Regular(m, x) THEN m.inode[x].size ELSE NULL
      /\ t2.up[x] = IF Dir(m2, x) THEN CellAt(m2, x, 1).inum ELSE NULL
      /\ t2.size[x] = IF Regular(m2, x) THEN m2.inode[x].size ELSE NULL
  BY TreeIs
<1>2. t2.size[x] = t.size[x]
  BY <1>1 DEF Alike, Regular
<1>3. m \in FsType /\ m2 \in FsType /\ DirOf(m, x)
  BY HealthyIs DEF DirInv
<1>4. /\ Dir(m2, x) <=> Dir(m, x)
      /\ Dir(m, x) => \A k \in Nat : k < m.inode[x].size => CellAt(m2, x, k) = CellAt(m, x, k)
  BY <1>3, AlikeDir
<1>5. Dir(m, x) => m.inode[x].size \in Nat /\ m.inode[x].size >= 2
  BY DirFacts
<1>6. Dir(m, x) => CellAt(m2, x, 1) = CellAt(m, x, 1)
  BY <1>4, <1>5
<1> QED BY <1>1, <1>2, <1>4, <1>6

LEMMA OwnerInTree ==
  ASSUME NEW m, Healthy(m), NEW t, t = TreeOf(m), NEW m2, Healthy(m2), NEW t2, t2 = TreeOf(m2),
         NEW d \in Inodes, Dir(m, d), Dir(m2, d), CellAt(m2, d, 1) = CellAt(m, d, 1)
  PROVE  t2.up[d] = t.up[d] /\ t2.size[d] = t.size[d]
<1>1. /\ t.up[d] = IF Dir(m, d) THEN CellAt(m, d, 1).inum ELSE NULL
      /\ t.size[d] = IF Regular(m, d) THEN m.inode[d].size ELSE NULL
      /\ t2.up[d] = IF Dir(m2, d) THEN CellAt(m2, d, 1).inum ELSE NULL
      /\ t2.size[d] = IF Regular(m2, d) THEN m2.inode[d].size ELSE NULL
  BY TreeIs
<1>2. ~Regular(m, d) /\ ~Regular(m2, d)
  BY DEF Dir, IsDir, Regular, INODE_DIRECTORY, INODE_REGULAR
<1> QED BY <1>1, <1>2

LEMMA GrewTree ==
  ASSUME NEW m, Healthy(m), NEW t, t = TreeOf(m), NEW m2, Healthy(m2), NEW t2, t2 = TreeOf(m2),
         NEW d \in Inodes, Dir(m, d), NEW k \in Nat, NEW j \in Inodes \ {0}, NEW name \in Names,
         Grew(m, m2, d, k, j, name), ~Dir(m, j), Dir(m2, j) => m2.inode[j].size = 2
  PROVE  /\ t.entry[d][name] = NULL
         /\ t2.entry = [t.entry EXCEPT ![d][name] = j]
         /\ \A x \in Inodes : x # j => t2.up[x] = t.up[x] /\ t2.size[x] = t.size[x]
<1>1. m \in FsType /\ m2 \in FsType /\ DirOf(m, d) /\ d # j
  BY HealthyIs DEF DirInv
<1>2. Entered(m, m2, d, k, j, name) /\ \A x \in Inodes : x # d /\ x # j => Alike(m, m2, x)
  BY DEF Grew, Others
<1>3. Adds(m, m2, d, k, j)
  BY <1>1, GrewEdges DEF Adds
<1>4. NamesStay(m, m2, d, k)
  <2>1. \A l \in Nat, y \in Inodes : ~Edge(m, j, l, y)
    BY DEF Edge
  <2>2. \A l \in 0 .. m.inode[d].size - 1 : l # k => CellAt(m2, d, l) = CellAt(m, d, l)
    BY <1>2 DEF Entered
  <2> QED BY <1>1, <1>2, <2>1, <2>2, NamesStayIf
<1>5. CellAt(m2, d, k).name = name
  <2>1. CellAt(m2, d, k) = [inum |-> j, name |-> name]
    BY <1>2 DEF Entered
  <2> QED BY <2>1
<1>6. \A x, y \in Inodes, n \in Names :
        Leads(m2, x, n, y) <=> Leads(m, x, n, y) \/ (x = d /\ n = name /\ y = j)
  BY <1>3, <1>4, <1>5, AddsLeads
<1>7. ASSUME NEW y \in Inodes \ {0} PROVE ~Leads(m, d, name, y)
  <2> SUFFICES ASSUME NEW l \in Nat, Edge(m, d, l, y), CellAt(m, d, l).name = name PROVE FALSE
    BY DEF Leads
  <2> DEFINE s == m.inode[d].size
  <2>1. l \in 0 .. s - 1 /\ l \in Below(m, d) /\ CellAt(m, d, l).inum = y
    BY <1>1, EdgeName DEF Edge, Entry
  <2>2. k < s /\ CellAt(m, d, k).name = name /\ CellAt(m, d, k).inum = 0
    BY <1>2, <2>1 DEF Entered
  <2>3. k \in Below(m, d)
    <3>1. k # 0 /\ k # 1
      BY <1>1, <2>2 DEF DirOf, Dotted
    <3>2. s \in Nat
      BY <1>1, SizeNat
    <3> HIDE DEF s
    <3>3. k \in 2 .. s - 1
      BY <2>2, <3>1, <3>2
    <3> QED BY <3>3 DEF Below, s
  <2>4. k = l
    BY <1>1, <2>1, <2>2, <2>3 DEF DirOf
  <2> QED BY <2>1, <2>2, <2>4
<1>8. /\ t.entry \in EntryType
      /\ \A x \in Inodes, n \in Names, y \in Inodes \ {0} : t.entry[x][n] = y <=> Leads(m, x, n, y)
      /\ \A x \in Inodes, n \in Names : t.entry[x][n] \in (Inodes \ {0}) \cup {NULL}
  BY TreeIs DEF EntryType
<1>9. t.entry[d][name] = NULL
  BY <1>7, <1>8
<1>10. t2.entry = [t.entry EXCEPT ![d][name] = j]
  <2> DEFINE f == t.entry
             e == [f EXCEPT ![d][name] = j]
  <2>1. f \in EntryType
    BY <1>8
  <2>2. \A x \in Inodes, n \in Names, y \in Inodes \ {0} : f[x][n] = y <=> Leads(m, x, n, y)
    BY <1>8
  <2> HIDE DEF f
  <2>3. e \in EntryType
    BY <2>1 DEF EntryType
  <2>4. \A x \in Inodes, n \in Names : e[x][n] = IF x = d /\ n = name THEN j ELSE f[x][n]
    BY <2>1 DEF EntryType
  <2>5. ASSUME NEW x \in Inodes, NEW n \in Names, NEW y \in Inodes \ {0}
        PROVE  e[x][n] = y <=> Leads(m2, x, n, y)
    <3>1. CASE x = d /\ n = name
      <4>1. e[x][n] = j
        BY <2>4, <3>1
      <4>2. Leads(m2, x, n, y) <=> y = j
        BY <1>6, <1>7, <3>1
      <4> QED BY <4>1, <4>2
    <3>2. CASE ~(x = d /\ n = name)
      <4>1. e[x][n] = f[x][n]
        BY <2>4, <3>2
      <4>2. Leads(m2, x, n, y) <=> Leads(m, x, n, y)
        BY <1>6, <3>2
      <4> QED BY <2>2, <4>1, <4>2
    <3> QED BY <3>1, <3>2
  <2> HIDE DEF e
  <2>6. t2.entry = e
    BY <2>3, <2>5, EntryIs
  <2> QED BY <2>6 DEF e, f
<1>11. ASSUME NEW x \in Inodes, x # j PROVE t2.up[x] = t.up[x] /\ t2.size[x] = t.size[x]
  <2>1. CASE x = d
    <3>1. Dir(m2, d) /\ CellAt(m2, d, 1) = CellAt(m, d, 1)
      BY <1>1, <1>2, EnteredDir
    <3> QED BY <2>1, <3>1, OwnerInTree
  <2>2. CASE x # d
    BY <1>2, <1>11, <2>2, OthersInTree
  <2> QED BY <2>1, <2>2
<1> QED BY <1>9, <1>10, <1>11

LEMMA ShrankTree ==
  ASSUME NEW m, Healthy(m), NEW t, t = TreeOf(m), NEW m2, Healthy(m2), NEW t2, t2 = TreeOf(m2),
         NEW d \in Inodes, Dir(m, d), NEW k \in Nat, NEW j \in Inodes \ {0}, NEW name \in Names,
         Entry(m, d, k, j), CellAt(m, d, k).name = name, Shrank(m, m2, d, k, j),
         Dir(m, j) => m.inode[j].size <= 2, ~Dir(m2, j), d # j
  PROVE  /\ t.entry[d][name] = j
         /\ t2.entry = [t.entry EXCEPT ![d][name] = NULL]
         /\ \A x \in Inodes : x # j => t2.up[x] = t.up[x] /\ t2.size[x] = t.size[x]
<1>1. m \in FsType /\ m2 \in FsType /\ DirOf(m, d) /\ k \in Below(m, d)
  BY HealthyIs DEF DirInv, Entry
<1>2. Left(m, m2, d, k) /\ \A x \in Inodes : x # d /\ x # j => Alike(m, m2, x)
  BY DEF Shrank, Others
<1>3. Drops(m, m2, d, k, j)
  <2>1. Edge(m, d, k, j)
    BY DEF Edge
  <2> QED BY <1>1, <2>1, ShrankEdges DEF Drops
<1>4. NamesStay(m, m2, d, k)
  <2>1. \A l \in Nat, y \in Inodes : ~Edge(m, j, l, y)
    <3>1. m.inode[j].size \in Nat
      BY <1>1, SizeNat
    <3>2. Dir(m, j) => Below(m, j) = {}
      BY <3>1 DEF Below
    <3> QED BY <3>2 DEF Edge, Entry
  <2>2. \A l \in 0 .. m.inode[d].size - 1 : l # k => CellAt(m2, d, l) = CellAt(m, d, l)
    BY <1>2 DEF Left
  <2> QED BY <1>1, <1>2, <2>1, <2>2, NamesStayIf
<1>5. \A x, y \in Inodes, n \in Names :
        Leads(m2, x, n, y) <=> Leads(m, x, n, y) /\ ~(x = d /\ n = name)
  BY <1>3, <1>4, DropsLeads
<1>6. Leads(m, d, name, j)
  BY DEF Leads, Edge
<1>7. /\ t.entry \in EntryType
      /\ \A x \in Inodes, n \in Names, y \in Inodes \ {0} : t.entry[x][n] = y <=> Leads(m, x, n, y)
  BY TreeIs DEF EntryType
<1>8. t.entry[d][name] = j
  BY <1>6, <1>7
<1>9. t2.entry = [t.entry EXCEPT ![d][name] = NULL]
  <2> DEFINE f == t.entry
             e == [f EXCEPT ![d][name] = NULL]
  <2>1. f \in EntryType
    BY <1>7
  <2>2. \A x \in Inodes, n \in Names, y \in Inodes \ {0} : f[x][n] = y <=> Leads(m, x, n, y)
    BY <1>7
  <2> HIDE DEF f
  <2>3. e \in EntryType
    BY <2>1 DEF EntryType
  <2>4. \A x \in Inodes, n \in Names : e[x][n] = IF x = d /\ n = name THEN NULL ELSE f[x][n]
    BY <2>1 DEF EntryType
  <2>5. ASSUME NEW x \in Inodes, NEW n \in Names, NEW y \in Inodes \ {0}
        PROVE  e[x][n] = y <=> Leads(m2, x, n, y)
    <3>1. CASE x = d /\ n = name
      <4>1. e[x][n] = NULL /\ y # NULL
        BY <2>4, <3>1, NullIs
      <4>2. ~Leads(m2, x, n, y)
        BY <1>5, <3>1
      <4> QED BY <4>1, <4>2
    <3>2. CASE ~(x = d /\ n = name)
      <4>1. e[x][n] = f[x][n]
        BY <2>4, <3>2
      <4>2. Leads(m2, x, n, y) <=> Leads(m, x, n, y)
        BY <1>5, <3>2
      <4> QED BY <2>2, <4>1, <4>2
    <3> QED BY <3>1, <3>2
  <2> HIDE DEF e
  <2>6. t2.entry = e
    BY <2>3, <2>5, EntryIs
  <2> QED BY <2>6 DEF e, f
<1>10. ASSUME NEW x \in Inodes, x # j PROVE t2.up[x] = t.up[x] /\ t2.size[x] = t.size[x]
  <2>1. CASE x = d
    <3>1. Dir(m2, d) /\ CellAt(m2, d, 1) = CellAt(m, d, 1)
      BY <1>1, <1>2, LeftDir
    <3> QED BY <2>1, <3>1, OwnerInTree
  <2>2. CASE x # d
    BY <1>2, <1>10, <2>2, OthersInTree
  <2> QED BY <2>1, <2>2
<1> QED BY <1>8, <1>9, <1>10

(* A step that happens to one file alone.                                     *)
LEMMA FileTree ==
  ASSUME NEW m, Healthy(m), NEW t, t = TreeOf(m), NEW m2, Healthy(m2), NEW t2, t2 = TreeOf(m2),
         NEW j \in Inodes, ~IsDir(m, j), ~IsDir(m2, j),
         \A x \in Inodes : x # j => Alike(m, m2, x)
  PROVE  t2 = Sized(t, j, t2.size[j]) /\ (t2.size[j] = t.size[j] => t2 = t)
<1>1. m \in FsType /\ m2 \in FsType
  BY HealthyIs
<1>2. \A x \in Inodes : x # j => t2.up[x] = t.up[x] /\ t2.size[x] = t.size[x]
  BY OthersInTree
<1>3. t2.up[j] = t.up[j]
  BY TreeIs DEF Dir
<1>4. \A x \in Inodes : IsDir(m, x) => x # j
  OBVIOUS
<1>5. \A x \in Inodes : IsDir(m2, x) => IsDir(m, x)
  BY <1>4 DEF Alike, IsDir
<1>6. \A x, y \in Inodes, l \in Nat : Edge(m2, x, l, y) <=> Edge(m, x, l, y)
  BY <1>1, <1>4, <1>5, SameEdges
<1>7. \A x, y \in Inodes, l \in Nat : Edge(m, x, l, y) => CellAt(m2, x, l).name = CellAt(m, x, l).name
  <2> SUFFICES ASSUME NEW x \in Inodes, NEW y \in Inodes, NEW l \in Nat, Edge(m, x, l, y)
               PROVE  CellAt(m2, x, l).name = CellAt(m, x, l).name
    OBVIOUS
  <2>1. x # j
    BY <1>4 DEF Edge, Dir
  <2> QED BY <1>1, <2>1, EdgeName
<1>8. ASSUME NEW x \in Inodes, NEW y \in Inodes, NEW n PROVE Leads(m2, x, n, y) <=> Leads(m, x, n, y)
  <2>1. \A l \in Nat : /\ Edge(m2, x, l, y) <=> Edge(m, x, l, y)
                       /\ Edge(m, x, l, y) => CellAt(m2, x, l).name = CellAt(m, x, l).name
    BY <1>6, <1>7
  <2> QED BY <2>1 DEF Leads
<1>9. /\ t.entry \in EntryType
      /\ \A x \in Inodes, n \in Names, y \in Inodes \ {0} : t.entry[x][n] = y <=> Leads(m, x, n, y)
  BY TreeIs DEF EntryType
<1>10. t2.entry = t.entry
  <2> DEFINE e == t.entry
  <2>1. e \in EntryType /\ \A x \in Inodes, n \in Names, y \in Inodes \ {0} : e[x][n] = y <=> Leads(m2, x, n, y)
    BY <1>8, <1>9
  <2> HIDE DEF e
  <2>2. t2.entry = e
    BY <2>1, EntryIs
  <2> QED BY <2>2 DEF e
<1>11. /\ t2.up[j] = t.up[j] /\ t2.entry = t.entry => t2 = Sized(t, j, t2.size[j])
       /\ t2.up[j] = t.up[j] /\ t2.size[j] = t.size[j] /\ t2.entry = t.entry => t2 = t
  BY <1>2, TreeUpdate
<1> QED BY <1>3, <1>10, <1>11

-----------------------------------------------------------------------------
(* An inode on the free list is no file: those of removed directories keep    *)
(* the type of a directory, and no handler frees the inode of a file.         *)
FreeKinds(m) == \A i \in Inodes : IsFree(m, i) => ~Regular(m, i)

LEMMA KindsKept ==
  ASSUME NEW m, FreeKinds(m), NEW m2,
         \A x \in Inodes : IsFree(m2, x) => \/ ~Regular(m2, x)
                                            \/ IsFree(m, x) /\ m2.inode[x].type = m.inode[x].type
  PROVE  FreeKinds(m2)
BY DEF FreeKinds, Regular

LEMMA ShrankKinds ==
  ASSUME NEW m, NEW m2, NEW d \in Inodes, NEW k, NEW j, Shrank(m, m2, d, k, j)
  PROVE  \A x \in Inodes : x # j => m2.inode[x].type = m.inode[x].type
<1>1. Others(m, m2, d, j) /\ m2.inode[d].type = m.inode[d].type
  BY DEF Shrank, Left
<1> QED BY <1>1 DEF Others

LEMMA SameList ==
  ASSUME NEW m, NEW m2, m2.i_head = m.i_head
  PROVE  \A x : IsFree(m2, x) <=> IsFree(m, x)
BY DEF IsFree

LEMMA CreatesKinds ==
  ASSUME NEW m, Healthy(m), FreeKinds(m), m.i_head # << >>, NEW d \in Inodes, Dir(m, d),
         NEW name \in Names, NEW m2, Creates(m, m2, d, name)
  PROVE  FreeKinds(m2)
<1> DEFINE i == NextInode(m)
<1>1. PICK k \in Nat, f \in FsType : Enters(m, f, d, k, i, name) /\ m2 = MakeFile(f)
  BY DEF Creates
<1>2. Sound(f) /\ f.i_head = m.i_head
  BY <1>1 DEF Enters
<1>3. m2.i_head = Rest(m.i_head)
  BY <1>1, <1>2, MakeFileSound
<1>4. \A x \in Inodes : IsFree(m2, x) <=> IsFree(m, x) /\ x # i
  BY <1>3, InodeTaken
<1>5. i \in Inodes \ {0}
  BY NextUnused
<1>6. PICK l \in Nat : Grew(m, m2, d, l, i, name)
  BY CreatesGrew
<1> HIDE DEF i
<1>7. \A x \in Inodes : x # i => m2.inode[x].type = m.inode[x].type
  <2>1. Others(m, m2, d, i) /\ m2.inode[d].type = m.inode[d].type
    BY <1>6 DEF Grew, Entered
  <2> QED BY <2>1 DEF Others
<1> QED BY <1>4, <1>7, KindsKept

LEMMA MakesDirKinds ==
  ASSUME NEW m, Healthy(m), FreeKinds(m), m.i_head # << >>, NEW d \in Inodes, Dir(m, d),
         NEW name \in Names, NEW m2, MakesDir(m, m2, d, name)
  PROVE  FreeKinds(m2)
<1> DEFINE i == NextInode(m)
<1>1. PICK k \in Nat, f \in FsType :
        /\ Enters(m, f, d, k, i, name) /\ f.b_head # << >> /\ m2 = NewDir(f, i, d, NextBlock(f))
  BY DEF MakesDir
<1>2. Sound(f) /\ f.i_head = m.i_head
  BY <1>1 DEF Enters
<1>3. i = NextInode(f)
  BY <1>2, NextOfSame
<1>4. m2.i_head = Rest(m.i_head)
  BY <1>1, <1>2, <1>3, NewDirSound
<1>5. \A x \in Inodes : IsFree(m2, x) <=> IsFree(m, x) /\ x # i
  BY <1>4, InodeTaken
<1>6. i \in Inodes \ {0}
  BY NextUnused
<1>7. PICK l \in Nat : Grew(m, m2, d, l, i, name)
  BY MakesDirGrew
<1> HIDE DEF i
<1>8. \A x \in Inodes : x # i => m2.inode[x].type = m.inode[x].type
  <2>1. Others(m, m2, d, i) /\ m2.inode[d].type = m.inode[d].type
    BY <1>7 DEF Grew, Entered
  <2> QED BY <2>1 DEF Others
<1> QED BY <1>5, <1>8, KindsKept

LEMMA LinksKinds ==
  ASSUME NEW m, Healthy(m), FreeKinds(m), NEW d \in Inodes, Dir(m, d),
         NEW i \in Inodes \ {0}, Legal(m, i), ~IsDir(m, i),
         NEW name \in Names, NEW m2, Links(m, m2, d, i, name)
  PROVE  FreeKinds(m2)
<1>1. PICK k \in Nat, f \in FsType : Enters(m, f, d, k, i, name) /\ m2 = Counted(f, i)
  BY DEF Links
<1>2. m2.i_head = m.i_head
  BY <1>1 DEF Enters, Counted, FsType
<1>3. \A x : IsFree(m2, x) <=> IsFree(m, x)
  BY <1>2, SameList
<1>4. m2.inode[i].type = m.inode[i].type
  BY LinksGrew DEF Alike
<1>5. PICK l \in Nat : Grew(m, m2, d, l, i, name)
  BY LinksGrew
<1>6. \A x \in Inodes : x # i => m2.inode[x].type = m.inode[x].type
  <2>1. Others(m, m2, d, i) /\ m2.inode[d].type = m.inode[d].type
    BY <1>5 DEF Grew, Entered
  <2> QED BY <2>1 DEF Others
<1> QED BY <1>3, <1>4, <1>6, KindsKept

LEMMA UnlinksKinds ==
  ASSUME NEW m, Healthy(m), FreeKinds(m), NEW d \in Inodes, Dir(m, d), NEW t \in Inodes \ {0},
         ~IsDir(m, t), NEW name, NEW m2, Unlinks(m, m2, d, t, name)
  PROVE  FreeKinds(m2)
<1>1. m2.i_head = m.i_head
  BY DEF Unlinks
<1>2. \A x : IsFree(m2, x) <=> IsFree(m, x)
  BY <1>1, SameList
<1>3. m2.inode[t].type = m.inode[t].type
  BY UnlinksShrank
<1>3a. PICK k \in Nat : Shrank(m, m2, d, k, t)
  BY UnlinksShrank
<1>4. \A x \in Inodes : x # t => m2.inode[x].type = m.inode[x].type
  BY <1>3a, ShrankKinds
<1> QED BY <1>2, <1>3, <1>4, KindsKept

LEMMA RemovesKinds ==
  ASSUME NEW m, Healthy(m), FreeKinds(m), NEW d \in Inodes, Dir(m, d), NEW t \in Inodes \ {0}, d # t,
         Legal(m, t), IsDir(m, t), NEW name, NEW m2, Removes(m, m2, d, t, name)
  PROVE  FreeKinds(m2)
<1>1. m2.i_head = <<t>> \o m.i_head
  BY DEF Removes
<1>2. m \in FsType /\ IsInjective1(m.i_head) /\ ~IsFree(m, t)
  BY HealthyIs DEF InodesInv, Legal, Known
<1>3. \A x \in Inodes : IsFree(m2, x) <=> IsFree(m, x) \/ x = t
  BY <1>1, <1>2, InodePushed
<1>4. m2.inode[t].type = m.inode[t].type
  BY RemovesShrank
<1>4a. PICK k \in Nat : Shrank(m, m2, d, k, t)
  BY RemovesShrank
<1>5. \A x \in Inodes : x # t => m2.inode[x].type = m.inode[x].type
  BY <1>4a, ShrankKinds
<1>6. ~Regular(m2, t)
  BY <1>4 DEF Regular, IsDir, INODE_DIRECTORY, INODE_REGULAR
<1> QED BY <1>3, <1>5, <1>6, KindsKept

LEMMA BootKinds ==
  ASSUME NEW m \in FsType, NEW m2, m2 = Boot(m)
  PROVE  FreeKinds(m2)
<1> DEFINE free == {i \in Scanned : m.inode[i].type = INODE_FREE}
<1>1. m2.inode = m.inode /\ m2.i_head = Descending(free, NumTable * IPB)
  BY BootType
<1> HIDE DEF free
<1>2. ListOf(free, NumTable * IPB, m2.i_head)
  BY <1>1, DescendingFacts, ConstantFacts
<1>3. m2.i_head \in Seq(free)
  <2>1. free \cap (0 .. NumTable * IPB - 1) \subseteq free
    OBVIOUS
  <2> QED BY <1>2, <2>1 DEF ListOf
<1>4. \A x \in Inodes : IsFree(m2, x) => x \in free
  BY <1>3 DEF IsFree
<1> QED BY <1>1, <1>4 DEF FreeKinds, Regular, free, INODE_FREE, INODE_REGULAR

LEMMA WriteKinds ==
  ASSUME NEW m, Healthy(m), FreeKinds(m), NEW i \in Inodes, Legal(m, i), ~IsDir(m, i),
         NEW pos \in Nat, pos <= m.inode[i].size, NEW n \in Nat, pos + n <= NUM_DIRECT * UNITS,
         NEW valid \in Nat, NEW m2, m2 = WriteFile(m, i, pos, n, valid).fs
  PROVE  FreeKinds(m2)
<1>1. m.inode[i].type = INODE_REGULAR /\ Sound(m) /\ DataOf(m, i)
  BY HealthyIs DEF Legal, Known, IsDir, DataInv
<1>2. Written(m, m2, i)
  BY <1>1, WriteWritten
<1>3. m2.i_head = m.i_head /\ \A x \in Inodes : m2.inode[x].type = m.inode[x].type
  BY <1>1, <1>2 DEF Written, Alike
<1>4. \A x : IsFree(m2, x) <=> IsFree(m, x)
  BY <1>3, SameList
<1> QED BY <1>3, <1>4, KindsKept

LEMMA KindsStep ==
  ASSUME Promised, Fits, Inv, Defined, FreeKinds(fs), [Next]_vars
  PROVE  FreeKinds(fs')
<1>1. ASSUME NEW p \in Procs, NEW path \in Paths, Create(p, path) PROVE FreeKinds(fs')
  <2> DEFINE d == Parent(p, path)
             t == Target(p, path)
  <2>1. /\ Healthy(fs) /\ d \in Inodes /\ Dir(fs, d) /\ t \in Inodes
        /\ FileName(path) \in Names
        /\ t # 0 => fs' = Clear(fs, t)
        /\ t = 0 => fs.i_head # << >> /\ Creates(fs, fs', d, FileName(path))
    BY <1>1, Created
  <2> HIDE DEF d, t
  <2>2. CASE t # 0
    <3>1. /\ fs'.i_head = fs.i_head /\ OnlyInode(fs, fs', t)
          /\ fs'.inode[t].type = fs.inode[t].type
      BY <2>1, <2>2, ClearSound, HealthyIs
    <3>2. \A x : IsFree(fs', x) <=> IsFree(fs, x)
      BY <3>1, SameList
    <3>3. \A x \in Inodes : fs'.inode[x].type = fs.inode[x].type
      BY <3>1 DEF OnlyInode
    <3> QED BY <3>2, <3>3, KindsKept
  <2>3. CASE t = 0
    BY <2>1, <2>3, CreatesKinds
  <2> QED BY <2>2, <2>3
<1>2. ASSUME NEW p \in Procs, NEW old \in Paths, NEW new \in Paths, Link(p, old, new)
      PROVE  FreeKinds(fs')
  <2> DEFINE d == LinkParent(p, old, new)
  <2>1. /\ Healthy(fs) /\ d \in Inodes /\ Dir(fs, d) /\ FileName(new) \in Names
        /\ \/ fs' = fs
           \/ \E i \in Inodes \ {0} :
                Legal(fs, i) /\ ~IsDir(fs, i) /\ Links(fs, fs', d, i, FileName(new))
    BY <1>2, Linked
  <2> HIDE DEF d
  <2> QED BY <2>1, LinksKinds
<1>3. ASSUME NEW p \in Procs, NEW path \in Paths, Unlink(p, path) PROVE FreeKinds(fs')
  <2> DEFINE d == Parent(p, path)
             t == Target(p, path)
  <2>1. /\ Healthy(fs) /\ d \in Inodes /\ Dir(fs, d) /\ t \in Inodes \ {0} /\ ~IsDir(fs, t)
        /\ Unlinks(fs, fs', d, t, FileName(path))
    BY <1>3, Unlinked
  <2> HIDE DEF d, t
  <2> QED BY <2>1, UnlinksKinds
<1>4. ASSUME NEW p \in Procs, NEW path \in Paths, MkDir(p, path) PROVE FreeKinds(fs')
  <2> DEFINE d == Parent(p, path)
             t == Target(p, path)
  <2>1. /\ Healthy(fs) /\ d \in Inodes /\ Dir(fs, d) /\ FileName(path) \in Names
        /\ t # 0 => fs' = fs
        /\ t = 0 => fs.i_head # << >> /\ MakesDir(fs, fs', d, FileName(path))
    BY <1>4, DirMadeIn
  <2> HIDE DEF d, t
  <2> QED BY <2>1, MakesDirKinds
<1>5. ASSUME NEW p \in Procs, NEW path \in Paths, RmDir(p, path) PROVE FreeKinds(fs')
  <2> DEFINE d == Parent(p, path)
             t == Target(p, path)
  <2>1. /\ Healthy(fs) /\ d \in Inodes /\ Dir(fs, d) /\ t \in Inodes \ {0} /\ IsDir(fs, t)
        /\ Legal(fs, t)
        /\ fs.inode[t].size > 2 => fs' = fs
        /\ fs.inode[t].size <= 2 => t # d /\ Removes(fs, fs', d, t, FileName(path))
    BY <1>5, DirRemoved
  <2> HIDE DEF d, t
  <2>2. fs.inode[t].size \in Nat
    BY <2>1, SizeNat DEF Healthy, Safe, Sound
  <2> QED BY <2>1, <2>2, RemovesKinds
<1>6. ASSUME NEW p \in Procs, NEW fd \in Slots, NEW n \in Sizes, Write(p, fd, n) PROVE FreeKinds(fs')
  <2> DEFINE i == fds[p][fd].i_num
             pos == fds[p][fd].pos
  <2>1. /\ Healthy(fs) /\ i \in Inodes \ {0} /\ pos \in Nat /\ n \in Nat
        /\ Legal(fs, i) /\ ~IsDir(fs, i) /\ pos <= fs.inode[i].size /\ pos + n <= NUM_DIRECT * UNITS
    BY <1>6, Wrote
  <2>2. PICK valid \in 0 .. n : fs' = WriteFile(fs, i, pos, n, valid).fs
    BY <1>6, Wrote
  <2> HIDE DEF i, pos
  <2>3. valid \in Nat
    BY <2>1
  <2> QED BY <2>1, <2>2, <2>3, WriteKinds
<1>7. ASSUME Restart PROVE FreeKinds(fs')
  <2>1. fs \in FsType /\ fs' = Boot(fs)
    BY <1>7, HealthyIs DEF Restart, Inv, Defined
  <2> QED BY <2>1, BootKinds
<1>8. fs' = fs => FreeKinds(fs')
  OBVIOUS
<1>9. ASSUME NEW p \in Procs, NEW path \in Paths, Open(p, path) \/ ChDir(p, path) PROVE fs' = fs
  BY <1>9 DEF Open, ChDir
<1>10. ASSUME NEW p \in Procs, NEW fd \in Slots, NEW n \in Sizes, Read(p, fd, n) PROVE fs' = fs
  BY <1>10 DEF Read
<1>11. ASSUME NEW p \in Procs, NEW fd \in Slots, Close(p, fd) PROVE fs' = fs
  BY <1>11 DEF Close
<1>12. ASSUME NEW p \in Procs, NEW fd \in Slots, NEW offset \in Offsets,
              NEW whence \in {"SEEK_SET", "SEEK_CUR", "SEEK_END"}, Seek(p, fd, offset, whence)
       PROVE  fs' = fs
  BY <1>12 DEF Seek
<1>13. CASE UNCHANGED vars
  BY <1>8, <1>13 DEF vars
<1>14. CASE Next
  BY <1>1, <1>2, <1>3, <1>4, <1>5, <1>6, <1>7, <1>8, <1>9, <1>10, <1>11, <1>12, <1>14 DEF Next
<1> QED BY <1>13, <1>14

LEMMA KindsAlways ==
  ASSUME Promised
  PROVE  Spec => [](Fits /\ Inv /\ Clean(fs) /\ Graph(fs) /\ FreeKinds(fs))
<1>1. Init => FreeKinds(fs)
  BY MkYfsType, BootKinds DEF Init
<1>2. Fits /\ Inv /\ Clean(fs) /\ Graph(fs) /\ FreeKinds(fs) /\ [Next]_vars => FreeKinds(fs')
  BY KindsStep DEF Clean, Defined
<1>3. Spec => [](Fits /\ Inv /\ Clean(fs) /\ Graph(fs))
  BY GraphAlways
<1> DEFINE Ok == FreeKinds(fs)
           Most == Fits /\ Inv /\ Clean(fs) /\ Graph(fs)
<1>4. Most /\ Ok /\ [Next]_vars => Ok'
  BY <1>2
<1>5. Init => Ok
  BY <1>1
<1>7. Spec => []Most
  BY <1>3
<1> HIDE DEF Ok, Most
<1>6. Spec => [](Most /\ Ok)
  BY <1>4, <1>5, <1>7, PTL DEF Spec
<1> QED BY <1>6 DEF Ok, Most

-----------------------------------------------------------------------------
(* Each step is a step of the tree, or one that the tree does not show *)
TreeNext == [Tree!Next]_(Tree!vars)
PathsRight(m) == \A path \in Paths : DotsRight(m, path)

LEMMA SameTree ==
  ASSUME fs' = fs
  PROVE  TreeOf(fs)' = TreeOf(fs)
BY DEF TreeOf

LEMMA NotShown ==
  ASSUME TreeOf(fs)' = TreeOf(fs), fds' = fds, cwd' = cwd
  PROVE  TreeNext
BY DEF TreeNext, Tree!vars

(* The lowest slot that is free.                                              *)
LEMMA OpenInTree ==
  ASSUME NEW p \in Procs, NEW i, i # ERROR, OpenAs(p, i)
  PROVE  Tree!OpenIn(p, i)
<1> DEFINE free == {fd \in Slots : fds[p][fd] = NULL}
<1>1. CASE free = {}
  <2>1. \A fd \in Slots : fds[p][fd] # NULL
    BY <1>1
  <2>2. fds' = fds
    BY <1>1 DEF OpenAs
  <2> QED BY <2>1, <2>2 DEF Tree!OpenIn
<1>2. CASE free # {}
  <2> DEFINE n == Min(free)
  <2>1. n \in free /\ \A x \in free : n <= x
    <3>1. free \subseteq Nat
      BY RequestTypes
    <3> QED BY <1>2, <3>1, MinFacts
  <2>2. fds' = [fds EXCEPT ![p][n] = [i_num |-> i, pos |-> 0]]
    BY <1>2 DEF OpenAs
  <2>3. n \in Slots /\ fds[p][n] = NULL
    BY <2>1
  <2>4. \A low \in Slots : low < n => fds[p][low] # NULL
    <3>1. \A low \in Slots : low \in Nat
      BY RequestTypes
    <3>2. \A low \in Slots : fds[p][low] = NULL => low \in free
      OBVIOUS
    <3> HIDE DEF free
    <3> QED BY <2>1, <2>3, <3>1, <3>2
  <2> HIDE DEF n
  <2> QED BY <2>2, <2>3, <2>4 DEF Tree!OpenIn
<1> QED BY <1>1, <1>2

LEMMA OpenTree ==
  ASSUME Fits, Inv, PathsRight(fs), NEW p \in Procs, NEW path \in Paths, Open(p, path)
  PROVE  TreeNext
<1> DEFINE i == Resolve(fs, path, cwd[p])
           r == LookUp(fs, path, cwd[p])
<1>1. /\ Healthy(fs) /\ cwd[p] \in Inodes /\ Legal(fs, cwd[p]) /\ path \in PathType
      /\ fs' = fs /\ cwd' = cwd /\ OpenAs(p, r)
  BY NotBad, RequestTypes DEF Open
<1>2. TreeOf(fs)' = TreeOf(fs)
  BY <1>1, SameTree
<1>3. DotsRight(fs, path)
  BY DEF PathsRight
<1>4. Tree!Lookup(TreeOf(fs), path, cwd[p]) = Shown(i)
  BY <1>1, <1>3, LookupShows
<1>5. i \in Inodes /\ r = IF i = 0 THEN ERROR ELSE i
  BY <1>1, TargetIs DEF LookUp
<1> HIDE DEF i, r
<1>6. CASE i = 0
  <2>1. fds' = fds
    BY <1>1, <1>5, <1>6 DEF OpenAs
  <2> QED BY <1>1, <1>2, <2>1, NotShown
<1>7. CASE i # 0
  <2>1. i # ERROR /\ i # NULL /\ r = i
    BY <1>5, <1>7, NullIs, ConstantFacts DEF ERROR
  <2>2. Tree!Lookup(TreeOf(fs), path, cwd[p]) = i
    BY <1>4, <1>7, <2>1 DEF Shown
  <2>3. Tree!OpenIn(p, i)
    BY <1>1, <2>1, OpenInTree
  <2>4. Tree!Open(p, path)
    BY <1>1, <1>2, <2>1, <2>2, <2>3 DEF Tree!Open
  <2> QED BY <2>4 DEF TreeNext, Tree!Next
<1> QED BY <1>6, <1>7

LEMMA ChDirTree ==
  ASSUME Fits, Inv, PathsRight(fs), NEW p \in Procs, NEW path \in Paths, ChDir(p, path)
  PROVE  TreeNext
<1> DEFINE i == Resolve(fs, path, cwd[p])
           r == LookUp(fs, path, cwd[p])
<1>1. /\ Healthy(fs) /\ cwd[p] \in Inodes /\ Legal(fs, cwd[p]) /\ path \in PathType
      /\ fs' = fs /\ fds' = fds /\ cwd' = IF r = ERROR THEN cwd ELSE [cwd EXCEPT ![p] = r]
  BY NotBad, RequestTypes DEF ChDir
<1>2. TreeOf(fs)' = TreeOf(fs)
  BY <1>1, SameTree
<1>3. DotsRight(fs, path)
  BY DEF PathsRight
<1>4. Tree!Lookup(TreeOf(fs), path, cwd[p]) = Shown(i)
  BY <1>1, <1>3, LookupShows
<1>5. i \in Inodes /\ r = IF i = 0 THEN ERROR ELSE i
  BY <1>1, TargetIs DEF LookUp
<1> HIDE DEF i, r
<1>6. CASE i = 0
  BY <1>1, <1>2, <1>5, <1>6, NotShown
<1>7. CASE i # 0
  <2>1. i # ERROR /\ i # NULL /\ r = i
    BY <1>5, <1>7, NullIs, ConstantFacts DEF ERROR
  <2>2. Tree!Lookup(TreeOf(fs), path, cwd[p]) = i
    BY <1>4, <1>7, <2>1 DEF Shown
  <2>3. Tree!ChDir(p, path)
    BY <1>1, <1>2, <2>1, <2>2 DEF Tree!ChDir
  <2> QED BY <2>3 DEF TreeNext, Tree!Next
<1> QED BY <1>6, <1>7

LEMMA CloseTree ==
  ASSUME NEW p \in Procs, NEW fd \in Slots, Close(p, fd)
  PROVE  TreeNext
<1>1. fs' = fs /\ cwd' = cwd /\ fds' = [fds EXCEPT ![p][fd] = NULL]
  BY DEF Close
<1>2. TreeOf(fs)' = TreeOf(fs)
  BY <1>1, SameTree
<1>3. Tree!Close(p, fd)
  BY <1>1, <1>2, SMTT(30) DEF Tree!Close
<1> QED BY <1>3 DEF TreeNext, Tree!Next

LEMMA HeldInTree ==
  ASSUME Fits, Inv, Up, NEW p \in Procs, NEW fd \in Slots, fds[p][fd] # NULL,
         NEW i, i = fds[p][fd].i_num, NEW pos, pos = fds[p][fd].pos
  PROVE  /\ i \in Inodes \ {0} /\ Legal(fs, i) /\ pos \in Nat
         /\ fs.inode[i].size \in Nat /\ pos <= fs.inode[i].size
         /\ IsDir(fs, i) => TreeOf(fs).size[i] = NULL
         /\ ~IsDir(fs, i) => /\ fs.inode[i].type = INODE_REGULAR
                             /\ TreeOf(fs).size[i] = fs.inode[i].size
                             /\ TreeOf(fs).size[i] # NULL
<1>1. Healthy(fs) /\ Holding(fs, fds, cwd) /\ fs \in FsType /\ fds \in FdsType
  BY NotBad
<1>2. i \in Inodes /\ pos \in Nat /\ fs.inode[i].size \in Nat
  BY <1>1, FileFacts, SizeNat DEF Fits
<1>3. Legal(fs, i) /\ pos <= fs.inode[i].size
  BY <1>1 DEF Holding, FileHeld
<1>4. i # 0
  BY <1>1, <1>2, <1>3, HealthyNot0
<1>5. TreeOf(fs).size[i] = IF Regular(fs, i) THEN fs.inode[i].size ELSE NULL
  BY <1>1, <1>2, TreeIs
<1>6. IsDir(fs, i) => ~Regular(fs, i)
  BY DEF IsDir, Regular, INODE_REGULAR, INODE_DIRECTORY
<1>7. ~IsDir(fs, i) => fs.inode[i].type = INODE_REGULAR
  BY <1>3 DEF Legal, Known, IsDir
<1>8. NULL \notin Nat
  BY NullIs
<1> QED BY <1>2, <1>3, <1>4, <1>5, <1>6, <1>7, <1>8 DEF Regular

LEMMA MovedTree ==
  ASSUME Fits, Inv, Up, NEW p \in Procs, NEW fd \in Slots, fds[p][fd] # NULL,
         fs' = fs, cwd' = cwd, NEW to \in Nat, fds' = [fds EXCEPT ![p][fd].pos = to]
  PROVE  /\ TreeOf(fs)' = TreeOf(fs) /\ Tree!Move(p, fd, to)
         /\ IsDir(fs, fds[p][fd].i_num) => TreeNext
<1> DEFINE i == fds[p][fd].i_num
<1>1. TreeOf(fs)' = TreeOf(fs)
  BY SameTree
<1>2. Tree!Move(p, fd, to)
  BY DEF Tree!Move
<1>3. ASSUME IsDir(fs, i) PROVE TreeNext
  <2>1. TreeOf(fs).size[i] = NULL
    BY <1>3, HeldInTree
  <2>2. fds[p][fd] \in FileType /\ fds \in FdsType
    BY DEF Fits, TypeInv, FdsType
  <2>3. fds'[p][fd] = [fds[p][fd] EXCEPT !.pos = to]
    BY <2>2 DEF FdsType
  <2>4. fds'[p][fd].pos = to /\ fds'[p][fd] \in FileType
    BY <2>2, <2>3 DEF FileType
  <2>5. fds'[p][fd] # NULL
    BY <2>4, NullAssumption, NullIs DEF FileType
  <2>6. Tree!Move(p, fd, fds'[p][fd].pos)
    BY <1>2, <2>4
  <2>7. Tree!InDir(p, fd)
    BY <1>1, <2>1, <2>5, <2>6 DEF Tree!InDir
  <2> QED BY <2>7 DEF TreeNext, Tree!Next
<1> QED BY <1>1, <1>2, <1>3

LEMMA ReadTree ==
  ASSUME Fits, Inv, NEW p \in Procs, NEW fd \in Slots, NEW n \in Sizes, Read(p, fd, n)
  PROVE  TreeNext
<1> DEFINE i == fds[p][fd].i_num
           pos == fds[p][fd].pos
           size == fs.inode[i].size
           bytes == ReadFile(fs, i, pos, n)
           to == pos + bytes
           last == IF pos + n < size THEN pos + n ELSE size
<1>1. /\ Up /\ fds[p][fd] # NULL /\ n \in Nat /\ fs' = fs /\ cwd' = cwd
      /\ Advance(p, fd, bytes) \/ Advance(p, fd, ERROR)
  BY RequestTypes DEF Read
<1>2. i \in Inodes \ {0} /\ pos \in Nat /\ size \in Nat /\ pos <= size
  BY <1>1, HeldInTree
<1>3. bytes = ERROR \/ to = last
  <2> DEFINE left == IF size - pos < n THEN size - pos ELSE n
  <2>1. bytes \in {ERROR, left}
    BY DEF ReadFile
  <2> HIDE DEF bytes, pos, i, size
  <2>2. pos + left = last
    BY <1>1, <1>2
  <2> HIDE DEF left, last
  <2> QED BY <2>1, <2>2
<1>4. CASE fds' = fds
  BY <1>1, <1>4, SameTree, NotShown
<1>5. CASE fds' # fds
  <2>1. bytes # ERROR /\ fds' = [fds EXCEPT ![p][fd].pos = to]
    BY <1>1, <1>5 DEF Advance
  <2>2. to = last
    BY <1>3, <2>1
  <2>3. last \in Nat
    <3> HIDE DEF pos, i, size
    <3> QED BY <1>1, <1>2
  <2> HIDE DEF to, last, bytes
  <2>4. /\ TreeOf(fs)' = TreeOf(fs) /\ Tree!Move(p, fd, last)
        /\ IsDir(fs, i) => TreeNext
    BY <1>1, <2>1, <2>2, <2>3, MovedTree
  <2>5. CASE ~IsDir(fs, i)
    <3>1. TreeOf(fs).size[i] = size /\ TreeOf(fs).size[i] # NULL
      BY <1>1, <2>5, HeldInTree, SMTT(30)
    <3>2. Tree!Read(p, fd, n)
      BY <1>1, <2>4, <3>1 DEF Tree!Read, last
    <3> QED BY <3>2 DEF TreeNext, Tree!Next
  <2> QED BY <2>4, <2>5
<1> QED BY <1>4, <1>5

LEMMA SeekTree ==
  ASSUME Fits, Inv, NEW p \in Procs, NEW fd \in Slots, NEW offset \in Offsets,
         NEW whence \in {"SEEK_SET", "SEEK_CUR", "SEEK_END"}, Seek(p, fd, offset, whence)
  PROVE  TreeNext
<1> DEFINE i == fds[p][fd].i_num
           pos == fds[p][fd].pos
           size == fs.inode[i].size
           to == SeekFile(fs, i, offset, whence, pos)
<1>1. /\ Up /\ fds[p][fd] # NULL /\ fs' = fs /\ cwd' = cwd
      /\ fds' = IF to = ERROR THEN fds ELSE [fds EXCEPT ![p][fd].pos = to]
  BY DEF Seek
<1>2. i \in Inodes \ {0} /\ pos \in Nat /\ size \in Nat /\ pos <= size
  BY <1>1, HeldInTree
<1>3. to = ERROR \/ to \in 0 .. size
  <2>1. SeeksExact
    BY SeekExact DEF Fits
  <2>2. fds[p][fd] \in {fds[q][g] : q \in Procs, g \in Slots} \ {NULL}
    BY <1>1
  <2>3. \E x : to = IF fds[p][fd].pos \in 0 .. size /\ x \in 0 .. size THEN x ELSE ERROR
    BY <2>1, <2>2 DEF SeeksExact
  <2> HIDE DEF to, size, i
  <2> QED BY <2>3
<1> HIDE DEF to
<1>4. CASE to = ERROR
  BY <1>1, <1>4, SameTree, NotShown
<1>5. CASE to # ERROR
  <2>1. to \in 0 .. size /\ to \in Nat /\ fds' = [fds EXCEPT ![p][fd].pos = to]
    BY <1>1, <1>2, <1>3, <1>5
  <2>2. /\ TreeOf(fs)' = TreeOf(fs) /\ Tree!Move(p, fd, to)
        /\ IsDir(fs, i) => TreeNext
    BY <1>1, <2>1, MovedTree
  <2>3. CASE ~IsDir(fs, i)
    <3>1. TreeOf(fs).size[i] = size /\ TreeOf(fs).size[i] # NULL
      BY <1>1, <2>3, HeldInTree, SMTT(30)
    <3>2. Tree!Seek(p, fd)
      BY <1>1, <2>1, <2>2, <3>1 DEF Tree!Seek
    <3> QED BY <3>2 DEF TreeNext, Tree!Next
  <2> QED BY <2>2, <2>3
<1> QED BY <1>4, <1>5

LEMMA SameDisk ==
  ASSUME NEW m, NEW m2, m2.inode = m.inode, m2.cell = m.cell, m2.indirect = m.indirect
  PROVE  TreeOf(m2) = TreeOf(m)
<1>1. \A i, k : CellAt(m2, i, k) = CellAt(m, i, k)
  BY DEF CellAt, NthBlock, Pointer
<1>2. ASSUME NEW i, NEW name PROVE EntryOf(m2, i, name) = EntryOf(m, i, name)
  <2> DEFINE cells(x) == {CellAt(x, i, k) : k \in 2 .. x.inode[i].size - 1}
             here(S) == {c.inum : c \in {x \in S : x.name = name}} \ {0}
  <2>1. cells(m2) = cells(m)
    BY <1>1
  <2>2. \A x : EntryOf(x, i, name) =
                IF here(cells(x)) = {} THEN NULL ELSE CHOOSE j \in here(cells(x)) : TRUE
    BY DEF EntryOf
  <2> HIDE DEF here, cells
  <2> QED BY <2>1, <2>2
<1>3. \A i : IsDir(m2, i) <=> IsDir(m, i)
  BY DEF IsDir
<1> QED BY <1>1, <1>2, <1>3 DEF TreeOf

LEMMA TreePrime == TreeOf(fs)' = TreeOf(fs')
BY DEF TreeOf

LEMMA RestartTree ==
  ASSUME Fits, Inv, Restart
  PROVE  TreeNext
<1>1. fs \in FsType /\ fs' = Boot(fs) /\ fds' = NoFiles /\ cwd' = AtRoot
  BY NotBad DEF Restart
<1>2. TreeOf(fs') = TreeOf(fs)
  BY <1>1, BootType, SameDisk
<1>3. Tree!Restart
  BY <1>1, <1>2, TreePrime DEF Tree!Restart, Tree!NoFiles, Tree!AtRoot, NoFiles, AtRoot
<1> QED BY <1>3 DEF TreeNext, Tree!Next

LEMMA InitTree == Init => Tree!Init
<1> SUFFICES ASSUME Init PROVE Tree!Init
  OBVIOUS
<1> DEFINE m == MkYfs
           t == TreeOf(fs)
<1>1. fs = Boot(m) /\ fds = NoFiles /\ cwd = AtRoot
  BY DEF Init
<1>2. /\ m \in FsType
      /\ \A i \in Inodes :
           IF i = ROOTINODE
           THEN m.inode[i].type = INODE_DIRECTORY /\ m.inode[i].size = 2
           ELSE m.inode[i].type \in {INODE_FREE, HEADER} /\ m.inode[i].size = 0
      /\ Healthy(m)
  BY MkYfsType, MkYfsHealthy
<1> HIDE DEF m
<1>3. t = TreeOf(m)
  BY <1>1, <1>2, BootType, SameDisk
<1> HIDE DEF t
<1>4. ROOTINODE \in Inodes /\ Dir(m, ROOTINODE) /\ CellAt(m, ROOTINODE, 1).inum = ROOTINODE
  BY <1>2, HealthyIs, RootScanned DEF RootInv
<1>5. \A x \in Inodes : Dir(m, x) <=> x = ROOTINODE
  BY <1>2, <1>4 DEF Dir
<1>6. \A x, y \in Inodes, l \in Nat : ~Edge(m, x, l, y)
  <2>1. Below(m, ROOTINODE) = {}
    BY <1>2, <1>4 DEF Below
  <2> QED BY <1>5, <2>1 DEF Edge, Entry
<1>7. \A i \in Inodes : ~Regular(m, i)
  BY <1>2 DEF Regular, INODE_DIRECTORY, INODE_FREE, INODE_REGULAR, HEADER
<1>8. t.size = [i \in Inodes |-> NULL]
  <2>1. \A i \in Inodes : t.size[i] = NULL
    BY <1>2, <1>3, <1>7, TreeIs
  <2>2. t.size \in [Inodes -> Nat \cup {NULL}]
    BY <1>2, <1>3, TreeIs
  <2> QED BY <2>1, <2>2
<1>9. t.up = [i \in Inodes |-> IF i = ROOTINODE THEN ROOTINODE ELSE NULL]
  <2>1. \A i \in Inodes : t.up[i] = IF i = ROOTINODE THEN ROOTINODE ELSE NULL
    BY <1>2, <1>3, <1>4, <1>5, TreeIs
  <2>2. t.up \in [Inodes -> (Inodes \ {0}) \cup {NULL}]
    BY <1>2, <1>3, TreeIs
  <2> QED BY <2>1, <2>2
<1>10. t.entry = [i \in Inodes |-> Tree!Empty]
  <2>1. t.entry \in [Inodes -> [Names -> (Inodes \ {0}) \cup {NULL}]]
    BY <1>2, <1>3, TreeIs
  <2>2. \A d \in Inodes, name \in Names, j \in Inodes \ {0} : t.entry[d][name] = j <=> Leads(m, d, name, j)
    BY <1>2, <1>3, TreeIs
  <2>3. \A d \in Inodes, name \in Names, j \in Inodes \ {0} : t.entry[d][name] # j
    BY <1>6, <2>2 DEF Leads
  <2>4. \A d \in Inodes, name \in Names : t.entry[d][name] = NULL
    BY <2>1, <2>3
  <2>5. \A d \in Inodes : t.entry[d] = Tree!Empty
    BY <2>1, <2>4 DEF Tree!Empty
  <2> QED BY <2>1, <2>5
<1>11. t = [entry |-> t.entry, up |-> t.up, size |-> t.size]
  BY <1>2, <1>3, TreeIs
<1>12. t = [entry |-> [i \in Inodes |-> Tree!Empty],
            up    |-> [i \in Inodes |-> IF i = ROOTINODE THEN ROOTINODE ELSE NULL],
            size  |-> [i \in Inodes |-> NULL]]
  BY <1>8, <1>9, <1>10, <1>11, SMTT(30)
<1> QED BY <1>1, <1>12 DEF t, Tree!Init, Tree!NoFiles, Tree!AtRoot, NoFiles, AtRoot

(* A write writes all it was asked to, where the buffer is the process's.      *)
LEMMA WholeWritten ==
  ASSUME Promised, "buffer" \in Promises, Fits, Inv, Clean(fs),
         NEW p \in Procs, NEW fd \in Slots, NEW n \in Sizes, Write(p, fd, n),
         NEW i, i = fds[p][fd].i_num, NEW pos, pos = fds[p][fd].pos
  PROVE  /\ fds' = [fds EXCEPT ![p][fd].pos = pos + n]
         /\ n = 0 => fs' = fs
         /\ n # 0 => /\ Written(fs, fs', i)
                     /\ fs'.inode[i].size = Larger(fs.inode[i].size, pos + n)
<1>1. PICK valid \in 0 .. n :
        /\ Kept("buffer", valid = n) /\ fs' = WriteFile(fs, i, pos, n, valid).fs
        /\ Advance(p, fd, WriteFile(fs, i, pos, n, valid).ret)
  BY DEF Write
<1>2. valid = n
  BY <1>1 DEF Kept
<1> DEFINE r == WriteFile(fs, i, pos, n, valid)
<1>3. fs' = r.fs /\ Advance(p, fd, r.ret) /\ valid \in Nat
  BY <1>1, RequestTypes
<1>4. /\ Healthy(fs) /\ i \in Inodes \ {0} /\ pos \in Nat /\ n \in Nat
      /\ Legal(fs, i) /\ ~IsDir(fs, i) /\ pos <= fs.inode[i].size /\ pos + n <= NUM_DIRECT * UNITS
      /\ n # 0 => Tabled(Missing(i, pos, n))
  BY Wrote
<1>5. fs.inode[i].type = INODE_REGULAR /\ DataOf(fs, i) /\ Sound(fs) /\ fs \in FsType
  BY <1>4, HealthyIs, SMTT(30) DEF Legal, Known, IsDir, DataInv
<1>6. n # 0 => Len(fs.b_head) >= NumTable +
        Cardinality(Lacking(pos \div UNITS, (pos + n - 1) \div UNITS, fs.inode[i].size))
  BY <1>4 DEF Tabled, Missing, Lacking
<1> HIDE DEF r
<1>7. /\ r.ret = n
      /\ n # 0 => r.fs.inode[i].size = Larger(fs.inode[i].size, pos + n)
  <2>1. r = WriteFile(fs, i, pos, n, valid)
    BY DEF r
  <2>2. i \in Inodes /\ i # 0 /\ valid \in Nat
    BY <1>3, <1>4
  <2>3. /\ Clean(r.fs)
        /\ valid = n => /\ r.ret = n
                        /\ n # 0 => r.fs.inode[i].size = Larger(fs.inode[i].size, pos + n)
    BY ONLY Clean(fs), <1>4, <1>5, <1>6, <2>1, <2>2, WriteClean
  <2> QED BY <1>2, <2>3
<1>8. n # 0 => Written(fs, r.fs, i)
  BY <1>3, <1>4, <1>5, WriteWritten, SMTT(30) DEF r
<1>9. n = 0 => r.fs = fs
  <2>1. fs \in FsType /\ i \in Inodes /\ pos \in Nat /\ valid \in Nat
    BY <1>3, <1>4, <1>5
  <2>2. WriteFile(fs, i, pos, 0, valid).fs = fs
    BY ONLY <2>1, NothingWritten
  <2> QED BY <2>2 DEF r
<1>10. n # ERROR
  BY <1>4, NumbersNoError
<1>11. fds' = [fds EXCEPT ![p][fd].pos = pos + n]
  BY <1>3, <1>7, <1>10 DEF Advance
<1> QED BY <1>3, <1>7, <1>8, <1>9, <1>11

LEMMA WriteTree ==
  ASSUME Promised, "buffer" \in Promises, Fits, Inv, Clean(fs), Healthy(fs'),
         NEW p \in Procs, NEW fd \in Slots, NEW n \in Sizes, Write(p, fd, n)
  PROVE  TreeNext
<1> DEFINE i == fds[p][fd].i_num
           pos == fds[p][fd].pos
           size == fs.inode[i].size
           end == pos + n
           t == TreeOf(fs)
           t2 == TreeOf(fs')
<1>1. Up /\ fds[p][fd] # NULL /\ n \in Nat /\ cwd' = cwd
  BY RequestTypes DEF Write
<1>2. /\ i \in Inodes \ {0} /\ pos \in Nat /\ size \in Nat /\ pos <= size
      /\ Healthy(fs) /\ ~IsDir(fs, i)
  BY <1>1, HeldInTree, Wrote
<1>3. t.size[i] = size /\ t.size[i] # NULL
  BY <1>1, <1>2, HeldInTree
<1>4. /\ fds' = [fds EXCEPT ![p][fd].pos = end]
      /\ n = 0 => fs' = fs
      /\ n # 0 => Written(fs, fs', i) /\ fs'.inode[i].size = Larger(size, end)
  BY WholeWritten
<1>5. end \in Nat
  <2> HIDE DEF pos
  <2> QED BY <1>1, <1>2
<1>6. CASE n = 0
  <2>1. TreeOf(fs)' = TreeOf(fs) /\ Tree!Move(p, fd, end)
    BY <1>1, <1>4, <1>5, <1>6, MovedTree
  <2>2. end = IF pos + n < size THEN pos + n ELSE size
    <3> HIDE DEF pos, size
    <3> QED BY <1>2, <1>6
  <2>3. Tree!Move(p, fd, IF pos + n < size THEN pos + n ELSE size)
    BY <2>1, <2>2, SMTT(30)
  <2>4. Tree!Read(p, fd, n)
    BY <1>1, <1>3, <2>1, <2>3 DEF Tree!Read
  <2> QED BY <2>4 DEF TreeNext, Tree!Next
<1>7. CASE n # 0
  <2>1. t2.size[i] = Larger(size, end) /\ ~IsDir(fs', i) /\ \A x \in Inodes : x # i => Alike(fs, fs', x)
    <3>1. fs'.inode[i].type = INODE_REGULAR /\ \A x \in Inodes : x # i => Alike(fs, fs', x)
      BY <1>4, <1>7 DEF Written
    <3>2. Regular(fs', i) /\ ~IsDir(fs', i)
      BY <3>1 DEF Regular, IsDir, INODE_REGULAR, INODE_DIRECTORY
    <3>3. t2.size[i] = fs'.inode[i].size
      BY <1>2, <3>2, TreeIs
    <3> QED BY <1>4, <1>7, <3>1, <3>2, <3>3
  <2>2. t2 = Sized(t, i, t2.size[i])
    BY <1>2, <2>1, FileTree
  <2>3. Larger(size, end) = IF end > size THEN end ELSE size
    <3> HIDE DEF size, end
    <3> QED BY <1>2, <1>5 DEF Larger
  <2>4. t2 = [t EXCEPT !.size[i] = IF end > @ THEN end ELSE @]
    <3> HIDE DEF t, t2, i, size, end
    <3> QED BY <1>3, <2>1, <2>2, <2>3 DEF Sized
  <2>5. TreeOf(fs)' = t2
    BY TreePrime
  <2>6. Tree!Move(p, fd, end) /\ n > 0
    BY <1>1, <1>4, <1>7, SMTT(30) DEF Tree!Move
  <2>7. Tree!Write(p, fd, n)
    <3> HIDE DEF t2
    <3> QED BY <1>1, <1>3, <2>4, <2>5, <2>6 DEF Tree!Write
  <2> QED BY <2>7, SMTT(30) DEF TreeNext, Tree!Next
<1> QED BY <1>6, <1>7

(* The name at the end of a path, in the tree.                                *)
LEMMA NameFrom ==
  ASSUME Healthy(fs), PathsRight(fs), NEW path \in Paths, NEW cur \in Inodes, Legal(fs, cur),
         NEW d \in Inodes, d = SuperDir(fs, path, cur), Dir(fs, d),
         NEW name \in Names, name = FileName(path), NEW t, t = TreeOf(fs)
  PROVE  /\ Tree!CanName(t, path, cur)
         /\ Tree!At(t, path, cur) = Shown(Resolve(fs, path, cur))
         /\ Tree!At(t, path, cur) = t.entry[d][name] /\ Tree!Dir(t, path, cur) = d
         /\ \A j : Tree!Named(t, path, cur, j) = [t.entry EXCEPT ![d][name] = j]
<1>1. path \in PathType /\ DotsRight(fs, path)
  BY RequestTypes DEF PathsRight
<1>2. d # ERROR /\ IsDir(fs, d)
  BY NullIs DEF Dir, ERROR
<1>3. /\ Tree!Name(path) = FileName(path) /\ Tree!Dir(t, path, cur) = d /\ d # NULL
      /\ Tree!CanName(t, path, cur)
      /\ Tree!At(t, path, cur) = Shown(Resolve(fs, path, cur))
  BY <1>1, <1>2, ParentShows
<1>4. t.entry[d][name] = Tree!At(t, path, cur)
  BY <1>3 DEF Tree!At
<1>5. \A j : Tree!Named(t, path, cur, j) = [t.entry EXCEPT ![d][name] = j]
  BY <1>3 DEF Tree!Named
<1> QED BY <1>3, <1>4, <1>5

LEMMA NameInTree ==
  ASSUME Fits, Inv, Up, PathsRight(fs), NEW p \in Procs, NEW path \in Paths,
         NEW d \in Inodes, d = Parent(p, path), Dir(fs, d), NEW name \in Names, name = FileName(path),
         NEW i, i = Target(p, path), NEW t, t = TreeOf(fs)
  PROVE  /\ Tree!CanName(t, path, cwd[p]) /\ Tree!Dir(t, path, cwd[p]) = d
         /\ Tree!At(t, path, cwd[p]) = Shown(i) /\ t.entry[d][name] = Shown(i)
         /\ \A j : Tree!Named(t, path, cwd[p], j) = [t.entry EXCEPT ![d][name] = j]
<1>1. Healthy(fs) /\ cwd[p] \in Inodes /\ Legal(fs, cwd[p])
  BY NotBad
<1>2. d = SuperDir(fs, path, cwd[p]) /\ i = Resolve(fs, path, cwd[p])
  BY DEF Parent, Target
<1> QED BY <1>1, <1>2, NameFrom

(* An inode that processes may have is one of the tree's.                     *)
LEMMA ShownIs ==
  ASSUME NEW i \in Inodes
  PROVE  /\ i # NULL /\ i # ERROR /\ 0 # NULL
         /\ i # 0 => Shown(i) = i
         /\ i = 0 => Shown(i) = NULL
BY NullIs DEF Shown, ERROR

LEMMA CreateTree ==
  ASSUME Promised, Fits, Inv, FreeKinds(fs), PathsRight(fs), Healthy(fs'),
         NEW p \in Procs, NEW path \in Paths, Create(p, path)
  PROVE  TreeNext
<1> DEFINE d == Parent(p, path)
           name == FileName(path)
           j == Target(p, path)
           t == TreeOf(fs)
           t2 == TreeOf(fs')
<1>1. /\ Healthy(fs) /\ d \in Inodes /\ Dir(fs, d) /\ j \in Inodes /\ ~IsDir(fs, j)
      /\ name \in Names /\ (j = 0 \/ Legal(fs, j))
      /\ j # 0 => fs' = Clear(fs, j)
      /\ j = 0 => fs.i_head # << >> /\ Creates(fs, fs', d, name)
      /\ OpenAs(p, IF j = 0 THEN NextInode(fs) ELSE j)
  BY Created
<1>2. Up /\ cwd' = cwd
  BY DEF Create
<1>3. /\ Tree!CanName(t, path, cwd[p])
      /\ Tree!At(t, path, cwd[p]) = Shown(j) /\ t.entry[d][name] = Shown(j)
      /\ \A i : Tree!Named(t, path, cwd[p], i) = [t.entry EXCEPT ![d][name] = i]
  BY <1>1, <1>2, NameInTree
<1>4. TreeOf(fs)' = t2
  BY TreePrime
<1>5. /\ t.entry \in [Inodes -> [Names -> (Inodes \ {0}) \cup {NULL}]]
      /\ \A i \in Inodes : t.up[i] = IF Dir(fs, i) THEN CellAt(fs, i, 1).inum ELSE NULL
      /\ \A i \in Inodes : t.size[i] = IF Regular(fs, i) THEN fs.inode[i].size ELSE NULL
      /\ \A i \in Inodes : Tree!IsDir(t, i) <=> Dir(fs, i)
      /\ \A i \in Inodes : Tree!IsFile(t, i) <=> Regular(fs, i)
  BY <1>1, TreeIs
<1>6. /\ \A i \in Inodes : t2.up[i] = IF Dir(fs', i) THEN CellAt(fs', i, 1).inum ELSE NULL
      /\ \A i \in Inodes : t2.size[i] = IF Regular(fs', i) THEN fs'.inode[i].size ELSE NULL
  BY TreeIs
<1>7. Tree!Lookup(t, path, cwd[p]) = Shown(j)
  BY <1>1, <1>2, NotBad, RequestTypes, LookupShows DEF PathsRight, Target
<1>8. CASE j # 0
  <2>1. Tree!OpenIn(p, j) /\ Shown(j) = j /\ j # NULL
    BY <1>1, <1>8, OpenInTree, ShownIs
  <2>2. /\ \A x \in Inodes : x # j => Alike(fs, fs', x)
        /\ fs'.inode[j].size = 0 /\ fs'.inode[j].type = fs.inode[j].type
    BY <1>1, <1>8, HealthyIs, ClearSound
  <2>3. fs.inode[j].type = INODE_REGULAR
    BY <1>1, <1>8 DEF Legal, Known, IsDir
  <2>4. t2.size[j] = 0 /\ ~IsDir(fs', j) /\ ~Tree!IsDir(t, j)
    BY <1>1, <1>5, <1>6, <2>2, <2>3 DEF Regular, IsDir, Dir
  <2>5. t2 = Sized(t, j, t2.size[j])
    BY <1>1, <2>2, <2>4, FileTree
  <2>6. Tree!Named(t, path, cwd[p], j) = t.entry
    <3> DEFINE e == t.entry
    <3>1. e \in [Inodes -> [Names -> (Inodes \ {0}) \cup {NULL}]] /\ e[d][name] = j
      BY <1>3, <1>5, <2>1
    <3> HIDE DEF e, d, name
    <3>2. [e EXCEPT ![d][name] = j] = e
      BY <1>1, <3>1
    <3> QED BY <1>3, <3>2 DEF e
  <2> HIDE DEF t, t2, d, name, j
  <2>7. CASE t2 = t
    <3>1. Tree!Open(p, path)
      BY <1>2, <1>4, <1>7, <2>1, <2>7 DEF Tree!Open, t
    <3> QED BY <3>1 DEF TreeNext, Tree!Next
  <2>8. CASE t2 # t
    <3>1. t = [t EXCEPT !.entry = t.entry]
      BY <1>1, TreeIs DEF t
    <3>2. t2 = [t EXCEPT !.entry = Tree!Named(t, path, cwd[p], j), !.size[j] = 0]
      BY <2>4, <2>5, <2>6, <3>1 DEF Sized
    <3>3. Tree!Create(p, path)
      BY <1>2, <1>3, <1>4, <2>1, <2>4, <3>2 DEF Tree!Create, t
    <3> QED BY <1>4, <2>8, <3>3 DEF TreeNext, Tree!Next, Tree!ChangesTree, t
  <2> QED BY <2>7, <2>8
<1>9. CASE j = 0
  <2> DEFINE i == NextInode(fs)
  <2>1. /\ i \in Inodes \ {0} /\ IsFree(fs, i) /\ ~Dir(fs, i)
    BY <1>1, <1>9, NextUnused
  <2>2. Tree!OpenIn(p, i) /\ Shown(j) = NULL
    BY <1>1, <1>9, <2>1, OpenInTree, ShownIs
  <2>3. i \in Tree!Fresh(t) /\ ~Tree!IsDir(t, i) /\ ~Regular(fs, i)
    BY <1>5, <2>1 DEF Tree!Fresh, FreeKinds
  <2>4. PICK k \in Nat : Grew(fs, fs', d, k, i, name)
    BY <1>1, <1>9, CreatesGrew
  <2>5. fs'.inode[i].size = 0 /\ fs'.inode[i].type = INODE_REGULAR
    BY <1>1, <1>9, CreatesGrew
  <2>6. Regular(fs', i) /\ ~Dir(fs', i)
    BY <2>5 DEF Regular, Dir, IsDir, INODE_REGULAR, INODE_DIRECTORY
  <2>7. t2.size[i] = 0 /\ t.size[i] = NULL /\ t2.up[i] = t.up[i]
    BY <1>5, <1>6, <2>1, <2>3, <2>5, <2>6
  <2> HIDE DEF i, d, name, j
  <2>8. /\ t2.entry = [t.entry EXCEPT ![d][name] = i]
        /\ \A x \in Inodes : x # i => t2.up[x] = t.up[x] /\ t2.size[x] = t.size[x]
    BY <1>1, <2>1, <2>4, <2>6, GrewTree
  <2>9. t2 = Sized(Entried(t, t2.entry), i, t2.size[i])
    BY <1>1, <2>1, <2>7, <2>8, TreeUpdate
  <2>10. t2 # t
    BY <2>7, NullIs
  <2> HIDE DEF t, t2
  <2>11. t2 = [t EXCEPT !.entry = Tree!Named(t, path, cwd[p], i), !.size[i] = 0]
    BY <1>3, <2>7, <2>8, <2>9 DEF Sized, Entried
  <2>12. Tree!Create(p, path)
    BY <1>2, <1>3, <1>4, <2>2, <2>3, <2>11 DEF Tree!Create, t
  <2> QED BY <1>4, <2>10, <2>12 DEF TreeNext, Tree!Next, Tree!ChangesTree, t
<1> QED BY <1>8, <1>9

LEMMA LinkTree ==
  ASSUME Promised, Fits, Inv, PathsRight(fs), Healthy(fs'),
         NEW p \in Procs, NEW old \in Paths, NEW new \in Paths, Link(p, old, new)
  PROVE  TreeNext
<1> DEFINE d == LinkParent(p, old, new)
           name == FileName(new)
           cur == Start(old, cwd[p])
           t == TreeOf(fs)
           t2 == TreeOf(fs')
<1>1. /\ Healthy(fs) /\ d \in Inodes /\ Dir(fs, d) /\ name \in Names
      /\ \/ fs' = fs
         \/ \E i \in Inodes \ {0} :
              i = Target(p, old) /\ Legal(fs, i) /\ ~IsDir(fs, i) /\ Links(fs, fs', d, i, name)
  BY Linked
<1>2. Up /\ fds' = fds /\ cwd' = cwd
  BY DEF Link
<1>3. TreeOf(fs)' = t2
  BY TreePrime
<1>4. CASE fs' = fs
  BY <1>2, <1>4, SameTree, NotShown
<1>5. ASSUME NEW i \in Inodes \ {0}, i = Target(p, old), Legal(fs, i), ~IsDir(fs, i),
             Links(fs, fs', d, i, name)
      PROVE  TreeNext
  <2>1. /\ cwd[p] \in Inodes /\ Legal(fs, cwd[p]) /\ old \in PathType /\ DotsRight(fs, old)
    BY <1>2, NotBad, RequestTypes DEF PathsRight
  <2>2. Tree!Lookup(t, old, cwd[p]) = i /\ i # NULL
    BY <1>1, <1>5, <2>1, LookupShows, ShownIs DEF Target
  <2>3. cur \in Inodes /\ Legal(fs, cur) /\ Tree!From(old, cwd[p]) = cur
    BY <1>1, <2>1, StartLegal DEF Tree!From, Start
  <2>4. d = SuperDir(fs, new, cur)
    BY DEF LinkParent, SuperDir, Parts, Start
  <2> HIDE DEF d, name, cur
  <2>5. /\ Tree!CanName(t, new, cur) /\ Tree!At(t, new, cur) = t.entry[d][name]
        /\ \A j : Tree!Named(t, new, cur, j) = [t.entry EXCEPT ![d][name] = j]
    BY <1>1, <2>3, <2>4, NameFrom DEF name
  <2>6. PICK k \in Nat : Grew(fs, fs', d, k, i, name)
    BY <1>1, <1>5, LinksGrew
  <2>7. Alike(fs, fs', i)
    BY <1>1, <1>5, LinksGrew
  <2>8. ~Dir(fs, i) /\ ~Dir(fs', i)
    BY <1>5, <2>7 DEF Dir, IsDir, Alike
  <2>9. /\ t.entry[d][name] = NULL
        /\ t2.entry = [t.entry EXCEPT ![d][name] = i]
        /\ \A x \in Inodes : x # i => t2.up[x] = t.up[x] /\ t2.size[x] = t.size[x]
    BY <1>1, <2>6, <2>8, GrewTree
  <2>10. t2.up[i] = t.up[i] /\ t2.size[i] = t.size[i]
    BY <1>1, <2>7, OthersInTree
  <2>11. t2 = Entried(t, t2.entry)
    BY <1>1, <2>9, <2>10, TreeUpdate
  <2>12. ~Tree!IsDir(t, i)
    BY <1>1, <2>8, TreeIs
  <2>13. t2.entry[d][name] = i
    <3>1. t.entry \in [Inodes -> [Names -> (Inodes \ {0}) \cup {NULL}]]
      BY <1>1, TreeIs
    <3> HIDE DEF t, t2
    <3> QED BY <1>1, <2>9, <3>1 DEF name
  <2>14. t2 # t
    BY <2>2, <2>9, <2>13
  <2> HIDE DEF t, t2
  <2>15. t2 = [t EXCEPT !.entry = Tree!Named(t, new, cur, i)]
    BY <2>5, <2>9, <2>11 DEF Entried
  <2>16. Tree!Link(p, old, new)
    BY <1>2, <1>3, <2>2, <2>3, <2>5, <2>9, <2>12, <2>15 DEF Tree!Link, t
  <2> QED BY <1>3, <2>14, <2>16 DEF TreeNext, Tree!Next, Tree!ChangesTree, t
<1> QED BY <1>1, <1>4, <1>5

LEMMA MkDirTree ==
  ASSUME Promised, Fits, Inv, FreeKinds(fs), PathsRight(fs), Healthy(fs'),
         NEW p \in Procs, NEW path \in Paths, MkDir(p, path)
  PROVE  TreeNext
<1> DEFINE d == Parent(p, path)
           name == FileName(path)
           j == Target(p, path)
           i == NextInode(fs)
           t == TreeOf(fs)
           t2 == TreeOf(fs')
<1>1. /\ Healthy(fs) /\ d \in Inodes /\ Dir(fs, d) /\ name \in Names
      /\ j # 0 => fs' = fs
      /\ j = 0 => fs.i_head # << >> /\ MakesDir(fs, fs', d, name)
  BY DirMadeIn
<1>2. Up /\ fds' = fds /\ cwd' = cwd
  BY DEF MkDir
<1>3. TreeOf(fs)' = t2
  BY TreePrime
<1>4. CASE j # 0
  BY <1>1, <1>2, <1>4, SameTree, NotShown
<1>5. CASE j = 0
  <2>1. /\ Tree!CanName(t, path, cwd[p]) /\ Tree!Dir(t, path, cwd[p]) = d
        /\ Tree!At(t, path, cwd[p]) = NULL
        /\ \A x : Tree!Named(t, path, cwd[p], x) = [t.entry EXCEPT ![d][name] = x]
    BY <1>1, <1>2, <1>5, NameInTree DEF Shown
  <2>2. i \in Inodes \ {0} /\ IsFree(fs, i) /\ ~Dir(fs, i)
    BY <1>1, <1>5, NextUnused
  <2>3. /\ \A x \in Inodes : t.up[x] = IF Dir(fs, x) THEN CellAt(fs, x, 1).inum ELSE NULL
        /\ \A x \in Inodes : t.size[x] = IF Regular(fs, x) THEN fs.inode[x].size ELSE NULL
        /\ \A x \in Inodes : Tree!IsDir(t, x) <=> Dir(fs, x)
        /\ \A x \in Inodes : Tree!IsFile(t, x) <=> Regular(fs, x)
    BY <1>1, TreeIs
  <2>4. /\ \A x \in Inodes : t2.up[x] = IF Dir(fs', x) THEN CellAt(fs', x, 1).inum ELSE NULL
        /\ \A x \in Inodes : t2.size[x] = IF Regular(fs', x) THEN fs'.inode[x].size ELSE NULL
    BY TreeIs
  <2>5. i \in Tree!Fresh(t) /\ ~Regular(fs, i)
    BY <2>2, <2>3 DEF Tree!Fresh, FreeKinds
  <2>6. PICK k \in Nat : Grew(fs, fs', d, k, i, name)
    BY <1>1, <1>5, MakesDirGrew
  <2>7. NewEntries(fs', i, d) /\ Dir(fs', i)
    BY <1>1, <1>5, MakesDirGrew
  <2>8. fs'.inode[i].size = 2 /\ CellAt(fs', i, 1).inum = d /\ ~Regular(fs', i)
    BY <2>7 DEF NewEntries, Regular, INODE_REGULAR, INODE_DIRECTORY
  <2>9. t2.size[i] = t.size[i] /\ t2.up[i] = d /\ t.up[i] = NULL
    BY <2>2, <2>3, <2>4, <2>5, <2>7, <2>8
  <2> HIDE DEF i, d, name, j
  <2>10. /\ t2.entry = [t.entry EXCEPT ![d][name] = i]
         /\ \A x \in Inodes : x # i => t2.up[x] = t.up[x] /\ t2.size[x] = t.size[x]
    BY <1>1, <2>2, <2>6, <2>8, GrewTree
  <2>11. t2 = Parented(Entried(t, t2.entry), i, t2.up[i])
    BY <1>1, <2>2, <2>9, <2>10, TreeUpdate
  <2>12. t2 # t
    BY <1>1, <2>9, ShownIs
  <2> HIDE DEF t, t2
  <2>13. t2 = [t EXCEPT !.entry = Tree!Named(t, path, cwd[p], i), !.up[i] = d]
    BY <2>1, <2>9, <2>10, <2>11 DEF Parented, Entried
  <2>14. Tree!MkDir(p, path)
    BY <1>2, <1>3, <2>1, <2>5, <2>13 DEF Tree!MkDir, t
  <2> QED BY <1>3, <2>12, <2>14 DEF TreeNext, Tree!Next, Tree!ChangesTree, t
<1> QED BY <1>4, <1>5

LEMMA RmDirTree ==
  ASSUME Promised, Fits, Inv, PathsRight(fs), Healthy(fs'),
         NEW p \in Procs, NEW path \in Paths, RmDir(p, path)
  PROVE  TreeNext
<1> DEFINE d == Parent(p, path)
           name == FileName(path)
           j == Target(p, path)
           t == TreeOf(fs)
           t2 == TreeOf(fs')
<1>1. /\ Healthy(fs) /\ d \in Inodes /\ Dir(fs, d) /\ name \in Names
      /\ j \in Inodes \ {0} /\ Legal(fs, j) /\ IsDir(fs, j)
      /\ \A q \in Procs : cwd[q] # j
      /\ fs.inode[j].size > 2 => fs' = fs
      /\ fs.inode[j].size <= 2 => j # d /\ Removes(fs, fs', d, j, name)
  BY DirRemoved
<1>2. Up /\ fds' = fds /\ cwd' = cwd
  BY DEF RmDir
<1>3. TreeOf(fs)' = t2
  BY TreePrime
<1>4. fs.inode[j].size \in Nat
  BY <1>1, HealthyIs, SizeNat
<1>5. CASE fs.inode[j].size > 2
  BY <1>1, <1>2, <1>5, SameTree, NotShown
<1>6. CASE fs.inode[j].size <= 2
  <2>1. /\ Tree!At(t, path, cwd[p]) = j
        /\ \A x : Tree!Named(t, path, cwd[p], x) = [t.entry EXCEPT ![d][name] = x]
    BY <1>1, <1>2, NameInTree, ShownIs
  <2>2. /\ t.entry \in [Inodes -> [Names -> (Inodes \ {0}) \cup {NULL}]]
        /\ \A x, y \in Inodes, n \in Names : y # 0 => (t.entry[x][n] = y <=> Leads(fs, x, n, y))
        /\ \A x \in Inodes : t.up[x] = IF Dir(fs, x) THEN CellAt(fs, x, 1).inum ELSE NULL
        /\ t.up \in [Inodes -> (Inodes \ {0}) \cup {NULL}]
        /\ \A x \in Inodes : t.size[x] = IF Regular(fs, x) THEN fs.inode[x].size ELSE NULL
        /\ \A x \in Inodes : Tree!IsDir(t, x) <=> Dir(fs, x)
    BY <1>1, TreeIs
  <2>3. /\ \A x \in Inodes : t2.up[x] = IF Dir(fs', x) THEN CellAt(fs', x, 1).inum ELSE NULL
        /\ \A x \in Inodes : t2.size[x] = IF Regular(fs', x) THEN fs'.inode[x].size ELSE NULL
    BY TreeIs
  <2>4. PICK k \in Nat : /\ Entry(fs, d, k, j) /\ CellAt(fs, d, k).name = name
                         /\ Shrank(fs, fs', d, k, j)
    BY <1>1, <1>6, RemovesShrank
  <2>5. fs'.inode[j].type = fs.inode[j].type /\ fs'.inode[j].size = 0
    BY <1>1, <1>6, RemovesShrank
  <2>6. Dir(fs, j) /\ ~Dir(fs', j) /\ ~Regular(fs, j) /\ ~Regular(fs', j) /\ j # NULL
    BY <1>1, <2>5, ShownIs DEF Legal, Dir, IsDir, Regular, INODE_REGULAR, INODE_DIRECTORY
  <2>7. t2.up[j] = NULL /\ t2.size[j] = t.size[j] /\ t.up[j] # NULL /\ Tree!IsDir(t, j)
    BY <1>1, <2>2, <2>3, <2>6 DEF Tree!IsDir
  <2>8. t.entry[j] = Tree!Empty
    <3>1. \A y \in Inodes, l \in Nat : ~Edge(fs, j, l, y)
      <4>1. Below(fs, j) = {}
        BY <1>4, <1>6 DEF Below
      <4> QED BY <4>1 DEF Edge, Entry
    <3>2. \A n \in Names : t.entry[j][n] = NULL
      BY <1>1, <2>2, <3>1 DEF Leads
    <3> QED BY <1>1, <2>2, <3>2 DEF Tree!Empty
  <2> HIDE DEF d, name, j
  <2>9. /\ t2.entry = [t.entry EXCEPT ![d][name] = NULL]
        /\ \A x \in Inodes : x # j => t2.up[x] = t.up[x] /\ t2.size[x] = t.size[x]
    BY <1>1, <1>6, <2>4, <2>6, ShrankTree, SMTT(30)
  <2>10. t2 = Parented(Entried(t, t2.entry), j, t2.up[j])
    BY <1>1, <2>7, <2>9, TreeUpdate
  <2>11. t2 # t
    BY <2>7
  <2> HIDE DEF t, t2
  <2>12. t2 = [t EXCEPT !.entry = Tree!Named(t, path, cwd[p], NULL), !.up[j] = NULL]
    BY <2>1, <2>7, <2>9, <2>10 DEF Parented, Entried
  <2>13. Tree!RmDir(p, path)
    BY <1>1, <1>2, <1>3, <2>1, <2>6, <2>7, <2>8, <2>12 DEF Tree!RmDir, t
  <2> QED BY <1>3, <2>11, <2>13 DEF TreeNext, Tree!Next, Tree!ChangesTree, t
<1> QED BY <1>4, <1>5, <1>6

(* The file that lost its last name is empty.                                 *)
LEMMA UnlinksSize ==
  ASSUME NEW m, Sound(m), NEW d \in Inodes, NEW j \in Inodes, NEW name, NEW m2,
         Unlinks(m, m2, d, j, name)
  PROVE  m2.inode[j].size = IF m2.inode[j].nlink = 0 THEN 0 ELSE m.inode[j].size
<1> DEFINE y == m.inode[j].nlink - 1
           less == Fewer(m, j)
           f == Dropped(m, j)
<1>1. m2.inode = f.inode
  BY DEF Unlinks, Removed
<1>2. y \in Int /\ less = [m EXCEPT !.inode = [m.inode EXCEPT ![j].nlink = y]] /\ m \in FsType
  BY DEF Fewer, Sound, FsType, InodeType
<1>3. f = IF less.inode[j].nlink = 0 THEN Clear(less, j) ELSE less
  BY DEF Dropped
<1> HIDE DEF f, less, y
<1>4. Sound(less) /\ \A x \in Inodes : Alike(m, less, x)
  BY <1>2, NlinkSound
<1>5. CASE less.inode[j].nlink = 0
  <2>1. f = Clear(less, j)
    BY <1>3, <1>5
  <2>2. f.inode[j].size = 0 /\ f.inode[j].nlink = less.inode[j].nlink
    BY <1>4, <2>1, ClearSound
  <2> QED BY <1>1, <1>5, <2>2
<1>6. CASE less.inode[j].nlink # 0
  <2>1. f = less
    BY <1>3, <1>6
  <2>2. f.inode[j].size = m.inode[j].size
    BY <1>4, <2>1 DEF Alike
  <2> QED BY <1>1, <1>6, <2>1, <2>2
<1> QED BY <1>5, <1>6

(* A file has links as long as some name leads to it.                         *)
LEMMA LinkedIs ==
  ASSUME NEW m, Healthy(m), Counts(m), NEW t, t = TreeOf(m), NEW j \in Inodes \ {0}, Regular(m, j)
  PROVE  (\E d \in Inodes, name \in Names : t.entry[d][name] = j) <=> m.inode[j].nlink # 0
<1>1. \A d \in Inodes, name \in Names : t.entry[d][name] = j <=> Leads(m, d, name, j)
  BY TreeIs
<1>2. IsFiniteSet(LinksTo(m, j)) /\ m.inode[j].nlink = Cardinality(LinksTo(m, j))
  BY DEF Counts, CountOf
<1>3. m.inode[j].nlink # 0 <=> LinksTo(m, j) # {}
  BY <1>2, FS_EmptySet
<1>4. ASSUME NEW d \in Inodes, NEW name \in Names, t.entry[d][name] = j PROVE LinksTo(m, j) # {}
  <2>1. PICK k \in Nat : Edge(m, d, k, j)
    BY <1>1, <1>4 DEF Leads
  <2>2. <<d, k>> \in LinksTo(m, j)
    BY <2>1 DEF LinksTo
  <2> QED BY <2>2
<1>5. ASSUME LinksTo(m, j) # {} PROVE \E d \in Inodes, name \in Names : t.entry[d][name] = j
  <2>1. PICK d \in Inodes, k \in Nat : Edge(m, d, k, j)
    BY <1>5 DEF LinksTo
  <2>2. m \in FsType
    BY HealthyIs
  <2> DEFINE name == CellAt(m, d, k).name
  <2>3. name \in Names
    BY <2>1, <2>2, EdgeName
  <2>4. Leads(m, d, name, j)
    BY <2>1 DEF Leads
  <2> QED BY <1>1, <2>3, <2>4
<1> QED BY <1>3, <1>4, <1>5

LEMMA UnlinkTree ==
  ASSUME Promised, Fits, Inv, PathsRight(fs), Healthy(fs'), Counts(fs'),
         NEW p \in Procs, NEW path \in Paths, Unlink(p, path)
  PROVE  TreeNext
<1> DEFINE d == Parent(p, path)
           name == FileName(path)
           j == Target(p, path)
           t == TreeOf(fs)
           t2 == TreeOf(fs')
<1>1. /\ Healthy(fs) /\ d \in Inodes /\ Dir(fs, d) /\ name \in Names
      /\ j \in Inodes \ {0} /\ Legal(fs, j) /\ ~IsDir(fs, j)
      /\ Unlinks(fs, fs', d, j, name)
  BY Unlinked
<1>2. Up /\ fds' = fds /\ cwd' = cwd
  BY DEF Unlink
<1>3. TreeOf(fs)' = t2
  BY TreePrime
<1>4. /\ Tree!At(t, path, cwd[p]) = j
      /\ \A x : Tree!Named(t, path, cwd[p], x) = [t.entry EXCEPT ![d][name] = x]
  BY <1>1, <1>2, NameInTree, ShownIs
<1>5. /\ t.entry \in [Inodes -> [Names -> (Inodes \ {0}) \cup {NULL}]]
      /\ \A x \in Inodes : t.up[x] = IF Dir(fs, x) THEN CellAt(fs, x, 1).inum ELSE NULL
      /\ \A x \in Inodes : t.size[x] = IF Regular(fs, x) THEN fs.inode[x].size ELSE NULL
  BY <1>1, TreeIs
<1>6. /\ \A x \in Inodes : t2.up[x] = IF Dir(fs', x) THEN CellAt(fs', x, 1).inum ELSE NULL
      /\ \A x \in Inodes : t2.size[x] = IF Regular(fs', x) THEN fs'.inode[x].size ELSE NULL
  BY TreeIs
<1>7. PICK k \in Nat : /\ Entry(fs, d, k, j) /\ CellAt(fs, d, k).name = name
                       /\ Shrank(fs, fs', d, k, j)
  BY <1>1, UnlinksShrank
<1>8. fs'.inode[j].type = fs.inode[j].type /\ j # d
  BY <1>1, UnlinksShrank
<1>9. fs'.inode[j].size = IF fs'.inode[j].nlink = 0 THEN 0 ELSE fs.inode[j].size
  <2>1. Sound(fs)
    BY <1>1, HealthyIs
  <2> QED BY <1>1, <2>1, UnlinksSize
<1>10. ~Dir(fs, j) /\ ~Dir(fs', j) /\ Regular(fs, j) /\ Regular(fs', j) /\ j # NULL
  BY <1>1, <1>8, ShownIs DEF Legal, Known, Dir, IsDir, Regular, INODE_REGULAR, INODE_DIRECTORY
<1>11. (\E x \in Inodes, y \in Names : t2.entry[x][y] = j) <=> fs'.inode[j].nlink # 0
  BY <1>1, <1>10, LinkedIs
<1>12. t2.up[j] = NULL /\ t.up[j] = NULL /\ ~Tree!IsDir(t, j)
  BY <1>1, <1>5, <1>6, <1>10 DEF Tree!IsDir
<1>13. t2.size[j] = IF fs'.inode[j].nlink = 0 THEN 0 ELSE t.size[j]
  BY <1>1, <1>5, <1>6, <1>9, <1>10
<1> HIDE DEF d, name, j
<1>14. /\ t.entry[d][name] = j
       /\ t2.entry = [t.entry EXCEPT ![d][name] = NULL]
       /\ \A x \in Inodes : x # j => t2.up[x] = t.up[x] /\ t2.size[x] = t.size[x]
  BY <1>1, <1>7, <1>8, <1>10, ShrankTree
<1>15. t2 = Sized(Entried(t, t2.entry), j, t2.size[j])
  BY <1>1, <1>12, <1>14, TreeUpdate
<1> HIDE DEF t, t2
<1>16. t2 # t
  <2>1. t2.entry[d][name] = NULL
    BY <1>1, <1>5, <1>14
  <2> QED BY <1>10, <1>14, <2>1, SMTT(30)
<1> DEFINE less == Tree!Named(t, path, cwd[p], NULL)
           linked == \E x \in Inodes, y \in Names : less[x][y] = j
<1>17. less = t2.entry
  BY <1>4, <1>14
<1>18. t2.size[j] = IF linked THEN t.size[j] ELSE 0
  BY <1>11, <1>13, <1>17
<1> HIDE DEF less, linked
<1>19. t2 = [t EXCEPT !.entry = less, !.size[j] = IF linked THEN t.size[j] ELSE 0]
  BY <1>15, <1>17, <1>18 DEF Sized, Entried
<1>20. Tree!Unlink(p, path)
  BY <1>1, <1>2, <1>3, <1>4, <1>10, <1>12, <1>19 DEF Tree!Unlink, t, less, linked
<1> QED BY <1>3, <1>16, <1>20 DEF TreeNext, Tree!Next, Tree!ChangesTree, t

TreeStepInv == Fits /\ Inv /\ Clean(fs) /\ Graph(fs) /\ FreeKinds(fs) /\ PathsRight(fs)

LEMMA StepInTree ==
  ASSUME Promised, "buffer" \in Promises, TreeStepInv, [Next]_vars
  PROVE  TreeNext
<1>1. Fits /\ Inv /\ Clean(fs) /\ Graph(fs) /\ FreeKinds(fs) /\ PathsRight(fs) /\ Defined
  BY DEF TreeStepInv, Clean, Defined
<1>2. Fits' /\ Inv'
  BY <1>1, FitsStep, InvStep
<1>3. Clean(fs') /\ Graph(fs')
  BY <1>1, CleanStep, GraphStep
<1>4. Healthy(fs') /\ Counts(fs')
  BY <1>2, <1>3 DEF Inv, Defined, Clean, Graph
<1>5. ASSUME NEW p \in Procs, NEW path \in Paths,
             Open(p, path) \/ Create(p, path) \/ Unlink(p, path) \/ MkDir(p, path)
             \/ RmDir(p, path) \/ ChDir(p, path)
      PROVE  TreeNext
  BY <1>1, <1>4, <1>5, OpenTree, CreateTree, UnlinkTree, MkDirTree, RmDirTree, ChDirTree
<1>6. ASSUME NEW p \in Procs, NEW fd \in Slots, NEW n \in Sizes, Read(p, fd, n) \/ Write(p, fd, n)
      PROVE  TreeNext
  BY <1>1, <1>4, <1>6, ReadTree, WriteTree
<1>7. ASSUME NEW p \in Procs, NEW fd \in Slots, Close(p, fd) PROVE TreeNext
  BY <1>7, CloseTree
<1>8. ASSUME NEW p \in Procs, NEW fd \in Slots, NEW offset \in Offsets,
             NEW whence \in {"SEEK_SET", "SEEK_CUR", "SEEK_END"}, Seek(p, fd, offset, whence)
      PROVE  TreeNext
  BY <1>1, <1>8, SeekTree
<1>9. ASSUME NEW p \in Procs, NEW old \in Paths, NEW new \in Paths, Link(p, old, new)
      PROVE  TreeNext
  BY <1>1, <1>4, <1>9, LinkTree
<1>10. ASSUME Restart PROVE TreeNext
  BY <1>1, <1>10, RestartTree
<1>11. CASE UNCHANGED vars
  BY <1>11, SameTree, NotShown DEF vars
<1>12. CASE Next
  BY <1>5, <1>6, <1>7, <1>8, <1>9, <1>10, <1>12 DEF Next
<1> QED BY <1>11, <1>12

(* No path has "." or ".." in it.                                             *)
Dotless == \A path \in Paths : \A k \in DOMAIN path.parts : path.parts[k] \notin {".", ".."}

LEMMA DotlessRight ==
  ASSUME Promised, Dotless
  PROVE  Spec => []PathsRight(fs)
<1>1. PathsRight(fs)
  BY DEF Dotless, PathsRight, DotsRight
<1> DEFINE Right == PathsRight(fs)
<1>2. Right
  BY <1>1
<1> HIDE DEF Right
<1>3. Spec => []Right
  BY <1>2, PTL
<1> QED BY <1>3 DEF Right

LEMMA DatalessRight ==
  ASSUME Promised, Sizes \subseteq {0}
  PROVE  Spec => []PathsRight(fs)
<1> DEFINE Right == PathsRight(fs)
           Most == Fits /\ Inv /\ Clean(fs) /\ Dots(fs)
<1>1. Spec => []Most
  BY DotsAlways
<1>2. Most => Right
  BY DEF PathsRight, DotsRight
<1> HIDE DEF Right, Most
<1>3. Spec => []Right
  BY <1>1, <1>2, PTL
<1> QED BY <1>3 DEF Right

LEMMA TreeStepAlways ==
  ASSUME Promised, Dotless \/ Sizes \subseteq {0}
  PROVE  Spec => [](TreeStepInv)
<1> DEFINE Most == Fits /\ Inv /\ Clean(fs) /\ Graph(fs) /\ FreeKinds(fs)
           Right == PathsRight(fs)
<1>1. Spec => []Most
  BY KindsAlways
<1>2. Spec => []Right
  BY DotlessRight, DatalessRight
<1>3. Most /\ Right => TreeStepInv
  BY DEF TreeStepInv
<1> HIDE DEF Most, Right
<1> QED BY <1>1, <1>2, <1>3, PTL

-----------------------------------------------------------------------------
(* The theorems *)

(* A block is in one file at one place, or once on the free list.  Processes  *)
(* that keep to a file system with room, to what exists and to names of files *)
(* never make get_nth_b hand out a block that somebody has, and no handler    *)
(* frees a block twice, not even rmdir when it loses its way.                 *)
THEOREM BlocksHaveOneOwner ==
  ASSUME Promised
  PROVE  Spec => []BlocksExclusive
<1>1. Fits /\ Inv => BlocksExclusive
  BY Exclusive
<1> QED BY <1>1, InvAlways, PTL

(* Every unit of a file, up to its size, was written to that file: handlers   *)
(* that take, free and reuse blocks and inodes never let the contents of      *)
(* another file, or a hole, show through.                                     *)
THEOREM FilesHoldOwnData ==
  ASSUME Promised
  PROVE  Spec => []OwnData
<1>1. Fits /\ Inv => OwnData
  BY Own
<1> QED BY <1>1, InvAlways, PTL

(* The first entry that get_dir_entry finds with a name is the one that leads *)
(* to the file: no entry without an inode hides a later one with that name.   *)
THEOREM NamesFound ==
  ASSUME Promised
  PROVE  Spec => []EntriesFound
<1>1. Fits /\ Inv => EntriesFound
  BY NamesFoundIn
<1> QED BY <1>1, InvAlways, PTL

(* The directories are a tree: mkdir, rmdir and the reuse of inodes leave each *)
(* directory with one entry, in the directory that its second entry leads to.  *)
THEOREM TreeKept ==
  ASSUME Promised
  PROVE  Spec => []DirsAreTree
<1>1. Fits /\ Inv /\ Clean(fs) => DirsAreTree
  BY TreeOfDirs DEF Inv, Clean
<1>2. Spec => [](Fits /\ Inv /\ Clean(fs))
  BY CleanAlways
<1> QED BY <1>1, <1>2, PTL

(* The free inodes are not in use: whatever a process has open, works in or   *)
(* can reach by name was taken from the list, and no inode is put on it twice. *)
THEOREM FreeStayFree ==
  ASSUME Promised
  PROVE  Spec => []FreeInodesUnused
<1>1. Fits /\ Inv /\ Clean(fs) => FreeInodesUnused
  BY FreeUnused DEF Clean, Defined
<1>2. Spec => [](Fits /\ Inv /\ Clean(fs))
  BY CleanAlways
<1> QED BY <1>1, <1>2, PTL

(* Requests that keep their promises never bring the server where C defines   *)
(* nothing, and it never hands out a block of the inode table: those blocks   *)
(* are the last of the free list, and nobody takes more than are before them. *)
THEOREM ServerDefined ==
  ASSUME Promised
  PROVE  Spec => []Defined
<1>1. Fits /\ Inv /\ Clean(fs) => Defined
  BY DEF Clean, Defined
<1>2. Spec => [](Fits /\ Inv /\ Clean(fs))
  BY CleanAlways
<1> QED BY <1>1, <1>2, PTL

(* nlink of a file is the number of the entries that lead to it, in all the    *)
(* directories below the root: create, link, unlink, mkdir, rmdir and a new    *)
(* server keep the two together, so that handle_unlink frees the blocks of a   *)
(* file with its last name and never before.                                  *)
THEOREM NlinkCounts ==
  ASSUME Promised
  PROVE  Spec => []NlinkCountsNames
<1>1. Fits /\ Inv /\ Clean(fs) /\ Graph(fs) => NlinkCountsNames
  BY NamesCounted
<1>2. Spec => [](Fits /\ Inv /\ Clean(fs) /\ Graph(fs))
  BY GraphAlways
<1> QED BY <1>1, <1>2, PTL

(* Where no process writes data, "." leads to the directory and ".." to its   *)
(* parent: the two names that handle_mkdir makes of what a block held before  *)
(* are dots, whatever directories the block was in, because a later block of  *)
(* a directory is never freed.  With data in a block they need not be, which  *)
(* is a finding of the runs.                                                  *)
THEOREM DotsKeptWithoutData ==
  ASSUME Promised, Sizes \subseteq {0}
  PROVE  Spec => []DotsResolve
<1>1. Fits /\ Inv /\ Clean(fs) /\ Dots(fs) => DotsResolve
  BY DotsHold
<1>2. Spec => [](Fits /\ Inv /\ Clean(fs) /\ Dots(fs))
  BY DotsAlways
<1> QED BY <1>1, <1>2, PTL

(* Every block behind the inode table is in a file in use or on the free list *)
(* where no process writes data and the server stays up: get_nth_b, create,   *)
(* mkdir, rmdir and unlink lose none.  With data they may: the blocks of a    *)
(* file that was unlinked while it was open, and written after that, are in   *)
(* no file once it is closed.  After a restart too: make_free_lists takes the *)
(* stale pointers of a removed directory for blocks in use.                   *)
THEOREM NoBlockLost ==
  ASSUME Promised, "stay" \in Promises, Sizes \subseteq {0}
  PROVE  Spec => []BlocksAccounted
<1>1. Fits /\ Inv /\ Clean(fs) /\ Graph(fs) /\ Dots(fs) /\ Accounted(fs) => BlocksAccounted
  BY AccountedHolds DEF Inv, Clean, Defined, Dots
<1>2. Spec => [](Fits /\ Inv /\ Clean(fs) /\ Graph(fs) /\ Dots(fs) /\ Accounted(fs))
  BY AccountedAlways
<1> QED BY <1>1, <1>2, PTL

(* Programs see a tree of directories and files: each request that keeps its  *)
(* promises does to the names, the lengths, the open files and the current    *)
(* directories what the call of iolib.c says, or nothing, for any number of   *)
(* processes, files and blocks.  The paths have no "." and "..", or no data   *)
(* is written: with both, a path through "." may lead elsewhere, as the run   *)
(* "dots" shows.  Without "buffer" a write can stop in the middle, where       *)
(* CopyFrom fails, after the file has grown.                                  *)
THEOREM TreeImplemented ==
  ASSUME Promised, "buffer" \in Promises, Dotless \/ Sizes \subseteq {0}
  PROVE  Spec => ImplementsTree
<1>1. Spec => [](TreeStepInv)
  BY TreeStepAlways
<1>2. Init => Tree!Init
  BY InitTree
<1>3. TreeStepInv /\ [Next]_vars => [Tree!Next]_(Tree!vars)
  BY StepInTree DEF TreeNext
<1> QED BY <1>1, <1>2, <1>3, PTL DEF Spec, ImplementsTree, Tree!Spec
=============================================================================
