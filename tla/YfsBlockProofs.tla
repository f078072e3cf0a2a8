--------------------------- MODULE YfsBlockProofs ---------------------------
(* Where blocks are.  The parts of the invariant of the file system that say  *)
(* who has a block and what is in it, and what the functions the handlers are *)
(* made of do to them: get_nth_b, the loops that free the blocks of a file,   *)
(* make_free_lists, and the stores into an entry or a unit of data.           *)
EXTENDS YfsProofs

(* A block is at one place of one file, or once on the free list.             *)
BlocksInv(m) ==
  /\ IsInjective1(m.b_head)
  /\ \A k \in 1 .. Len(m.b_head) : m.b_head[k] # 0
  /\ \A i, j \in Inodes, n, l \in Nat :
       NthBlock(m, i, n) # 0 /\ NthBlock(m, j, l) = NthBlock(m, i, n) => i = j /\ n = l
  /\ \A i \in Inodes, n \in Nat, k \in 1 .. Len(m.b_head) :
       NthBlock(m, i, n) # 0 => m.b_head[k] # NthBlock(m, i, n)

(* Nobody has the block: it was taken from the free list and is in no file.   *)
Fresh(m, b) ==
  /\ b # 0
  /\ \A k \in 1 .. Len(m.b_head) : m.b_head[k] # b
  /\ \A i \in Inodes, n \in Nat : NthBlock(m, i, n) # b

(* No file uses the indirect block.                                           *)
SizesDirect(m) == \A i \in Inodes : m.inode[i].size <= NUM_DIRECT * UNITS

(* A file that has no holes.                                                  *)
Whole(m, i) == \A n \in Nat : n * UNITS < m.inode[i].size => NthBlock(m, i, n) # 0

(* What is in a file was written to it.                                       *)
DataOf(m, i) ==
  m.inode[i].type = INODE_REGULAR =>
    /\ Whole(m, i)
    /\ \A k \in 0 .. m.inode[i].size - 1 : CellAt(m, i, k) = [inum |-> i, name |-> Junk]

DataInv(m) == \A i \in Inodes : DataOf(m, i)

(* Nothing happens to a file: its type, its blocks and what is in them.       *)
Alike(m, m2, i) ==
  /\ m2.inode[i].type = m.inode[i].type /\ m2.inode[i].size = m.inode[i].size
  /\ \A n \in Nat : NthBlock(m2, i, n) = NthBlock(m, i, n)
  /\ \A k \in Nat : NthBlock(m, i, k \div UNITS) # 0 => CellAt(m2, i, k) = CellAt(m, i, k)

-----------------------------------------------------------------------------
(* The blocks of a file *)

LEMMA UnitFacts == UNITS \in Nat /\ UNITS >= 1 /\ UNITS >= 2
BY ConstantFacts

LEMMA SizeNat ==
  ASSUME NEW m \in FsType, NEW i \in Inodes
  PROVE  m.inode[i].size \in Nat /\ m.inode[i].direct \in [0 .. NUM_DIRECT - 1 -> Blocks]
BY DEF FsType, InodeType

(* As long as no file uses the indirect block.                                *)
LEMMA NthDirect ==
  ASSUME NEW m \in FsType, SizesDirect(m), NEW i \in Inodes, NEW n \in Nat
  PROVE  /\ n * UNITS < m.inode[i].size => n \in 0 .. NUM_DIRECT - 1
         /\ NthBlock(m, i, n) = IF n * UNITS < m.inode[i].size THEN m.inode[i].direct[n] ELSE 0
<1>1. NUM_DIRECT \in Nat /\ NUM_INDIRECT \in Nat /\ MaxBlocks = NUM_DIRECT + NUM_INDIRECT
  BY ConstantFacts
<1>2. UNITS \in Nat /\ UNITS >= 1
  BY UnitFacts
<1>3. m.inode[i].size \in Nat /\ m.inode[i].size <= NUM_DIRECT * UNITS
  BY SizeNat DEF SizesDirect
<1> DEFINE size == m.inode[i].size
<1>4. n * UNITS < size => n < NUM_DIRECT
  <2>1. \A a, b, u, s \in Nat : a * u < s /\ s <= b * u => a < b
    <3>1. ASSUME NEW a \in Nat, NEW b \in Nat, NEW u \in Nat, NEW s \in Nat,
                 a * u < s, s <= b * u, b <= a
          PROVE  FALSE
      <4>1. b * u <= a * u
        BY <3>1
      <4>2. a * u \in Nat /\ b * u \in Nat
        OBVIOUS
      <4> QED
        BY <3>1, <4>1, <4>2
    <3> QED
      BY <3>1
  <2> HIDE DEF size
  <2> QED
    BY <1>1, <1>2, <1>3, <2>1 DEF size
<1> QED
  BY <1>1, <1>4 DEF NthBlock, Pointer

(* The blocks of a file are those of its inode.                               *)
LEMMA NthSame ==
  ASSUME NEW m \in FsType, NEW m2 \in FsType, NEW i \in Inodes, NEW n \in Nat,
         m2.indirect = m.indirect,
         m2.inode[i].size = m.inode[i].size, m2.inode[i].direct = m.inode[i].direct
  PROVE  NthBlock(m2, i, n) = NthBlock(m, i, n)
BY DEF NthBlock, Pointer

LEMMA BlocksFrame ==
  ASSUME NEW m \in FsType, NEW m2 \in FsType, BlocksInv(m), m2.b_head = m.b_head,
         \A i \in Inodes, n \in Nat : NthBlock(m2, i, n) = NthBlock(m, i, n)
  PROVE  BlocksInv(m2)
BY DEF BlocksInv

(* A block number and a place in a block make a place in the file.            *)
LEMMA PlaceIs ==
  ASSUME NEW k \in Nat, NEW l \in Nat,
         k \div UNITS = l \div UNITS, k % UNITS = l % UNITS
  PROVE  k = l
<1>1. UNITS \in Nat /\ UNITS >= 1
  BY UnitFacts
<1>2. k = UNITS * (k \div UNITS) + (k % UNITS) /\ l = UNITS * (l \div UNITS) + (l % UNITS)
  BY <1>1, DivFacts
<1> QED
  BY <1>2

(* A place below the size is in a block below it.                             *)
LEMMA PlaceBelow ==
  ASSUME NEW k \in Nat, NEW s \in Nat, k < s
  PROVE  /\ k \div UNITS \in Nat /\ k % UNITS \in 0 .. UNITS - 1
         /\ (k \div UNITS) * UNITS < s /\ (k \div UNITS) * UNITS \in Nat
<1>1. UNITS \in Nat /\ UNITS >= 1
  BY UnitFacts
<1>2. k \div UNITS \in Nat /\ k % UNITS \in 0 .. UNITS - 1 /\ k = UNITS * (k \div UNITS) + (k % UNITS)
  BY <1>1, DivFacts
<1> DEFINE n == k \div UNITS
           c == k % UNITS
<1> HIDE DEF n, c
<1>3. n \in Nat /\ c \in Nat /\ k = UNITS * n + c
  BY <1>1, <1>2 DEF n, c
<1>4. n * UNITS = UNITS * n /\ n * UNITS \in Nat
  BY <1>1, <1>3
<1>5. n * UNITS < s
  BY <1>3, <1>4
<1> QED
  BY <1>2, <1>4, <1>5 DEF n

-----------------------------------------------------------------------------
(* Blocks that are freed *)

LEMMA ClearFacts ==
  ASSUME NEW m \in FsType, NEW i \in Inodes,
         NEW m2, m2 = Clear(m, i)
  PROVE  /\ m2 \in FsType /\ m2.cell = m.cell /\ m2.indirect = m.indirect
         /\ m2.i_head = m.i_head /\ m2.bad = m.bad
         /\ m2.b_head = Reverse(BlocksOf(m, i)) \o m.b_head
         /\ m2.inode[i].size = 0 /\ m2.inode[i].type = m.inode[i].type
         /\ m2.inode[i].direct = m.inode[i].direct /\ m2.inode[i].nlink = m.inode[i].nlink
         /\ \A j \in Inodes : j # i => m2.inode[j] = m.inode[j]
<1> DEFINE q == Reverse(BlocksOf(m, i)) \o m.b_head
           inodes == [m.inode EXCEPT ![i].size = 0]
<1>1. m2 \in FsType /\ m2 = [m EXCEPT !.b_head = q, !.inode = inodes]
  BY ClearType
<1>2. m.inode \in [Inodes -> InodeType]
  BY DEF FsType
<1>3. /\ inodes[i].size = 0 /\ inodes[i] = [m.inode[i] EXCEPT !.size = 0]
      /\ \A j \in Inodes : j # i => inodes[j] = m.inode[j]
  BY <1>2
<1>4. /\ inodes[i].type = m.inode[i].type /\ inodes[i].direct = m.inode[i].direct
      /\ inodes[i].nlink = m.inode[i].nlink
  BY <1>2, <1>3 DEF InodeType
<1> HIDE DEF q, inodes
<1>5. /\ m2.cell = m.cell /\ m2.indirect = m.indirect
      /\ m2.i_head = m.i_head /\ m2.bad = m.bad /\ m2.b_head = q /\ m2.inode = inodes
  BY <1>1 DEF FsType
<1> QED
  BY <1>1, <1>3, <1>4, <1>5 DEF q

(* The blocks of a file that is emptied are on the free list and in no file.  *)
LEMMA ClearBlocks ==
  ASSUME NEW m \in FsType, NEW i \in Inodes, BlocksInv(m),
         NEW m2, m2 = Clear(m, i)
  PROVE  /\ BlocksInv(m2)
         /\ \A n \in Nat : NthBlock(m2, i, n) = 0
         /\ \A j \in Inodes, n \in Nat : j # i => NthBlock(m2, j, n) = NthBlock(m, j, n)
         /\ \A j \in Inodes, k \in Nat : j # i => CellAt(m2, j, k) = CellAt(m, j, k)
<1> DEFINE q == Reverse(BlocksOf(m, i))
           N == NumBlocks(m, i)
<1>1. /\ m2 \in FsType /\ m2.cell = m.cell /\ m2.indirect = m.indirect
      /\ m2.b_head = q \o m.b_head /\ m2.inode[i].size = 0
      /\ \A j \in Inodes : j # i => m2.inode[j] = m.inode[j]
  BY ClearFacts, SMTT(30)
<1>2. UNITS \in Nat
  BY UnitFacts
<1>3. \A n \in Nat : NthBlock(m2, i, n) = 0
  <2>1. ASSUME NEW n \in Nat PROVE ~(n * UNITS < 0)
    <3>1. n * UNITS \in Nat
      BY <1>2
    <3> QED
      BY <3>1
  <2> QED
    BY <1>1, <2>1 DEF NthBlock
<1>4. \A j \in Inodes, n \in Nat : j # i => NthBlock(m2, j, n) = NthBlock(m, j, n)
  BY <1>1, NthSame
<1>5. \A j \in Inodes, k \in Nat : j # i => CellAt(m2, j, k) = CellAt(m, j, k)
  BY <1>1, <1>4, UnitFacts, DivFacts DEF CellAt
<1>6. /\ q \in Seq(Blocks) /\ Len(q) = N /\ N \in Nat
      /\ \A n \in 1 .. N : q[n] = NthBlock(m, i, N - n)
  <2>1. N \in 0 .. MaxBlocks /\ MaxBlocks \in Nat
    BY NumFacts, ConstantFacts
  <2> QED
    BY <2>1, BlocksOfType
<1>7. \A n \in 1 .. N : NthBlock(m, i, N - n) # 0 /\ N - n \in Nat
  <2>1. ASSUME NEW n \in 1 .. N PROVE N - n \in 0 .. N - 1 /\ N - n \in Nat
    BY <1>6
  <2> QED
    BY <2>1, NumFacts
<1>8. m.b_head \in Seq(Blocks) /\ Len(m.b_head) \in Nat
  BY DEF FsType
<1> DEFINE h == m.b_head
           r == q \o h
<1>9. /\ Len(r) = N + Len(h)
      /\ \A k \in 1 .. Len(r) :
           r[k] = IF k <= N THEN NthBlock(m, i, N - k) ELSE h[k - N]
  <2> HIDE DEF q, h, N
  <2>1. Len(q) = N /\ h \in Seq(Blocks) /\ q \in Seq(Blocks) /\ Len(h) \in Nat /\ N \in Nat
    BY <1>6, <1>8 DEF h
  <2>2. Len(q \o h) = N + Len(h)
        /\ \A k \in 1 .. N + Len(h) : (q \o h)[k] = IF k <= N THEN q[k] ELSE h[k - N]
    BY <2>1
  <2>3. \A k \in 1 .. N + Len(h) : k <= N => k \in 1 .. N
    BY <2>1
  <2> QED
    BY <1>6, <2>2, <2>3
<1> HIDE DEF q, h, N, r
<1>10. \A k \in 1 .. Len(r) : k > N => k - N \in 1 .. Len(h)
  BY <1>6, <1>8, <1>9 DEF h
<1>11. \A k \in 1 .. Len(r) : k <= N => k \in 1 .. N
  BY <1>6, <1>8, <1>9 DEF h
<1>12. m2.b_head = r
  BY <1>1 DEF r, h
<1>13. /\ IsInjective1(h) /\ (\A k \in 1 .. Len(h) : h[k] # 0)
       /\ \A j, l \in Inodes, n, o \in Nat :
            NthBlock(m, j, n) # 0 /\ NthBlock(m, l, o) = NthBlock(m, j, n) => j = l /\ n = o
       /\ \A j \in Inodes, n \in Nat, k \in 1 .. Len(h) :
            NthBlock(m, j, n) # 0 => h[k] # NthBlock(m, j, n)
  BY DEF BlocksInv, h
<1>14. IsInjective1(r)
  <2> SUFFICES ASSUME NEW k \in 1 .. Len(r), NEW l \in 1 .. Len(r), r[k] = r[l]
               PROVE  k = l
    BY DEF IsInjective1
  <2>0. k \in Nat /\ l \in Nat /\ N \in Nat
    BY <1>6, <1>8, <1>9 DEF h
  <2>1. CASE k <= N /\ l <= N
    <3>1. NthBlock(m, i, N - k) # 0 /\ NthBlock(m, i, N - l) = NthBlock(m, i, N - k)
          /\ N - k \in Nat /\ N - l \in Nat
      BY <1>7, <1>9, <1>11, <2>1
    <3>2. N - k = N - l
      BY <1>13, <3>1
    <3> QED
      BY <2>0, <3>2
  <2>2. CASE k <= N /\ l > N
    <3>1. /\ N - k \in Nat /\ NthBlock(m, i, N - k) # 0 /\ r[k] = NthBlock(m, i, N - k)
          /\ l - N \in 1 .. Len(h) /\ r[l] = h[l - N]
      BY <1>7, <1>9, <1>10, <1>11, <2>0, <2>2
    <3> QED
      BY <1>13, <3>1
  <2>3. CASE k > N /\ l <= N
    <3>1. /\ N - l \in Nat /\ NthBlock(m, i, N - l) # 0 /\ r[l] = NthBlock(m, i, N - l)
          /\ k - N \in 1 .. Len(h) /\ r[k] = h[k - N]
      BY <1>7, <1>9, <1>10, <1>11, <2>0, <2>3
    <3> QED
      BY <1>13, <3>1
  <2>4. CASE k > N /\ l > N
    <3>1. /\ k - N \in 1 .. Len(h) /\ r[k] = h[k - N]
          /\ l - N \in 1 .. Len(h) /\ r[l] = h[l - N]
      BY <1>9, <1>10, <2>0, <2>4
    <3>2. k - N = l - N
      BY <1>13, <3>1 DEF IsInjective1
    <3> QED
      BY <2>0, <3>2
  <2> QED
    BY <2>0, <2>1, <2>2, <2>3, <2>4
<1>15. ASSUME NEW j \in Inodes, NEW n \in Nat, NEW k \in 1 .. Len(r), NthBlock(m2, j, n) # 0
       PROVE  r[k] # NthBlock(m2, j, n)
  <2>1. j # i /\ NthBlock(m, j, n) # 0 /\ NthBlock(m2, j, n) = NthBlock(m, j, n)
    BY <1>3, <1>4, <1>15
  <2>2. CASE k <= N
    <3>1. N - k \in Nat /\ r[k] = NthBlock(m, i, N - k)
      BY <1>7, <1>9, <1>11, <2>2
    <3> QED
      BY <1>13, <2>1, <3>1
  <2>3. CASE ~(k <= N)
    <3>1. k - N \in 1 .. Len(h) /\ r[k] = h[k - N]
      BY <1>6, <1>8, <1>9, <1>10, <2>3 DEF h
    <3> QED
      BY <1>13, <2>1, <3>1
  <2> QED
    BY <2>2, <2>3
<1>16. \A j, l \in Inodes, n, o \in Nat :
         NthBlock(m2, j, n) # 0 /\ NthBlock(m2, l, o) = NthBlock(m2, j, n) => j = l /\ n = o
  BY <1>3, <1>4, <1>13
<1>17. \A k \in 1 .. Len(r) : r[k] # 0
  <2> SUFFICES ASSUME NEW k \in 1 .. Len(r) PROVE r[k] # 0
    OBVIOUS
  <2>1. CASE k <= N
    BY <1>7, <1>9, <1>11, <2>1
  <2>2. CASE ~(k <= N)
    <3>1. k - N \in 1 .. Len(h) /\ r[k] = h[k - N]
      BY <1>6, <1>8, <1>9, <1>10, <2>2 DEF h
    <3> QED
      BY <1>13, <3>1
  <2> QED
    BY <2>1, <2>2
<1>18. BlocksInv(m2)
  BY <1>12, <1>14, <1>15, <1>16, <1>17 DEF BlocksInv
<1> QED
  BY <1>3, <1>4, <1>5, <1>18

LEMMA AlikeKeeps ==
  ASSUME NEW m \in FsType, NEW m2 \in FsType, NEW i \in Inodes, Alike(m, m2, i)
  PROVE  (Whole(m, i) => Whole(m2, i)) /\ (DataOf(m, i) => DataOf(m2, i))
<1>1. Whole(m, i) => Whole(m2, i)
  BY DEF Alike, Whole
<1>2. ASSUME DataOf(m, i), m2.inode[i].type = INODE_REGULAR PROVE DataOf(m2, i)
  <2>1. /\ Whole(m, i) /\ m2.inode[i].size = m.inode[i].size /\ m.inode[i].size \in Nat
        /\ \A k \in 0 .. m.inode[i].size - 1 : CellAt(m, i, k) = [inum |-> i, name |-> Junk]
    BY <1>2, SizeNat DEF DataOf, Alike
  <2>2. ASSUME NEW k \in 0 .. m2.inode[i].size - 1
        PROVE  CellAt(m2, i, k) = [inum |-> i, name |-> Junk]
    <3>1. k \in Nat /\ k < m.inode[i].size
      BY <2>1
    <3>2. k \div UNITS \in Nat /\ (k \div UNITS) * UNITS < m.inode[i].size
      BY <2>1, <3>1, PlaceBelow
    <3>3. NthBlock(m, i, k \div UNITS) # 0
      BY <2>1, <3>2 DEF Whole
    <3> QED
      BY <2>1, <3>1, <3>3 DEF Alike
  <2> QED
    BY <1>1, <2>1, <2>2 DEF DataOf
<1> QED
  BY <1>1, <1>2 DEF DataOf

LEMMA AlikeSelf ==
  ASSUME NEW m, NEW i
  PROVE  Alike(m, m, i)
BY DEF Alike

(* One file after another.                                                    *)
LEMMA AlikeTwice ==
  ASSUME NEW m \in FsType, NEW m1 \in FsType, NEW m2 \in FsType, NEW i \in Inodes,
         Alike(m, m1, i), Alike(m1, m2, i)
  PROVE  Alike(m, m2, i)
<1>1. ASSUME NEW k \in Nat, NthBlock(m, i, k \div UNITS) # 0
      PROVE  CellAt(m2, i, k) = CellAt(m, i, k)
  <2>1. k \div UNITS \in Nat
    BY DivFacts, UnitFacts
  <2> QED
    BY <1>1, <2>1 DEF Alike
<1> QED
  BY <1>1 DEF Alike

LEMMA BlocksAlike ==
  ASSUME NEW m \in FsType, NEW m2 \in FsType, NEW i \in Inodes, Alike(m, m2, i)
  PROVE  BlocksOf(m2, i) = BlocksOf(m, i)
<1>1. MaxBlocks \in Nat /\ \A n \in 0 .. MaxBlocks : n \in Nat /\ NthBlock(m2, i, n) = NthBlock(m, i, n)
  BY ConstantFacts DEF Alike
<1>2. NumBlocks(m2, i) = NumBlocks(m, i)
  <2>1. {n \in 0 .. MaxBlocks : NthBlock(m2, i, n) = 0} = {n \in 0 .. MaxBlocks : NthBlock(m, i, n) = 0}
    BY <1>1
  <2> QED
    BY <2>1 DEF NumBlocks
<1>3. NumBlocks(m, i) \in 0 .. MaxBlocks
  BY NumFacts
<1> DEFINE l == NumBlocks(m, i)
<1>4. \A n \in 1 .. l : NthBlock(m2, i, n - 1) = NthBlock(m, i, n - 1)
  <2> HIDE DEF l
  <2>1. ASSUME NEW n \in 1 .. l PROVE n - 1 \in 0 .. MaxBlocks
    BY <1>1, <1>3 DEF l
  <2> QED
    BY <1>1, <2>1
<1> QED
  BY <1>2, <1>4 DEF BlocksOf

(* The same inode, pointers and cells.                                        *)
LEMMA AlikeFrame ==
  ASSUME NEW m \in FsType, NEW m2 \in FsType, NEW i \in Inodes,
         m2.inode[i].type = m.inode[i].type, m2.inode[i].size = m.inode[i].size,
         m2.inode[i].direct = m.inode[i].direct,
         m2.indirect = m.indirect, m2.cell = m.cell
  PROVE  Alike(m, m2, i)
<1>1. \A n \in Nat : NthBlock(m2, i, n) = NthBlock(m, i, n)
  BY NthSame
<1>2. ASSUME NEW k \in Nat PROVE CellAt(m2, i, k) = CellAt(m, i, k)
  <2>1. k \div UNITS \in Nat
    BY DivFacts, UnitFacts
  <2> QED
    BY <1>1, <2>1 DEF CellAt
<1> QED
  BY <1>1, <1>2 DEF Alike

(* A file without holes has a block for each of its places.                   *)
LEMMA WholePlaces ==
  ASSUME NEW m \in FsType, NEW i \in Inodes, Whole(m, i)
  PROVE  /\ \A k \in Nat : k < m.inode[i].size => NthBlock(m, i, k \div UNITS) # 0
         /\ \A k \in Nat : k \in Places(m, i) <=> k < m.inode[i].size
<1> DEFINE s == m.inode[i].size
           N == NumBlocks(m, i)
<1>1. s \in Nat /\ UNITS \in Nat /\ UNITS >= 1
  BY SizeNat, UnitFacts
<1>2. N \in Nat /\ NthBlock(m, i, N) = 0
  BY NumFacts, ConstantFacts
<1>3. ~(N * UNITS < s)
  BY <1>2 DEF Whole
<1>4. ASSUME NEW k \in Nat, k < s PROVE NthBlock(m, i, k \div UNITS) # 0
  BY <1>1, <1>4, PlaceBelow DEF Whole
<1>5. ASSUME NEW k \in Nat, k < s PROVE k \div UNITS < N
  <2>1. N * UNITS \in Nat
    BY <1>1, <1>2
  <2> HIDE DEF s, N
  <2>2. k < N * UNITS
    BY <1>1, <1>3, <1>5, <2>1
  <2> QED
    BY <1>1, <1>2, <2>2, DivBelow
<1>6. \A k \in Nat : k \in Places(m, i) <=> k < s /\ k \div UNITS < N
  BY PlacesFacts
<1> QED
  BY <1>4, <1>5, <1>6

(* Where its last block ends.                                                 *)
LEMMA WholeNum ==
  ASSUME NEW m \in FsType, NEW i \in Inodes, Whole(m, i)
  PROVE  LET s == m.inode[i].size
         IN  /\ s % UNITS = 0 => NumBlocks(m, i) = s \div UNITS
             /\ s % UNITS # 0 => NumBlocks(m, i) = s \div UNITS + 1
<1> DEFINE s == m.inode[i].size
           N == NumBlocks(m, i)
           q == s \div UNITS
           c == s % UNITS
<1>1. s \in Nat /\ UNITS \in Nat /\ UNITS >= 1
  BY SizeNat, UnitFacts
<1>2. N \in Nat /\ NthBlock(m, i, N) = 0 /\ (\A n \in 0 .. N - 1 : NthBlock(m, i, n) # 0)
  BY NumFacts, ConstantFacts
<1>3. ~(N * UNITS < s)
  BY <1>2 DEF Whole
<1>4. q \in Nat /\ c \in 0 .. UNITS - 1 /\ s = UNITS * q + c
  BY <1>1, DivFacts
<1>5. ASSUME N # 0 PROVE (N - 1) * UNITS < s
  <2>1. N - 1 \in 0 .. N - 1 /\ N - 1 \in Nat
    BY <1>2, <1>5
  <2> QED
    BY <1>2, <2>1, NthFacts
<1> HIDE DEF s, N, q, c
<1>6. \A t, l, u, p, r \in Nat :
        /\ u >= 1 /\ r < u /\ t = u * p + r /\ ~(l * u < t)
        /\ l # 0 => (l - 1) * u < t
        => (r = 0 => l = p) /\ (r # 0 => l = p + 1)
  <2> SUFFICES ASSUME NEW t \in Nat, NEW l \in Nat, NEW u \in Nat, NEW p \in Nat, NEW r \in Nat,
                      u >= 1, r < u, t = u * p + r, ~(l * u < t), l # 0 => (l - 1) * u < t
               PROVE  (r = 0 => l = p) /\ (r # 0 => l = p + 1)
    OBVIOUS
  <2>1. l * u \in Nat /\ u * p \in Nat /\ l * u = u * l
    OBVIOUS
  <2>2. ~(l < p)
    <3>1. SUFFICES ASSUME l < p PROVE FALSE
      OBVIOUS
    <3>2. (l + 1) * u <= p * u /\ (l + 1) * u = l * u + u /\ p * u = u * p
      BY <3>1
    <3> QED
      BY <2>1, <3>2
  <2>3. r # 0 => l # p
    BY <2>1
  <2>4. ~(l > p + 1)
    <3>1. SUFFICES ASSUME l > p + 1 PROVE FALSE
      OBVIOUS
    <3>2. (p + 1) * u <= (l - 1) * u /\ (p + 1) * u = p * u + u /\ p * u = u * p /\ (l - 1) * u \in Nat
      BY <3>1
    <3> QED
      BY <2>1, <3>1, <3>2
  <2>5. ~(r = 0 /\ l = p + 1)
    <3>1. l = p + 1 => (l - 1) * u = p * u /\ p * u = u * p
      OBVIOUS
    <3> QED
      BY <2>1, <3>1
  <2> QED
    BY <2>2, <2>3, <2>4, <2>5
<1>7. c \in Nat /\ c < UNITS
  BY <1>1, <1>4
<1>8. s = UNITS * q + c /\ s \in Nat /\ UNITS \in Nat /\ UNITS >= 1 /\ N \in Nat /\ q \in Nat
  BY <1>1, <1>2, <1>4
<1>9. (c = 0 => N = q) /\ (c # 0 => N = q + 1)
  BY <1>3, <1>5, <1>6, <1>7, <1>8
<1> QED
  BY <1>9 DEF s, N, q, c

-----------------------------------------------------------------------------
(* Blocks that are taken *)

(* The first block of the free list is in no file and not on the rest of it.  *)
LEMMA TakeFresh ==
  ASSUME NEW m \in FsType, BlocksInv(m), NEW t \in FsType, t.b_head = Rest(m.b_head),
         \A i \in Inodes, n \in Nat : NthBlock(t, i, n) = NthBlock(m, i, n)
  PROVE  /\ BlocksInv(t)
         /\ NextBlock(m) = 0 \/ Fresh(t, NextBlock(m))
         /\ m.b_head # << >> => NextBlock(m) # 0
<1> DEFINE h == m.b_head
           r == t.b_head
<1>1. h \in Seq(Blocks) /\ r \in Seq(Blocks) /\ r = Rest(h)
  BY DEF FsType
<1>2. /\ IsInjective1(h) /\ (\A k \in 1 .. Len(h) : h[k] # 0)
      /\ \A i \in Inodes, n \in Nat, k \in 1 .. Len(h) :
           NthBlock(m, i, n) # 0 => h[k] # NthBlock(m, i, n)
  BY DEF BlocksInv
<1> HIDE DEF h, r
<1>3. \A k \in 1 .. Len(r) : k + 1 \in 1 .. Len(h) /\ r[k] = h[k + 1] /\ h # << >>
  <2>1. CASE h = << >>
    BY <1>1, <2>1 DEF Rest
  <2>2. CASE h # << >>
    <3>1. r = Tail(h)
      BY <1>1, <2>2 DEF Rest
    <3> QED
      BY <1>1, <2>2, <3>1
  <2> QED
    BY <2>1, <2>2
<1>4. IsInjective1(r)
  <2> SUFFICES ASSUME NEW k \in 1 .. Len(r), NEW l \in 1 .. Len(r), r[k] = r[l] PROVE k = l
    BY DEF IsInjective1
  <2>1. k + 1 = l + 1
    BY <1>2, <1>3 DEF IsInjective1
  <2> QED
    BY <2>1
<1>5. \A k \in 1 .. Len(r) : r[k] # 0
  BY <1>2, <1>3
<1>6. \A i \in Inodes, n \in Nat, k \in 1 .. Len(r) : NthBlock(m, i, n) # 0 => r[k] # NthBlock(m, i, n)
  BY <1>2, <1>3
<1>7. BlocksInv(t)
  BY <1>4, <1>5, <1>6 DEF BlocksInv, r
<1>8. ASSUME h # << >> PROVE NextBlock(m) # 0 /\ Fresh(t, NextBlock(m))
  <2>1. NextBlock(m) = h[1] /\ 1 \in 1 .. Len(h)
    BY <1>1, <1>8 DEF NextBlock, h
  <2>2. ASSUME NEW k \in 1 .. Len(r), r[k] = h[1] PROVE FALSE
    <3>1. k + 1 = 1
      BY <1>2, <1>3, <2>1, <2>2 DEF IsInjective1
    <3> QED
      BY <3>1
  <2>3. h[1] # 0
    BY <1>2, <2>1
  <2>4. ASSUME NEW i \in Inodes, NEW n \in Nat PROVE NthBlock(t, i, n) # h[1]
    BY <1>2, <2>1, <2>3
  <2> QED
    BY <2>1, <2>2, <2>3, <2>4 DEF Fresh, r
<1>9. h = << >> => NextBlock(m) = 0
  BY DEF NextBlock, h
<1> QED
  BY <1>7, <1>8, <1>9 DEF h

(* get_nth_b at the end of a file: the block is new, or 0.                    *)
LEMMA GrowFresh ==
  ASSUME NEW m \in FsType, BlocksInv(m), SizesDirect(m), NEW i \in Inodes,
         NEW n \in Nat, n < NUM_DIRECT, n * UNITS >= m.inode[i].size,
         NEW g, g = GrowBlock(m, i, n)
  PROVE  /\ g.fs \in FsType /\ g.b \in Blocks
         /\ g.fs.cell = m.cell /\ g.fs.indirect = m.indirect /\ g.fs.i_head = m.i_head
         /\ g.fs.b_head = Rest(m.b_head)
         /\ g.fs.inode[i].direct = [m.inode[i].direct EXCEPT ![n] = g.b]
         /\ \A j \in Inodes : /\ g.fs.inode[j].size = m.inode[j].size
                              /\ g.fs.inode[j].type = m.inode[j].type
                              /\ j # i => g.fs.inode[j] = m.inode[j]
                              /\ Alike(m, g.fs, j)
         /\ BlocksInv(g.fs) /\ SizesDirect(g.fs)
         /\ g.b = NextBlock(m) /\ (g.b = 0 \/ Fresh(g.fs, g.b))
         /\ m.b_head # << >> => g.b # 0
         /\ g.fs.bad = (m.bad \/ g.b \in TableBlocks)
<1> DEFINE b == NextBlock(m)
           inodes == [m.inode EXCEPT ![i].direct[n] = b]
           bad == m.bad \/ b \in TableBlocks
<1>1. g = [fs |-> [Taken(m) EXCEPT !.inode = inodes], b |-> b]
  BY GrowCases
<1>2. b \in Blocks /\ Rest(m.b_head) \in Seq(Blocks)
  BY NextTypes
<1>3. g.fs = [Taken(m) EXCEPT !.inode = inodes] /\ g.b = b
  BY <1>1
<1>4. m.inode \in [Inodes -> InodeType]
  BY DEF FsType
<1>5. n \in 0 .. NUM_DIRECT - 1
  BY ConstantFacts
<1>6. /\ inodes[i].direct = [m.inode[i].direct EXCEPT ![n] = b]
      /\ inodes[i].size = m.inode[i].size /\ inodes[i].type = m.inode[i].type
      /\ \A j \in Inodes : j # i => inodes[j] = m.inode[j]
  BY <1>2, <1>4, <1>5 DEF InodeType
<1>7. g.fs \in FsType /\ g.b \in Blocks
  BY GrowType
<1> HIDE DEF b, inodes, bad
<1>8. /\ g.fs.cell = m.cell /\ g.fs.indirect = m.indirect /\ g.fs.i_head = m.i_head
      /\ g.fs.b_head = Rest(m.b_head) /\ g.fs.inode = inodes /\ g.fs.bad = bad
  BY <1>3 DEF Taken, FsType, b, bad
<1>9. /\ g.fs.inode[i].direct = [m.inode[i].direct EXCEPT ![n] = g.b]
      /\ \A j \in Inodes : /\ g.fs.inode[j].size = m.inode[j].size
                           /\ g.fs.inode[j].type = m.inode[j].type
                           /\ j # i => g.fs.inode[j] = m.inode[j]
  BY <1>3, <1>6, <1>8
<1>10. ASSUME NEW l \in Nat PROVE NthBlock(g.fs, i, l) = NthBlock(m, i, l)
  <2>1. CASE l = n
    <3>1. ~(l * UNITS < m.inode[i].size)
      <4>1. n * UNITS \in Nat /\ m.inode[i].size \in Nat
        BY SizeNat, UnitFacts
      <4> QED
        BY <2>1, <4>1
    <3> QED
      BY <1>9, <3>1 DEF NthBlock
  <2>2. CASE l # n
    <3>1. ASSUME l < NUM_DIRECT PROVE g.fs.inode[i].direct[l] = m.inode[i].direct[l]
      <4>1. l \in 0 .. NUM_DIRECT - 1 /\ m.inode[i].direct \in [0 .. NUM_DIRECT - 1 -> Blocks]
        BY <3>1, ConstantFacts, SizeNat
      <4> QED
        BY <1>9, <2>2, <4>1
    <3> QED
      BY <1>8, <1>9, <3>1 DEF NthBlock, Pointer
  <2> QED
    BY <2>1, <2>2
<1>11. \A j \in Inodes, l \in Nat : NthBlock(g.fs, j, l) = NthBlock(m, j, l)
  <2>1. ASSUME NEW j \in Inodes, NEW l \in Nat, j # i PROVE NthBlock(g.fs, j, l) = NthBlock(m, j, l)
    BY <1>7, <1>8, <1>9, <2>1, NthSame
  <2> QED
    BY <1>10, <2>1
<1>12. ASSUME NEW j \in Inodes PROVE Alike(m, g.fs, j)
  <2>1. ASSUME NEW k \in Nat PROVE CellAt(g.fs, j, k) = CellAt(m, j, k)
    <3>1. k \div UNITS \in Nat
      BY DivFacts, UnitFacts
    <3> QED
      BY <1>8, <1>11, <3>1 DEF CellAt
  <2> QED
    BY <1>9, <1>11, <2>1 DEF Alike
<1>13. /\ BlocksInv(g.fs) /\ (b = 0 \/ Fresh(g.fs, b)) /\ (m.b_head # << >> => b # 0)
  BY <1>7, <1>8, <1>11, TakeFresh DEF b
<1>14. SizesDirect(g.fs)
  BY <1>9 DEF SizesDirect
<1> QED
  BY <1>3, <1>7, <1>8, <1>9, <1>12, <1>13, <1>14 DEF b, bad

-----------------------------------------------------------------------------
(* Stores *)

(* A store into a file changes the place it is made at and no other.          *)
LEMMA StoreFacts ==
  ASSUME NEW m \in FsType, BlocksInv(m), NEW i \in Inodes, NEW k \in Nat,
         NEW b, b = NthBlock(m, i, k \div UNITS), b # 0, NEW cell \in CellType,
         NEW m2, m2 = [m EXCEPT !.cell = WithCell(m.cell, b, k % UNITS, cell)]
  PROVE  /\ m2 \in FsType /\ m2.bad = m.bad /\ m2.inode = m.inode
         /\ m2.i_head = m.i_head /\ m2.b_head = m.b_head /\ m2.indirect = m.indirect
         /\ BlocksInv(m2)
         /\ \A j \in Inodes : j # i => Alike(m, m2, j)
         /\ \A n \in Nat : NthBlock(m2, i, n) = NthBlock(m, i, n)
         /\ CellAt(m2, i, k) = cell
         /\ \A l \in Nat : l # k /\ NthBlock(m, i, l \div UNITS) # 0 =>
              CellAt(m2, i, l) = CellAt(m, i, l)
<1> DEFINE c == k % UNITS
           cells == WithCell(m.cell, b, c, cell)
<1>1. k \div UNITS \in Nat /\ c \in 0 .. UNITS - 1 /\ b \in Blocks
  BY CellFacts
<1>2. m.cell \in CellsType
  BY DEF FsType, CellsType
<1> HIDE DEF c
<1>3. /\ cells \in CellsType /\ cells[b][c] = cell
      /\ \A b2 \in Blocks, c2 \in 0 .. UNITS - 1 : b2 # b \/ c2 # c => cells[b2][c2] = m.cell[b2][c2]
  BY <1>1, <1>2, SetCell
<1>4. m2 = [m EXCEPT !.cell = cells]
  BY DEF c
<1> HIDE DEF cells
<1>5. /\ m2 \in FsType /\ m2.bad = m.bad /\ m2.inode = m.inode /\ m2.cell = cells
      /\ m2.i_head = m.i_head /\ m2.b_head = m.b_head /\ m2.indirect = m.indirect
  BY <1>3, <1>4 DEF FsType, CellsType
<1>6. \A j \in Inodes, n \in Nat : NthBlock(m2, j, n) = NthBlock(m, j, n)
  BY <1>5, NthSame
<1>7. BlocksInv(m2)
  BY <1>5, <1>6, BlocksFrame
<1>8. CellAt(m2, i, k) = cell
  BY <1>1, <1>3, <1>5, <1>6 DEF CellAt, c
<1>9. ASSUME NEW j \in Inodes, NEW l \in Nat, NthBlock(m, j, l \div UNITS) # 0, j # i \/ l # k
      PROVE  CellAt(m2, j, l) = CellAt(m, j, l)
  <2> DEFINE b2 == NthBlock(m, j, l \div UNITS)
             c2 == l % UNITS
  <2>1. l \div UNITS \in Nat /\ c2 \in 0 .. UNITS - 1 /\ b2 \in Blocks
    BY CellFacts
  <2>2. b2 # b \/ c2 # c
    <3>1. ASSUME b2 = b, c2 = c PROVE FALSE
      <4>1. j = i /\ l \div UNITS = k \div UNITS
        BY <1>1, <1>9, <2>1, <3>1 DEF BlocksInv
      <4>2. l = k
        BY <3>1, <4>1, PlaceIs DEF c
      <4> QED
        BY <1>9, <4>1, <4>2
    <3> QED
      BY <3>1
  <2>3. cells[b2][c2] = m.cell[b2][c2]
    BY <1>3, <2>1, <2>2
  <2> QED
    BY <1>5, <1>6, <2>1, <2>3 DEF CellAt
<1>10. \A j \in Inodes : j # i => Alike(m, m2, j)
  BY <1>5, <1>6, <1>9 DEF Alike
<1> QED
  BY <1>5, <1>6, <1>7, <1>8, <1>9, <1>10

(* The block that a file's next unit is in.                                   *)
LEMMA NextUnit ==
  ASSUME NEW s \in Nat
  PROVE  LET q == s \div UNITS
         IN  /\ q \in Nat /\ q * UNITS < s + 1
             /\ s % UNITS = 0 => q * UNITS >= s /\ ~(q * UNITS < s)
             /\ s % UNITS # 0 => q * UNITS < s
             /\ \A n \in Nat : n # q /\ n * UNITS < s + 1 => n * UNITS < s
<1> DEFINE q == s \div UNITS
           c == s % UNITS
<1>1. UNITS \in Nat /\ UNITS >= 1
  BY UnitFacts
<1>2. q \in Nat /\ c \in 0 .. UNITS - 1 /\ s = UNITS * q + c
  BY <1>1, DivFacts
<1> HIDE DEF q, c
<1>3. \A u, p, r \in Nat :
        u >= 1 /\ r < u =>
          /\ p * u < u * p + r + 1
          /\ r = 0 => ~(p * u < u * p + r) /\ p * u >= u * p + r
          /\ r # 0 => p * u < u * p + r
  <2> SUFFICES ASSUME NEW u \in Nat, NEW p \in Nat, NEW r \in Nat, u >= 1, r < u
               PROVE  /\ p * u < u * p + r + 1
                      /\ r = 0 => ~(p * u < u * p + r) /\ p * u >= u * p + r
                      /\ r # 0 => p * u < u * p + r
    OBVIOUS
  <2>1. p * u \in Nat /\ u * p = p * u
    OBVIOUS
  <2> QED
    BY <2>1
<1>4. ASSUME NEW n \in Nat, n # q, n * UNITS < s + 1 PROVE n * UNITS < s
  <2>1. ASSUME n * UNITS = s PROVE n = q
    <3>1. n * UNITS < (q + 1) * UNITS /\ q * UNITS <= n * UNITS
      <4>1. (q + 1) * UNITS = UNITS * q + UNITS /\ q * UNITS = UNITS * q
            /\ q * UNITS \in Nat /\ UNITS * q \in Nat
        BY <1>1, <1>2
      <4> QED
        BY <1>1, <1>2, <2>1, <4>1
    <3>2. \A x, y, u \in Nat : x * u < (y + 1) * u => x <= y
      <4>1. ASSUME NEW x \in Nat, NEW y \in Nat, NEW u \in Nat, x * u < (y + 1) * u, x > y
            PROVE  FALSE
        <5>1. (y + 1) * u <= x * u
          BY <4>1
        <5>2. (y + 1) * u \in Nat /\ x * u \in Nat
          OBVIOUS
        <5> QED
          BY <4>1, <5>1, <5>2
      <4> QED
        BY <4>1
    <3>3. n <= q
      BY <1>1, <1>2, <3>1, <3>2
    <3>4. q * UNITS < (n + 1) * UNITS
      <4>1. (n + 1) * UNITS = n * UNITS + UNITS /\ n * UNITS \in Nat /\ q * UNITS \in Nat
        BY <1>1, <1>2
      <4> QED
        BY <1>1, <3>1, <4>1
    <3>5. q <= n
      BY <1>1, <1>2, <3>2, <3>4
    <3> QED
      BY <1>2, <3>3, <3>5
  <2>2. n * UNITS \in Nat
    BY <1>1
  <2> QED
    BY <1>4, <2>1, <2>2
<1>5. c \in Nat /\ c < UNITS
  BY <1>1, <1>2
<1>6. q * UNITS < s + 1 /\ (c = 0 => q * UNITS >= s /\ ~(q * UNITS < s)) /\ (c # 0 => q * UNITS < s)
  BY <1>1, <1>2, <1>3, <1>5
<1> QED
  BY <1>2, <1>4, <1>6 DEF q, c

(* A file that grows by one unit.                                             *)
Extended(m, m2, i, b, cell) ==
  LET s == m.inode[i].size
      q == s \div UNITS
  IN  /\ m2.inode[i].size = s + 1 /\ m2.inode[i].type = m.inode[i].type
      /\ m2.inode[i].direct[q] = b
      /\ \A n \in 0 .. NUM_DIRECT - 1 : n # q => m2.inode[i].direct[n] = m.inode[i].direct[n]
      /\ \A j \in Inodes : j # i => m2.inode[j] = m.inode[j]
      /\ m2.indirect = m.indirect /\ m2.b_head = m.b_head
      /\ m2.cell[b][s % UNITS] = cell
      /\ \A b2 \in Blocks, c2 \in 0 .. UNITS - 1 :
           b2 # b \/ c2 # s % UNITS => m2.cell[b2][c2] = m.cell[b2][c2]
      /\ s % UNITS # 0 => b = NthBlock(m, i, q)
      /\ s % UNITS = 0 => b = 0 \/ Fresh(m, b)

LEMMA ExtendFacts ==
  ASSUME NEW m \in FsType, BlocksInv(m), SizesDirect(m), NEW i \in Inodes,
         m.inode[i].size < NUM_DIRECT * UNITS,
         NEW m2 \in FsType, NEW b \in Blocks, NEW cell \in CellType, Extended(m, m2, i, b, cell)
  PROVE  LET s == m.inode[i].size
         IN  /\ BlocksInv(m2) /\ SizesDirect(m2)
             /\ \A j \in Inodes : j # i => Alike(m, m2, j)
             /\ NthBlock(m2, i, s \div UNITS) = b
             /\ \A n \in Nat : n # s \div UNITS => NthBlock(m2, i, n) = NthBlock(m, i, n)
             /\ CellAt(m2, i, s) = cell
             /\ \A k \in Nat : k # s /\ NthBlock(m, i, k \div UNITS) # 0 =>
                  CellAt(m2, i, k) = CellAt(m, i, k)
<1> DEFINE s == m.inode[i].size
           q == s \div UNITS
           c == s % UNITS
<1>1. /\ m2.inode[i].size = s + 1 /\ m2.inode[i].type = m.inode[i].type
      /\ m2.inode[i].direct[q] = b
      /\ \A n \in 0 .. NUM_DIRECT - 1 : n # q => m2.inode[i].direct[n] = m.inode[i].direct[n]
      /\ \A j \in Inodes : j # i => m2.inode[j] = m.inode[j]
      /\ m2.indirect = m.indirect /\ m2.b_head = m.b_head
      /\ m2.cell[b][c] = cell
      /\ \A b2 \in Blocks, c2 \in 0 .. UNITS - 1 :
           b2 # b \/ c2 # c => m2.cell[b2][c2] = m.cell[b2][c2]
      /\ c # 0 => b = NthBlock(m, i, q)
      /\ c = 0 => b = 0 \/ Fresh(m, b)
  BY DEF Extended
<1>2. UNITS \in Nat /\ UNITS >= 1 /\ NUM_DIRECT \in Nat /\ NUM_DIRECT * UNITS \in Nat /\ s \in Nat
  BY UnitFacts, ConstantFacts, SizeNat
<1>3. /\ q \in Nat /\ q * UNITS < s + 1
      /\ c = 0 => ~(q * UNITS < s)
      /\ c # 0 => q * UNITS < s
      /\ \A n \in Nat : n # q /\ n * UNITS < s + 1 => n * UNITS < s
  BY <1>2, NextUnit
<1>4. c \in 0 .. UNITS - 1
  BY <1>2, DivFacts
<1>5. SizesDirect(m2)
  <2>1. ASSUME NEW j \in Inodes PROVE m2.inode[j].size <= NUM_DIRECT * UNITS
    <3>1. CASE j = i
      <4> s < NUM_DIRECT * UNITS
        OBVIOUS
      <4> HIDE DEF s
      <4> QED
        BY <1>1, <1>2, <3>1
    <3>2. CASE j # i
      BY <1>1, <3>2 DEF SizesDirect
    <3> QED
      BY <3>1, <3>2
  <2> QED
    BY <2>1 DEF SizesDirect
<1>6. NthBlock(m2, i, q) = b
  BY <1>1, <1>3, <1>5, NthDirect
<1>7. ASSUME NEW n \in Nat, n # q PROVE NthBlock(m2, i, n) = NthBlock(m, i, n)
  <2>1. NthBlock(m2, i, n) = IF n * UNITS < s + 1 THEN m2.inode[i].direct[n] ELSE 0
    BY <1>1, <1>5, NthDirect
  <2>2. /\ NthBlock(m, i, n) = IF n * UNITS < s THEN m.inode[i].direct[n] ELSE 0
        /\ n * UNITS < s => n \in 0 .. NUM_DIRECT - 1
    BY NthDirect
  <2>3. n * UNITS < s + 1 <=> n * UNITS < s
    <3>1. n * UNITS \in Nat
      BY <1>2
    <3> HIDE DEF s, q
    <3> QED
      BY <1>2, <1>3, <1>7, <3>1
  <2>4. CASE n * UNITS < s
    BY <1>1, <1>7, <2>1, <2>2, <2>3, <2>4
  <2>5. CASE ~(n * UNITS < s)
    BY <2>1, <2>2, <2>3, <2>5
  <2> QED
    BY <2>4, <2>5
<1>8. \A j \in Inodes, n \in Nat : j # i => NthBlock(m2, j, n) = NthBlock(m, j, n)
  BY <1>1, NthSame
<1>9. \A n \in Nat, j \in Inodes : b # 0 /\ NthBlock(m, j, n) = b => j = i /\ n = q
  <2>1. CASE c = 0
    BY <1>1, <2>1 DEF Fresh
  <2>2. CASE c # 0
    BY <1>1, <1>3, <2>2 DEF BlocksInv
  <2> QED
    BY <2>1, <2>2
<1>10. \A k \in 1 .. Len(m.b_head) : b # 0 => m.b_head[k] # b
  <2>1. CASE c = 0
    BY <1>1, <2>1 DEF Fresh
  <2>2. CASE c # 0
    BY <1>1, <1>3, <2>2 DEF BlocksInv
  <2> QED
    BY <2>1, <2>2
<1> HIDE DEF s, q, c
<1>11. BlocksInv(m2)
  <2>0. \A j, l \in Inodes, n, o \in Nat :
          NthBlock(m, j, n) # 0 /\ NthBlock(m, l, o) = NthBlock(m, j, n) => j = l /\ n = o
    BY DEF BlocksInv
  <2>1. ASSUME NEW j \in Inodes, NEW l \in Inodes, NEW n \in Nat, NEW o \in Nat,
               NthBlock(m2, j, n) # 0, NthBlock(m2, l, o) = NthBlock(m2, j, n)
        PROVE  j = l /\ n = o
    <3>1. CASE j = i /\ n = q
      <4>1. CASE l = i /\ o = q
        BY <3>1, <4>1
      <4>2. CASE ~(l = i /\ o = q)
        <5>1. NthBlock(m2, l, o) = NthBlock(m, l, o)
          BY <1>7, <1>8, <4>2
        <5> QED
          BY <1>6, <1>9, <2>1, <3>1, <4>2, <5>1
      <4> QED
        BY <4>1, <4>2
    <3>2. CASE ~(j = i /\ n = q)
      <4>1. NthBlock(m2, j, n) = NthBlock(m, j, n)
        BY <1>7, <1>8, <3>2
      <4>2. CASE l = i /\ o = q
        BY <1>6, <1>9, <2>1, <3>2, <4>1, <4>2
      <4>3. CASE ~(l = i /\ o = q)
        <5>1. NthBlock(m2, l, o) = NthBlock(m, l, o)
          BY <1>7, <1>8, <4>3
        <5>2. NthBlock(m, j, n) # 0 /\ NthBlock(m, l, o) = NthBlock(m, j, n)
          BY <2>1, <4>1, <5>1
        <5> QED
          BY <2>0, <5>2
      <4> QED
        BY <4>2, <4>3, Zenon
    <3> QED
      BY <3>1, <3>2, Zenon
  <2>2. ASSUME NEW j \in Inodes, NEW n \in Nat, NEW k \in 1 .. Len(m2.b_head), NthBlock(m2, j, n) # 0
        PROVE  m2.b_head[k] # NthBlock(m2, j, n)
    <3>1. CASE j = i /\ n = q
      BY <1>1, <1>6, <1>10, <2>2, <3>1
    <3>2. CASE ~(j = i /\ n = q)
      <4>1. NthBlock(m2, j, n) = NthBlock(m, j, n)
        BY <1>7, <1>8, <3>2
      <4> QED
        BY <1>1, <2>2, <4>1 DEF BlocksInv
    <3> QED
      BY <3>1, <3>2
  <2>3. IsInjective1(m2.b_head) /\ \A k \in 1 .. Len(m2.b_head) : m2.b_head[k] # 0
    BY <1>1 DEF BlocksInv
  <2> QED
    BY <2>1, <2>2, <2>3 DEF BlocksInv
<1>12. ASSUME NEW j \in Inodes, NEW k \in Nat, NthBlock(m, j, k \div UNITS) # 0, j # i \/ k # s
       PROVE  CellAt(m2, j, k) = CellAt(m, j, k)
  <2> DEFINE b2 == NthBlock(m, j, k \div UNITS)
             c2 == k % UNITS
  <2>1. k \div UNITS \in Nat /\ c2 \in 0 .. UNITS - 1 /\ b2 \in Blocks
    BY CellFacts
  <2>2. b2 # b \/ c2 # c
    <3>1. ASSUME b2 = b, c2 = c PROVE FALSE
      <4>1. j = i /\ k \div UNITS = q
        BY <1>9, <1>12, <2>1, <3>1
      <4>2. k = s
        BY <1>2, <3>1, <4>1, PlaceIs DEF q, c
      <4> QED
        BY <1>12, <4>1, <4>2
    <3> QED
      BY <3>1
  <2>3. NthBlock(m2, j, k \div UNITS) = b2
    <3>1. CASE j = i /\ k \div UNITS = q
      <4>1. c # 0
        <5>1. CASE c = 0
          <6>1. NthBlock(m, i, q) = 0
            BY <1>3, <5>1, NthFacts DEF s
          <6> QED
            BY <1>12, <3>1, <6>1
        <5> QED
          BY <5>1
      <4> QED
        BY <1>1, <1>6, <3>1, <4>1
    <3>2. CASE ~(j = i /\ k \div UNITS = q)
      BY <1>7, <1>8, <2>1, <3>2
    <3> QED
      BY <3>1, <3>2
  <2>4. m2.cell[b2][c2] = m.cell[b2][c2]
    BY <1>1, <2>1, <2>2
  <2> QED
    BY <2>3, <2>4 DEF CellAt
<1>13. CellAt(m2, i, s) = cell
  BY <1>1, <1>6 DEF CellAt, q, c
<1>14. \A j \in Inodes : j # i => Alike(m, m2, j)
  BY <1>1, <1>8, <1>12 DEF Alike
<1> QED
  BY <1>5, <1>6, <1>7, <1>11, <1>12, <1>13, <1>14 DEF s, q

-----------------------------------------------------------------------------
(* Entries *)

(* The file system in which an entry is appended: the last block has room or  *)
(* a block was taken.                                                         *)
RoomFor(m, i, f, b) ==
  LET s == m.inode[i].size
      q == s \div UNITS
      g == GrowBlock(m, i, q)
  IN  IF s % UNITS = 0 THEN f = g.fs /\ b = g.b ELSE f = m /\ b = NthBlock(m, i, q)

Appended(f, i, e, b) ==
  LET c == f.inode[i].size % UNITS
  IN  /\ e.b = b /\ e.c = c
      /\ e.fs.cell = WithInum(f.cell, b, c, 0)
      /\ e.fs.inode = [f.inode EXCEPT ![i].size = f.inode[i].size + 1]
      /\ e.fs.bad = (f.bad \/ b = 0)
      /\ e.fs.indirect = f.indirect /\ e.fs.i_head = f.i_head /\ e.fs.b_head = f.b_head

LEMMA AppendIs ==
  ASSUME NEW m \in FsType, BlocksInv(m), SizesDirect(m), NEW i \in Inodes, Whole(m, i),
         m.inode[i].size < NUM_DIRECT * UNITS,
         NEW e, e = Append1(m, i)
  PROVE  \E f \in FsType, b \in Blocks :
           RoomFor(m, i, f, b) /\ f.inode[i].size = m.inode[i].size /\ Appended(f, i, e, b)
<1> DEFINE s == m.inode[i].size
           n == NumBlocks(m, i)
           q == s \div UNITS
           c == s % UNITS
           last == IF n = 0 THEN 0 ELSE NthBlock(m, i, n - 1)
           r == IF c = 0 THEN GrowBlock(m, i, n) ELSE [fs |-> m, b |-> last]
           f == r.fs
           b == r.b
           cells == [f.cell EXCEPT ![b][c].inum = 0]
           inodes == [f.inode EXCEPT ![i].size = @ + 1]
           bad == f.bad \/ b = 0
           g == [f EXCEPT !.cell = cells, !.inode = inodes, !.bad = bad]
<1>1. UNITS \in Nat /\ UNITS >= 1 /\ s \in Nat /\ q \in Nat /\ c \in 0 .. UNITS - 1
  BY UnitFacts, SizeNat, DivFacts
<1>2. (c = 0 => n = q) /\ (c # 0 => n = q + 1)
  BY WholeNum
<1>3. e = [fs |-> g, b |-> b, c |-> c]
  BY ZenonT(40) DEF Append1
<1>4. c # 0 => last = NthBlock(m, i, q)
  <2> HIDE DEF q, c, n
  <2>1. c # 0 => n = q + 1 /\ n # 0 /\ n - 1 = q
    BY <1>1, <1>2
  <2> QED
    BY <2>1
<1>5. f \in FsType /\ b \in Blocks /\ f.inode[i].size = s /\ RoomFor(m, i, f, b)
  <2>1. CASE c = 0
    BY <1>1, <1>2, <2>1, GrowType DEF RoomFor
  <2>2. CASE c # 0
    BY <1>1, <1>4, <2>2, NthFacts DEF RoomFor
  <2> QED
    BY <2>1, <2>2
<1> HIDE DEF f, b, c, n, r, s
<1>6. cells = WithInum(f.cell, b, c, 0)
  BY DEF WithInum
<1>7. inodes = [f.inode EXCEPT ![i].size = f.inode[i].size + 1]
  OBVIOUS
<1> HIDE DEF cells, inodes, bad
<1>8. /\ g.cell = cells /\ g.inode = inodes /\ g.bad = bad
      /\ g.indirect = f.indirect /\ g.i_head = f.i_head /\ g.b_head = f.b_head
  BY <1>5 DEF FsType
<1> HIDE DEF g
<1>9. c = f.inode[i].size % UNITS
  BY <1>5 DEF c
<1>10. e.fs = g /\ e.b = b /\ e.c = c
  BY <1>3
<1>11. Appended(f, i, e, b)
  BY <1>6, <1>7, <1>8, <1>9, <1>10 DEF Appended, bad
<1> QED
  BY <1>5, <1>11 DEF s

(* An entry with that name and that inode is in the directory now, in a place *)
(* that had none; nothing else changed.                                       *)
Named(m, m2, d, k, j, name) ==
  LET s == m.inode[d].size
  IN  /\ m2.inode[d].type = m.inode[d].type
      /\ m2.inode[d].size = IF k < s THEN s ELSE s + 1
      /\ k <= s
      /\ k < s => CellAt(m, d, k).inum = 0
      /\ \/ k < s /\ CellAt(m, d, k).name = name
         \/ \A l \in 0 .. s - 1 : CellAt(m, d, l).name # name
      /\ CellAt(m2, d, k) = [inum |-> j, name |-> name]
      /\ \A l \in 0 .. s - 1 : l # k => CellAt(m2, d, l) = CellAt(m, d, l)
      /\ \A i \in Inodes : i # d => Alike(m, m2, i)

(* Place k of the directory is the only one stored to, and a block that was   *)
(* taken is the one it is in.                                                 *)
Placed(m, m2, d, k) ==
  LET b == NthBlock(m2, d, k \div UNITS)
  IN  /\ b # 0 /\ k < m2.inode[d].size
      /\ \A b2 \in Blocks, c \in 0 .. UNITS - 1 :
           b2 # b \/ c # k % UNITS => m2.cell[b2][c] = m.cell[b2][c]
      /\ m2.b_head = m.b_head \/ (m2.b_head = Rest(m.b_head) /\ b = NextBlock(m))
      /\ \A n \in Nat : NthBlock(m, d, n) # 0 => NthBlock(m2, d, n) = NthBlock(m, d, n)

(* A pointer that is new is to the first of the free blocks.                  *)
Pointing(m, m2) ==
  \A i \in Inodes : \A n \in 0 .. NUM_DIRECT - 1 :
    m2.inode[i].direct[n] \in {m.inode[i].direct[n], NextBlock(m)}

(* No inode changes but one.                                                  *)
OnlyInode(m, m2, i) == \A x \in Inodes : x # i => m2.inode[x] = m.inode[x]

(* Clearing the number in an entry leaves all other entries.                 *)
LEMMA ZeroInum ==
  ASSUME NEW cells \in CellsType, NEW b \in Blocks, NEW c \in 0 .. UNITS - 1
  PROVE  /\ WithInum(cells, b, c, 0) \in CellsType
         /\ \A b2 \in Blocks, c2 \in 0 .. UNITS - 1 :
              b2 # b \/ c2 # c => WithInum(cells, b, c, 0)[b2][c2] = cells[b2][c2]
<1> DEFINE i == 0
           new == WithInum(cells, b, c, i)
<1>1. i \in Inodes /\ new = WithInum(cells, b, c, i)
  BY ConstantFacts
<1> HIDE DEF i, new
<1>2. /\ new \in CellsType
      /\ \A b2 \in Blocks, c2 \in 0 .. UNITS - 1 :
           b2 # b \/ c2 # c => new[b2][c2] = cells[b2][c2]
  BY <1>1, SetInum
<1> QED
  BY <1>2 DEF new, i

LEMMA AppendNamed ==
  ASSUME NEW m \in FsType, BlocksInv(m), SizesDirect(m), NEW d \in Inodes, Whole(m, d),
         m.inode[d].size < NUM_DIRECT * UNITS, m.b_head # << >>,
         NEW e \in PlaceType, e = Append1(m, d),
         NEW name \in PathNames, ~Found(m, d, name), NEW j \in Inodes,
         NEW m2, m2 = SetEntry(e, j, name)
  PROVE  /\ m2 \in FsType /\ BlocksInv(m2) /\ SizesDirect(m2) /\ Whole(m2, d)
         /\ Named(m, m2, d, m.inode[d].size, j, name) /\ Placed(m, m2, d, m.inode[d].size)
         /\ m2.i_head = m.i_head /\ e.fs.i_head = m.i_head
         /\ m2.b_head \in {m.b_head, Rest(m.b_head)}
         /\ m2.b_head = e.fs.b_head
         /\ m2.indirect = m.indirect /\ Pointing(m, m2) /\ OnlyInode(m, m2, d)
         /\ m2.bad => m.bad \/ NextBlock(m) \in TableBlocks
<1> DEFINE s == m.inode[d].size
           q == s \div UNITS
           c == s % UNITS
           cell == [inum |-> j, name |-> name]
<1>1. UNITS \in Nat /\ UNITS >= 1 /\ s \in Nat /\ q \in Nat /\ c \in 0 .. UNITS - 1
  BY UnitFacts, SizeNat, DivFacts
<1>2. PICK f \in FsType, b \in Blocks :
         RoomFor(m, d, f, b) /\ f.inode[d].size = s /\ Appended(f, d, e, b)
  BY AppendIs
<1>3. /\ q * UNITS < s + 1
      /\ c = 0 => q * UNITS >= s
      /\ c # 0 => q * UNITS < s
  BY <1>1, NextUnit
<1>4. /\ c = 0 => f = GrowBlock(m, d, q).fs /\ b = GrowBlock(m, d, q).b
      /\ c # 0 => f = m /\ b = NthBlock(m, d, q)
  BY <1>2 DEF RoomFor
<1>5. q < NUM_DIRECT
  <2>1. s < NUM_DIRECT * UNITS /\ NUM_DIRECT \in Nat
    BY ConstantFacts
  <2> QED
    BY <1>1, <2>1, DivBelow
<1>6. /\ f.cell = m.cell /\ f.indirect = m.indirect /\ f.i_head = m.i_head
      /\ f.b_head \in {m.b_head, Rest(m.b_head)}
      /\ f.inode[d].direct = [m.inode[d].direct EXCEPT ![q] = b]
      /\ f.inode[d].type = m.inode[d].type
      /\ \A i \in Inodes : Alike(m, f, i)
      /\ BlocksInv(f) /\ SizesDirect(f) /\ b # 0
      /\ c = 0 => Fresh(f, b)
      /\ b \in {NextBlock(m), m.inode[d].direct[q]}
      /\ f.bad => m.bad \/ NextBlock(m) \in TableBlocks
      /\ \A i \in Inodes : i # d => f.inode[i] = m.inode[i]
      /\ f.b_head = m.b_head \/ (f.b_head = Rest(m.b_head) /\ b = NextBlock(m))
      /\ NthBlock(m, d, q) # 0 => NthBlock(m, d, q) = b
  <2>1. CASE c = 0
    <3> DEFINE g == GrowBlock(m, d, q)
    <3>1. f = g.fs /\ b = g.b /\ q * UNITS >= s
      BY <1>3, <1>4, <2>1
    <3> HIDE DEF q, s, c
    <3>2. /\ g.fs.cell = m.cell /\ g.fs.indirect = m.indirect /\ g.fs.i_head = m.i_head
          /\ g.fs.b_head = Rest(m.b_head)
          /\ g.fs.inode[d].direct = [m.inode[d].direct EXCEPT ![q] = g.b]
          /\ \A i \in Inodes : /\ g.fs.inode[i].type = m.inode[i].type /\ Alike(m, g.fs, i)
                               /\ i # d => g.fs.inode[i] = m.inode[i]
          /\ BlocksInv(g.fs) /\ SizesDirect(g.fs)
          /\ g.b = NextBlock(m) /\ (g.b = 0 \/ Fresh(g.fs, g.b))
          /\ m.b_head # << >> => g.b # 0
          /\ g.fs.bad = (m.bad \/ g.b \in TableBlocks)
      BY <1>1, <1>5, <3>1, GrowFresh DEF s
    <3>3. NthBlock(m, d, q) = 0
      <4>1. ~(q * UNITS < s)
        <5>1. q * UNITS \in Nat
          BY <1>1
        <5> HIDE DEF g
        <5> QED
          BY <1>1, <3>1, <5>1
      <4> QED
        BY <1>1, <4>1, NthDirect DEF s
    <3> HIDE DEF g
    <3> QED
      BY <2>1, <3>1, <3>2, <3>3
  <2>2. CASE c # 0
    <3>1. f = m /\ b = NthBlock(m, d, q) /\ q * UNITS < s
      BY <1>3, <1>4, <2>2
    <3>2. b # 0
      BY <1>1, <3>1 DEF Whole
    <3>3. NthBlock(m, d, q) = m.inode[d].direct[q]
      BY <1>1, <3>1, NthDirect
    <3>4. m.inode[d].direct = [m.inode[d].direct EXCEPT ![q] = b]
      BY <3>1, <3>3, SizeNat
    <3> QED
      BY <2>2, <3>1, <3>2, <3>3, <3>4, AlikeSelf
  <2> QED
    BY <2>1, <2>2
<1>7. /\ e.b = b /\ e.c = c
      /\ e.fs.cell = WithInum(f.cell, b, c, 0)
      /\ e.fs.inode = [f.inode EXCEPT ![d].size = s + 1]
      /\ e.fs.indirect = f.indirect /\ e.fs.i_head = f.i_head /\ e.fs.b_head = f.b_head
      /\ e.fs.bad = (f.bad \/ b = 0)
  BY <1>2 DEF Appended
<1>8. e.fs \in FsType
  BY DEF PlaceType
<1>9. cell \in CellType
  BY DEF CellType
<1> HIDE DEF cell
<1>10. /\ m2 \in FsType
       /\ m2 = [e.fs EXCEPT !.cell = WithCell(e.fs.cell, b, c, cell)]
  BY <1>7, SetEntryType DEF cell
<1> DEFINE cells == WithCell(e.fs.cell, b, c, cell)
<1>11. /\ cells \in CellsType /\ cells[b][c] = cell
       /\ \A b2 \in Blocks, c2 \in 0 .. UNITS - 1 :
            b2 # b \/ c2 # c => cells[b2][c2] = m.cell[b2][c2]
  <2> DEFINE old == WithInum(f.cell, b, c, 0)
  <2>1. f.cell \in CellsType
    BY <1>2 DEF FsType, CellsType
  <2>2. b \in Blocks /\ c \in 0 .. UNITS - 1 /\ old = WithInum(f.cell, b, c, 0)
    BY <1>1
  <2>3. cells = WithCell(old, b, c, cell)
    BY <1>7
  <2> HIDE DEF s, c, old, cells
  <2>4. /\ old \in CellsType
        /\ \A b2 \in Blocks, c2 \in 0 .. UNITS - 1 :
             b2 # b \/ c2 # c => old[b2][c2] = f.cell[b2][c2]
    BY ONLY <2>1, <2>2, ZeroInum
  <2>5. /\ cells \in CellsType /\ cells[b][c] = cell
        /\ \A b2 \in Blocks, c2 \in 0 .. UNITS - 1 :
             b2 # b \/ c2 # c => cells[b2][c2] = old[b2][c2]
    BY ONLY cell \in CellType, <1>9, <2>2, <2>3, <2>4, SetCell
  <2> QED
    BY <1>6, <2>4, <2>5
<1> HIDE DEF cells
<1>12. /\ m2.cell = cells /\ m2.inode = e.fs.inode /\ m2.indirect = m.indirect
       /\ m2.i_head = m.i_head /\ m2.b_head = f.b_head /\ m2.bad = e.fs.bad
  BY <1>6, <1>7, <1>8, <1>10 DEF cells, FsType
<1>13. /\ m2.inode[d].size = s + 1 /\ m2.inode[d].type = f.inode[d].type
       /\ m2.inode[d].direct = f.inode[d].direct
       /\ \A i \in Inodes : i # d => m2.inode[i] = f.inode[i]
  <2>1. f.inode \in [Inodes -> InodeType]
    BY <1>2 DEF FsType
  <2> DEFINE inodes == [f.inode EXCEPT ![d].size = s + 1]
  <2>2. /\ inodes[d].size = s + 1 /\ inodes[d].type = f.inode[d].type
        /\ inodes[d].direct = f.inode[d].direct
        /\ \A i \in Inodes : i # d => inodes[i] = f.inode[i]
    BY <2>1 DEF InodeType
  <2> QED
    BY <1>7, <1>12, <2>2
<1>14. NthBlock(f, d, q) = NthBlock(m, d, q)
  BY <1>1, <1>6 DEF Alike
<1>15. q \in 0 .. NUM_DIRECT - 1 /\ m.inode[d].direct \in [0 .. NUM_DIRECT - 1 -> Blocks]
  <2>1. m.inode[d].direct \in [0 .. NUM_DIRECT - 1 -> Blocks]
    BY SizeNat
  <2>2. q \in Nat /\ NUM_DIRECT \in Nat
    BY <1>1, ConstantFacts
  <2> HIDE DEF q
  <2> QED
    BY <1>5, <2>1, <2>2
<1>16. Extended(f, m2, d, b, cell)
  <2>1. m2.inode[d].direct[q] = b
    <3>1. m2.inode[d].direct = [m.inode[d].direct EXCEPT ![q] = b]
      BY <1>6, <1>13
    <3> HIDE DEF q, s
    <3> QED
      BY <1>15, <3>1
  <2>2. \A n \in 0 .. NUM_DIRECT - 1 : n # q => m2.inode[d].direct[n] = f.inode[d].direct[n]
    BY <1>13
  <2>3. c # 0 => b = NthBlock(f, d, q)
    BY <1>4, <1>14
  <2>4. f.inode[d].size = s
    BY <1>2
  <2> HIDE DEF s
  <2> QED
    BY <1>6, <1>11, <1>12, <1>13, <2>1, <2>2, <2>3, <2>4 DEF Extended
<1>17. /\ BlocksInv(m2) /\ SizesDirect(m2)
       /\ \A i \in Inodes : i # d => Alike(f, m2, i)
       /\ NthBlock(m2, d, q) = b
       /\ \A n \in Nat : n # q => NthBlock(m2, d, n) = NthBlock(f, d, n)
       /\ CellAt(m2, d, s) = cell
       /\ \A k \in Nat : k # s /\ NthBlock(f, d, k \div UNITS) # 0 =>
            CellAt(m2, d, k) = CellAt(f, d, k)
  <2>1. f.inode[d].size = s /\ f.inode[d].size < NUM_DIRECT * UNITS
    BY <1>2, SMTT(30)
  <2> HIDE DEF s
  <2> QED
    BY <1>2, <1>6, <1>9, <1>10, <1>16, <2>1, ExtendFacts
<1>18. \A i \in Inodes : i # d => Alike(m, m2, i)
  BY <1>6, <1>10, <1>17, AlikeTwice
<1>19. Whole(m2, d)
  <2>1. ASSUME NEW n \in Nat, n * UNITS < s + 1 PROVE NthBlock(m2, d, n) # 0
    <3>1. CASE n = q
      BY <1>6, <1>17, <3>1
    <3>2. CASE n # q
      <4>1. n * UNITS < s
        BY <1>1, <2>1, <3>2, NextUnit
      <4> QED
        BY <1>6, <1>17, <3>2, <4>1 DEF Alike, Whole
    <3> QED
      BY <3>1, <3>2
  <2> QED
    BY <1>13, <2>1 DEF Whole
<1>20. ASSUME NEW l \in 0 .. s - 1
       PROVE  CellAt(m2, d, l) = CellAt(m, d, l) /\ CellAt(m, d, l).name # name
  <2>1. l \in Nat /\ l < s /\ l # s
    BY <1>1
  <2>2. NthBlock(m, d, l \div UNITS) # 0 /\ l \in Places(m, d)
    BY <2>1, WholePlaces
  <2>3. CellAt(m, d, l).name # name
    BY <2>2 DEF Found, Matching
  <2>4. l \div UNITS \in Nat
    BY <1>1, <2>1, DivFacts
  <2>5. NthBlock(f, d, l \div UNITS) # 0 /\ CellAt(f, d, l) = CellAt(m, d, l)
    BY <1>6, <2>1, <2>2, <2>4 DEF Alike
  <2> QED
    BY <1>17, <2>1, <2>3, <2>5
<1>21. Named(m, m2, d, s, j, name)
  <2>1. m2.inode[d].type = m.inode[d].type
    BY <1>6, <1>13
  <2> HIDE DEF s
  <2>2. ~(s < s) /\ s <= s
    BY <1>1
  <2> QED
    BY <1>13, <1>17, <1>18, <1>20, <2>1, <2>2 DEF Named, cell, s
<1>22. Pointing(m, m2)
  <2>1. ASSUME NEW n \in 0 .. NUM_DIRECT - 1
        PROVE  m2.inode[d].direct[n] \in {m.inode[d].direct[n], NextBlock(m)}
    <3>1. n = q \/ m2.inode[d].direct[n] = m.inode[d].direct[n]
      BY <1>6, <1>13, <1>15
    <3>2. m2.inode[d].direct[q] = b
      <4>1. m2.inode[d].direct = [m.inode[d].direct EXCEPT ![q] = b]
        BY <1>6, <1>13
      <4> HIDE DEF q
      <4> QED
        BY <1>15, <4>1
    <3> QED
      BY <1>6, <3>1, <3>2
  <2>2. \A i \in Inodes : i # d => m2.inode[i] = m.inode[i]
    BY <1>6, <1>13
  <2> QED
    BY <2>1, <2>2, SMTT(30) DEF Pointing
<1>23. m2.bad => m.bad \/ NextBlock(m) \in TableBlocks
  BY <1>6, <1>7, <1>12
<1>24. OnlyInode(m, m2, d)
  BY <1>6, <1>13 DEF OnlyInode
<1>25. Placed(m, m2, d, s)
  <2>1. ASSUME NEW n \in Nat, NthBlock(m, d, n) # 0
        PROVE  NthBlock(m2, d, n) = NthBlock(m, d, n)
    <3>1. CASE n = q
      BY <1>6, <1>17, <2>1, <3>1
    <3>2. CASE n # q
      BY <1>6, <1>17, <3>2 DEF Alike
    <3> QED
      BY <3>1, <3>2
  <2>2. s < m2.inode[d].size
    BY <1>1, <1>13
  <2>3. NthBlock(m2, d, s \div UNITS) = b
    BY <1>17
  <2>4. \A b2 \in Blocks, c2 \in 0 .. UNITS - 1 :
          b2 # b \/ c2 # s % UNITS => m2.cell[b2][c2] = m.cell[b2][c2]
    BY <1>11, <1>12
  <2> HIDE DEF s
  <2> QED
    BY <1>6, <1>12, <2>1, <2>2, <2>3, <2>4 DEF Placed
<1> QED
  BY <1>6, <1>7, <1>10, <1>12, <1>17, <1>19, <1>21, <1>22, <1>23, <1>24, <1>25

Sound(m) == m \in FsType /\ BlocksInv(m) /\ SizesDirect(m)

(* get_dir_entry finds the name, or a place without an inode, or makes one.   *)
LEMMA EntryCases ==
  ASSUME NEW m \in FsType, NEW d \in Inodes, Whole(m, d), NEW name,
         NEW e, e = EntryFor(m, d, name)
  PROVE  \/ \E k \in Nat : /\ k < m.inode[d].size /\ e = At(m, d, k)
                           /\ Found(m, d, name) /\ k = Min(Matching(m, d, name))
                           /\ CellAt(m, d, k).name = name
         \/ \E k \in Nat : /\ k < m.inode[d].size /\ e = At(m, d, k)
                           /\ ~Found(m, d, name) /\ CellAt(m, d, k).inum = 0
                           /\ \A l \in 0 .. m.inode[d].size - 1 : CellAt(m, d, l).name # name
         \/ e = Append1(m, d) /\ ~Found(m, d, name) /\ Vacant(m, d) = {}
<1>1. \A k \in Nat : k \in Places(m, d) <=> k < m.inode[d].size
  BY WholePlaces
<1>2. CASE Found(m, d, name)
  <2>1. e = At(m, d, Min(Matching(m, d, name)))
    BY <1>2 DEF EntryFor
  <2> QED
    BY <1>1, <1>2, <2>1, FoundFacts
<1>3. CASE ~Found(m, d, name) /\ Vacant(m, d) # {}
  <2>1. e = At(m, d, Min(Vacant(m, d)))
    BY <1>3 DEF EntryFor
  <2>2. ASSUME NEW l \in 0 .. m.inode[d].size - 1 PROVE CellAt(m, d, l).name # name
    <3>1. l \in Nat /\ l < m.inode[d].size
      BY SizeNat
    <3>2. l \in Places(m, d)
      BY <1>1, <3>1
    <3> QED
      BY <1>3, <3>2 DEF Found, Matching
  <2> QED
    BY <1>1, <1>3, <2>1, <2>2, VacantFacts
<1>4. CASE ~Found(m, d, name) /\ Vacant(m, d) = {}
  BY <1>4 DEF EntryFor
<1> QED
  BY <1>2, <1>3, <1>4

(* get_dir_entry and the stores into the entry it returned.                   *)
LEMMA NamedEntry ==
  ASSUME NEW m, Sound(m), NEW d \in Inodes, Whole(m, d), m.b_head # << >>,
         NEW name \in PathNames, NEW j \in Inodes,
         m.inode[d].size < NUM_DIRECT * UNITS \/ Found(m, d, name) \/ Vacant(m, d) # {},
         NEW e, e = EntryFor(m, d, name), e.fs.cell[e.b][e.c].inum = 0,
         NEW m2, m2 = SetEntry(e, j, name)
  PROVE  /\ Sound(m2) /\ Whole(m2, d)
         /\ \E k \in Nat : Named(m, m2, d, k, j, name) /\ Placed(m, m2, d, k)
         /\ m2.i_head = m.i_head /\ e.fs.i_head = m.i_head
         /\ m2.b_head \in {m.b_head, Rest(m.b_head)} /\ m2.b_head = e.fs.b_head
         /\ m2.indirect = m.indirect /\ Pointing(m, m2) /\ OnlyInode(m, m2, d)
         /\ m2.bad => m.bad \/ NextBlock(m) \in TableBlocks
<1> USE DEF Sound
<1>1. e \in PlaceType
  BY EntryForType
<1>2. CASE e = Append1(m, d) /\ ~Found(m, d, name) /\ Vacant(m, d) = {}
  <2>1. m.inode[d].size \in Nat
    BY SizeNat
  <2>2. m.inode[d].size < NUM_DIRECT * UNITS
    BY <1>2
  <2> QED
    BY <1>1, <1>2, <2>1, <2>2, AppendNamed
<1>3. CASE \E k \in Nat : /\ k < m.inode[d].size /\ e = At(m, d, k)
                          /\ \/ CellAt(m, d, k).name = name
                             \/ \A l \in 0 .. m.inode[d].size - 1 : CellAt(m, d, l).name # name
  <2>1. PICK k \in Nat : /\ k < m.inode[d].size /\ e = At(m, d, k)
                         /\ \/ CellAt(m, d, k).name = name
                            \/ \A l \in 0 .. m.inode[d].size - 1 : CellAt(m, d, l).name # name
    BY <1>3
  <2> DEFINE b == NthBlock(m, d, k \div UNITS)
             cell == [inum |-> j, name |-> name]
  <2>2. /\ e.fs = m /\ e.b = b /\ e.c = k % UNITS /\ CellAt(m, d, k).inum = 0
    BY <2>1, AtType
  <2>3. m2 \in FsType /\ m2 = [m EXCEPT !.cell = WithCell(m.cell, b, k % UNITS, cell)]
    BY <1>1, <2>2, SetEntryType
  <2>4. b # 0
    BY <2>1, WholePlaces
  <2>5. cell \in CellType
    BY DEF CellType
  <2> HIDE DEF b, cell
  <2>6. /\ m2 \in FsType /\ m2.bad = m.bad /\ m2.inode = m.inode
        /\ m2.i_head = m.i_head /\ m2.b_head = m.b_head /\ m2.indirect = m.indirect
        /\ BlocksInv(m2)
        /\ \A i \in Inodes : i # d => Alike(m, m2, i)
        /\ \A n \in Nat : NthBlock(m2, d, n) = NthBlock(m, d, n)
        /\ CellAt(m2, d, k) = cell
        /\ \A l \in Nat : l # k /\ NthBlock(m, d, l \div UNITS) # 0 =>
             CellAt(m2, d, l) = CellAt(m, d, l)
    BY <2>3, <2>4, <2>5, StoreFacts DEF b
  <2>7. SizesDirect(m2) /\ Whole(m2, d) /\ Pointing(m, m2) /\ OnlyInode(m, m2, d)
    BY <2>6 DEF SizesDirect, Whole, Pointing, OnlyInode
  <2>8. ASSUME NEW l \in 0 .. m.inode[d].size - 1, l # k
        PROVE  CellAt(m2, d, l) = CellAt(m, d, l)
    <3>1. l \in Nat /\ l < m.inode[d].size
      BY SizeNat
    <3> QED
      BY <2>6, <2>8, <3>1, WholePlaces
  <2>9. Named(m, m2, d, k, j, name)
    <3>1. k <= m.inode[d].size
      BY <2>1, SizeNat
    <3> QED
      BY <2>1, <2>2, <2>6, <2>8, <3>1 DEF Named, cell
  <2>10. Placed(m, m2, d, k)
    <3>1. k < m2.inode[d].size /\ NthBlock(m2, d, k \div UNITS) = b
      BY <2>1, <2>6, DivFacts, UnitFacts DEF b
    <3>2. b \in Blocks /\ k % UNITS \in 0 .. UNITS - 1
      BY CellFacts, <2>1 DEF b
    <3>3. m.cell \in CellsType /\ m2.cell = WithCell(m.cell, b, k % UNITS, cell)
      BY <2>3 DEF FsType, CellsType
    <3>4. \A b2 \in Blocks, c2 \in 0 .. UNITS - 1 :
            b2 # b \/ c2 # k % UNITS => m2.cell[b2][c2] = m.cell[b2][c2]
      BY <2>5, <3>2, <3>3, SetCell, SMTT(30)
    <3> QED
      BY <2>4, <2>6, <3>1, <3>4 DEF Placed
  <2> QED
    BY <2>2, <2>6, <2>7, <2>9, <2>10
<1> QED
  BY <1>2, <1>3, EntryCases

(* All names stay in their places.                                            *)
SameNames(m, m2) ==
  \A b \in Blocks, c \in 0 .. UNITS - 1 : m2.cell[b][c].name = m.cell[b][c].name

(* The inode of an entry is removed from it.                                  *)
Removed(m, m2, d, k) ==
  LET s == m.inode[d].size
  IN  /\ m2.inode = m.inode
      /\ CellAt(m2, d, k).inum = 0 /\ CellAt(m2, d, k).name = CellAt(m, d, k).name
      /\ \A l \in 0 .. s - 1 : l # k => CellAt(m2, d, l) = CellAt(m, d, l)
      /\ \A i \in Inodes : i # d => Alike(m, m2, i)

LEMMA RemovedEntry ==
  ASSUME NEW m, Sound(m), NEW d \in Inodes, Whole(m, d),
         NEW k \in Nat, k < m.inode[d].size, NEW b, b = NthBlock(m, d, k \div UNITS),
         NEW m2, m2 = [m EXCEPT !.cell[b][k % UNITS].inum = 0]
  PROVE  /\ Sound(m2) /\ Whole(m2, d) /\ Removed(m, m2, d, k)
         /\ m2.bad = m.bad /\ m2.i_head = m.i_head /\ m2.b_head = m.b_head
         /\ m2.indirect = m.indirect /\ SameNames(m, m2)
<1> USE DEF Sound
<1> DEFINE c == k % UNITS
           cell == [CellAt(m, d, k) EXCEPT !.inum = 0]
<1>1. /\ c \in 0 .. UNITS - 1 /\ b \in Blocks /\ CellAt(m, d, k) \in CellType
      /\ CellAt(m, d, k) = m.cell[b][c] /\ b # 0
  BY CellFacts, WholePlaces DEF CellAt
<1>2. cell \in CellType /\ cell.inum = 0 /\ cell.name = CellAt(m, d, k).name
  BY <1>1, ConstantFacts DEF CellType
<1>3. m.cell \in CellsType
  BY DEF FsType, CellsType
<1>4. [m.cell EXCEPT ![b][c].inum = 0] = WithCell(m.cell, b, c, cell)
  BY <1>1, <1>3 DEF WithCell, CellsType
<1>5. m2 = [m EXCEPT !.cell = WithCell(m.cell, b, c, cell)]
  BY <1>4 DEF FsType
<1> HIDE DEF cell
<1>6. /\ m2 \in FsType /\ m2.bad = m.bad /\ m2.inode = m.inode
      /\ m2.i_head = m.i_head /\ m2.b_head = m.b_head /\ m2.indirect = m.indirect
      /\ BlocksInv(m2)
      /\ \A i \in Inodes : i # d => Alike(m, m2, i)
      /\ \A n \in Nat : NthBlock(m2, d, n) = NthBlock(m, d, n)
      /\ CellAt(m2, d, k) = cell
      /\ \A l \in Nat : l # k /\ NthBlock(m, d, l \div UNITS) # 0 =>
           CellAt(m2, d, l) = CellAt(m, d, l)
  BY <1>1, <1>2, <1>5, StoreFacts, SMTT(30)
<1>7. SizesDirect(m2) /\ Whole(m2, d)
  BY <1>6, ZenonT(40) DEF SizesDirect, Whole
<1>8. ASSUME NEW l \in 0 .. m.inode[d].size - 1, l # k
      PROVE  CellAt(m2, d, l) = CellAt(m, d, l)
  <2>1. l \in Nat /\ l < m.inode[d].size
    BY SizeNat, SMTT(30)
  <2> QED
    BY <1>6, <1>8, <2>1, WholePlaces
<1>9. Removed(m, m2, d, k)
  BY <1>2, <1>6, <1>8 DEF Removed
<1>10. SameNames(m, m2)
  <2>1. m2.cell = WithCell(m.cell, b, c, cell)
    BY <1>5 DEF FsType
  <2>2. c \in 0 .. UNITS - 1 /\ b \in Blocks /\ cell \in CellType
    BY <1>1, <1>2
  <2>3. cell.name = m.cell[b][c].name
    BY <1>1, <1>2
  <2> DEFINE old == m.cell
             new == m2.cell
  <2> HIDE DEF c, old, new
  <2>4. /\ new[b][c] = cell
        /\ \A b2 \in Blocks, c2 \in 0 .. UNITS - 1 :
             b2 # b \/ c2 # c => new[b2][c2] = old[b2][c2]
    <3>1. old \in CellsType /\ new = WithCell(old, b, c, cell)
      BY <1>3, <2>1 DEF old, new
    <3> QED
      BY <2>2, <3>1, SetCell
  <2> QED
    BY <2>3, <2>4 DEF SameNames, old, new
<1> QED
  BY <1>6, <1>7, <1>9, <1>10

-----------------------------------------------------------------------------
(* Inodes that are taken *)

(* A file that loses its blocks, and one that gets a new one instead.         *)
LEMMA EmptiedBlocks ==
  ASSUME NEW m \in FsType, NEW m2 \in FsType, BlocksInv(m), m2.b_head = m.b_head, NEW i \in Inodes,
         NEW b \in Blocks, b = 0 \/ Fresh(m, b),
         NthBlock(m2, i, 0) = b, \A n \in Nat \ {0} : NthBlock(m2, i, n) = 0,
         \A j \in Inodes, n \in Nat : j # i => NthBlock(m2, j, n) = NthBlock(m, j, n)
  PROVE  BlocksInv(m2)
<1>0. \A j, l \in Inodes, n, o \in Nat :
        NthBlock(m, j, n) # 0 /\ NthBlock(m, l, o) = NthBlock(m, j, n) => j = l /\ n = o
  BY DEF BlocksInv
<1>1. \A n \in Nat : NthBlock(m2, i, n) # 0 => n = 0 /\ NthBlock(m2, i, n) = b /\ Fresh(m, b)
  <2> SUFFICES ASSUME NEW n \in Nat, NthBlock(m2, i, n) # 0
               PROVE  n = 0 /\ NthBlock(m2, i, n) = b /\ Fresh(m, b)
    OBVIOUS
  <2>1. n = 0
    OBVIOUS
  <2> QED
    BY <2>1
<1>2. \A j \in Inodes, n \in Nat : Fresh(m, b) => NthBlock(m, j, n) # b
  BY DEF Fresh
<1>3. ASSUME NEW j \in Inodes, NEW l \in Inodes, NEW n \in Nat, NEW o \in Nat,
             NthBlock(m2, j, n) # 0, NthBlock(m2, l, o) = NthBlock(m2, j, n)
      PROVE  j = l /\ n = o
  <2>0. NthBlock(m2, l, o) # 0
    BY <1>3
  <2>1. CASE j = i /\ l = i
    BY <1>1, <1>3, <2>0, <2>1
  <2>2. CASE j = i /\ l # i
    <3>1. NthBlock(m2, j, n) = b /\ Fresh(m, b) /\ NthBlock(m2, l, o) = NthBlock(m, l, o)
      BY <1>1, <1>3, <2>2
    <3>2. NthBlock(m, l, o) = b
      BY <1>3, <3>1
    <3> QED
      BY <1>2, <3>1, <3>2
  <2>3. CASE j # i /\ l = i
    <3>1. NthBlock(m2, l, o) = b /\ Fresh(m, b) /\ NthBlock(m2, j, n) = NthBlock(m, j, n)
      BY <1>1, <2>0, <2>3
    <3>2. NthBlock(m, j, n) = b
      BY <1>3, <3>1
    <3> QED
      BY <1>2, <3>1, <3>2
  <2>4. CASE j # i /\ l # i
    <3>1. NthBlock(m2, l, o) = NthBlock(m, l, o) /\ NthBlock(m2, j, n) = NthBlock(m, j, n)
      BY <2>4
    <3>2. NthBlock(m, j, n) # 0 /\ NthBlock(m, l, o) = NthBlock(m, j, n)
      BY <1>3, <3>1
    <3> QED
      BY <1>0, <3>2
  <2> QED
    BY <2>1, <2>2, <2>3, <2>4
<1>4. ASSUME NEW j \in Inodes, NEW n \in Nat, NEW k \in 1 .. Len(m2.b_head), NthBlock(m2, j, n) # 0
      PROVE  m2.b_head[k] # NthBlock(m2, j, n)
  <2>1. CASE j = i
    <3>1. NthBlock(m2, j, n) = b /\ Fresh(m, b)
      BY <1>1, <1>4, <2>1
    <3> QED
      BY <3>1 DEF Fresh
  <2>2. CASE j # i
    <3>1. NthBlock(m2, j, n) = NthBlock(m, j, n)
      BY <2>2
    <3> QED
      BY <1>4, <3>1 DEF BlocksInv
  <2> QED
    BY <2>1, <2>2
<1>5. IsInjective1(m2.b_head) /\ \A k \in 1 .. Len(m2.b_head) : m2.b_head[k] # 0
  BY DEF BlocksInv
<1> QED
  BY <1>3, <1>4, <1>5 DEF BlocksInv

LEMMA MakeFileSound ==
  ASSUME NEW m, Sound(m), NEW i, i = NextInode(m), NEW m2, m2 = MakeFile(m)
  PROVE  /\ i \in Inodes /\ Sound(m2)
         /\ m2.inode[i].size = 0 /\ m2.inode[i].type = INODE_REGULAR /\ m2.inode[i].nlink = 1
         /\ OnlyInode(m, m2, i) /\ m2.cell = m.cell
         /\ \A j \in Inodes : j # i => Alike(m, m2, j)
         /\ m2.i_head = Rest(m.i_head) /\ m2.b_head = m.b_head
         /\ m2.bad = m.bad /\ m2.indirect = m.indirect
         /\ \A j \in Inodes : m2.inode[j].direct = m.inode[j].direct
<1> USE DEF Sound
<1> DEFINE inode == [m.inode[i] EXCEPT !.type = INODE_REGULAR, !.size = 0, !.nlink = 1]
           inodes == [m.inode EXCEPT ![i] = inode]
<1>1. i \in Inodes /\ Rest(m.i_head) \in Seq(Inodes)
  BY NextTypes
<1>2. m2 \in FsType /\ m2 = [m EXCEPT !.i_head = Rest(m.i_head), !.inode = inodes]
  BY MakeFileType
<1>3. m.inode \in [Inodes -> InodeType]
  BY DEF FsType
<1>4. /\ inodes[i].size = 0 /\ inodes[i].type = INODE_REGULAR /\ inodes[i].nlink = 1
      /\ inodes[i].direct = m.inode[i].direct
      /\ \A j \in Inodes : j # i => inodes[j] = m.inode[j]
  BY <1>1, <1>3 DEF InodeType
<1> HIDE DEF inodes
<1>5. /\ m2.inode = inodes /\ m2.i_head = Rest(m.i_head) /\ m2.b_head = m.b_head
      /\ m2.bad = m.bad /\ m2.indirect = m.indirect /\ m2.cell = m.cell
  BY <1>2 DEF FsType
<1>6. \A j \in Inodes : j # i => Alike(m, m2, j)
  BY <1>2, <1>4, <1>5, AlikeFrame
<1>7. ASSUME NEW n \in Nat PROVE NthBlock(m2, i, n) = 0
  <2>1. ~(n * UNITS < 0)
    <3>1. n * UNITS \in Nat
      BY UnitFacts
    <3> QED
      BY <3>1
  <2> QED
    BY <1>4, <1>5, <2>1 DEF NthBlock
<1>8. SizesDirect(m2)
  <2>1. NUM_DIRECT * UNITS \in Nat
    BY ConstantFacts
  <2> QED
    BY <1>4, <1>5, <2>1 DEF SizesDirect
<1>9. BlocksInv(m2)
  <2>1. \A j \in Inodes, n \in Nat : j # i => NthBlock(m2, j, n) = NthBlock(m, j, n)
    BY <1>6 DEF Alike
  <2>2. 0 \in Blocks /\ NthBlock(m2, i, 0) = 0 /\ \A n \in Nat \ {0} : NthBlock(m2, i, n) = 0
    BY <1>7, ConstantFacts
  <2> QED
    BY <1>1, <1>2, <1>5, <2>1, <2>2, EmptiedBlocks
<1>10. OnlyInode(m, m2, i)
  BY <1>4, <1>5 DEF OnlyInode
<1> QED
  BY <1>1, <1>2, <1>4, <1>5, <1>6, <1>8, <1>9, <1>10

(* The name of one of the first two entries: no process made it.              *)
Dotted(name) == name \notin Names /\ name # ""

(* The two entries of a new directory.                                        *)
NewEntries(m, i, d) ==
  /\ m.inode[i].type = INODE_DIRECTORY /\ m.inode[i].size = 2 /\ Whole(m, i)
  /\ CellAt(m, i, 0).inum = i /\ CellAt(m, i, 1).inum = d
  /\ Dotted(CellAt(m, i, 0).name) /\ Dotted(CellAt(m, i, 1).name)

(* They are in block b, where other cells stay.                               *)
NewRow(m, m2, i, b) ==
  /\ NthBlock(m2, i, 0) = b
  /\ CellAt(m2, i, 0).name = DotOver(m.cell[b][0].name)
  /\ CellAt(m2, i, 1).name = DotDotOver(m.cell[b][1].name)
  /\ \A b2 \in Blocks, c \in 0 .. UNITS - 1 :
       b2 # b \/ c >= 2 => m2.cell[b2][c] = m.cell[b2][c]

LEMMA NewDirSound ==
  ASSUME NEW m, Sound(m), m.b_head # << >>,
         NEW i, i = NextInode(m), NEW d \in Inodes, NEW b, b = NextBlock(m),
         NEW m2, m2 = NewDir(m, i, d, b)
  PROVE  /\ i \in Inodes /\ Sound(m2) /\ NewEntries(m2, i, d) /\ OnlyInode(m, m2, i)
         /\ \A j \in Inodes : j # i => Alike(m, m2, j)
         /\ m2.i_head = Rest(m.i_head) /\ m2.b_head = Rest(m.b_head)
         /\ m2.indirect = m.indirect /\ Pointing(m, m2) /\ NewRow(m, m2, i, b)
         /\ m2.bad => m.bad \/ b \in TableBlocks
<1> USE DEF Sound
<1> DEFINE inode == DirInode(m.inode[i], b)
           inodes == [m.inode EXCEPT ![i] = inode]
           cells == DirCells(m.cell, i, d, b)
           bad == m.bad \/ b \in TableBlocks \cup {0}
           t == [m EXCEPT !.b_head = Rest(m.b_head)]
<1>1. /\ i \in Inodes /\ Rest(m.i_head) \in Seq(Inodes)
      /\ b \in Blocks /\ Rest(m.b_head) \in Seq(Blocks)
  BY NextTypes
<1>2. m2 \in FsType
  BY <1>1, NewDirType
<1>3. m.inode \in [Inodes -> InodeType] /\ m.cell \in CellsType
  BY DEF FsType, CellsType
<1>4. inode \in InodeType /\ inode.type = INODE_DIRECTORY /\ inode.size = 2
      /\ inode.direct = [m.inode[i].direct EXCEPT ![0] = b]
  BY <1>1, <1>3, DirInodeType
<1>5. /\ cells \in CellsType
      /\ cells[b][0] = [inum |-> i, name |-> DotOver(m.cell[b][0].name)]
      /\ cells[b][1] = [inum |-> d, name |-> DotDotOver(m.cell[b][1].name)]
      /\ \A b2 \in Blocks, c2 \in 0 .. UNITS - 1 : b2 # b \/ c2 >= 2 => cells[b2][c2] = m.cell[b2][c2]
  <2>1. m.cell \in CellsType /\ i \in Inodes /\ d \in Inodes /\ b \in Blocks
    BY <1>1, <1>3
  <2> QED
    BY <2>1, DirCellsType
<1> HIDE DEF inode
<1>6. inodes[i] = inode /\ \A j \in Inodes : j # i => inodes[j] = m.inode[j]
  BY <1>1, <1>3
<1> HIDE DEF inodes, cells
<1>7. m2 = [m EXCEPT !.i_head = Rest(m.i_head), !.b_head = Rest(m.b_head),
                     !.inode = inodes, !.cell = cells, !.bad = bad]
  BY DEF NewDir, inodes, inode, cells
<1> HIDE DEF bad
<1>8. /\ m2.inode = inodes /\ m2.i_head = Rest(m.i_head) /\ m2.b_head = Rest(m.b_head)
      /\ m2.bad = bad /\ m2.indirect = m.indirect /\ m2.cell = cells
  BY <1>7 DEF FsType
<1>9. /\ t \in FsType /\ t.b_head = Rest(m.b_head)
      /\ t.inode = m.inode /\ t.indirect = m.indirect /\ t.cell = m.cell
  BY <1>1 DEF FsType
<1> HIDE DEF t
<1>10. \A j \in Inodes, n \in Nat : NthBlock(t, j, n) = NthBlock(m, j, n)
  BY <1>9, NthSame
<1>11. BlocksInv(t) /\ b # 0 /\ Fresh(t, b)
  BY <1>9, <1>10, TakeFresh
<1>12. /\ UNITS \in Nat /\ UNITS >= 2 /\ NUM_DIRECT \in Nat /\ NUM_DIRECT >= 1
       /\ MaxBlocks \in Nat /\ MaxBlocks >= 1 /\ NUM_DIRECT * UNITS >= 2
  <2>1. UNITS \in Nat /\ UNITS >= 2 /\ NUM_DIRECT \in Nat /\ NUM_DIRECT >= 1
        /\ MaxBlocks \in Nat /\ MaxBlocks >= 1
    BY ConstantFacts
  <2>2. \A u, n \in Nat : u >= 2 /\ n >= 1 => n * u >= 2
    <3>1. ASSUME NEW u \in Nat, NEW n \in Nat, u >= 2, n >= 1 PROVE n * u >= 2
      <4>1. n * u >= 1 * u
        BY <3>1
      <4> QED
        BY <3>1, <4>1
    <3> QED
      BY <3>1
  <2> QED
    BY <2>1, <2>2
<1>13. SizesDirect(m2)
  BY <1>4, <1>6, <1>8, <1>12 DEF SizesDirect
<1>14. m.inode[i].direct \in [0 .. NUM_DIRECT - 1 -> Blocks]
  BY <1>1, SizeNat
<1>15. NthBlock(m2, i, 0) = b
  <2>1. 0 * UNITS < 2 /\ 0 \in 0 .. NUM_DIRECT - 1 /\ 0 \in Nat
    BY <1>12
  <2>2. NthBlock(m2, i, 0) = m2.inode[i].direct[0]
    BY <1>1, <1>2, <1>4, <1>6, <1>8, <1>13, <2>1, NthDirect
  <2> QED
    BY <1>4, <1>6, <1>8, <1>14, <2>1, <2>2
<1>16. ASSUME NEW n \in Nat \ {0} PROVE NthBlock(m2, i, n) = 0 /\ ~(n * UNITS < 2)
  <2>1. ~(n * UNITS < 2)
    <3>1. 1 * UNITS <= n * UNITS
      BY <1>12
    <3>2. n * UNITS \in Nat
      BY <1>12
    <3> QED
      BY <1>12, <3>1, <3>2
  <2> QED
    BY <1>4, <1>6, <1>8, <2>1 DEF NthBlock
<1>17. \A j \in Inodes, n \in Nat : j # i => NthBlock(m2, j, n) = NthBlock(m, j, n)
  BY <1>2, <1>6, <1>8, NthSame
<1>18. BlocksInv(m2)
  <2>1. \A j \in Inodes, n \in Nat : j # i => NthBlock(m2, j, n) = NthBlock(t, j, n)
    BY <1>10, <1>17
  <2>2. m2.b_head = t.b_head
    BY <1>8, <1>9
  <2>3. \A n \in Nat \ {0} : NthBlock(m2, i, n) = 0
    BY <1>16
  <2> QED
    BY <1>1, <1>2, <1>9, <1>11, <1>15, <2>1, <2>2, <2>3, EmptiedBlocks
<1>19. ASSUME NEW j \in Inodes, j # i PROVE Alike(m, m2, j)
  <2>1. ASSUME NEW k \in Nat, NthBlock(m, j, k \div UNITS) # 0
        PROVE  CellAt(m2, j, k) = CellAt(m, j, k)
    <3>1. k \div UNITS \in Nat /\ k % UNITS \in 0 .. UNITS - 1 /\ NthBlock(m, j, k \div UNITS) \in Blocks
      BY CellFacts
    <3>2. NthBlock(m, j, k \div UNITS) # b
      BY <1>10, <1>11, <3>1 DEF Fresh
    <3>3. NthBlock(m2, j, k \div UNITS) = NthBlock(m, j, k \div UNITS)
      BY <1>17, <1>19, <3>1
    <3> QED
      BY <1>5, <1>8, <3>1, <3>2, <3>3 DEF CellAt
  <2> QED
    BY <1>6, <1>8, <1>17, <1>19, <2>1 DEF Alike
<1>20. CellAt(m2, i, 0) = cells[b][0] /\ CellAt(m2, i, 1) = cells[b][1]
  <2>1. 0 \div UNITS = 0 /\ 0 % UNITS = 0 /\ 1 \div UNITS = 0 /\ 1 % UNITS = 1
    <3>1. \A u, q, r \in Nat : u >= 2 /\ r < u =>
            (0 = u * q + r => q = 0 /\ r = 0) /\ (1 = u * q + r => q = 0 /\ r = 1)
      <4>1. ASSUME NEW u \in Nat, NEW q \in Nat, NEW r \in Nat, u >= 2, r < u
            PROVE  (0 = u * q + r => q = 0 /\ r = 0) /\ (1 = u * q + r => q = 0 /\ r = 1)
        <5>1. q >= 1 => u * q >= u * 1
          BY <4>1
        <5>2. u * q \in Nat /\ (q = 0 => u * q = 0)
          OBVIOUS
        <5> QED
          BY <4>1, <5>1, <5>2
      <4> QED
        BY <4>1
    <3>2. UNITS \in Nat /\ UNITS >= 1 /\ UNITS >= 2
      BY <1>12
    <3>3. ASSUME NEW k \in Nat
          PROVE  k \div UNITS \in Nat /\ k % UNITS \in 0 .. UNITS - 1
                 /\ k = UNITS * (k \div UNITS) + (k % UNITS)
      BY <3>2, DivFacts
    <3>4. ASSUME NEW k \in Nat PROVE k % UNITS \in Nat /\ k % UNITS < UNITS
      <4>1. k % UNITS \in 0 .. UNITS - 1
        BY <3>3
      <4> QED
        BY <3>2, <4>1
    <3>5. 0 \div UNITS = 0 /\ 0 % UNITS = 0
      <4> DEFINE q == 0 \div UNITS
                 r == 0 % UNITS
      <4>1. q \in Nat /\ r \in Nat /\ r < UNITS /\ 0 = UNITS * q + r
        BY <3>3, <3>4
      <4> HIDE DEF q, r
      <4> QED
        BY <3>1, <3>2, <4>1 DEF q, r
    <3>6. 1 \div UNITS = 0 /\ 1 % UNITS = 1
      <4> DEFINE q == 1 \div UNITS
                 r == 1 % UNITS
      <4>1. q \in Nat /\ r \in Nat /\ r < UNITS /\ 1 = UNITS * q + r
        BY <3>3, <3>4
      <4> HIDE DEF q, r
      <4>2. q = 0 /\ r = 1
        BY <3>1, <3>2, <4>1
      <4> QED
        BY <4>2 DEF q, r
    <3> QED
      BY <3>5, <3>6
  <2> QED
    BY <1>8, <1>15, <2>1 DEF CellAt
<1>21. Dotted(cells[b][0].name) /\ Dotted(cells[b][1].name)
  <2> DEFINE x == m.cell[b][0].name
             y == m.cell[b][1].name
  <2>1. cells[b][0].name = DotOver(x) /\ cells[b][1].name = DotDotOver(y)
    BY <1>5
  <2> HIDE DEF x, y
  <2>2. "." \notin Names /\ ".." \notin Names /\ Junk \notin Names
    BY PathsAssumption
  <2>3. Junk # "" /\ "." # "" /\ ".." # ""
    BY DEF Junk
  <2>4. DotOver(x) \in {".", "..", Junk} /\ DotDotOver(y) \in {"..", Junk}
    BY DEF DotOver, DotDotOver
  <2> HIDE DEF Junk
  <2> QED
    BY <2>1, <2>2, <2>3, <2>4 DEF Dotted
<1>22. Whole(m2, i)
  <2>1. \A n \in Nat : n * UNITS < 2 => n = 0
    BY <1>16
  <2> QED
    BY <1>4, <1>6, <1>8, <1>11, <1>15, <2>1 DEF Whole
<1>23. NewEntries(m2, i, d)
  <2>1. CellAt(m2, i, 0).inum = i /\ CellAt(m2, i, 1).inum = d
    BY <1>5, <1>20
  <2>2. Dotted(CellAt(m2, i, 0).name) /\ Dotted(CellAt(m2, i, 1).name)
    BY <1>20, <1>21
  <2>3. m2.inode[i].type = INODE_DIRECTORY /\ m2.inode[i].size = 2
    BY <1>4, <1>6, <1>8
  <2> QED
    BY <1>22, <2>1, <2>2, <2>3 DEF NewEntries
<1>24. Pointing(m, m2)
  <2>1. ASSUME NEW n \in 0 .. NUM_DIRECT - 1
        PROVE  m2.inode[i].direct[n] \in {m.inode[i].direct[n], NextBlock(m)}
    BY <1>4, <1>6, <1>8, <1>14, <2>1
  <2> QED
    BY <1>6, <1>8, <2>1 DEF Pointing
<1>25. m2.bad => m.bad \/ b \in TableBlocks
  BY <1>8, <1>11 DEF bad
<1>26. OnlyInode(m, m2, i)
  BY <1>6, <1>8 DEF OnlyInode
<1>27. NewRow(m, m2, i, b)
  <2>1. /\ CellAt(m2, i, 0).name = DotOver(m.cell[b][0].name)
        /\ CellAt(m2, i, 1).name = DotDotOver(m.cell[b][1].name)
    BY <1>5, <1>20
  <2> QED
    BY <1>5, <1>8, <1>15, <2>1 DEF NewRow
<1> QED
  BY <1>1, <1>2, <1>8, <1>13, <1>18, <1>19, <1>23, <1>24, <1>25, <1>26, <1>27

-----------------------------------------------------------------------------
(* Changes that no file shows *)

LEMMA ClearSound ==
  ASSUME NEW m, Sound(m), NEW i \in Inodes, NEW m2, m2 = Clear(m, i)
  PROVE  /\ Sound(m2) /\ \A j \in Inodes : j # i => Alike(m, m2, j)
         /\ m2.inode[i].size = 0 /\ m2.inode[i].type = m.inode[i].type
         /\ m2.inode[i].nlink = m.inode[i].nlink /\ OnlyInode(m, m2, i)
         /\ m2.i_head = m.i_head /\ m2.bad = m.bad
         /\ m2.indirect = m.indirect /\ m2.cell = m.cell
         /\ \A j \in Inodes : m2.inode[j].direct = m.inode[j].direct
<1> USE DEF Sound
<1>1. /\ m2 \in FsType /\ m2.cell = m.cell /\ m2.indirect = m.indirect
      /\ m2.i_head = m.i_head /\ m2.bad = m.bad
      /\ m2.inode[i].size = 0 /\ m2.inode[i].type = m.inode[i].type
      /\ m2.inode[i].direct = m.inode[i].direct /\ m2.inode[i].nlink = m.inode[i].nlink
      /\ \A j \in Inodes : j # i => m2.inode[j] = m.inode[j]
  BY ClearFacts
<1>2. BlocksInv(m2)
  BY ClearBlocks
<1>3. \A j \in Inodes : j # i => Alike(m, m2, j)
  BY <1>1, AlikeFrame
<1>4. SizesDirect(m2)
  <2>1. NUM_DIRECT * UNITS \in Nat
    BY ConstantFacts
  <2> QED
    BY <1>1, <2>1 DEF SizesDirect
<1>5. OnlyInode(m, m2, i) /\ \A j \in Inodes : m2.inode[j].direct = m.inode[j].direct
  BY <1>1 DEF OnlyInode
<1> QED
  BY <1>1, <1>2, <1>3, <1>4, <1>5

(* Changes of nlink, of the list of free inodes, and of bad.                  *)
LEMMA FrameSound ==
  ASSUME NEW m, Sound(m), NEW m2 \in FsType,
         m2.cell = m.cell, m2.indirect = m.indirect, m2.b_head = m.b_head,
         \A i \in Inodes : /\ m2.inode[i].type = m.inode[i].type
                           /\ m2.inode[i].size = m.inode[i].size
                           /\ m2.inode[i].direct = m.inode[i].direct
  PROVE  Sound(m2) /\ \A i \in Inodes : Alike(m, m2, i)
<1> USE DEF Sound
<1>1. \A i \in Inodes : Alike(m, m2, i)
  BY AlikeFrame
<1>2. BlocksInv(m2)
  <2>1. \A i \in Inodes, n \in Nat : NthBlock(m2, i, n) = NthBlock(m, i, n)
    BY <1>1 DEF Alike
  <2> QED
    BY <2>1, BlocksFrame
<1> QED
  BY <1>1, <1>2 DEF SizesDirect

LEMMA NlinkSound ==
  ASSUME NEW m, Sound(m), NEW i \in Inodes, NEW x \in Int,
         NEW m2, m2 = [m EXCEPT !.inode = [m.inode EXCEPT ![i].nlink = x]]
  PROVE  /\ Sound(m2) /\ \A j \in Inodes : Alike(m, m2, j)
         /\ m2.cell = m.cell /\ m2.indirect = m.indirect
         /\ m2.b_head = m.b_head /\ m2.i_head = m.i_head /\ m2.bad = m.bad
         /\ \A j \in Inodes : m2.inode[j].direct = m.inode[j].direct
         /\ OnlyInode(m, m2, i) /\ m2.inode[i].nlink = x
<1> USE DEF Sound
<1> DEFINE inodes == [m.inode EXCEPT ![i].nlink = x]
<1>1. m.inode \in [Inodes -> InodeType] /\ m2 \in FsType
  BY NlinkType DEF FsType
<1>2. \A j \in Inodes : /\ inodes[j].type = m.inode[j].type
                        /\ inodes[j].size = m.inode[j].size
                        /\ inodes[j].direct = m.inode[j].direct
  <2>1. ASSUME NEW j \in Inodes
        PROVE  /\ inodes[j].type = m.inode[j].type
               /\ inodes[j].size = m.inode[j].size
               /\ inodes[j].direct = m.inode[j].direct
    <3>1. CASE j = i
      BY <1>1, <3>1 DEF InodeType
    <3>2. CASE j # i
      BY <1>1, <3>2
    <3> QED
      BY <3>1, <3>2
  <2> QED
    BY <2>1
<1>5. inodes[i].nlink = x /\ \A j \in Inodes : j # i => inodes[j] = m.inode[j]
  BY <1>1 DEF InodeType
<1> HIDE DEF inodes
<1>3. /\ m2.inode = inodes /\ m2.cell = m.cell /\ m2.indirect = m.indirect
      /\ m2.b_head = m.b_head /\ m2.i_head = m.i_head /\ m2.bad = m.bad
  BY DEF FsType, inodes
<1>4. OnlyInode(m, m2, i) /\ m2.inode[i].nlink = x
  BY <1>3, <1>5 DEF OnlyInode
<1> QED
  BY <1>1, <1>2, <1>3, <1>4, FrameSound

-----------------------------------------------------------------------------
(* File data *)

(* How far a write to file i has come.                                        *)
Written(m, f, i) ==
  /\ Sound(f) /\ DataOf(f, i) /\ f.inode[i].type = INODE_REGULAR
  /\ f.inode[i].size >= m.inode[i].size
  /\ \A j \in Inodes : j # i => Alike(m, f, j)
  /\ f.i_head = m.i_head

LEMMA UnitIs ==
  ASSUME NEW f \in FsType, NEW i \in Inodes, NEW b \in Blocks, NEW k \in Nat,
         NEW u, u = Unit(f, i, b, k)
  PROVE  /\ u \in FsType
         /\ u.inode[i].size = IF f.inode[i].size >= k + 1 THEN f.inode[i].size ELSE k + 1
         /\ u.inode[i].type = f.inode[i].type /\ u.inode[i].direct = f.inode[i].direct
         /\ u.inode[i].nlink = f.inode[i].nlink
         /\ \A j \in Inodes : j # i => u.inode[j] = f.inode[j]
         /\ u.cell = WithCell(f.cell, b, k % UNITS, [inum |-> i, name |-> Junk])
         /\ u.bad = f.bad /\ u.b_head = f.b_head /\ u.i_head = f.i_head /\ u.indirect = f.indirect
BY UnitType

(* A unit inside the file is written over; one at its end makes it longer.    *)
LEMMA UnitWritten ==
  ASSUME NEW m, Sound(m), NEW i \in Inodes, m.inode[i].type = INODE_REGULAR, DataOf(m, i),
         NEW k \in Nat, k <= m.inode[i].size, k < NUM_DIRECT * UNITS,
         NEW g, g = GrowBlock(m, i, k \div UNITS)
  PROVE  /\ Written(m, g.fs, i) /\ g.b \in Blocks
         /\ g.b # 0 => Written(m, Unit(g.fs, i, g.b, k), i)
         /\ g.b # 0 => Unit(g.fs, i, g.b, k).inode[i].size >= k + 1
<1> USE DEF Sound
<1> DEFINE s == m.inode[i].size
           n == k \div UNITS
           c == k % UNITS
           f == g.fs
           b == g.b
           u == Unit(f, i, b, k)
           cell == [inum |-> i, name |-> Junk]
<1>1. UNITS \in Nat /\ UNITS >= 1 /\ NUM_DIRECT \in Nat /\ MaxBlocks \in Nat /\ NUM_DIRECT <= MaxBlocks
      /\ s \in Nat /\ n \in Nat /\ c \in 0 .. UNITS - 1 /\ s < s + 1 /\ s >= s
  <2>1. UNITS \in Nat /\ UNITS >= 1
    BY UnitFacts
  <2>2. NUM_DIRECT \in Nat /\ MaxBlocks \in Nat /\ NUM_DIRECT <= MaxBlocks
    BY ConstantFacts
  <2>3. s \in Nat
    BY SizeNat
  <2>4. n \in Nat /\ c \in 0 .. UNITS - 1
    BY <2>1, DivFacts
  <2>5. s < s + 1 /\ s >= s
    <3> HIDE DEF s
    <3> QED
      BY <2>3
  <2> HIDE DEF s, n, c
  <2> QED
    BY <2>1, <2>2, <2>3, <2>4, <2>5
<1>2. n < NUM_DIRECT /\ n < MaxBlocks
  <2>1. n < NUM_DIRECT
    BY <1>1, DivBelow
  <2> HIDE DEF n
  <2> QED
    BY <1>1, <2>1
<1>3. Whole(m, i) /\ \A l \in 0 .. s - 1 : CellAt(m, i, l) = cell
  BY DEF DataOf
<1>4. cell \in CellType
  BY DEF CellType
<1>5. f \in FsType /\ b \in Blocks
  BY <1>1, GrowType
<1>6. /\ u \in FsType
      /\ u.inode[i].size = IF f.inode[i].size >= k + 1 THEN f.inode[i].size ELSE k + 1
      /\ u.inode[i].type = f.inode[i].type /\ u.inode[i].direct = f.inode[i].direct
      /\ \A j \in Inodes : j # i => u.inode[j] = f.inode[j]
      /\ u.cell = WithCell(f.cell, b, c, cell)
      /\ u.b_head = f.b_head /\ u.i_head = f.i_head /\ u.indirect = f.indirect
  <2> HIDE DEF f, b
  <2> QED
    BY <1>5, UnitIs
<1>7. CASE k < s
  <2>1. n * UNITS < s
    BY <1>1, <1>7, PlaceBelow
  <2>2. f = m /\ b = NthBlock(m, i, n)
    <3>1. g = [fs |-> m, b |-> Pointer(m, i, n)]
      BY <1>1, <1>2, <2>1, GrowCases
    <3>2. NthBlock(m, i, n) = Pointer(m, i, n)
      BY <1>2, <2>1 DEF NthBlock
    <3> QED
      BY <3>1, <3>2
  <2>3. b # 0
    BY <1>1, <1>3, <2>1, <2>2 DEF Whole
  <2>4. Written(m, f, i)
    BY <1>1, <2>2, AlikeSelf DEF Written
  <2> DEFINE m2 == [m EXCEPT !.cell = WithCell(m.cell, b, c, cell)]
  <2>5. /\ m2 \in FsType /\ m2.inode = m.inode /\ BlocksInv(m2)
        /\ m2.i_head = m.i_head /\ m2.b_head = m.b_head /\ m2.indirect = m.indirect
        /\ \A j \in Inodes : j # i => Alike(m, m2, j)
        /\ \A l \in Nat : NthBlock(m2, i, l) = NthBlock(m, i, l)
        /\ CellAt(m2, i, k) = cell
        /\ \A l \in Nat : l # k /\ NthBlock(m, i, l \div UNITS) # 0 =>
             CellAt(m2, i, l) = CellAt(m, i, l)
    <3> HIDE DEF cell
    <3> QED
      BY <1>4, <2>2, <2>3, StoreFacts, SMTT(30)
  <2>6. m2.cell = u.cell
    BY <1>6, <2>2 DEF FsType
  <2> HIDE DEF m2, u, cell
  <2>7. u.inode[i].size = s
    <3>1. s >= k + 1
      <4> HIDE DEF s
      <4> QED
        BY <1>1, <1>7
    <3> QED
      BY <1>6, <2>2, <3>1
  <2>8. \A j \in Inodes : /\ u.inode[j].type = m2.inode[j].type
                          /\ u.inode[j].size = m2.inode[j].size
                          /\ u.inode[j].direct = m2.inode[j].direct
    BY <1>6, <2>2, <2>5, <2>7
  <2>9. Sound(m2)
    BY <2>5 DEF SizesDirect
  <2>10. Sound(u) /\ \A j \in Inodes : Alike(m2, u, j)
    BY <1>6, <2>2, <2>5, <2>6, <2>8, <2>9, FrameSound
  <2>11. \A j \in Inodes : j # i => Alike(m, u, j)
    BY <1>6, <2>5, <2>10, AlikeTwice
  <2>12. DataOf(m2, i)
    <3>1. ASSUME NEW l \in 0 .. s - 1 PROVE CellAt(m2, i, l) = cell
      <4>1. CASE l = k
        BY <2>5, <4>1
      <4>2. CASE l # k
        <5>1. l \in Nat /\ l < s
          BY <1>1
        <5>2. NthBlock(m, i, l \div UNITS) # 0
          BY <1>3, <5>1, WholePlaces
        <5> QED
          BY <1>3, <2>5, <4>2, <5>1, <5>2
      <4> QED
        BY <4>1, <4>2
    <3>2. Whole(m2, i)
      BY <1>3, <2>5 DEF Whole
    <3> QED
      BY <2>5, <3>1, <3>2 DEF DataOf, cell
  <2>13. DataOf(u, i)
    BY <1>6, <2>5, <2>10, <2>12, AlikeKeeps
  <2>14. Written(m, u, i)
    <3>1. u.inode[i].size >= m.inode[i].size
      BY <1>1, <2>7
    <3>2. u.inode[i].type = INODE_REGULAR /\ u.i_head = m.i_head
      BY <1>6, <2>2
    <3> QED
      BY <2>10, <2>11, <2>13, <3>1, <3>2 DEF Written
  <2>15. u.inode[i].size >= k + 1
    <3> HIDE DEF s
    <3> QED
      BY <1>1, <1>7, <2>7
  <2> QED
    BY <1>5, <2>4, <2>14, <2>15 DEF u
<1>8. CASE k = s
  <2>1. /\ n * UNITS < s + 1
        /\ c = 0 => n * UNITS >= s
        /\ c # 0 => n * UNITS < s
    BY <1>1, <1>8, NextUnit
  <2>2. /\ Sound(f) /\ (\A j \in Inodes : Alike(m, f, j))
        /\ f.cell = m.cell /\ f.indirect = m.indirect /\ f.i_head = m.i_head
        /\ f.inode[i].direct = [m.inode[i].direct EXCEPT ![n] = b]
        /\ c # 0 => b = NthBlock(f, i, n)
        /\ c = 0 => b = 0 \/ Fresh(f, b)
    <3>1. CASE c = 0
      <4>1. n * UNITS >= m.inode[i].size /\ g = GrowBlock(m, i, n)
        BY <2>1, <3>1
      <4>2. m \in FsType /\ BlocksInv(m) /\ SizesDirect(m) /\ n \in Nat /\ n < NUM_DIRECT
        BY <1>1, <1>2
      <4> HIDE DEF n, s
      <4>3. /\ Sound(g.fs) /\ (\A j \in Inodes : Alike(m, g.fs, j))
            /\ g.fs.cell = m.cell /\ g.fs.indirect = m.indirect /\ g.fs.i_head = m.i_head
            /\ g.fs.inode[i].direct = [m.inode[i].direct EXCEPT ![n] = g.b]
            /\ g.b = 0 \/ Fresh(g.fs, g.b)
        BY ONLY i \in Inodes, <4>1, <4>2, GrowFresh DEF Sound
      <4> QED
        BY <3>1, <4>3
    <3>2. CASE c # 0
      <4>1. n * UNITS < s
        BY <2>1, <3>2
      <4>2. f = m /\ b = Pointer(m, i, n)
        BY <1>1, <1>2, <4>1, GrowCases
      <4>3. NthBlock(m, i, n) = Pointer(m, i, n)
        BY <1>2, <4>1 DEF NthBlock
      <4>4. NthBlock(m, i, n) = m.inode[i].direct[n]
        BY <1>1, <4>1, NthDirect
      <4>5. m.inode[i].direct = [m.inode[i].direct EXCEPT ![n] = b]
        BY <4>2, <4>3, <4>4, SizeNat
      <4> QED
        BY <3>2, <4>2, <4>3, <4>5, AlikeSelf
    <3> QED
      BY <3>1, <3>2
  <2>3. f.inode[i].size = s /\ f.inode[i].type = INODE_REGULAR
    BY <2>2 DEF Alike
  <2>4. DataOf(f, i)
    BY <1>5, <2>2, AlikeKeeps
  <2>5. Written(m, f, i)
    BY <1>1, <2>2, <2>3, <2>4 DEF Written
  <2> HIDE DEF u, cell, f, b
  <2>6. ASSUME b # 0 PROVE Written(m, u, i) /\ u.inode[i].size >= k + 1
    <3>1. u.inode[i].size = s + 1
      <4>1. ~(s >= k + 1) /\ k + 1 = s + 1
        <5> HIDE DEF s
        <5> QED
          BY <1>1, <1>8
      <4> QED
        BY <1>6, <2>3, <4>1
    <3>2. f.cell \in CellsType
      BY <1>5 DEF FsType, CellsType
    <3>3. /\ u.cell[b][c] = cell
          /\ \A b2 \in Blocks, c2 \in 0 .. UNITS - 1 : b2 # b \/ c2 # c => u.cell[b2][c2] = f.cell[b2][c2]
      BY <1>1, <1>4, <1>5, <1>6, <3>2, SetCell
    <3>4. n \in 0 .. NUM_DIRECT - 1 /\ m.inode[i].direct \in [0 .. NUM_DIRECT - 1 -> Blocks]
      <4>1. m.inode[i].direct \in [0 .. NUM_DIRECT - 1 -> Blocks]
        BY SizeNat
      <4> HIDE DEF n
      <4> QED
        BY <1>1, <1>2, <4>1
    <3>5. Extended(f, u, i, b, cell)
      <4>1. u.inode[i].direct[n] = b
        BY <1>6, <2>2, <3>4
      <4>2. n = f.inode[i].size \div UNITS /\ c = f.inode[i].size % UNITS
        BY <1>8, <2>3
      <4>3. u.inode[i].size = f.inode[i].size + 1
        BY <2>3, <3>1
      <4> HIDE DEF n, c, s
      <4> QED
        BY <1>6, <2>2, <3>3, <4>1, <4>2, <4>3 DEF Extended
    <3>6. f.inode[i].size < NUM_DIRECT * UNITS
      BY <1>8, <2>3
    <3>7. /\ BlocksInv(u) /\ SizesDirect(u)
          /\ \A j \in Inodes : j # i => Alike(f, u, j)
          /\ NthBlock(u, i, n) = b
          /\ \A l \in Nat : l # n => NthBlock(u, i, l) = NthBlock(f, i, l)
          /\ CellAt(u, i, s) = cell
          /\ \A l \in Nat : l # s /\ NthBlock(f, i, l \div UNITS) # 0 =>
               CellAt(u, i, l) = CellAt(f, i, l)
      <4>1. f.inode[i].size = s /\ n = s \div UNITS
        BY <1>8, <2>3
      <4> HIDE DEF n, s
      <4> QED
        BY <1>4, <1>5, <1>6, <2>2, <3>5, <3>6, <4>1, ExtendFacts
    <3>8. \A j \in Inodes : j # i => Alike(m, u, j)
      BY <1>5, <1>6, <2>2, <3>7, AlikeTwice
    <3>9. Whole(u, i)
      <4>1. ASSUME NEW l \in Nat, l * UNITS < s + 1 PROVE NthBlock(u, i, l) # 0
        <5>1. CASE l = n
          BY <2>6, <3>7, <5>1
        <5>2. CASE l # n
          <6>1. l * UNITS < s
            BY <1>1, <1>8, <4>1, <5>2, NextUnit
          <6>2. NthBlock(f, i, l) # 0
            BY <1>3, <2>2, <6>1 DEF Alike, Whole
          <6> QED
            BY <3>7, <5>2, <6>2
        <5> QED
          BY <5>1, <5>2
      <4> QED
        BY <3>1, <4>1 DEF Whole
    <3>10. ASSUME NEW l \in 0 .. u.inode[i].size - 1 PROVE CellAt(u, i, l) = cell
      <4>1. l \in Nat /\ l \in 0 .. s
        <5> HIDE DEF s
        <5> QED
          BY <1>1, <3>1
      <4>2. CASE l = s
        BY <3>7, <4>2
      <4>3. CASE l # s
        <5>1. l < s /\ l \in 0 .. s - 1
          <6>1. s \in Nat
            BY <1>1
          <6> HIDE DEF s
          <6> QED
            BY <4>1, <4>3, <6>1
        <5>2. NthBlock(m, i, l \div UNITS) # 0 /\ l \div UNITS \in Nat
          BY <1>1, <1>3, <4>1, <5>1, WholePlaces, DivFacts
        <5>3. NthBlock(f, i, l \div UNITS) # 0 /\ CellAt(f, i, l) = CellAt(m, i, l)
          BY <2>2, <4>1, <5>2 DEF Alike
        <5> QED
          BY <1>3, <3>7, <4>1, <4>3, <5>1, <5>3 DEF cell
      <4> QED
        BY <4>2, <4>3
    <3>11. DataOf(u, i)
      BY <3>9, <3>10 DEF DataOf, cell
    <3>12. u.inode[i].size >= m.inode[i].size /\ u.inode[i].size >= k + 1
      <4>1. s = m.inode[i].size
        OBVIOUS
      <4> HIDE DEF s
      <4> QED
        BY <1>1, <1>8, <3>1, <4>1
    <3> QED
      BY <1>6, <2>2, <2>3, <3>7, <3>8, <3>11, <3>12 DEF Written
  <2> QED
    BY <1>5, <2>5, <2>6 DEF u, f, b
<1> QED
  BY <1>1, <1>7, <1>8

LEMMA WrittenTwice ==
  ASSUME NEW m, Sound(m), NEW f, NEW g, NEW i \in Inodes, Written(m, f, i), Written(f, g, i)
  PROVE  Written(m, g, i)
<1> USE DEF Sound
<1>1. m \in FsType /\ f \in FsType /\ g \in FsType
  BY DEF Written
<1>2. \A j \in Inodes : j # i => Alike(m, g, j)
  BY <1>1, AlikeTwice DEF Written
<1>3. g.inode[i].size >= m.inode[i].size
  <2>1. /\ g.inode[i].size >= f.inode[i].size /\ f.inode[i].size >= m.inode[i].size
        /\ m.inode[i].size \in Nat /\ f.inode[i].size \in Nat /\ g.inode[i].size \in Nat
    BY <1>1, SizeNat DEF Written
  <2> QED
    BY <2>1
<1> QED
  BY <1>2, <1>3 DEF Written

(* What holds of the first step and goes on from step to step.                *)
LEMMA StepByStep ==
  ASSUME NEW n \in Nat, NEW S, 0 \in S, \A l \in 1 .. n : l - 1 \in S => l \in S
  PROVE  n \in S
<1> DEFINE at == [l \in 0 .. n |-> l]
<1>1. at[0] \in S
  OBVIOUS
<1>2. ASSUME NEW l \in 1 .. n, at[l - 1] \in S PROVE at[l] \in S
  BY <1>2
<1>3. \A l \in 0 .. n : at[l] \in S
  <2> HIDE DEF at
  <2> QED
    BY <1>1, <1>2, StepsStay
<1> QED
  BY <1>3

(* handle_write within the direct blocks, from a place that is in the file    *)
(* or at its end.                                                             *)
LEMMA WriteWritten ==
  ASSUME NEW m, Sound(m), NEW i \in Inodes, m.inode[i].type = INODE_REGULAR, DataOf(m, i),
         NEW pos \in Nat, pos <= m.inode[i].size, NEW n \in Nat, pos + n <= NUM_DIRECT * UNITS,
         NEW valid \in Nat, NEW r, r = WriteFile(m, i, pos, n, valid)
  PROVE  /\ Written(m, r.fs, i) /\ r.ret \in {n, ERROR}
         /\ r.ret # ERROR => r.fs.inode[i].size >= pos + n
<1> USE DEF Sound
<1>1. PICK at \in [0 .. n -> ReplyType(n)] : WritesBy(m, i, pos, n, valid, at)
  BY WriteSteps
<1> DEFINE Good(l) == /\ Written(m, at[l].fs, i)
                      /\ at[l].ret # ERROR => at[l].fs.inode[i].size >= pos + l
           S == {l \in 0 .. n : Good(l)}
<1>2. 0 \in S
  <2>1. at[0] = [fs |-> m, ret |-> n]
    BY <1>1 DEF WritesBy
  <2>2. m.inode[i].size >= m.inode[i].size /\ m.inode[i].size >= pos + 0
    BY SizeNat
  <2>3. Written(m, m, i)
    BY <2>2, AlikeSelf DEF Written
  <2> QED
    BY <2>1, <2>2, <2>3
<1>3. ASSUME NEW l \in 1 .. n, l - 1 \in S PROVE l \in S
  <2> DEFINE q == at[l - 1]
             p == at[l]
             k == pos + l - 1
             f == q.fs
             g == GrowBlock(f, i, k \div UNITS)
  <2>1. l - 1 \in 0 .. n /\ l \in 0 .. n /\ l \in Nat /\ k \in Nat /\ k = pos + (l - 1) /\ k + 1 = pos + l
    OBVIOUS
  <2>2. q \in ReplyType(n) /\ p = Put(i, pos, n, valid, q, k)
    BY <1>1, <2>1 DEF WritesBy
  <2>3. Written(m, f, i) /\ (q.ret # ERROR => f.inode[i].size >= k)
    BY <1>3, <2>1
  <2>4. p = IF q.ret = ERROR THEN q
            ELSE IF g.b = 0 \/ ChunkEnd(k, pos + n) > pos + valid THEN [fs |-> g.fs, ret |-> ERROR]
            ELSE [fs |-> Unit(g.fs, i, g.b, k), ret |-> q.ret]
    <3> HIDE DEF q, p, k
    <3> QED
      BY <2>1, <2>2, PutCases, SMTT(30)
  <2> HIDE DEF q, p, k, f
  <2>5. CASE q.ret = ERROR
    <3>1. p = q /\ Written(m, p.fs, i) /\ p.ret = ERROR
      BY <2>3, <2>4, <2>5 DEF f
    <3> QED
      BY <2>1, <3>1 DEF p
  <2>6. CASE q.ret # ERROR
    <3>1. k <= f.inode[i].size /\ k < NUM_DIRECT * UNITS
      <4>1. k < pos + n
        BY <2>1
      <4>2. NUM_DIRECT * UNITS \in Nat /\ f.inode[i].size \in Nat
        BY <2>3, ConstantFacts, SizeNat DEF Written
      <4> QED
        BY <2>1, <2>3, <2>6, <4>1, <4>2
    <3>2. Sound(f) /\ f.inode[i].type = INODE_REGULAR /\ DataOf(f, i)
      BY <2>3 DEF Written
    <3>3. /\ Written(f, g.fs, i)
          /\ g.b # 0 => /\ Written(f, Unit(g.fs, i, g.b, k), i)
                        /\ Unit(g.fs, i, g.b, k).inode[i].size >= k + 1
      BY <2>1, <3>1, <3>2, UnitWritten
    <3> HIDE DEF g
    <3>4. CASE g.b = 0 \/ ChunkEnd(k, pos + n) > pos + valid
      <4>1. p.fs = g.fs /\ p.ret = ERROR
        BY <2>4, <2>6, <3>4
      <4>2. Written(m, p.fs, i)
        BY <2>3, <3>3, <4>1, WrittenTwice
      <4> QED
        BY <2>1, <4>1, <4>2 DEF p
    <3>5. CASE ~(g.b = 0 \/ ChunkEnd(k, pos + n) > pos + valid)
      <4>1. p.fs = Unit(g.fs, i, g.b, k)
        BY <2>4, <2>6, <3>5
      <4>2. Written(m, p.fs, i) /\ p.fs.inode[i].size >= pos + l
        BY <2>1, <2>3, <3>3, <3>5, <4>1, WrittenTwice
      <4> QED
        BY <2>1, <4>2 DEF p
    <3> QED
      BY <3>4, <3>5
  <2> QED
    BY <2>5, <2>6
<1> HIDE DEF S
<1>4. n \in S
  BY <1>2, <1>3, StepByStep
<1>5. r = at[n] /\ r \in ReplyType(n)
  BY <1>1 DEF WritesBy
<1> QED
  BY <1>4, <1>5 DEF S, ReplyType

(* What handle_rmdir does to the directory: its blocks and then its inode go  *)
(* to the free lists.                                                         *)
LEMMA GoneSound ==
  ASSUME NEW m, Sound(m), NEW i \in Inodes, NEW m2, m2 = Gone(m, i)
  PROVE  /\ Sound(m2) /\ \A j \in Inodes : j # i => Alike(m, m2, j)
         /\ m2.inode[i].size = 0 /\ m2.inode[i].type = m.inode[i].type
         /\ m2.i_head = <<i>> \o m.i_head /\ m2.bad = m.bad /\ m2.cell = m.cell
<1> DEFINE c == Clear(m, i)
<1>1. m \in FsType
  BY DEF Sound
<1>2. /\ Sound(c) /\ \A j \in Inodes : j # i => Alike(m, c, j)
      /\ c.inode[i].size = 0 /\ c.inode[i].type = m.inode[i].type
      /\ c.indirect = m.indirect /\ c.cell = m.cell
  BY ClearSound
<1>3. /\ m2 \in FsType /\ m2.bad = m.bad /\ m2.inode = c.inode /\ m2.b_head = c.b_head
      /\ m2.cell = m.cell /\ m2.indirect = m.indirect /\ m2.i_head = <<i>> \o m.i_head
  BY <1>1, GoneType
<1> HIDE DEF c
<1>4. Sound(m2) /\ \A j \in Inodes : Alike(c, m2, j)
  BY <1>2, <1>3, FrameSound
<1>5. \A j \in Inodes : j # i => Alike(m, m2, j)
  BY <1>1, <1>2, <1>3, <1>4, AlikeTwice DEF Sound
<1> QED
  BY <1>2, <1>3, <1>4, <1>5

(* The list of free inodes aside.                                             *)
LEMMA GoneAside ==
  ASSUME NEW m, Sound(m), NEW i \in Inodes, NEW m2, m2 = Gone(m, i)
  PROVE  /\ Sound(m2) /\ \A j \in Inodes : j # i => Alike(m, m2, j)
         /\ m2.inode[i].size = 0 /\ m2.inode[i].type = m.inode[i].type
         /\ m2.bad = m.bad /\ m2.cell = m.cell
<1> DEFINE q == <<i>> \o m.i_head
<1>1. /\ Sound(m2) /\ \A j \in Inodes : j # i => Alike(m, m2, j)
      /\ m2.inode[i].size = 0 /\ m2.inode[i].type = m.inode[i].type
      /\ m2.i_head = q /\ m2.bad = m.bad /\ m2.cell = m.cell
  BY GoneSound, SMTT(30)
<1> HIDE DEF q
<1> QED
  BY <1>1

-----------------------------------------------------------------------------
(* handle_write leaves every nlink as it is *)

SameLinks(m, m2) == \A x \in Inodes : m2.inode[x].nlink = m.inode[x].nlink

LEMMA GrowLinks ==
  ASSUME NEW f \in FsType, NEW i \in Inodes, NEW q \in Nat, NEW g, g = GrowBlock(f, i, q)
  PROVE  SameLinks(f, g.fs) /\ g.fs \in FsType /\ g.b \in Blocks
<1> DEFINE b == NextBlock(f)
           inodes == [f.inode EXCEPT ![i].direct[q] = b]
           t == Taken(f)
<1>1. f.inode[i].size \in Nat /\ q * UNITS \in Nat /\ NUM_DIRECT \in Nat /\ MaxBlocks \in Nat
      /\ NUM_DIRECT <= MaxBlocks
  BY SizeNat, ConstantFacts
<1>2. g.fs \in FsType /\ g.b \in Blocks
  BY GrowType
<1>3. CASE q >= MaxBlocks
  BY <1>2, <1>3, GrowCases DEF SameLinks
<1>4. CASE q < MaxBlocks /\ q * UNITS < f.inode[i].size
  BY <1>2, <1>4, GrowCases DEF SameLinks
<1>5. CASE q < NUM_DIRECT /\ q * UNITS >= f.inode[i].size
  <2>1. g = [fs |-> [t EXCEPT !.inode = inodes], b |-> b]
    BY <1>5, GrowCases
  <2>2. t.inode = f.inode /\ DOMAIN t = DOMAIN f
    BY DEF Taken, FsType
  <2>3. inodes \in [Inodes -> InodeType] /\ \A x \in Inodes : inodes[x].nlink = f.inode[x].nlink
    <3> DEFINE old == f.inode
    <3>1. old \in [Inodes -> InodeType] /\ inodes = [old EXCEPT ![i].direct[q] = b]
      BY DEF FsType
    <3>2. b \in Blocks /\ q \in 0 .. NUM_DIRECT - 1
      BY <1>1, <1>5, NextTypes
    <3> HIDE DEF old, inodes, b
    <3>3. inodes = [old EXCEPT ![i] = [old[i] EXCEPT !.direct = [old[i].direct EXCEPT ![q] = b]]]
      BY <3>1
    <3> DEFINE new == [old[i] EXCEPT !.direct = [old[i].direct EXCEPT ![q] = b]]
    <3>4. new.nlink = old[i].nlink
      BY <3>1 DEF InodeType
    <3>5. new \in InodeType
      BY <3>1, <3>2 DEF InodeType
    <3> HIDE DEF new
    <3>6. inodes = [old EXCEPT ![i] = new]
      BY <3>3 DEF new
    <3>7. \A x \in Inodes : inodes[x] = IF x = i THEN new ELSE old[x]
      BY <3>1, <3>6
    <3>8. inodes \in [Inodes -> InodeType]
      BY <3>1, <3>5, <3>6
    <3>9. \A x \in Inodes : inodes[x].nlink = old[x].nlink
      BY <3>4, <3>7
    <3> QED BY <3>8, <3>9 DEF old
  <2> HIDE DEF inodes, t, b
  <2>4. "inode" \in DOMAIN f
    BY DEF FsType
  <2>5. g.fs.inode = inodes
    BY <2>1, <2>2, <2>4
  <2> QED BY <1>2, <2>3, <2>5 DEF SameLinks
<1>6. CASE q >= NUM_DIRECT /\ q < MaxBlocks /\ q * UNITS >= f.inode[i].size
  <2> DEFINE ind == [f.indirect EXCEPT ![q - NUM_DIRECT] = b]
  <2>1. g = [fs |-> [t EXCEPT !.indirect = ind], b |-> b]
    BY <1>6, GrowCases
  <2>2. t.inode = f.inode /\ DOMAIN t = DOMAIN f /\ "inode" \in DOMAIN f
    BY DEF Taken, FsType
  <2> HIDE DEF ind, t, b
  <2>3. g.fs.inode = t.inode
    <3>1. g.fs = [t EXCEPT !.indirect = ind]
      BY <2>1
    <3>2. t = [x \in DOMAIN t |-> t[x]]
      BY DEF t, Taken
    <3>3. g.fs["inode"] = t["inode"]
      BY <2>2, <3>1, <3>2
    <3> QED BY <3>3
  <2> QED BY <1>2, <2>2, <2>3 DEF SameLinks
<1> QED BY <1>1, <1>3, <1>4, <1>5, <1>6

LEMMA UnitLinks ==
  ASSUME NEW f \in FsType, NEW i \in Inodes, NEW b \in Blocks, NEW k \in Nat
  PROVE  SameLinks(f, Unit(f, i, b, k))
<1> DEFINE u == Unit(f, i, b, k)
<1>1. u.inode[i].nlink = f.inode[i].nlink /\ \A j \in Inodes : j # i => u.inode[j] = f.inode[j]
  BY UnitType
<1> QED BY <1>1 DEF SameLinks

LEMMA WriteLinks ==
  ASSUME NEW m \in FsType, NEW i \in Inodes, NEW pos \in Nat, NEW n \in Nat, NEW valid \in Nat,
         NEW r, r = WriteFile(m, i, pos, n, valid)
  PROVE  SameLinks(m, r.fs)
<1>1. PICK at \in [0 .. n -> ReplyType(n)] : WritesBy(m, i, pos, n, valid, at)
  BY WriteSteps
<1>2. r = at[n] /\ at[0] = [fs |-> m, ret |-> n]
  BY <1>1 DEF WritesBy
<1> DEFINE S == {l \in 0 .. n : SameLinks(m, at[l].fs)}
<1>3. 0 \in S
  BY <1>2 DEF SameLinks
<1>4. ASSUME NEW l \in 1 .. n, l - 1 \in S PROVE l \in S
  <2> DEFINE q == at[l - 1]
             p == at[l]
             k == pos + l - 1
             f == q.fs
             g == GrowBlock(f, i, k \div UNITS)
  <2>1. l - 1 \in 0 .. n /\ l \in 0 .. n /\ k \in Nat
    OBVIOUS
  <2>2. q \in ReplyType(n) /\ p = Put(i, pos, n, valid, q, k)
    BY <1>1, <2>1 DEF WritesBy
  <2>3. SameLinks(m, f) /\ f \in FsType
    BY <1>4, <2>2 DEF ReplyType
  <2>4. p = IF q.ret = ERROR THEN q
            ELSE IF g.b = 0 \/ ChunkEnd(k, pos + n) > pos + valid THEN [fs |-> g.fs, ret |-> ERROR]
            ELSE [fs |-> Unit(g.fs, i, g.b, k), ret |-> q.ret]
    BY <2>1, <2>2, PutCases, SMTT(30)
  <2>5. k \div UNITS \in Nat
    <3> HIDE DEF k
    <3> QED BY <2>1, UnitFacts, DivFacts
  <2>6. SameLinks(f, g.fs) /\ g.fs \in FsType /\ g.b \in Blocks
    BY <2>3, <2>5, GrowLinks
  <2>7. SameLinks(g.fs, Unit(g.fs, i, g.b, k))
    <3> HIDE DEF g, k
    <3> QED BY <2>1, <2>6, UnitLinks
  <2>8. p.fs \in {f, g.fs, Unit(g.fs, i, g.b, k)}
    BY <2>4
  <2> HIDE DEF p, q, f, g
  <2>9. SameLinks(m, p.fs)
    BY <2>3, <2>6, <2>7, <2>8 DEF SameLinks
  <2> QED BY <2>1, <2>9 DEF p
<1> HIDE DEF S
<1>5. n \in S
  BY <1>3, <1>4, StepByStep
<1> QED BY <1>2, <1>5 DEF S
=============================================================================
