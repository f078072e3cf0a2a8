--------------------------- MODULE YfsTreeProofs ---------------------------
(* Processes that keep their promises find a tree of directories.  The        *)
(* invariant of the whole file system, the steps that make and remove an      *)
(* entry, and what follows from it: each block has one owner, files hold what *)
(* was written, names lead to their files, and free inodes are free.          *)
EXTENDS YfsBlockProofs

(* A directory; one that was removed keeps its type but has no size.          *)
Dir(m, d) == IsDir(m, d) /\ m.inode[d].size > 0

IsFree(m, i) == \E k \in 1 .. Len(m.i_head) : m.i_head[k] = i

(* An inode that somebody may hold: it is in use, and no removed directory.   *)
Known(m, i) ==
  i \in Scanned /\ m.inode[i].type \in {INODE_DIRECTORY, INODE_REGULAR} /\ ~IsFree(m, i)
Legal(m, i) == Known(m, i) /\ (IsDir(m, i) => Dir(m, i))

(* The places of a directory after "." and "..".                              *)
Below(m, d) == 2 .. m.inode[d].size - 1

(* The first two entries have names of their own; no name is there twice,     *)
(* with an inode or without.                                                  *)
DirOf(m, d) ==
  Dir(m, d) =>
    /\ m.inode[d].size >= 2 /\ Whole(m, d)
    /\ CellAt(m, d, 0).inum = d
    /\ Dotted(CellAt(m, d, 0).name) /\ Dotted(CellAt(m, d, 1).name)
    /\ \A k \in Below(m, d) : CellAt(m, d, k).name \in Names
    /\ \A k, l \in Below(m, d) : CellAt(m, d, k).name = CellAt(m, d, l).name => k = l
DirInv(m) == \A d \in Inodes : DirOf(m, d)

Entry(m, d, k, j) == k \in Below(m, d) /\ CellAt(m, d, k).inum = j

(* An entry leads to an inode in use, and to a directory that knows it.       *)
ChildOf(m, d, j, k) ==
  /\ Legal(m, j) /\ j # ROOTINODE
  /\ IsDir(m, j) => /\ CellAt(m, j, 1).inum = d
                    /\ \A l \in Nat : Entry(m, d, l, j) => l = k
ChildrenInv(m) ==
  \A d, j \in Inodes, k \in Nat : Dir(m, d) /\ Entry(m, d, k, j) /\ j # 0 => ChildOf(m, d, j, k)

(* A directory has an entry in the one that its second entry leads to.        *)
ParentOf(m, c, p) == Dir(m, p) /\ \E k \in Nat : Entry(m, p, k, c)
ParentsInv(m) ==
  \A c \in Inodes : Dir(m, c) /\ c # ROOTINODE => ParentOf(m, c, CellAt(m, c, 1).inum)

RootInv(m) == Dir(m, ROOTINODE) /\ CellAt(m, ROOTINODE, 1).inum = ROOTINODE

TreeInv(m) == RootInv(m) /\ ChildrenInv(m) /\ ParentsInv(m)

(* Free inodes are free once and have no blocks; inode 0 is no directory.     *)
InodesInv(m) ==
  /\ IsInjective1(m.i_head)
  /\ \A i \in Inodes : IsFree(m, i) => i \in Scanned \ {ROOTINODE} /\ m.inode[i].size = 0
  /\ \A i \in Inodes : m.inode[i].size > 0 =>
       i \in Scanned /\ m.inode[i].type \in {INODE_DIRECTORY, INODE_REGULAR}
  /\ ~IsDir(m, 0)

Safe(m) == Sound(m) /\ DataInv(m) /\ DirInv(m)
Healthy(m) == Safe(m) /\ TreeInv(m) /\ InodesInv(m)

LEMMA RootScanned == ROOTINODE \in Scanned /\ Scanned \subseteq Inodes \ {0}
<1> DEFINE x == NUM_INODES + IPB - 1
           t == x \div IPB
<1>1. NUM_INODES \in Nat /\ NUM_INODES >= 1 /\ IPB \in Nat /\ IPB >= 2
  BY YfsAssumption
<1>2. x \in Nat /\ x >= IPB
  BY <1>1
<1>4. Scanned = 1 .. IPB * t - 1
  BY DEF Scanned
<1> HIDE DEF x
<1>3. t \in Nat /\ x < IPB * t + IPB
  BY <1>1, <1>2, DivFacts
<1> HIDE DEF t
<1>5. t # 0
  BY <1>1, <1>2, <1>3
<1>6. IPB * t >= IPB
  BY <1>1, <1>3, <1>5
<1>7. IPB * t \in Nat
  BY <1>1, <1>3
<1> QED
  BY <1>1, <1>4, <1>6, <1>7, ConstantFacts DEF ROOTINODE

(* What is unlike a directory that nothing happens to is somewhere else.      *)
LEMMA AlikeDir ==
  ASSUME NEW m \in FsType, NEW m2 \in FsType, NEW d \in Inodes, DirOf(m, d), Alike(m, m2, d)
  PROVE  /\ Dir(m2, d) <=> Dir(m, d)
         /\ IsDir(m2, d) <=> IsDir(m, d)
         /\ DirOf(m2, d)
         /\ Dir(m, d) => /\ m2.inode[d].size = m.inode[d].size
                         /\ \A k \in Nat : k < m.inode[d].size =>
                              CellAt(m2, d, k) = CellAt(m, d, k)
                         /\ \A k \in Nat, j \in Inodes : Entry(m2, d, k, j) <=> Entry(m, d, k, j)
<1>1. /\ m2.inode[d].type = m.inode[d].type /\ m2.inode[d].size = m.inode[d].size
      /\ \A k \in Nat : NthBlock(m, d, k \div UNITS) # 0 => CellAt(m2, d, k) = CellAt(m, d, k)
  BY DEF Alike
<1>2. (Dir(m2, d) <=> Dir(m, d)) /\ (IsDir(m2, d) <=> IsDir(m, d))
  BY <1>1 DEF Dir, IsDir
<1>3. m.inode[d].size \in Nat
  BY SizeNat
<1>4. ASSUME Dir(m, d)
      PROVE  \A k \in Nat : k < m.inode[d].size => CellAt(m2, d, k) = CellAt(m, d, k)
  BY <1>1, <1>4, WholePlaces DEF DirOf
<1>5. ASSUME Dir(m, d)
      PROVE  DirOf(m2, d) /\ \A k \in Nat, j \in Inodes : Entry(m2, d, k, j) <=> Entry(m, d, k, j)
  <2> DEFINE s == m.inode[d].size
  <2>1. s >= 2 /\ Below(m2, d) = 2 .. s - 1 /\ Below(m, d) = 2 .. s - 1
    BY <1>1, <1>5 DEF DirOf, Below
  <2>2. \A k \in 2 .. s - 1 : k \in Nat /\ k < s
    BY <1>3
  <2>3. CellAt(m2, d, 0) = CellAt(m, d, 0) /\ CellAt(m2, d, 1) = CellAt(m, d, 1)
    BY <1>3, <1>4, <1>5, <2>1
  <2>4. \A k \in 2 .. s - 1 : CellAt(m2, d, k) = CellAt(m, d, k)
    BY <1>4, <1>5, <2>2
  <2>5. Whole(m2, d)
    BY <1>5, AlikeKeeps DEF DirOf
  <2> HIDE DEF s
  <2>6. DirOf(m2, d)
    BY <1>1, <1>5, <2>1, <2>3, <2>4, <2>5 DEF DirOf, s
  <2> QED
    BY <2>1, <2>4, <2>6 DEF Entry
<1> QED
  BY <1>1, <1>2, <1>4, <1>5 DEF DirOf

LEMMA HealthyIs ==
  ASSUME NEW m, Healthy(m)
  PROVE  /\ m \in FsType /\ Sound(m) /\ DataInv(m) /\ DirInv(m)
         /\ RootInv(m) /\ ChildrenInv(m) /\ ParentsInv(m) /\ InodesInv(m)
BY DEF Healthy, Safe, Sound, TreeInv

(* What every directory is.                                                   *)
LEMMA DirFacts ==
  ASSUME NEW m, Healthy(m), NEW d \in Inodes, Dir(m, d)
  PROVE  /\ Legal(m, d) /\ d # 0 /\ Whole(m, d)
         /\ m.inode[d].size \in Nat /\ m.inode[d].size >= 2
         /\ CellAt(m, d, 0).inum = d
         /\ CellAt(m, d, 1).inum \in Inodes \ {0} /\ Dir(m, CellAt(m, d, 1).inum)
<1>1. m \in FsType /\ DirOf(m, d) /\ RootInv(m) /\ ParentsInv(m) /\ InodesInv(m)
  BY HealthyIs DEF DirInv
<1>2. ~IsFree(m, d) /\ d \in Scanned /\ Legal(m, d)
  <2>1. m.inode[d].size # 0 /\ m.inode[d].size > 0
    BY <1>1, SizeNat DEF Dir
  <2>2. ~IsFree(m, d)
    BY <1>1, <2>1 DEF InodesInv
  <2> QED
    BY <1>1, <2>1, <2>2 DEF InodesInv, Legal, Known
<1>3. \A i \in Inodes : Dir(m, i) => i # 0
  BY <1>1 DEF Dir, InodesInv
<1>4. CellAt(m, d, 1).inum \in Inodes
  BY <1>1, CellFacts DEF CellType
<1>5. Dir(m, CellAt(m, d, 1).inum)
  BY <1>1 DEF RootInv, ParentsInv, ParentOf
<1> QED
  BY <1>1, <1>2, <1>3, <1>4, <1>5, SizeNat DEF DirOf

-----------------------------------------------------------------------------
(* An entry that is made *)

(* The directory has an entry for j with that name at place k, where it had   *)
(* none.                                                                      *)
Entered(m, m2, d, k, j, name) ==
  LET s == m.inode[d].size
  IN  /\ m2.inode[d].type = m.inode[d].type
      /\ m2.inode[d].size = IF k < s THEN s ELSE s + 1
      /\ k <= s
      /\ k < s => CellAt(m, d, k).inum = 0
      /\ \/ k < s /\ CellAt(m, d, k).name = name
         \/ \A l \in 0 .. s - 1 : CellAt(m, d, l).name # name
      /\ CellAt(m2, d, k) = [inum |-> j, name |-> name]
      /\ \A l \in 0 .. s - 1 : l # k => CellAt(m2, d, l) = CellAt(m, d, l)
      /\ Whole(m2, d)

LEMMA EnteredDir ==
  ASSUME NEW m, Healthy(m), NEW m2 \in FsType, NEW d \in Inodes, Dir(m, d),
         NEW k \in Nat, NEW j \in Inodes, NEW name \in Names, Entered(m, m2, d, k, j, name)
  PROVE  /\ Dir(m2, d) /\ DirOf(m2, d)
         /\ Entry(m2, d, k, j) /\ CellAt(m2, d, 1) = CellAt(m, d, 1)
         /\ \A l \in Nat, i \in Inodes : l # k => (Entry(m2, d, l, i) <=> Entry(m, d, l, i))
         /\ \A i \in Inodes : Entry(m, d, k, i) => i = 0
<1> DEFINE s == m.inode[d].size
<1>1. /\ DirOf(m, d) /\ s \in Nat /\ s >= 2 /\ d # 0
      /\ CellAt(m, d, 0).inum = d /\ CellAt(m, d, 1).inum # 0
  BY HealthyIs, DirFacts DEF DirInv
<1>2. k # 0 /\ k # 1
  BY <1>1 DEF Entered
<1>3. k >= 2 /\ k <= s
  BY <1>1, <1>2 DEF Entered
<1>4. /\ \A l \in 0 .. s - 1 : l # k => CellAt(m2, d, l) = CellAt(m, d, l)
      /\ CellAt(m2, d, 0) = CellAt(m, d, 0) /\ CellAt(m2, d, 1) = CellAt(m, d, 1)
      /\ CellAt(m2, d, k).inum = j /\ CellAt(m2, d, k).name = name
  <2>1. 0 \in 0 .. s - 1 /\ 1 \in 0 .. s - 1
    BY <1>1
  <2>2. /\ \A l \in 0 .. s - 1 : l # k => CellAt(m2, d, l) = CellAt(m, d, l)
        /\ CellAt(m2, d, k) = [inum |-> j, name |-> name]
    BY DEF Entered
  <2> QED
    BY <1>2, <2>1, <2>2
<1>5. /\ m2.inode[d].size = (IF k < s THEN s ELSE s + 1) /\ Whole(m2, d)
      /\ m2.inode[d].type = m.inode[d].type
      /\ k < s => CellAt(m, d, k).inum = 0
      /\ \/ k < s /\ CellAt(m, d, k).name = name
         \/ \A l \in 0 .. s - 1 : CellAt(m, d, l).name # name
  BY DEF Entered
<1>6. /\ \A l \in 2 .. s - 1 : CellAt(m, d, l).name \in Names
      /\ \A l, n \in 2 .. s - 1 : CellAt(m, d, l).name = CellAt(m, d, n).name => l = n
      /\ Dotted(CellAt(m, d, 0).name) /\ Dotted(CellAt(m, d, 1).name)
  BY <1>1 DEF DirOf, Below
<1> DEFINE t == m2.inode[d].size
<1>7. /\ t \in Nat /\ t >= s /\ t >= 2
      /\ \A l \in 2 .. t - 1 : l = k \/ l \in 2 .. s - 1
      /\ k \in 2 .. t - 1 /\ 2 .. s - 1 \subseteq 2 .. t - 1
      /\ k \in 2 .. s - 1 => k < s
      /\ 2 .. s - 1 \subseteq 0 .. s - 1 /\ k \in Nat
  <2> HIDE DEF s
  <2> QED
    BY <1>1, <1>3, <1>5
<1>8. Below(m, d) = 2 .. s - 1 /\ Below(m2, d) = 2 .. t - 1
  BY DEF Below
<1>9. Dir(m2, d)
  <2>1. t > 0
    BY <1>7
  <2> QED
    BY <2>1, <1>5 DEF Dir, IsDir
<1> HIDE DEF s, t
<1>10. \A l \in 2 .. t - 1 : CellAt(m2, d, l).name \in Names
  BY <1>4, <1>6, <1>7
<1>11. \A l \in 2 .. s - 1 : l # k => CellAt(m, d, l).name # name
  <2> SUFFICES ASSUME NEW l \in 2 .. s - 1, l # k, CellAt(m, d, l).name = name PROVE FALSE
    OBVIOUS
  <2>1. l \in 0 .. s - 1
    BY <1>7
  <2>2. k < s /\ CellAt(m, d, k).name = name
    BY <1>5, <2>1
  <2>3. k \in 2 .. s - 1
    BY <1>1, <1>3, <2>2
  <2> QED
    BY <1>6, <2>2, <2>3
<1>12. \A l, n \in 2 .. t - 1 : CellAt(m2, d, l).name = CellAt(m2, d, n).name => l = n
  <2> SUFFICES ASSUME NEW l \in 2 .. t - 1, NEW n \in 2 .. t - 1,
                      CellAt(m2, d, l).name = CellAt(m2, d, n).name
               PROVE  l = n
    OBVIOUS
  <2>1. \A x \in 2 .. s - 1 : x # k => CellAt(m2, d, x) = CellAt(m, d, x)
    BY <1>4, <1>7
  <2>2. CASE l = k \/ n = k
    BY <1>4, <1>7, <1>11, <2>1, <2>2
  <2>3. CASE l # k /\ n # k
    BY <1>6, <1>7, <2>1, <2>3
  <2> QED
    BY <2>2, <2>3
<1>13. DirOf(m2, d)
  BY <1>1, <1>4, <1>5, <1>6, <1>7, <1>8, <1>10, <1>12 DEF DirOf, t
<1>14. \A l \in Nat, i \in Inodes : l # k => (Entry(m2, d, l, i) <=> Entry(m, d, l, i))
  BY <1>4, <1>7, <1>8 DEF Entry
<1>15. \A i \in Inodes : Entry(m, d, k, i) => i = 0
  BY <1>5, <1>7, <1>8 DEF Entry
<1> QED
  BY <1>4, <1>7, <1>8, <1>9, <1>13, <1>14, <1>15 DEF Entry

(* A new file, a new directory or a file with other names gets an entry.      *)
LEMMA EntryMade ==
  ASSUME NEW m, Healthy(m), NEW m2 \in FsType, NEW d \in Inodes, Dir(m, d),
         NEW k \in Nat, NEW j \in Inodes, NEW name \in Names, Entered(m, m2, d, k, j, name),
         j # ROOTINODE, ~Dir(m, j), Known(m2, j),
         IsDir(m2, j) => NewEntries(m2, j, d) /\ IsFree(m, j),
         \A i \in Inodes : i # d /\ i # j => Alike(m, m2, i),
         \A i \in Inodes : Known(m, i) => Known(m2, i)
  PROVE  /\ DirInv(m2) /\ TreeInv(m2)
         /\ \A i \in Inodes : Legal(m, i) => Legal(m2, i)
         /\ Legal(m2, j)
<1>1. /\ m \in FsType /\ \A i \in Inodes : DirOf(m, i)
      /\ RootInv(m) /\ ChildrenInv(m) /\ ParentsInv(m) /\ InodesInv(m)
  BY HealthyIs DEF DirInv
<1>2. /\ Dir(m2, d) /\ DirOf(m2, d)
      /\ Entry(m2, d, k, j) /\ CellAt(m2, d, 1) = CellAt(m, d, 1)
      /\ \A l \in Nat, i \in Inodes : l # k => (Entry(m2, d, l, i) <=> Entry(m, d, l, i))
      /\ \A i \in Inodes : Entry(m, d, k, i) => i = 0
  BY EnteredDir
<1>3. /\ \A i \in Inodes : i # j => (Dir(m2, i) <=> Dir(m, i))
      /\ \A i \in Inodes : i # j => (IsDir(m2, i) <=> IsDir(m, i))
      /\ \A i \in Inodes : i # j => DirOf(m2, i)
  BY <1>1, <1>2, AlikeDir DEF Dir
<1>4. \A i \in Inodes : i # j /\ Dir(m, i) =>
        /\ CellAt(m2, i, 1) = CellAt(m, i, 1)
        /\ \A l \in Nat, x \in Inodes : l # k \/ i # d => (Entry(m2, i, l, x) <=> Entry(m, i, l, x))
  <2> SUFFICES ASSUME NEW i \in Inodes, i # j, Dir(m, i)
               PROVE  /\ CellAt(m2, i, 1) = CellAt(m, i, 1)
                      /\ \A l \in Nat, x \in Inodes :
                           l # k \/ i # d => (Entry(m2, i, l, x) <=> Entry(m, i, l, x))
    OBVIOUS
  <2>1. CASE i = d
    BY <1>2, <2>1
  <2>2. CASE i # d
    <3>1. Alike(m, m2, i) /\ m.inode[i].size \in Nat /\ m.inode[i].size >= 2 /\ DirOf(m, i)
      BY <1>1, <2>2, DirFacts
    <3>2. /\ \A l \in Nat : l < m.inode[i].size => CellAt(m2, i, l) = CellAt(m, i, l)
          /\ \A l \in Nat, x \in Inodes : Entry(m2, i, l, x) <=> Entry(m, i, l, x)
      BY <1>1, <3>1, AlikeDir
    <3>3. 1 \in Nat /\ 1 < m.inode[i].size
      BY <3>1
    <3> QED
      BY <3>2, <3>3
  <2> QED
    BY <2>1, <2>2
<1>5. ASSUME IsDir(m2, j)
      PROVE  /\ Dir(m2, j) /\ DirOf(m2, j) /\ CellAt(m2, j, 1).inum = d
             /\ \A l \in Nat, x \in Inodes : ~Entry(m2, j, l, x)
  <2>1. NewEntries(m2, j, d)
    BY <1>5
  <2>2. Below(m2, j) = {} /\ m2.inode[j].size > 0
    <3>1. m2.inode[j].size = 2 /\ 2 .. 2 - 1 = {}
      BY <2>1 DEF NewEntries
    <3> QED
      BY <3>1 DEF Below
  <2> QED
    BY <1>5, <2>1, <2>2 DEF NewEntries, Dir, DirOf, Entry
<1>6. DirInv(m2)
  BY <1>3, <1>5 DEF DirInv, DirOf, Dir
<1>7. Legal(m2, j)
  BY <1>5 DEF Legal
<1>8. \A i \in Inodes : Legal(m, i) => Legal(m2, i)
  BY <1>3, <1>7 DEF Legal
<1>9. RootInv(m2)
  BY <1>1, <1>3, <1>4, ConstantFacts DEF RootInv
<1>10. ChildrenInv(m2)
  <2> SUFFICES ASSUME NEW x \in Inodes, NEW y \in Inodes, NEW l \in Nat,
                      Dir(m2, x), Entry(m2, x, l, y), y # 0
               PROVE  ChildOf(m2, x, y, l)
    BY DEF ChildrenInv
  <2>1. x # j /\ Dir(m, x)
    BY <1>3, <1>5 DEF Dir
  <2>2. CASE y = j
    <3>1. CASE ~IsDir(m2, j)
      BY <1>7, <2>2, <3>1 DEF ChildOf
    <3>2. CASE IsDir(m2, j)
      <4>1. \A z \in Inodes, n \in Nat : Dir(m, z) => ~Entry(m, z, n, j)
        <5> SUFFICES ASSUME NEW z \in Inodes, NEW n \in Nat, Dir(m, z), Entry(m, z, n, j)
                     PROVE  FALSE
          OBVIOUS
        <5>1. ChildOf(m, z, j, n)
          BY <1>1, <2>2 DEF ChildrenInv
        <5> QED
          BY <3>2, <5>1 DEF ChildOf, Legal, Known
      <4>2. x = d /\ l = k
        BY <1>4, <2>1, <2>2, <4>1
      <4>3. \A n \in Nat : Entry(m2, x, n, j) => n = k
        BY <1>4, <2>1, <4>1, <4>2
      <4> QED
        BY <1>5, <1>7, <2>2, <3>2, <4>2, <4>3 DEF ChildOf
    <3> QED
      BY <3>1, <3>2
  <2>3. CASE y # j
    <3>1. Entry(m, x, l, y)
      <4>1. l # k \/ x # d
        BY <1>2, <2>3 DEF Entry
      <4> QED
        BY <1>4, <2>1, <4>1
    <3>2. ChildOf(m, x, y, l)
      BY <1>1, <2>1, <3>1 DEF ChildrenInv
    <3>3. Legal(m2, y) /\ y # ROOTINODE
      BY <1>8, <3>2 DEF ChildOf
    <3>4. ASSUME IsDir(m2, y)
          PROVE  CellAt(m2, y, 1).inum = x /\ \A n \in Nat : Entry(m2, x, n, y) => n = l
      <4>1. IsDir(m, y) /\ Dir(m, y)
        BY <1>3, <2>3, <3>2, <3>4 DEF ChildOf, Legal
      <4>2. CellAt(m2, y, 1) = CellAt(m, y, 1)
        BY <1>4, <2>3, <4>1
      <4>3. \A n \in Nat : Entry(m2, x, n, y) => Entry(m, x, n, y)
        <5> SUFFICES ASSUME NEW n \in Nat, Entry(m2, x, n, y) PROVE Entry(m, x, n, y)
          OBVIOUS
        <5>1. n # k \/ x # d
          BY <1>2, <2>3 DEF Entry
        <5> QED
          BY <1>4, <2>1, <5>1
      <4> QED
        BY <3>2, <4>1, <4>2, <4>3 DEF ChildOf
    <3> QED
      BY <3>3, <3>4 DEF ChildOf
  <2> QED
    BY <2>2, <2>3
<1>11. ParentsInv(m2)
  <2> SUFFICES ASSUME NEW c \in Inodes, Dir(m2, c), c # ROOTINODE
               PROVE  ParentOf(m2, c, CellAt(m2, c, 1).inum)
    BY DEF ParentsInv
  <2>1. CASE c = j
    BY <1>2, <1>5, <2>1 DEF ParentOf, Dir
  <2>2. CASE c # j
    <3> DEFINE p == CellAt(m, c, 1).inum
    <3>1. Dir(m, c) /\ c # 0 /\ CellAt(m2, c, 1).inum = p /\ p \in Inodes
      BY <1>3, <1>4, <2>2, DirFacts
    <3>2. ParentOf(m, c, p)
      BY <1>1, <3>1 DEF ParentsInv
    <3> HIDE DEF p
    <3>3. PICK l \in Nat : Dir(m, p) /\ Entry(m, p, l, c)
      BY <3>2 DEF ParentOf
    <3>4. p # j
      BY <3>3
    <3>5. l # k \/ p # d
      BY <1>2, <3>1, <3>3
    <3>6. Entry(m2, p, l, c) /\ Dir(m2, p)
      BY <1>3, <1>4, <3>1, <3>3, <3>4, <3>5
    <3> QED
      BY <3>1, <3>6 DEF ParentOf
  <2> QED
    BY <2>1, <2>2
<1> QED
  BY <1>6, <1>7, <1>8, <1>9, <1>10, <1>11 DEF TreeInv

-----------------------------------------------------------------------------
(* An entry that is removed *)

Left(m, m2, d, k) ==
  LET s == m.inode[d].size
  IN  /\ m2.inode[d].type = m.inode[d].type /\ m2.inode[d].size = s
      /\ CellAt(m2, d, k).inum = 0 /\ CellAt(m2, d, k).name = CellAt(m, d, k).name
      /\ \A l \in 0 .. s - 1 : l # k => CellAt(m2, d, l) = CellAt(m, d, l)
      /\ Whole(m2, d)

LEMMA LeftDir ==
  ASSUME NEW m, Healthy(m), NEW m2 \in FsType, NEW d \in Inodes, Dir(m, d),
         NEW k \in Nat, k \in Below(m, d), Left(m, m2, d, k)
  PROVE  /\ Dir(m2, d) /\ DirOf(m2, d) /\ CellAt(m2, d, 1) = CellAt(m, d, 1)
         /\ \A l \in Nat, i \in Inodes : l # k => (Entry(m2, d, l, i) <=> Entry(m, d, l, i))
         /\ \A i \in Inodes : Entry(m2, d, k, i) => i = 0
<1> DEFINE s == m.inode[d].size
<1>1. DirOf(m, d) /\ s \in Nat /\ s >= 2 /\ CellAt(m, d, 0).inum = d
  BY HealthyIs, DirFacts DEF DirInv
<1>2. /\ m2.inode[d].type = m.inode[d].type /\ m2.inode[d].size = s
      /\ CellAt(m2, d, k).inum = 0 /\ CellAt(m2, d, k).name = CellAt(m, d, k).name
      /\ \A l \in 0 .. s - 1 : l # k => CellAt(m2, d, l) = CellAt(m, d, l)
      /\ Whole(m2, d)
  BY DEF Left
<1>3. Below(m, d) = 2 .. s - 1 /\ Below(m2, d) = 2 .. s - 1
  BY <1>2 DEF Below
<1>4. Dir(m2, d)
  BY <1>2 DEF Dir, IsDir
<1>5. /\ \A l \in 2 .. s - 1 : CellAt(m, d, l).name \in Names
      /\ \A l, n \in 2 .. s - 1 : CellAt(m, d, l).name = CellAt(m, d, n).name => l = n
      /\ Dotted(CellAt(m, d, 0).name) /\ Dotted(CellAt(m, d, 1).name)
  BY <1>1 DEF DirOf, Below
<1> HIDE DEF s
<1>6. /\ k \in 2 .. s - 1 /\ 2 .. s - 1 \subseteq 0 .. s - 1
      /\ 0 \in 0 .. s - 1 /\ 1 \in 0 .. s - 1 /\ k # 0 /\ k # 1
  BY <1>1, <1>3
<1>7. /\ \A l \in 2 .. s - 1 : CellAt(m2, d, l).name = CellAt(m, d, l).name
      /\ CellAt(m2, d, 0) = CellAt(m, d, 0) /\ CellAt(m2, d, 1) = CellAt(m, d, 1)
  BY <1>2, <1>6
<1>8. DirOf(m2, d)
  BY <1>1, <1>2, <1>3, <1>5, <1>7 DEF DirOf
<1>9. \A l \in Nat, i \in Inodes : l # k => (Entry(m2, d, l, i) <=> Entry(m, d, l, i))
  BY <1>2, <1>3, <1>6 DEF Entry
<1>10. \A i \in Inodes : Entry(m2, d, k, i) => i = 0
  BY <1>2 DEF Entry
<1> QED
  BY <1>4, <1>7, <1>8, <1>9, <1>10

(* A file loses a name, or a directory with nothing in it goes away.          *)
LEMMA EntryUnmade ==
  ASSUME NEW m, Healthy(m), NEW m2 \in FsType, NEW d \in Inodes, Dir(m, d),
         NEW k \in Nat, NEW i \in Inodes \ {0}, Entry(m, d, k, i), Left(m, m2, d, k),
         \A x \in Inodes : x # d /\ x # i => Alike(m, m2, x),
         IsDir(m2, i) <=> IsDir(m, i),
         IsDir(m, i) => m.inode[i].size <= 2 /\ m2.inode[i].size = 0,
         ~IsDir(m, i) => Known(m2, i),
         \A x \in Inodes : x # i /\ Known(m, x) => Known(m2, x)
  PROVE  /\ DirInv(m2) /\ TreeInv(m2)
         /\ \A x \in Inodes : Legal(m, x) /\ (x # i \/ ~IsDir(m, i)) => Legal(m2, x)
<1>1. /\ m \in FsType /\ \A x \in Inodes : DirOf(m, x)
      /\ RootInv(m) /\ ChildrenInv(m) /\ ParentsInv(m) /\ InodesInv(m)
  BY HealthyIs DEF DirInv
<1>2. k \in Below(m, d)
  BY DEF Entry
<1>3. /\ Dir(m2, d) /\ DirOf(m2, d) /\ CellAt(m2, d, 1) = CellAt(m, d, 1)
      /\ \A l \in Nat, x \in Inodes : l # k => (Entry(m2, d, l, x) <=> Entry(m, d, l, x))
      /\ \A x \in Inodes : Entry(m2, d, k, x) => x = 0
  BY <1>2, LeftDir
<1>4. \A x \in Inodes, l \in Nat, y \in Inodes : Entry(m, x, l, y) => m.inode[x].size > 2
  BY <1>1, SizeNat DEF Entry, Below
<1>5. i # d /\ ChildOf(m, d, i, k)
  <2>1. m.inode[d].size > 2 /\ m.inode[d].size \in Nat
    BY <1>1, <1>4, SizeNat
  <2>2. i # d
    BY <2>1 DEF Dir
  <2> QED
    BY <1>1, <2>2 DEF ChildrenInv
<1>6. ~Dir(m2, i) /\ DirOf(m2, i)
  BY DEF Dir, DirOf
<1>7. /\ \A x \in Inodes : x # i => (Dir(m2, x) <=> Dir(m, x))
      /\ \A x \in Inodes : IsDir(m2, x) <=> IsDir(m, x)
      /\ \A x \in Inodes : x # i => DirOf(m2, x)
  BY <1>1, <1>3, AlikeDir DEF Dir
<1>8. \A x \in Inodes : x # i /\ Dir(m, x) =>
        /\ CellAt(m2, x, 1) = CellAt(m, x, 1)
        /\ \A l \in Nat, y \in Inodes : l # k \/ x # d => (Entry(m2, x, l, y) <=> Entry(m, x, l, y))
  <2> SUFFICES ASSUME NEW x \in Inodes, x # i, Dir(m, x)
               PROVE  /\ CellAt(m2, x, 1) = CellAt(m, x, 1)
                      /\ \A l \in Nat, y \in Inodes :
                           l # k \/ x # d => (Entry(m2, x, l, y) <=> Entry(m, x, l, y))
    OBVIOUS
  <2>1. CASE x = d
    BY <1>3, <2>1
  <2>2. CASE x # d
    <3>1. Alike(m, m2, x) /\ m.inode[x].size \in Nat /\ m.inode[x].size >= 2 /\ DirOf(m, x)
      BY <1>1, <2>2, DirFacts
    <3>2. /\ \A l \in Nat : l < m.inode[x].size => CellAt(m2, x, l) = CellAt(m, x, l)
          /\ \A l \in Nat, y \in Inodes : Entry(m2, x, l, y) <=> Entry(m, x, l, y)
      BY <1>1, <3>1, AlikeDir
    <3>3. 1 \in Nat /\ 1 < m.inode[x].size
      BY <3>1
    <3> QED
      BY <3>2, <3>3
  <2> QED
    BY <2>1, <2>2
<1>9. DirInv(m2)
  BY <1>6, <1>7 DEF DirInv
<1>10. \A x \in Inodes : Legal(m, x) /\ (x # i \/ ~IsDir(m, i)) => Legal(m2, x)
  BY <1>7 DEF Legal
<1>11. RootInv(m2)
  BY <1>1, <1>5, <1>7, <1>8, ConstantFacts DEF RootInv, ChildOf
<1>12. ChildrenInv(m2)
  <2> SUFFICES ASSUME NEW x \in Inodes, NEW y \in Inodes, NEW l \in Nat,
                      Dir(m2, x), Entry(m2, x, l, y), y # 0
               PROVE  ChildOf(m2, x, y, l)
    BY DEF ChildrenInv
  <2>1. x # i /\ Dir(m, x)
    BY <1>6, <1>7
  <2>2. l # k \/ x # d
    BY <1>3
  <2>3. Entry(m, x, l, y) /\ ChildOf(m, x, y, l)
    BY <1>1, <1>8, <2>1, <2>2 DEF ChildrenInv
  <2>4. y # i \/ ~IsDir(m, i)
    <3> SUFFICES ASSUME y = i, IsDir(m, i) PROVE FALSE
      OBVIOUS
    <3>1. CellAt(m, i, 1).inum = x /\ CellAt(m, i, 1).inum = d
      BY <1>5, <2>3 DEF ChildOf
    <3>2. l = k
      BY <1>5, <2>3, <3>1 DEF ChildOf
    <3> QED
      BY <2>2, <3>1, <3>2
  <2>5. Legal(m2, y) /\ y # ROOTINODE
    BY <1>10, <2>3, <2>4 DEF ChildOf
  <2>6. ASSUME IsDir(m2, y)
        PROVE  CellAt(m2, y, 1).inum = x /\ \A n \in Nat : Entry(m2, x, n, y) => n = l
    <3>1. y # i /\ Dir(m, y)
      BY <1>7, <2>3, <2>4, <2>6 DEF ChildOf, Legal
    <3>2. CellAt(m2, y, 1) = CellAt(m, y, 1)
      BY <1>8, <3>1
    <3>3. \A n \in Nat : Entry(m2, x, n, y) => Entry(m, x, n, y)
      <4> SUFFICES ASSUME NEW n \in Nat, Entry(m2, x, n, y) PROVE Entry(m, x, n, y)
        OBVIOUS
      <4>1. n # k \/ x # d
        BY <1>3
      <4> QED
        BY <1>8, <2>1, <4>1
    <3> QED
      BY <2>3, <3>1, <3>2, <3>3 DEF ChildOf, Dir
  <2> QED
    BY <2>5, <2>6 DEF ChildOf
<1>13. ParentsInv(m2)
  <2> SUFFICES ASSUME NEW c \in Inodes, Dir(m2, c), c # ROOTINODE
               PROVE  ParentOf(m2, c, CellAt(m2, c, 1).inum)
    BY DEF ParentsInv
  <2> DEFINE p == CellAt(m, c, 1).inum
  <2>1. c # i /\ Dir(m, c)
    BY <1>6, <1>7
  <2>2. c # 0 /\ CellAt(m2, c, 1).inum = p /\ p \in Inodes
    BY <1>8, <2>1, DirFacts
  <2>3. ParentOf(m, c, p)
    BY <1>1, <2>1 DEF ParentsInv
  <2> HIDE DEF p
  <2>4. PICK l \in Nat : Dir(m, p) /\ Entry(m, p, l, c)
    BY <2>3 DEF ParentOf
  <2>5. p # i
    <3>1. m.inode[p].size > 2 /\ m.inode[p].size \in Nat
      BY <1>1, <1>4, <2>2, <2>4, SizeNat
    <3> QED
      BY <2>4, <3>1 DEF Dir
  <2>6. l # k \/ p # d
    BY <2>1, <2>4 DEF Entry
  <2>7. Entry(m2, p, l, c) /\ Dir(m2, p)
    BY <1>7, <1>8, <2>2, <2>4, <2>5, <2>6
  <2> QED
    BY <2>2, <2>7 DEF ParentOf
<1> QED
  BY <1>9, <1>10, <1>11, <1>12, <1>13 DEF TreeInv

-----------------------------------------------------------------------------
(* A step that no directory shows *)

LEMMA DirsUntouched ==
  ASSUME NEW m, Healthy(m), NEW m2 \in FsType,
         \A x \in Inodes : IsDir(m, x) => Alike(m, m2, x),
         \A x \in Inodes : IsDir(m2, x) => IsDir(m, x),
         \A x \in Inodes : Known(m, x) => Known(m2, x)
  PROVE  /\ DirInv(m2) /\ TreeInv(m2)
         /\ \A x \in Inodes : Legal(m, x) => Legal(m2, x)
<1>1. /\ m \in FsType /\ \A x \in Inodes : DirOf(m, x)
      /\ RootInv(m) /\ ChildrenInv(m) /\ ParentsInv(m) /\ InodesInv(m)
  BY HealthyIs DEF DirInv
<1>2. \A x \in Inodes : /\ IsDir(m2, x) <=> IsDir(m, x)
                        /\ Dir(m2, x) <=> Dir(m, x)
                        /\ DirOf(m2, x)
  <2> SUFFICES ASSUME NEW x \in Inodes
               PROVE  /\ IsDir(m2, x) <=> IsDir(m, x)
                      /\ Dir(m2, x) <=> Dir(m, x)
                      /\ DirOf(m2, x)
    OBVIOUS
  <2>1. CASE IsDir(m, x)
    BY <1>1, <2>1, AlikeDir
  <2>2. CASE ~IsDir(m, x)
    BY <2>2 DEF Dir, DirOf
  <2> QED
    BY <2>1, <2>2
<1>3. \A x \in Inodes : Dir(m, x) =>
        /\ CellAt(m2, x, 1) = CellAt(m, x, 1)
        /\ \A l \in Nat, y \in Inodes : Entry(m2, x, l, y) <=> Entry(m, x, l, y)
  <2> SUFFICES ASSUME NEW x \in Inodes, Dir(m, x)
               PROVE  /\ CellAt(m2, x, 1) = CellAt(m, x, 1)
                      /\ \A l \in Nat, y \in Inodes : Entry(m2, x, l, y) <=> Entry(m, x, l, y)
    OBVIOUS
  <2>1. Alike(m, m2, x) /\ m.inode[x].size \in Nat /\ m.inode[x].size >= 2 /\ DirOf(m, x)
    BY <1>1, DirFacts DEF Dir
  <2>2. /\ \A l \in Nat : l < m.inode[x].size => CellAt(m2, x, l) = CellAt(m, x, l)
        /\ \A l \in Nat, y \in Inodes : Entry(m2, x, l, y) <=> Entry(m, x, l, y)
    BY <1>1, <2>1, AlikeDir
  <2>3. 1 \in Nat /\ 1 < m.inode[x].size
    BY <2>1
  <2> QED
    BY <2>2, <2>3
<1>4. \A x \in Inodes : Legal(m, x) => Legal(m2, x)
  BY <1>2 DEF Legal
<1>5. RootInv(m2)
  BY <1>1, <1>2, <1>3, ConstantFacts DEF RootInv
<1>6. ChildrenInv(m2)
  <2> SUFFICES ASSUME NEW x \in Inodes, NEW y \in Inodes, NEW l \in Nat,
                      Dir(m2, x), Entry(m2, x, l, y), y # 0
               PROVE  ChildOf(m2, x, y, l)
    BY DEF ChildrenInv
  <2>1. Dir(m, x) /\ Entry(m, x, l, y) /\ ChildOf(m, x, y, l)
    BY <1>1, <1>2, <1>3 DEF ChildrenInv
  <2>2. IsDir(m2, y) => Dir(m, y) /\ CellAt(m2, y, 1) = CellAt(m, y, 1)
    BY <1>2, <1>3, <2>1 DEF ChildOf, Legal
  <2> QED
    BY <1>2, <1>3, <1>4, <2>1, <2>2 DEF ChildOf
<1>7. ParentsInv(m2)
  <2> SUFFICES ASSUME NEW c \in Inodes, Dir(m2, c), c # ROOTINODE
               PROVE  ParentOf(m2, c, CellAt(m2, c, 1).inum)
    BY DEF ParentsInv
  <2> DEFINE p == CellAt(m, c, 1).inum
  <2>1. Dir(m, c) /\ CellAt(m2, c, 1).inum = p /\ p \in Inodes
    BY <1>2, <1>3, DirFacts
  <2>2. ParentOf(m, c, p)
    BY <1>1, <2>1 DEF ParentsInv
  <2> HIDE DEF p
  <2> QED
    BY <1>2, <1>3, <2>1, <2>2 DEF ParentOf
<1> QED
  BY <1>2, <1>4, <1>5, <1>6, <1>7 DEF TreeInv, DirInv

-----------------------------------------------------------------------------
(* Where paths lead *)

Reached(m, i) == i \in {0, ERROR} \/ (i \in Inodes /\ Legal(m, i))

(* A name that is found is in one of the first two entries, or leads to what  *)
(* an entry leads to.                                                         *)
LEMMA InumCases ==
  ASSUME NEW m, Healthy(m), NEW d \in Inodes, Dir(m, d), NEW name, Found(m, d, name),
         NEW k, k = Min(Matching(m, d, name))
  PROVE  /\ k \in Nat /\ k < m.inode[d].size /\ CellAt(m, d, k).name = name
         /\ CellAt(m, d, k).inum = Inum(m, d, name) /\ Inum(m, d, name) \in Inodes
         /\ Reached(m, Inum(m, d, name))
         /\ name \in Names => Entry(m, d, k, Inum(m, d, name))
<1> DEFINE i == Inum(m, d, name)
           s == m.inode[d].size
<1>1. m \in FsType /\ ChildrenInv(m) /\ DirOf(m, d)
  BY HealthyIs DEF DirInv
<1>2. /\ k \in Places(m, d) /\ k \in Nat /\ CellAt(m, d, k).name = name
      /\ CellAt(m, d, k).inum = i /\ i \in Inodes
  BY <1>1, FoundFacts
<1>3. k < s /\ s \in Nat /\ s >= 2
  BY <1>1, <1>2, PlacesFacts, DirFacts
<1>4. k = 0 \/ k = 1 \/ k \in Below(m, d)
  <2> HIDE DEF s
  <2>1. k = 0 \/ k = 1 \/ k \in 2 .. s - 1
    BY <1>2, <1>3
  <2> QED
    BY <2>1 DEF Below, s
<1>5. name \in Names => k \in Below(m, d)
  BY <1>1, <1>2, <1>4 DEF DirOf, Dotted
<1> HIDE DEF i, s
<1>6. Reached(m, i)
  <2>1. CASE k = 0
    BY <1>2, <2>1, DirFacts DEF Reached
  <2>2. CASE k = 1
    <3>1. i \in Inodes /\ Dir(m, i)
      BY <1>2, <2>2, DirFacts
    <3> QED
      BY <3>1, DirFacts DEF Reached
  <2>3. CASE k \in Below(m, d)
    <3>1. Entry(m, d, k, i)
      BY <1>2, <2>3 DEF Entry
    <3>2. i = 0 \/ ChildOf(m, d, i, k)
      BY <1>1, <1>2, <3>1 DEF ChildrenInv
    <3> QED
      BY <1>2, <3>2 DEF Reached, ChildOf
  <2> QED
    BY <1>4, <2>1, <2>2, <2>3
<1> QED
  BY <1>2, <1>3, <1>5, <1>6 DEF i, s, Entry

LEMMA WalkReaches ==
  ASSUME NEW m, Healthy(m), NEW i, Reached(m, i), NEW name
  PROVE  Reached(m, Walk(m, i, name))
<1>1. CASE i = ERROR \/ ~IsDir(m, i)
  BY <1>1 DEF Walk, Reached
<1>2. CASE i # ERROR /\ IsDir(m, i)
  <2>1. i # 0
    BY <1>2, HealthyIs DEF InodesInv
  <2>2. i \in Inodes /\ Dir(m, i)
    BY <1>2, <2>1 DEF Reached, Legal
  <2>3. CASE Found(m, i, name)
    BY <1>2, <2>2, <2>3, InumCases DEF Walk
  <2>4. CASE ~Found(m, i, name)
    BY <1>2, <2>4 DEF Walk, Reached
  <2> QED
    BY <2>3, <2>4
<1> QED
  BY <1>1, <1>2

(* What holds at the start and is kept by each step holds all along.          *)
LEMMA StepsMeet ==
  ASSUME NEW S, NEW n \in Nat, 0 \in S, \A k \in 1 .. n : k - 1 \in S => k \in S
  PROVE  \A k \in 0 .. n : k \in S
<1> DEFINE at == [k \in 0 .. n |-> k]
<1>1. at[0] \in S /\ \A k \in 0 .. n : at[k] = k
  OBVIOUS
<1>2. \A k \in 1 .. n : k - 1 \in 0 .. n /\ k \in 0 .. n
  OBVIOUS
<1> HIDE DEF at
<1>3. \A k \in 1 .. n : at[k - 1] \in S => at[k] \in S
  BY <1>1, <1>2
<1>4. \A k \in 0 .. n : at[k] \in S
  BY <1>1, <1>3, StepsStay
<1> QED
  BY <1>1, <1>4

(* The last part of a path is looked for where the others lead.               *)
LEMMA PathLast ==
  ASSUME NEW m \in FsType, NEW parts \in Seq(PathNames), Len(parts) # 0, NEW start \in Inodes
  PROVE  \E at \in [0 .. Len(parts) -> Inodes \cup {ERROR}] :
           /\ at[0] = start
           /\ \A k \in 1 .. Len(parts) : at[k] = Walk(m, at[k - 1], parts[k])
           /\ PathInode(m, parts, start) = Ends(at[Len(parts)])
           /\ PathInode(m, Front(parts), start) = Ends(at[Len(parts) - 1])
<1> DEFINE n == Len(parts)
           front == Front(parts)
<1>1. /\ n \in Nat /\ n >= 1 /\ front \in Seq(PathNames) /\ Len(front) = n - 1
      /\ \A k \in 1 .. n - 1 : front[k] = parts[k]
  <2>1. n \in Nat /\ n >= 1
    OBVIOUS
  <2>2. front = [k \in 1 .. n - 1 |-> parts[k]]
    BY DEF Front
  <2>3. \A k \in 1 .. n - 1 : parts[k] \in PathNames
    BY <2>1
  <2> HIDE DEF n, front
  <2>4. front \in Seq(PathNames) /\ Len(front) = n - 1 /\ \A k \in 1 .. n - 1 : front[k] = parts[k]
    BY <2>1, <2>2, <2>3
  <2> QED
    BY <2>1, <2>4
<1> HIDE DEF n, front
<1>2. PICK at \in [0 .. n -> Inodes \cup {ERROR}] :
        /\ at[0] = start
        /\ \A k \in 1 .. n : at[k] = Walk(m, at[k - 1], parts[k])
        /\ PathInode(m, parts, start) = Ends(at[n])
  BY PathSteps DEF n
<1>3. PICK to \in [0 .. n - 1 -> Inodes \cup {ERROR}] :
        /\ to[0] = start
        /\ \A k \in 1 .. n - 1 : to[k] = Walk(m, to[k - 1], front[k])
        /\ PathInode(m, front, start) = Ends(to[n - 1])
  <2>1. \E to \in [0 .. Len(front) -> Inodes \cup {ERROR}] :
          /\ to[0] = start
          /\ \A k \in 1 .. Len(front) : to[k] = Walk(m, to[k - 1], front[k])
          /\ PathInode(m, front, start) = Ends(to[Len(front)])
    BY <1>1, PathSteps
  <2> QED
    BY <1>1, <2>1
<1> DEFINE Same == {k \in Nat : at[k] = to[k]}
<1>4. \A k \in 0 .. n - 1 : k \in Same
  <2>1. n - 1 \in Nat /\ 0 \in Same
    BY <1>1, <1>2, <1>3
  <2>2. ASSUME NEW k \in 1 .. n - 1, k - 1 \in Same PROVE k \in Same
    <3>1. k \in Nat /\ k \in 1 .. n /\ at[k - 1] = to[k - 1]
      BY <1>1, <2>2
    <3>2. at[k] = to[k]
      BY <1>1, <1>2, <1>3, <3>1
    <3> QED
      BY <3>1, <3>2
  <2> HIDE DEF Same
  <2> QED
    BY <2>1, <2>2, StepsMeet
<1>5. at[n - 1] = to[n - 1]
  <2>1. n - 1 \in 0 .. n - 1
    BY <1>1
  <2> QED
    BY <1>4, <2>1
<1> QED
  BY <1>1, <1>2, <1>3, <1>5 DEF n, front

(* Whatever a process names is nothing, or an inode it may have.              *)
LEMMA PathReaches ==
  ASSUME NEW m, Healthy(m), NEW path \in PathType, NEW cur \in Inodes, Legal(m, cur),
         NEW at \in [0 .. Len(Parts(path)) -> Inodes \cup {ERROR}],
         at[0] = Start(path, cur),
         \A k \in 1 .. Len(Parts(path)) : at[k] = Walk(m, at[k - 1], Parts(path)[k])
  PROVE  /\ Start(path, cur) \in Inodes /\ Legal(m, Start(path, cur))
         /\ \A k \in 0 .. Len(Parts(path)) : Reached(m, at[k])
<1> DEFINE n == Len(Parts(path))
           A == {x \in Inodes \cup {ERROR} : Reached(m, x)}
<1>1. n \in Nat
  BY PathFacts
<1>2. Start(path, cur) \in Inodes /\ Legal(m, Start(path, cur))
  <2>1. Legal(m, ROOTINODE)
    BY HealthyIs, DirFacts, ConstantFacts DEF RootInv
  <2> QED
    BY <2>1, ConstantFacts DEF Start
<1>3. at[0] \in A
  BY <1>2 DEF Reached
<1> HIDE DEF n
<1>4. \A k \in 1 .. n : at[k - 1] \in A => at[k] \in A
  <2> SUFFICES ASSUME NEW k \in 1 .. n, at[k - 1] \in A PROVE at[k] \in A
    OBVIOUS
  <2>1. at[k] = Walk(m, at[k - 1], Parts(path)[k]) /\ at[k] \in Inodes \cup {ERROR}
    BY <1>1 DEF n
  <2> QED
    BY <2>1, WalkReaches
<1> HIDE DEF A
<1>5. \A k \in 0 .. n : at[k] \in A
  BY <1>1, <1>3, <1>4, StepsStay
<1> QED
  BY <1>2, <1>5 DEF n, A

(* The inodes along a path lead to its parent directory and to its end.       *)
Along(m, path, cur, at) ==
  LET n == Len(Parts(path))
  IN  /\ n \in Nat /\ n >= 1 /\ FileName(path) = Parts(path)[n]
      /\ at[0] = Start(path, cur)
      /\ \A k \in 1 .. n : at[k] = Walk(m, at[k - 1], Parts(path)[k])
      /\ Resolve(m, path, cur) = Ends(at[n])
      /\ SuperDir(m, path, cur) = IF n = 1 THEN at[0]
                                  ELSE IF at[n - 1] \in {0, ERROR} THEN ERROR
                                  ELSE at[n - 1]

LEMMA PathParent ==
  ASSUME NEW m \in FsType, NEW path \in PathType, NEW cur \in Inodes
  PROVE  \E at \in [0 .. Len(Parts(path)) -> Inodes \cup {ERROR}] : Along(m, path, cur, at)
<1> DEFINE parts == Parts(path)
           start == Start(path, cur)
<1>1. /\ parts \in Seq(PathNames) /\ Len(parts) \in Nat \ {0} /\ start \in Inodes
      /\ FileName(path) = parts[Len(parts)]
  BY PathFacts
<1>2. /\ Resolve(m, path, cur) = PathInode(m, parts, start)
      /\ SuperDir(m, path, cur) =
           IF Len(parts) = 1 THEN start
           ELSE IF PathInode(m, Front(parts), start) = 0 THEN ERROR
           ELSE PathInode(m, Front(parts), start)
  BY DEF Resolve, SuperDir
<1> HIDE DEF parts, start
<1>3. PICK at \in [0 .. Len(parts) -> Inodes \cup {ERROR}] :
        /\ at[0] = start
        /\ \A k \in 1 .. Len(parts) : at[k] = Walk(m, at[k - 1], parts[k])
        /\ PathInode(m, parts, start) = Ends(at[Len(parts)])
        /\ PathInode(m, Front(parts), start) = Ends(at[Len(parts) - 1])
  BY <1>1, PathLast
<1>4. SuperDir(m, path, cur) = IF Len(parts) = 1 THEN at[0]
                               ELSE IF at[Len(parts) - 1] \in {0, ERROR} THEN ERROR
                               ELSE at[Len(parts) - 1]
  <2> DEFINE x == at[Len(parts) - 1]
  <2>1. CASE x = ERROR
    BY <1>2, <1>3, <2>1 DEF Ends
  <2>2. CASE x # ERROR
    BY <1>2, <1>3, <2>2 DEF Ends
  <2> QED
    BY <2>1, <2>2
<1>5. Len(parts) \in Nat /\ Len(parts) >= 1
  BY <1>1
<1>6. Along(m, path, cur, at)
  BY <1>1, <1>2, <1>3, <1>4, <1>5 DEF parts, start, Along
<1> QED
  BY <1>6 DEF parts

LEMMA TargetIs ==
  ASSUME NEW m, Healthy(m), NEW path \in PathType, NEW cur \in Inodes, Legal(m, cur),
         NEW d, d = SuperDir(m, path, cur), NEW t, t = Resolve(m, path, cur)
  PROVE  /\ t \in Inodes /\ (t = 0 \/ Legal(m, t))
         /\ d # ERROR => d \in Inodes /\ Legal(m, d)
         /\ d # ERROR /\ IsDir(m, d) =>
              /\ Dir(m, d)
              /\ t = IF Found(m, d, FileName(path)) THEN Inum(m, d, FileName(path)) ELSE 0
<1> DEFINE n == Len(Parts(path))
<1>1. m \in FsType
  BY HealthyIs
<1>2. PICK at \in [0 .. n -> Inodes \cup {ERROR}] :
        /\ n \in Nat /\ n >= 1 /\ FileName(path) = Parts(path)[n]
        /\ at[0] = Start(path, cur)
        /\ \A k \in 1 .. n : at[k] = Walk(m, at[k - 1], Parts(path)[k])
        /\ t = Ends(at[n])
        /\ d = IF n = 1 THEN at[0]
               ELSE IF at[n - 1] \in {0, ERROR} THEN ERROR
               ELSE at[n - 1]
  <2>1. PICK at \in [0 .. n -> Inodes \cup {ERROR}] : Along(m, path, cur, at)
    BY <1>1, PathParent
  <2> QED
    BY <2>1 DEF Along
<1>3. /\ \A k \in 0 .. n : Reached(m, at[k])
      /\ Legal(m, at[0]) /\ at[0] \in Inodes
  BY <1>2, PathReaches
<1> HIDE DEF n
<1>4. /\ at[n] = Walk(m, at[n - 1], FileName(path))
      /\ Reached(m, at[n]) /\ Reached(m, at[n - 1]) /\ n - 1 \in 0 .. n
      /\ n = 1 => n - 1 = 0
  BY <1>2, <1>3
<1>5. t \in Inodes /\ (t = 0 \/ Legal(m, t))
  BY <1>2, <1>4, ConstantFacts DEF Reached, Ends
<1>6. d # ERROR => d = at[n - 1] /\ d \in Inodes /\ Legal(m, d)
  BY <1>2, <1>3, <1>4, ConstantFacts DEF Reached
<1>7. ASSUME d # ERROR, IsDir(m, d)
      PROVE  /\ Dir(m, d)
             /\ t = IF Found(m, d, FileName(path)) THEN Inum(m, d, FileName(path)) ELSE 0
  <2>1. Dir(m, d)
    BY <1>6, <1>7 DEF Legal
  <2>2. at[n] = IF Found(m, d, FileName(path)) THEN Inum(m, d, FileName(path)) ELSE 0
    BY <1>4, <1>6, <1>7 DEF Walk
  <2>3. at[n] # ERROR
    <3>1. CASE Found(m, d, FileName(path))
      <4>1. Inum(m, d, FileName(path)) \in Inodes
        BY <1>6, <1>7, <2>1, <3>1, InumCases
      <4> QED
        BY <2>2, <3>1, <4>1, ConstantFacts
    <3>2. CASE ~Found(m, d, FileName(path))
      BY <2>2, <3>2 DEF ERROR
    <3> QED
      BY <3>1, <3>2
  <2> QED
    BY <1>2, <2>1, <2>2, <2>3 DEF Ends
<1> QED
  BY <1>5, <1>6, <1>7

(* Names in a directory that nothing happens to.                              *)
LEMMA AlikeNames ==
  ASSUME NEW m \in FsType, NEW m2 \in FsType, NEW d \in Inodes, Alike(m, m2, d),
         Dir(m, d), DirOf(m, d), NEW name
  PROVE  /\ Matching(m2, d, name) = Matching(m, d, name)
         /\ Found(m2, d, name) <=> Found(m, d, name)
         /\ Found(m, d, name) => Inum(m2, d, name) = Inum(m, d, name)
<1> DEFINE s == m.inode[d].size
<1>1. /\ DirOf(m2, d) /\ Dir(m2, d) /\ m2.inode[d].size = s
      /\ \A k \in Nat : k < s => CellAt(m2, d, k) = CellAt(m, d, k)
  BY AlikeDir
<1>2. /\ \A k \in Nat : k \in Places(m, d) <=> k < s
      /\ \A k \in Nat : k \in Places(m2, d) <=> k < s
  BY <1>1, WholePlaces DEF DirOf
<1>3. Places(m, d) \subseteq Nat /\ Places(m2, d) \subseteq Nat
  BY PlacesFacts
<1>4. Places(m2, d) = Places(m, d) /\ \A k \in Places(m, d) : CellAt(m2, d, k) = CellAt(m, d, k)
  BY <1>1, <1>2, <1>3
<1>5. Matching(m2, d, name) = Matching(m, d, name)
  BY <1>4 DEF Matching
<1>6. Found(m2, d, name) <=> Found(m, d, name)
  BY <1>5 DEF Found
<1>7. ASSUME Found(m, d, name) PROVE Inum(m2, d, name) = Inum(m, d, name)
  <2>1. Min(Matching(m, d, name)) \in Places(m, d)
    BY <1>7, FoundFacts
  <2> QED
    BY <1>4, <1>5, <2>1 DEF Inum
<1> QED
  BY <1>5, <1>6, <1>7

(* handle_rmdir looks for the parent when the directory is gone: it finds the *)
(* same one, or none.                                                         *)
LEMMA ParentOfGone ==
  ASSUME NEW m, Healthy(m), NEW path \in PathType, NEW cur \in Inodes, Legal(m, cur),
         NEW i \in Inodes, NEW g \in FsType,
         \A x \in Inodes : x # i => Alike(m, g, x),
         g.inode[i].size = 0, g.inode[i].type = m.inode[i].type
  PROVE  SuperDir(g, path, cur) \in {ERROR, SuperDir(m, path, cur)}
<1> DEFINE n == Len(Parts(path))
<1>1. m \in FsType /\ \A x \in Inodes : DirOf(m, x)
  BY HealthyIs DEF DirInv
<1>2. PICK at \in [0 .. n -> Inodes \cup {ERROR}] :
        /\ n \in Nat /\ n >= 1
        /\ at[0] = Start(path, cur)
        /\ \A k \in 1 .. n : at[k] = Walk(m, at[k - 1], Parts(path)[k])
        /\ SuperDir(m, path, cur) = IF n = 1 THEN at[0]
                                    ELSE IF at[n - 1] \in {0, ERROR} THEN ERROR
                                    ELSE at[n - 1]
  <2>1. PICK at \in [0 .. n -> Inodes \cup {ERROR}] : Along(m, path, cur, at)
    BY <1>1, PathParent
  <2> QED
    BY <2>1 DEF Along
<1>3. PICK to \in [0 .. n -> Inodes \cup {ERROR}] :
        /\ to[0] = Start(path, cur)
        /\ \A k \in 1 .. n : to[k] = Walk(g, to[k - 1], Parts(path)[k])
        /\ SuperDir(g, path, cur) = IF n = 1 THEN to[0]
                                    ELSE IF to[n - 1] \in {0, ERROR} THEN ERROR
                                    ELSE to[n - 1]
  <2>1. PICK to \in [0 .. n -> Inodes \cup {ERROR}] : Along(g, path, cur, to)
    BY PathParent
  <2> QED
    BY <2>1 DEF Along
<1>4. \A k \in 0 .. n : Reached(m, at[k])
  BY <1>2, PathReaches
<1>5. ~IsDir(g, 0)
  <2>1. ~IsDir(m, 0)
    BY HealthyIs DEF InodesInv
  <2> QED
    BY <2>1, ConstantFacts DEF IsDir, Alike
<1> HIDE DEF n
<1> DEFINE Same == {k \in Nat : to[k] \in {0, ERROR, at[k]}}
<1>6. 0 \in Same
  BY <1>2, <1>3
<1>7. \A k \in 1 .. n : k - 1 \in Same => k \in Same
  <2> SUFFICES ASSUME NEW k \in 1 .. n, to[k - 1] \in {0, ERROR, at[k - 1]}
               PROVE  to[k] \in {0, ERROR, at[k]}
    BY <1>2
  <2> DEFINE x == to[k - 1]
             name == Parts(path)[k]
  <2>1. to[k] = Walk(g, x, name)
    BY <1>3
  <2> HIDE DEF x
  <2>2. CASE x \in {0, ERROR}
    BY <1>5, <2>1, <2>2 DEF Walk
  <2>3. CASE x \notin {0, ERROR}
    <3>1. k - 1 \in 0 .. n /\ x = at[k - 1]
      BY <1>2, <2>3 DEF x
    <3>2. x \in Inodes /\ Legal(m, x) /\ at[k] = Walk(m, x, name)
      BY <1>2, <1>4, <2>3, <3>1 DEF Reached
    <3>3. CASE ~IsDir(g, x)
      BY <2>1, <3>3 DEF Walk
    <3>4. CASE IsDir(g, x) /\ x = i
      <4>1. ~Found(g, x, name)
        <5>1. \A l \in Nat : l \notin Places(g, x)
          BY <3>2, <3>4, PlacesFacts
        <5>2. Places(g, x) = {}
          BY <3>2, <5>1, PlacesFacts
        <5> QED
          BY <5>2 DEF Found, Matching
      <4> QED
        BY <2>1, <3>4, <4>1 DEF Walk
    <3>5. CASE IsDir(g, x) /\ x # i
      <4>1. Alike(m, g, x) /\ IsDir(m, x) /\ Dir(m, x)
        BY <3>2, <3>5 DEF Alike, IsDir, Legal
      <4>2. /\ Found(g, x, name) <=> Found(m, x, name)
            /\ Found(m, x, name) => Inum(g, x, name) = Inum(m, x, name)
        BY <1>1, <3>2, <4>1, AlikeNames
      <4> QED
        BY <2>1, <3>2, <3>5, <4>1, <4>2 DEF Walk
    <3> QED
      BY <3>3, <3>4, <3>5
  <2> QED
    BY <2>2, <2>3
<1> HIDE DEF Same
<1>8. \A k \in 0 .. n : k \in Same
  BY <1>2, <1>6, <1>7, StepsMeet
<1>9. to[n - 1] \in {0, ERROR, at[n - 1]}
  <2>1. n - 1 \in 0 .. n
    BY <1>2
  <2> QED
    BY <1>8, <2>1 DEF Same
<1> QED
  BY <1>2, <1>3, <1>9

-----------------------------------------------------------------------------
(* The handlers that make an entry *)

(* The first inode of the free list.                                          *)
LEMMA InodeTaken ==
  ASSUME NEW m, Healthy(m), m.i_head # << >>, NEW i, i = NextInode(m),
         NEW m2, m2.i_head = Rest(m.i_head)
  PROVE  /\ i \in Inodes \ {0} /\ i \in Scanned \ {ROOTINODE}
         /\ IsFree(m, i) /\ m.inode[i].size = 0
         /\ IsInjective1(m2.i_head)
         /\ \A x \in Inodes : IsFree(m2, x) <=> IsFree(m, x) /\ x # i
<1> DEFINE q == m.i_head
           r == m2.i_head
<1>1. /\ m \in FsType /\ q \in Seq(Inodes) /\ IsInjective1(q)
      /\ \A x \in Inodes : IsFree(m, x) => x \in Scanned \ {ROOTINODE} /\ m.inode[x].size = 0
  BY HealthyIs DEF InodesInv, FsType
<1>2. i = q[1] /\ r = Tail(q)
  BY DEF NextInode, Rest
<1>3. Len(q) \in Nat /\ Len(q) >= 1 /\ i \in Inodes
  BY <1>1, <1>2
<1>4. IsFree(m, i)
  <2>1. 1 \in 1 .. Len(m.i_head)
    BY <1>3
  <2> QED
    BY <1>2, <2>1 DEF IsFree
<1>5. Len(r) = Len(q) - 1 /\ \A k \in 1 .. Len(q) - 1 : r[k] = q[k + 1]
  BY <1>1, <1>2
<1>6. /\ \A x \in Inodes : IsFree(m, x) <=> \E k \in 1 .. Len(q) : q[k] = x
      /\ \A x \in Inodes : IsFree(m2, x) <=> \E k \in 1 .. Len(r) : r[k] = x
  BY DEF IsFree
<1> HIDE DEF q, r
<1>7. \A k, l \in 1 .. Len(q) : q[k] = q[l] => k = l
  BY <1>1 DEF IsInjective1
<1>8. \A k, l \in 1 .. Len(r) : r[k] = r[l] => k = l
  BY <1>3, <1>5, <1>7
<1>9. \A x \in Inodes : IsFree(m2, x) => IsFree(m, x) /\ x # i
  <2> SUFFICES ASSUME NEW x \in Inodes, NEW k \in 1 .. Len(r), r[k] = x
               PROVE  IsFree(m, x) /\ x # i
    BY <1>6
  <2>1. k + 1 \in 1 .. Len(q) /\ 1 \in 1 .. Len(q) /\ q[k + 1] = x /\ k + 1 # 1
    BY <1>3, <1>5
  <2> QED
    BY <1>2, <1>6, <1>7, <2>1
<1>10. \A x \in Inodes : IsFree(m, x) /\ x # i => IsFree(m2, x)
  <2> SUFFICES ASSUME NEW x \in Inodes, NEW k \in 1 .. Len(q), q[k] = x, x # i
               PROVE  IsFree(m2, x)
    BY <1>6
  <2>1. k - 1 \in 1 .. Len(r) /\ r[k - 1] = x
    <3>1. k # 1
      BY <1>2
    <3> QED
      BY <1>3, <1>5, <3>1
  <2> QED
    BY <1>6, <2>1
<1>11. IsInjective1(m2.i_head)
  BY <1>8 DEF IsInjective1, r
<1> QED
  BY <1>1, <1>3, <1>4, <1>9, <1>10, <1>11, RootScanned

LEMMA NamedEntered ==
  ASSUME NEW m \in FsType, NEW f \in FsType, NEW m2 \in FsType, NEW d \in Inodes,
         NEW k \in Nat, NEW j, NEW name,
         Named(m, f, d, k, j, name), Whole(f, d), Alike(f, m2, d)
  PROVE  Entered(m, m2, d, k, j, name)
<1> DEFINE s == m.inode[d].size
           t == f.inode[d].size
<1>1. s \in Nat /\ t \in Nat
  BY SizeNat
<1>2. /\ f.inode[d].type = m.inode[d].type /\ t = (IF k < s THEN s ELSE s + 1)
      /\ k <= s
      /\ k < s => CellAt(m, d, k).inum = 0
      /\ \/ k < s /\ CellAt(m, d, k).name = name
         \/ \A l \in 0 .. s - 1 : CellAt(m, d, l).name # name
      /\ CellAt(f, d, k) = [inum |-> j, name |-> name]
      /\ \A l \in 0 .. s - 1 : l # k => CellAt(f, d, l) = CellAt(m, d, l)
  BY DEF Named
<1>3. /\ m2.inode[d].type = f.inode[d].type /\ m2.inode[d].size = t
      /\ \A l \in Nat : NthBlock(f, d, l \div UNITS) # 0 => CellAt(m2, d, l) = CellAt(f, d, l)
  BY DEF Alike
<1>4. \A l \in Nat : l < t => CellAt(m2, d, l) = CellAt(f, d, l)
  BY <1>3, WholePlaces
<1>5. Whole(m2, d)
  BY AlikeKeeps
<1> HIDE DEF s, t
<1>6. k < t /\ \A l \in 0 .. s - 1 : l \in Nat /\ l < t
  BY <1>1, <1>2
<1>7. /\ CellAt(m2, d, k) = [inum |-> j, name |-> name]
      /\ \A l \in 0 .. s - 1 : l # k => CellAt(m2, d, l) = CellAt(m, d, l)
  BY <1>2, <1>4, <1>6
<1> QED
  BY <1>2, <1>3, <1>5, <1>7 DEF Entered, s

(* An entry is made, and then the inode that it leads to.                     *)
LEMMA EntryStep ==
  ASSUME NEW m, Healthy(m), NEW f, Sound(f), NEW m2, Sound(m2),
         NEW d \in Inodes, Dir(m, d), NEW k \in Nat, NEW j \in Inodes, NEW name \in Names,
         Named(m, f, d, k, j, name), Whole(f, d),
         \A x \in Inodes : x # j => Alike(f, m2, x),
         j # ROOTINODE, ~Dir(m, j), Known(m2, j), DataOf(m2, j),
         IsDir(m2, j) => NewEntries(m2, j, d) /\ IsFree(m, j),
         \A x \in Inodes : IsFree(m2, x) => IsFree(m, x), IsInjective1(m2.i_head)
  PROVE  /\ Healthy(m2) /\ Legal(m2, j)
         /\ \A x \in Inodes : Legal(m, x) => Legal(m2, x)
         /\ \A x \in Inodes : x # j => m2.inode[x].size >= m.inode[x].size
<1>1. /\ m \in FsType /\ f \in FsType /\ m2 \in FsType /\ DataInv(m) /\ InodesInv(m)
  BY HealthyIs DEF Sound
<1>2. d # j /\ Legal(m, d) /\ d # 0 /\ m.inode[d].size \in Nat /\ m.inode[d].size >= 2
  BY DirFacts
<1>3. Entered(m, m2, d, k, j, name)
  BY <1>1, <1>2, NamedEntered
<1>4. \A x \in Inodes : x # d /\ x # j => Alike(m, m2, x)
  <2>1. \A x \in Inodes : x # d => Alike(m, f, x)
    BY DEF Named
  <2> QED
    BY <1>1, <2>1, AlikeTwice
<1>5. \A x \in Inodes : x # j => /\ m2.inode[x].type = m.inode[x].type
                                 /\ m2.inode[x].size >= m.inode[x].size
                                 /\ x # d => m2.inode[x].size = m.inode[x].size
  <2> SUFFICES ASSUME NEW x \in Inodes, x # j
               PROVE  /\ m2.inode[x].type = m.inode[x].type
                      /\ m2.inode[x].size >= m.inode[x].size
                      /\ x # d => m2.inode[x].size = m.inode[x].size
    OBVIOUS
  <2>1. CASE x = d
    <3>1. /\ m2.inode[d].type = m.inode[d].type
          /\ m2.inode[d].size = IF k < m.inode[d].size THEN m.inode[d].size ELSE m.inode[d].size + 1
      BY <1>3 DEF Entered
    <3> QED
      BY <1>2, <2>1, <3>1
  <2>2. CASE x # d
    <3>1. m.inode[x].size \in Nat
      BY <1>1, SizeNat
    <3> QED
      BY <1>4, <2>2, <3>1 DEF Alike
  <2> QED
    BY <2>1, <2>2
<1>6. \A x \in Inodes : Known(m, x) => Known(m2, x)
  BY <1>5 DEF Known
<1>7. /\ DirInv(m2) /\ TreeInv(m2)
      /\ \A x \in Inodes : Legal(m, x) => Legal(m2, x)
      /\ Legal(m2, j)
  BY <1>1, <1>3, <1>4, <1>6, EntryMade
<1>8. DataInv(m2)
  <2>1. \A x \in Inodes : x # d /\ x # j => DataOf(m2, x)
    BY <1>1, <1>4, AlikeKeeps DEF DataInv
  <2>2. DataOf(m2, d)
    BY <1>2, <1>5 DEF DataOf, Dir, IsDir, INODE_DIRECTORY, INODE_REGULAR
  <2> QED
    BY <2>1, <2>2 DEF DataInv
<1>9. InodesInv(m2)
  <2>1. \A x \in Inodes : IsFree(m2, x) => x \in Scanned \ {ROOTINODE} /\ m2.inode[x].size = 0
    <3> SUFFICES ASSUME NEW x \in Inodes, IsFree(m2, x)
                 PROVE  x \in Scanned \ {ROOTINODE} /\ m2.inode[x].size = 0
      OBVIOUS
    <3>1. x \in Scanned \ {ROOTINODE} /\ m.inode[x].size = 0 /\ x # j
      BY <1>1 DEF InodesInv, Known
    <3>2. x # d
      BY <3>1 DEF Dir
    <3> QED
      BY <1>5, <3>1, <3>2
  <2>2. \A x \in Inodes : m2.inode[x].size > 0 =>
          x \in Scanned /\ m2.inode[x].type \in {INODE_DIRECTORY, INODE_REGULAR}
    <3> SUFFICES ASSUME NEW x \in Inodes, m2.inode[x].size > 0
                 PROVE  x \in Scanned /\ m2.inode[x].type \in {INODE_DIRECTORY, INODE_REGULAR}
      OBVIOUS
    <3>1. CASE x = j
      BY <3>1 DEF Known
    <3>2. CASE x = d
      BY <1>2, <1>5, <3>2 DEF Legal, Known
    <3>3. CASE x # j /\ x # d
      BY <1>1, <1>5, <3>3 DEF InodesInv
    <3> QED
      BY <3>1, <3>2, <3>3
  <2>3. ~IsDir(m2, 0)
    <3>1. j # 0
      BY RootScanned DEF Known
    <3> QED
      BY <1>1, <1>5, <3>1, ConstantFacts DEF InodesInv, IsDir
  <2> QED
    BY <2>1, <2>2, <2>3 DEF InodesInv
<1> QED
  BY <1>5, <1>7, <1>8, <1>9 DEF Healthy, Safe

(* A new file.                                                                *)
LEMMA FileMade ==
  ASSUME NEW m, Healthy(m), m.i_head # << >>, NEW d \in Inodes, Dir(m, d),
         NEW f, Sound(f), Whole(f, d), f.i_head = m.i_head,
         NEW i, i = NextInode(m), NEW k \in Nat, NEW name \in Names, Named(m, f, d, k, i, name),
         NEW m2, m2 = MakeFile(f)
  PROVE  /\ Healthy(m2) /\ Legal(m2, i)
         /\ \A x \in Inodes : Legal(m, x) => Legal(m2, x)
         /\ \A x \in Inodes : x # i => m2.inode[x].size >= m.inode[x].size
         /\ ~Legal(m, i)
<1>1. /\ i = NextInode(f) /\ i \in Inodes /\ Sound(m2)
      /\ m2.inode[i].size = 0 /\ m2.inode[i].type = INODE_REGULAR
      /\ \A x \in Inodes : x # i => Alike(f, m2, x)
      /\ m2.i_head = Rest(m.i_head)
  <2>1. i = NextInode(f)
    BY DEF NextInode
  <2> QED
    BY <2>1, MakeFileSound
<1>2. /\ i \in Scanned \ {ROOTINODE} /\ IsFree(m, i) /\ m.inode[i].size = 0
      /\ IsInjective1(m2.i_head)
      /\ \A x \in Inodes : IsFree(m2, x) <=> IsFree(m, x) /\ x # i
  <2>1. m2.i_head = Rest(m.i_head)
    BY <1>1
  <2>2. /\ i \in Inodes \ {0} /\ i \in Scanned \ {ROOTINODE}
        /\ IsFree(m, i) /\ m.inode[i].size = 0
        /\ IsInjective1(m2.i_head)
        /\ \A x \in Inodes : IsFree(m2, x) <=> IsFree(m, x) /\ x # i
    BY <2>1, InodeTaken
  <2> QED
    BY <2>2
<1>3. ~Dir(m, i) /\ ~IsDir(m2, i)
  BY <1>1, <1>2 DEF Dir, IsDir, INODE_DIRECTORY, INODE_REGULAR
<1>4. Known(m2, i) /\ ~Legal(m, i)
  BY <1>1, <1>2 DEF Known, Legal
<1>5. DataOf(m2, i)
  <2>1. Whole(m2, i)
    <3> SUFFICES ASSUME NEW n \in Nat, n * UNITS < 0 PROVE FALSE
      BY <1>1 DEF Whole
    <3>1. n * UNITS \in Nat
      BY UnitFacts
    <3> QED
      BY <3>1
  <2> QED
    BY <1>1, <2>1 DEF DataOf
<1> QED
  BY <1>1, <1>2, <1>3, <1>4, <1>5, EntryStep

(* A new directory.                                                           *)
LEMMA DirMade ==
  ASSUME NEW m, Healthy(m), m.i_head # << >>, NEW d \in Inodes, Dir(m, d),
         NEW f, Sound(f), Whole(f, d), f.i_head = m.i_head, f.b_head # << >>,
         NEW i, i = NextInode(m), NEW k \in Nat, NEW name \in Names, Named(m, f, d, k, i, name),
         NEW m2, m2 = NewDir(f, i, d, NextBlock(f))
  PROVE  /\ Healthy(m2)
         /\ \A x \in Inodes : Legal(m, x) => Legal(m2, x)
         /\ \A x \in Inodes : x # i => m2.inode[x].size >= m.inode[x].size
         /\ ~Legal(m, i)
<1>1. /\ i \in Inodes /\ Sound(m2) /\ NewEntries(m2, i, d)
      /\ \A x \in Inodes : x # i => Alike(f, m2, x)
      /\ m2.i_head = Rest(m.i_head)
  <2>1. i = NextInode(f)
    BY DEF NextInode
  <2> QED
    BY <2>1, NewDirSound
<1>2. /\ i \in Scanned \ {ROOTINODE} /\ IsFree(m, i) /\ m.inode[i].size = 0
      /\ IsInjective1(m2.i_head)
      /\ \A x \in Inodes : IsFree(m2, x) <=> IsFree(m, x) /\ x # i
  BY <1>1, InodeTaken
<1>3. ~Dir(m, i)
  BY <1>2 DEF Dir
<1>4. Known(m2, i) /\ ~Legal(m, i)
  BY <1>1, <1>2 DEF Known, Legal, NewEntries
<1>5. DataOf(m2, i)
  BY <1>1, SMTT(30) DEF DataOf, NewEntries, INODE_DIRECTORY, INODE_REGULAR
<1> QED
  BY <1>1, <1>2, <1>3, <1>4, <1>5, EntryStep

(* The inode in the entry that get_dir_entry finds or makes.                  *)
LEMMA EntryInode ==
  ASSUME NEW m, Healthy(m), NEW d \in Inodes, Dir(m, d), NEW name,
         NEW e, e = EntryFor(m, d, name), NEW i, i = e.fs.cell[e.b][e.c].inum
  PROVE  /\ i # 0 => e.fs = m /\ Found(m, d, name) /\ i = Inum(m, d, name)
         /\ i = 0 => ~Found(m, d, name) \/ Inum(m, d, name) = 0
<1>1. m \in FsType /\ Whole(m, d)
  BY HealthyIs, DirFacts
<1>2. ASSUME NEW k \in Nat, k < m.inode[d].size, e = At(m, d, k),
             Found(m, d, name), k = Min(Matching(m, d, name))
      PROVE  e.fs = m /\ i = Inum(m, d, name)
  BY <1>1, <1>2, AtType DEF Inum
<1>3. ASSUME NEW k \in Nat, e = At(m, d, k), CellAt(m, d, k).inum = 0
      PROVE  i = 0
  BY <1>1, <1>3, AtType
<1>4. e = Append1(m, d) => i = 0
  BY <1>1, AppendType
<1>5. \/ \E k \in Nat : /\ k < m.inode[d].size /\ e = At(m, d, k)
                        /\ Found(m, d, name) /\ k = Min(Matching(m, d, name))
                        /\ CellAt(m, d, k).name = name
      \/ \E k \in Nat : /\ k < m.inode[d].size /\ e = At(m, d, k)
                        /\ ~Found(m, d, name) /\ CellAt(m, d, k).inum = 0
                        /\ \A l \in 0 .. m.inode[d].size - 1 : CellAt(m, d, l).name # name
      \/ e = Append1(m, d) /\ ~Found(m, d, name) /\ Vacant(m, d) = {}
  BY <1>1, EntryCases
<1> QED
  BY <1>2, <1>3, <1>4, <1>5

(* A file that is emptied.                                                    *)
(* The same, of the call.                                                     *)
EntryNumber(m, d, name) ==
  LET e == EntryFor(m, d, name) IN e.fs.cell[e.b][e.c].inum

LEMMA EntryThere ==
  ASSUME NEW m, Healthy(m), NEW d \in Inodes, Dir(m, d), NEW name
  PROVE  /\ EntryNumber(m, d, name) # 0 =>
              EntryFor(m, d, name).fs = m /\ Found(m, d, name) /\ EntryNumber(m, d, name) = Inum(m, d, name)
         /\ EntryNumber(m, d, name) = 0 => ~Found(m, d, name) \/ Inum(m, d, name) = 0
<1> DEFINE e == EntryFor(m, d, name)
           i == EntryNumber(m, d, name)
<1>1. e = EntryFor(m, d, name) /\ i = e.fs.cell[e.b][e.c].inum
  BY SMTT(30) DEF EntryNumber
<1> HIDE DEF e, i
<1>2. /\ i # 0 => e.fs = m /\ Found(m, d, name) /\ i = Inum(m, d, name)
      /\ i = 0 => ~Found(m, d, name) \/ Inum(m, d, name) = 0
  BY <1>1, EntryInode
<1> QED BY <1>2 DEF e, i

LEMMA FileEmptied ==
  ASSUME NEW m, Healthy(m), NEW i \in Inodes, ~IsDir(m, i), NEW m2, m2 = Clear(m, i)
  PROVE  /\ Healthy(m2) /\ \A x \in Inodes : Legal(m, x) => Legal(m2, x)
         /\ \A x \in Inodes : x # i => m2.inode[x].size >= m.inode[x].size
<1>1. m \in FsType /\ Sound(m) /\ DataInv(m) /\ InodesInv(m)
  BY HealthyIs
<1>2. /\ Sound(m2) /\ \A x \in Inodes : x # i => Alike(m, m2, x)
      /\ m2.inode[i].size = 0 /\ m2.inode[i].type = m.inode[i].type
      /\ m2.i_head = m.i_head
  BY <1>1, ClearSound
<1>3. /\ m2 \in FsType
      /\ \A x \in Inodes : m2.inode[x].type = m.inode[x].type
      /\ \A x \in Inodes : IsFree(m2, x) <=> IsFree(m, x)
      /\ \A x \in Inodes : IsDir(m2, x) <=> IsDir(m, x)
      /\ \A x \in Inodes : x # i => m2.inode[x].size = m.inode[x].size
  BY <1>2 DEF Sound, Alike, IsFree, IsDir
<1>4. \A x \in Inodes : Known(m, x) => Known(m2, x)
  BY <1>3 DEF Known
<1>5. /\ DirInv(m2) /\ TreeInv(m2)
      /\ \A x \in Inodes : Legal(m, x) => Legal(m2, x)
  BY <1>2, <1>3, <1>4, DirsUntouched
<1>6. DataInv(m2)
  <2>1. DataOf(m2, i)
    <3>1. Whole(m2, i)
      <4> SUFFICES ASSUME NEW n \in Nat, n * UNITS < 0 PROVE FALSE
        BY <1>2 DEF Whole
      <4>1. n * UNITS \in Nat
        BY UnitFacts
      <4> QED
        BY <4>1
    <3> QED
      BY <1>2, <3>1 DEF DataOf
  <2>2. \A x \in Inodes : x # i => DataOf(m2, x)
    BY <1>1, <1>2, <1>3, AlikeKeeps DEF DataInv
  <2> QED
    BY <2>1, <2>2 DEF DataInv
<1>7. InodesInv(m2)
  <2>1. \A x \in Inodes : m2.inode[x].size > 0 => x # i /\ m.inode[x].size > 0
    <3>1. \A x \in Inodes : x # i => m2.inode[x].size = m.inode[x].size
      BY <1>3
    <3> QED
      BY <1>2, <3>1
  <2>2. \A x \in Inodes : m2.inode[x].size > 0 =>
          x \in Scanned /\ m2.inode[x].type \in {INODE_DIRECTORY, INODE_REGULAR}
    BY <1>1, <1>3, <2>1 DEF InodesInv
  <2>3. \A x \in Inodes : IsFree(m2, x) => x \in Scanned \ {ROOTINODE} /\ m2.inode[x].size = 0
    <3> SUFFICES ASSUME NEW x \in Inodes, IsFree(m2, x)
                 PROVE  x \in Scanned \ {ROOTINODE} /\ m2.inode[x].size = 0
      OBVIOUS
    <3>1. IsFree(m, x)
      BY <1>3
    <3>2. x \in Scanned \ {ROOTINODE} /\ m.inode[x].size = 0
      BY <1>1, <3>1 DEF InodesInv
    <3>3. m2.inode[x].size = m.inode[x].size \/ x = i
      BY <1>3
    <3> QED
      BY <1>2, <3>2, <3>3
  <2>4. IsInjective1(m2.i_head) /\ ~IsDir(m2, 0)
    <3>1. ~IsDir(m, 0) /\ IsInjective1(m.i_head)
      BY <1>1 DEF InodesInv
    <3> QED
      BY <1>2, <1>3, <3>1, ConstantFacts
  <2> QED
    BY <2>2, <2>3, <2>4 DEF InodesInv
<1>8. \A x \in Inodes : x # i => m2.inode[x].size >= m.inode[x].size
  BY <1>1, <1>3, SizeNat
<1> QED
  BY <1>2, <1>5, <1>6, <1>7, <1>8 DEF Healthy, Safe

(* The file system with a new entry; the list of free inodes is as it was.    *)
Enters(m, f, d, k, j, name) ==
  /\ Sound(f) /\ Whole(f, d) /\ Named(m, f, d, k, j, name)
  /\ f.i_head = m.i_head /\ f.b_head \in {m.b_head, Rest(m.b_head)}
  /\ Pointing(m, f) /\ OnlyInode(m, f, d) /\ Placed(m, f, d, k)
  /\ f.bad => m.bad \/ NextBlock(m) \in TableBlocks

LEMMA EntryEnters ==
  ASSUME NEW m, Sound(m), NEW d \in Inodes, Whole(m, d), m.b_head # << >>,
         NEW name \in PathNames, NEW j \in Inodes,
         m.inode[d].size < NUM_DIRECT * UNITS \/ Found(m, d, name) \/ Vacant(m, d) # {},
         NEW e, e = EntryFor(m, d, name), e.fs.cell[e.b][e.c].inum = 0,
         NEW f, f = SetEntry(e, j, name)
  PROVE  /\ \E k \in Nat : Enters(m, f, d, k, j, name)
         /\ e.fs.i_head = m.i_head /\ e.fs.b_head = f.b_head
<1>1. /\ Sound(f) /\ Whole(f, d)
      /\ \E k \in Nat : Named(m, f, d, k, j, name) /\ Placed(m, f, d, k)
      /\ f.i_head = m.i_head /\ e.fs.i_head = m.i_head
      /\ f.b_head \in {m.b_head, Rest(m.b_head)} /\ f.b_head = e.fs.b_head
      /\ Pointing(m, f) /\ OnlyInode(m, f, d)
      /\ f.bad => m.bad \/ NextBlock(m) \in TableBlocks
  BY NamedEntry
<1>2. PICK k \in Nat : Named(m, f, d, k, j, name) /\ Placed(m, f, d, k)
  BY <1>1
<1>3. Enters(m, f, d, k, j, name)
  BY <1>1, <1>2 DEF Enters
<1> QED
  BY <1>1, <1>3

(* A new file in directory d.                                                 *)
Creates(m, m2, d, name) ==
  \E k \in Nat, f \in FsType : Enters(m, f, d, k, NextInode(m), name) /\ m2 = MakeFile(f)

LEMMA CreateDoes ==
  ASSUME NEW m, Healthy(m), NEW path \in PathType, NEW cur \in Inodes, Legal(m, cur),
         NEW d, d = SuperDir(m, path, cur), d # ERROR, IsDir(m, d), FileName(path) \in Names,
         \/ m.inode[d].size < NUM_DIRECT * UNITS
         \/ Found(m, d, FileName(path)) \/ Vacant(m, d) # {},
         m.b_head # << >>, NEW t, t = Resolve(m, path, cur),
         t = 0 => m.i_head # << >>,
         NEW r, r = CreateFile(m, path, cur, ERROR)
  PROVE  /\ d \in Inodes /\ Dir(m, d) /\ t \in Inodes /\ (t = 0 \/ Legal(m, t))
         /\ t # 0 => r.fs = Clear(m, t) /\ r.ret = t
         /\ t = 0 => Creates(m, r.fs, d, FileName(path)) /\ r.ret = NextInode(m)
<1> DEFINE name == FileName(path)
           e == EntryFor(m, d, name)
           i == e.fs.cell[e.b][e.c].inum
           j == NextInode(e.fs)
           named == SetEntry(e, j, name)
<1>1. /\ m \in FsType /\ Sound(m)
      /\ d \in Inodes /\ Dir(m, d) /\ Whole(m, d) /\ name \in PathNames /\ name \in Names
      /\ t = IF Found(m, d, name) THEN Inum(m, d, name) ELSE 0
      /\ t \in Inodes /\ (t = 0 \/ Legal(m, t))
  <2>1. m \in FsType /\ Sound(m)
    BY HealthyIs
  <2>2. /\ d \in Inodes /\ Dir(m, d)
        /\ t = IF Found(m, d, name) THEN Inum(m, d, name) ELSE 0
        /\ t \in Inodes /\ (t = 0 \/ Legal(m, t))
    BY TargetIs
  <2>3. Whole(m, d)
    BY <2>2, DirFacts
  <2> QED
    BY <2>1, <2>2, <2>3 DEF PathNames
<1>2. r = IF i # 0 THEN [fs |-> Clear(e.fs, i), ret |-> i]
          ELSE [fs |-> MakeFile(named), ret |-> j]
  <2>1. ~(path.abs /\ path.parts = << >>)
    <3> SUFFICES ASSUME path.parts = << >> PROVE FALSE
      OBVIOUS
    <3>1. FileName(path) = ""
      BY DEF FileName, Parts, Last
    <3> QED
      BY <1>1, <3>1, PathsAssumption
  <2>2. ~(i # 0 /\ ERROR # ERROR)
    OBVIOUS
  <2> QED
    BY <1>1, <2>1, <2>2, Zenon DEF CreateFile
<1>3. /\ i # 0 => e.fs = m /\ Found(m, d, name) /\ i = Inum(m, d, name)
      /\ i = 0 => ~Found(m, d, name) \/ Inum(m, d, name) = 0
  <2>1. e = EntryFor(m, d, name) /\ i = EntryNumber(m, d, name)
    BY DEF EntryNumber
  <2> HIDE DEF e, i, name
  <2> QED
    BY <1>1, <2>1, EntryThere
<1> HIDE DEF i, name
<1>4. CASE i # 0
  <2>1. e.fs = m /\ i = t
    BY <1>1, <1>3, <1>4
  <2>2. r.fs = Clear(m, t) /\ r.ret = t
    BY <1>2, <1>4, <2>1
  <2> QED
    BY <1>1, <1>4, <2>1, <2>2
<1>5. CASE i = 0
  <2>1. t = 0
    BY <1>1, <1>3, <1>5
  <2>2. e.fs.i_head = m.i_head /\ j = NextInode(m) /\ j \in Inodes
    <3>1. \A n \in Inodes : \A f : f = SetEntry(e, n, name) => e.fs.i_head = m.i_head
      BY <1>1, <1>5, EntryEnters DEF i, name
    <3>2. e.fs.i_head = m.i_head
      BY <3>1, ConstantFacts
    <3> QED
      BY <1>1, <3>2, NextTypes DEF NextInode
  <2> HIDE DEF j
  <2>3. \E k \in Nat : Enters(m, named, d, k, j, name)
    BY <1>1, <1>5, <2>2, EntryEnters DEF i, name
  <2> HIDE DEF named, e
  <2>4. PICK k \in Nat : Enters(m, named, d, k, j, name)
    BY <2>3
  <2>5. r.fs = MakeFile(named) /\ r.ret = j /\ named \in FsType
    BY <1>2, <1>5, <2>4 DEF Enters, Sound
  <2>6. Creates(m, r.fs, d, name)
    BY <2>2, <2>4, <2>5 DEF Creates
  <2> QED
    BY <1>1, <2>1, <2>2, <2>5, <2>6 DEF name
<1> QED
  BY <1>4, <1>5

LEMMA CreateHealthy ==
  ASSUME NEW m, Healthy(m), NEW path \in PathType, NEW cur \in Inodes, Legal(m, cur),
         NEW d, d = SuperDir(m, path, cur), d # ERROR, IsDir(m, d), FileName(path) \in Names,
         \/ m.inode[d].size < NUM_DIRECT * UNITS
         \/ Found(m, d, FileName(path)) \/ Vacant(m, d) # {},
         m.b_head # << >>, NEW t, t = Resolve(m, path, cur),
         t = 0 => m.i_head # << >>, ~IsDir(m, t),
         NEW r, r = CreateFile(m, path, cur, ERROR)
  PROVE  /\ Healthy(r.fs) /\ \A x \in Inodes : Legal(m, x) => Legal(r.fs, x)
         /\ r.ret \in Inodes /\ Legal(r.fs, r.ret)
         /\ \A x \in Inodes : Legal(m, x) /\ x # t => r.fs.inode[x].size >= m.inode[x].size
<1>1. /\ d \in Inodes /\ Dir(m, d) /\ t \in Inodes /\ (t = 0 \/ Legal(m, t))
      /\ t # 0 => r.fs = Clear(m, t) /\ r.ret = t
      /\ t = 0 => Creates(m, r.fs, d, FileName(path)) /\ r.ret = NextInode(m)
  BY CreateDoes
<1>2. CASE t # 0
  <2>1. /\ Healthy(r.fs) /\ \A x \in Inodes : Legal(m, x) => Legal(r.fs, x)
        /\ \A x \in Inodes : x # t => r.fs.inode[x].size >= m.inode[x].size
    BY <1>1, <1>2, FileEmptied
  <2> QED
    BY <1>1, <1>2, <2>1
<1>3. CASE t = 0
  <2> DEFINE j == NextInode(m)
  <2>1. PICK k \in Nat, f \in FsType :
          Enters(m, f, d, k, j, FileName(path)) /\ r.fs = MakeFile(f)
    BY <1>1, <1>3 DEF Creates
  <2>2. /\ Sound(f) /\ Whole(f, d) /\ f.i_head = m.i_head
        /\ Named(m, f, d, k, j, FileName(path))
    BY <2>1 DEF Enters
  <2>3. m.i_head # << >> /\ j \in Inodes /\ r.ret = j
    BY <1>1, <1>3, HealthyIs, NextTypes DEF NextInode
  <2> HIDE DEF j
  <2>4. /\ Healthy(r.fs) /\ Legal(r.fs, j)
        /\ \A x \in Inodes : Legal(m, x) => Legal(r.fs, x)
        /\ \A x \in Inodes : x # j => r.fs.inode[x].size >= m.inode[x].size
        /\ ~Legal(m, j)
    BY <1>1, <2>1, <2>2, <2>3, FileMade DEF j
  <2> QED
    BY <2>3, <2>4
<1> QED
  BY <1>2, <1>3

LEMMA StartLegal ==
  ASSUME NEW m, Healthy(m), NEW path, NEW cur \in Inodes, Legal(m, cur)
  PROVE  Start(path, cur) \in Inodes /\ Legal(m, Start(path, cur))
<1>1. Legal(m, ROOTINODE) /\ ROOTINODE \in Inodes
  BY HealthyIs, DirFacts, ConstantFacts DEF RootInv
<1> QED
  BY <1>1 DEF Start

(* The entry of a link, and then nlink.                                       *)
Counted(f, i) == [f EXCEPT !.inode[i].nlink = @ + 1]

LEMMA LinkMade ==
  ASSUME NEW m, Healthy(m), NEW d \in Inodes, Dir(m, d),
         NEW f, Sound(f), Whole(f, d), f.i_head = m.i_head,
         NEW i \in Inodes, Legal(m, i), ~IsDir(m, i),
         NEW k \in Nat, NEW name \in Names, Named(m, f, d, k, i, name),
         NEW m2, m2 = Counted(f, i)
  PROVE  /\ Healthy(m2)
         /\ \A x \in Inodes : Legal(m, x) => Legal(m2, x)
         /\ \A x \in Inodes : m2.inode[x].size >= m.inode[x].size
<1>1. m \in FsType /\ f \in FsType /\ DataInv(m) /\ InodesInv(m) /\ RootInv(m)
  BY HealthyIs DEF Sound
<1> DEFINE y == f.inode[i].nlink + 1
<1>2. y \in Int /\ m2 = [f EXCEPT !.inode = [f.inode EXCEPT ![i].nlink = y]]
  BY <1>1, SMTT(30) DEF FsType, InodeType, Counted
<1> HIDE DEF y
<1>3. /\ Sound(m2) /\ \A x \in Inodes : Alike(f, m2, x)
      /\ m2.i_head = m.i_head
  BY <1>2, NlinkSound
<1>4. i # d /\ i # ROOTINODE /\ ~Dir(m, i)
  BY <1>1 DEF Dir, RootInv
<1>5. Alike(m, m2, i)
  <2>1. Alike(m, f, i)
    BY <1>4 DEF Named
  <2> QED
    BY <1>1, <1>3, <2>1, AlikeTwice DEF Sound
<1>6. \A x \in Inodes : IsFree(m2, x) <=> IsFree(m, x)
  BY <1>3 DEF IsFree
<1>7. Known(m2, i) /\ ~IsDir(m2, i) /\ DataOf(m2, i) /\ m2.inode[i].size >= m.inode[i].size
  <2>1. DataOf(m2, i)
    BY <1>1, <1>3, <1>5, AlikeKeeps DEF DataInv, Sound
  <2>2. m.inode[i].size \in Nat
    BY <1>1, SizeNat
  <2> QED
    BY <1>5, <1>6, <2>1, <2>2 DEF Legal, Known, IsDir, Alike
<1>8. IsInjective1(m2.i_head)
  BY <1>1, <1>3 DEF InodesInv
<1>9. (IsDir(m2, i) => NewEntries(m2, i, d) /\ IsFree(m, i)) /\ \A x \in Inodes : x # i => Alike(f, m2, x)
  BY <1>3, <1>7
<1>10. /\ Healthy(m2) /\ Legal(m2, i)
       /\ \A x \in Inodes : Legal(m, x) => Legal(m2, x)
       /\ \A x \in Inodes : x # i => m2.inode[x].size >= m.inode[x].size
  <2>1. \A x \in Inodes : IsFree(m2, x) => IsFree(m, x)
    BY <1>6
  <2>2. Sound(m2) /\ i # ROOTINODE /\ ~Dir(m, i) /\ Known(m2, i) /\ DataOf(m2, i)
    BY <1>3, <1>4, <1>7
  <2> QED
    BY <1>8, <1>9, <2>1, <2>2, EntryStep
<1> QED
  BY <1>7, <1>10

(* handle_link walks the rest of the new path from where both paths start.     *)
Relative(path) == [abs |-> FALSE, parts |-> path.parts]

(* A new entry for a file in directory d, and then nlink.                     *)
Links(m, m2, d, i, name) ==
  \E k \in Nat, f \in FsType : Enters(m, f, d, k, i, name) /\ m2 = Counted(f, i)

LEMMA LinkDoes ==
  ASSUME NEW m, Healthy(m), NEW old \in PathType, NEW new \in PathType,
         NEW cur \in Inodes, Legal(m, cur),
         NEW path, path = Relative(new),
         NEW d, d = SuperDir(m, path, Start(new, Start(old, cur))), d # ERROR, IsDir(m, d),
         FileName(new) \in Names,
         \/ m.inode[d].size < NUM_DIRECT * UNITS
         \/ Found(m, d, FileName(new)) \/ Vacant(m, d) # {},
         m.b_head # << >>,
         NEW r, r = LinkFile(m, old, new, cur)
  PROVE  /\ d \in Inodes /\ Dir(m, d)
         /\ \/ r.fs = m
            \/ \E i \in Inodes \ {0} :
                 /\ i = Resolve(m, old, cur) /\ Legal(m, i) /\ ~IsDir(m, i)
                 /\ Links(m, r.fs, d, i, FileName(new))
<1> DEFINE name == FileName(new)
           i == Resolve(m, old, cur)
           at == Start(new, Start(old, cur))
           e == EntryFor(m, d, name)
           j == e.fs.cell[e.b][e.c].inum
           named == SetEntry(e, i, name)
           c == CreateFile(m, path, at, i)
<1>1. m \in FsType /\ Sound(m)
  BY HealthyIs
<1>2. /\ path \in PathType /\ FileName(path) = name /\ ~path.abs
      /\ at \in Inodes /\ Legal(m, at) /\ name \in PathNames /\ name \in Names
  BY StartLegal DEF PathType, FileName, Parts, PathNames, Relative
<1>3. i \in Inodes /\ (i = 0 \/ Legal(m, i))
  BY TargetIs
<1>4. d \in Inodes /\ Dir(m, d) /\ Whole(m, d)
  BY <1>2, TargetIs, DirFacts
<1>5. c = IF j # 0 THEN Fail(e.fs) ELSE [fs |-> named, ret |-> i]
  <2>1. i # ERROR /\ ~(i = ERROR)
    BY <1>3, ConstantFacts
  <2> HIDE DEF i
  <2> QED
    BY <1>2, <2>1, Zenon DEF CreateFile
<1>6. r = IF i = 0 THEN Fail(m)
          ELSE IF IsDir(m, i) THEN Fail(m)
          ELSE IF c.ret = ERROR THEN c
          ELSE [fs |-> Counted(c.fs, i), ret |-> 0]
  BY DEF LinkFile, Relative, Counted
<1>7. j # 0 => e.fs = m
  <2>1. e = EntryFor(m, d, name) /\ j = EntryNumber(m, d, name)
    BY DEF EntryNumber
  <2> HIDE DEF e, j, name
  <2> QED
    BY <1>4, <2>1, EntryThere
<1> HIDE DEF i, j, c, at
<1>8. CASE i = 0 \/ IsDir(m, i)
  <2>1. r.fs = m
    BY <1>6, <1>8 DEF Fail
  <2> QED
    BY <1>4, <2>1
<1>9. CASE i # 0 /\ ~IsDir(m, i) /\ j # 0
  <2>1. r.fs = m
    BY <1>5, <1>6, <1>7, <1>9 DEF Fail
  <2> QED
    BY <1>4, <2>1
<1>10. CASE i # 0 /\ ~IsDir(m, i) /\ j = 0
  <2>1. c.fs = named /\ c.ret # ERROR
    BY <1>3, <1>5, <1>10, ConstantFacts
  <2>2. r.fs = Counted(named, i)
    BY <1>6, <1>10, <2>1
  <2>3. \E k \in Nat : Enters(m, named, d, k, i, name)
    <3>1. e.fs.cell[e.b][e.c].inum = 0
      BY <1>10 DEF j
    <3>2. i \in Inodes /\ name \in PathNames /\ Sound(m) /\ d \in Inodes /\ Whole(m, d)
      BY <1>1, <1>2, <1>3, <1>4
    <3> HIDE DEF name, e
    <3>3. e = EntryFor(m, d, name)
          /\ (m.inode[d].size < NUM_DIRECT * UNITS \/ Found(m, d, name) \/ Vacant(m, d) # {})
      BY DEF e, name
    <3> QED
      BY <3>1, <3>2, <3>3, EntryEnters
  <2> HIDE DEF named, e
  <2>4. PICK k \in Nat : Enters(m, named, d, k, i, name)
    BY <2>3
  <2>5. Links(m, r.fs, d, i, name)
    BY <2>2, <2>4 DEF Links, Enters, Sound
  <2> QED
    BY <1>3, <1>4, <1>10, <2>5 DEF name, i
<1> QED
  BY <1>8, <1>9, <1>10

LEMMA LinkHealthy ==
  ASSUME NEW m, Healthy(m), NEW old \in PathType, NEW new \in PathType,
         NEW cur \in Inodes, Legal(m, cur),
         NEW path, path = Relative(new),
         NEW d, d = SuperDir(m, path, Start(new, Start(old, cur))), d # ERROR, IsDir(m, d),
         FileName(new) \in Names,
         \/ m.inode[d].size < NUM_DIRECT * UNITS
         \/ Found(m, d, FileName(new)) \/ Vacant(m, d) # {},
         m.b_head # << >>,
         NEW r, r = LinkFile(m, old, new, cur)
  PROVE  /\ Healthy(r.fs) /\ \A x \in Inodes : Legal(m, x) => Legal(r.fs, x)
         /\ \A x \in Inodes : r.fs.inode[x].size >= m.inode[x].size
<1>1. m \in FsType /\ \A x \in Inodes : m.inode[x].size >= m.inode[x].size
  BY HealthyIs, SizeNat
<1>2. /\ d \in Inodes /\ Dir(m, d)
      /\ \/ r.fs = m
         \/ \E i \in Inodes \ {0} :
              /\ i = Resolve(m, old, cur) /\ Legal(m, i) /\ ~IsDir(m, i)
              /\ Links(m, r.fs, d, i, FileName(new))
  BY LinkDoes
<1>3. CASE r.fs = m
  BY <1>1, <1>3
<1>4. CASE r.fs # m
  <2>1. PICK i \in Inodes \ {0} : /\ Legal(m, i) /\ ~IsDir(m, i)
                                  /\ Links(m, r.fs, d, i, FileName(new))
    BY <1>2, <1>4
  <2>2. PICK k \in Nat, f \in FsType :
          Enters(m, f, d, k, i, FileName(new)) /\ r.fs = Counted(f, i)
    BY <2>1 DEF Links
  <2>3. /\ Sound(f) /\ Whole(f, d) /\ f.i_head = m.i_head
        /\ Named(m, f, d, k, i, FileName(new))
    BY <2>2 DEF Enters
  <2> QED
    BY <1>2, <2>1, <2>2, <2>3, LinkMade
<1> QED
  BY <1>3, <1>4

(* A new directory in directory d.                                            *)
MakesDir(m, m2, d, name) ==
  \E k \in Nat, f \in FsType :
    /\ Enters(m, f, d, k, NextInode(m), name) /\ f.b_head # << >>
    /\ m2 = NewDir(f, NextInode(m), d, NextBlock(f))

LEMMA MkDirDoes ==
  ASSUME NEW m, Healthy(m), NEW path \in PathType, NEW cur \in Inodes, Legal(m, cur),
         NEW d, d = SuperDir(m, path, cur), d # ERROR, IsDir(m, d), FileName(path) \in Names,
         \/ m.inode[d].size < NUM_DIRECT * UNITS
         \/ Found(m, d, FileName(path)) \/ Vacant(m, d) # {},
         Len(m.b_head) >= 2, NEW t, t = Resolve(m, path, cur),
         t = 0 => m.i_head # << >>,
         NEW r, r = MakeDir(m, path, cur)
  PROVE  /\ d \in Inodes /\ Dir(m, d)
         /\ t # 0 => r.fs = m
         /\ t = 0 => MakesDir(m, r.fs, d, FileName(path))
<1> DEFINE name == FileName(path)
           e == EntryFor(m, d, name)
           j == e.fs.cell[e.b][e.c].inum
           i == NextInode(e.fs)
           named == SetEntry(e, i, name)
<1>1. /\ m \in FsType /\ Sound(m)
      /\ d \in Inodes /\ Dir(m, d) /\ Whole(m, d) /\ name \in PathNames /\ name \in Names
      /\ t = (IF Found(m, d, name) THEN Inum(m, d, name) ELSE 0)
  <2>1. m \in FsType /\ Sound(m)
    BY HealthyIs
  <2>2. d \in Inodes /\ Dir(m, d) /\ t = (IF Found(m, d, name) THEN Inum(m, d, name) ELSE 0)
    BY TargetIs
  <2>3. Whole(m, d)
    BY <2>2, DirFacts
  <2> QED
    BY <2>1, <2>2, <2>3 DEF PathNames
<1>2. r = IF j # 0 THEN Fail(e.fs) ELSE [fs |-> NewDir(named, i, d, NextBlock(e.fs)), ret |-> 0]
  BY <1>1, MakeDirCases, Zenon
<1>3. /\ j # 0 => e.fs = m /\ Found(m, d, name) /\ j = Inum(m, d, name)
      /\ j = 0 => ~Found(m, d, name) \/ Inum(m, d, name) = 0
  <2>1. e = EntryFor(m, d, name) /\ j = EntryNumber(m, d, name)
    BY DEF EntryNumber
  <2> HIDE DEF e, j, name
  <2> QED
    BY <1>1, <2>1, EntryThere
<1>4. m.b_head # << >> /\ Rest(m.b_head) # << >>
  <2> DEFINE q == m.b_head
             r1 == Tail(q)
  <2>1. q \in Seq(Blocks) /\ Len(q) \in Nat /\ Len(q) >= 2
    BY <1>1 DEF FsType
  <2> HIDE DEF q
  <2>2. q # << >> /\ r1 \in Seq(Blocks) /\ Len(r1) = Len(q) - 1
    BY <2>1
  <2> HIDE DEF r1
  <2>3. r1 # << >>
    <3>1. Len(r1) # 0
      BY <2>1, <2>2
    <3> QED
      BY <3>1
  <2> QED
    BY <2>2, <2>3 DEF Rest, r1, q
<1> HIDE DEF j, name
<1>5. CASE j # 0
  <2>1. r.fs = m
    BY <1>2, <1>3, <1>5 DEF Fail
  <2>2. t # 0
    BY <1>1, <1>3, <1>5
  <2> QED
    BY <1>1, <2>1, <2>2
<1>6. CASE j = 0
  <2>1. t = 0
    BY <1>1, <1>3, <1>6
  <2>2. e.fs.i_head = m.i_head /\ i = NextInode(m) /\ i \in Inodes
    <3>1. \A n \in Inodes : \A f : f = SetEntry(e, n, name) => e.fs.i_head = m.i_head
      BY <1>1, <1>4, <1>6, EntryEnters DEF j, name
    <3>2. e.fs.i_head = m.i_head
      BY <3>1, ConstantFacts
    <3> QED
      BY <1>1, <3>2, NextTypes DEF NextInode
  <2> HIDE DEF i
  <2>3. (\E k \in Nat : Enters(m, named, d, k, i, name)) /\ e.fs.b_head = named.b_head
    BY <1>1, <1>4, <1>6, <2>2, EntryEnters DEF j, name
  <2> HIDE DEF named, e
  <2>4. PICK k \in Nat : Enters(m, named, d, k, i, name)
    BY <2>3
  <2>5. NextBlock(e.fs) = NextBlock(named) /\ named.b_head # << >> /\ named \in FsType
    BY <1>4, <2>3, <2>4 DEF NextBlock, Enters, Sound
  <2>6. r.fs = NewDir(named, i, d, NextBlock(named))
    BY <1>2, <1>6, <2>5
  <2>7. MakesDir(m, r.fs, d, name)
    BY <2>2, <2>4, <2>5, <2>6 DEF MakesDir
  <2> QED
    BY <1>1, <2>1, <2>7 DEF name
<1> QED
  BY <1>5, <1>6

LEMMA MkDirHealthy ==
  ASSUME NEW m, Healthy(m), NEW path \in PathType, NEW cur \in Inodes, Legal(m, cur),
         NEW d, d = SuperDir(m, path, cur), d # ERROR, IsDir(m, d), FileName(path) \in Names,
         \/ m.inode[d].size < NUM_DIRECT * UNITS
         \/ Found(m, d, FileName(path)) \/ Vacant(m, d) # {},
         Len(m.b_head) >= 2, NEW t, t = Resolve(m, path, cur),
         t = 0 => m.i_head # << >>,
         NEW r, r = MakeDir(m, path, cur)
  PROVE  /\ Healthy(r.fs) /\ \A x \in Inodes : Legal(m, x) => Legal(r.fs, x)
         /\ \A x \in Inodes : Legal(m, x) => r.fs.inode[x].size >= m.inode[x].size
<1>1. m \in FsType /\ \A x \in Inodes : m.inode[x].size >= m.inode[x].size
  BY HealthyIs, SizeNat
<1>2. /\ d \in Inodes /\ Dir(m, d)
      /\ t # 0 => r.fs = m
      /\ t = 0 => MakesDir(m, r.fs, d, FileName(path))
  BY MkDirDoes
<1>3. CASE t # 0
  BY <1>1, <1>2, <1>3
<1>4. CASE t = 0
  <2> DEFINE i == NextInode(m)
  <2>1. PICK k \in Nat, f \in FsType :
          /\ Enters(m, f, d, k, i, FileName(path)) /\ f.b_head # << >>
          /\ r.fs = NewDir(f, i, d, NextBlock(f))
    BY <1>2, <1>4 DEF MakesDir
  <2>2. /\ Sound(f) /\ Whole(f, d) /\ f.i_head = m.i_head
        /\ Named(m, f, d, k, i, FileName(path))
    BY <2>1 DEF Enters
  <2> HIDE DEF i
  <2>3. /\ Healthy(r.fs)
        /\ \A x \in Inodes : Legal(m, x) => Legal(r.fs, x)
        /\ \A x \in Inodes : x # i => r.fs.inode[x].size >= m.inode[x].size
        /\ ~Legal(m, i)
    BY <1>2, <1>4, <2>1, <2>2, DirMade DEF i
  <2> QED
    BY <2>3
<1> QED
  BY <1>3, <1>4

-----------------------------------------------------------------------------
(* The handlers that remove an entry *)

LEMMA RemovedLeft ==
  ASSUME NEW m, Healthy(m), NEW f \in FsType, NEW m2, NEW d \in Inodes, Dir(m, d),
         Alike(m, f, d), NEW k \in Nat, k < m.inode[d].size, Removed(f, m2, d, k), Whole(m2, d)
  PROVE  Left(m, m2, d, k)
<1> DEFINE s == m.inode[d].size
<1>1. m \in FsType /\ DirOf(m, d) /\ s \in Nat
  BY HealthyIs, DirFacts DEF DirInv
<1>2. /\ f.inode[d].size = s /\ f.inode[d].type = m.inode[d].type
      /\ \A l \in Nat : l < s => CellAt(f, d, l) = CellAt(m, d, l)
  BY <1>1, AlikeDir DEF Alike
<1>3. /\ m2.inode = f.inode
      /\ CellAt(m2, d, k).inum = 0 /\ CellAt(m2, d, k).name = CellAt(f, d, k).name
      /\ \A l \in 0 .. s - 1 : l # k => CellAt(m2, d, l) = CellAt(f, d, l)
  BY <1>2 DEF Removed
<1>4. \A l \in 0 .. s - 1 : l \in Nat /\ l < s
  BY <1>1
<1> QED
  BY <1>2, <1>3, <1>4 DEF Left

(* The file of an entry loses a link, or its directory is gone, and then the  *)
(* entry goes.                                                                *)
LEMMA EntryGone ==
  ASSUME NEW m, Healthy(m), NEW f, Sound(f), NEW m2, Sound(m2),
         NEW d \in Inodes, Dir(m, d), NEW k \in Nat, NEW i \in Inodes \ {0}, Entry(m, d, k, i),
         Removed(f, m2, d, k), Whole(m2, d),
         \A x \in Inodes : x # i => Alike(m, f, x),
         f.inode[i].type = m.inode[i].type, f.inode[i].size \in {0, m.inode[i].size},
         IsDir(m, i) => m.inode[i].size <= 2 /\ f.inode[i].size = 0,
         ~IsDir(m, i) => DataOf(m2, i) /\ ~IsFree(m2, i),
         \A x \in Inodes : x # i /\ IsFree(m2, x) => IsFree(m, x),
         IsInjective1(m2.i_head)
  PROVE  /\ Healthy(m2)
         /\ \A x \in Inodes : Legal(m, x) /\ (x # i \/ ~IsDir(m, i)) => Legal(m2, x)
         /\ \A x \in Inodes : x # i => m2.inode[x].size >= m.inode[x].size
<1>1. /\ m \in FsType /\ f \in FsType /\ m2 \in FsType
      /\ DataInv(m) /\ InodesInv(m) /\ ChildrenInv(m)
  BY HealthyIs DEF Sound
<1>2. /\ m.inode[d].size \in Nat /\ m.inode[d].size > 2 /\ k < m.inode[d].size
      /\ k \in Below(m, d)
  <2>1. k \in 2 .. m.inode[d].size - 1 /\ k \in Below(m, d)
    BY DEF Entry, Below
  <2> QED
    BY <1>1, <2>1, SizeNat
<1>3. i # d /\ ChildOf(m, d, i, k)
  <2>1. i # d
    BY <1>2 DEF Dir
  <2> QED
    BY <1>1, <2>1 DEF ChildrenInv
<1>4. Left(m, m2, d, k)
  BY <1>1, <1>2, <1>3, RemovedLeft
<1>5. \A x \in Inodes : x # i /\ x # d => Alike(m, m2, x)
  <2>1. \A x \in Inodes : x # d => Alike(f, m2, x)
    BY DEF Removed
  <2> QED
    BY <1>1, <2>1, AlikeTwice
<1>6. /\ \A x \in Inodes : m2.inode[x] = f.inode[x]
      /\ \A x \in Inodes : m2.inode[x].type = m.inode[x].type
      /\ \A x \in Inodes : x # i => m2.inode[x].size = m.inode[x].size
      /\ \A x \in Inodes : IsDir(m2, x) <=> IsDir(m, x)
  <2>1. m2.inode = f.inode
    BY DEF Removed
  <2>2. \A x \in Inodes : x # i => /\ f.inode[x].type = m.inode[x].type
                                   /\ f.inode[x].size = m.inode[x].size
    BY DEF Alike
  <2> QED
    BY <2>1, <2>2 DEF IsDir
<1>7. /\ \A x \in Inodes : x # i /\ Known(m, x) => Known(m2, x)
      /\ ~IsDir(m, i) => Known(m2, i)
  BY <1>3, <1>6 DEF Known, ChildOf, Legal
<1>8. /\ DirInv(m2) /\ TreeInv(m2)
      /\ \A x \in Inodes : Legal(m, x) /\ (x # i \/ ~IsDir(m, i)) => Legal(m2, x)
  BY <1>1, <1>4, <1>5, <1>6, <1>7, EntryUnmade
<1>9. DataInv(m2)
  <2>1. \A x \in Inodes : x # i /\ x # d => DataOf(m2, x)
    BY <1>1, <1>5, AlikeKeeps DEF DataInv
  <2>2. DataOf(m2, d)
    BY <1>6 DEF DataOf, Dir, IsDir, INODE_DIRECTORY, INODE_REGULAR
  <2>3. DataOf(m2, i)
    <3>1. CASE ~IsDir(m, i)
      BY <3>1
    <3>2. CASE IsDir(m, i)
      BY <1>6, <3>2 DEF DataOf, IsDir, INODE_DIRECTORY, INODE_REGULAR
    <3> QED
      BY <3>1, <3>2
  <2> QED
    BY <2>1, <2>2, <2>3 DEF DataInv
<1>10. InodesInv(m2)
  <2>1. \A x \in Inodes : IsFree(m2, x) => x \in Scanned \ {ROOTINODE} /\ m2.inode[x].size = 0
    <3>1. IsFree(m2, i) => i \in Scanned \ {ROOTINODE} /\ m2.inode[i].size = 0
      BY <1>3, <1>6 DEF ChildOf, Legal, Known
    <3> QED
      BY <1>1, <1>6, <3>1 DEF InodesInv
  <2>2. \A x \in Inodes : m2.inode[x].size > 0 =>
          x \in Scanned /\ m2.inode[x].type \in {INODE_DIRECTORY, INODE_REGULAR}
    <3>1. m2.inode[i].type \in {INODE_DIRECTORY, INODE_REGULAR} /\ i \in Scanned
      BY <1>3, <1>6 DEF ChildOf, Legal, Known
    <3> QED
      BY <1>1, <1>6, <3>1 DEF InodesInv
  <2>3. ~IsDir(m2, 0)
    BY <1>1, <1>6, ConstantFacts DEF InodesInv
  <2> QED
    BY <2>1, <2>2, <2>3 DEF InodesInv
<1>11. \A x \in Inodes : x # i => m2.inode[x].size >= m.inode[x].size
  BY <1>1, <1>6, SizeNat
<1> QED
  BY <1>8, <1>9, <1>10, <1>11 DEF Healthy, Safe

(* A file that has no size has no data.                                       *)
LEMMA NoData ==
  ASSUME NEW m, NEW i, m.inode[i].size = 0
  PROVE  Whole(m, i) /\ DataOf(m, i)
<1>1. \A n \in Nat : ~(n * UNITS < 0)
  <2> SUFFICES ASSUME NEW n \in Nat PROVE ~(n * UNITS < 0)
    OBVIOUS
  <2>1. n * UNITS \in Nat
    BY UnitFacts
  <2> QED
    BY <2>1
<1>2. Whole(m, i)
  BY <1>1 DEF Whole
<1>3. 0 .. m.inode[i].size - 1 = {}
  OBVIOUS
<1> QED
  BY <1>2, <1>3 DEF DataOf

(* The file loses a link, and its blocks when there is none left.             *)
Fewer(m, t) == [m EXCEPT !.inode[t].nlink = @ - 1]
Dropped(m, t) == IF Fewer(m, t).inode[t].nlink = 0 THEN Clear(Fewer(m, t), t) ELSE Fewer(m, t)

DroppedList(m, f, t) == f.b_head \in {m.b_head, Reverse(BlocksOf(m, t)) \o m.b_head}

LEMMA DroppedFacts ==
  ASSUME NEW m, Sound(m), NEW t \in Inodes, NEW f, f = Dropped(m, t)
  PROVE  /\ Sound(f) /\ \A x \in Inodes : x # t => Alike(m, f, x)
         /\ f.i_head = m.i_head /\ f.bad = m.bad /\ f.inode[t].type = m.inode[t].type
         /\ f.inode[t].size = 0 \/ Alike(m, f, t)
         /\ f.inode[t].nlink = m.inode[t].nlink - 1 /\ OnlyInode(m, f, t)
         /\ \A x \in Inodes : f.inode[x].direct = m.inode[x].direct
         /\ DroppedList(m, f, t) /\ f.cell = m.cell
<1> DEFINE less == Fewer(m, t)
           y == m.inode[t].nlink - 1
<1>1. y \in Int /\ less = [m EXCEPT !.inode = [m.inode EXCEPT ![t].nlink = y]] /\ m \in FsType
  BY DEF Fewer, Sound, FsType, InodeType
<1>2. f = IF less.inode[t].nlink = 0 THEN Clear(less, t) ELSE less
  BY DEF Dropped
<1> HIDE DEF less
<1>3. /\ Sound(less) /\ (\A x \in Inodes : Alike(m, less, x)) /\ less \in FsType
      /\ less.i_head = m.i_head /\ less.bad = m.bad /\ less.b_head = m.b_head
      /\ OnlyInode(m, less, t) /\ less.inode[t].nlink = y /\ less.cell = m.cell
      /\ \A x \in Inodes : less.inode[x].direct = m.inode[x].direct
  <2> HIDE DEF y
  <2>1. /\ Sound(less) /\ (\A x \in Inodes : Alike(m, less, x))
        /\ less.i_head = m.i_head /\ less.bad = m.bad /\ less.b_head = m.b_head
        /\ OnlyInode(m, less, t) /\ less.inode[t].nlink = y /\ less.cell = m.cell
        /\ \A x \in Inodes : less.inode[x].direct = m.inode[x].direct
    BY <1>1, NlinkSound, SMTT(30)
  <2> QED
    BY <2>1 DEF Sound
<1> HIDE DEF y
<1>4. CASE less.inode[t].nlink # 0
  <2>1. f = less
    BY <1>2, <1>4
  <2> QED
    BY <1>3, <2>1 DEF Alike, y, DroppedList
<1>5. CASE less.inode[t].nlink = 0
  <2>1. f = Clear(less, t)
    BY <1>2, <1>5
  <2>2. /\ Sound(f) /\ (\A x \in Inodes : x # t => Alike(less, f, x))
        /\ f.inode[t].size = 0 /\ f.inode[t].type = less.inode[t].type
        /\ f.inode[t].nlink = less.inode[t].nlink /\ OnlyInode(less, f, t)
        /\ f.b_head = Reverse(BlocksOf(less, t)) \o less.b_head
        /\ f.i_head = less.i_head /\ f.bad = less.bad /\ f.cell = less.cell
        /\ \A x \in Inodes : f.inode[x].direct = less.inode[x].direct
    <3>1. /\ Sound(f) /\ (\A x \in Inodes : x # t => Alike(less, f, x))
          /\ f.inode[t].size = 0 /\ f.inode[t].type = less.inode[t].type
          /\ f.inode[t].nlink = less.inode[t].nlink /\ OnlyInode(less, f, t)
          /\ f.i_head = less.i_head /\ f.bad = less.bad /\ f.cell = less.cell
          /\ \A x \in Inodes : f.inode[x].direct = less.inode[x].direct
      BY <1>3, <2>1, ClearSound
    <3>2. f.b_head = Reverse(BlocksOf(less, t)) \o less.b_head
      <4>1. less \in FsType
        BY <1>3
      <4> QED BY ONLY <4>1, t \in Inodes, <2>1, ClearFacts
    <3> QED
      BY <3>1, <3>2
  <2>3. \A x \in Inodes : x # t => Alike(m, f, x)
    BY <1>1, <1>3, <2>2, AlikeTwice DEF Sound
  <2>4. BlocksOf(less, t) = BlocksOf(m, t)
    BY <1>1, <1>3, BlocksAlike
  <2>5. OnlyInode(m, f, t)
    BY <1>3, <2>2 DEF OnlyInode
  <2> QED
    BY <1>3, <2>2, <2>3, <2>4, <2>5 DEF Alike, y, DroppedList
<1> QED
  BY <1>4, <1>5

(* An entry of directory d for file t goes.                                   *)
Unlinks(m, m2, d, t, name) ==
  \E k \in Nat :
    /\ Entry(m, d, k, t) /\ CellAt(m, d, k).name = name
    /\ Sound(m2) /\ Whole(m2, d) /\ Removed(Dropped(m, t), m2, d, k)
    /\ m2.b_head = Dropped(m, t).b_head /\ m2.i_head = m.i_head /\ m2.bad = m.bad
    /\ SameNames(m, m2)

LEMMA UnlinkDoes ==
  ASSUME NEW m, Healthy(m), NEW path \in PathType, NEW cur \in Inodes, Legal(m, cur),
         NEW d, d = SuperDir(m, path, cur), d # ERROR, IsDir(m, d), FileName(path) \in Names,
         NEW t, t = Resolve(m, path, cur), t # 0, ~IsDir(m, t),
         NEW r, r = UnlinkFile(m, path, cur)
  PROVE  /\ d \in Inodes /\ Dir(m, d) /\ t \in Inodes \ {0} /\ Legal(m, t) /\ t # d
         /\ Unlinks(m, r.fs, d, t, FileName(path))
<1> DEFINE name == FileName(path)
           k == Min(Matching(m, d, name))
           b == NthBlock(m, d, k \div UNITS)
           less == [m EXCEPT !.inode[t].nlink = @ - 1]
           done == IF less.inode[t].nlink = 0 THEN Clear(less, t) ELSE less
           m2 == [done EXCEPT !.cell[b][k % UNITS].inum = 0]
<1>1. /\ m \in FsType /\ Sound(m)
      /\ d \in Inodes /\ Dir(m, d) /\ Whole(m, d)
      /\ t \in Inodes \ {0} /\ Legal(m, t)
      /\ t = IF Found(m, d, name) THEN Inum(m, d, name) ELSE 0
  BY HealthyIs, TargetIs, DirFacts
<1>2. Found(m, d, name) /\ t = Inum(m, d, name)
  BY <1>1
<1>3. /\ k \in Nat /\ k < m.inode[d].size /\ CellAt(m, d, k).inum = t
      /\ Entry(m, d, k, t) /\ CellAt(m, d, k).name = name
  BY <1>1, <1>2, InumCases
<1>4. r.fs = m2
  <2>1. r = IF d = ERROR THEN Undefined(m)
            ELSE IF ~IsDir(m, d) \/ ~Found(m, d, name) THEN Fail(m)
            ELSE LET i == CellAt(m, d, k).inum
                     l == [m EXCEPT !.inode[i].nlink = @ - 1]
                     f == IF l.inode[i].nlink = 0 THEN Clear(l, i) ELSE l
                 IN  [fs |-> [f EXCEPT !.cell[b][k % UNITS].inum = 0], ret |-> 0]
    BY Zenon DEF UnlinkFile
  <2>2. r = LET i == CellAt(m, d, k).inum
                l == [m EXCEPT !.inode[i].nlink = @ - 1]
                f == IF l.inode[i].nlink = 0 THEN Clear(l, i) ELSE l
            IN  [fs |-> [f EXCEPT !.cell[b][k % UNITS].inum = 0], ret |-> 0]
    BY <1>1, <1>2, <2>1, Zenon
  <2>3. CellAt(m, d, k).inum = t
    BY <1>3
  <2>4. r = [fs |-> m2, ret |-> 0]
    BY <2>2, <2>3, Zenon
  <2> HIDE DEF m2
  <2> QED
    BY <2>4
<1>5. t # d
  BY <1>1 DEF Dir
<1>6. done = Dropped(m, t)
  BY DEF Dropped, Fewer
<1> HIDE DEF m2, k, name, done
<1>7. /\ Sound(done) /\ (\A x \in Inodes : x # t => Alike(m, done, x))
      /\ done.i_head = m.i_head /\ done.bad = m.bad /\ done.cell = m.cell
  <2>1. Sound(m) /\ t \in Inodes
    BY <1>1
  <2> QED
    BY <1>6, <2>1, DroppedFacts
<1>8. /\ Sound(m2) /\ Whole(m2, d) /\ Removed(done, m2, d, k)
      /\ m2.i_head = m.i_head /\ m2.b_head = done.b_head /\ m2.bad = m.bad
      /\ SameNames(m, m2)
  <2>1. /\ b = NthBlock(done, d, k \div UNITS) /\ k < done.inode[d].size
        /\ Whole(done, d) /\ done \in FsType
    <3>1. Alike(m, done, d) /\ done \in FsType
      BY <1>1, <1>5, <1>7 DEF Sound
    <3>2. Whole(done, d)
      BY <1>1, <3>1, AlikeKeeps
    <3>3. k \div UNITS \in Nat
      BY <1>1, <1>3, CellFacts
    <3> QED
      BY <1>3, <3>1, <3>2, <3>3 DEF Alike
  <2> HIDE DEF b
  <2>2. m2 = [done EXCEPT !.cell[b][k % UNITS].inum = 0]
    BY DEF m2
  <2> QED
    <3>1. /\ Sound(m2) /\ Whole(m2, d) /\ Removed(done, m2, d, k)
          /\ m2.i_head = done.i_head /\ m2.b_head = done.b_head /\ m2.bad = done.bad
          /\ SameNames(done, m2)
      BY <1>1, <1>3, <1>7, <2>1, <2>2, RemovedEntry
    <3> QED
      BY <1>7, <3>1 DEF SameNames
<1>9. Unlinks(m, r.fs, d, t, name)
  BY <1>3, <1>4, <1>6, <1>8 DEF Unlinks
<1> QED
  BY <1>1, <1>5, <1>9 DEF name

LEMMA UnlinkHealthy ==
  ASSUME NEW m, Healthy(m), NEW path \in PathType, NEW cur \in Inodes, Legal(m, cur),
         NEW d, d = SuperDir(m, path, cur), d # ERROR, IsDir(m, d), FileName(path) \in Names,
         NEW t, t = Resolve(m, path, cur), t # 0, ~IsDir(m, t),
         NEW r, r = UnlinkFile(m, path, cur)
  PROVE  /\ Healthy(r.fs) /\ \A x \in Inodes : Legal(m, x) => Legal(r.fs, x)
         /\ \A x \in Inodes : x # t => r.fs.inode[x].size >= m.inode[x].size
<1>1. /\ m \in FsType /\ Sound(m) /\ DataInv(m) /\ InodesInv(m)
  BY HealthyIs
<1>2. /\ d \in Inodes /\ Dir(m, d) /\ t \in Inodes \ {0} /\ Legal(m, t) /\ t # d
      /\ Unlinks(m, r.fs, d, t, FileName(path))
  BY UnlinkDoes
<1> DEFINE done == Dropped(m, t)
           m2 == r.fs
<1>3. PICK k \in Nat :
        /\ Entry(m, d, k, t) /\ Sound(m2) /\ Whole(m2, d) /\ Removed(done, m2, d, k)
        /\ m2.i_head = m.i_head
  BY <1>2 DEF Unlinks
<1>4. /\ Sound(done) /\ (\A x \in Inodes : x # t => Alike(m, done, x))
      /\ done.inode[t].type = m.inode[t].type
      /\ done.inode[t].size = 0 \/ Alike(m, done, t)
  <2>1. done = Dropped(m, t) /\ t \in Inodes /\ Sound(m)
    BY <1>1, <1>2
  <2> HIDE DEF done
  <2> QED
    BY <2>1, DroppedFacts
<1> HIDE DEF m2, done
<1>5. DataOf(m2, t)
  <2>1. m2.inode = done.inode /\ Alike(done, m2, t)
    BY <1>2, <1>3 DEF Removed
  <2>2. CASE done.inode[t].size = 0
    BY <2>1, <2>2, NoData
  <2>3. CASE Alike(m, done, t)
    <3>1. DataOf(done, t)
      BY <1>1, <1>2, <1>4, <2>3, AlikeKeeps DEF DataInv, Sound
    <3> QED
      BY <1>2, <1>3, <1>4, <2>1, <3>1, AlikeKeeps DEF Sound
  <2> QED
    BY <1>4, <2>2, <2>3
<1>6. \A x \in Inodes : IsFree(m2, x) <=> IsFree(m, x)
  BY <1>3 DEF IsFree
<1>7. /\ done.inode[t].size \in {0, m.inode[t].size} /\ ~IsFree(m2, t)
      /\ IsInjective1(m2.i_head)
  BY <1>1, <1>2, <1>3, <1>4, <1>6 DEF Alike, Legal, Known, InodesInv
<1>8. /\ Healthy(m2)
      /\ \A x \in Inodes : Legal(m, x) /\ (x # t \/ ~IsDir(m, t)) => Legal(m2, x)
      /\ \A x \in Inodes : x # t => m2.inode[x].size >= m.inode[x].size
  BY <1>1, <1>2, <1>3, <1>4, <1>5, <1>6, <1>7, EntryGone
<1> QED
  BY <1>8 DEF m2

LEMMA InodePushed ==
  ASSUME NEW m \in FsType, NEW i \in Inodes, IsInjective1(m.i_head), ~IsFree(m, i),
         NEW m2, m2.i_head = <<i>> \o m.i_head
  PROVE  /\ IsInjective1(m2.i_head)
         /\ \A x \in Inodes : IsFree(m2, x) <=> IsFree(m, x) \/ x = i
<1> DEFINE q == m.i_head
           r == m2.i_head
<1>1. q \in Seq(Inodes) /\ r = <<i>> \o q /\ Len(q) \in Nat
  BY DEF FsType
<1>2. /\ \A k, l \in 1 .. Len(q) : q[k] = q[l] => k = l
      /\ \A x \in Inodes : IsFree(m, x) <=> \E k \in 1 .. Len(q) : q[k] = x
      /\ \A x \in Inodes : IsFree(m2, x) <=> \E k \in 1 .. Len(r) : r[k] = x
  BY DEF IsFree, IsInjective1
<1> HIDE DEF q, r
<1>3. Len(r) = Len(q) + 1 /\ r[1] = i /\ \A k \in 2 .. Len(q) + 1 : r[k] = q[k - 1]
  BY <1>1
<1>4. \A k \in 1 .. Len(r) : k = 1 \/ (k \in 2 .. Len(q) + 1 /\ k - 1 \in 1 .. Len(q))
  BY <1>1, <1>3
<1>5. \A k \in 1 .. Len(q) : q[k] # i
  BY <1>2
<1>6. \A k, l \in 1 .. Len(r) : r[k] = r[l] => k = l
  <2> SUFFICES ASSUME NEW k \in 1 .. Len(r), NEW l \in 1 .. Len(r), r[k] = r[l] PROVE k = l
    OBVIOUS
  <2>1. CASE k = 1 \/ l = 1
    BY <1>3, <1>4, <1>5, <2>1
  <2>2. CASE k # 1 /\ l # 1
    <3>1. k - 1 = l - 1
      BY <1>2, <1>3, <1>4, <2>2, SMTT(30)
    <3> QED
      BY <1>1, <1>3, <3>1
  <2> QED
    BY <2>1, <2>2
<1>7. \A x \in Inodes : IsFree(m2, x) => IsFree(m, x) \/ x = i
  BY <1>2, <1>3, <1>4
<1>8. \A x \in Inodes : IsFree(m, x) \/ x = i => IsFree(m2, x)
  <2>1. IsFree(m2, i)
    <3>1. 1 \in 1 .. Len(r)
      BY <1>1, <1>3
    <3> QED
      BY <1>2, <1>3, <3>1
  <2>2. \A x \in Inodes : IsFree(m, x) => IsFree(m2, x)
    <3> SUFFICES ASSUME NEW x \in Inodes, NEW k \in 1 .. Len(q), q[k] = x PROVE IsFree(m2, x)
      BY <1>2
    <3>1. k + 1 \in 1 .. Len(r) /\ k + 1 \in 2 .. Len(q) + 1 /\ (k + 1) - 1 = k
      BY <1>1, <1>3
    <3>2. r[k + 1] = x
      BY <1>3, <3>1
    <3> QED
      BY <1>2, <3>1, <3>2
  <2> QED
    BY <2>1, <2>2
<1> QED
  BY <1>6, <1>7, <1>8 DEF IsInjective1, r

(* When handle_rmdir finds the parent no more, it has cleared the directory   *)
(* already: what is in the blocks is right even then.                         *)
LEMMA GoneSafe ==
  ASSUME NEW m, Healthy(m), NEW i \in Inodes, IsDir(m, i), NEW g, g = Gone(m, i),
         NEW m2, m2 = [g EXCEPT !.bad = TRUE]
  PROVE  Safe(m2)
<1>1. m \in FsType /\ Sound(m) /\ DataInv(m) /\ DirInv(m)
  BY HealthyIs
<1>2. /\ Sound(g) /\ \A x \in Inodes : x # i => Alike(m, g, x)
      /\ g.inode[i].size = 0 /\ g.inode[i].type = m.inode[i].type
  BY <1>1, GoneAside
<1>3. g \in FsType
  BY <1>2 DEF Sound
<1>4. m2 \in FsType /\ m2.cell = g.cell /\ m2.indirect = g.indirect /\ m2.b_head = g.b_head
      /\ m2.inode = g.inode
  BY <1>3 DEF FsType
<1>5. Sound(m2) /\ \A x \in Inodes : Alike(g, m2, x)
  BY <1>2, <1>4, FrameSound
<1>6. DataInv(m2) /\ DirInv(m2)
  <2>1. \A x \in Inodes : x # i => Alike(m, m2, x)
    BY <1>1, <1>2, <1>3, <1>4, <1>5, AlikeTwice
  <2>2. \A x \in Inodes : x # i => DataOf(m2, x) /\ DirOf(m2, x)
    BY <1>1, <1>4, <2>1, AlikeKeeps, AlikeDir DEF DataInv, DirInv
  <2>3. m2.inode[i].size = 0
    BY <1>2, <1>4
  <2>4. DataOf(m2, i) /\ DirOf(m2, i)
    <3>1. DataOf(m2, i)
      BY <2>3, NoData
    <3>2. ~Dir(m2, i)
      BY <2>3 DEF Dir
    <3> QED
      BY <3>1, <3>2 DEF DirOf
  <2> QED
    BY <2>2, <2>4 DEF DataInv, DirInv
<1> QED
  BY <1>5, <1>6 DEF Safe

(* Directory t goes, with its entry in directory d.                           *)
Removes(m, m2, d, t, name) ==
  \E k \in Nat :
    /\ Entry(m, d, k, t) /\ CellAt(m, d, k).name = name
    /\ Sound(m2) /\ Whole(m2, d) /\ Removed(Gone(m, t), m2, d, k)
    /\ m2.b_head = Gone(m, t).b_head /\ m2.i_head = <<t>> \o m.i_head /\ m2.bad = m.bad
    /\ SameNames(m, m2)

LEMMA RmDirDoes ==
  ASSUME NEW m, Healthy(m), NEW path \in PathType, NEW cur \in Inodes, Legal(m, cur),
         NEW d, d = SuperDir(m, path, cur), d # ERROR, IsDir(m, d), FileName(path) \in Names,
         NEW t, t = Resolve(m, path, cur), t # 0, IsDir(m, t),
         NEW r, r = RemoveDir(m, path, cur)
  PROVE  /\ d \in Inodes /\ Dir(m, d) /\ t \in Inodes \ {0} /\ Legal(m, t)
         /\ m.inode[t].size > 2 => r.fs = m
         /\ m.inode[t].size <= 2 =>
              \/ r.fs = [Gone(m, t) EXCEPT !.bad = TRUE] /\ SuperDir(Gone(m, t), path, cur) = ERROR
              \/ t # d /\ Removes(m, r.fs, d, t, FileName(path))
<1> DEFINE name == FileName(path)
           k == Min(Matching(m, d, name))
           g == Gone(m, t)
           dg == SuperDir(g, path, cur)
           e == EntryFor(g, dg, name)
<1>1. /\ m \in FsType /\ Sound(m)
      /\ d \in Inodes /\ Dir(m, d) /\ DirOf(m, d) /\ Whole(m, d)
      /\ t \in Inodes \ {0} /\ Legal(m, t)
      /\ t = (IF Found(m, d, name) THEN Inum(m, d, name) ELSE 0)
      /\ \A x \in Inodes : m.inode[x].size \in Nat /\ m.inode[x].size >= m.inode[x].size
  BY HealthyIs, TargetIs, DirFacts, SizeNat DEF DirInv
<1>2. Found(m, d, name) /\ t = Inum(m, d, name)
  BY <1>1
<1>3. /\ k \in Nat /\ k < m.inode[d].size /\ Entry(m, d, k, t)
      /\ CellAt(m, d, k).name = name
  BY <1>1, <1>2, InumCases
<1>4. r = IF m.inode[t].size > 2 THEN Fail(m)
          ELSE IF dg = ERROR THEN Undefined(g)
          ELSE [fs |-> [e.fs EXCEPT !.cell[e.b][e.c].inum = 0], ret |-> 0]
  BY Zenon DEF RemoveDir, Gone
<1>5. /\ Sound(g) /\ \A x \in Inodes : x # t => Alike(m, g, x)
      /\ g.inode[t].size = 0 /\ g.inode[t].type = m.inode[t].type
      /\ g.i_head = <<t>> \o m.i_head /\ g.bad = m.bad /\ g.cell = m.cell
  BY <1>1, GoneSound
<1>6. dg \in {ERROR, d}
  BY <1>1, <1>5, ParentOfGone DEF Sound
<1> HIDE DEF dg
<1>7. CASE m.inode[t].size > 2
  <2> HIDE DEF e, g
  <2>1. r = Fail(m)
    BY <1>4, <1>7
  <2>2. r.fs = m
    BY <2>1 DEF Fail
  <2> QED
    BY <1>1, <1>7, <2>2
<1>8. CASE ~(m.inode[t].size > 2) /\ dg = ERROR
  <2>1. r.fs = [g EXCEPT !.bad = TRUE]
    BY <1>4, <1>8 DEF Undefined, Fail
  <2> QED
    BY <1>1, <1>8, <2>1 DEF dg
<1>9. CASE ~(m.inode[t].size > 2) /\ dg = d
  <2> HIDE DEF g
  <2>1. d # t
    <3>1. m.inode[d].size > 2
      <4>1. k \in 2 .. m.inode[d].size - 1
        BY <1>3 DEF Entry, Below
      <4> QED
        BY <1>1, <4>1
    <3> QED
      BY <1>9, <3>1
  <2>2. g \in FsType /\ Alike(m, g, d) /\ Whole(g, d) /\ g.inode[d].size = m.inode[d].size
    BY <1>1, <1>5, <2>1, AlikeKeeps DEF Sound, Alike
  <2>3. Found(g, d, name) /\ Min(Matching(g, d, name)) = k
    BY <1>1, <1>2, <2>2, AlikeNames
  <2>4. e = At(g, d, k)
    BY <1>9, <2>3 DEF EntryFor
  <2> DEFINE b == NthBlock(g, d, k \div UNITS)
             m2 == [g EXCEPT !.cell[b][k % UNITS].inum = 0]
  <2>5. e.fs = g /\ e.b = b /\ e.c = k % UNITS
    BY <2>4 DEF At
  <2>6. dg # ERROR
    BY <1>1, <1>9, ConstantFacts
  <2> HIDE DEF e
  <2>7. r.fs = m2
    <3>1. r = [fs |-> [e.fs EXCEPT !.cell[e.b][e.c].inum = 0], ret |-> 0]
      BY <1>4, <1>9, <2>6
    <3> QED
      BY <2>5, <3>1
  <2> HIDE DEF k
  <2>8. /\ Sound(m2) /\ Whole(m2, d) /\ Removed(g, m2, d, k)
        /\ m2.i_head = <<t>> \o m.i_head /\ m2.bad = m.bad /\ m2.b_head = g.b_head
        /\ SameNames(m, m2)
    <3>1. /\ Sound(m2) /\ Whole(m2, d) /\ Removed(g, m2, d, k)
          /\ m2.i_head = g.i_head /\ m2.bad = g.bad /\ m2.b_head = g.b_head
          /\ SameNames(g, m2)
      <4>1. Sound(g) /\ d \in Inodes /\ k \in Nat /\ k < g.inode[d].size
        BY <1>1, <1>3, <1>5, <2>2
      <4>2. b = NthBlock(g, d, k \div UNITS) /\ m2 = [g EXCEPT !.cell[b][k % UNITS].inum = 0]
        OBVIOUS
      <4> HIDE DEF m2, b
      <4> QED
        BY <2>2, <4>1, <4>2, RemovedEntry, SMTT(30)
    <3> HIDE DEF m2, b
    <3> QED
      BY <1>5, <3>1 DEF SameNames
  <2> HIDE DEF m2
  <2> HIDE DEF g
  <2>9. Removes(m, r.fs, d, t, name)
    BY <1>3, <2>7, <2>8 DEF Removes, g
  <2> QED
    BY <1>1, <1>9, <2>1, <2>9 DEF name
<1> QED
  BY <1>6, <1>7, <1>8, <1>9

LEMMA RmDirHealthy ==
  ASSUME NEW m, Healthy(m), NEW path \in PathType, NEW cur \in Inodes, Legal(m, cur),
         NEW d, d = SuperDir(m, path, cur), d # ERROR, IsDir(m, d), FileName(path) \in Names,
         NEW t, t = Resolve(m, path, cur), t # 0, IsDir(m, t),
         NEW r, r = RemoveDir(m, path, cur)
  PROVE  /\ Safe(r.fs)
         /\ ~r.fs.bad => /\ Healthy(r.fs)
                         /\ \A x \in Inodes : x # t /\ Legal(m, x) => Legal(r.fs, x)
                         /\ \A x \in Inodes : x # t => r.fs.inode[x].size >= m.inode[x].size
                         /\ r.fs = m \/ ~Legal(r.fs, t)
<1>1. /\ m \in FsType /\ Sound(m) /\ DataInv(m) /\ InodesInv(m)
      /\ \A x \in Inodes : m.inode[x].size \in Nat /\ m.inode[x].size >= m.inode[x].size
  BY HealthyIs, SizeNat
<1>2. /\ d \in Inodes /\ Dir(m, d) /\ t \in Inodes \ {0} /\ Legal(m, t)
      /\ m.inode[t].size > 2 => r.fs = m
      /\ m.inode[t].size <= 2 =>
           \/ r.fs = [Gone(m, t) EXCEPT !.bad = TRUE]
           \/ t # d /\ Removes(m, r.fs, d, t, FileName(path))
  BY RmDirDoes
<1> DEFINE g == Gone(m, t)
           m2 == r.fs
<1>3. /\ Sound(g) /\ \A x \in Inodes : x # t => Alike(m, g, x)
      /\ g.inode[t].size = 0 /\ g.inode[t].type = m.inode[t].type
      /\ g.i_head = <<t>> \o m.i_head /\ g.bad = m.bad
  <2>1. g = Gone(m, t) /\ t \in Inodes /\ Sound(m)
    BY <1>1, <1>2
  <2> HIDE DEF g
  <2> QED
    BY <2>1, GoneSound
<1>4. CASE r.fs = m
  BY <1>1, <1>4 DEF Healthy
<1>5. CASE r.fs = [g EXCEPT !.bad = TRUE]
  <2>1. Safe(r.fs)
    BY <1>2, <1>5, GoneSafe
  <2>2. r.fs.bad
    <3>1. g \in FsType
      BY <1>3 DEF Sound
    <3> HIDE DEF g
    <3> QED
      BY <1>5, <3>1 DEF FsType
  <2> QED
    BY <2>1, <2>2
<1>6. CASE m.inode[t].size <= 2 /\ Removes(m, r.fs, d, t, FileName(path))
  <2>1. PICK k \in Nat :
          /\ Entry(m, d, k, t) /\ Sound(m2) /\ Whole(m2, d) /\ Removed(g, m2, d, k)
          /\ m2.i_head = <<t>> \o m.i_head
    BY <1>6 DEF Removes
  <2> HIDE DEF m2, g
  <2>2. ~IsFree(m, t) /\ IsInjective1(m.i_head)
    BY <1>1, <1>2 DEF Legal, Known, InodesInv
  <2>3. /\ IsInjective1(m2.i_head)
        /\ \A x \in Inodes : IsFree(m2, x) <=> IsFree(m, x) \/ x = t
    BY <1>1, <1>2, <2>1, <2>2, InodePushed
  <2>4. /\ Healthy(m2)
        /\ \A x \in Inodes : Legal(m, x) /\ (x # t \/ ~IsDir(m, t)) => Legal(m2, x)
        /\ \A x \in Inodes : x # t => m2.inode[x].size >= m.inode[x].size
    <3>1. d \in Inodes /\ Dir(m, d) /\ t \in Inodes \ {0} /\ IsDir(m, t) /\ m.inode[t].size <= 2
      BY <1>2, <1>6
    <3>2. /\ IsDir(m, t) => m.inode[t].size <= 2 /\ g.inode[t].size = 0
          /\ ~IsDir(m, t) => DataOf(m2, t) /\ ~IsFree(m2, t)
          /\ \A x \in Inodes : x # t /\ IsFree(m2, x) => IsFree(m, x)
          /\ g.inode[t].size \in {0, m.inode[t].size}
      BY <1>3, <2>3, <3>1
    <3>3. /\ Sound(g) /\ (\A x \in Inodes : x # t => Alike(m, g, x))
          /\ g.inode[t].type = m.inode[t].type
          /\ Entry(m, d, k, t) /\ Sound(m2) /\ Whole(m2, d) /\ Removed(g, m2, d, k)
          /\ IsInjective1(m2.i_head)
      BY <1>3, <2>1, <2>3
    <3> QED
      BY <3>1, <3>2, <3>3, EntryGone
  <2>5. ~Legal(m2, t)
    BY <1>2, <2>3 DEF Legal, Known
  <2> QED
    BY <2>4, <2>5 DEF Healthy, m2
<1>7. m.inode[t].size > 2 \/ m.inode[t].size <= 2
  BY <1>1, <1>2
<1> QED
  BY <1>2, <1>4, <1>5, <1>6, <1>7

-----------------------------------------------------------------------------
(* File data, and a new server on an old disk *)

LEMMA WriteHealthy ==
  ASSUME NEW m, Healthy(m), NEW i \in Inodes, Legal(m, i), ~IsDir(m, i),
         NEW pos \in Nat, pos <= m.inode[i].size, NEW n \in Nat, pos + n <= NUM_DIRECT * UNITS,
         NEW valid \in Nat, NEW r, r = WriteFile(m, i, pos, n, valid)
  PROVE  /\ Healthy(r.fs) /\ \A x \in Inodes : Legal(m, x) => Legal(r.fs, x)
         /\ \A x \in Inodes : r.fs.inode[x].size >= m.inode[x].size
         /\ r.ret \in {n, ERROR} /\ (r.ret # ERROR => r.fs.inode[i].size >= pos + n)
<1> DEFINE m2 == r.fs
<1>1. m \in FsType /\ Sound(m) /\ DataInv(m) /\ InodesInv(m)
  BY HealthyIs
<1>2. m.inode[i].type = INODE_REGULAR /\ DataOf(m, i)
  BY <1>1 DEF Legal, Known, IsDir, DataInv
<1>3. Written(m, m2, i) /\ r.ret \in {n, ERROR} /\ (r.ret # ERROR => m2.inode[i].size >= pos + n)
  BY <1>1, <1>2, WriteWritten
<1> HIDE DEF m2
<1>4. /\ Sound(m2) /\ m2 \in FsType /\ DataOf(m2, i) /\ m2.inode[i].type = INODE_REGULAR
      /\ m2.inode[i].size >= m.inode[i].size
      /\ \A x \in Inodes : x # i => Alike(m, m2, x)
      /\ m2.i_head = m.i_head
  BY <1>3 DEF Written, Sound
<1>5. /\ \A x \in Inodes : m2.inode[x].type = m.inode[x].type
      /\ \A x \in Inodes : IsFree(m2, x) <=> IsFree(m, x)
      /\ \A x \in Inodes : IsDir(m2, x) <=> IsDir(m, x)
      /\ \A x \in Inodes : x # i => m2.inode[x].size = m.inode[x].size
  BY <1>2, <1>4 DEF Alike, IsFree, IsDir
<1>6. \A x \in Inodes : Known(m, x) => Known(m2, x)
  BY <1>5 DEF Known
<1>7. /\ DirInv(m2) /\ TreeInv(m2)
      /\ \A x \in Inodes : Legal(m, x) => Legal(m2, x)
  BY <1>4, <1>5, <1>6, DirsUntouched
<1>8. DataInv(m2)
  BY <1>1, <1>4, AlikeKeeps DEF DataInv
<1>9. InodesInv(m2)
  <2>1. i \in Scanned /\ ~IsFree(m2, i)
    BY <1>5 DEF Legal, Known
  <2>2. \A x \in Inodes : IsFree(m2, x) => x \in Scanned \ {ROOTINODE} /\ m2.inode[x].size = 0
    BY <1>1, <1>5, <2>1 DEF InodesInv
  <2>3. \A x \in Inodes : m2.inode[x].size > 0 =>
          x \in Scanned /\ m2.inode[x].type \in {INODE_DIRECTORY, INODE_REGULAR}
    BY <1>1, <1>4, <1>5, <2>1 DEF InodesInv
  <2>4. ~IsDir(m2, 0) /\ IsInjective1(m2.i_head)
    BY <1>1, <1>4, <1>5, ConstantFacts DEF InodesInv
  <2> QED
    BY <2>2, <2>3, <2>4 DEF InodesInv
<1>10. \A x \in Inodes : m2.inode[x].size >= m.inode[x].size
  BY <1>1, <1>4, <1>5, SizeNat
<1> QED
  BY <1>3, <1>4, <1>7, <1>8, <1>9, <1>10 DEF Healthy, Safe, m2

(* make_free_lists finds every block of a file without holes.                 *)
LEMMA BlocksFound ==
  ASSUME NEW m \in FsType, NEW i \in Inodes, Whole(m, i), NEW l \in Nat, NthBlock(m, i, l) # 0
  PROVE  NthBlock(m, i, l) \in Pointers(m, i)
<1> DEFINE T == {k \in 0 .. MaxBlocks : k = MaxBlocks \/ Pointer(m, i, k) = 0}
           n == Min(T)
           s == m.inode[i].size
<1>1. /\ MaxBlocks \in Nat /\ UNITS \in Nat /\ UNITS >= 1 /\ s \in Nat
      /\ l < MaxBlocks /\ l * UNITS < s /\ NthBlock(m, i, l) = Pointer(m, i, l)
  BY ConstantFacts, UnitFacts, SizeNat, NthFacts
<1>2. n \in T /\ n \in Nat
  <2>1. T \subseteq Nat /\ MaxBlocks \in T
    BY <1>1
  <2> HIDE DEF T
  <2> QED
    BY <2>1, MinFacts
<1>3. Pointers(m, i) = {Pointer(m, i, k) : k \in 0 .. n - 1}
  BY DEF Pointers
<1> HIDE DEF n
<1>4. n > l
  <2> SUFFICES ASSUME n <= l PROVE FALSE
    BY <1>1, <1>2
  <2>1. n < MaxBlocks /\ Pointer(m, i, n) = 0
    BY <1>1, <1>2
  <2>2. n * UNITS <= l * UNITS /\ n * UNITS \in Nat /\ l * UNITS \in Nat
    BY <1>1, <1>2
  <2> HIDE DEF s
  <2>3. n * UNITS < s
    BY <1>1, <2>2
  <2>4. NthBlock(m, i, n) # 0
    BY <1>2, <2>3 DEF Whole, s
  <2> QED
    BY <1>2, <2>1, <2>4, NthFacts
<1>5. l \in 0 .. n - 1
  BY <1>1, <1>2, <1>4
<1> QED
  BY <1>1, <1>3, <1>5

LEMMA BootHealthy ==
  ASSUME NEW m, Healthy(m), NEW m2, m2 = Boot(m)
  PROVE  Healthy(m2) /\ \A x \in Inodes : Legal(m, x) => Legal(m2, x)
<1> DEFINE free == {i \in Scanned : m.inode[i].type = INODE_FREE}
           used == {0} \cup UNION {Pointers(m, i) : i \in Scanned \ free}
<1>1. m \in FsType /\ Sound(m) /\ DataInv(m) /\ DirInv(m) /\ InodesInv(m) /\ RootInv(m)
  BY HealthyIs
<1>2. /\ m2 \in FsType /\ m2.inode = m.inode /\ m2.cell = m.cell /\ m2.indirect = m.indirect
      /\ m2.i_head = Descending(free, NumTable * IPB)
      /\ m2.b_head = Descending(Blocks \ used, NUM_BLOCKS)
  BY <1>1, BootType
<1> HIDE DEF free, used
<1>3. NumTable * IPB \in Nat /\ NUM_BLOCKS \in Nat
  BY ConstantFacts
<1>4. ListOf(free, NumTable * IPB, m2.i_head) /\ ListOf(Blocks \ used, NUM_BLOCKS, m2.b_head)
  BY <1>2, <1>3, DescendingFacts
<1>5. /\ IsInjective1(m2.i_head) /\ m2.i_head \in Seq(free)
      /\ IsInjective1(m2.b_head) /\ m2.b_head \in Seq(Blocks \ used)
  <2>1. free \cap (0 .. NumTable * IPB - 1) \subseteq free
    OBVIOUS
  <2>2. (Blocks \ used) \cap (0 .. NUM_BLOCKS - 1) \subseteq Blocks \ used
    OBVIOUS
  <2> QED
    BY <1>4, <2>1, <2>2 DEF ListOf
<1>6. \A k \in 1 .. Len(m2.b_head) : m2.b_head[k] \notin used
  BY <1>5
<1>7. \A x \in Inodes : IsFree(m2, x) => x \in free
  BY <1>5 DEF IsFree
<1>8. /\ \A x \in Inodes : Alike(m, m2, x)
      /\ \A x \in Inodes, n \in Nat : NthBlock(m2, x, n) = NthBlock(m, x, n)
  BY <1>1, <1>2, AlikeFrame DEF Alike
<1>9. \A x \in Inodes, n \in Nat : NthBlock(m, x, n) # 0 => NthBlock(m, x, n) \in used
  <2> SUFFICES ASSUME NEW x \in Inodes, NEW n \in Nat, NthBlock(m, x, n) # 0
               PROVE  NthBlock(m, x, n) \in used
    OBVIOUS
  <2>1. m.inode[x].size > 0
    <3>1. n * UNITS < m.inode[x].size /\ m.inode[x].size \in Nat /\ n * UNITS \in Nat
      BY <1>1, NthFacts, SizeNat, UnitFacts
    <3> QED
      BY <3>1
  <2>2. x \in Scanned /\ m.inode[x].type \in {INODE_DIRECTORY, INODE_REGULAR}
    BY <1>1, <2>1 DEF InodesInv
  <2>3. Whole(m, x)
    BY <1>1, <2>1, <2>2 DEF DataInv, DataOf, DirInv, DirOf, Dir, IsDir
  <2>4. NthBlock(m, x, n) \in Pointers(m, x)
    BY <1>1, <2>3, BlocksFound
  <2>5. x \in Scanned \ free
    BY <2>2 DEF free, INODE_FREE, INODE_DIRECTORY, INODE_REGULAR
  <2> QED
    BY <2>4, <2>5 DEF used
<1>10. BlocksInv(m2)
  <2>1. \A k \in 1 .. Len(m2.b_head) : m2.b_head[k] # 0
    BY <1>6 DEF used
  <2>2. \A i, j \in Inodes, n, l \in Nat :
          NthBlock(m, i, n) # 0 /\ NthBlock(m, j, l) = NthBlock(m, i, n) => i = j /\ n = l
    BY <1>1 DEF Sound, BlocksInv
  <2>3. \A i, j \in Inodes, n, l \in Nat :
          NthBlock(m2, i, n) # 0 /\ NthBlock(m2, j, l) = NthBlock(m2, i, n) => i = j /\ n = l
    BY <1>8, <2>2
  <2>4. \A i \in Inodes, n \in Nat, k \in 1 .. Len(m2.b_head) :
          NthBlock(m2, i, n) # 0 => m2.b_head[k] # NthBlock(m2, i, n)
    BY <1>6, <1>8, <1>9
  <2> QED
    BY <1>5, <2>1, <2>3, <2>4 DEF BlocksInv
<1>11. Sound(m2)
  BY <1>1, <1>2, <1>10 DEF Sound, SizesDirect
<1>12. \A x \in Inodes : Known(m, x) => Known(m2, x)
  BY <1>2, <1>7 DEF Known, free, INODE_FREE, INODE_DIRECTORY, INODE_REGULAR
<1>13. \A x \in Inodes : IsDir(m2, x) <=> IsDir(m, x)
  BY <1>2 DEF IsDir
<1>14. /\ DirInv(m2) /\ TreeInv(m2)
       /\ \A x \in Inodes : Legal(m, x) => Legal(m2, x)
  BY <1>2, <1>8, <1>12, <1>13, DirsUntouched
<1>15. DataInv(m2)
  BY <1>1, <1>2, <1>8, AlikeKeeps DEF DataInv
<1>16. InodesInv(m2)
  <2>1. \A x \in Inodes : x \in free => x \in Scanned \ {ROOTINODE} /\ m2.inode[x].size = 0
    <3> SUFFICES ASSUME NEW x \in Inodes, x \in free
                 PROVE  x \in Scanned \ {ROOTINODE} /\ m2.inode[x].size = 0
      OBVIOUS
    <3>1. x \in Scanned /\ m.inode[x].type = INODE_FREE
      BY DEF free
    <3>2. ~(m.inode[x].size > 0) /\ m.inode[x].size \in Nat
      BY <1>1, <3>1, SizeNat DEF InodesInv, INODE_FREE, INODE_DIRECTORY, INODE_REGULAR
    <3>3. x # ROOTINODE
      BY <1>1, <3>2 DEF RootInv, Dir
    <3> QED
      BY <1>2, <3>1, <3>2, <3>3
  <2> QED
    BY <1>1, <1>2, <1>5, <1>7, <1>13, <2>1, ConstantFacts DEF InodesInv
<1> QED
  BY <1>11, <1>14, <1>15, <1>16 DEF Healthy, Safe


(* The disk that mkyfs writes has the root and nothing else.                  *)
LEMMA MkYfsHealthy == Healthy(MkYfs)
<1> DEFINE m == MkYfs
           B == NumTable + 1
<1>1. /\ m \in FsType /\ m.i_head = << >> /\ m.b_head = << >>
      /\ \A i \in Inodes :
           IF i = ROOTINODE
           THEN m.inode[i].type = INODE_DIRECTORY /\ m.inode[i].size = 2 /\ m.inode[i].direct[0] = B
           ELSE m.inode[i].type \in {INODE_FREE, HEADER} /\ m.inode[i].size = 0
      /\ m.cell[B][0] = [inum |-> ROOTINODE, name |-> "."]
      /\ m.cell[B][1] = [inum |-> ROOTINODE, name |-> ".."]
  BY MkYfsType
<1> HIDE DEF m
<1>2. /\ B \in Blocks /\ B # 0 /\ MaxBlocks \in Nat /\ MaxBlocks >= 1
      /\ NUM_DIRECT \in Nat /\ NUM_DIRECT >= 1
      /\ ROOTINODE \in Inodes /\ ROOTINODE \in Scanned /\ 0 \in Inodes /\ ROOTINODE # 0
  BY ConstantFacts, RootScanned DEF ROOTINODE
<1> HIDE DEF B
<1>3. /\ m.inode[ROOTINODE].type = INODE_DIRECTORY /\ m.inode[ROOTINODE].size = 2
      /\ m.inode[ROOTINODE].direct[0] = B
      /\ \A i \in Inodes \ {ROOTINODE} :
           m.inode[i].type \in {INODE_FREE, HEADER} /\ m.inode[i].size = 0
  BY <1>1, <1>2
<1>4. /\ NthBlock(m, ROOTINODE, 0) = B
      /\ \A n \in Nat \ {0} : NthBlock(m, ROOTINODE, n) = 0 /\ ~(n * UNITS < 2)
      /\ \A i \in Inodes \ {ROOTINODE}, n \in Nat : NthBlock(m, i, n) = 0 /\ ~(n * UNITS < 0)
  <2>1. /\ 0 * UNITS < 2 /\ 0 < MaxBlocks /\ 0 < NUM_DIRECT
        /\ \A n \in Nat \ {0} : ~(n * UNITS < 2)
        /\ \A n \in Nat : ~(n * UNITS < 0)
    BY <1>2, UnitFacts
  <2> QED BY <1>3, <2>1 DEF NthBlock, Pointer
<1>5. /\ CellAt(m, ROOTINODE, 0) = [inum |-> ROOTINODE, name |-> "."]
      /\ CellAt(m, ROOTINODE, 1) = [inum |-> ROOTINODE, name |-> ".."]
  <2>1. 0 \div UNITS = 0 /\ 0 % UNITS = 0 /\ 1 \div UNITS = 0 /\ 1 % UNITS = 1
    BY UnitFacts
  <2> QED BY <1>1, <1>4, <2>1 DEF CellAt
<1>6. Sound(m)
  <2>1. Len(m.b_head) = 0 /\ 1 .. Len(m.b_head) = {}
    BY <1>1
  <2>2. BlocksInv(m)
    <3>1. \A i \in Inodes, n \in Nat : NthBlock(m, i, n) # 0 => i = ROOTINODE /\ n = 0
      BY <1>4
    <3> QED BY <2>1, <3>1 DEF BlocksInv, IsInjective1
  <2>3. SizesDirect(m)
    <3>1. 0 <= NUM_DIRECT * UNITS /\ 2 <= NUM_DIRECT * UNITS
      BY <1>2, UnitFacts
    <3> QED BY <1>3, <3>1 DEF SizesDirect
  <2> QED BY <1>1, <2>2, <2>3 DEF Sound
<1>7. DataInv(m)
  BY <1>3 DEF DataInv, DataOf, INODE_DIRECTORY, INODE_REGULAR, INODE_FREE, HEADER
<1>8. /\ \A i \in Inodes : IsDir(m, i) <=> i = ROOTINODE
      /\ \A i \in Inodes : Dir(m, i) <=> i = ROOTINODE
      /\ Below(m, ROOTINODE) = {}
  <2>1. \A i \in Inodes : IsDir(m, i) <=> i = ROOTINODE
    BY <1>3 DEF IsDir, INODE_DIRECTORY, INODE_FREE, HEADER
  <2> QED BY <1>3, <2>1 DEF Dir, Below
<1>9. DirInv(m)
  <2>1. Whole(m, ROOTINODE)
    BY <1>2, <1>3, <1>4 DEF Whole
  <2>2. Dotted(".") /\ Dotted("..")
    BY PathsAssumption DEF Dotted
  <2>3. DirOf(m, ROOTINODE)
    BY <1>3, <1>5, <1>8, <2>1, <2>2 DEF DirOf
  <2> QED BY <1>8, <2>3 DEF DirInv, DirOf
<1>10. TreeInv(m)
  <2>1. RootInv(m)
    BY <1>2, <1>5, <1>8 DEF RootInv
  <2>2. ChildrenInv(m)
    BY <1>8 DEF ChildrenInv, Entry
  <2>3. ParentsInv(m)
    BY <1>8 DEF ParentsInv
  <2> QED BY <2>1, <2>2, <2>3 DEF TreeInv
<1>11. InodesInv(m)
  <2>1. Len(m.i_head) = 0 /\ 1 .. Len(m.i_head) = {}
    BY <1>1
  <2>2. \A i \in Inodes : ~IsFree(m, i)
    BY <2>1 DEF IsFree
  <2>3. IsInjective1(m.i_head)
    BY <2>1 DEF IsInjective1
  <2>4. \A i \in Inodes : m.inode[i].size > 0 =>
           i \in Scanned /\ m.inode[i].type \in {INODE_DIRECTORY, INODE_REGULAR}
    BY <1>2, <1>3
  <2>5. ~IsDir(m, 0)
    BY <1>2, <1>8
  <2> QED BY <2>2, <2>3, <2>4, <2>5 DEF InodesInv
<1> QED BY <1>6, <1>7, <1>9, <1>10, <1>11 DEF Healthy, Safe, m

-----------------------------------------------------------------------------
(* Paths that go straight to a directory *)

(* A path that has "." and ".." only before the first name.                   *)
StraightOn(parts) ==
  \A j, k \in DOMAIN parts : j < k /\ parts[j] \in Names => parts[k] \in Names

(* An empty directory is on the way of such a path only at its end.           *)
LEMMA EmptyAside ==
  ASSUME NEW m, Healthy(m), NEW t \in Inodes, Dir(m, t), m.inode[t].size <= 2, t # ROOTINODE,
         NEW x \in Inodes, Dir(m, x), x # t, NEW name, name \notin Names
  PROVE  Walk(m, x, name) # t
<1> SUFFICES ASSUME Walk(m, x, name) = t PROVE FALSE
  OBVIOUS
<1>1. /\ m \in FsType /\ RootInv(m) /\ ParentsInv(m) /\ t # 0
      /\ CellAt(m, x, 0).inum = x /\ DirOf(m, x)
  BY HealthyIs, DirFacts DEF DirInv
<1>2. Found(m, x, name) /\ Inum(m, x, name) = t
  BY <1>1, ConstantFacts DEF Walk, ERROR
<1> DEFINE k == Min(Matching(m, x, name))
<1>3. /\ k \in Nat /\ k < m.inode[x].size /\ CellAt(m, x, k).name = name
      /\ CellAt(m, x, k).inum = t
  BY <1>2, InumCases
<1> HIDE DEF k
<1>4. k \notin Below(m, x)
  BY <1>1, <1>3 DEF DirOf
<1>5. m.inode[x].size \in Nat /\ m.inode[t].size \in Nat
  BY <1>1, SizeNat
<1>6. k \in {0, 1}
  BY <1>3, <1>4, <1>5 DEF Below
<1>7. k = 1 /\ CellAt(m, x, 1).inum = t
  BY <1>1, <1>3, <1>6
<1>8. x # ROOTINODE
  BY <1>1, <1>7 DEF RootInv
<1>9. ParentOf(m, x, t)
  BY <1>1, <1>7, <1>8 DEF ParentsInv
<1>10. PICK l \in Nat : Entry(m, t, l, x)
  BY <1>9 DEF ParentOf
<1>11. l \in 2 .. m.inode[t].size - 1
  BY <1>10 DEF Entry, Below
<1> QED BY <1>5, <1>11

LEMMA EmptyEnds ==
  ASSUME NEW m, Healthy(m), NEW t \in Inodes, Dir(m, t), m.inode[t].size <= 2,
         NEW name \in Names
  PROVE  Walk(m, t, name) = 0
<1> SUFFICES ASSUME Found(m, t, name) PROVE FALSE
  BY ConstantFacts DEF Walk, Dir, ERROR
<1> DEFINE k == Min(Matching(m, t, name))
<1>1. Entry(m, t, k, Inum(m, t, name))
  BY InumCases
<1>2. k \in 2 .. m.inode[t].size - 1
  BY <1>1 DEF Entry, Below
<1>3. m.inode[t].size \in Nat
  BY HealthyIs, SizeNat
<1> QED BY <1>2, <1>3

(* A path to a directory leads through directories.                           *)
LEMMA ThroughDirs ==
  ASSUME NEW m, Healthy(m), NEW path \in PathType, NEW cur \in Inodes, Legal(m, cur),
         NEW at \in [0 .. Len(Parts(path)) -> Inodes \cup {ERROR}], Along(m, path, cur, at),
         Resolve(m, path, cur) # 0
  PROVE  LET n == Len(Parts(path))
         IN  /\ at[n] = Resolve(m, path, cur)
             /\ \A k \in 0 .. n : at[k] \in Inodes \ {0}
             /\ \A k \in 0 .. n - 1 : Dir(m, at[k])
<1> DEFINE n == Len(Parts(path))
<1>1. /\ n \in Nat /\ n >= 1 /\ at[0] = Start(path, cur)
      /\ \A k \in 1 .. n : at[k] = Walk(m, at[k - 1], Parts(path)[k])
      /\ Resolve(m, path, cur) = Ends(at[n])
  BY DEF Along
<1>2. \A k \in 0 .. n : Reached(m, at[k])
  BY <1>1, PathReaches
<1>3. ~IsDir(m, 0)
  BY HealthyIs DEF InodesInv
<1> HIDE DEF n
<1>4. at[n] = Resolve(m, path, cur) /\ at[n] \in Inodes \ {0}
  <2>1. at[n] # ERROR /\ at[n] = Resolve(m, path, cur)
    BY <1>1 DEF Ends
  <2>2. at[n] \in Inodes \cup {ERROR}
    BY <1>1 DEF n
  <2> QED BY <2>1, <2>2
<1>5. ASSUME NEW k \in 1 .. n, at[k] \in Inodes
      PROVE  at[k - 1] \in Inodes \ {0} /\ Dir(m, at[k - 1])
  <2> DEFINE x == at[k - 1]
  <2>1. k - 1 \in 0 .. n
    BY <1>1
  <2>2. at[k] = Walk(m, x, Parts(path)[k]) /\ Reached(m, x)
    BY <1>1, <1>2, <2>1
  <2> HIDE DEF x
  <2>3. x # ERROR /\ IsDir(m, x)
    BY <1>5, <2>2, ConstantFacts DEF Walk
  <2>4. x \in Inodes \ {0} /\ Dir(m, x)
    BY <1>3, <2>2, <2>3 DEF Reached, Legal
  <2> QED BY <2>4 DEF x
<1> DEFINE S == {j \in 0 .. n : at[n - j] \in Inodes \ {0}}
<1>6. 0 \in S
  <2>1. 0 \in 0 .. n /\ n - 0 = n
    BY <1>1
  <2> QED BY <1>4, <2>1
<1>7. \A j \in 1 .. n : j - 1 \in S => j \in S
  <2> SUFFICES ASSUME NEW j \in 1 .. n, at[n - (j - 1)] \in Inodes \ {0}
               PROVE  j \in S
    OBVIOUS
  <2> DEFINE k == n - (j - 1)
  <2>1. k \in 1 .. n /\ k - 1 = n - j /\ j \in 0 .. n
    BY <1>1
  <2>2. at[k - 1] \in Inodes \ {0}
    BY <1>5, <2>1
  <2> HIDE DEF k
  <2>3. at[n - j] \in Inodes \ {0}
    BY <2>1, <2>2
  <2> QED BY <2>1, <2>3
<1>8. \A j \in 0 .. n : j \in S
  <2> HIDE DEF S
  <2> QED BY <1>1, <1>6, <1>7, StepsMeet
<1>9. ASSUME NEW k \in 0 .. n PROVE at[k] \in Inodes \ {0}
  <2> DEFINE j == n - k
  <2>1. j \in 0 .. n /\ n - j = k
    BY <1>1
  <2> HIDE DEF j
  <2>2. at[n - j] \in Inodes \ {0}
    BY <1>8, <2>1
  <2> QED BY <2>1, <2>2
<1>10. ASSUME NEW k \in 0 .. n - 1 PROVE Dir(m, at[k])
  <2>1. k + 1 \in 1 .. n /\ k + 1 \in 0 .. n /\ (k + 1) - 1 = k
    BY <1>1
  <2>2. at[k + 1] \in Inodes
    BY <1>9, <2>1
  <2>3. Dir(m, at[(k + 1) - 1])
    BY <1>5, <2>1, <2>2
  <2> QED BY <2>1, <2>3
<1> QED BY <1>4, <1>9, <1>10 DEF n

(* handle_rmdir still finds the parent when the directory is gone.            *)
LEMMA ParentStays ==
  ASSUME NEW m, Healthy(m), NEW path \in PathType, NEW cur \in Inodes, Legal(m, cur),
         NEW d, d = SuperDir(m, path, cur), d # ERROR, IsDir(m, d), FileName(path) \in Names,
         StraightOn(path.parts),
         NEW t, t = Resolve(m, path, cur), t # 0, IsDir(m, t), m.inode[t].size <= 2, cur # t,
         NEW g \in FsType, \A x \in Inodes : x # t => Alike(m, g, x)
  PROVE  SuperDir(g, path, cur) = d
<1> DEFINE n == Len(Parts(path))
<1>1. m \in FsType /\ (\A x \in Inodes : DirOf(m, x)) /\ ChildrenInv(m)
  BY HealthyIs DEF DirInv
<1>2. PICK at \in [0 .. n -> Inodes \cup {ERROR}] : Along(m, path, cur, at)
  BY <1>1, PathParent
<1>3. PICK to \in [0 .. n -> Inodes \cup {ERROR}] : Along(g, path, cur, to)
  BY PathParent
<1>4. /\ n \in Nat /\ n >= 1 /\ FileName(path) = Parts(path)[n]
      /\ at[0] = Start(path, cur)
      /\ \A k \in 1 .. n : at[k] = Walk(m, at[k - 1], Parts(path)[k])
      /\ SuperDir(m, path, cur) = IF n = 1 THEN at[0]
                                  ELSE IF at[n - 1] \in {0, ERROR} THEN ERROR
                                  ELSE at[n - 1]
  BY <1>2 DEF Along
<1>5. /\ to[0] = Start(path, cur)
      /\ \A k \in 1 .. n : to[k] = Walk(g, to[k - 1], Parts(path)[k])
      /\ SuperDir(g, path, cur) = IF n = 1 THEN to[0]
                                  ELSE IF to[n - 1] \in {0, ERROR} THEN ERROR
                                  ELSE to[n - 1]
  BY <1>3 DEF Along
<1>6. /\ at[n] = t /\ \A k \in 0 .. n : at[k] \in Inodes \ {0}
      /\ \A k \in 0 .. n - 1 : Dir(m, at[k])
  BY <1>2, ThroughDirs
<1>7. /\ t \in Inodes /\ Legal(m, t) /\ d \in Inodes /\ Dir(m, d)
      /\ Found(m, d, FileName(path)) /\ t = Inum(m, d, FileName(path))
  BY TargetIs
<1>8. Dir(m, t)
  BY <1>7 DEF Legal
<1>9. t # ROOTINODE
  <2> DEFINE k == Min(Matching(m, d, FileName(path)))
  <2>1. k \in Nat /\ Entry(m, d, k, t)
    BY <1>7, InumCases
  <2>2. ChildOf(m, d, t, k)
    BY <1>1, <1>7, <2>1 DEF ChildrenInv
  <2> QED BY <2>2 DEF ChildOf
<1>10. \A j, k \in 1 .. n : j < k /\ Parts(path)[j] \in Names => Parts(path)[k] \in Names
  <2>1. Parts(path) = path.parts
    <3>1. SUFFICES path.parts = << >> => FALSE
      BY <3>1 DEF Parts
    <3>2. path.parts = << >> => FileName(path) = ""
      <4>1. path.parts = << >> => Parts(path) = <<"">>
        BY DEF Parts
      <4>2. Len(<<"">>) = 1 /\ <<"">>[1] = ""
        OBVIOUS
      <4>3. path.parts = << >> => n = 1 /\ Parts(path)[n] = ""
        BY <4>1, <4>2
      <4> QED BY <1>4, <4>3
    <3>3. "" \notin Names
      BY PathsAssumption
    <3> QED BY <3>2, <3>3
  <2>2. DOMAIN path.parts = 1 .. n
    <3>1. Parts(path) \in Seq(PathNames)
      BY PathFacts
    <3> QED BY <2>1, <3>1
  <2> QED BY <2>1, <2>2 DEF StraightOn
<1>11. Start(path, cur) # t
  BY <1>9 DEF Start
<1> HIDE DEF n
<1> DEFINE Off == {k \in Nat : k <= n - 1 => at[k] # t /\ to[k] = at[k]}
<1>12. 0 \in Off
  BY <1>4, <1>5, <1>11
<1>13. \A k \in 1 .. n : k - 1 \in Off => k \in Off
  <2> SUFFICES ASSUME NEW k \in 1 .. n, k - 1 \in Off, k <= n - 1
               PROVE  at[k] # t /\ to[k] = at[k]
    BY <1>4
  <2> DEFINE x == at[k - 1]
             name == Parts(path)[k]
  <2>1. /\ k - 1 \in 0 .. n - 1 /\ k - 1 \in 0 .. n /\ k + 1 \in 1 .. n /\ k + 1 \in 0 .. n
        /\ k - 1 <= n - 1 /\ k \in 0 .. n /\ k < k + 1 /\ (k + 1) - 1 = k /\ k \in 0 .. n - 1
    BY <1>4
  <2>2. x # t /\ to[k - 1] = x /\ x \in Inodes /\ Dir(m, x)
    BY <1>6, <2>1
  <2>3. at[k] = Walk(m, x, name) /\ to[k] = Walk(g, x, name)
    BY <1>4, <1>5, <2>2
  <2>4. at[k] # t
    <3>1. CASE name \notin Names
      <4> HIDE DEF x, name
      <4>1. Walk(m, x, name) # t
        BY <1>7, <1>8, <1>9, <2>2, <3>1, EmptyAside
      <4> QED BY <2>3, <4>1
    <3>2. CASE name \in Names
      <4>1. Parts(path)[k + 1] \in Names
        BY <1>10, <2>1, <3>2
      <4>2. Walk(m, t, Parts(path)[k + 1]) = 0
        BY <1>7, <1>8, <4>1, EmptyEnds
      <4>3. at[k + 1] = Walk(m, at[(k + 1) - 1], Parts(path)[k + 1])
        BY <1>4, <2>1
      <4>4. at[k + 1] # 0
        BY <1>6, <2>1
      <4> QED BY <2>1, <4>2, <4>3, <4>4
    <3> QED BY <3>1, <3>2
  <2> HIDE DEF x, name
  <2>5. Alike(m, g, x) /\ DirOf(m, x) /\ IsDir(g, x) /\ IsDir(m, x)
    BY <1>1, <2>2 DEF Alike, IsDir, Dir
  <2>6. /\ Found(g, x, name) <=> Found(m, x, name)
        /\ Found(m, x, name) => Inum(g, x, name) = Inum(m, x, name)
    BY <1>1, <2>2, <2>5, AlikeNames
  <2>7. Walk(g, x, name) = Walk(m, x, name)
    BY <2>5, <2>6 DEF Walk
  <2> QED BY <2>3, <2>4, <2>7
<1>14. \A k \in 0 .. n : k \in Off
  <2> HIDE DEF Off
  <2> QED BY <1>4, <1>12, <1>13, StepsMeet
<1>15. n - 1 \in 0 .. n /\ n - 1 \in Nat /\ 0 \in 0 .. n /\ 0 <= n - 1
  BY <1>4
<1>16. to[n - 1] = at[n - 1] /\ to[0] = at[0]
  BY <1>14, <1>15
<1> QED BY <1>4, <1>5, <1>16

-----------------------------------------------------------------------------
(* The blocks of the inode table *)

(* They are on the free list like any other, but at its end, and nobody       *)
(* points to one.  The header on the disk stays what mkyfs wrote.             *)
TableLast(m) ==
  \A k \in 1 .. Len(m.b_head) :
    m.b_head[k] \in TableBlocks => k > Len(m.b_head) - NumTable
Outside(m) ==
  \A i \in Inodes : \A n \in 0 .. NUM_DIRECT - 1 : m.inode[i].direct[n] \notin TableBlocks
HeaderInv(m) == m.inode[0].type = HEADER /\ m.inode[0].nlink = 0
TableSafe(m) == TableLast(m) /\ Outside(m)
Clean(m) == ~m.bad /\ TableSafe(m) /\ HeaderInv(m)

(* A block that is taken while there are others.                              *)
LEMMA TakeTable ==
  ASSUME NEW m \in FsType, TableSafe(m), Len(m.b_head) >= NumTable + 1
  PROVE  /\ m.b_head # << >> /\ NextBlock(m) \notin TableBlocks
         /\ Len(Rest(m.b_head)) = Len(m.b_head) - 1
         /\ \A m2 \in FsType : m2.b_head = Rest(m.b_head) => TableLast(m2)
<1> DEFINE q == m.b_head
           r == Rest(q)
<1>1. q \in Seq(Blocks) /\ NumTable \in Nat /\ NumTable >= 1 /\ Len(q) \in Nat
  BY ConstantFacts DEF FsType
<1>2. Len(q) >= NumTable + 1
  OBVIOUS
<1>3. \A k \in 1 .. Len(q) : q[k] \in TableBlocks => k > Len(q) - NumTable
  BY DEF TableSafe, TableLast
<1>4. q # << >>
  BY <1>1, <1>2
<1>5. NextBlock(m) = q[1] /\ r = Tail(q)
  BY <1>4 DEF NextBlock, Rest
<1> HIDE DEF q, r
<1>6. Len(r) = Len(q) - 1 /\ \A k \in 1 .. Len(q) - 1 : r[k] = q[k + 1]
  BY <1>1, <1>4, <1>5
<1>7. q[1] \notin TableBlocks
  BY <1>1, <1>2, <1>3
<1>8. \A k \in 1 .. Len(r) : r[k] \in TableBlocks => k > Len(r) - NumTable
  <2> SUFFICES ASSUME NEW k \in 1 .. Len(r), r[k] \in TableBlocks PROVE k > Len(r) - NumTable
    OBVIOUS
  <2>1. k + 1 \in 1 .. Len(q) /\ r[k] = q[k + 1]
    BY <1>1, <1>6
  <2>2. k + 1 > Len(q) - NumTable
    BY <1>3, <2>1
  <2> QED BY <1>1, <1>6, <2>1, <2>2
<1>9. \A m2 \in FsType : m2.b_head = r => TableLast(m2)
  BY <1>8 DEF TableLast
<1> QED BY <1>4, <1>5, <1>6, <1>7, <1>9 DEF q, r

(* The blocks of a file that is emptied go before them.                       *)
LEMMA TableAfter ==
  ASSUME NEW s \in Seq(Blocks), NEW q \in Seq(Blocks), NEW h, h = s \o q,
         \A k \in 1 .. Len(s) : s[k] \notin TableBlocks,
         \A k \in 1 .. Len(q) : q[k] \in TableBlocks => k > Len(q) - NumTable
  PROVE  \A k \in 1 .. Len(h) : h[k] \in TableBlocks => k > Len(h) - NumTable
<1>1. Len(s) \in Nat /\ Len(q) \in Nat /\ NumTable \in Nat
  BY ConstantFacts
<1>2. /\ Len(h) = Len(s) + Len(q)
      /\ \A k \in 1 .. Len(s) + Len(q) : h[k] = IF k <= Len(s) THEN s[k] ELSE q[k - Len(s)]
  OBVIOUS
<1> SUFFICES ASSUME NEW k \in 1 .. Len(h), h[k] \in TableBlocks PROVE k > Len(h) - NumTable
  OBVIOUS
<1>3. ~(k <= Len(s))
  <2> SUFFICES ASSUME k <= Len(s) PROVE FALSE
    OBVIOUS
  <2>1. k \in 1 .. Len(s)
    BY <1>1, <1>2
  <2> QED BY <1>2, <2>1
<1>4. k - Len(s) \in 1 .. Len(q) /\ h[k] = q[k - Len(s)]
  BY <1>1, <1>2, <1>3
<1>5. k - Len(s) > Len(q) - NumTable
  BY <1>4
<1> QED BY <1>1, <1>2, <1>5

LEMMA FreedTable ==
  ASSUME NEW m, Sound(m), TableSafe(m), NEW i \in Inodes, NEW m2, Sound(m2), DroppedList(m, m2, i),
         \A x \in Inodes : m2.inode[x].direct = m.inode[x].direct
  PROVE  TableSafe(m2)
<1>1. Outside(m2)
  BY DEF TableSafe, Outside
<1>2. CASE m2.b_head = m.b_head
  BY <1>1, <1>2 DEF TableSafe, TableLast
<1>3. CASE m2.b_head = Reverse(BlocksOf(m, i)) \o m.b_head
  <2> DEFINE s == Reverse(BlocksOf(m, i))
             N == NumBlocks(m, i)
  <2>1. m \in FsType /\ SizesDirect(m) /\ m.b_head \in Seq(Blocks)
    BY DEF Sound, FsType
  <2>2. /\ s \in Seq(Blocks) /\ Len(s) = N /\ N \in 0 .. MaxBlocks /\ MaxBlocks \in Nat
        /\ \A n \in 1 .. N : s[n] = NthBlock(m, i, N - n)
    BY <2>1, BlocksOfType, NumFacts, ConstantFacts
  <2>3. \A n \in Nat : NthBlock(m, i, n) \notin TableBlocks
    <3> SUFFICES ASSUME NEW n \in Nat PROVE NthBlock(m, i, n) \notin TableBlocks
      OBVIOUS
    <3>1. /\ n * UNITS < m.inode[i].size => n \in 0 .. NUM_DIRECT - 1
          /\ NthBlock(m, i, n) = IF n * UNITS < m.inode[i].size THEN m.inode[i].direct[n] ELSE 0
      BY <2>1, NthDirect
    <3>2. 0 \notin TableBlocks
      BY ConstantFacts
    <3> QED BY <3>1, <3>2 DEF TableSafe, Outside
  <2> HIDE DEF s, N
  <2>4. ASSUME NEW k \in 1 .. Len(s) PROVE s[k] \notin TableBlocks
    <3>1. k \in 1 .. N /\ N - k \in Nat
      BY <2>2
    <3> QED BY <2>2, <2>3, <3>1
  <2>5. \A k \in 1 .. Len(m.b_head) : m.b_head[k] \in TableBlocks => k > Len(m.b_head) - NumTable
    BY DEF TableSafe, TableLast
  <2> DEFINE q == m.b_head
             h == m2.b_head
  <2>6. h = s \o q /\ q \in Seq(Blocks)
    BY <1>3, <2>1 DEF s
  <2>7. \A k \in 1 .. Len(q) : q[k] \in TableBlocks => k > Len(q) - NumTable
    BY <2>5
  <2> HIDE DEF h, q
  <2>8. \A k \in 1 .. Len(h) : h[k] \in TableBlocks => k > Len(h) - NumTable
    BY <2>2, <2>4, <2>6, <2>7, TableAfter
  <2>9. TableLast(m2)
    BY <2>8 DEF h, TableLast
  <2> QED BY <1>1, <2>9 DEF TableSafe
<1> QED BY <1>2, <1>3 DEF DroppedList

(* A step that takes one block, or none.                                      *)
LEMMA TakenTable ==
  ASSUME NEW m \in FsType, TableSafe(m), Len(m.b_head) >= NumTable + 1, NEW m2 \in FsType,
         m2.b_head \in {m.b_head, Rest(m.b_head)}, Pointing(m, m2)
  PROVE  TableSafe(m2) /\ Len(m2.b_head) >= Len(m.b_head) - 1
<1>1. /\ NextBlock(m) \notin TableBlocks /\ Len(Rest(m.b_head)) = Len(m.b_head) - 1
      /\ m2.b_head = Rest(m.b_head) => TableLast(m2)
  BY TakeTable
<1>2. Outside(m2)
  BY <1>1 DEF TableSafe, Outside, Pointing
<1>3. TableLast(m2)
  <2>1. m2.b_head = m.b_head => TableLast(m2)
    BY DEF TableSafe, TableLast
  <2> QED BY <1>1, <2>1
<1>4. Len(m.b_head) \in Nat
  BY DEF FsType
<1>5. Len(m2.b_head) >= Len(m.b_head) - 1
  BY <1>1, <1>4
<1> QED BY <1>2, <1>3, <1>5 DEF TableSafe

LEMMA HeaderStays ==
  ASSUME NEW m, HeaderInv(m), NEW m2, NEW i, i # 0, OnlyInode(m, m2, i)
  PROVE  HeaderInv(m2)
BY ConstantFacts DEF HeaderInv, OnlyInode

LEMMA EntersClean ==
  ASSUME NEW m \in FsType, Clean(m), Len(m.b_head) >= NumTable + 1, NEW d \in Inodes, d # 0,
         NEW k, NEW j, NEW name, NEW f, Enters(m, f, d, k, j, name)
  PROVE  Clean(f) /\ Len(f.b_head) >= Len(m.b_head) - 1
<1>1. /\ Sound(f) /\ f.b_head \in {m.b_head, Rest(m.b_head)} /\ Pointing(m, f)
      /\ OnlyInode(m, f, d) /\ (f.bad => m.bad \/ NextBlock(m) \in TableBlocks)
  BY DEF Enters
<1>2. ~m.bad /\ TableSafe(m) /\ HeaderInv(m)
  BY DEF Clean
<1>3. f \in FsType
  BY <1>1 DEF Sound
<1>4. TableSafe(f) /\ Len(f.b_head) >= Len(m.b_head) - 1
  BY <1>1, <1>2, <1>3, TakenTable
<1>5. NextBlock(m) \notin TableBlocks
  BY <1>2, TakeTable
<1>6. HeaderInv(f)
  BY <1>1, <1>2, HeaderStays
<1>7. ~f.bad
  BY <1>1, <1>2, <1>5
<1> QED BY <1>4, <1>6, <1>7 DEF Clean

LEMMA NextOfSame ==
  ASSUME NEW m, NEW f, f.i_head = m.i_head
  PROVE  NextInode(f) = NextInode(m)
BY DEF NextInode

LEMMA HealthyNot0 ==
  ASSUME NEW m, Healthy(m), NEW i \in Inodes, Legal(m, i)
  PROVE  i # 0
BY RootScanned DEF Legal, Known

LEMMA ClearClean ==
  ASSUME NEW m, Sound(m), Clean(m), NEW i \in Inodes, i # 0, NEW m2, m2 = Clear(m, i)
  PROVE  Clean(m2)
<1>1. /\ Sound(m2) /\ OnlyInode(m, m2, i) /\ m2.bad = m.bad
      /\ \A x \in Inodes : m2.inode[x].direct = m.inode[x].direct
  BY ClearSound
<1>2. m2.b_head = Reverse(BlocksOf(m, i)) \o m.b_head
  BY ClearFacts DEF Sound
<1>3. DroppedList(m, m2, i)
  BY <1>2 DEF DroppedList
<1>4. TableSafe(m2)
  BY <1>1, <1>3, FreedTable DEF Clean
<1>5. HeaderInv(m2)
  BY <1>1, HeaderStays DEF Clean
<1> QED BY <1>1, <1>4, <1>5 DEF Clean

LEMMA SameTable ==
  ASSUME NEW m, TableSafe(m), NEW m2, m2.b_head = m.b_head,
         \A x \in Inodes : m2.inode[x].direct = m.inode[x].direct
  PROVE  TableSafe(m2)
BY DEF TableSafe, TableLast, Outside

LEMMA CreatesClean ==
  ASSUME NEW m, Healthy(m), Clean(m), Len(m.b_head) >= NumTable + 1, m.i_head # << >>,
         NEW d \in Inodes, Dir(m, d), NEW name, NEW m2, Creates(m, m2, d, name)
  PROVE  Clean(m2)
<1>1. PICK k \in Nat, f \in FsType : Enters(m, f, d, k, NextInode(m), name) /\ m2 = MakeFile(f)
  BY DEF Creates
<1>2. m \in FsType /\ d # 0
  BY HealthyIs, DirFacts
<1>3. Clean(f) /\ Sound(f) /\ f.i_head = m.i_head
  <2>1. Clean(f)
    BY <1>1, <1>2, EntersClean
  <2> QED BY <1>1, <2>1 DEF Enters
<1> DEFINE i == NextInode(f)
<1>4. i # 0
  <2>1. NextInode(m) # 0
    <3>1. [i_head |-> Rest(m.i_head)].i_head = Rest(m.i_head)
      OBVIOUS
    <3> QED BY <3>1, InodeTaken
  <2> QED BY <1>3, <2>1, NextOfSame
<1> HIDE DEF i
<1>5. /\ Sound(m2) /\ OnlyInode(f, m2, i) /\ m2.b_head = f.b_head /\ m2.bad = f.bad
      /\ \A x \in Inodes : m2.inode[x].direct = f.inode[x].direct
  BY <1>1, <1>3, MakeFileSound DEF i
<1>6. TableSafe(m2)
  BY <1>3, <1>5, SameTable DEF Clean
<1>7. HeaderInv(m2)
  BY <1>3, <1>4, <1>5, HeaderStays DEF Clean
<1> QED BY <1>3, <1>5, <1>6, <1>7 DEF Clean

LEMMA LinksClean ==
  ASSUME NEW m, Healthy(m), Clean(m), Len(m.b_head) >= NumTable + 1,
         NEW d \in Inodes, Dir(m, d), NEW i \in Inodes, i # 0,
         NEW name, NEW m2, Links(m, m2, d, i, name)
  PROVE  Clean(m2)
<1>1. PICK k \in Nat, f \in FsType : Enters(m, f, d, k, i, name) /\ m2 = Counted(f, i)
  BY DEF Links
<1>2. m \in FsType /\ d # 0
  BY HealthyIs, DirFacts
<1>3. Clean(f) /\ Sound(f)
  <2>1. Clean(f)
    BY <1>1, <1>2, EntersClean
  <2> QED BY <1>1, <2>1 DEF Enters
<1> DEFINE y == f.inode[i].nlink + 1
<1>4. y \in Int /\ m2 = [f EXCEPT !.inode = [f.inode EXCEPT ![i].nlink = y]]
  BY <1>1 DEF FsType, InodeType, Counted
<1> HIDE DEF y
<1>5. /\ OnlyInode(f, m2, i) /\ m2.b_head = f.b_head /\ m2.bad = f.bad
      /\ \A x \in Inodes : m2.inode[x].direct = f.inode[x].direct
  BY <1>3, <1>4, NlinkSound
<1>6. TableSafe(m2)
  BY <1>3, <1>5, SameTable DEF Clean
<1>7. HeaderInv(m2)
  BY <1>3, <1>5, HeaderStays DEF Clean
<1> QED BY <1>3, <1>5, <1>6, <1>7 DEF Clean

LEMMA MakesDirClean ==
  ASSUME NEW m, Healthy(m), Clean(m), Len(m.b_head) >= NumTable + 2, m.i_head # << >>,
         NEW d \in Inodes, Dir(m, d), NEW name, NEW m2, MakesDir(m, m2, d, name)
  PROVE  Clean(m2)
<1>1. PICK k \in Nat, f \in FsType :
        /\ Enters(m, f, d, k, NextInode(m), name) /\ f.b_head # << >>
        /\ m2 = NewDir(f, NextInode(m), d, NextBlock(f))
  BY DEF MakesDir
<1>2. m \in FsType /\ d # 0 /\ Len(m.b_head) \in Nat /\ NumTable \in Nat
  BY HealthyIs, DirFacts, ConstantFacts DEF FsType
<1>3. Len(m.b_head) >= NumTable + 1
  BY <1>2
<1>4. Clean(f) /\ Sound(f) /\ f.i_head = m.i_head /\ Len(f.b_head) >= Len(m.b_head) - 1
  <2>1. Clean(f) /\ Len(f.b_head) >= Len(m.b_head) - 1
    BY <1>1, <1>2, <1>3, EntersClean
  <2> QED BY <1>1, <2>1 DEF Enters
<1>5. Len(f.b_head) >= NumTable + 1
  <2>1. Len(f.b_head) \in Nat
    BY <1>1 DEF FsType
  <2> QED BY <1>2, <1>4, <2>1
<1> DEFINE i == NextInode(f)
<1>6. i # 0 /\ i = NextInode(m)
  <2>1. NextInode(m) # 0
    <3>1. [i_head |-> Rest(m.i_head)].i_head = Rest(m.i_head)
      OBVIOUS
    <3> QED BY <3>1, InodeTaken
  <2> QED BY <1>4, <2>1, NextOfSame
<1>7. m2 = NewDir(f, i, d, NextBlock(f))
  BY <1>1, <1>6
<1>8. /\ Sound(m2) /\ OnlyInode(f, m2, i) /\ m2.b_head = Rest(f.b_head) /\ Pointing(f, m2)
      /\ m2.bad => f.bad \/ NextBlock(f) \in TableBlocks
  BY <1>1, <1>4, <1>7, NewDirSound
<1> HIDE DEF i
<1>9. TableSafe(f) /\ HeaderInv(f) /\ ~f.bad
  BY <1>4 DEF Clean
<1>10. TableSafe(m2)
  <2>1. m2 \in FsType /\ m2.b_head \in {f.b_head, Rest(f.b_head)}
    BY <1>8 DEF Sound
  <2> QED BY <1>1, <1>5, <1>8, <1>9, <2>1, TakenTable
<1>11. HeaderInv(m2)
  BY <1>6, <1>8, <1>9, HeaderStays
<1>12. NextBlock(f) \notin TableBlocks
  BY <1>1, <1>5, <1>9, TakeTable
<1> QED BY <1>8, <1>9, <1>10, <1>11, <1>12 DEF Clean

LEMMA UnlinksClean ==
  ASSUME NEW m, Healthy(m), Clean(m), NEW d \in Inodes, Dir(m, d), NEW t \in Inodes \ {0},
         NEW name, NEW m2, Unlinks(m, m2, d, t, name)
  PROVE  Clean(m2)
<1> DEFINE f == Dropped(m, t)
<1>1. Sound(m) /\ t \in Inodes
  BY HealthyIs
<1>2. /\ Sound(f) /\ f.bad = m.bad /\ OnlyInode(m, f, t) /\ DroppedList(m, f, t)
      /\ \A x \in Inodes : f.inode[x].direct = m.inode[x].direct
  BY <1>1, DroppedFacts
<1> HIDE DEF f
<1>3. m2.inode = f.inode /\ m2.b_head = f.b_head /\ m2.bad = m.bad
  BY DEF Unlinks, Removed, f
<1>4. TableSafe(f) /\ HeaderInv(f)
  <2>1. TableSafe(f)
    BY <1>1, <1>2, FreedTable DEF Clean
  <2>2. HeaderInv(f)
    BY <1>2, HeaderStays DEF Clean
  <2> QED BY <2>1, <2>2
<1>5. TableSafe(m2)
  BY <1>3, <1>4, SameTable
<1>6. HeaderInv(m2)
  BY <1>3, <1>4 DEF HeaderInv
<1> QED BY <1>3, <1>5, <1>6 DEF Clean

LEMMA RemovesClean ==
  ASSUME NEW m, Healthy(m), Clean(m), NEW d \in Inodes, Dir(m, d), NEW t \in Inodes \ {0},
         NEW name, NEW m2, Removes(m, m2, d, t, name)
  PROVE  Clean(m2)
<1> DEFINE c == Clear(m, t)
           g == Gone(m, t)
<1>1. Sound(m) /\ t \in Inodes /\ m \in FsType
  BY HealthyIs
<1>2. Clean(c)
  BY <1>1, ClearClean
<1>3. g.inode = c.inode /\ g.b_head = c.b_head
  BY <1>1, GoneType
<1> HIDE DEF c, g
<1>4. m2.inode = g.inode /\ m2.b_head = g.b_head /\ m2.bad = m.bad
  BY DEF Removes, Removed, g
<1>5. TableSafe(m2) /\ HeaderInv(m2)
  BY <1>2, <1>3, <1>4 DEF Clean, TableSafe, TableLast, Outside, HeaderInv
<1> QED BY <1>4, <1>5 DEF Clean

(* The blocks that a write has to take.                                       *)
Lacking(lo, hi, s) == {q \in lo .. hi : q * UNITS >= s}

LEMMA LackingCount ==
  ASSUME NEW lo \in Nat, NEW hi \in Nat, NEW s \in Nat, NEW s2 \in Nat, s <= s2
  PROVE  /\ Cardinality(Lacking(lo, hi, s)) \in Nat /\ Cardinality(Lacking(lo, hi, s2)) \in Nat
         /\ Cardinality(Lacking(lo, hi, s2)) <= Cardinality(Lacking(lo, hi, s))
         /\ \A q \in Lacking(lo, hi, s) :
              /\ Cardinality(Lacking(lo, hi, s)) >= 1
              /\ q * UNITS < s2 => Cardinality(Lacking(lo, hi, s2)) <= Cardinality(Lacking(lo, hi, s)) - 1
<1> DEFINE A == Lacking(lo, hi, s)
           B == Lacking(lo, hi, s2)
<1>1. UNITS \in Nat /\ \A q \in lo .. hi : q * UNITS \in Nat
  BY ConstantFacts
<1>2. B \subseteq A /\ A \subseteq lo .. hi
  BY <1>1 DEF Lacking
<1>3. IsFiniteSet(A) /\ IsFiniteSet(B)
  <2>1. IsFiniteSet(lo .. hi)
    BY FS_Interval
  <2> QED BY <1>2, <2>1, FS_Subset
<1>4. Cardinality(A) \in Nat /\ Cardinality(B) \in Nat /\ Cardinality(B) <= Cardinality(A)
  BY <1>2, <1>3, FS_CardinalityType, FS_Subset
<1>5. ASSUME NEW q \in A
      PROVE  Cardinality(A) >= 1 /\ (q * UNITS < s2 => Cardinality(B) <= Cardinality(A) - 1)
  <2>1. Cardinality(A \ {q}) = Cardinality(A) - 1 /\ IsFiniteSet(A \ {q}) /\ Cardinality(A \ {q}) \in Nat
    BY <1>3, FS_RemoveElement, FS_CardinalityType
  <2>2. Cardinality(A) >= 1
    BY <1>4, <2>1
  <2>3. ASSUME q * UNITS < s2 PROVE Cardinality(B) <= Cardinality(A) - 1
    <3>1. q \notin B
      <4>1. q * UNITS \in Nat
        BY <1>1, <1>2
      <4>2. ~(q * UNITS >= s2)
        BY <2>3, <4>1
      <4> QED BY <4>2 DEF Lacking
    <3>2. B \subseteq A \ {q}
      BY <1>2, <3>1
    <3>3. Cardinality(B) <= Cardinality(A \ {q})
      BY <2>1, <3>2, FS_Subset
    <3> QED BY <2>1, <3>3
  <2> QED BY <2>2, <2>3
<1> QED BY <1>4, <1>5

LEMMA DivOrder ==
  ASSUME NEW a \in Nat, NEW b \in Nat, a <= b, NEW u \in Nat, u >= 1
  PROVE  a \div u <= b \div u
<1> DEFINE x == a \div u
           y == b \div u
           n == y + 1
<1>1. x \in Nat /\ y \in Nat
  BY DivFacts
<1>2. n \in Nat /\ y < n
  BY <1>1
<1> HIDE DEF n
<1>3. b < n * u
  BY <1>2, DivBelow
<1>4. n * u \in Nat
  BY <1>2
<1>5. a < n * u
  BY <1>3, <1>4
<1>6. x < n
  BY <1>2, <1>5, DivBelow
<1> QED BY <1>1, <1>6 DEF n

LEMMA GrowClean ==
  ASSUME NEW f, Sound(f), Clean(f), NEW i \in Inodes, i # 0, NEW q \in Nat, q < NUM_DIRECT,
         q * UNITS >= f.inode[i].size => Len(f.b_head) >= NumTable + 1,
         NEW g, g = GrowBlock(f, i, q)
  PROVE  /\ Clean(g.fs) /\ g.fs \in FsType /\ g.b \in Blocks
         /\ g.fs.inode[i].size = f.inode[i].size
         /\ q * UNITS < f.inode[i].size => g.fs = f
         /\ q * UNITS >= f.inode[i].size => Len(g.fs.b_head) = Len(f.b_head) - 1
<1>1. f \in FsType /\ BlocksInv(f) /\ SizesDirect(f) /\ TableSafe(f) /\ HeaderInv(f) /\ ~f.bad
  BY DEF Sound, Clean
<1>2. f.inode[i].size \in Nat /\ q * UNITS \in Nat /\ UNITS \in Nat
  BY <1>1, SizeNat, ConstantFacts
<1>3. CASE q * UNITS < f.inode[i].size
  <2>1. q < MaxBlocks
    BY ConstantFacts
  <2>2. g = [fs |-> f, b |-> Pointer(f, i, q)]
    BY <1>1, <1>3, <2>1, GrowCases
  <2>3. Pointer(f, i, q) \in Blocks
    BY <1>1, <2>1, NthFacts
  <2>4. g.fs = f /\ g.b \in Blocks
    BY <2>2, <2>3
  <2> QED BY <1>1, <1>2, <1>3, <2>4
<1>4. CASE q * UNITS >= f.inode[i].size
  <2>1. Len(f.b_head) >= NumTable + 1
    BY <1>4
  <2>2. /\ g.fs \in FsType /\ g.b \in Blocks /\ g.fs.b_head = Rest(f.b_head)
        /\ g.fs.inode[i].direct = [f.inode[i].direct EXCEPT ![q] = g.b]
        /\ \A j \in Inodes : j # i => g.fs.inode[j] = f.inode[j]
        /\ g.b = NextBlock(f) /\ g.fs.bad = (f.bad \/ g.b \in TableBlocks)
        /\ g.fs.inode[i].size = f.inode[i].size
    BY <1>1, <1>4, GrowFresh, SMTT(30)
  <2> DEFINE f2 == g.fs
  <2>3. Pointing(f, f2)
    <3> SUFFICES ASSUME NEW x \in Inodes, NEW n \in 0 .. NUM_DIRECT - 1
                 PROVE  f2.inode[x].direct[n] \in {f.inode[x].direct[n], NextBlock(f)}
      BY DEF Pointing
    <3>1. CASE x # i
      BY <2>2, <3>1
    <3>2. CASE x = i
      <4>1. f.inode[i].direct \in [0 .. NUM_DIRECT - 1 -> Blocks]
        BY <1>1, SizeNat
      <4> QED BY <2>2, <3>2, <4>1
    <3> QED BY <3>1, <3>2
  <2> HIDE DEF f2
  <2>4. f2 \in FsType /\ f2.b_head \in {f.b_head, Rest(f.b_head)}
    BY <2>2 DEF f2
  <2>5. TableSafe(f2)
    BY <1>1, <2>1, <2>3, <2>4, TakenTable
  <2>6. NextBlock(f) \notin TableBlocks /\ Len(Rest(f.b_head)) = Len(f.b_head) - 1
    BY <1>1, <2>1, TakeTable
  <2>7. HeaderInv(f2)
    <3>1. OnlyInode(f, f2, i)
      BY <2>2 DEF OnlyInode, f2
    <3> QED BY <1>1, <3>1, HeaderStays
  <2>8. Clean(f2)
    BY <1>1, <2>2, <2>5, <2>6, <2>7 DEF Clean, f2
  <2>9. ~(q * UNITS < f.inode[i].size)
    BY <1>2, <1>4
  <2> QED BY <2>2, <2>6, <2>8, <2>9 DEF f2
<1> QED BY <1>2, <1>3, <1>4

LEMMA UnitClean ==
  ASSUME NEW f \in FsType, Clean(f), NEW i \in Inodes, i # 0, NEW b \in Blocks, NEW k \in Nat,
         NEW u, u = Unit(f, i, b, k)
  PROVE  Clean(u) /\ u.b_head = f.b_head
<1>1. /\ u.inode[i].direct = f.inode[i].direct
      /\ \A j \in Inodes : j # i => u.inode[j] = f.inode[j]
      /\ u.bad = f.bad /\ u.b_head = f.b_head
  BY UnitType, ZenonT(40)
<1>2. \A x \in Inodes : u.inode[x].direct = f.inode[x].direct
  BY <1>1
<1>3. TableSafe(u)
  BY <1>1, <1>2, SameTable DEF Clean
<1>4. HeaderInv(u)
  BY <1>1, HeaderStays DEF OnlyInode, Clean
<1> QED BY <1>1, <1>3, <1>4 DEF Clean

(* The larger of two sizes.                                                   *)
Larger(a, b) == IF a >= b THEN a ELSE b

LEMMA NumbersNoError == \A n \in Nat : n # ERROR
BY DEF ERROR

LEMMA LenPositive ==
  ASSUME NEW q, Len(q) >= 1
  PROVE  q # << >>
OBVIOUS

(* A write is copied up to its end at most.                                   *)
LEMMA ChunkEnds ==
  ASSUME NEW k \in Nat, NEW end \in Nat
  PROVE  ChunkEnd(k, end) \in Int /\ ChunkEnd(k, end) <= end
<1> DEFINE next == (k \div UNITS + 1) * UNITS
<1>1. next \in Int
  BY ConstantFacts, DivFacts
<1> HIDE DEF next
<1>2. Min({next, end}) = IF next <= end THEN next ELSE end
  BY <1>1, MinOfTwo
<1>3. ChunkEnd(k, end) = Min({next, end})
  BY DEF ChunkEnd, next
<1> QED BY <1>1, <1>2, <1>3

(* get_nth_b inside a file without holes.                                     *)
LEMMA GrowInside ==
  ASSUME NEW f, Sound(f), NEW i \in Inodes, f.inode[i].type = INODE_REGULAR, DataOf(f, i),
         NEW q \in Nat, q < NUM_DIRECT, q * UNITS < f.inode[i].size,
         NEW g, g = GrowBlock(f, i, q)
  PROVE  g.b # 0
<1>1. q < MaxBlocks /\ ~(q >= MaxBlocks)
  BY ConstantFacts DEF MaxBlocks
<1>2. NthBlock(f, i, q) # 0 /\ NthBlock(f, i, q) = Pointer(f, i, q)
  BY <1>1 DEF DataOf, Whole, NthBlock
<1>3. g = [fs |-> f, b |-> Pointer(f, i, q)]
  BY <1>1 DEF GrowBlock
<1> QED BY <1>2, <1>3

LEMMA GrowAtEnd ==
  ASSUME NEW f, Sound(f), NEW i \in Inodes, f.b_head # << >>,
         NEW q \in Nat, q < NUM_DIRECT, q * UNITS >= f.inode[i].size,
         NEW g, g = GrowBlock(f, i, q)
  PROVE  g.b # 0
<1>1. f \in FsType /\ f.b_head \in Seq(Blocks) /\ \A k \in 1 .. Len(f.b_head) : f.b_head[k] # 0
  BY DEF Sound, FsType, BlocksInv
<1>2. g = [fs |-> [Taken(f) EXCEPT !.inode = [f.inode EXCEPT ![i].direct[q] = NextBlock(f)]],
           b  |-> NextBlock(f)]
  BY <1>1, GrowCases
<1>3. g.b = NextBlock(f)
  BY <1>2
<1>4. Len(f.b_head) >= 1 /\ Head(f.b_head) = f.b_head[1]
  BY <1>1
<1> QED BY <1>1, <1>3, <1>4 DEF NextBlock

(* A write stays clear of the inode table, and where the whole buffer is      *)
(* memory of the process it writes all of it.                                 *)
LEMMA WriteClean ==
  ASSUME NEW m, Sound(m), Clean(m), NEW i \in Inodes, i # 0,
         m.inode[i].type = INODE_REGULAR, DataOf(m, i),
         NEW pos \in Nat, pos <= m.inode[i].size, NEW n \in Nat, pos + n <= NUM_DIRECT * UNITS,
         n # 0 => Len(m.b_head) >=
           NumTable + Cardinality(Lacking(pos \div UNITS, (pos + n - 1) \div UNITS, m.inode[i].size)),
         NEW valid \in Nat, NEW r, r = WriteFile(m, i, pos, n, valid)
  PROVE  /\ Clean(r.fs)
         /\ valid = n => /\ r.ret = n
                         /\ n # 0 => r.fs.inode[i].size = Larger(m.inode[i].size, pos + n)
<1>1. PICK at \in [0 .. n -> ReplyType(n)] : WritesBy(m, i, pos, n, valid, at)
  BY WriteSteps DEF Sound
<1>2. r = at[n] /\ at[0] = [fs |-> m, ret |-> n]
  BY <1>1 DEF WritesBy
<1>3. CASE n = 0
  BY <1>2, <1>3
<1>4. CASE n # 0
  <2> DEFINE lo == pos \div UNITS
             hi == (pos + n - 1) \div UNITS
             Room1(f) == Len(f.b_head) >= NumTable + Cardinality(Lacking(lo, hi, f.inode[i].size))
             Done(x, end) == x.ret = n /\ x.fs.inode[i].size = Larger(m.inode[i].size, end)
             Good(l) == /\ Written(m, at[l].fs, i) /\ Clean(at[l].fs)
                        /\ at[l].ret # ERROR => at[l].fs.inode[i].size >= pos + l /\ Room1(at[l].fs)
                        /\ valid = n => Done(at[l], pos + l)
             S == {l \in 0 .. n : Good(l)}
  <2>1. UNITS \in Nat /\ UNITS >= 1 /\ pos + n - 1 \in Nat
    BY <1>4, ConstantFacts
  <2>2. lo \in Nat /\ hi \in Nat
    BY <2>1, DivFacts
  <2>3. 0 \in S
    <3>1. m.inode[i].size \in Nat /\ m.inode[i].size >= m.inode[i].size /\ m.inode[i].size >= pos + 0
      BY SizeNat DEF Sound
    <3>2. Written(m, m, i)
      BY <3>1, AlikeSelf DEF Written
    <3>3. Room1(m)
      BY <1>4
    <3>4. Done(at[0], pos + 0)
      <4>1. pos + 0 = pos
        OBVIOUS
      <4>2. Larger(m.inode[i].size, pos) = m.inode[i].size
        BY <3>1 DEF Larger
      <4> QED BY <1>2, <4>1, <4>2
    <3> HIDE DEF Room1, lo, hi, Done
    <3>6. Good(0)
      BY <1>2, <3>1, <3>2, <3>3, <3>4
    <3>5. 0 \in 0 .. n
      OBVIOUS
    <3> QED BY <3>5, <3>6
  <2>4. ASSUME NEW l \in 1 .. n, l - 1 \in S PROVE l \in S
    <3> DEFINE q == at[l - 1]
               p == at[l]
               k == pos + l - 1
               f == q.fs
               b == k \div UNITS
               g == GrowBlock(f, i, b)
    <3>1. l - 1 \in 0 .. n /\ l \in 0 .. n /\ l \in Nat /\ k \in Nat /\ k = pos + (l - 1) /\ k + 1 = pos + l
          /\ k <= pos + n - 1 /\ pos <= k
      OBVIOUS
    <3>2. q \in ReplyType(n) /\ p = Put(i, pos, n, valid, q, k)
      BY <1>1, <3>1 DEF WritesBy
    <3>3. Written(m, f, i) /\ Clean(f) /\ (q.ret # ERROR => f.inode[i].size >= k /\ Room1(f))
          /\ (valid = n => Done(q, k))
      <4>1. Good(l - 1)
        BY <2>4
      <4> HIDE DEF Room1, Done
      <4> QED BY <3>1, <4>1
    <3>4. p = IF q.ret = ERROR THEN q
              ELSE IF g.b = 0 \/ ChunkEnd(k, pos + n) > pos + valid THEN [fs |-> g.fs, ret |-> ERROR]
              ELSE [fs |-> Unit(g.fs, i, g.b, k), ret |-> q.ret]
      <4> HIDE DEF p, q, k
      <4> QED
        BY <3>1, <3>2, PutCases, SMTT(30)
    <3>5. b \in Nat /\ b * UNITS <= k /\ b < NUM_DIRECT /\ b \in lo .. hi
      <4> HIDE DEF p, q, f, g
      <4>1. k \div UNITS \in Nat /\ k % UNITS \in 0 .. UNITS - 1 /\ k = UNITS * (k \div UNITS) + (k % UNITS)
        BY <2>1, <3>1, DivFacts
      <4>2. b * UNITS <= k
        BY <2>1, <3>1, <4>1
      <4>3. k < NUM_DIRECT * UNITS
        BY <3>1, ConstantFacts
      <4>4. b < NUM_DIRECT
        BY <2>1, <3>1, <4>3, ConstantFacts, DivBelow
      <4>5. lo <= b
        BY <2>1, <3>1, DivOrder
      <4>6. b <= hi
        BY <2>1, <3>1, DivOrder
      <4> QED BY <2>2, <4>1, <4>2, <4>4, <4>5, <4>6
    <3> HIDE DEF q, p, k, b, lo, hi
    <3>6. CASE q.ret = ERROR
      <4>1. p = q
        BY <3>4, <3>6
      <4>2. valid # n
        BY <3>3, <3>6, NumbersNoError
      <4> HIDE DEF f, g, Room1, Done
      <4>3. Written(m, p.fs, i) /\ Clean(p.fs) /\ p.ret = ERROR
        BY <3>3, <3>6, <4>1 DEF f
      <4> QED BY <3>1, <4>2, <4>3 DEF p
    <3>7. CASE q.ret # ERROR
      <4> DEFINE s == f.inode[i].size
      <4>1. Sound(f) /\ f \in FsType /\ f.inode[i].type = INODE_REGULAR /\ DataOf(f, i)
        BY <3>3 DEF Written, Sound
      <4>2. s \in Nat /\ s >= k /\ Len(f.b_head) >= NumTable + Cardinality(Lacking(lo, hi, s))
        BY <3>3, <3>7, <4>1, SizeNat
      <4> HIDE DEF f, g
      <4>3. Len(f.b_head) \in Nat /\ NumTable \in Nat
        <5>1. f.b_head \in Seq(Blocks)
          BY <4>1 DEF FsType
        <5>2. Len(f.b_head) \in Nat
          BY <5>1
        <5> QED BY <5>2, ConstantFacts
      <4>4. b * UNITS >= s => Len(f.b_head) >= NumTable + 1
        <5> HIDE DEF s
        <5>1. b * UNITS >= s => b \in Lacking(lo, hi, s)
          BY <3>5 DEF Lacking
        <5>2. s <= s
          BY <4>2
        <5>3. b * UNITS >= s => Cardinality(Lacking(lo, hi, s)) >= 1 /\ Cardinality(Lacking(lo, hi, s)) \in Nat
          BY <2>2, <4>2, <5>1, <5>2, LackingCount
        <5> QED BY <4>2, <4>3, <5>3
      <4>5. /\ Clean(g.fs) /\ g.fs \in FsType /\ g.b \in Blocks /\ g.fs.inode[i].size = s
            /\ b * UNITS < s => g.fs = f
            /\ b * UNITS >= s => Len(g.fs.b_head) = Len(f.b_head) - 1
        BY <3>3, <3>5, <4>1, <4>4, GrowClean, SMTT(30) DEF g
      <4>6. /\ Written(f, g.fs, i)
            /\ g.b # 0 => /\ Written(f, Unit(g.fs, i, g.b, k), i)
                          /\ Unit(g.fs, i, g.b, k).inode[i].size >= k + 1
        <5>1. k < NUM_DIRECT * UNITS
          <6> DEFINE w == NUM_DIRECT * UNITS
          <6>1. w \in Nat
            BY ConstantFacts
          <6> HIDE DEF w, s
          <6>2. k < w
            BY <3>1, <6>1, pos + n <= w DEF w
          <6> QED BY <6>2 DEF w
        <5>2. k <= f.inode[i].size
          BY <4>2
        <5> QED BY <3>1, <4>1, <5>1, <5>2, UnitWritten DEF g, b
      <4>7. CASE g.b = 0 \/ ChunkEnd(k, pos + n) > pos + valid
        <5>1. p.fs = g.fs /\ p.ret = ERROR
          BY <3>4, <3>7, <4>7
        <5>2. Written(m, p.fs, i)
          BY <3>3, <4>6, <5>1, WrittenTwice
        <5>3. g.b # 0
          <6>1. CASE b * UNITS < s
            BY <3>5, <4>1, <6>1, GrowInside DEF g
          <6>2. CASE b * UNITS >= s
            <7>1. f.b_head # << >>
              BY <4>3, <4>4, <6>2, LenPositive
            <7> QED BY <3>5, <4>1, <6>2, <7>1, GrowAtEnd DEF g
          <6>3. b * UNITS \in Nat
            BY <2>1, <3>5
          <6> HIDE DEF s
          <6> QED BY <4>2, <6>1, <6>2, <6>3
        <5>4. pos + n \in Nat
          OBVIOUS
        <5>5. ChunkEnd(k, pos + n) \in Int /\ ChunkEnd(k, pos + n) <= pos + n
          BY <3>1, <5>4, ChunkEnds
        <5>6. valid # n
          BY <4>7, <5>3, <5>4, <5>5
        <5> HIDE DEF Room1, Done
        <5> QED BY <3>1, <4>5, <5>1, <5>2, <5>6 DEF p
      <4>8. CASE ~(g.b = 0 \/ ChunkEnd(k, pos + n) > pos + valid)
        <5> DEFINE u == p.fs
                   s2 == u.inode[i].size
        <5>1. u = Unit(g.fs, i, g.b, k)
          BY <3>4, <3>7, <4>8
        <5> HIDE DEF u
        <5>2. Written(m, u, i) /\ s2 >= k + 1
          BY <3>3, <4>6, <4>8, <5>1, WrittenTwice
        <5>3. Clean(u) /\ u.b_head = g.fs.b_head
          BY <3>1, <4>5, <5>1, UnitClean
        <5>4. s2 = IF s >= k + 1 THEN s ELSE k + 1
          <6> DEFINE h == g.fs
                     c == g.b
          <6>1. h \in FsType /\ c \in Blocks /\ u = Unit(h, i, c, k) /\ k \in Nat
            BY <3>1, <4>5, <5>1
          <6>2. h.inode[i].size = s
            BY <4>5
          <6> HIDE DEF h, c, s
          <6>3. u.inode[i].size = IF h.inode[i].size >= k + 1 THEN h.inode[i].size ELSE k + 1
            BY <6>1, UnitType, ZenonT(40)
          <6> QED BY <6>2, <6>3
        <5>5. s2 \in Nat /\ s <= s2 /\ b * UNITS < s2
          <6> DEFINE c == b * UNITS
          <6>1. c \in Nat /\ c <= k /\ k \in Nat
            BY <2>1, <3>1, <3>5
          <6> HIDE DEF s, s2, c
          <6>2. s \in Nat /\ s2 = IF s >= k + 1 THEN s ELSE k + 1
            BY <4>2, <5>4
          <6>3. s2 \in Nat /\ s <= s2 /\ c < s2
            BY ONLY <6>1, <6>2
          <6> QED BY <6>3 DEF c
        <5>6. Len(u.b_head) >= NumTable + Cardinality(Lacking(lo, hi, s2))
          <6> HIDE DEF s, s2
          <6>1. /\ Cardinality(Lacking(lo, hi, s)) \in Nat /\ Cardinality(Lacking(lo, hi, s2)) \in Nat
                /\ Cardinality(Lacking(lo, hi, s2)) <= Cardinality(Lacking(lo, hi, s))
                /\ b \in Lacking(lo, hi, s) =>
                     Cardinality(Lacking(lo, hi, s2)) <= Cardinality(Lacking(lo, hi, s)) - 1
            BY <2>2, <4>2, <5>5, LackingCount
          <6>2. CASE b * UNITS < s
            <7>1. u.b_head = f.b_head
              BY <4>5, <5>3, <6>2
            <7> QED BY <4>2, <4>3, <6>1, <7>1
          <6>3. CASE b * UNITS >= s
            <7>1. b \in Lacking(lo, hi, s)
              BY <3>5, <6>3 DEF Lacking
            <7>2. Len(u.b_head) = Len(f.b_head) - 1
              BY <4>5, <5>3, <6>3
            <7>3. /\ NumTable \in Nat /\ Len(f.b_head) \in Nat
                  /\ Len(f.b_head) >= NumTable + Cardinality(Lacking(lo, hi, s))
              BY <4>2, <4>3
            <7>4. Cardinality(Lacking(lo, hi, s2)) <= Cardinality(Lacking(lo, hi, s)) - 1
              BY <6>1, <7>1
            <7> QED BY ONLY <6>1, <7>2, <7>3, <7>4
          <6>4. b * UNITS \in Nat
            BY <2>1, <3>5
          <6> QED BY <4>2, <6>2, <6>3, <6>4
        <5>7. s2 >= pos + l /\ Room1(u)
          BY <3>1, <5>2, <5>6
        <5>8. ASSUME valid = n PROVE Done(p, pos + l)
          <6>1. q.ret = n /\ s = Larger(m.inode[i].size, k)
            BY <3>3, <5>8 DEF f
          <6>2. p.ret = n
            BY <3>4, <3>7, <4>8, <6>1
          <6>3. m.inode[i].size \in Nat
            BY SizeNat DEF Sound
          <6>4. s2 = Larger(m.inode[i].size, k + 1)
            <7> HIDE DEF s, s2
            <7> QED BY <3>1, <5>4, <6>1, <6>3 DEF Larger
          <6> QED BY <3>1, <6>2, <6>4 DEF u
        <5> HIDE DEF Room1, s2, Done
        <5>9. Good(l)
          BY <5>2, <5>3, <5>7, <5>8 DEF u, p, s2
        <5> QED BY <3>1, <5>9
      <4> QED BY <4>7, <4>8
    <3> QED BY <3>6, <3>7
  <2>5. n \in S
    <3> HIDE DEF S
    <3> QED BY <2>3, <2>4, StepByStep
  <2> HIDE DEF Room1
  <2> QED BY <1>2, <2>5
<1> QED BY <1>3, <1>4

(* The numbers on a list that make_free_lists makes are no less than those    *)
(* that are yet to come on it.                                                *)
Falling(q) == \A k \in 1 .. Len(q) : q[k] >= Len(q) - k + 1

LEMMA PushedFalls ==
  ASSUME NEW S, 0 \notin S, NEW n \in Nat, NEW q, ListOf(S, n, q), Falling(q)
  PROVE  Falling(Pushed(S, q, n))
<1>1. q \in Seq(S \cap (0 .. n - 1)) /\ Len(q) \in Nat
  BY DEF ListOf
<1>2. q \in Seq(Nat) /\ \A k \in 1 .. Len(q) : q[k] \in S /\ q[k] \in 0 .. n - 1
  BY <1>1
<1>3. CASE n \notin S
  BY <1>3 DEF Pushed
<1>4. CASE n \in S
  <2> DEFINE r == <<n>> \o q
  <2>1. Len(r) = Len(q) + 1 /\ r[1] = n /\ \A k \in 2 .. Len(q) + 1 : r[k] = q[k - 1]
    BY <1>2
  <2>2. Pushed(S, q, n) = r
    BY <1>4 DEF Pushed
  <2> HIDE DEF r
  <2>3. n >= Len(q) + 1
    <3>1. CASE Len(q) = 0
      <4>1. n # 0
        BY <1>4
      <4> QED BY <3>1, <4>1
    <3>2. CASE Len(q) # 0
      <4>1. 1 \in 1 .. Len(q)
        BY <1>1, <3>2
      <4>2. q[1] >= Len(q) - 1 + 1
        BY <4>1 DEF Falling
      <4>3. q[1] \in 0 .. n - 1
        BY <1>2, <4>1
      <4> QED BY <1>1, <4>2, <4>3
    <3> QED BY <3>1, <3>2
  <2>4. ASSUME NEW k \in 1 .. Len(r) PROVE r[k] >= Len(r) - k + 1
    <3>1. CASE k = 1
      BY <1>1, <2>1, <2>3, <3>1
    <3>2. CASE k # 1
      <4>1. k \in 2 .. Len(q) + 1 /\ k - 1 \in 1 .. Len(q)
        BY <1>1, <2>1, <3>2
      <4>2. r[k] = q[k - 1]
        BY <2>1, <4>1
      <4>3. q[k - 1] >= Len(q) - (k - 1) + 1
        BY <4>1 DEF Falling
      <4> QED BY <1>1, <2>1, <4>1, <4>2, <4>3
    <3> QED BY <3>1, <3>2
  <2> QED BY <2>2, <2>4 DEF Falling
<1> QED BY <1>3, <1>4

LEMMA DescendingFalls ==
  ASSUME NEW S, 0 \notin S, NEW n \in Nat
  PROVE  Falling(Descending(S, n))
<1>1. PICK list : /\ list[0] = << >>
                  /\ \A k \in 1 .. n : list[k] = Pushed(S, list[k - 1], k - 1)
                  /\ Descending(S, n) = list[n]
  BY DescendingSteps
<1> DEFINE Good(k) == ListOf(S, k, list[k]) /\ Falling(list[k])
           Bad == {k \in 0 .. n : ~Good(k)}
<1>2. Bad = {}
  <2> SUFFICES ASSUME Bad # {} PROVE FALSE
    OBVIOUS
  <2>1. PICK k \in Bad : \A j \in Bad : k <= j
    <3>1. Bad \subseteq Nat
      OBVIOUS
    <3> HIDE DEF Bad
    <3> QED
      BY <3>1, Least
  <2>2. k # 0
    <3>1. << >> \in Seq(S \cap (0 .. 0 - 1)) /\ S \cap (0 .. 0 - 1) = {} /\ Len(<< >>) = 0
      OBVIOUS
    <3>2. ListOf(S, 0, list[0])
      BY <1>1, <3>1 DEF ListOf, IsInjective1
    <3>3. Falling(list[0])
      BY <1>1, <3>1 DEF Falling
    <3> QED BY <3>2, <3>3
  <2>3. k \in 1 .. n /\ k - 1 \in 0 .. n /\ k - 1 \in Nat /\ (k - 1) + 1 = k /\ ~(k <= k - 1)
    BY <2>2
  <2>4. Good(k - 1)
    <3>1. k - 1 \notin Bad
      BY <2>1, <2>3
    <3> QED BY <2>3, <3>1
  <2>5. ListOf(S, (k - 1) + 1, Pushed(S, list[k - 1], k - 1))
    BY <2>3, <2>4, PushFacts
  <2>6. Falling(Pushed(S, list[k - 1], k - 1))
    BY <2>3, <2>4, PushedFalls
  <2>7. Good(k)
    BY <1>1, <2>3, <2>5, <2>6
  <2> QED
    BY <2>7
<1>3. n \in 0 .. n
  OBVIOUS
<1> QED
  BY <1>1, <1>2, <1>3

LEMMA BootClean ==
  ASSUME NEW m \in FsType, Clean(m), NEW m2, m2 = Boot(m)
  PROVE  Clean(m2)
<1> DEFINE free == {i \in Scanned : m.inode[i].type = INODE_FREE}
           used == {0} \cup UNION {Pointers(m, i) : i \in Scanned \ free}
           S == Blocks \ used
           q == m2.b_head
<1>1. /\ m2 \in FsType /\ m2.inode = m.inode
      /\ m2.b_head = Descending(S, NUM_BLOCKS)
  BY BootType
<1>2. 0 \notin S
  OBVIOUS
<1>3. m2.bad = (m.bad \/ m.inode[0].type # HEADER \/ m.inode[0].nlink # 0)
  BY DEF Boot, FsType
<1>4. ~m2.bad
  BY <1>3 DEF Clean, HeaderInv
<1> HIDE DEF S
<1>5. Falling(q)
  BY <1>1, <1>2, ConstantFacts, DescendingFalls
<1>6. q \in Seq(Blocks) /\ NumTable \in Nat
  BY <1>1, ConstantFacts DEF FsType
<1> HIDE DEF q
<1>7. ASSUME NEW k \in 1 .. Len(q), q[k] \in TableBlocks PROVE k > Len(q) - NumTable
  <2>1. q[k] >= Len(q) - k + 1 /\ q[k] <= NumTable /\ q[k] \in Nat /\ Len(q) \in Nat
    BY <1>5, <1>6, <1>7 DEF Falling, TableBlocks
  <2> QED BY <1>6, <2>1
<1>8. TableLast(m2)
  BY <1>7 DEF TableLast, q
<1>9. Outside(m2) /\ HeaderInv(m2)
  BY <1>1 DEF Clean, TableSafe, Outside, HeaderInv
<1> QED
  BY <1>4, <1>8, <1>9 DEF Clean, TableSafe

(* The disk of mkyfs: the root has the block after the table.                 *)
LEMMA MkYfsDirect ==
  /\ HeaderInv(MkYfs) /\ ~MkYfs.bad
  /\ \A i \in Inodes, n \in 0 .. NUM_DIRECT - 1 :
       MkYfs.inode[i].direct[n] \in {0, NumTable + 1}
<1>2. /\ 0 \in Blocks /\ NumTable + 1 \in Blocks /\ 0 \in Inodes /\ ROOTINODE \in Inodes
      /\ NUM_DIRECT \in Nat /\ NUM_DIRECT >= 1 /\ ROOTINODE = 1 /\ NumTable \in Nat
  BY ConstantFacts DEF ROOTINODE
<1>3. ~MkYfs.bad
  BY DEF MkYfs
<1>4. \A i \in Inodes :
        MkYfs.inode[i] = CASE i = 0 -> [Blank EXCEPT !.type = HEADER]
                           [] i = ROOTINODE -> [Blank EXCEPT !.type = INODE_DIRECTORY, !.nlink = 2,
                                               !.size = 2, !.direct[0] = NumTable + 1]
                           [] OTHER -> Blank
  BY DEF MkYfs
<1> DEFINE none == [n \in 0 .. NUM_DIRECT - 1 |-> 0]
           one == [none EXCEPT ![0] = NumTable + 1]
           b == [type |-> INODE_FREE, nlink |-> 0, size |-> 0, direct |-> none]
<1>5. Blank = b /\ b.direct = none
  BY DEF Blank
<1>6. none \in [0 .. NUM_DIRECT - 1 -> Blocks] /\ \A n \in 0 .. NUM_DIRECT - 1 : none[n] = 0
  BY <1>2
<1>7. \A n \in 0 .. NUM_DIRECT - 1 : one[n] \in {0, NumTable + 1}
  BY <1>2, <1>6
<1>8. b \in InodeType /\ b.nlink = 0
  BY <1>6 DEF InodeType, INODE_FREE, HEADER
<1> HIDE DEF none, b
<1>9. /\ [b EXCEPT !.type = HEADER].type = HEADER /\ [b EXCEPT !.type = HEADER].nlink = 0
      /\ [b EXCEPT !.type = HEADER].direct = none
  BY <1>5, <1>8 DEF InodeType
<1>10. [b EXCEPT !.type = INODE_DIRECTORY, !.nlink = 2, !.size = 2,
                 !.direct[0] = NumTable + 1].direct = one
  BY <1>5, <1>8 DEF InodeType
<1> DEFINE h == [b EXCEPT !.type = HEADER]
           root == [b EXCEPT !.type = INODE_DIRECTORY, !.nlink = 2, !.size = 2,
                             !.direct[0] = NumTable + 1]
           Made(i) == CASE i = 0 -> h [] i = ROOTINODE -> root [] OTHER -> b
<1>16. \A i \in Inodes : MkYfs.inode[i] = Made(i)
  BY <1>4, <1>5
<1>17. ROOTINODE # 0
  BY <1>2
<1> HIDE DEF h, root
<1>18. \A i : Made(i) = IF i = 0 THEN h ELSE IF i = ROOTINODE THEN root ELSE b
  BY <1>17
<1> HIDE DEF Made
<1>11. HeaderInv(MkYfs)
  <2>1. Made(0) = h
    BY <1>18
  <2>2. MkYfs.inode[0] = h
    BY <1>2, <1>16, <2>1
  <2> QED BY <1>9, <2>2 DEF HeaderInv, h
<1>12. \A i \in Inodes : MkYfs.inode[i].direct \in {none, one}
  <2> SUFFICES ASSUME NEW i \in Inodes PROVE MkYfs.inode[i].direct \in {none, one}
    OBVIOUS
  <2>1. MkYfs.inode[i] \in {h, root, b}
    BY <1>16, <1>18
  <2>2. h.direct = none /\ root.direct = one /\ b.direct = none
    BY <1>5, <1>9, <1>10 DEF h, root
  <2> HIDE DEF one
  <2> QED BY <2>1, <2>2
<1> HIDE DEF one
<1> QED
  BY <1>3, <1>6, <1>7, <1>11, <1>12

LEMMA MkYfsClean == Clean(MkYfs)
<1>1. MkYfs \in FsType /\ MkYfs.b_head = << >>
  BY MkYfsType
<1>2. 0 \notin TableBlocks /\ NumTable + 1 \notin TableBlocks
  BY ConstantFacts DEF TableBlocks
<1>3. Outside(MkYfs)
  BY <1>2, MkYfsDirect DEF Outside
<1>4. TableLast(MkYfs)
  BY <1>1 DEF TableLast
<1> QED
  BY <1>3, <1>4, MkYfsDirect DEF Clean, TableSafe
=============================================================================
