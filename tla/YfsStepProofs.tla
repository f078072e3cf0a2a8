--------------------------- MODULE YfsStepProofs ---------------------------
(* Steps of processes that keep their promises never harm the file system:    *)
(* what is healthy stays healthy, what a process holds is there, the server   *)
(* stays within what C defines, nlink counts names and the root leads to all. *)
EXTENDS YfsTreeProofs

(* The promises that the server relies on.                                    *)
Promised == {"live", "kind", "plain", "straight", "idle", "space", "direct"} \subseteq Promises

(* What a process holds is in use, and no position is beyond the end.         *)
FileHeld(m, f) == f # NULL => Legal(m, f.i_num) /\ f.pos <= m.inode[f.i_num].size
Holding(m, files, dirs) ==
  /\ \A p \in Procs, fd \in Slots : FileHeld(m, files[p][fd])
  /\ \A p \in Procs : Legal(m, dirs[p])

(* What is in the blocks is right even when the server went wrong; the rest   *)
(* is right until then.                                                       *)
Inv == Safe(fs) /\ (~fs.bad => Healthy(fs) /\ Holding(fs, fds, cwd))

LEMMA KeptPromises ==
  ASSUME Promised, NEW c \in {"live", "kind", "plain", "straight", "idle", "space", "direct"}, NEW x, Kept(c, x)
  PROVE  x
BY DEF Kept, Promised

-----------------------------------------------------------------------------
(* What the processes hold *)

LEMMA SlotHeld ==
  ASSUME NEW p \in Procs, NEW fd \in Slots, NEW files \in FdsType,
         NEW m, NEW dirs, Holding(m, files, dirs), NEW file, FileHeld(m, file)
  PROVE  Holding(m, [files EXCEPT ![p][fd] = file], dirs)
<1> DEFINE files2 == [files EXCEPT ![p][fd] = file]
<1>1. /\ files2[p][fd] = file
      /\ \A q \in Procs, g \in Slots : q # p \/ g # fd => files2[q][g] = files[q][g]
  BY DEF FdsType
<1> HIDE DEF files2
<1>2. \A q \in Procs, g \in Slots : FileHeld(m, files2[q][g])
  <2> SUFFICES ASSUME NEW q \in Procs, NEW g \in Slots PROVE FileHeld(m, files2[q][g])
    OBVIOUS
  <2>1. FileHeld(m, files[q][g])
    BY DEF Holding
  <2>2. CASE q # p \/ g # fd
    BY <1>1, <2>1, <2>2
  <2>3. CASE q = p /\ g = fd
    BY <1>1, <2>3
  <2> QED BY <2>2, <2>3
<1>3. \A q \in Procs : Legal(m, dirs[q])
  BY DEF Holding
<1>4. Holding(m, files2, dirs)
  BY <1>2, <1>3 DEF Holding
<1> QED BY <1>4 DEF files2

(* A position that moves within the file.                                     *)
LEMMA PosHeld ==
  ASSUME NEW p \in Procs, NEW fd \in Slots, NEW files \in FdsType, files[p][fd] # NULL,
         NEW m, NEW dirs, Holding(m, files, dirs),
         NEW to \in Nat, to <= m.inode[files[p][fd].i_num].size
  PROVE  Holding(m, [files EXCEPT ![p][fd].pos = to], dirs)
<1> DEFINE f == files[p][fd]
           f2 == [f EXCEPT !.pos = to]
<1>1. f \in FileType
  BY DEF FdsType
<1>2. [files EXCEPT ![p][fd].pos = to] = [files EXCEPT ![p][fd] = f2]
  OBVIOUS
<1>3. FileHeld(m, f) /\ f # NULL /\ to <= m.inode[f.i_num].size
  BY DEF Holding
<1> HIDE DEF f
<1>4. f2.i_num = f.i_num /\ f2.pos = to
  BY <1>1 DEF FileType
<1> HIDE DEF f2
<1>5. FileHeld(m, f2)
  BY <1>3, <1>4 DEF FileHeld
<1>6. Holding(m, [files EXCEPT ![p][fd] = f2], dirs)
  BY <1>5, SlotHeld
<1> QED BY <1>2, <1>6

LEMMA OpenHeld ==
  ASSUME NEW p \in Procs, NEW i \in Inodes \cup {ERROR}, fds \in FdsType, OpenAs(p, i),
         NEW m \in FsType, i # ERROR => Legal(m, i), NEW dirs, Holding(m, fds, dirs)
  PROVE  Holding(m, fds', dirs)
<1> DEFINE free == {fd \in Slots : fds[p][fd] = NULL}
           file == [i_num |-> i, pos |-> 0]
<1>1. CASE i = ERROR \/ free = {}
  <2>1. fds' = fds
    BY <1>1 DEF OpenAs
  <2> QED BY <2>1
<1>2. CASE i # ERROR /\ free # {}
  <2>1. Min(free) \in Slots
    <3>1. free \subseteq Nat
      BY RequestTypes
    <3>2. Min(free) \in free
      BY <1>2, <3>1, MinFacts
    <3> QED BY <3>2
  <2>2. fds' = [fds EXCEPT ![p][Min(free)] = file]
    BY <1>2 DEF OpenAs
  <2>3. FileHeld(m, file)
    <3>1. Legal(m, i) /\ i \in Inodes
      BY <1>2
    <3>2. 0 <= m.inode[i].size
      BY <3>1, SizeNat
    <3> QED BY <3>1, <3>2 DEF FileHeld
  <2> HIDE DEF file, free
  <2> QED BY <2>1, <2>2, <2>3, SlotHeld
<1> QED BY <1>1, <1>2

(* What a step does to one inode nobody minds who has nothing else: it stays  *)
(* in use and everybody is at its beginning, or nobody has it.                *)
LEMMA StillHeld ==
  ASSUME NEW m \in FsType, NEW files \in FdsType, NEW dirs \in [Procs -> Inodes],
         Holding(m, files, dirs), NEW m2 \in FsType, NEW t \in Inodes,
         \A x \in Inodes : x # t /\ Legal(m, x) => Legal(m2, x),
         \A x \in Inodes : x # t /\ Legal(m, x) => m2.inode[x].size >= m.inode[x].size,
         Legal(m, t) => Legal(m2, t) \/ \A p \in Procs : dirs[p] # t,
         \A p \in Procs, fd \in Slots :
           files[p][fd] # NULL /\ files[p][fd].i_num = t =>
             Legal(m2, t) /\ (files[p][fd].pos = 0 \/ m2.inode[t].size >= m.inode[t].size)
  PROVE  Holding(m2, files, dirs)
<1>1. \A p \in Procs : Legal(m2, dirs[p])
  <2> SUFFICES ASSUME NEW p \in Procs PROVE Legal(m2, dirs[p])
    OBVIOUS
  <2>1. dirs[p] \in Inodes /\ Legal(m, dirs[p])
    BY DEF Holding
  <2> QED BY <2>1
<1>2. ASSUME NEW p \in Procs, NEW fd \in Slots PROVE FileHeld(m2, files[p][fd])
  <2> DEFINE f == files[p][fd]
  <2>1. FileHeld(m, f)
    BY DEF Holding
  <2>2. f = NULL \/ f \in FileType
    BY DEF FdsType
  <2>3. f # NULL /\ f.i_num = t => Legal(m2, t) /\ (f.pos = 0 \/ m2.inode[t].size >= m.inode[t].size)
    OBVIOUS
  <2> HIDE DEF f
  <2>4. CASE f # NULL
    <3>1. f.i_num \in Inodes /\ f.pos \in Nat
      BY <2>2, <2>4 DEF FileType
    <3>2. Legal(m, f.i_num) /\ f.pos <= m.inode[f.i_num].size
      BY <2>1, <2>4 DEF FileHeld
    <3>3. m.inode[f.i_num].size \in Nat /\ m2.inode[f.i_num].size \in Nat
      BY <3>1, SizeNat
    <3>4. Legal(m2, f.i_num)
      BY <2>3, <2>4, <3>1, <3>2
    <3>5. f.pos = 0 \/ m2.inode[f.i_num].size >= m.inode[f.i_num].size
      BY <2>3, <2>4, <3>1, <3>2
    <3>6. f.pos <= m2.inode[f.i_num].size
      BY <3>1, <3>2, <3>3, <3>5
    <3>7. FileHeld(m2, f)
      BY <3>4, <3>6 DEF FileHeld
    <3> QED BY <3>7 DEF f
  <2> QED BY <2>4 DEF FileHeld, f
<1> QED BY <1>1, <1>2 DEF Holding

-----------------------------------------------------------------------------
(* What the promises give *)

LEMMA ParentPromised ==
  ASSUME Promised, NEW d, HasParent(d)
  PROVE  d # ERROR /\ IsDir(fs, d)
BY KeptPromises DEF HasParent

LEMMA RoomPromised ==
  ASSUME Promised, NEW n \in Nat, Room(n)
  PROVE  Len(fs.b_head) >= Cardinality(TableBlocks) + n
BY DEF Room, Kept, Promised

LEMMA TableCount == Cardinality(TableBlocks) = NumTable
<1>1. NumTable \in Nat /\ NumTable >= 1
  BY ConstantFacts
<1>2. IsFiniteSet(1 .. NumTable) /\ Cardinality(1 .. NumTable) = NumTable
  BY <1>1, FS_Interval, FS_CountingElements
<1> QED BY <1>2 DEF TableBlocks

LEMMA BlockPromised ==
  ASSUME Promised, fs \in FsType, NEW n \in Nat, Room(n)
  PROVE  Len(fs.b_head) >= n /\ (n >= 1 => fs.b_head # << >>)
<1>1. Len(fs.b_head) >= NumTable + n
  BY RoomPromised, TableCount
<1>2. NumTable \in Nat /\ fs.b_head \in Seq(Blocks) /\ Len(fs.b_head) \in Nat
  BY ConstantFacts DEF FsType
<1>3. Len(fs.b_head) >= n
  BY <1>1, <1>2
<1>4. n >= 1 => fs.b_head # << >>
  BY <1>2, <1>3
<1> QED BY <1>3, <1>4

LEMMA ShortPromised ==
  ASSUME Promised, NEW d, d # ERROR, NEW path, Short(d, path)
  PROVE  \/ fs.inode[d].size < NUM_DIRECT * UNITS
         \/ Found(fs, d, FileName(path)) \/ Vacant(fs, d) # {}
BY KeptPromises DEF Short

LEMMA IdlePromised ==
  ASSUME Promised, NEW i
  PROVE  /\ AtStart(i) => \A p \in Procs, fd \in Slots :
                            fds[p][fd] # NULL /\ fds[p][fd].i_num = i => fds[p][fd].pos = 0
         /\ Unused(i) => /\ \A p \in Procs, fd \in Slots :
                              fds[p][fd] # NULL => fds[p][fd].i_num # i
                         /\ \A p \in Procs : cwd[p] # i
<1>1. ASSUME NEW p \in Procs, NEW fd \in Slots, fds[p][fd] # NULL, fds[p][fd].i_num = i
      PROVE  <<p, fd>> \in OpenOn(i)
  BY <1>1 DEF OpenOn
<1>2. ASSUME AtStart(i), NEW p \in Procs, NEW fd \in Slots, fds[p][fd] # NULL, fds[p][fd].i_num = i
      PROVE  fds[p][fd].pos = 0
  <2>1. \A f \in OpenOn(i) : fds[f[1]][f[2]].pos = 0
    BY <1>2, KeptPromises DEF AtStart
  <2>2. <<p, fd>> \in OpenOn(i)
    BY <1>1, <1>2
  <2> QED BY <2>1, <2>2
<1>3. ASSUME Unused(i) PROVE OpenOn(i) = {} /\ \A p \in Procs : cwd[p] # i
  BY <1>3, KeptPromises DEF Unused
<1> QED BY <1>1, <1>2, <1>3

-----------------------------------------------------------------------------
(* The steps *)

LEMMA NotBad ==
  ASSUME Fits, Inv, Up
  PROVE  /\ Healthy(fs) /\ Holding(fs, fds, cwd)
         /\ fs \in FsType /\ fds \in FdsType /\ cwd \in [Procs -> Inodes]
         /\ \A p \in Procs : cwd[p] \in Inodes /\ Legal(fs, cwd[p])
BY DEF Fits, TypeInv, Inv, Up, Holding

LEMMA StaysHealthy ==
  ASSUME Healthy(fs'), Holding(fs', fds', cwd')
  PROVE  Inv'
BY DEF Inv, Healthy

LEMMA OpenKeeps ==
  ASSUME Promised, Fits, Inv, NEW p \in Procs, NEW path \in Paths, Open(p, path)
  PROVE  Inv'
<1> DEFINE t == Resolve(fs, path, cwd[p])
           i == LookUp(fs, path, cwd[p])
<1>1. /\ Healthy(fs) /\ Holding(fs, fds, cwd) /\ fs \in FsType /\ fds \in FdsType
      /\ cwd[p] \in Inodes /\ Legal(fs, cwd[p]) /\ path \in PathType
  BY NotBad, RequestTypes DEF Open
<1>2. OpenAs(p, i) /\ fs' = fs /\ cwd' = cwd
  BY DEF Open
<1>3. t \in Inodes /\ (t = 0 \/ Legal(fs, t))
  BY <1>1, TargetIs
<1>4. i = IF t = 0 THEN ERROR ELSE t
  BY DEF LookUp
<1> HIDE DEF i, t
<1>5. i \in Inodes \cup {ERROR} /\ (i # ERROR => Legal(fs, i))
  BY <1>3, <1>4
<1>6. Holding(fs, fds', cwd)
  BY <1>1, <1>2, <1>5, OpenHeld
<1> QED BY <1>1, <1>2, <1>6, StaysHealthy

LEMMA CreateKeeps ==
  ASSUME Promised, Fits, Fits', Inv, NEW p \in Procs, NEW path \in Paths, Create(p, path)
  PROVE  Inv'
<1> DEFINE d == SuperDir(fs, path, cwd[p])
           t == Resolve(fs, path, cwd[p])
           r == CreateFile(fs, path, cwd[p], ERROR)
<1>1. /\ Healthy(fs) /\ Holding(fs, fds, cwd)
      /\ fs \in FsType /\ fds \in FdsType /\ cwd \in [Procs -> Inodes]
      /\ cwd[p] \in Inodes /\ Legal(fs, cwd[p]) /\ path \in PathType
  BY NotBad, RequestTypes DEF Create
<1>2. /\ Plain(path) /\ HasParent(d) /\ Short(d, path) /\ Room(1) /\ InodeFor(p, path)
      /\ Kept("kind", ~IsDir(fs, t)) /\ AtStart(t)
      /\ fs' = r.fs /\ OpenAs(p, r.ret) /\ cwd' = cwd
  BY DEF Create, Parent, Target
<1>3. d # ERROR /\ IsDir(fs, d)
  BY <1>2, ParentPromised
<1>4. /\ FileName(path) \in Names /\ (t = 0 => fs.i_head # << >>) /\ ~IsDir(fs, t)
      /\ fs.b_head # << >>
  <2>1. FileName(path) \in Names
    BY <1>2 DEF Plain, Kept, Promised
  <2>2. t = 0 => fs.i_head # << >>
    BY <1>2, KeptPromises DEF InodeFor, Target
  <2>3. ~IsDir(fs, t)
    BY <1>2, KeptPromises
  <2> QED BY <1>1, <1>2, <2>1, <2>2, <2>3, BlockPromised
<1>5. \/ fs.inode[d].size < NUM_DIRECT * UNITS
      \/ Found(fs, d, FileName(path)) \/ Vacant(fs, d) # {}
  BY <1>2, <1>3, ShortPromised
<1>6. t \in Inodes
  BY <1>1, ResolveType
<1>7. \A q \in Procs, fd \in Slots : fds[q][fd] # NULL /\ fds[q][fd].i_num = t => fds[q][fd].pos = 0
  BY <1>2, IdlePromised
<1>8. /\ Healthy(r.fs) /\ \A x \in Inodes : Legal(fs, x) => Legal(r.fs, x)
      /\ r.ret \in Inodes /\ Legal(r.fs, r.ret)
      /\ \A x \in Inodes : Legal(fs, x) /\ x # t => r.fs.inode[x].size >= fs.inode[x].size
  BY <1>1, <1>3, <1>4, <1>5, CreateHealthy
<1> HIDE DEF d, t, r
<1>9. fs' \in FsType
  BY DEF Fits, TypeInv
<1>10. \A q \in Procs, fd \in Slots :
         fds[q][fd] # NULL /\ fds[q][fd].i_num = t => Legal(fs, t)
  BY <1>1 DEF Holding, FileHeld
<1>11. Holding(r.fs, fds, cwd)
  BY <1>1, <1>2, <1>6, <1>7, <1>8, <1>9, <1>10, StillHeld
<1>12. Holding(r.fs, fds', cwd)
  BY <1>1, <1>2, <1>8, <1>9, <1>11, OpenHeld
<1> QED BY <1>2, <1>8, <1>12, StaysHealthy

LEMMA CloseKeeps ==
  ASSUME Fits, Inv, NEW p \in Procs, NEW fd \in Slots, Close(p, fd)
  PROVE  Inv'
<1>1. fds \in FdsType /\ fs' = fs /\ cwd' = cwd /\ fds' = [fds EXCEPT ![p][fd] = NULL]
  BY DEF Fits, TypeInv, Close
<1>2. ASSUME Holding(fs, fds, cwd) PROVE Holding(fs, fds', cwd)
  <2>1. FileHeld(fs, NULL)
    BY DEF FileHeld
  <2> QED BY <1>1, <1>2, <2>1, SlotHeld
<1> QED BY <1>1, <1>2 DEF Inv

LEMMA ReadKeeps ==
  ASSUME Fits, Inv, NEW p \in Procs, NEW fd \in Slots, NEW n \in Sizes, Read(p, fd, n)
  PROVE  Inv'
<1> DEFINE i == fds[p][fd].i_num
           pos == fds[p][fd].pos
           bytes == ReadFile(fs, i, pos, n)
<1>1. /\ Healthy(fs) /\ Holding(fs, fds, cwd) /\ fs \in FsType /\ fds \in FdsType
      /\ fds[p][fd] # NULL /\ n \in Nat /\ fs' = fs /\ cwd' = cwd
      /\ Advance(p, fd, bytes) \/ Advance(p, fd, ERROR)
  BY NotBad, RequestTypes DEF Read
<1>2. i \in Inodes /\ pos \in Nat /\ fs.inode[i].size \in Nat
  BY <1>1, FileFacts, SizeNat DEF Fits
<1>3. pos <= fs.inode[i].size
  BY <1>1 DEF Holding, FileHeld
<1>4. bytes = ERROR \/ (pos + bytes \in Nat /\ pos + bytes <= fs.inode[i].size)
  <2> DEFINE size == fs.inode[i].size
             left == IF size - pos < n THEN size - pos ELSE n
  <2>1. bytes \in {ERROR, left}
    BY DEF ReadFile
  <2> HIDE DEF bytes, pos, i
  <2>2. pos + left \in Nat /\ pos + left <= size
    BY <1>1, <1>2, <1>3
  <2> HIDE DEF size, left
  <2> QED BY <2>1, <2>2 DEF size
<1>5. Holding(fs, fds', cwd)
  <2>1. CASE fds' = fds
    BY <1>1, <2>1
  <2>2. CASE bytes # ERROR /\ fds' = [fds EXCEPT ![p][fd].pos = pos + bytes]
    <3> DEFINE to == pos + bytes
    <3>1. to \in Nat /\ to <= fs.inode[fds[p][fd].i_num].size
      BY <1>4, <2>2
    <3>2. fds' = [fds EXCEPT ![p][fd].pos = to]
      BY <2>2
    <3> HIDE DEF to
    <3> QED BY <1>1, <3>1, <3>2, PosHeld
  <2> HIDE DEF bytes
  <2> QED BY <1>1, <2>1, <2>2 DEF Advance
<1> QED BY <1>1, <1>5, StaysHealthy

LEMMA WriteKeeps ==
  ASSUME Promised, Fits, Fits', Inv, NEW p \in Procs, NEW fd \in Slots, NEW n \in Sizes,
         Write(p, fd, n)
  PROVE  Inv'
<1> DEFINE i == fds[p][fd].i_num
           pos == fds[p][fd].pos
<1>1. PICK valid \in 0 .. n :
        /\ Kept("kind", ~IsDir(fs, i)) /\ Kept("direct", pos + n <= NUM_DIRECT * UNITS)
        /\ fs' = WriteFile(fs, i, pos, n, valid).fs
        /\ Advance(p, fd, WriteFile(fs, i, pos, n, valid).ret)
  BY DEF Write
<1> DEFINE r == WriteFile(fs, i, pos, n, valid)
<1>2. /\ Healthy(fs) /\ Holding(fs, fds, cwd)
      /\ fs \in FsType /\ fds \in FdsType /\ cwd \in [Procs -> Inodes]
      /\ fds[p][fd] # NULL /\ n \in Nat /\ valid \in Nat /\ cwd' = cwd
  BY NotBad, RequestTypes DEF Write
<1>3. i \in Inodes /\ pos \in Nat /\ fs.inode[i].size \in Nat
  BY <1>2, FileFacts, SizeNat DEF Fits
<1>4. Legal(fs, i) /\ pos <= fs.inode[i].size
  BY <1>2 DEF Holding, FileHeld
<1>5. ~IsDir(fs, i) /\ pos + n <= NUM_DIRECT * UNITS
  <2> HIDE DEF pos, i, r
  <2> QED BY <1>1 DEF Kept, Promised
<1> HIDE DEF pos, i
<1>6. /\ Healthy(r.fs) /\ \A x \in Inodes : Legal(fs, x) => Legal(r.fs, x)
      /\ \A x \in Inodes : r.fs.inode[x].size >= fs.inode[x].size
      /\ r.ret \in {n, ERROR} /\ (r.ret # ERROR => r.fs.inode[i].size >= pos + n)
  BY <1>2, <1>3, <1>4, <1>5, WriteHealthy
<1>7. fs' = r.fs /\ Advance(p, fd, r.ret) /\ fs' \in FsType
  BY <1>1 DEF Fits, TypeInv
<1> HIDE DEF r
<1>8. Holding(r.fs, fds, cwd)
  <2>1. \A q \in Procs, g \in Slots :
          fds[q][g] # NULL /\ fds[q][g].i_num = i =>
            Legal(r.fs, i) /\ (fds[q][g].pos = 0 \/ r.fs.inode[i].size >= fs.inode[i].size)
    BY <1>3, <1>4, <1>6
  <2> QED BY <1>2, <1>3, <1>6, <1>7, <2>1, StillHeld
<1>9. Holding(r.fs, fds', cwd)
  <2>1. CASE r.ret = ERROR
    BY <1>7, <1>8, <2>1 DEF Advance
  <2>2. CASE r.ret # ERROR
    <3> DEFINE to == pos + n
    <3>1. r.ret = n
      BY <1>6, <2>2
    <3>2. to \in Nat /\ to <= r.fs.inode[fds[p][fd].i_num].size
      BY <1>2, <1>3, <1>6, <1>7, <2>2, SizeNat DEF i
    <3>3. fds' = [fds EXCEPT ![p][fd].pos = to]
      BY <1>7, <2>2, <3>1 DEF Advance, pos
    <3> HIDE DEF to
    <3> QED BY <1>2, <1>8, <3>2, <3>3, PosHeld
  <2> QED BY <2>1, <2>2
<1> QED BY <1>2, <1>6, <1>7, <1>9, StaysHealthy

LEMMA SeekKeeps ==
  ASSUME Fits, Inv, NEW p \in Procs, NEW fd \in Slots, NEW offset \in Offsets,
         NEW whence \in {"SEEK_SET", "SEEK_CUR", "SEEK_END"}, Seek(p, fd, offset, whence)
  PROVE  Inv'
<1> DEFINE i == fds[p][fd].i_num
           size == fs.inode[i].size
           to == SeekFile(fs, i, offset, whence, fds[p][fd].pos)
<1>1. /\ Healthy(fs) /\ Holding(fs, fds, cwd) /\ fs \in FsType /\ fds \in FdsType
      /\ fds[p][fd] # NULL /\ fs' = fs /\ cwd' = cwd
      /\ fds' = IF to = ERROR THEN fds ELSE [fds EXCEPT ![p][fd].pos = to]
  BY NotBad DEF Seek
<1>2. i \in Inodes /\ size \in Nat
  BY <1>1, FileFacts, SizeNat DEF Fits
<1>3. to = ERROR \/ to \in 0 .. size
  <2>1. SeeksExact
    BY SeekExact
  <2>2. fds[p][fd] \in {fds[q][g] : q \in Procs, g \in Slots} \ {NULL}
    BY <1>1
  <2>3. \E x : to = IF fds[p][fd].pos \in 0 .. size /\ x \in 0 .. size THEN x ELSE ERROR
    BY <2>1, <2>2 DEF SeeksExact
  <2> HIDE DEF to, size, i
  <2> QED BY <2>3
<1>4. to = ERROR \/ (to \in Nat /\ to <= size)
  <2> HIDE DEF to, size, i
  <2> QED BY <1>2, <1>3
<1>5. Holding(fs, fds', cwd)
  <2> HIDE DEF to
  <2> QED BY <1>1, <1>4, PosHeld
<1> QED BY <1>1, <1>5, StaysHealthy

LEMMA LinkKeeps ==
  ASSUME Promised, Fits, Fits', Inv, NEW p \in Procs, NEW old \in Paths, NEW new \in Paths,
         Link(p, old, new)
  PROVE  Inv'
<1> DEFINE path == Relative(new)
           d == SuperDir(fs, path, Start(new, Start(old, cwd[p])))
           r == LinkFile(fs, old, new, cwd[p])
<1>1. /\ Healthy(fs) /\ Holding(fs, fds, cwd)
      /\ fs \in FsType /\ fds \in FdsType /\ cwd \in [Procs -> Inodes]
      /\ cwd[p] \in Inodes /\ Legal(fs, cwd[p]) /\ old \in PathType /\ new \in PathType
  BY NotBad, RequestTypes DEF Link
<1>2. /\ Plain(new) /\ HasParent(d) /\ Short(d, new) /\ Room(1)
      /\ fs' = r.fs /\ fds' = fds /\ cwd' = cwd
  BY DEF Link, LinkParent, Relative
<1>3. d # ERROR /\ IsDir(fs, d)
  BY <1>2, ParentPromised
<1>4. FileName(new) \in Names
  BY <1>2 DEF Plain, Kept, Promised
<1>5. \/ fs.inode[d].size < NUM_DIRECT * UNITS
      \/ Found(fs, d, FileName(new)) \/ Vacant(fs, d) # {}
  BY <1>2, <1>3, ShortPromised
<1>6. fs.b_head # << >>
  BY <1>1, <1>2, BlockPromised
<1>7. /\ Healthy(r.fs) /\ \A x \in Inodes : Legal(fs, x) => Legal(r.fs, x)
      /\ \A x \in Inodes : r.fs.inode[x].size >= fs.inode[x].size
  BY <1>1, <1>3, <1>4, <1>5, <1>6, LinkHealthy
<1> HIDE DEF d, r
<1>8. fs' \in FsType /\ ROOTINODE \in Inodes
  BY ConstantFacts DEF Fits, TypeInv
<1>9. Holding(r.fs, fds, cwd)
  <2>1. \A q \in Procs, g \in Slots :
          fds[q][g] # NULL /\ fds[q][g].i_num = ROOTINODE => Legal(fs, ROOTINODE)
    BY <1>1 DEF Holding, FileHeld
  <2> QED BY <1>1, <1>2, <1>7, <1>8, <2>1, StillHeld
<1> QED BY <1>2, <1>7, <1>9, StaysHealthy

LEMMA UnlinkKeeps ==
  ASSUME Promised, Fits, Fits', Inv, NEW p \in Procs, NEW path \in Paths, Unlink(p, path)
  PROVE  Inv'
<1> DEFINE d == SuperDir(fs, path, cwd[p])
           t == Resolve(fs, path, cwd[p])
           r == UnlinkFile(fs, path, cwd[p])
<1>1. /\ Healthy(fs) /\ Holding(fs, fds, cwd)
      /\ fs \in FsType /\ fds \in FdsType /\ cwd \in [Procs -> Inodes]
      /\ cwd[p] \in Inodes /\ Legal(fs, cwd[p]) /\ path \in PathType
  BY NotBad, RequestTypes DEF Unlink
<1>2. /\ Plain(path) /\ HasParent(d) /\ Kept("live", t # 0) /\ Kept("kind", ~IsDir(fs, t))
      /\ AtStart(t) /\ fs' = r.fs /\ fds' = fds /\ cwd' = cwd
  BY DEF Unlink, Parent, Target, Exists
<1>3. d # ERROR /\ IsDir(fs, d)
  BY <1>2, ParentPromised
<1>4. FileName(path) \in Names /\ t # 0 /\ ~IsDir(fs, t)
  <2>1. FileName(path) \in Names
    BY <1>2 DEF Plain, Kept, Promised
  <2> QED BY <1>2, <2>1, KeptPromises
<1>5. t \in Inodes
  BY <1>1, ResolveType
<1>6. \A q \in Procs, fd \in Slots : fds[q][fd] # NULL /\ fds[q][fd].i_num = t => fds[q][fd].pos = 0
  BY <1>2, IdlePromised
<1>7. /\ Healthy(r.fs) /\ \A x \in Inodes : Legal(fs, x) => Legal(r.fs, x)
      /\ \A x \in Inodes : x # t => r.fs.inode[x].size >= fs.inode[x].size
  BY <1>1, <1>3, <1>4, UnlinkHealthy
<1> HIDE DEF d, t, r
<1>8. fs' \in FsType
  BY DEF Fits, TypeInv
<1>9. \A q \in Procs, fd \in Slots : fds[q][fd] # NULL /\ fds[q][fd].i_num = t => Legal(fs, t)
  BY <1>1 DEF Holding, FileHeld
<1>10. Holding(r.fs, fds, cwd)
  BY <1>1, <1>2, <1>5, <1>6, <1>7, <1>8, <1>9, StillHeld
<1> QED BY <1>2, <1>7, <1>10, StaysHealthy

LEMMA MkDirKeeps ==
  ASSUME Promised, Fits, Fits', Inv, NEW p \in Procs, NEW path \in Paths, MkDir(p, path)
  PROVE  Inv'
<1> DEFINE d == SuperDir(fs, path, cwd[p])
           t == Resolve(fs, path, cwd[p])
           r == MakeDir(fs, path, cwd[p])
<1>1. /\ Healthy(fs) /\ Holding(fs, fds, cwd)
      /\ fs \in FsType /\ fds \in FdsType /\ cwd \in [Procs -> Inodes]
      /\ cwd[p] \in Inodes /\ Legal(fs, cwd[p]) /\ path \in PathType
  BY NotBad, RequestTypes DEF MkDir
<1>2. /\ Plain(path) /\ HasParent(d) /\ Short(d, path) /\ Room(2)
      /\ Kept("space", t = 0 => fs.i_head # << >>)
      /\ fs' = r.fs /\ fds' = fds /\ cwd' = cwd
  BY DEF MkDir, Parent, Target, InodeFor
<1>3. d # ERROR /\ IsDir(fs, d)
  BY <1>2, ParentPromised
<1>4. FileName(path) \in Names /\ (t = 0 => fs.i_head # << >>) /\ Len(fs.b_head) >= 2
  <2>1. FileName(path) \in Names
    BY <1>2 DEF Plain, Kept, Promised
  <2>2. t = 0 => fs.i_head # << >>
    BY <1>2, KeptPromises
  <2> QED BY <1>1, <1>2, <2>1, <2>2, BlockPromised
<1>5. \/ fs.inode[d].size < NUM_DIRECT * UNITS
      \/ Found(fs, d, FileName(path)) \/ Vacant(fs, d) # {}
  BY <1>2, <1>3, ShortPromised
<1>6. /\ Healthy(r.fs) /\ \A x \in Inodes : Legal(fs, x) => Legal(r.fs, x)
      /\ \A x \in Inodes : Legal(fs, x) => r.fs.inode[x].size >= fs.inode[x].size
  BY <1>1, <1>3, <1>4, <1>5, MkDirHealthy
<1> HIDE DEF d, t, r
<1>7. fs' \in FsType /\ ROOTINODE \in Inodes
  BY ConstantFacts DEF Fits, TypeInv
<1>8. Holding(r.fs, fds, cwd)
  <2>1. \A q \in Procs, g \in Slots :
          fds[q][g] # NULL /\ fds[q][g].i_num = ROOTINODE => Legal(fs, ROOTINODE)
    BY <1>1 DEF Holding, FileHeld
  <2> QED BY <1>1, <1>2, <1>6, <1>7, <2>1, StillHeld
<1> QED BY <1>2, <1>6, <1>8, StaysHealthy

LEMMA RmDirKeeps ==
  ASSUME Promised, Fits, Fits', Inv, NEW p \in Procs, NEW path \in Paths, RmDir(p, path)
  PROVE  Inv'
<1> DEFINE d == SuperDir(fs, path, cwd[p])
           t == Resolve(fs, path, cwd[p])
           r == RemoveDir(fs, path, cwd[p])
<1>1. /\ Healthy(fs) /\ Holding(fs, fds, cwd)
      /\ fs \in FsType /\ fds \in FdsType /\ cwd \in [Procs -> Inodes]
      /\ cwd[p] \in Inodes /\ Legal(fs, cwd[p]) /\ path \in PathType
  BY NotBad, RequestTypes DEF RmDir
<1>2. /\ Plain(path) /\ HasParent(d) /\ Kept("live", t # 0) /\ Kept("kind", IsDir(fs, t))
      /\ Unused(t) /\ fs' = r.fs /\ fds' = fds /\ cwd' = cwd
  BY DEF RmDir, Parent, Target, Exists
<1>3. d # ERROR /\ IsDir(fs, d)
  BY <1>2, ParentPromised
<1>4. FileName(path) \in Names /\ t # 0 /\ IsDir(fs, t)
  <2>1. FileName(path) \in Names
    BY <1>2 DEF Plain, Kept, Promised
  <2> HIDE DEF d, t, r
  <2>2. t # 0 /\ IsDir(fs, t)
    BY <1>2 DEF Kept, Promised
  <2> QED BY <2>1, <2>2
<1>5. t \in Inodes
  BY <1>1, ResolveType
<1>6. /\ \A q \in Procs, fd \in Slots : fds[q][fd] # NULL => fds[q][fd].i_num # t
      /\ \A q \in Procs : cwd[q] # t
  BY <1>2, IdlePromised
<1>7. /\ Safe(r.fs)
      /\ ~r.fs.bad => /\ Healthy(r.fs)
                      /\ \A x \in Inodes : x # t /\ Legal(fs, x) => Legal(r.fs, x)
                      /\ \A x \in Inodes : x # t => r.fs.inode[x].size >= fs.inode[x].size
  BY <1>1, <1>3, <1>4, RmDirHealthy
<1> HIDE DEF d, t, r
<1>8. fs' \in FsType
  BY DEF Fits, TypeInv
<1>9. ~r.fs.bad => Healthy(r.fs) /\ Holding(r.fs, fds, cwd)
  BY <1>1, <1>2, <1>5, <1>6, <1>7, <1>8, StillHeld
<1> QED BY <1>2, <1>7, <1>9 DEF Inv

LEMMA ChDirKeeps ==
  ASSUME Fits, Inv, NEW p \in Procs, NEW path \in Paths, ChDir(p, path)
  PROVE  Inv'
<1> DEFINE t == Resolve(fs, path, cwd[p])
           i == LookUp(fs, path, cwd[p])
<1>1. /\ Healthy(fs) /\ Holding(fs, fds, cwd) /\ fs \in FsType /\ cwd \in [Procs -> Inodes]
      /\ cwd[p] \in Inodes /\ Legal(fs, cwd[p]) /\ path \in PathType
  BY NotBad, RequestTypes DEF ChDir
<1>2. cwd' = IF i = ERROR THEN cwd ELSE [cwd EXCEPT ![p] = i]
  BY DEF ChDir
<1>3. t \in Inodes /\ (t = 0 \/ Legal(fs, t))
  BY <1>1, TargetIs
<1>4. i = IF t = 0 THEN ERROR ELSE t
  BY DEF LookUp
<1>5. fs' = fs /\ fds' = fds
  BY DEF ChDir
<1> HIDE DEF i, t
<1>6. i # ERROR => Legal(fs, i)
  BY <1>3, <1>4
<1>7. \A q \in Procs : Legal(fs, cwd[q])
  BY <1>1 DEF Holding
<1>8. \A q \in Procs : Legal(fs, cwd'[q])
  BY <1>1, <1>2, <1>6, <1>7
<1>9. Holding(fs, fds, cwd')
  BY <1>1, <1>8 DEF Holding
<1> QED BY <1>1, <1>5, <1>9, StaysHealthy

(* Everybody starts at the root, with no file.                                *)
LEMMA HeldAtRoot ==
  ASSUME NEW m, Legal(m, ROOTINODE)
  PROVE  Holding(m, NoFiles, AtRoot)
BY DEF Holding, FileHeld, NoFiles, AtRoot

LEMMA RootLegal ==
  ASSUME NEW m, Healthy(m)
  PROVE  Legal(m, ROOTINODE)
BY HealthyIs, DirFacts, RootScanned DEF RootInv

LEMMA RestartKeeps ==
  ASSUME Fits, Inv, Restart
  PROVE  Inv'
<1>1. Healthy(fs) /\ fs' = Boot(fs) /\ fds' = NoFiles /\ cwd' = AtRoot
  BY NotBad DEF Restart
<1>2. Healthy(fs')
  BY <1>1, BootHealthy
<1> QED BY <1>1, <1>2, RootLegal, HeldAtRoot, StaysHealthy

LEMMA InitInv == Init => Inv
<1> SUFFICES ASSUME Init PROVE Inv
  OBVIOUS
<1>1. fs = Boot(MkYfs) /\ fds = NoFiles /\ cwd = AtRoot
  BY DEF Init
<1>2. Healthy(fs)
  BY <1>1, MkYfsHealthy, BootHealthy
<1>3. Holding(fs, fds, cwd)
  BY <1>1, <1>2, RootLegal, HeldAtRoot
<1> QED BY <1>2, <1>3 DEF Inv, Healthy

LEMMA InvStep ==
  ASSUME Promised, Fits, Fits', Inv, [Next]_vars
  PROVE  Inv'
<1>1. CASE UNCHANGED vars
  BY <1>1 DEF vars, Inv
<1>2. CASE Next
  <2>1. ASSUME NEW p \in Procs, NEW path \in Paths,
               Open(p, path) \/ Create(p, path) \/ Unlink(p, path) \/ MkDir(p, path)
               \/ RmDir(p, path) \/ ChDir(p, path)
        PROVE  Inv'
    BY <2>1, OpenKeeps, CreateKeeps, UnlinkKeeps, MkDirKeeps, RmDirKeeps, ChDirKeeps
  <2>2. ASSUME NEW p \in Procs, NEW fd \in Slots, NEW n \in Sizes,
               Read(p, fd, n) \/ Write(p, fd, n)
        PROVE  Inv'
    BY <2>2, ReadKeeps, WriteKeeps
  <2>3. ASSUME NEW p \in Procs, NEW fd \in Slots, Close(p, fd) PROVE Inv'
    BY <2>3, CloseKeeps
  <2>4. ASSUME NEW p \in Procs, NEW fd \in Slots, NEW offset \in Offsets,
               NEW whence \in {"SEEK_SET", "SEEK_CUR", "SEEK_END"}, Seek(p, fd, offset, whence)
        PROVE  Inv'
    BY <2>4, SeekKeeps
  <2>5. ASSUME NEW p \in Procs, NEW old \in Paths, NEW new \in Paths, Link(p, old, new)
        PROVE  Inv'
    BY <2>5, LinkKeeps
  <2> QED BY <1>2, <2>1, <2>2, <2>3, <2>4, <2>5, RestartKeeps DEF Next
<1> QED BY <1>1, <1>2

LEMMA InvAlways ==
  ASSUME Promised
  PROVE  Spec => [](Fits /\ Inv)
<1>1. Init => Fits /\ Inv
  BY InitFits, InitInv
<1>2. Fits /\ Inv /\ [Next]_vars => Fits' /\ Inv'
  BY FitsStep, InvStep
<1> QED BY <1>1, <1>2, PTL DEF Spec

-----------------------------------------------------------------------------
(* What the root leads to *)

Deeper1(S) == S \cup UNION {Children(d) : d \in {i \in S : IsDir(fs, i)}}
Deepening(n, it) ==
  it = [s \in SUBSET (1 .. n) |-> IF s = {} THEN {ROOTINODE} ELSE Deeper1(it[s \ {Max(s)}])]

LEMMA LiveIs ==
  ASSUME NEW n, n = Cardinality(Inodes)
  PROVE  Live = (CHOOSE it : Deepening(n, it))[1 .. n]
<1> DEFINE q == [k \in 1 .. n |-> k]
           Deeper(S, k) == S \cup UNION {Children(d) : d \in {i \in S : IsDir(fs, i)}}
<1>1. Live = FoldLeft(Deeper, {ROOTINODE}, q)
  BY DEF Live
<1>2. DOMAIN q = 1 .. n
  OBVIOUS
<1>3. FoldLeft(Deeper, {ROOTINODE}, q)
      = (CHOOSE it : it = [s \in SUBSET (DOMAIN q) |->
                             IF s = {} THEN {ROOTINODE}
                             ELSE Deeper1(it[s \ {Max(s)}])])[DOMAIN q]
  BY DEF FoldLeft, MapThenFoldSet, Deeper1
<1> HIDE DEF q
<1> QED BY <1>1, <1>2, <1>3 DEF Deepening

LEMMA DeeperType ==
  ASSUME fs \in FsType, NEW S \in SUBSET Inodes
  PROVE  Deeper1(S) \in SUBSET Inodes
<1>1. ASSUME NEW d \in S PROVE Children(d) \subseteq Inodes
  <2>1. d \in Inodes
    OBVIOUS
  <2>2. \A k \in Places(fs, d) : CellAt(fs, d, k).inum \in Inodes
    <3> SUFFICES ASSUME NEW k \in Places(fs, d) PROVE CellAt(fs, d, k).inum \in Inodes
      OBVIOUS
    <3>1. k \in Nat
      BY <2>1, PlacesFacts
    <3>2. CellAt(fs, d, k) \in CellType
      BY <2>1, <3>1, CellFacts
    <3> QED BY <3>2 DEF CellType
  <2> QED BY <2>2 DEF Children, Entries
<1> QED BY <1>1 DEF Deeper1

LEMMA LiveSteps ==
  ASSUME fs \in FsType
  PROVE  \E n \in Nat : \E at \in [0 .. n -> SUBSET Inodes] :
           /\ at[0] = {ROOTINODE}
           /\ \A k \in 1 .. n : at[k] = Deeper1(at[k - 1])
           /\ Live = at[n]
           /\ n = Cardinality(Inodes)
<1> DEFINE A == SUBSET Inodes
           l == Cardinality(Inodes)
           base == {ROOTINODE}
           G == [x \in A \X (1 .. l) |-> Deeper1(x[1])]
<1>1. l \in Nat
  <2>1. IsFiniteSet(Inodes)
    BY ConstantFacts, FS_Interval DEF Inodes
  <2> QED BY <2>1, FS_CardinalityType
<1>2. base \in A
  BY ConstantFacts
<1> HIDE DEF base, l
<1>3. \A a \in A : \A k \in 1 .. l : G[<<a, k>>] = Deeper1(a) /\ G[<<a, k>>] \in A
  BY DeeperType
<1> HIDE DEF G
<1>4. PICK it0 \in [SUBSET (1 .. l) -> A] : Folding(base, G, l, it0)
  <2> HIDE DEF A
  <2>1. \A a \in A : \A k \in 1 .. l : G[<<a, k>>] \in A
    BY <1>3
  <2> QED BY <1>1, <1>2, <2>1, FoldExists
<1>5. \A s \in SUBSET (1 .. l) : s # {} => Max(s) \in 1 .. l /\ s \ {Max(s)} \in SUBSET (1 .. l)
  <2> SUFFICES ASSUME NEW s \in SUBSET (1 .. l), s # {}
               PROVE  Max(s) \in 1 .. l
    OBVIOUS
  <2>1. Max(s) \in s
    BY <1>1, MaxOfInterval
  <2> QED BY <2>1
<1>6. Deepening(l, it0)
  <2>1. \A s \in SUBSET (1 .. l) : s # {} =>
          G[<<it0[s \ {Max(s)}], Max(s)>>] = Deeper1(it0[s \ {Max(s)}])
    <3> SUFFICES ASSUME NEW s \in SUBSET (1 .. l), s # {}
                 PROVE  G[<<it0[s \ {Max(s)}], Max(s)>>] = Deeper1(it0[s \ {Max(s)}])
      OBVIOUS
    <3> DEFINE t == s \ {Max(s)}
               x == Max(s)
    <3>1. t \in SUBSET (1 .. l) /\ x \in 1 .. l
      BY <1>5
    <3> HIDE DEF t, x
    <3>2. it0[t] \in A
      BY <1>4, <3>1
    <3>3. G[<<it0[t], x>>] = Deeper1(it0[t])
      BY <1>3, <3>1, <3>2
    <3> QED BY <3>3 DEF t, x
  <2>2. [s \in SUBSET (1 .. l) |-> IF s = {} THEN base ELSE G[<<it0[s \ {Max(s)}], Max(s)>>]]
        = [s \in SUBSET (1 .. l) |-> IF s = {} THEN base ELSE Deeper1(it0[s \ {Max(s)}])]
    BY <2>1
  <2> QED BY <1>4, <2>2 DEF Folding, Deepening, base
<1> DEFINE it == CHOOSE it : Deepening(l, it)
           at == [k \in 0 .. l |-> it[1 .. k]]
<1>7. Deepening(l, it)
  BY <1>6
<1>8. Live = it[1 .. l]
  BY LiveIs DEF l
<1> HIDE DEF it
<1>9. it = [s \in SUBSET (1 .. l) |-> IF s = {} THEN base ELSE Deeper1(it[s \ {Max(s)}])]
  BY <1>7 DEF Deepening, base
<1>10. at[0] = base
  <2>1. 1 .. 0 = {} /\ {} \in SUBSET (1 .. l) /\ 0 \in 0 .. l
    BY <1>1
  <2>2. it[{}] = base
    BY <1>9, <2>1
  <2> QED BY <2>1, <2>2
<1>11. ASSUME NEW k \in 1 .. l PROVE at[k] = Deeper1(at[k - 1])
  <2>1. /\ 1 .. k # {} /\ Max(1 .. k) = k /\ (1 .. k) \ {k} = 1 .. k - 1
        /\ 1 .. k \in SUBSET (1 .. l) /\ k - 1 \in 0 .. l /\ k \in 0 .. l
    BY <1>1, PrefixFacts
  <2>2. it[1 .. k] = Deeper1(it[(1 .. k) \ {Max(1 .. k)}])
    BY <1>9, <2>1
  <2>3. it[1 .. k] = Deeper1(it[1 .. k - 1])
    BY <2>1, <2>2
  <2> QED BY <2>1, <2>3
<1>12. at = [k \in 0 .. l |-> at[k]] /\ l \in 0 .. l /\ at[l] = it[1 .. l]
  BY <1>1
<1> HIDE DEF at
<1>13. \A k \in 0 .. l : at[k] \in A
  <2>1. at[0] \in A
    BY <1>2, <1>10
  <2>2. \A k \in 1 .. l : at[k - 1] \in A => at[k] \in A
    BY <1>11, DeeperType
  <2> HIDE DEF A
  <2> QED BY <1>1, <2>1, <2>2, StepsStay
<1>14. at \in [0 .. l -> A]
  BY <1>12, <1>13
<1>15. l = Cardinality(Inodes)
  BY DEF l
<1> QED BY <1>1, <1>8, <1>10, <1>11, <1>12, <1>14, <1>15 DEF base

LEMMA LiveStays ==
  ASSUME fs \in FsType, NEW A, {ROOTINODE} \in A, \A S \in A : Deeper1(S) \in A
  PROVE  Live \in A
<1>1. PICK n \in Nat : \E at \in [0 .. n -> SUBSET Inodes] :
        /\ at[0] = {ROOTINODE}
        /\ \A k \in 1 .. n : at[k] = Deeper1(at[k - 1])
        /\ Live = at[n]
  BY LiveSteps
<1>2. PICK at \in [0 .. n -> SUBSET Inodes] :
        /\ at[0] = {ROOTINODE}
        /\ \A k \in 1 .. n : at[k] = Deeper1(at[k - 1])
        /\ Live = at[n]
  BY <1>1
<1>3. at[0] \in A /\ \A k \in 1 .. n : at[k - 1] \in A => at[k] \in A
  BY <1>2
<1>4. \A k \in 0 .. n : at[k] \in A
  BY <1>3, StepsStay
<1>5. n \in 0 .. n
  OBVIOUS
<1> QED BY <1>2, <1>4, <1>5

LEMMA LiveInodes ==
  ASSUME fs \in FsType
  PROVE  Live \subseteq Inodes
<1>1. {ROOTINODE} \in SUBSET Inodes
  BY ConstantFacts
<1>2. Live \in SUBSET Inodes
  BY <1>1, DeeperType, LiveStays
<1> QED BY <1>2

(* The entries of a directory are its places after the first two that have an *)
(* inode; a directory that was removed has none.                              *)
LEMMA EntriesAre ==
  ASSUME fs \in FsType, NEW d \in Inodes, IsDir(fs, d), DirOf(fs, d)
  PROVE  \A k \in Nat : k \in Entries(d) <=> /\ Dir(fs, d) /\ k \in Below(fs, d)
                                             /\ CellAt(fs, d, k).inum # 0
<1> SUFFICES ASSUME NEW k \in Nat
             PROVE  k \in Entries(d) <=> /\ Dir(fs, d) /\ k \in Below(fs, d)
                                         /\ CellAt(fs, d, k).inum # 0
  OBVIOUS
<1>1. fs.inode[d].size \in Nat
  BY SizeNat
<1>2. k \in Entries(d) <=> k \in Places(fs, d) /\ k >= 2 /\ CellAt(fs, d, k).inum # 0
  BY DEF Entries
<1>3. k \in Places(fs, d) => k < fs.inode[d].size
  BY PlacesFacts
<1>4. k \in Below(fs, d) <=> k >= 2 /\ k < fs.inode[d].size
  BY <1>1 DEF Below
<1>5. Dir(fs, d) => (k \in Places(fs, d) <=> k < fs.inode[d].size)
  <2> SUFFICES ASSUME Dir(fs, d) PROVE k \in Places(fs, d) <=> k < fs.inode[d].size
    OBVIOUS
  <2>1. Whole(fs, d)
    BY DEF DirOf
  <2> QED BY <2>1, WholePlaces
<1>6. k < fs.inode[d].size => Dir(fs, d)
  BY <1>1 DEF Dir
<1> QED BY <1>2, <1>3, <1>4, <1>5, <1>6

LEMMA EntriesNat ==
  ASSUME fs \in FsType, NEW d \in Inodes
  PROVE  Entries(d) \subseteq Nat
BY PlacesFacts DEF Entries

LEMMA ChildFacts ==
  ASSUME Healthy(fs), NEW d \in Inodes, IsDir(fs, d), NEW k \in Entries(d),
         NEW x, x = CellAt(fs, d, k).inum
  PROVE  /\ k \in Nat /\ x \in Inodes \ {0, ROOTINODE} /\ Dir(fs, d)
         /\ Entry(fs, d, k, x) /\ Legal(fs, x) /\ ChildOf(fs, d, x, k)
<1>1. fs \in FsType /\ DirInv(fs) /\ ChildrenInv(fs)
  BY HealthyIs
<1>2. DirOf(fs, d)
  BY <1>1 DEF DirInv
<1>3. k \in Nat
  BY <1>1, EntriesNat
<1>4. Dir(fs, d) /\ k \in Below(fs, d) /\ x # 0
  BY <1>1, <1>2, <1>3, EntriesAre
<1>5. x \in Inodes
  <2>1. CellAt(fs, d, k) \in CellType
    BY <1>1, <1>3, CellFacts
  <2> QED BY <2>1 DEF CellType
<1>6. Entry(fs, d, k, x)
  BY <1>4 DEF Entry
<1>7. ChildOf(fs, d, x, k)
  BY <1>1, <1>3, <1>4, <1>5, <1>6 DEF ChildrenInv
<1>8. Legal(fs, x) /\ x # ROOTINODE
  BY <1>7 DEF ChildOf
<1> QED BY <1>3, <1>4, <1>5, <1>6, <1>7, <1>8

(* Everything the root leads to is in use, and in a directory that it leads   *)
(* to.                                                                        *)
LEMMA LiveLegal ==
  ASSUME Healthy(fs)
  PROVE  /\ ROOTINODE \in Live
         /\ \A x \in Live : x \in Inodes /\ Legal(fs, x)
         /\ \A x \in Live : x # ROOTINODE => \E d \in Live : IsDir(fs, d) /\ x \in Children(d)
<1> DEFINE A == {S \in SUBSET Inodes :
                   /\ ROOTINODE \in S
                   /\ \A x \in S : Legal(fs, x)
                   /\ \A x \in S : x # ROOTINODE =>
                        \E d \in S : IsDir(fs, d) /\ x \in Children(d)}
<1>1. fs \in FsType /\ Legal(fs, ROOTINODE) /\ ROOTINODE \in Inodes
  BY HealthyIs, RootLegal, ConstantFacts
<1>2. {ROOTINODE} \in A
  BY <1>1
<1>3. ASSUME NEW S \in A PROVE Deeper1(S) \in A
  <2>1. /\ S \in SUBSET Inodes /\ ROOTINODE \in S /\ \A x \in S : Legal(fs, x)
        /\ \A x \in S : x # ROOTINODE => \E d \in S : IsDir(fs, d) /\ x \in Children(d)
    OBVIOUS
  <2> DEFINE S2 == Deeper1(S)
  <2>2. S2 \in SUBSET Inodes
    BY <1>1, <2>1, DeeperType
  <2>3. S \subseteq S2
    BY DEF Deeper1
  <2>4. \A x \in S2 : x \in S \/ \E d \in S : IsDir(fs, d) /\ x \in Children(d)
    BY DEF Deeper1
  <2> HIDE DEF S2
  <2>5. ASSUME NEW x \in S2 PROVE Legal(fs, x)
    <3>1. CASE x \in S
      BY <2>1, <3>1
    <3>2. ASSUME NEW d \in S, IsDir(fs, d), x \in Children(d) PROVE Legal(fs, x)
      <4>1. PICK k \in Entries(d) : x = CellAt(fs, d, k).inum
        BY <3>2 DEF Children
      <4> QED BY <2>1, <3>2, <4>1, ChildFacts
    <3> QED BY <2>4, <3>1, <3>2
  <2>6. ASSUME NEW x \in S2, x # ROOTINODE
        PROVE  \E d \in S2 : IsDir(fs, d) /\ x \in Children(d)
    BY <2>1, <2>3, <2>4, <2>6
  <2>7. S2 \in A
    BY <2>1, <2>2, <2>3, <2>5, <2>6
  <2> QED BY <2>7 DEF S2
<1> HIDE DEF A
<1>4. Live \in A
  BY <1>1, <1>2, <1>3, LiveStays
<1> QED BY <1>4 DEF A

LEMMA HeldFacts ==
  ASSUME fds \in FdsType, NEW i \in Held
  PROVE  i \in Inodes /\ \E p \in Procs, fd \in Slots : fds[p][fd] # NULL /\ i = fds[p][fd].i_num
<1>1. PICK f \in {fds[p][fd] : p \in Procs, fd \in Slots} \ {NULL} : i = f.i_num
  BY DEF Held
<1>2. PICK p \in Procs, fd \in Slots : f = fds[p][fd]
  BY <1>1
<1>3. f \in FileType
  BY <1>1, <1>2 DEF FdsType
<1> QED BY <1>1, <1>2, <1>3 DEF FileType

LEMMA InUseInodes ==
  ASSUME fs \in FsType, fds \in FdsType
  PROVE  InUse \subseteq Inodes
BY LiveInodes, HeldFacts DEF InUse

LEMMA InUseLegal ==
  ASSUME Fits, Inv, Defined
  PROVE  \A x \in InUse : x \in Inodes /\ Legal(fs, x)
<1>1. Healthy(fs) /\ Holding(fs, fds, cwd) /\ fds \in FdsType
  BY DEF Fits, TypeInv, Inv, Defined
<1>2. ASSUME NEW x \in Held PROVE x \in Inodes /\ Legal(fs, x)
  BY <1>1, HeldFacts DEF Holding, FileHeld
<1> QED BY <1>1, <1>2, LiveLegal DEF InUse

-----------------------------------------------------------------------------
(* What follows *)

LEMMA AtMostOne ==
  ASSUME NEW S, \A x, y \in S : x = y
  PROVE  Cardinality(S) \in {0, 1} /\ (S = {} => Cardinality(S) = 0) /\ (S # {} => Cardinality(S) = 1)
<1>1. CASE S = {}
  BY <1>1, FS_EmptySet
<1>2. CASE S # {}
  <2>1. PICK x \in S : TRUE
    BY <1>2
  <2>2. S = {x}
    BY <2>1
  <2> QED BY <1>2, <2>2, FS_Singleton
<1> QED BY <1>1, <1>2

LEMMA Exclusive ==
  ASSUME Fits, Inv
  PROVE  BlocksExclusive
<1>1. fs \in FsType /\ fds \in FdsType /\ BlocksInv(fs)
  BY DEF Fits, TypeInv, Inv, Safe, Sound
<1> SUFFICES ASSUME NEW b \in Extra
             PROVE  Cardinality(UsesIn(AllUses, b)) + Cardinality(FreeAt(b)) <= 1
  BY DEF BlocksExclusive
<1>2. b # 0
  BY DEF Extra
<1>3. ASSUME NEW u \in UsesIn(AllUses, b)
      PROVE  \E i \in Inodes, n \in Nat : u = <<i, n>> /\ NthBlock(fs, i, n) = b
  <2>1. u \in AllUses /\ NthBlock(fs, u[1], u[2]) = b
    BY DEF UsesIn
  <2>2. PICK i \in InUse : u \in {<<i, n>> : n \in 0 .. NumBlocks(fs, i) - 1}
    BY <2>1 DEF AllUses
  <2>3. i \in Inodes
    BY <1>1, InUseInodes
  <2>4. NumBlocks(fs, i) \in Nat
    BY <1>1, <2>3, NumFacts, ConstantFacts
  <2>5. PICK n \in 0 .. NumBlocks(fs, i) - 1 : u = <<i, n>>
    BY <2>2
  <2>6. n \in Nat
    BY <2>4
  <2> QED BY <2>1, <2>3, <2>5, <2>6
<1>4. \A i, j \in Inodes, n, l \in Nat :
        NthBlock(fs, i, n) = b /\ NthBlock(fs, j, l) = b => i = j /\ n = l
  BY <1>1, <1>2 DEF BlocksInv
<1>5. \A u, v \in UsesIn(AllUses, b) : u = v
  <2> SUFFICES ASSUME NEW u \in UsesIn(AllUses, b), NEW v \in UsesIn(AllUses, b) PROVE u = v
    OBVIOUS
  <2>1. PICK i \in Inodes, n \in Nat : u = <<i, n>> /\ NthBlock(fs, i, n) = b
    BY <1>3
  <2>2. PICK j \in Inodes, l \in Nat : v = <<j, l>> /\ NthBlock(fs, j, l) = b
    BY <1>3
  <2> QED BY <1>4, <2>1, <2>2
<1>6. \A k, l \in FreeAt(b) : k = l
  <2>1. DOMAIN fs.b_head = 1 .. Len(fs.b_head)
    BY <1>1 DEF FsType
  <2> QED BY <1>1, <2>1 DEF FreeAt, BlocksInv, IsInjective1
<1>7. UsesIn(AllUses, b) = {} \/ FreeAt(b) = {}
  <2> SUFFICES ASSUME NEW u \in UsesIn(AllUses, b), NEW k \in FreeAt(b) PROVE FALSE
    OBVIOUS
  <2>1. PICK i \in Inodes, n \in Nat : u = <<i, n>> /\ NthBlock(fs, i, n) = b
    BY <1>3
  <2>2. k \in 1 .. Len(fs.b_head) /\ fs.b_head[k] = b
    BY <1>1 DEF FreeAt, FsType
  <2> QED BY <1>1, <1>2, <2>1, <2>2 DEF BlocksInv
<1> DEFINE x == Cardinality(UsesIn(AllUses, b))
           y == Cardinality(FreeAt(b))
<1>8. x \in {0, 1} /\ y \in {0, 1} /\ (x = 0 \/ y = 0)
  BY <1>5, <1>6, <1>7, AtMostOne
<1> HIDE DEF x, y
<1>9. x + y <= 1
  BY <1>8
<1> QED BY <1>9 DEF x, y

LEMMA Own ==
  ASSUME Fits, Inv
  PROVE  OwnData
<1>1. fs \in FsType /\ fds \in FdsType /\ DataInv(fs)
  BY DEF Fits, TypeInv, Inv, Safe
<1> SUFFICES ASSUME NEW i \in InUse, fs.inode[i].type = INODE_REGULAR,
                    NEW k \in 0 .. fs.inode[i].size - 1
             PROVE  LET b == NthBlock(fs, i, k \div UNITS)
                    IN  b # 0 /\ fs.cell[b][k % UNITS] = [inum |-> i, name |-> Junk]
  BY DEF OwnData
<1>2. i \in Inodes
  BY <1>1, InUseInodes
<1>3. fs.inode[i].size \in Nat /\ k \in Nat /\ k < fs.inode[i].size
  <2>1. fs.inode[i].size \in Nat
    BY <1>1, <1>2, SizeNat
  <2> QED BY <2>1
<1>4. Whole(fs, i) /\ CellAt(fs, i, k) = [inum |-> i, name |-> Junk]
  BY <1>1, <1>2 DEF DataInv, DataOf
<1>5. NthBlock(fs, i, k \div UNITS) # 0
  BY <1>1, <1>2, <1>3, <1>4, WholePlaces
<1> QED BY <1>4, <1>5 DEF CellAt

LEMMA NamesFoundIn ==
  ASSUME Fits, Inv
  PROVE  EntriesFound
<1>1. fs \in FsType /\ DirInv(fs)
  BY DEF Fits, TypeInv, Inv, Safe
<1> SUFFICES ASSUME NEW d \in LiveDirs, NEW k \in Entries(d)
             PROVE  Inum(fs, d, CellAt(fs, d, k).name) = CellAt(fs, d, k).inum
  BY DEF EntriesFound
<1> DEFINE name == CellAt(fs, d, k).name
           l == Min(Matching(fs, d, name))
<1>2. d \in Inodes /\ IsDir(fs, d) /\ DirOf(fs, d) /\ k \in Nat /\ k \in Places(fs, d)
  BY <1>1, LiveInodes, EntriesNat DEF LiveDirs, DirInv, Entries
<1>3. Dir(fs, d) /\ k \in Below(fs, d)
  BY <1>1, <1>2, EntriesAre
<1>4. /\ name \in Names
      /\ CellAt(fs, d, 0).name \notin Names /\ CellAt(fs, d, 1).name \notin Names
      /\ \A x \in Below(fs, d) : CellAt(fs, d, x).name = name => x = k
  BY <1>2, <1>3 DEF DirOf, Dotted
<1>5. Found(fs, d, name)
  BY <1>2 DEF Found, Matching
<1>6. /\ l \in Places(fs, d) /\ l \in Nat /\ CellAt(fs, d, l).name = name
      /\ Inum(fs, d, name) = CellAt(fs, d, l).inum
  BY <1>1, <1>2, <1>5, FoundFacts
<1> HIDE DEF name, l
<1>7. l \in Below(fs, d)
  <2>1. l < fs.inode[d].size /\ fs.inode[d].size \in Nat
    BY <1>1, <1>2, <1>6, PlacesFacts, SizeNat
  <2>2. l # 0 /\ l # 1
    BY <1>4, <1>6
  <2> QED BY <1>6, <2>1, <2>2 DEF Below
<1>8. l = k
  BY <1>4, <1>6, <1>7
<1> QED BY <1>6, <1>8 DEF name

(* The directory that an entry for a directory is in, and its place there.    *)
LEMMA LinkFacts ==
  ASSUME Healthy(fs), NEW i, NEW e \in LinksIn(AllEntries, i)
  PROVE  \E d \in LiveDirs, k \in Nat :
           /\ e = <<d, k>> /\ d \in Inodes /\ Dir(fs, d) /\ k \in Entries(d)
           /\ CellAt(fs, d, k).inum = i /\ i # ROOTINODE /\ i \in Inodes
           /\ Entry(fs, d, k, i) /\ ChildOf(fs, d, i, k)
<1>1. e \in AllEntries /\ CellAt(fs, e[1], e[2]).inum = i
  BY DEF LinksIn
<1>2. PICK d \in LiveDirs : e \in {<<d, k>> : k \in Entries(d)}
  BY <1>1 DEF AllEntries
<1>3. PICK k \in Entries(d) : e = <<d, k>>
  BY <1>2
<1>4. d \in Inodes /\ IsDir(fs, d)
  BY HealthyIs, LiveInodes DEF LiveDirs
<1>5. CellAt(fs, d, k).inum = i
  BY <1>1, <1>3
<1> QED BY <1>3, <1>4, <1>5, ChildFacts

LEMMA TreeOfDirs ==
  ASSUME Healthy(fs)
  PROVE  DirsAreTree
<1>1. fs \in FsType
  BY HealthyIs
<1>2. ASSUME NEW c \in LiveDirs \ {ROOTINODE}
      PROVE  /\ Cardinality(LinksIn(AllEntries, c)) = 1
             /\ \A e \in LinksIn(AllEntries, c) : CellAt(fs, c, 1).inum = e[1]
  <2>1. c \in Live /\ c \in Inodes /\ IsDir(fs, c)
    BY <1>1, LiveInodes DEF LiveDirs
  <2>2. \E d \in Live : IsDir(fs, d) /\ c \in Children(d)
    BY <1>2, <2>1, LiveLegal
  <2>3. PICK d \in Live : IsDir(fs, d) /\ c \in Children(d)
    BY <2>2
  <2>4. PICK k \in Entries(d) : c = CellAt(fs, d, k).inum
    BY <2>3 DEF Children
  <2>5. <<d, k>> \in LinksIn(AllEntries, c)
    <3>1. d \in LiveDirs
      BY <2>3 DEF LiveDirs
    <3>2. <<d, k>> \in AllEntries
      BY <2>4, <3>1 DEF AllEntries
    <3> QED BY <2>4, <3>2 DEF LinksIn
  <2>6. ASSUME NEW e \in LinksIn(AllEntries, c)
        PROVE  \E l \in Nat : /\ e = <<CellAt(fs, c, 1).inum, l>>
                              /\ \A j \in Nat : Entry(fs, CellAt(fs, c, 1).inum, j, c) => j = l
                              /\ Entry(fs, CellAt(fs, c, 1).inum, l, c)
    <3>1. PICK a \in LiveDirs, l \in Nat :
            e = <<a, l>> /\ Entry(fs, a, l, c) /\ ChildOf(fs, a, c, l)
      BY <2>6, LinkFacts
    <3>2. CellAt(fs, c, 1).inum = a /\ \A j \in Nat : Entry(fs, a, j, c) => j = l
      BY <2>1, <3>1 DEF ChildOf
    <3> QED BY <3>1, <3>2
  <2>7. \A e \in LinksIn(AllEntries, c) : CellAt(fs, c, 1).inum = e[1]
    <3> SUFFICES ASSUME NEW e \in LinksIn(AllEntries, c) PROVE CellAt(fs, c, 1).inum = e[1]
      OBVIOUS
    <3>1. PICK l \in Nat : e = <<CellAt(fs, c, 1).inum, l>>
      BY <2>6
    <3> QED BY <3>1
  <2>8. \A e, f \in LinksIn(AllEntries, c) : e = f
    <3> SUFFICES ASSUME NEW e \in LinksIn(AllEntries, c), NEW f \in LinksIn(AllEntries, c)
                 PROVE  e = f
      OBVIOUS
    <3>1. PICK l \in Nat : /\ e = <<CellAt(fs, c, 1).inum, l>>
                           /\ \A j \in Nat : Entry(fs, CellAt(fs, c, 1).inum, j, c) => j = l
      BY <2>6
    <3>2. PICK j \in Nat : f = <<CellAt(fs, c, 1).inum, j>> /\ Entry(fs, CellAt(fs, c, 1).inum, j, c)
      BY <2>6
    <3> QED BY <3>1, <3>2
  <2> QED BY <2>5, <2>7, <2>8, AtMostOne
<1>3. LinksIn(AllEntries, ROOTINODE) = {}
  BY LinkFacts
<1>4. ASSUME NEW d \in LiveDirs PROVE CellAt(fs, d, 0).inum = d
  <2>1. d \in Live /\ IsDir(fs, d)
    BY DEF LiveDirs
  <2>2. d \in Inodes /\ Legal(fs, d)
    BY <2>1, LiveLegal
  <2> QED BY <2>1, <2>2, DirFacts DEF Legal
<1> QED BY <1>2, <1>3, <1>4 DEF DirsAreTree

LEMMA CountOnce ==
  ASSUME NEW T, NEW q \in Seq(T), IsInjective1(q)
  PROVE  Cardinality(ToSet(q)) = Len(q)
<1> DEFINE S == ToSet(q)
<1>1. Len(q) \in Nat /\ DOMAIN q = 1 .. Len(q) /\ q = [k \in 1 .. Len(q) |-> q[k]]
  OBVIOUS
<1>2. S = {q[k] : k \in 1 .. Len(q)}
  BY <1>1 DEF ToSet
<1> HIDE DEF S
<1>3. q \in [1 .. Len(q) -> S]
  BY <1>1, <1>2
<1>4. \A k, l \in 1 .. Len(q) : q[k] = q[l] => k = l
  BY DEF IsInjective1
<1>5. q \in Bijection(1 .. Len(q), S)
  <2>1. \A x \in S : \E k \in 1 .. Len(q) : q[k] = x
    BY <1>2
  <2> QED BY <1>3, <1>4, <2>1 DEF Bijection, Injection, Surjection, IsInjective
<1>6. ExistsBijection(1 .. Len(q), S)
  BY <1>5 DEF ExistsBijection
<1>7. Cardinality(S) = Len(q)
  BY <1>1, <1>6, FS_CountingElements
<1> QED BY <1>7 DEF S

LEMMA FreeUnused ==
  ASSUME Fits, Inv, Defined
  PROVE  FreeInodesUnused
<1>1. Healthy(fs) /\ InodesInv(fs) /\ Holding(fs, fds, cwd) /\ fs.i_head \in Seq(Inodes)
  BY HealthyIs DEF Fits, TypeInv, FsType, Inv, Defined
<1>2. Cardinality(ToSet(fs.i_head)) = Len(fs.i_head)
  BY <1>1, CountOnce DEF InodesInv
<1>3. ASSUME NEW i \in ToSet(fs.i_head) PROVE i \in Inodes /\ IsFree(fs, i) /\ i # 0 /\ ~Legal(fs, i)
  <2>1. PICK k \in 1 .. Len(fs.i_head) : fs.i_head[k] = i
    BY <1>1 DEF ToSet
  <2>2. IsFree(fs, i) /\ i \in Inodes
    BY <1>1, <2>1 DEF IsFree
  <2>3. i # 0
    BY <1>1, <2>2, RootScanned DEF InodesInv
  <2> QED BY <2>2, <2>3 DEF Legal, Known
<1>4. ToSet(fs.i_head) \cap (InUse \cup {0}) = {}
  BY <1>3, InUseLegal
<1>5. \A p \in Procs : cwd[p] \notin ToSet(fs.i_head)
  BY <1>1, <1>3 DEF Holding
<1> QED BY <1>2, <1>4, <1>5 DEF FreeInodesUnused

-----------------------------------------------------------------------------
(* What the server does with a request *)

Tabled(n) == Len(fs.b_head) >= NumTable + n
LEMMA RoomTabled ==
  ASSUME Promised, NEW n \in Nat, Room(n)
  PROVE  Tabled(n)
BY RoomPromised, TableCount DEF Tabled

LEMMA Created ==
  ASSUME Promised, Fits, Inv, NEW p \in Procs, NEW path \in Paths, Create(p, path),
         NEW d, d = Parent(p, path), NEW t, t = Target(p, path)
  PROVE  /\ Healthy(fs) /\ d \in Inodes /\ Dir(fs, d) /\ t \in Inodes /\ ~IsDir(fs, t)
         /\ FileName(path) \in Names /\ Tabled(1) /\ (t = 0 \/ Legal(fs, t))
         /\ t # 0 => fs' = Clear(fs, t)
         /\ t = 0 => fs.i_head # << >> /\ Creates(fs, fs', d, FileName(path))
         /\ OpenAs(p, IF t = 0 THEN NextInode(fs) ELSE t)
<1> DEFINE r == CreateFile(fs, path, cwd[p], ERROR)
<1>1. /\ Healthy(fs) /\ fs \in FsType /\ cwd[p] \in Inodes /\ Legal(fs, cwd[p]) /\ path \in PathType
  BY NotBad, RequestTypes DEF Create
<1>2. /\ Plain(path) /\ HasParent(d) /\ Short(d, path) /\ Room(1) /\ InodeFor(p, path)
      /\ Kept("kind", ~IsDir(fs, t)) /\ fs' = r.fs /\ OpenAs(p, r.ret)
      /\ d = SuperDir(fs, path, cwd[p]) /\ t = Resolve(fs, path, cwd[p])
  BY DEF Create, Parent, Target
<1> HIDE DEF r
<1>3. d # ERROR /\ IsDir(fs, d)
  BY <1>2, ParentPromised
<1>4. /\ FileName(path) \in Names /\ (t = 0 => fs.i_head # << >>) /\ ~IsDir(fs, t)
      /\ fs.b_head # << >> /\ Tabled(1)
  <2>1. FileName(path) \in Names
    BY <1>2 DEF Plain, Kept, Promised
  <2>2. t = 0 => fs.i_head # << >>
    BY <1>2, KeptPromises DEF InodeFor, Target
  <2>3. ~IsDir(fs, t)
    BY <1>2, KeptPromises
  <2> QED BY <1>1, <1>2, <2>1, <2>2, <2>3, BlockPromised, RoomTabled
<1>5. \/ fs.inode[d].size < NUM_DIRECT * UNITS
      \/ Found(fs, d, FileName(path)) \/ Vacant(fs, d) # {}
  BY <1>2, <1>3, ShortPromised
<1>6. /\ d \in Inodes /\ Dir(fs, d) /\ t \in Inodes /\ (t = 0 \/ Legal(fs, t))
      /\ t # 0 => r.fs = Clear(fs, t)
      /\ t = 0 => Creates(fs, r.fs, d, FileName(path))
      /\ r.ret = IF t = 0 THEN NextInode(fs) ELSE t
  BY <1>1, <1>2, <1>3, <1>4, <1>5, CreateDoes DEF r
<1> QED BY <1>1, <1>2, <1>4, <1>6

LEMMA Linked ==
  ASSUME Promised, Fits, Inv, NEW p \in Procs, NEW old \in Paths, NEW new \in Paths,
         Link(p, old, new), NEW d, d = LinkParent(p, old, new)
  PROVE  /\ Healthy(fs) /\ d \in Inodes /\ Dir(fs, d) /\ FileName(new) \in Names /\ Tabled(1)
         /\ \/ fs' = fs
            \/ \E i \in Inodes \ {0} :
                 /\ i = Target(p, old) /\ Legal(fs, i) /\ ~IsDir(fs, i)
                 /\ Links(fs, fs', d, i, FileName(new))
<1> DEFINE path == Relative(new)
           r == LinkFile(fs, old, new, cwd[p])
<1>1. /\ Healthy(fs) /\ fs \in FsType
      /\ cwd[p] \in Inodes /\ Legal(fs, cwd[p]) /\ old \in PathType /\ new \in PathType
  BY NotBad, RequestTypes DEF Link
<1>2. /\ Plain(new) /\ HasParent(d) /\ Short(d, new) /\ Room(1) /\ fs' = r.fs
      /\ d = SuperDir(fs, path, Start(new, Start(old, cwd[p])))
  BY DEF Link, LinkParent, Relative
<1>3. d # ERROR /\ IsDir(fs, d)
  BY <1>2, ParentPromised
<1>4. FileName(new) \in Names
  BY <1>2 DEF Plain, Kept, Promised
<1>5. \/ fs.inode[d].size < NUM_DIRECT * UNITS
      \/ Found(fs, d, FileName(new)) \/ Vacant(fs, d) # {}
  BY <1>2, <1>3, ShortPromised
<1>6. fs.b_head # << >> /\ Tabled(1)
  BY <1>1, <1>2, BlockPromised, RoomTabled
<1>7. /\ d \in Inodes /\ Dir(fs, d)
      /\ \/ r.fs = fs
         \/ \E i \in Inodes \ {0} :
              /\ i = Resolve(fs, old, cwd[p]) /\ Legal(fs, i) /\ ~IsDir(fs, i)
              /\ Links(fs, r.fs, d, i, FileName(new))
  BY <1>1, <1>2, <1>3, <1>4, <1>5, <1>6, LinkDoes
<1> HIDE DEF r
<1> QED BY <1>1, <1>2, <1>4, <1>6, <1>7 DEF Target

LEMMA Unlinked ==
  ASSUME Promised, Fits, Inv, NEW p \in Procs, NEW path \in Paths, Unlink(p, path),
         NEW d, d = Parent(p, path), NEW t, t = Target(p, path)
  PROVE  /\ Healthy(fs) /\ d \in Inodes /\ Dir(fs, d) /\ FileName(path) \in Names
         /\ t \in Inodes \ {0} /\ Legal(fs, t) /\ ~IsDir(fs, t)
         /\ Unlinks(fs, fs', d, t, FileName(path))
<1> DEFINE r == UnlinkFile(fs, path, cwd[p])
<1>1. /\ Healthy(fs) /\ fs \in FsType /\ cwd[p] \in Inodes /\ Legal(fs, cwd[p]) /\ path \in PathType
  BY NotBad, RequestTypes DEF Unlink
<1>2. /\ Plain(path) /\ HasParent(d) /\ Kept("live", t # 0) /\ Kept("kind", ~IsDir(fs, t))
      /\ fs' = r.fs /\ d = SuperDir(fs, path, cwd[p]) /\ t = Resolve(fs, path, cwd[p])
  BY DEF Unlink, Parent, Target, Exists
<1> HIDE DEF r
<1>3. d # ERROR /\ IsDir(fs, d)
  BY <1>2, ParentPromised
<1>4. FileName(path) \in Names /\ t # 0 /\ ~IsDir(fs, t)
  <2>1. FileName(path) \in Names
    BY <1>2 DEF Plain, Kept, Promised
  <2> QED BY <1>2, <2>1, KeptPromises
<1>5. /\ d \in Inodes /\ Dir(fs, d) /\ t \in Inodes \ {0} /\ Legal(fs, t)
      /\ Unlinks(fs, r.fs, d, t, FileName(path))
  BY <1>1, <1>2, <1>3, <1>4, UnlinkDoes DEF r
<1> QED BY <1>1, <1>2, <1>4, <1>5

LEMMA DirMadeIn ==
  ASSUME Promised, Fits, Inv, NEW p \in Procs, NEW path \in Paths, MkDir(p, path),
         NEW d, d = Parent(p, path), NEW t, t = Target(p, path)
  PROVE  /\ Healthy(fs) /\ d \in Inodes /\ Dir(fs, d) /\ FileName(path) \in Names /\ Tabled(2)
         /\ t # 0 => fs' = fs
         /\ t = 0 => fs.i_head # << >> /\ MakesDir(fs, fs', d, FileName(path))
<1> DEFINE r == MakeDir(fs, path, cwd[p])
<1>1. /\ Healthy(fs) /\ fs \in FsType /\ cwd[p] \in Inodes /\ Legal(fs, cwd[p]) /\ path \in PathType
  BY NotBad, RequestTypes DEF MkDir
<1>2. /\ Plain(path) /\ HasParent(d) /\ Short(d, path) /\ Room(2)
      /\ Kept("space", t = 0 => fs.i_head # << >>)
      /\ fs' = r.fs /\ d = SuperDir(fs, path, cwd[p]) /\ t = Resolve(fs, path, cwd[p])
  BY DEF MkDir, Parent, Target, InodeFor
<1> HIDE DEF r
<1>3. d # ERROR /\ IsDir(fs, d)
  BY <1>2, ParentPromised
<1>4. /\ FileName(path) \in Names /\ (t = 0 => fs.i_head # << >>) /\ Len(fs.b_head) >= 2
      /\ Tabled(2)
  <2>1. FileName(path) \in Names
    BY <1>2 DEF Plain, Kept, Promised
  <2>2. t = 0 => fs.i_head # << >>
    BY <1>2, KeptPromises
  <2> QED BY <1>1, <1>2, <2>1, <2>2, BlockPromised, RoomTabled
<1>5. \/ fs.inode[d].size < NUM_DIRECT * UNITS
      \/ Found(fs, d, FileName(path)) \/ Vacant(fs, d) # {}
  BY <1>2, <1>3, ShortPromised
<1>6. /\ d \in Inodes /\ Dir(fs, d)
      /\ t # 0 => r.fs = fs
      /\ t = 0 => MakesDir(fs, r.fs, d, FileName(path))
  BY <1>1, <1>2, <1>3, <1>4, <1>5, MkDirDoes DEF r
<1> QED BY <1>1, <1>2, <1>4, <1>6

LEMMA DirRemoved ==
  ASSUME Promised, Fits, Inv, NEW p \in Procs, NEW path \in Paths, RmDir(p, path),
         NEW d, d = Parent(p, path), NEW t, t = Target(p, path)
  PROVE  /\ Healthy(fs) /\ d \in Inodes /\ Dir(fs, d) /\ FileName(path) \in Names
         /\ t \in Inodes \ {0} /\ Legal(fs, t) /\ IsDir(fs, t)
         /\ \A q \in Procs, fd \in Slots : fds[q][fd] # NULL => fds[q][fd].i_num # t
         /\ \A q \in Procs : cwd[q] # t
         /\ fs.inode[t].size > 2 => fs' = fs
         /\ fs.inode[t].size <= 2 => t # d /\ Removes(fs, fs', d, t, FileName(path))
<1> DEFINE r == RemoveDir(fs, path, cwd[p])
<1>1. /\ Healthy(fs) /\ fs \in FsType /\ cwd[p] \in Inodes /\ Legal(fs, cwd[p]) /\ path \in PathType
  BY NotBad, RequestTypes DEF RmDir
<1>2. /\ Plain(path) /\ Straight(path) /\ HasParent(d) /\ Kept("live", t # 0)
      /\ Kept("kind", IsDir(fs, t)) /\ Unused(t)
      /\ fs' = r.fs /\ d = SuperDir(fs, path, cwd[p]) /\ t = Resolve(fs, path, cwd[p])
  BY DEF RmDir, Parent, Target, Exists
<1> HIDE DEF r
<1>3. d # ERROR /\ IsDir(fs, d)
  BY <1>2, ParentPromised
<1>4. FileName(path) \in Names /\ t # 0 /\ IsDir(fs, t) /\ StraightOn(path.parts)
  <2>1. FileName(path) \in Names
    BY <1>2 DEF Plain, Kept, Promised
  <2>2. StraightOn(path.parts)
    BY <1>2 DEF Straight, StraightOn, Kept, Promised
  <2>3. t # 0 /\ IsDir(fs, t)
    BY <1>2 DEF Kept, Promised
  <2> QED BY <2>1, <2>2, <2>3
<1>5. /\ \A q \in Procs, fd \in Slots : fds[q][fd] # NULL => fds[q][fd].i_num # t
      /\ \A q \in Procs : cwd[q] # t
  BY <1>2, IdlePromised
<1>6. /\ d \in Inodes /\ Dir(fs, d) /\ t \in Inodes \ {0} /\ Legal(fs, t)
      /\ fs.inode[t].size > 2 => r.fs = fs
      /\ fs.inode[t].size <= 2 =>
           \/ r.fs = [Gone(fs, t) EXCEPT !.bad = TRUE] /\ SuperDir(Gone(fs, t), path, cwd[p]) = ERROR
           \/ t # d /\ Removes(fs, r.fs, d, t, FileName(path))
  BY <1>1, <1>2, <1>3, <1>4, RmDirDoes DEF r
<1>7. ASSUME fs.inode[t].size <= 2 PROVE SuperDir(Gone(fs, t), path, cwd[p]) # ERROR
  <2> DEFINE g == Gone(fs, t)
  <2>1. g \in FsType /\ \A x \in Inodes : x # t => Alike(fs, g, x)
    <3>1. Sound(fs)
      BY <1>1, HealthyIs
    <3> QED BY <1>1, <1>6, <3>1, GoneAside DEF Sound
  <2> HIDE DEF g
  <2>2. cwd[p] # t
    BY <1>5
  <2>3. SuperDir(g, path, cwd[p]) = d
    BY <1>1, <1>2, <1>3, <1>4, <1>6, <1>7, <2>1, <2>2, ParentStays
  <2> QED BY <1>3, <2>3 DEF g
<1> QED BY <1>1, <1>2, <1>4, <1>5, <1>6, <1>7

LEMMA Wrote ==
  ASSUME Promised, Fits, Inv, NEW p \in Procs, NEW fd \in Slots, NEW n \in Sizes, Write(p, fd, n),
         NEW i, i = fds[p][fd].i_num, NEW pos, pos = fds[p][fd].pos
  PROVE  /\ Healthy(fs) /\ i \in Inodes \ {0} /\ pos \in Nat /\ n \in Nat
         /\ Legal(fs, i) /\ ~IsDir(fs, i) /\ pos <= fs.inode[i].size /\ pos + n <= NUM_DIRECT * UNITS
         /\ n # 0 => Tabled(Missing(i, pos, n))
         /\ \E valid \in 0 .. n : fs' = WriteFile(fs, i, pos, n, valid).fs
<1>1. PICK valid \in 0 .. n :
        /\ Kept("kind", ~IsDir(fs, i)) /\ Kept("direct", pos + n <= NUM_DIRECT * UNITS)
        /\ Room(Missing(i, pos, n))
        /\ fs' = WriteFile(fs, i, pos, n, valid).fs
  BY DEF Write
<1>2. /\ Healthy(fs) /\ Holding(fs, fds, cwd)
      /\ fs \in FsType /\ fds \in FdsType /\ fds[p][fd] # NULL /\ n \in Nat
  BY NotBad, RequestTypes DEF Write
<1>3. i \in Inodes /\ pos \in Nat /\ fs.inode[i].size \in Nat
  BY <1>2, FileFacts, SizeNat DEF Fits
<1>4. Legal(fs, i) /\ pos <= fs.inode[i].size
  BY <1>2 DEF Holding, FileHeld
<1>5. ~IsDir(fs, i) /\ pos + n <= NUM_DIRECT * UNITS
  BY <1>1 DEF Kept, Promised
<1>6. i # 0
  BY <1>2, <1>3, <1>4, HealthyNot0
<1>8. ASSUME n # 0 PROVE Tabled(Missing(i, pos, n))
  <2> DEFINE last == pos + n - 1
             lo == pos \div UNITS
             hi == last \div UNITS
             s == fs.inode[i].size
  <2>1. last \in Nat /\ UNITS \in Nat /\ UNITS >= 1
    BY <1>2, <1>3, <1>8, ConstantFacts
  <2> HIDE DEF last
  <2>2. lo \in Nat /\ hi \in Nat /\ s \in Nat /\ s <= s
    <3>1. lo \in Nat
      BY <1>3, <2>1, DivFacts
    <3>2. hi \in Nat
      BY <2>1, DivFacts
    <3> QED BY <1>3, <3>1, <3>2
  <2>3. Missing(i, pos, n) = Cardinality(Lacking(lo, hi, s))
    BY DEF Missing, Lacking, last
  <2> HIDE DEF lo, hi, s
  <2>4. Missing(i, pos, n) \in Nat
    BY <2>2, <2>3, LackingCount
  <2> QED BY <1>1, <2>4, RoomTabled
<1> QED BY <1>1, <1>2, <1>3, <1>4, <1>5, <1>6, <1>8

-----------------------------------------------------------------------------
(* What the server stays within                                               *)
LEMMA CleanStep ==
  ASSUME Promised, Fits, Inv, Clean(fs), [Next]_vars
  PROVE  Clean(fs')
<1>1. NumTable \in Nat /\ NumTable >= 1
  BY ConstantFacts
<1>2. ASSUME NEW p \in Procs, NEW path \in Paths, Create(p, path) PROVE Clean(fs')
  <2> DEFINE d == Parent(p, path)
             t == Target(p, path)
  <2>1. /\ Healthy(fs) /\ d \in Inodes /\ Dir(fs, d) /\ t \in Inodes
        /\ Len(fs.b_head) >= NumTable + 1
        /\ t # 0 => fs' = Clear(fs, t)
        /\ t = 0 => fs.i_head # << >> /\ Creates(fs, fs', d, FileName(path))
    BY <1>2, Created DEF Tabled
  <2> HIDE DEF d, t
  <2>2. Sound(fs)
    BY <2>1, HealthyIs
  <2>3. CASE t # 0
    BY <2>1, <2>2, <2>3, ClearClean
  <2>4. CASE t = 0
    BY <2>1, <2>4, CreatesClean
  <2> QED BY <2>3, <2>4
<1>3. ASSUME NEW p \in Procs, NEW old \in Paths, NEW new \in Paths, Link(p, old, new)
      PROVE  Clean(fs')
  <2> DEFINE d == LinkParent(p, old, new)
  <2>1. /\ Healthy(fs) /\ d \in Inodes /\ Dir(fs, d) /\ Len(fs.b_head) >= NumTable + 1
        /\ fs' = fs \/ \E i \in Inodes \ {0} : Links(fs, fs', d, i, FileName(new))
    BY <1>3, Linked DEF Tabled
  <2> HIDE DEF d
  <2> QED BY <2>1, LinksClean
<1>4. ASSUME NEW p \in Procs, NEW path \in Paths, Unlink(p, path) PROVE Clean(fs')
  <2> DEFINE d == Parent(p, path)
             t == Target(p, path)
  <2>1. /\ Healthy(fs) /\ d \in Inodes /\ Dir(fs, d) /\ t \in Inodes \ {0}
        /\ Unlinks(fs, fs', d, t, FileName(path))
    BY <1>4, Unlinked
  <2> HIDE DEF d, t
  <2> QED BY <2>1, UnlinksClean
<1>5. ASSUME NEW p \in Procs, NEW path \in Paths, MkDir(p, path) PROVE Clean(fs')
  <2> DEFINE d == Parent(p, path)
             t == Target(p, path)
  <2>1. /\ Healthy(fs) /\ d \in Inodes /\ Dir(fs, d) /\ Len(fs.b_head) >= NumTable + 2
        /\ t # 0 => fs' = fs
        /\ t = 0 => fs.i_head # << >> /\ MakesDir(fs, fs', d, FileName(path))
    BY <1>5, DirMadeIn DEF Tabled
  <2> HIDE DEF d, t
  <2> QED BY <2>1, MakesDirClean
<1>6. ASSUME NEW p \in Procs, NEW path \in Paths, RmDir(p, path) PROVE Clean(fs')
  <2> DEFINE d == Parent(p, path)
             t == Target(p, path)
  <2>1. /\ Healthy(fs) /\ d \in Inodes /\ Dir(fs, d) /\ t \in Inodes \ {0}
        /\ fs' = fs \/ Removes(fs, fs', d, t, FileName(path))
    <3>1. /\ Healthy(fs) /\ d \in Inodes /\ Dir(fs, d) /\ t \in Inodes \ {0}
          /\ fs.inode[t].size > 2 => fs' = fs
          /\ fs.inode[t].size <= 2 => Removes(fs, fs', d, t, FileName(path))
      BY <1>6, DirRemoved
    <3>2. fs.inode[t].size \in Nat
      BY <3>1, SizeNat DEF Healthy, Safe, Sound
    <3> QED BY <3>1, <3>2
  <2> HIDE DEF d, t
  <2> QED BY <2>1, RemovesClean
<1>7. ASSUME NEW p \in Procs, NEW fd \in Slots, NEW n \in Sizes, Write(p, fd, n) PROVE Clean(fs')
  <2> DEFINE i == fds[p][fd].i_num
             pos == fds[p][fd].pos
  <2>1. /\ Healthy(fs) /\ i \in Inodes \ {0} /\ pos \in Nat /\ n \in Nat
        /\ Legal(fs, i) /\ ~IsDir(fs, i) /\ pos <= fs.inode[i].size /\ pos + n <= NUM_DIRECT * UNITS
        /\ n # 0 => Tabled(Missing(i, pos, n))
    BY <1>7, Wrote
  <2>2. PICK valid \in 0 .. n : fs' = WriteFile(fs, i, pos, n, valid).fs
    BY <1>7, Wrote
  <2> HIDE DEF i, pos
  <2>3. fs.inode[i].type = INODE_REGULAR /\ DataOf(fs, i) /\ Sound(fs)
    BY <2>1, HealthyIs DEF Legal, Known, IsDir, DataInv
  <2>4. n # 0 => Len(fs.b_head) >= NumTable +
          Cardinality(Lacking(pos \div UNITS, (pos + n - 1) \div UNITS, fs.inode[i].size))
    BY <2>1 DEF Tabled, Missing, Lacking
  <2>5. valid \in Nat
    BY <2>1
  <2> QED BY <2>1, <2>2, <2>3, <2>4, <2>5, WriteClean
<1>8. ASSUME Restart PROVE Clean(fs')
  <2>1. fs \in FsType /\ fs' = Boot(fs)
    BY <1>8 DEF Restart, Fits, TypeInv
  <2> QED BY <2>1, BootClean
<1>9. fs' = fs => Clean(fs')
  OBVIOUS
<1>10. ASSUME NEW p \in Procs, NEW path \in Paths, Open(p, path) \/ ChDir(p, path) PROVE fs' = fs
  BY <1>10 DEF Open, ChDir
<1>11. ASSUME NEW p \in Procs, NEW fd \in Slots, NEW n \in Sizes, Read(p, fd, n) PROVE fs' = fs
  BY <1>11 DEF Read
<1>12. ASSUME NEW p \in Procs, NEW fd \in Slots, Close(p, fd) PROVE fs' = fs
  BY <1>12 DEF Close
<1>13. ASSUME NEW p \in Procs, NEW fd \in Slots, NEW offset \in Offsets,
              NEW whence \in {"SEEK_SET", "SEEK_CUR", "SEEK_END"}, Seek(p, fd, offset, whence)
       PROVE  fs' = fs
  BY <1>13 DEF Seek
<1>14. CASE UNCHANGED vars
  BY <1>9, <1>14 DEF vars
<1>15. CASE Next
  BY <1>2, <1>3, <1>4, <1>5, <1>6, <1>7, <1>8, <1>9, <1>10, <1>11, <1>12, <1>13, <1>15 DEF Next
<1> QED BY <1>14, <1>15

LEMMA CleanAlways ==
  ASSUME Promised
  PROVE  Spec => [](Fits /\ Inv /\ Clean(fs))
<1>1. Init => Clean(fs)
  BY MkYfsClean, MkYfsType, BootClean DEF Init
<1>2. Fits /\ Inv /\ Clean(fs) /\ [Next]_vars => Clean(fs')
  BY CleanStep
<1>3. Spec => [](Fits /\ Inv)
  BY InvAlways
<1> DEFINE Ok == Clean(fs)
<1>4. Fits /\ Inv /\ Ok /\ [Next]_vars => Ok'
  BY <1>2
<1>5. Init => Ok
  BY <1>1
<1> HIDE DEF Ok
<1>6. Spec => [](Fits /\ Inv /\ Ok)
  BY <1>3, <1>4, <1>5, PTL DEF Spec
<1> QED BY <1>6 DEF Ok

-----------------------------------------------------------------------------
(* The entries as edges of a graph *)

Edge(m, d, k, i) == Dir(m, d) /\ Entry(m, d, k, i) /\ i # 0
(* Directory d gets one entry, which leads to j, or loses one, which led to   *)
(* j; nothing happens to the other inodes.                                    *)
Others(m, m2, d, j) ==
  \A x \in Inodes : x # d /\ x # j => Alike(m, m2, x) /\ m2.inode[x] = m.inode[x]
Grew(m, m2, d, k, j, name) == Entered(m, m2, d, k, j, name) /\ Others(m, m2, d, j)
Shrank(m, m2, d, k, j) == Left(m, m2, d, k) /\ Others(m, m2, d, j)

LEMMA GrewEdges ==
  ASSUME NEW m, Healthy(m), NEW m2 \in FsType, NEW d \in Inodes, Dir(m, d),
         NEW k \in Nat, NEW j \in Inodes \ {0}, NEW name \in Names, Grew(m, m2, d, k, j, name),
         ~Dir(m, j), Dir(m2, j) => m2.inode[j].size = 2
  PROVE  /\ \A x, y \in Inodes, l \in Nat :
              Edge(m2, x, l, y) <=> Edge(m, x, l, y) \/ (x = d /\ l = k /\ y = j)
         /\ \A y \in Inodes : ~Edge(m, d, k, y)
         /\ \A x \in Inodes : x # j => (Dir(m2, x) <=> Dir(m, x))
<1>1. m \in FsType /\ DirInv(m) /\ d # j
  BY HealthyIs
<1>2. /\ Dir(m2, d) /\ Entry(m2, d, k, j)
      /\ \A l \in Nat, i \in Inodes : l # k => (Entry(m2, d, l, i) <=> Entry(m, d, l, i))
      /\ \A i \in Inodes : Entry(m, d, k, i) => i = 0
  BY <1>1, EnteredDir DEF Grew
<1>3. \A i \in Inodes : Entry(m2, d, k, i) => i = j
  BY <1>2 DEF Entry
<1>4. ASSUME NEW x \in Inodes, x # d, x # j
      PROVE  /\ Dir(m2, x) <=> Dir(m, x)
             /\ \A l \in Nat, y \in Inodes : Edge(m2, x, l, y) <=> Edge(m, x, l, y)
  <2>1. Alike(m, m2, x) /\ DirOf(m, x)
    BY <1>1, <1>4 DEF Grew, Others, DirInv
  <2>2. /\ Dir(m2, x) <=> Dir(m, x)
        /\ Dir(m, x) => \A l \in Nat, y \in Inodes : Entry(m2, x, l, y) <=> Entry(m, x, l, y)
    BY <1>1, <2>1, AlikeDir
  <2> QED BY <2>2 DEF Edge
<1>5. \A l \in Nat, y \in Inodes : ~Edge(m, j, l, y) /\ ~Edge(m2, j, l, y)
  <2>1. Dir(m2, j) => Below(m2, j) = {}
    BY DEF Below
  <2> QED BY <2>1 DEF Edge, Entry
<1>6. \A y \in Inodes : ~Edge(m, d, k, y)
  BY <1>2 DEF Edge
<1>7. ASSUME NEW l \in Nat, NEW y \in Inodes
      PROVE  Edge(m2, d, l, y) <=> Edge(m, d, l, y) \/ (l = k /\ y = j)
  <2>1. CASE l = k
    BY <1>2, <1>3, <1>6, <2>1 DEF Edge
  <2>2. CASE l # k
    BY <1>2, <2>2 DEF Edge
  <2> QED BY <2>1, <2>2
<1>8. ASSUME NEW x \in Inodes, NEW y \in Inodes, NEW l \in Nat
      PROVE  Edge(m2, x, l, y) <=> Edge(m, x, l, y) \/ (x = d /\ l = k /\ y = j)
  <2>1. CASE x = d
    BY <1>7, <2>1
  <2>2. CASE x = j
    BY <1>1, <1>5, <2>2
  <2>3. CASE x # d /\ x # j
    BY <1>4, <2>3
  <2> QED BY <2>1, <2>2, <2>3
<1> QED BY <1>2, <1>4, <1>6, <1>8

LEMMA ShrankEdges ==
  ASSUME NEW m, Healthy(m), NEW m2 \in FsType, NEW d \in Inodes, Dir(m, d),
         NEW k \in Nat, NEW j \in Inodes \ {0}, Entry(m, d, k, j), Shrank(m, m2, d, k, j),
         Dir(m, j) => m.inode[j].size <= 2, ~Dir(m2, j), d # j
  PROVE  /\ \A x, y \in Inodes, l \in Nat :
              Edge(m2, x, l, y) <=> Edge(m, x, l, y) /\ ~(x = d /\ l = k)
         /\ \A y \in Inodes : Edge(m, d, k, y) => y = j
         /\ \A x \in Inodes : x # j => (Dir(m2, x) <=> Dir(m, x))
<1>1. m \in FsType /\ DirInv(m) /\ k \in Below(m, d)
  BY HealthyIs DEF Entry
<1>2. /\ Dir(m2, d)
      /\ \A l \in Nat, i \in Inodes : l # k => (Entry(m2, d, l, i) <=> Entry(m, d, l, i))
      /\ \A i \in Inodes : Entry(m2, d, k, i) => i = 0
  BY <1>1, LeftDir DEF Shrank
<1>4. ASSUME NEW x \in Inodes, x # d, x # j
      PROVE  /\ Dir(m2, x) <=> Dir(m, x)
             /\ \A l \in Nat, y \in Inodes : Edge(m2, x, l, y) <=> Edge(m, x, l, y)
  <2>1. Alike(m, m2, x) /\ DirOf(m, x)
    BY <1>1, <1>4 DEF Shrank, Others, DirInv
  <2>2. /\ Dir(m2, x) <=> Dir(m, x)
        /\ Dir(m, x) => \A l \in Nat, y \in Inodes : Entry(m2, x, l, y) <=> Entry(m, x, l, y)
    BY <1>1, <2>1, AlikeDir
  <2> QED BY <2>2 DEF Edge
<1>5. \A l \in Nat, y \in Inodes : ~Edge(m, j, l, y) /\ ~Edge(m2, j, l, y)
  <2>1. Dir(m, j) => Below(m, j) = {}
    <3>1. m.inode[j].size \in Nat
      BY <1>1, SizeNat
    <3> QED BY <3>1 DEF Below
  <2> QED BY <2>1 DEF Edge, Entry
<1>6. \A y \in Inodes : Edge(m, d, k, y) => y = j
  BY DEF Edge, Entry
<1>7. ASSUME NEW l \in Nat, NEW y \in Inodes
      PROVE  Edge(m2, d, l, y) <=> Edge(m, d, l, y) /\ l # k
  <2>1. CASE l = k
    BY <1>2, <2>1 DEF Edge
  <2>2. CASE l # k
    BY <1>2, <2>2 DEF Edge
  <2> QED BY <2>1, <2>2
<1>8. ASSUME NEW x \in Inodes, NEW y \in Inodes, NEW l \in Nat
      PROVE  Edge(m2, x, l, y) <=> Edge(m, x, l, y) /\ ~(x = d /\ l = k)
  <2>1. CASE x = d
    BY <1>7, <2>1
  <2>2. CASE x = j
    BY <1>5, <2>2
  <2>3. CASE x # d /\ x # j
    BY <1>4, <2>3
  <2> QED BY <2>1, <2>2, <2>3
<1> QED BY <1>2, <1>4, <1>6, <1>8

(* A step that no directory shows.                                            *)
LEMMA SameEdges ==
  ASSUME NEW m, Healthy(m), NEW m2 \in FsType,
         \A x \in Inodes : IsDir(m, x) => Alike(m, m2, x),
         \A x \in Inodes : IsDir(m2, x) => IsDir(m, x)
  PROVE  /\ \A x, y \in Inodes, l \in Nat : Edge(m2, x, l, y) <=> Edge(m, x, l, y)
         /\ \A x \in Inodes : Dir(m2, x) <=> Dir(m, x)
<1>1. m \in FsType /\ DirInv(m)
  BY HealthyIs
<1>2. ASSUME NEW x \in Inodes
      PROVE  /\ Dir(m2, x) <=> Dir(m, x)
             /\ \A l \in Nat, y \in Inodes : Edge(m2, x, l, y) <=> Edge(m, x, l, y)
  <2>1. CASE ~IsDir(m, x)
    BY <2>1 DEF Dir, Edge
  <2>2. CASE IsDir(m, x)
    <3>1. Alike(m, m2, x) /\ DirOf(m, x)
      BY <1>1, <2>2 DEF DirInv
    <3>2. /\ Dir(m2, x) <=> Dir(m, x)
          /\ Dir(m, x) => \A l \in Nat, y \in Inodes : Entry(m2, x, l, y) <=> Entry(m, x, l, y)
      BY <1>1, <3>1, AlikeDir
    <3> QED BY <3>2 DEF Edge
  <2> QED BY <2>1, <2>2
<1> QED BY <1>2

-----------------------------------------------------------------------------
(* What the handlers do to the entries *)

LEMMA NextUnused ==
  ASSUME NEW m, Healthy(m), m.i_head # << >>, NEW i, i = NextInode(m)
  PROVE  /\ i \in Inodes \ {0} /\ i # ROOTINODE /\ IsFree(m, i) /\ m.inode[i].size = 0
         /\ ~Dir(m, i) /\ ~Legal(m, i)
         /\ \A x \in Inodes, l \in Nat : ~Edge(m, x, l, i)
<1>1. /\ i \in Inodes \ {0} /\ i \in Scanned \ {ROOTINODE} /\ IsFree(m, i) /\ m.inode[i].size = 0
  <2> DEFINE m2 == [i_head |-> Rest(m.i_head)]
  <2>1. m2.i_head = Rest(m.i_head)
    OBVIOUS
  <2> HIDE DEF m2
  <2> QED BY <2>1, InodeTaken
<1>2. ~Dir(m, i) /\ ~Legal(m, i)
  BY <1>1 DEF Dir, Legal, Known
<1>3. ASSUME NEW x \in Inodes, NEW l \in Nat, Edge(m, x, l, i) PROVE FALSE
  <2>1. ChildOf(m, x, i, l)
    BY <1>1, <1>3, HealthyIs DEF ChildrenInv, Edge
  <2> QED BY <1>2, <2>1 DEF ChildOf
<1> QED BY <1>1, <1>2, <1>3

LEMMA CreatesGrew ==
  ASSUME NEW m, Healthy(m), m.i_head # << >>, NEW d \in Inodes, Dir(m, d),
         NEW name \in Names, NEW m2, Creates(m, m2, d, name), NEW i, i = NextInode(m)
  PROVE  /\ \E k \in Nat : Grew(m, m2, d, k, i, name)
         /\ m2 \in FsType /\ m2.inode[i].size = 0 /\ m2.inode[i].type = INODE_REGULAR
         /\ m2.inode[i].nlink = 1
<1>1. PICK k \in Nat, f \in FsType : Enters(m, f, d, k, i, name) /\ m2 = MakeFile(f)
  BY DEF Creates
<1>2. i \in Inodes \ {0} /\ ~Dir(m, i) /\ m \in FsType
  BY NextUnused, HealthyIs
<1>3. /\ Sound(f) /\ Whole(f, d) /\ Named(m, f, d, k, i, name) /\ f.i_head = m.i_head
      /\ OnlyInode(m, f, d)
  BY <1>1 DEF Enters
<1>4. i = NextInode(f)
  BY <1>3, NextOfSame
<1>5. /\ Sound(m2) /\ m2.inode[i].size = 0 /\ m2.inode[i].type = INODE_REGULAR
      /\ m2.inode[i].nlink = 1
      /\ OnlyInode(f, m2, i) /\ \A j \in Inodes : j # i => Alike(f, m2, j)
  BY <1>1, <1>3, <1>4, MakeFileSound
<1>6. m2 \in FsType /\ d # i
  BY <1>2, <1>5 DEF Sound
<1>7. Entered(m, m2, d, k, i, name)
  BY <1>2, <1>3, <1>5, <1>6, NamedEntered
<1>8. ASSUME NEW x \in Inodes, x # d, x # i PROVE Alike(m, m2, x) /\ m2.inode[x] = m.inode[x]
  <2>1. Alike(m, f, x) /\ Alike(f, m2, x)
    BY <1>3, <1>5, <1>8 DEF Named
  <2>2. Alike(m, m2, x)
    BY <1>1, <1>2, <1>6, <2>1, AlikeTwice
  <2> QED BY <1>3, <1>5, <1>8, <2>2 DEF OnlyInode
<1> QED BY <1>1, <1>5, <1>6, <1>7, <1>8 DEF Grew, Others

LEMMA LinksGrew ==
  ASSUME NEW m, Healthy(m), NEW d \in Inodes, Dir(m, d),
         NEW i \in Inodes \ {0}, Legal(m, i), ~IsDir(m, i),
         NEW name \in Names, NEW m2, Links(m, m2, d, i, name)
  PROVE  /\ \E k \in Nat : Grew(m, m2, d, k, i, name)
         /\ m2 \in FsType /\ Alike(m, m2, i) /\ m2.inode[i].nlink = m.inode[i].nlink + 1
<1>1. PICK k \in Nat, f \in FsType : Enters(m, f, d, k, i, name) /\ m2 = Counted(f, i)
  BY DEF Links
<1>2. /\ Sound(f) /\ Whole(f, d) /\ Named(m, f, d, k, i, name) /\ OnlyInode(m, f, d)
      /\ m \in FsType
  BY <1>1, HealthyIs DEF Enters
<1> DEFINE y == f.inode[i].nlink + 1
<1>3. y \in Int /\ m2 = [f EXCEPT !.inode = [f.inode EXCEPT ![i].nlink = y]]
  BY <1>1 DEF FsType, InodeType, Counted
<1> HIDE DEF y
<1>4. /\ Sound(m2) /\ (\A j \in Inodes : Alike(f, m2, j)) /\ OnlyInode(f, m2, i)
      /\ m2.inode[i].nlink = y
  <2>1. i \in Inodes /\ Sound(f)
    BY <1>2
  <2>2. Sound(m2) /\ \A j \in Inodes : Alike(f, m2, j)
    BY <1>3, <2>1, NlinkSound
  <2>3. OnlyInode(f, m2, i) /\ m2.inode[i].nlink = y
    BY <1>3, <2>1, NlinkSound, SMTT(30)
  <2> QED BY <2>2, <2>3
<1>5. m2 \in FsType /\ d # i
  BY <1>4 DEF Sound, Dir
<1>6. Entered(m, m2, d, k, i, name)
  BY <1>1, <1>2, <1>4, <1>5, NamedEntered
<1>7. f.inode[i] = m.inode[i]
  BY <1>2, <1>5 DEF OnlyInode
<1>8. ASSUME NEW x \in Inodes, x # d PROVE Alike(m, m2, x)
  <2>1. Alike(m, f, x) /\ Alike(f, m2, x)
    BY <1>2, <1>4, <1>8 DEF Named
  <2> QED BY <1>1, <1>2, <1>5, <2>1, AlikeTwice
<1>9. \A x \in Inodes : x # d /\ x # i => m2.inode[x] = m.inode[x]
  BY <1>2, <1>4 DEF OnlyInode
<1> QED BY <1>1, <1>4, <1>5, <1>6, <1>7, <1>8, <1>9 DEF Grew, Others, y

LEMMA MakesDirGrew ==
  ASSUME NEW m, Healthy(m), m.i_head # << >>, NEW d \in Inodes, Dir(m, d),
         NEW name \in Names, NEW m2, MakesDir(m, m2, d, name), NEW i, i = NextInode(m)
  PROVE  /\ \E k \in Nat : Grew(m, m2, d, k, i, name)
         /\ m2 \in FsType /\ NewEntries(m2, i, d) /\ Dir(m2, i)
<1>1. PICK k \in Nat, f \in FsType :
        /\ Enters(m, f, d, k, i, name) /\ f.b_head # << >>
        /\ m2 = NewDir(f, i, d, NextBlock(f))
  BY DEF MakesDir
<1>2. i \in Inodes \ {0} /\ ~Dir(m, i) /\ m \in FsType
  BY NextUnused, HealthyIs
<1>3. /\ Sound(f) /\ Whole(f, d) /\ Named(m, f, d, k, i, name) /\ f.i_head = m.i_head
      /\ OnlyInode(m, f, d)
  BY <1>1 DEF Enters
<1>4. i = NextInode(f)
  BY <1>3, NextOfSame
<1>5. /\ Sound(m2) /\ NewEntries(m2, i, d)
      /\ OnlyInode(f, m2, i) /\ \A j \in Inodes : j # i => Alike(f, m2, j)
  BY <1>1, <1>3, <1>4, NewDirSound
<1>6. m2 \in FsType /\ d # i
  BY <1>2, <1>5 DEF Sound
<1>7. Entered(m, m2, d, k, i, name)
  BY <1>2, <1>3, <1>5, <1>6, NamedEntered
<1>8. ASSUME NEW x \in Inodes, x # d, x # i PROVE Alike(m, m2, x) /\ m2.inode[x] = m.inode[x]
  <2>1. Alike(m, f, x) /\ Alike(f, m2, x)
    BY <1>3, <1>5, <1>8 DEF Named
  <2>2. Alike(m, m2, x)
    BY <1>1, <1>2, <1>6, <2>1, AlikeTwice
  <2> QED BY <1>3, <1>5, <1>8, <2>2 DEF OnlyInode
<1>9. Dir(m2, i)
  BY <1>5 DEF NewEntries, Dir, IsDir
<1> QED BY <1>1, <1>5, <1>6, <1>7, <1>8, <1>9 DEF Grew, Others

LEMMA UnlinksShrank ==
  ASSUME NEW m, Healthy(m), NEW d \in Inodes, Dir(m, d), NEW t \in Inodes \ {0},
         ~IsDir(m, t), NEW name, NEW m2, Unlinks(m, m2, d, t, name)
  PROVE  /\ \E k \in Nat : Entry(m, d, k, t) /\ CellAt(m, d, k).name = name /\ Shrank(m, m2, d, k, t)
         /\ m2 \in FsType /\ m2.inode[t].type = m.inode[t].type
         /\ m2.inode[t].nlink = m.inode[t].nlink - 1 /\ d # t
<1>1. PICK k \in Nat :
        /\ Entry(m, d, k, t) /\ CellAt(m, d, k).name = name
        /\ Sound(m2) /\ Whole(m2, d) /\ Removed(Dropped(m, t), m2, d, k)
  BY DEF Unlinks
<1> DEFINE f == Dropped(m, t)
<1>2. Sound(m) /\ m \in FsType /\ t \in Inodes /\ d # t /\ m2 \in FsType
  BY <1>1, HealthyIs DEF Dir, Sound
<1>3. /\ Sound(f) /\ (\A x \in Inodes : x # t => Alike(m, f, x))
      /\ f.inode[t].type = m.inode[t].type
      /\ f.inode[t].nlink = m.inode[t].nlink - 1 /\ OnlyInode(m, f, t)
  BY <1>2, DroppedFacts
<1>4. Removed(f, m2, d, k)
  BY <1>1
<1> HIDE DEF f
<1>5. f \in FsType /\ Alike(m, f, d)
  BY <1>2, <1>3 DEF Sound
<1>6. k < m.inode[d].size
  <2>1. m.inode[d].size \in Nat
    BY <1>2, SizeNat
  <2> QED BY <1>1, <2>1 DEF Entry, Below
<1>7. Left(m, m2, d, k)
  BY <1>1, <1>4, <1>5, <1>6, RemovedLeft
<1>8. m2.inode = f.inode /\ \A x \in Inodes : x # d => Alike(f, m2, x)
  BY <1>4 DEF Removed
<1>9. \A x \in Inodes : x # d /\ x # t => Alike(m, m2, x)
  BY <1>2, <1>3, <1>5, <1>8, AlikeTwice
<1>10. \A x \in Inodes : x # d /\ x # t => m2.inode[x] = m.inode[x]
  BY <1>3, <1>8 DEF OnlyInode
<1> QED BY <1>1, <1>2, <1>3, <1>7, <1>8, <1>9, <1>10 DEF Shrank, Others

LEMMA RemovesShrank ==
  ASSUME NEW m, Healthy(m), NEW d \in Inodes, Dir(m, d), NEW t \in Inodes \ {0}, d # t,
         NEW name, NEW m2, Removes(m, m2, d, t, name)
  PROVE  /\ \E k \in Nat : Entry(m, d, k, t) /\ CellAt(m, d, k).name = name /\ Shrank(m, m2, d, k, t)
         /\ m2 \in FsType /\ m2.inode[t].type = m.inode[t].type /\ m2.inode[t].size = 0
<1>1. PICK k \in Nat :
        /\ Entry(m, d, k, t) /\ CellAt(m, d, k).name = name
        /\ Sound(m2) /\ Whole(m2, d) /\ Removed(Gone(m, t), m2, d, k)
  BY DEF Removes
<1> DEFINE c == Clear(m, t)
           f == Gone(m, t)
<1>2. Sound(m) /\ m \in FsType /\ t \in Inodes /\ m2 \in FsType
  BY <1>1, HealthyIs DEF Sound
<1>3. /\ Sound(f) /\ (\A x \in Inodes : x # t => Alike(m, f, x))
      /\ f.inode[t].type = m.inode[t].type /\ f.inode[t].size = 0
  <2>1. Sound(m) /\ t \in Inodes /\ f = Gone(m, t)
    BY <1>2
  <2> HIDE DEF f
  <2> QED BY <2>1, GoneAside
<1>4. Removed(f, m2, d, k)
  BY <1>1
<1>11. OnlyInode(m, c, t)
  BY <1>2, ClearSound
<1>12. f.inode = c.inode
  BY <1>2, GoneType
<1> HIDE DEF f, c
<1>5. f \in FsType /\ Alike(m, f, d)
  BY <1>2, <1>3 DEF Sound
<1>6. k < m.inode[d].size
  <2>1. m.inode[d].size \in Nat
    BY <1>2, SizeNat
  <2> QED BY <1>1, <2>1 DEF Entry, Below
<1>7. Left(m, m2, d, k)
  BY <1>1, <1>4, <1>5, <1>6, RemovedLeft
<1>8. m2.inode = f.inode /\ \A x \in Inodes : x # d => Alike(f, m2, x)
  BY <1>4 DEF Removed
<1>9. \A x \in Inodes : x # d /\ x # t => Alike(m, m2, x)
  BY <1>2, <1>3, <1>5, <1>8, AlikeTwice
<1>10. \A x \in Inodes : x # d /\ x # t => m2.inode[x] = m.inode[x]
  BY <1>8, <1>11, <1>12 DEF OnlyInode
<1> QED BY <1>1, <1>2, <1>3, <1>7, <1>8, <1>9, <1>10 DEF Shrank, Others

-----------------------------------------------------------------------------
(* nlink, and the way from the root *)

LinksTo(m, i) == {e \in Inodes \X Nat : Edge(m, e[1], e[2], i)}
Regular(m, i) == m.inode[i].type = INODE_REGULAR
CountOf(m, i) ==
  IsFiniteSet(LinksTo(m, i)) /\ (Regular(m, i) => m.inode[i].nlink = Cardinality(LinksTo(m, i)))
Counts(m) == \A i \in Inodes \ {0} : CountOf(m, i)

(* Everything that the root leads to has all directories.                     *)
Closed(m, S) == \A x, y \in Inodes, l \in Nat : x \in S /\ Edge(m, x, l, y) /\ Dir(m, y) => y \in S
Rooted(m) ==
  \A S \in SUBSET Inodes :
    ROOTINODE \in S /\ Closed(m, S) => \A x \in Inodes : Dir(m, x) => x \in S

Adds(m, m2, d, k, j) ==
  /\ \A x, y \in Inodes, l \in Nat :
       Edge(m2, x, l, y) <=> Edge(m, x, l, y) \/ (x = d /\ l = k /\ y = j)
  /\ \A y \in Inodes : ~Edge(m, d, k, y)
Drops(m, m2, d, k, j) ==
  /\ \A x, y \in Inodes, l \in Nat :
       Edge(m2, x, l, y) <=> Edge(m, x, l, y) /\ ~(x = d /\ l = k)
  /\ Edge(m, d, k, j)
  /\ \A y \in Inodes : Edge(m, d, k, y) => y = j

LEMMA LinksAdded ==
  ASSUME NEW m, NEW m2, NEW d \in Inodes, NEW k \in Nat, NEW j \in Inodes, Adds(m, m2, d, k, j)
  PROVE  /\ LinksTo(m2, j) = LinksTo(m, j) \cup {<<d, k>>} /\ <<d, k>> \notin LinksTo(m, j)
         /\ \A y \in Inodes : y # j => LinksTo(m2, y) = LinksTo(m, y)
<1>1. ASSUME NEW e \in Inodes \X Nat, NEW y \in Inodes
      PROVE  e \in LinksTo(m2, y) <=> e \in LinksTo(m, y) \/ (e = <<d, k>> /\ y = j)
  <2>1. PICK x \in Inodes, l \in Nat : e = <<x, l>> /\ e[1] = x /\ e[2] = l
    OBVIOUS
  <2>2. e = <<d, k>> <=> x = d /\ l = k
    BY <2>1
  <2> QED BY <2>1, <2>2 DEF LinksTo, Adds
<1>2. <<d, k>> \notin LinksTo(m, j)
  BY DEF LinksTo, Adds
<1>3. \A y : LinksTo(m, y) \subseteq Inodes \X Nat /\ LinksTo(m2, y) \subseteq Inodes \X Nat
  BY DEF LinksTo
<1>4. <<d, k>> \in Inodes \X Nat
  OBVIOUS
<1> QED BY <1>1, <1>2, <1>3, <1>4

LEMMA LinksDropped ==
  ASSUME NEW m, NEW m2, NEW d \in Inodes, NEW k \in Nat, NEW j \in Inodes, Drops(m, m2, d, k, j)
  PROVE  /\ LinksTo(m2, j) = LinksTo(m, j) \ {<<d, k>>} /\ <<d, k>> \in LinksTo(m, j)
         /\ \A y \in Inodes : y # j => LinksTo(m2, y) = LinksTo(m, y)
<1>1. ASSUME NEW e \in Inodes \X Nat, NEW y \in Inodes
      PROVE  e \in LinksTo(m2, y) <=> e \in LinksTo(m, y) /\ ~(e = <<d, k>>)
  <2>1. PICK x \in Inodes, l \in Nat : e = <<x, l>> /\ e[1] = x /\ e[2] = l
    OBVIOUS
  <2>2. e = <<d, k>> <=> x = d /\ l = k
    BY <2>1
  <2> QED BY <2>1, <2>2 DEF LinksTo, Drops
<1>2. <<d, k>> \in LinksTo(m, j) /\ \A y \in Inodes : <<d, k>> \in LinksTo(m, y) => y = j
  BY DEF LinksTo, Drops
<1>3. \A y : LinksTo(m, y) \subseteq Inodes \X Nat /\ LinksTo(m2, y) \subseteq Inodes \X Nat
  BY DEF LinksTo
<1> QED BY <1>1, <1>2, <1>3

LEMMA LinksSame ==
  ASSUME NEW m, NEW m2,
         \A x, y \in Inodes, l \in Nat : Edge(m2, x, l, y) <=> Edge(m, x, l, y)
  PROVE  \A y \in Inodes : LinksTo(m2, y) = LinksTo(m, y)
<1> SUFFICES ASSUME NEW y \in Inodes PROVE LinksTo(m2, y) = LinksTo(m, y)
  OBVIOUS
<1>1. \A e \in Inodes \X Nat : e[1] \in Inodes /\ e[2] \in Nat
  OBVIOUS
<1> QED BY <1>1 DEF LinksTo

LEMMA AddedCounts ==
  ASSUME NEW m, Counts(m), NEW m2, NEW d \in Inodes, NEW k \in Nat, NEW j \in Inodes \ {0},
         Adds(m, m2, d, k, j),
         \A y \in Inodes : y # j /\ Regular(m2, y) =>
           Regular(m, y) /\ m2.inode[y].nlink = m.inode[y].nlink,
         Regular(m2, j) => \/ m2.inode[j].nlink = 1 /\ \A x \in Inodes, l \in Nat : ~Edge(m, x, l, j)
                           \/ Regular(m, j) /\ m2.inode[j].nlink = m.inode[j].nlink + 1
  PROVE  Counts(m2)
<1> DEFINE L(y) == LinksTo(m, y)
           L2(y) == LinksTo(m2, y)
<1>1. /\ L2(j) = L(j) \cup {<<d, k>>} /\ <<d, k>> \notin L(j)
      /\ \A y \in Inodes : y # j => L2(y) = L(y)
  BY LinksAdded
<1>2. \A y \in Inodes \ {0} : IsFiniteSet(L(y)) /\ (Regular(m, y) => m.inode[y].nlink = Cardinality(L(y)))
  BY DEF Counts, CountOf
<1>3. (\A x \in Inodes, l \in Nat : ~Edge(m, x, l, j)) => L(j) = {}
  <2>1. \A e \in Inodes \X Nat : e[1] \in Inodes /\ e[2] \in Nat
    OBVIOUS
  <2> QED BY <2>1 DEF LinksTo
<1> HIDE DEF L, L2
<1>4. IsFiniteSet(L2(j)) /\ Cardinality(L2(j)) = Cardinality(L(j)) + 1
  <2>1. IsFiniteSet(L(j))
    BY <1>2
  <2> QED BY <1>1, <2>1, FS_AddElement
<1>5. L(j) = {} => Cardinality(L(j)) = 0
  BY FS_EmptySet
<1>6. ASSUME NEW y \in Inodes \ {0}
      PROVE  IsFiniteSet(L2(y)) /\ (Regular(m2, y) => m2.inode[y].nlink = Cardinality(L2(y)))
  <2>1. CASE y = j
    BY <1>2, <1>3, <1>4, <1>5, <2>1
  <2>2. CASE y # j
    BY <1>1, <1>2, <2>2
  <2> QED BY <2>1, <2>2
<1> QED BY <1>6 DEF Counts, CountOf, L2

LEMMA DroppedCounts ==
  ASSUME NEW m, Counts(m), NEW m2, NEW d \in Inodes, NEW k \in Nat, NEW j \in Inodes \ {0},
         Drops(m, m2, d, k, j),
         \A y \in Inodes : y # j /\ Regular(m2, y) =>
           Regular(m, y) /\ m2.inode[y].nlink = m.inode[y].nlink,
         Regular(m2, j) => Regular(m, j) /\ m2.inode[j].nlink = m.inode[j].nlink - 1
  PROVE  Counts(m2)
<1> DEFINE L(y) == LinksTo(m, y)
           L2(y) == LinksTo(m2, y)
<1>1. /\ L2(j) = L(j) \ {<<d, k>>} /\ <<d, k>> \in L(j)
      /\ \A y \in Inodes : y # j => L2(y) = L(y)
  BY LinksDropped
<1>2. \A y \in Inodes \ {0} : IsFiniteSet(L(y)) /\ (Regular(m, y) => m.inode[y].nlink = Cardinality(L(y)))
  BY DEF Counts, CountOf
<1> HIDE DEF L, L2
<1>4. IsFiniteSet(L2(j)) /\ Cardinality(L2(j)) = Cardinality(L(j)) - 1
  BY <1>1, <1>2, FS_RemoveElement
<1>6. ASSUME NEW y \in Inodes \ {0}
      PROVE  IsFiniteSet(L2(y)) /\ (Regular(m2, y) => m2.inode[y].nlink = Cardinality(L2(y)))
  <2>1. CASE y = j
    BY <1>2, <1>4, <2>1
  <2>2. CASE y # j
    BY <1>1, <1>2, <2>2
  <2> QED BY <2>1, <2>2
<1> QED BY <1>6 DEF Counts, CountOf, L2

LEMMA SameCounts ==
  ASSUME NEW m, Counts(m), NEW m2,
         \A x, y \in Inodes, l \in Nat : Edge(m2, x, l, y) <=> Edge(m, x, l, y),
         \A y \in Inodes : Regular(m2, y) => Regular(m, y) /\ m2.inode[y].nlink = m.inode[y].nlink
  PROVE  Counts(m2)
BY LinksSame DEF Counts, CountOf

(* A directory is made where the root leads already.                          *)
LEMMA AddedRooted ==
  ASSUME NEW m, Rooted(m), NEW m2, NEW d \in Inodes, Dir(m, d), NEW k \in Nat,
         NEW j \in Inodes \ {0}, Adds(m, m2, d, k, j), ~Dir(m, j),
         \A x \in Inodes : x # j => (Dir(m2, x) <=> Dir(m, x))
  PROVE  Rooted(m2)
<1> SUFFICES ASSUME NEW S \in SUBSET Inodes, ROOTINODE \in S, Closed(m2, S),
                    NEW x \in Inodes, Dir(m2, x)
             PROVE  x \in S
  BY DEF Rooted
<1>1. ASSUME NEW y \in Inodes, NEW z \in Inodes, NEW l \in Nat,
             y \in S, Edge(m, y, l, z), Dir(m, z)
      PROVE  z \in S
  <2>1. Edge(m2, y, l, z) /\ Dir(m2, z)
    BY <1>1 DEF Adds
  <2> QED BY <1>1, <2>1 DEF Closed
<1>2. Closed(m, S)
  BY <1>1 DEF Closed
<1>3. \A y \in Inodes : Dir(m, y) => y \in S
  BY <1>2 DEF Rooted
<1>4. CASE x = j
  <2>1. Edge(m2, d, k, j) /\ d \in S
    BY <1>3 DEF Adds
  <2> QED BY <1>4, <2>1 DEF Closed
<1>5. CASE x # j
  BY <1>3, <1>5
<1> QED BY <1>4, <1>5

(* What is removed leads nowhere.                                             *)
LEMMA DroppedRooted ==
  ASSUME NEW m, Rooted(m), NEW m2, NEW d \in Inodes, NEW k \in Nat, NEW j \in Inodes \ {0},
         Drops(m, m2, d, k, j), ~Dir(m2, j), \A l \in Nat, y \in Inodes : ~Edge(m, j, l, y),
         \A x \in Inodes : x # j => (Dir(m2, x) <=> Dir(m, x))
  PROVE  Rooted(m2)
<1> SUFFICES ASSUME NEW S \in SUBSET Inodes, ROOTINODE \in S, Closed(m2, S),
                    NEW x \in Inodes, Dir(m2, x)
             PROVE  x \in S
  BY DEF Rooted
<1> DEFINE T == S \cup {j}
<1>1. ASSUME NEW y \in Inodes, NEW z \in Inodes, NEW l \in Nat,
             y \in T, Edge(m, y, l, z), Dir(m, z)
      PROVE  z \in T
  <2>1. CASE z = j
    BY <2>1
  <2>2. CASE z # j
    <3>1. y \in S /\ Dir(m2, z)
      BY <1>1, <2>2
    <3>2. Edge(m2, y, l, z)
      BY <1>1, <2>2 DEF Drops
    <3> QED BY <3>1, <3>2 DEF Closed
  <2> QED BY <2>1, <2>2
<1>2. Closed(m, T) /\ T \in SUBSET Inodes /\ ROOTINODE \in T
  BY <1>1 DEF Closed
<1> HIDE DEF T
<1>3. \A y \in Inodes : Dir(m, y) => y \in T
  BY <1>2 DEF Rooted
<1>4. x # j /\ Dir(m, x)
  OBVIOUS
<1> QED BY <1>3, <1>4 DEF T

LEMMA SameRooted ==
  ASSUME NEW m, Rooted(m), NEW m2,
         \A x, y \in Inodes, l \in Nat : Edge(m2, x, l, y) <=> Edge(m, x, l, y),
         \A x \in Inodes : Dir(m2, x) <=> Dir(m, x)
  PROVE  Rooted(m2)
<1> SUFFICES ASSUME NEW S \in SUBSET Inodes, ROOTINODE \in S, Closed(m2, S),
                    NEW x \in Inodes, Dir(m2, x)
             PROVE  x \in S
  BY DEF Rooted
<1>1. Closed(m, S)
  BY DEF Closed
<1> QED BY <1>1 DEF Rooted

-----------------------------------------------------------------------------
(* Every step keeps the counts and the way from the root *)

Graph(m) == Counts(m) /\ Rooted(m)

LEMMA GrewGraph ==
  ASSUME NEW m, Healthy(m), Graph(m), NEW m2 \in FsType, NEW d \in Inodes, Dir(m, d),
         NEW k \in Nat, NEW j \in Inodes \ {0}, NEW name \in Names, Grew(m, m2, d, k, j, name),
         ~Dir(m, j), Dir(m2, j) => m2.inode[j].size = 2,
         Regular(m2, j) => \/ m2.inode[j].nlink = 1 /\ \A x \in Inodes, l \in Nat : ~Edge(m, x, l, j)
                           \/ Regular(m, j) /\ m2.inode[j].nlink = m.inode[j].nlink + 1
  PROVE  Graph(m2)
<1>1. Adds(m, m2, d, k, j) /\ \A x \in Inodes : x # j => (Dir(m2, x) <=> Dir(m, x))
  BY GrewEdges DEF Adds
<1>2. ~Regular(m2, d)
  BY DEF Grew, Entered, Dir, IsDir, Regular, INODE_DIRECTORY, INODE_REGULAR
<1>3. \A y \in Inodes : y # j /\ y # d => m2.inode[y] = m.inode[y]
  BY DEF Grew, Others
<1>4. \A y \in Inodes : y # j /\ Regular(m2, y) =>
        Regular(m, y) /\ m2.inode[y].nlink = m.inode[y].nlink
  BY <1>2, <1>3 DEF Regular
<1>5. Counts(m2)
  BY <1>1, <1>4, AddedCounts DEF Graph
<1>6. Rooted(m2)
  BY <1>1, AddedRooted DEF Graph
<1> QED BY <1>5, <1>6 DEF Graph

LEMMA ShrankGraph ==
  ASSUME NEW m, Healthy(m), Graph(m), NEW m2 \in FsType, NEW d \in Inodes, Dir(m, d),
         NEW k \in Nat, NEW j \in Inodes \ {0}, Entry(m, d, k, j), Shrank(m, m2, d, k, j),
         Dir(m, j) => m.inode[j].size <= 2, ~Dir(m2, j), d # j,
         Regular(m2, j) => Regular(m, j) /\ m2.inode[j].nlink = m.inode[j].nlink - 1
  PROVE  Graph(m2)
<1>1. Drops(m, m2, d, k, j) /\ \A x \in Inodes : x # j => (Dir(m2, x) <=> Dir(m, x))
  BY ShrankEdges DEF Drops, Edge
<1>2. ~Regular(m2, d)
  BY DEF Shrank, Left, Dir, IsDir, Regular, INODE_DIRECTORY, INODE_REGULAR
<1>3. \A y \in Inodes : y # j /\ y # d => m2.inode[y] = m.inode[y]
  BY DEF Shrank, Others
<1>4. \A y \in Inodes : y # j /\ Regular(m2, y) =>
        Regular(m, y) /\ m2.inode[y].nlink = m.inode[y].nlink
  BY <1>2, <1>3 DEF Regular
<1>5. \A l \in Nat, y \in Inodes : ~Edge(m, j, l, y)
  <2>1. m.inode[j].size \in Nat
    BY SizeNat DEF Healthy, Safe, Sound
  <2>2. m.inode[j].size <= 2 => Below(m, j) = {}
    BY <2>1 DEF Below
  <2> QED BY <2>2 DEF Edge, Entry
<1>6. Counts(m2)
  BY <1>1, <1>4, DroppedCounts DEF Graph
<1>7. Rooted(m2)
  BY <1>1, <1>5, DroppedRooted DEF Graph
<1> QED BY <1>6, <1>7 DEF Graph

LEMMA SameGraph ==
  ASSUME NEW m, Healthy(m), Graph(m), NEW m2 \in FsType,
         \A x \in Inodes : IsDir(m, x) => Alike(m, m2, x),
         \A x \in Inodes : IsDir(m2, x) => IsDir(m, x),
         \A y \in Inodes : Regular(m2, y) => Regular(m, y) /\ m2.inode[y].nlink = m.inode[y].nlink
  PROVE  Graph(m2)
<1>1. /\ \A x, y \in Inodes, l \in Nat : Edge(m2, x, l, y) <=> Edge(m, x, l, y)
      /\ \A x \in Inodes : Dir(m2, x) <=> Dir(m, x)
  BY SameEdges
<1> QED BY <1>1, SameCounts, SameRooted DEF Graph

LEMMA ClearGraph ==
  ASSUME NEW m, Healthy(m), Graph(m), NEW i \in Inodes, ~IsDir(m, i), NEW m2, m2 = Clear(m, i)
  PROVE  Graph(m2)
<1>1. /\ Sound(m2) /\ \A j \in Inodes : j # i => Alike(m, m2, j)
      /\ m2.inode[i].type = m.inode[i].type /\ m2.inode[i].nlink = m.inode[i].nlink
      /\ OnlyInode(m, m2, i)
  BY HealthyIs, ClearSound
<1>2. \A x \in Inodes : m2.inode[x].type = m.inode[x].type /\ m2.inode[x].nlink = m.inode[x].nlink
  BY <1>1 DEF OnlyInode
<1>3. /\ \A x \in Inodes : IsDir(m, x) => Alike(m, m2, x)
      /\ \A x \in Inodes : IsDir(m2, x) => IsDir(m, x)
      /\ \A y \in Inodes : Regular(m2, y) => Regular(m, y) /\ m2.inode[y].nlink = m.inode[y].nlink
  BY <1>1, <1>2 DEF IsDir, Regular
<1> QED BY <1>1, <1>3, SameGraph DEF Sound

LEMMA WriteGraph ==
  ASSUME NEW m, Healthy(m), Graph(m), NEW i \in Inodes, Legal(m, i), ~IsDir(m, i),
         NEW pos \in Nat, pos <= m.inode[i].size, NEW n \in Nat, pos + n <= NUM_DIRECT * UNITS,
         NEW valid \in Nat, NEW m2, m2 = WriteFile(m, i, pos, n, valid).fs
  PROVE  Graph(m2)
<1>1. m.inode[i].type = INODE_REGULAR /\ DataOf(m, i) /\ Sound(m) /\ m \in FsType
  BY HealthyIs DEF Legal, Known, IsDir, DataInv
<1>2. Written(m, m2, i)
  BY <1>1, WriteWritten
<1>3. SameLinks(m, m2)
  BY <1>1, WriteLinks
<1>4. m2 \in FsType
  BY <1>2 DEF Written, Sound
<1>5. m2.inode[i].type = INODE_REGULAR /\ \A x \in Inodes : x # i => Alike(m, m2, x)
  BY <1>2 DEF Written
<1>6. \A x \in Inodes : m2.inode[x].type = m.inode[x].type
  BY <1>1, <1>5 DEF Alike
<1>7. /\ \A x \in Inodes : IsDir(m, x) => Alike(m, m2, x)
      /\ \A x \in Inodes : IsDir(m2, x) => IsDir(m, x)
      /\ \A y \in Inodes : Regular(m2, y) => Regular(m, y) /\ m2.inode[y].nlink = m.inode[y].nlink
  BY <1>3, <1>5, <1>6 DEF IsDir, Regular, SameLinks
<1> QED BY <1>4, <1>7, SameGraph

LEMMA BootGraph ==
  ASSUME NEW m, Healthy(m), Graph(m), NEW m2, m2 = Boot(m)
  PROVE  Graph(m2)
<1>1. m \in FsType
  BY HealthyIs
<1>2. m2 \in FsType /\ m2.inode = m.inode /\ m2.cell = m.cell /\ m2.indirect = m.indirect
  BY <1>1, BootType
<1>3. \A x \in Inodes : Alike(m, m2, x)
  BY <1>1, <1>2, AlikeFrame
<1> QED BY <1>2, <1>3, SameGraph DEF IsDir, Regular

(* A file system with the root and nothing in it.                             *)
LEMMA MkYfsGraph == Graph(MkYfs)
<1> DEFINE m == MkYfs
<1>1. /\ m \in FsType
      /\ \A i \in Inodes :
           IF i = ROOTINODE
           THEN m.inode[i].type = INODE_DIRECTORY /\ m.inode[i].size = 2
           ELSE m.inode[i].type \in {INODE_FREE, HEADER} /\ m.inode[i].size = 0
  BY MkYfsType
<1> HIDE DEF m
<1>2. \A x \in Inodes : Dir(m, x) => x = ROOTINODE
  BY <1>1 DEF Dir
<1>3. \A x, y \in Inodes, l \in Nat : ~Edge(m, x, l, y)
  <2>1. ROOTINODE \in Inodes
    BY ConstantFacts DEF ROOTINODE
  <2>2. Below(m, ROOTINODE) = {}
    BY <1>1, <2>1 DEF Below
  <2> QED BY <1>2, <2>2 DEF Edge, Entry
<1>4. \A i \in Inodes : ~Regular(m, i)
  BY <1>1 DEF Regular, INODE_DIRECTORY, INODE_FREE, INODE_REGULAR, HEADER
<1>5. \A i \in Inodes : LinksTo(m, i) = {}
  <2>1. \A e \in Inodes \X Nat : e[1] \in Inodes /\ e[2] \in Nat
    OBVIOUS
  <2> QED BY <1>3, <2>1 DEF LinksTo
<1>6. Counts(m)
  BY <1>4, <1>5, FS_EmptySet DEF Counts, CountOf
<1>7. Rooted(m)
  BY <1>2 DEF Rooted
<1> QED BY <1>6, <1>7 DEF Graph, m

-----------------------------------------------------------------------------
(* The counts *)

LEMMA GraphStep ==
  ASSUME Promised, Fits, Inv, Defined, Graph(fs), [Next]_vars
  PROVE  Graph(fs')
<1>1. ASSUME NEW p \in Procs, NEW path \in Paths, Create(p, path) PROVE Graph(fs')
  <2> DEFINE d == Parent(p, path)
             t == Target(p, path)
             i == NextInode(fs)
  <2>1. /\ Healthy(fs) /\ d \in Inodes /\ Dir(fs, d) /\ t \in Inodes /\ ~IsDir(fs, t)
        /\ FileName(path) \in Names
        /\ t # 0 => fs' = Clear(fs, t)
        /\ t = 0 => fs.i_head # << >> /\ Creates(fs, fs', d, FileName(path))
    BY <1>1, Created
  <2> HIDE DEF d, t
  <2>2. CASE t # 0
    BY <2>1, <2>2, ClearGraph
  <2>3. CASE t = 0
    <3>1. /\ i \in Inodes \ {0} /\ ~Dir(fs, i) /\ \A x \in Inodes, l \in Nat : ~Edge(fs, x, l, i)
      BY <2>1, <2>3, NextUnused
    <3>2. /\ \E k \in Nat : Grew(fs, fs', d, k, i, FileName(path))
          /\ fs' \in FsType /\ fs'.inode[i].type = INODE_REGULAR /\ fs'.inode[i].nlink = 1
      BY <2>1, <2>3, CreatesGrew
    <3>3. ~Dir(fs', i)
      BY <3>2 DEF Dir, IsDir, INODE_REGULAR, INODE_DIRECTORY
    <3> HIDE DEF i
    <3> QED BY <2>1, <3>1, <3>2, <3>3, GrewGraph
  <2> QED BY <2>2, <2>3
<1>2. ASSUME NEW p \in Procs, NEW old \in Paths, NEW new \in Paths, Link(p, old, new)
      PROVE  Graph(fs')
  <2> DEFINE d == LinkParent(p, old, new)
  <2>1. /\ Healthy(fs) /\ d \in Inodes /\ Dir(fs, d) /\ FileName(new) \in Names
        /\ \/ fs' = fs
           \/ \E i \in Inodes \ {0} :
                Legal(fs, i) /\ ~IsDir(fs, i) /\ Links(fs, fs', d, i, FileName(new))
    BY <1>2, Linked
  <2> HIDE DEF d
  <2>2. ASSUME NEW i \in Inodes \ {0}, Legal(fs, i), ~IsDir(fs, i), Links(fs, fs', d, i, FileName(new))
        PROVE  Graph(fs')
    <3>1. /\ \E k \in Nat : Grew(fs, fs', d, k, i, FileName(new))
          /\ fs' \in FsType /\ Alike(fs, fs', i) /\ fs'.inode[i].nlink = fs.inode[i].nlink + 1
      BY <2>1, <2>2, LinksGrew
    <3>2. ~Dir(fs, i) /\ ~Dir(fs', i) /\ (Regular(fs', i) => Regular(fs, i))
      BY <2>2, <3>1 DEF Dir, IsDir, Alike, Regular
    <3> QED BY <2>1, <3>1, <3>2, GrewGraph
  <2> QED BY <2>1, <2>2
<1>3. ASSUME NEW p \in Procs, NEW path \in Paths, Unlink(p, path) PROVE Graph(fs')
  <2> DEFINE d == Parent(p, path)
             t == Target(p, path)
  <2>1. /\ Healthy(fs) /\ d \in Inodes /\ Dir(fs, d) /\ t \in Inodes \ {0} /\ ~IsDir(fs, t)
        /\ Unlinks(fs, fs', d, t, FileName(path))
    BY <1>3, Unlinked
  <2> HIDE DEF d, t
  <2>2. /\ \E k \in Nat : Entry(fs, d, k, t) /\ Shrank(fs, fs', d, k, t)
        /\ fs' \in FsType /\ fs'.inode[t].type = fs.inode[t].type
        /\ fs'.inode[t].nlink = fs.inode[t].nlink - 1 /\ d # t
    BY <2>1, UnlinksShrank
  <2>3. ~Dir(fs, t) /\ ~Dir(fs', t) /\ (Regular(fs', t) => Regular(fs, t))
    BY <2>1, <2>2 DEF Dir, IsDir, Regular
  <2> QED BY <2>1, <2>2, <2>3, ShrankGraph
<1>4. ASSUME NEW p \in Procs, NEW path \in Paths, MkDir(p, path) PROVE Graph(fs')
  <2> DEFINE d == Parent(p, path)
             t == Target(p, path)
             i == NextInode(fs)
  <2>1. /\ Healthy(fs) /\ d \in Inodes /\ Dir(fs, d) /\ FileName(path) \in Names
        /\ t # 0 => fs' = fs
        /\ t = 0 => fs.i_head # << >> /\ MakesDir(fs, fs', d, FileName(path))
    BY <1>4, DirMadeIn
  <2> HIDE DEF d, t
  <2>2. CASE t = 0
    <3>1. i \in Inodes \ {0} /\ ~Dir(fs, i)
      BY <2>1, <2>2, NextUnused
    <3>2. /\ \E k \in Nat : Grew(fs, fs', d, k, i, FileName(path))
          /\ fs' \in FsType /\ NewEntries(fs', i, d)
      BY <2>1, <2>2, MakesDirGrew
    <3>3. fs'.inode[i].size = 2 /\ ~Regular(fs', i)
      BY <3>2 DEF NewEntries, Regular, INODE_REGULAR, INODE_DIRECTORY
    <3> HIDE DEF i
    <3> QED BY <2>1, <3>1, <3>2, <3>3, GrewGraph
  <2> QED BY <2>1, <2>2
<1>5. ASSUME NEW p \in Procs, NEW path \in Paths, RmDir(p, path) PROVE Graph(fs')
  <2> DEFINE d == Parent(p, path)
             t == Target(p, path)
  <2>1. /\ Healthy(fs) /\ d \in Inodes /\ Dir(fs, d) /\ t \in Inodes \ {0} /\ IsDir(fs, t)
        /\ fs.inode[t].size > 2 => fs' = fs
        /\ fs.inode[t].size <= 2 => t # d /\ Removes(fs, fs', d, t, FileName(path))
    BY <1>5, DirRemoved
  <2> HIDE DEF d, t
  <2>2. fs.inode[t].size \in Nat
    BY <2>1, SizeNat DEF Healthy, Safe, Sound
  <2>3. CASE fs.inode[t].size <= 2
    <3>1. /\ \E k \in Nat : Entry(fs, d, k, t) /\ Shrank(fs, fs', d, k, t)
          /\ fs' \in FsType /\ fs'.inode[t].type = fs.inode[t].type /\ fs'.inode[t].size = 0
      BY <2>1, <2>3, RemovesShrank
    <3>2. ~Dir(fs', t) /\ ~Regular(fs', t)
      BY <2>1, <3>1 DEF Dir, IsDir, Regular, INODE_REGULAR, INODE_DIRECTORY
    <3> QED BY <2>1, <2>3, <3>1, <3>2, ShrankGraph
  <2> QED BY <2>1, <2>2, <2>3
<1>6. ASSUME NEW p \in Procs, NEW fd \in Slots, NEW n \in Sizes, Write(p, fd, n) PROVE Graph(fs')
  <2> DEFINE i == fds[p][fd].i_num
             pos == fds[p][fd].pos
  <2>1. /\ Healthy(fs) /\ i \in Inodes \ {0} /\ pos \in Nat /\ n \in Nat
        /\ Legal(fs, i) /\ ~IsDir(fs, i) /\ pos <= fs.inode[i].size /\ pos + n <= NUM_DIRECT * UNITS
    BY <1>6, Wrote
  <2>2. PICK valid \in 0 .. n : fs' = WriteFile(fs, i, pos, n, valid).fs
    BY <1>6, Wrote
  <2> HIDE DEF i, pos
  <2>3. valid \in Nat
    BY <2>1
  <2> QED BY <2>1, <2>2, <2>3, WriteGraph
<1>7. ASSUME Restart PROVE Graph(fs')
  <2>1. Healthy(fs) /\ fs' = Boot(fs)
    BY <1>7 DEF Restart, Inv, Defined
  <2> QED BY <2>1, BootGraph
<1>8. fs' = fs => Graph(fs')
  OBVIOUS
<1>9. ASSUME NEW p \in Procs, NEW path \in Paths, Open(p, path) \/ ChDir(p, path) PROVE fs' = fs
  BY <1>9 DEF Open, ChDir
<1>10. ASSUME NEW p \in Procs, NEW fd \in Slots, NEW n \in Sizes, Read(p, fd, n) PROVE fs' = fs
  BY <1>10 DEF Read
<1>11. ASSUME NEW p \in Procs, NEW fd \in Slots, Close(p, fd) PROVE fs' = fs
  BY <1>11 DEF Close
<1>12. ASSUME NEW p \in Procs, NEW fd \in Slots, NEW offset \in Offsets,
              NEW whence \in {"SEEK_SET", "SEEK_CUR", "SEEK_END"}, Seek(p, fd, offset, whence)
       PROVE  fs' = fs
  BY <1>12 DEF Seek
<1>13. CASE UNCHANGED vars
  BY <1>8, <1>13 DEF vars
<1>14. CASE Next
  BY <1>1, <1>2, <1>3, <1>4, <1>5, <1>6, <1>7, <1>8, <1>9, <1>10, <1>11, <1>12, <1>14 DEF Next
<1> QED BY <1>13, <1>14

LEMMA GraphAlways ==
  ASSUME Promised
  PROVE  Spec => [](Fits /\ Inv /\ Clean(fs) /\ Graph(fs))
<1>1. Init => Graph(fs)
  BY MkYfsGraph, MkYfsHealthy, BootGraph DEF Init
<1>2. Fits /\ Inv /\ Clean(fs) /\ Graph(fs) /\ [Next]_vars => Graph(fs')
  BY GraphStep DEF Clean, Defined
<1>3. Spec => [](Fits /\ Inv /\ Clean(fs))
  BY CleanAlways
<1> DEFINE Ok == Graph(fs)
           Most == Fits /\ Inv /\ Clean(fs)
<1>4. Most /\ Ok /\ [Next]_vars => Ok'
  BY <1>2
<1>5. Init => Ok
  BY <1>1
<1>7. Spec => []Most
  BY <1>3
<1> HIDE DEF Ok, Most
<1>6. Spec => [](Most /\ Ok)
  BY <1>4, <1>5, <1>7, PTL DEF Spec
<1> QED BY <1>6 DEF Ok, Most

(* What the root leads to leads nowhere else.                                 *)
LEMMA LiveClosed ==
  ASSUME fs \in FsType
  PROVE  Deeper1(Live) = Live
<1>1. PICK n \in Nat : \E at \in [0 .. n -> SUBSET Inodes] :
        /\ at[0] = {ROOTINODE}
        /\ \A k \in 1 .. n : at[k] = Deeper1(at[k - 1])
        /\ Live = at[n]
        /\ n = Cardinality(Inodes)
  BY LiveSteps
<1>2. PICK at \in [0 .. n -> SUBSET Inodes] :
        /\ at[0] = {ROOTINODE}
        /\ \A k \in 1 .. n : at[k] = Deeper1(at[k - 1])
        /\ Live = at[n]
        /\ n = Cardinality(Inodes)
  BY <1>1
<1>3. IsFiniteSet(Inodes)
  BY ConstantFacts, FS_Interval DEF Inodes
<1>4. \A S \in SUBSET Inodes : IsFiniteSet(S) /\ Cardinality(S) \in Nat /\ Cardinality(S) <= n
  BY <1>2, <1>3, FS_Subset, FS_CardinalityType
<1> DEFINE Good(k) == Deeper1(at[k]) = at[k] \/ Cardinality(at[k]) >= k + 1
           S == {k \in 0 .. n : Good(k)}
<1>5. 0 \in S
  <2>1. Cardinality({ROOTINODE}) = 1
    BY FS_Singleton
  <2>2. Cardinality(at[0]) = 1
    BY <1>2, <2>1
  <2>3. Good(0) /\ 0 \in 0 .. n
    BY <2>2
  <2> HIDE DEF Good
  <2> QED BY <2>3
<1>6. ASSUME NEW k \in 1 .. n, k - 1 \in S PROVE k \in S
  <2> DEFINE a == at[k - 1]
             b == at[k]
  <2>1. k - 1 \in 0 .. n /\ k \in 0 .. n /\ a \in SUBSET Inodes /\ b \in SUBSET Inodes
    BY <1>2
  <2>2. b = Deeper1(a)
    BY <1>2
  <2>3. Deeper1(a) = a \/ Cardinality(a) >= k
    BY <1>6
  <2>4. a \subseteq b
    BY <2>2 DEF Deeper1
  <2> HIDE DEF a, b
  <2>5. CASE b = a
    <3>1. Good(k)
      BY <2>2, <2>5 DEF b
    <3> QED BY <2>1, <3>1
  <2>6. CASE b # a
    <3>1. Cardinality(a) >= k
      BY <2>2, <2>3, <2>6
    <3>2. Cardinality(a) <= Cardinality(b) /\ (Cardinality(b) = Cardinality(a) => b = a)
      BY <1>4, <2>1, <2>4, FS_Subset
    <3>3. Cardinality(b) >= k + 1
      BY <1>4, <2>1, <2>6, <3>1, <3>2
    <3> QED BY <2>1, <3>3 DEF b
  <2> QED BY <2>5, <2>6
<1> HIDE DEF S
<1>7. n \in S
  BY <1>5, <1>6, StepByStep
<1>8. at[n] \in SUBSET Inodes
  BY <1>2
<1>9. Cardinality(at[n]) <= n /\ Cardinality(at[n]) \in Nat
  BY <1>4, <1>8
<1>10. ~(Cardinality(at[n]) >= n + 1)
  BY <1>9
<1>11. Deeper1(at[n]) = at[n]
  BY <1>7, <1>10 DEF S
<1> QED BY <1>2, <1>11

(* It has all directories.                                                    *)
LEMMA DirsAreLive ==
  ASSUME Healthy(fs), Rooted(fs)
  PROVE  \A d \in Inodes : Dir(fs, d) => d \in LiveDirs
<1>1. fs \in FsType /\ DirInv(fs) /\ Live \subseteq Inodes /\ ROOTINODE \in Live
  BY HealthyIs, LiveInodes, LiveLegal
<1>2. Closed(fs, Live)
  <2> SUFFICES ASSUME NEW x \in Inodes, NEW y \in Inodes, NEW l \in Nat, x \in Live, Edge(fs, x, l, y)
               PROVE  y \in Live
    BY DEF Closed
  <2>1. Dir(fs, x) /\ IsDir(fs, x) /\ l \in Below(fs, x) /\ CellAt(fs, x, l).inum = y /\ y # 0
    BY DEF Edge, Entry, Dir
  <2>2. l \in Entries(x)
    BY <1>1, <2>1, EntriesAre DEF DirInv
  <2>3. y \in Deeper1(Live)
    BY <2>1, <2>2 DEF Deeper1, Children
  <2> QED BY <1>1, <2>3, LiveClosed
<1>3. \A d \in Inodes : Dir(fs, d) => d \in Live
  BY <1>1, <1>2 DEF Rooted
<1> QED BY <1>3 DEF LiveDirs, Dir

LEMMA LinksAre ==
  ASSUME Healthy(fs), Rooted(fs), NEW i \in Inodes, i # 0
  PROVE  LinksIn(AllEntries, i) = LinksTo(fs, i)
<1>1. fs \in FsType /\ DirInv(fs)
  BY HealthyIs
<1>2. ASSUME NEW e \in LinksIn(AllEntries, i) PROVE e \in LinksTo(fs, i)
  <2>1. PICK d \in LiveDirs, k \in Nat : e = <<d, k>> /\ d \in Inodes /\ Dir(fs, d) /\ Entry(fs, d, k, i)
    BY LinkFacts
  <2>2. Edge(fs, d, k, i) /\ e[1] = d /\ e[2] = k
    BY <2>1 DEF Edge
  <2> QED BY <2>1, <2>2 DEF LinksTo
<1>3. ASSUME NEW e \in LinksTo(fs, i) PROVE e \in LinksIn(AllEntries, i)
  <2>1. e \in Inodes \X Nat /\ Edge(fs, e[1], e[2], i)
    BY DEF LinksTo
  <2>2. PICK d \in Inodes, k \in Nat : e = <<d, k>> /\ e[1] = d /\ e[2] = k
    BY <2>1
  <2>3. Dir(fs, d) /\ IsDir(fs, d) /\ k \in Below(fs, d) /\ CellAt(fs, d, k).inum = i
    BY <2>1, <2>2 DEF Edge, Entry, Dir
  <2>4. k \in Entries(d)
    BY <1>1, <2>3, EntriesAre DEF DirInv
  <2>5. d \in LiveDirs
    BY <2>3, DirsAreLive
  <2>6. e \in AllEntries
    BY <2>2, <2>4, <2>5 DEF AllEntries
  <2> QED BY <2>2, <2>3, <2>6 DEF LinksIn
<1> QED BY <1>2, <1>3

LEMMA NamesCounted ==
  ASSUME Fits, Inv, Clean(fs), Graph(fs)
  PROVE  NlinkCountsNames
<1>1. Healthy(fs)
  BY DEF Inv, Clean
<1> SUFFICES ASSUME NEW i \in Inodes, fs.inode[i].type = INODE_REGULAR
             PROVE  fs.inode[i].nlink = Cardinality(LinksIn(AllEntries, i))
  BY DEF NlinkCountsNames
<1>2. i # 0
  BY DEF Clean, HeaderInv, HEADER, INODE_REGULAR
<1>3. fs.inode[i].nlink = Cardinality(LinksTo(fs, i))
  BY <1>2 DEF Graph, Counts, CountOf, Regular
<1> QED BY <1>1, <1>2, <1>3, LinksAre DEF Graph
=============================================================================
