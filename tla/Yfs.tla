-------------------------------- MODULE Yfs --------------------------------
(* The file server of yfs.c and the processes that call it through iolib.c.   *)
(* A process blocks in Send until the server replies and the server serves    *)
(* one request at a time, so a library call that sends one request is one     *)
(* step.  What a process keeps for itself is its table of open files and its  *)
(* current directory; both hold inode numbers, which the server never checks. *)
EXTENDS YfsHandlers

CONSTANTS
  Procs,
  MAX_OPEN_FILES,
  Paths,                \* the path names processes use: [abs, parts]
  Sizes,                \* the sizes of reads and writes
  Offsets,              \* the offsets of seeks
  Promises,             \* what the processes take care of themselves, below
  NULL

ASSUME YfsAssumption ==
  /\ {NUM_BLOCKS, NUM_INODES, IPB, NUM_DIRECT, NUM_INDIRECT, MAX_OPEN_FILES} \subseteq Nat \ {0}
  /\ IPB >= 2 /\ UNITS \in Nat /\ UNITS >= 2
  /\ NumTable + 1 \in Blocks
  /\ INT_MAX \in Nat /\ INT_MAX >= MaxBlocks * UNITS
  /\ Sizes \subseteq Nat /\ Offsets \subseteq Int
  /\ \A path \in Paths : path.abs \/ path.parts # << >>

(* No name is one of the others that a path or an entry can have.             *)
ASSUME PathsAssumption ==
  /\ Paths \subseteq [abs : BOOLEAN, parts : Seq(Names \cup {"", ".", ".."})]
  /\ Names \cap {"", ".", "..", Junk} = {}

(* NULL is neither an inode nor an open file.                                 *)
ASSUME NullAssumption ==
  NULL \notin Nat /\ NULL \notin [i_num : Nat, pos : Nat]

(* An offset is an int, and the largest int is beyond the end of any file.    *)
ASSUME OffsetsAssumption ==
  Offsets \subseteq -INT_MAX - 1 .. INT_MAX /\ INT_MAX > MaxBlocks * UNITS

VARIABLES fs, fds, cwd
vars == <<fs, fds, cwd>>

Slots == 0 .. MAX_OPEN_FILES - 1
NoFiles == [p \in Procs |-> [fd \in Slots |-> NULL]]
AtRoot == [p \in Procs |-> ROOTINODE]

Init == fs = Boot(MkYfs) /\ fds = NoFiles /\ cwd = AtRoot

-----------------------------------------------------------------------------
(* The promises.  The server checks almost none of what it is asked to do, so *)
(* that what it keeps right depends on what the processes ask for:            *)
(*   live    they unlink and remove what exists, and make directories and     *)
(*           files in directories that exist                                  *)
(*   kind    they remove only directories with RmDir, and only files with     *)
(*           Unlink; they create and write only files                         *)
(*   plain   the last part of the path of what they make or remove is a name  *)
(*   straight  the path of a directory they remove has "." and ".." only      *)
(*           before the first name                                            *)
(*   idle    nobody is in the directory that is removed, and nobody is past   *)
(*           the beginning of the file that is truncated or deleted           *)
(*   space   the free lists hold what they ask for, the inode table aside     *)
(*   direct  they write no file beyond its direct blocks                      *)
(*   buffer  the buffer of a read or a write is memory of theirs              *)
(*   stay    they do not shut the server down                                 *)
Kept(promise, condition) == promise \in Promises => condition

Target(p, path) == Resolve(fs, path, cwd[p])
Parent(p, path) == SuperDir(fs, path, cwd[p])
LinkParent(p, old, new) ==        \* adj_path_i and the current directory it leaves
  SuperDir(fs, [abs |-> FALSE, parts |-> new.parts], Start(new, Start(old, cwd[p])))

Exists(p, path) == Kept("live", Target(p, path) # 0)
HasParent(d) == Kept("live", d # ERROR) /\ Kept("kind", d = ERROR \/ IsDir(fs, d))
Plain(path) == Kept("plain", FileName(path) \in Names)
Straight(path) ==
  Kept("straight", \A j, k \in DOMAIN path.parts :
                     j < k /\ path.parts[j] \in Names => path.parts[k] \in Names)
Room(n) == Kept("space", Len(fs.b_head) >= Cardinality(TableBlocks) + n)
InodeFor(p, path) == Kept("space", Target(p, path) = 0 => fs.i_head # << >>)
Missing(i, pos, n) ==
  Cardinality({m \in pos \div UNITS .. (pos + n - 1) \div UNITS : m * UNITS >= fs.inode[i].size})
Short(d, path) ==
  Kept("direct", d = ERROR \/ fs.inode[d].size < NUM_DIRECT * UNITS
                 \/ Found(fs, d, FileName(path)) \/ Vacant(fs, d) # {})

OpenOn(i) == {f \in Procs \X Slots : fds[f[1]][f[2]] # NULL /\ fds[f[1]][f[2]].i_num = i}
AtStart(i) == Kept("idle", \A f \in OpenOn(i) : fds[f[1]][f[2]].pos = 0)
Unused(i) == Kept("idle", OpenOn(i) = {} /\ \A p \in Procs : cwd[p] # i)

(* Nothing is defined after the server went wrong.                            *)
Up == ~fs.bad

-----------------------------------------------------------------------------
(* The calls of iolib.c *)

(* Fault: the reply ERROR is taken for an inode.                              *)
OpenAsIs(p, i) ==
  LET free == {fd \in Slots : fds[p][fd] = NULL}
  IN  fds' = IF free = {} THEN fds
             ELSE [fds EXCEPT ![p][Min(free)] = [i_num |-> i, pos |-> 0]]

(* Open and Create look for a slot when the server has answered.              *)
OpenAs(p, i) ==
  LET free == {fd \in Slots : fds[p][fd] = NULL}
  IN  fds' = IF i = ERROR \/ free = {} THEN fds
             ELSE [fds EXCEPT ![p][Min(free)] = [i_num |-> i, pos |-> 0]]

Open(p, path) ==
  /\ Up
  /\ OpenAs(p, LookUp(fs, path, cwd[p]))
  /\ UNCHANGED <<fs, cwd>>

Create(p, path) ==
  LET r == CreateFile(fs, path, cwd[p], ERROR)
  IN  /\ Up
      /\ Plain(path) /\ HasParent(Parent(p, path)) /\ Short(Parent(p, path), path)
      /\ Room(1) /\ InodeFor(p, path)
      /\ Kept("kind", ~IsDir(fs, Target(p, path)))
      /\ AtStart(Target(p, path))
      /\ fs' = r.fs
      /\ OpenAs(p, r.ret)
      /\ UNCHANGED cwd

Close(p, fd) ==
  /\ fds[p][fd] # NULL
  /\ fds' = [fds EXCEPT ![p][fd] = NULL]
  /\ UNCHANGED <<fs, cwd>>

(* The reply moves the position of the open file, unless it is an error.      *)
Advance(p, fd, bytes) ==
  fds' = IF bytes = ERROR THEN fds ELSE [fds EXCEPT ![p][fd].pos = @ + bytes]

(* CopyTo fails where the buffer of a read ends too early.                    *)
Read(p, fd, n) ==
  /\ Up /\ fds[p][fd] # NULL
  /\ LET bytes == ReadFile(fs, fds[p][fd].i_num, fds[p][fd].pos, n)
     IN  \/ Advance(p, fd, bytes)
         \/ Kept("buffer", FALSE) /\ bytes > 0 /\ Advance(p, fd, ERROR)
  /\ UNCHANGED <<fs, cwd>>

Write(p, fd, n) ==
  /\ Up /\ fds[p][fd] # NULL
  /\ \E valid \in 0 .. n :
       LET f == fds[p][fd]
           r == WriteFile(fs, f.i_num, f.pos, n, valid)
       IN  /\ Kept("buffer", valid = n)
           /\ Room(Missing(f.i_num, f.pos, n))
           /\ Kept("kind", ~IsDir(fs, f.i_num))
           /\ Kept("direct", f.pos + n <= NUM_DIRECT * UNITS)
           /\ fs' = r.fs
           /\ Advance(p, fd, r.ret)
  /\ UNCHANGED cwd

Seek(p, fd, offset, whence) ==
  /\ Up /\ fds[p][fd] # NULL /\ fds[p][fd].i_num > 0
  /\ LET to == SeekFile(fs, fds[p][fd].i_num, offset, whence, fds[p][fd].pos)
     IN  fds' = IF to = ERROR THEN fds ELSE [fds EXCEPT ![p][fd].pos = to]
  /\ UNCHANGED <<fs, cwd>>

Link(p, old, new) ==
  /\ Up
  /\ Plain(new) /\ HasParent(LinkParent(p, old, new)) /\ Short(LinkParent(p, old, new), new)
  /\ Room(1)
  /\ fs' = LinkFile(fs, old, new, cwd[p]).fs
  /\ UNCHANGED <<fds, cwd>>

Unlink(p, path) ==
  /\ Up
  /\ Plain(path) /\ HasParent(Parent(p, path)) /\ Exists(p, path)
  /\ Kept("kind", ~IsDir(fs, Target(p, path)))
  /\ AtStart(Target(p, path))
  /\ fs' = UnlinkFile(fs, path, cwd[p]).fs
  /\ UNCHANGED <<fds, cwd>>

MkDir(p, path) ==
  /\ Up
  /\ Plain(path) /\ HasParent(Parent(p, path)) /\ Short(Parent(p, path), path)
  /\ Room(2) /\ InodeFor(p, path)
  /\ fs' = MakeDir(fs, path, cwd[p]).fs
  /\ UNCHANGED <<fds, cwd>>

RmDir(p, path) ==
  /\ Up
  /\ Plain(path) /\ Straight(path) /\ HasParent(Parent(p, path)) /\ Exists(p, path)
  /\ Kept("kind", IsDir(fs, Target(p, path)))
  /\ Unused(Target(p, path))
  /\ fs' = RemoveDir(fs, path, cwd[p]).fs
  /\ UNCHANGED <<fds, cwd>>

ChDir(p, path) ==
  /\ Up
  /\ cwd' = LET i == LookUp(fs, path, cwd[p])
            IN  IF i = ERROR THEN cwd ELSE [cwd EXCEPT ![p] = i]
  /\ UNCHANGED <<fs, fds>>

(* Shutdown, and a new server and new processes on what it saved.  What       *)
(* handle_sync does not write because nobody marked it is the size of removed *)
(* directories, which nothing leads to; block 0, which holds pointers only    *)
(* where processes do not keep to "direct"; and the inode of a write that     *)
(* fails half way, in its buffer or at the end of the largest file.           *)
Restart ==
  /\ Up /\ Kept("stay", FALSE)
  /\ {"direct", "buffer"} \subseteq Promises
  /\ fs' = Boot(fs) /\ fds' = NoFiles /\ cwd' = AtRoot

Next ==
  \/ \E p \in Procs, path \in Paths : Open(p, path)
  \/ \E p \in Procs, path \in Paths : Create(p, path)
  \/ \E p \in Procs, fd \in Slots : Close(p, fd)
  \/ \E p \in Procs, fd \in Slots, n \in Sizes : Read(p, fd, n)
  \/ \E p \in Procs, fd \in Slots, n \in Sizes : Write(p, fd, n)
  \/ \E p \in Procs, fd \in Slots, offset \in Offsets,
        whence \in {"SEEK_SET", "SEEK_CUR", "SEEK_END"} : Seek(p, fd, offset, whence)
  \/ \E p \in Procs, old, new \in Paths : Link(p, old, new)
  \/ \E p \in Procs, path \in Paths : Unlink(p, path)
  \/ \E p \in Procs, path \in Paths : MkDir(p, path)
  \/ \E p \in Procs, path \in Paths : RmDir(p, path)
  \/ \E p \in Procs, path \in Paths : ChDir(p, path)
  \/ Restart

Spec == Init /\ [][Next]_vars

-----------------------------------------------------------------------------
(* What the file system consists of *)

(* The entries of a directory after "." and "..".                             *)
Entries(d) == {k \in Places(fs, d) : k >= 2 /\ CellAt(fs, d, k).inum # 0}
Children(d) == {CellAt(fs, d, k).inum : k \in Entries(d)}

(* The inodes the root leads to: no directory is deeper than there are inodes. *)
Live ==
  LET Deeper(S, n) == S \cup UNION {Children(d) : d \in {i \in S : IsDir(fs, i)}}
  IN  FoldLeft(Deeper, {ROOTINODE}, [n \in 1 .. Cardinality(Inodes) |-> n])
LiveDirs == {i \in Live : IsDir(fs, i)}
Held == {f.i_num : f \in {fds[p][fd] : p \in Procs, fd \in Slots} \ {NULL}}
InUse == Live \cup Held

(* The entries for each inode, and the places each block is used or free in.  *)
AllEntries == UNION {{<<d, k>> : k \in Entries(d)} : d \in LiveDirs}
LinksIn(entries, i) == {e \in entries : CellAt(fs, e[1], e[2]).inum = i}
AllUses == UNION {{<<i, n>> : n \in 0 .. NumBlocks(fs, i) - 1} : i \in InUse}
UsesIn(uses, b) == {u \in uses : NthBlock(fs, u[1], u[2]) = b}
FreeAt(b) == {k \in DOMAIN fs.b_head : fs.b_head[k] = b}
Extra == Blocks \ (TableBlocks \cup {0})

-----------------------------------------------------------------------------
(* Properties *)

TypeOK ==
  /\ fs.inode \in [Inodes -> [type : 0 .. HEADER, nlink : Int, size : Nat,
                              direct : [0 .. NUM_DIRECT - 1 -> Blocks]]]
  /\ fs.indirect \in [0 .. NUM_INDIRECT - 1 -> Blocks]
  /\ fs.cell \in [Blocks -> [0 .. UNITS - 1 ->
                    [inum : Inodes, name : Names \cup {"", ".", "..", Junk}]]]
  /\ fs.i_head \in Seq(Inodes) /\ fs.b_head \in Seq(Blocks) /\ fs.bad \in BOOLEAN
  /\ fds \in [Procs -> [Slots -> {NULL} \cup [i_num : Inodes, pos : Nat]]]
  /\ cwd \in [Procs -> Inodes]

(* A block belongs to one file at one place, or to the free list once, and    *)
(* never to both: get_nth_b, the three loops that free a file's blocks, and   *)
(* make_free_lists agree on who has it.                                       *)
BlocksExclusive ==
  LET uses == AllUses
  IN  \A b \in Extra : Cardinality(UsesIn(uses, b)) + Cardinality(FreeAt(b)) <= 1

(* No block gets lost while the server runs: every block outside the inode    *)
(* table is in a file that somebody can reach, or free.                       *)
BlocksAccounted ==
  LET uses == AllUses
  IN  \A b \in Extra : UsesIn(uses, b) # {} \/ FreeAt(b) # {}

(* nlink of a file is the number of its names: handle_unlink frees the blocks *)
(* when nlink reaches 0 and at no other time.                                 *)
NlinkCountsNames ==
  LET entries == AllEntries
  IN  \A i \in Inodes : fs.inode[i].type = INODE_REGULAR =>
        fs.inode[i].nlink = Cardinality(LinksIn(entries, i))

(* The directories are a tree, whose edges the first two entries of each      *)
(* directory know: MkDir, RmDir and the reuse of inodes never leave an entry  *)
(* for a removed directory or a directory in two places.                      *)
DirsAreTree ==
  LET entries == AllEntries
      dirs == LiveDirs
  IN  /\ \A d \in dirs \ {ROOTINODE} :
           /\ Cardinality(LinksIn(entries, d)) = 1
           /\ \A e \in LinksIn(entries, d) : CellAt(fs, d, 1).inum = e[1]
      /\ LinksIn(entries, ROOTINODE) = {}
      /\ \A d \in dirs : CellAt(fs, d, 0).inum = d

(* No inode on the free list has a name or an open file, or is there twice.   *)
FreeInodesUnused ==
  /\ Cardinality(ToSet(fs.i_head)) = Len(fs.i_head)
  /\ ToSet(fs.i_head) \cap (InUse \cup {0}) = {}
  /\ \A p \in Procs : cwd[p] \notin ToSet(fs.i_head)

(* The search of get_dir_entry stops at the first entry with the name, with   *)
(* an inode or without: every file is found by its name all the same.         *)
EntriesFound ==
  \A d \in LiveDirs : \A k \in Entries(d) :
    Inum(fs, d, CellAt(fs, d, k).name) = CellAt(fs, d, k).inum

(* "." and ".." lead to the directory and to its parent.                      *)
DotsResolve ==
  \A d \in LiveDirs :
    /\ Found(fs, d, ".") /\ Inum(fs, d, ".") = d
    /\ Found(fs, d, "..") /\ Inum(fs, d, "..") = CellAt(fs, d, 1).inum

(* A file holds what was written to it and nothing else: a block that another *)
(* file had, or has, never shows through.                                     *)
OwnData ==
  \A i \in InUse : fs.inode[i].type = INODE_REGULAR =>
    \A k \in 0 .. fs.inode[i].size - 1 :
      LET b == NthBlock(fs, i, k \div UNITS)
      IN  b # 0 /\ fs.cell[b][k % UNITS] = [inum |-> i, name |-> Junk]

(* Sums of 32 bits do: whatever the offset, handle_seek answers what it would *)
(* with unbounded numbers.                                                    *)
SeeksExact ==
  \A f \in {fds[p][fd] : p \in Procs, fd \in Slots} \ {NULL}, offset \in Offsets,
     whence \in {"SEEK_SET", "SEEK_CUR", "SEEK_END"} :
    LET size == fs.inode[f.i_num].size
        to == offset + CASE whence = "SEEK_SET" -> 0
                         [] whence = "SEEK_CUR" -> f.pos
                         [] whence = "SEEK_END" -> size
    IN  SeekFile(fs, f.i_num, offset, whence, f.pos)
          = IF f.pos \in 0 .. size /\ to \in 0 .. size THEN to ELSE ERROR

(* What processes see under the promises is a tree of directories and files:  *)
(* inodes that are reused, entries that are left behind and free lists never  *)
(* show.  A removed directory has no size left.                               *)
EntryOf(m, i, name) ==
  LET cells == {CellAt(m, i, k) : k \in 2 .. m.inode[i].size - 1}
      here == {c.inum : c \in {x \in cells : x.name = name}} \ {0}
  IN  IF here = {} THEN NULL ELSE CHOOSE j \in here : TRUE

NoEntries == [name \in Names |-> NULL]

TreeOf(m) ==
  [entry |-> [i \in Inodes |-> IF IsDir(m, i) THEN [name \in Names |-> EntryOf(m, i, name)]
                               ELSE NoEntries],
   up    |-> [i \in Inodes |-> IF IsDir(m, i) /\ m.inode[i].size > 0
                               THEN CellAt(m, i, 1).inum ELSE NULL],
   size  |-> [i \in Inodes |-> IF m.inode[i].type = INODE_REGULAR
                               THEN m.inode[i].size ELSE NULL]]

Tree == INSTANCE YfsTree WITH tree <- TreeOf(fs)

ImplementsTree == Tree!Spec

(* The server stays within what C defines, and hands out no block of the      *)
(* inode table.                                                               *)
Defined == ~fs.bad
=============================================================================
