---------------------------- MODULE YfsRpcProofs ----------------------------
(* A theorem about YfsRpc, for every number of processes and every disk: to   *)
(* the processes each call is one step, whatever other requests come between  *)
(* Send, Receive, Reply and the return.                                       *)
(*                                                                             *)
(* Calls is an instance of all of Yfs, handlers included.  They work on the   *)
(* same file system, so that Calls!X and X are the same operator; the first   *)
(* lemmas say so.                                                             *)
EXTENDS YfsRpc, TLAPS

-----------------------------------------------------------------------------
(* The handlers of Yfs and their copies in Calls *)

(* Constants of the model, and the smallest and largest of a set.             *)
LEMMA SameConstants ==
  /\ Calls!ERROR = ERROR /\ Calls!ROOTINODE = ROOTINODE /\ Calls!Junk = Junk
  /\ Calls!Slots = Slots /\ Calls!MaxBlocks = MaxBlocks
  /\ Calls!TableBlocks = TableBlocks /\ Calls!Blocks = Blocks /\ Calls!Inodes = Inodes
  /\ Calls!EmptyCell = EmptyCell /\ Calls!HEADER = HEADER
  /\ \A S : Calls!Min(S) = Min(S) /\ Calls!Max(S) = Max(S)
BY DEF Calls!ERROR, ERROR, Calls!ROOTINODE, ROOTINODE, Calls!Junk, Junk, Calls!Slots, Slots,
       Calls!MaxBlocks, MaxBlocks, Calls!TableBlocks, TableBlocks, Calls!NumTable, NumTable,
       Calls!Blocks, Blocks, Calls!Inodes, Inodes, Calls!EmptyCell, EmptyCell,
       Calls!HEADER, HEADER, Calls!Min, Min, Calls!Max, Max

(* Sequences.                                                                 *)
LEMMA SameSequences ==
  ASSUME NEW s
  PROVE  /\ Calls!Front(s) = Front(s) /\ Calls!Last(s) = Last(s)
         /\ Calls!Reverse(s) = Reverse(s)
BY DEF Calls!Front, Front, Calls!Last, Last, Calls!Reverse, Reverse

(* The blocks of a file (yfs.c:1287-1335).                                    *)
LEMMA SameBlocks ==
  ASSUME NEW f, NEW i
  PROVE  /\ \A n : Calls!NthBlock(f, i, n) = NthBlock(f, i, n)
         /\ \A n : Calls!GrowBlock(f, i, n) = GrowBlock(f, i, n)
         /\ Calls!NumBlocks(f, i) = NumBlocks(f, i)
         /\ Calls!BlocksOf(f, i) = BlocksOf(f, i)
         /\ Calls!Clear(f, i) = Clear(f, i)
<1> USE DEF Calls!NthBlock, NthBlock, Calls!MaxBlocks, MaxBlocks, Calls!Pointer, Pointer
<1>1. ASSUME NEW n PROVE Calls!NthBlock(f, i, n) = NthBlock(f, i, n)
  OBVIOUS
<1>2. ASSUME NEW n PROVE Calls!GrowBlock(f, i, n) = GrowBlock(f, i, n)
  BY SameConstants
  DEF Calls!GrowBlock, GrowBlock, Calls!NextBlock, NextBlock, Calls!Rest, Rest
<1>3. Calls!NumBlocks(f, i) = NumBlocks(f, i)
  BY DEF Calls!NumBlocks, NumBlocks, Calls!Min, Min
<1>4. Calls!BlocksOf(f, i) = BlocksOf(f, i)
  BY DEF Calls!BlocksOf, BlocksOf, Calls!NumBlocks, NumBlocks, Calls!Min, Min
<1>5. Calls!Clear(f, i) = Clear(f, i)
  BY <1>4, SameSequences DEF Calls!Clear, Clear
<1> QED
  BY <1>1, <1>2, <1>3, <1>4, <1>5

(* The entries of a directory (yfs.c:1577-1700).                              *)
LEMMA SameEntries ==
  ASSUME NEW f, NEW i, NEW name
  PROVE  /\ Calls!IsDir(f, i) = IsDir(f, i)
         /\ Calls!Found(f, i, name) = Found(f, i, name)
         /\ Calls!Matching(f, i, name) = Matching(f, i, name)
         /\ \A k : Calls!CellAt(f, i, k) = CellAt(f, i, k)
         /\ Calls!EntryFor(f, i, name) = EntryFor(f, i, name)
<1>1. Calls!IsDir(f, i) = IsDir(f, i)
  BY DEF Calls!IsDir, IsDir, Calls!INODE_DIRECTORY, INODE_DIRECTORY
<1>2. ASSUME NEW k PROVE Calls!CellAt(f, i, k) = CellAt(f, i, k)
  BY SameBlocks, ZenonT(40) DEF Calls!CellAt, CellAt
<1>3. Calls!Places(f, i) = Places(f, i)
  BY SameBlocks, SameConstants, ZenonT(40) DEF Calls!Places, Places
<1>4. Calls!Matching(f, i, name) = Matching(f, i, name)
  BY <1>2, <1>3 DEF Calls!Matching, Matching
<1>5. Calls!Vacant(f, i) = Vacant(f, i)
  BY <1>2, <1>3 DEF Calls!Vacant, Vacant
<1>6. Calls!Found(f, i, name) = Found(f, i, name)
  BY <1>4 DEF Calls!Found, Found
<1>7. ASSUME NEW k PROVE Calls!At(f, i, k) = At(f, i, k)
  BY SameBlocks DEF Calls!At, At
<1>8. Calls!Append1(f, i) = Append1(f, i)
  BY SameBlocks DEF Calls!Append1, Append1
<1>9. Calls!EntryFor(f, i, name) = EntryFor(f, i, name)
  BY <1>4, <1>5, <1>6, <1>7, <1>8, SameConstants DEF Calls!EntryFor, EntryFor
<1> QED
  BY <1>1, <1>2, <1>4, <1>6, <1>9

(* The folds of get_path_i_num and handle_write, all the way down.            *)
LEMMA SameFolds ==
  /\ \A f, parts, i : Calls!PathInode(f, parts, i) = PathInode(f, parts, i)
  /\ \A f, i, pos, n, valid :
       Calls!WriteFile(f, i, pos, n, valid) = WriteFile(f, i, pos, n, valid)
<1> USE DEF Calls!FoldLeft, FoldLeft, Calls!MapThenFoldSet, MapThenFoldSet,
            Calls!ERROR, ERROR, Calls!Min, Min, Calls!Max, Max,
            Calls!MaxBlocks, MaxBlocks, Calls!Pointer, Pointer
<1>1. ASSUME NEW f, NEW parts, NEW i
      PROVE  Calls!PathInode(f, parts, i) = PathInode(f, parts, i)
  BY ZenonT(40) DEF Calls!PathInode, PathInode, Calls!IsDir, IsDir,
         Calls!INODE_DIRECTORY, INODE_DIRECTORY, Calls!Found, Found, Calls!Inum, Inum,
         Calls!Matching, Matching, Calls!CellAt, CellAt, Calls!Places, Places,
         Calls!NthBlock, NthBlock, Calls!NumBlocks, NumBlocks
<1>2. ASSUME NEW f, NEW i, NEW pos, NEW n, NEW valid
      PROVE  Calls!WriteFile(f, i, pos, n, valid) = WriteFile(f, i, pos, n, valid)
  BY DEF Calls!WriteFile, WriteFile, Calls!Fail, Fail, Calls!Junk, Junk,
         Calls!GrowBlock, GrowBlock, Calls!NextBlock, NextBlock, Calls!Rest, Rest,
         Calls!ChunkEnd, ChunkEnd, Calls!TableBlocks, TableBlocks, Calls!NumTable, NumTable
<1> QED
  BY <1>1, <1>2, SMTT(30)

(* Path names (yfs.c:1357-1391, 1706-1767).                                   *)
LEMMA SamePaths ==
  ASSUME NEW f, NEW path, NEW i
  PROVE  /\ Calls!Start(path, i) = Start(path, i)
         /\ Calls!Resolve(f, path, i) = Resolve(f, path, i)
         /\ Calls!SuperDir(f, path, i) = SuperDir(f, path, i)
         /\ Calls!FileName(path) = FileName(path)
<1>1. Calls!Parts(path) = Parts(path) /\ Calls!Start(path, i) = Start(path, i)
  BY SameConstants DEF Calls!Parts, Parts, Calls!Start, Start
<1> QED
  BY <1>1, SameFolds, SameConstants, SameSequences
  DEF Calls!Resolve, Resolve, Calls!SuperDir, SuperDir, Calls!FileName, FileName

(* The handlers.                                                              *)
LEMMA SameHandlers ==
  ASSUME NEW f, NEW path, NEW cur
  PROVE  /\ Calls!LookUp(f, path, cur) = LookUp(f, path, cur)
         /\ \A new : Calls!CreateFile(f, path, cur, new) = CreateFile(f, path, cur, new)
         /\ \A new : Calls!LinkFile(f, path, new, cur) = LinkFile(f, path, new, cur)
         /\ Calls!UnlinkFile(f, path, cur) = UnlinkFile(f, path, cur)
         /\ Calls!MakeDir(f, path, cur) = MakeDir(f, path, cur)
         /\ Calls!RemoveDir(f, path, cur) = RemoveDir(f, path, cur)
<1>1. \A g : Calls!Fail(g) = Fail(g) /\ Calls!Undefined(g) = Undefined(g)
  BY SameConstants DEF Calls!Fail, Fail, Calls!Undefined, Undefined
<1>2. \A e, i, name : Calls!SetEntry(e, i, name) = SetEntry(e, i, name)
  BY DEF Calls!SetEntry, SetEntry
<1>3. \A g : /\ Calls!NextInode(g) = NextInode(g) /\ Calls!NextBlock(g) = NextBlock(g)
             /\ Calls!Rest(g) = Rest(g)
  BY DEF Calls!NextInode, NextInode, Calls!NextBlock, NextBlock, Calls!Rest, Rest
<1>4. \A g : Calls!MakeFile(g) = MakeFile(g)
  BY <1>3 DEF Calls!MakeFile, MakeFile, Calls!INODE_REGULAR, INODE_REGULAR
<1>5. Calls!LookUp(f, path, cur) = LookUp(f, path, cur)
  BY SamePaths, SameConstants DEF Calls!LookUp, LookUp
<1>6. \A g, p, c, new : Calls!CreateFile(g, p, c, new) = CreateFile(g, p, c, new)
  <2> TAKE g, p, c, new
  <2> DEFINE d == SuperDir(g, p, c)
             e == EntryFor(g, d, FileName(p))
             i == e.fs.cell[e.b][e.c].inum
             j == IF new = ERROR THEN NextInode(e.fs) ELSE new
             named == SetEntry(e, j, FileName(p))
  <2>1. Calls!SuperDir(g, p, c) = d /\ Calls!FileName(p) = FileName(p)
    BY SamePaths
  <2>2. Calls!EntryFor(g, d, FileName(p)) = e /\ Calls!IsDir(g, d) = IsDir(g, d)
    BY SameEntries
  <2>3. /\ Calls!NextInode(e.fs) = NextInode(e.fs)
        /\ Calls!SetEntry(e, j, FileName(p)) = named
        /\ Calls!MakeFile(named) = MakeFile(named)
    BY <1>2, <1>3, <1>4, SMTT(30)
  <2>4. /\ Calls!Clear(e.fs, i) = Clear(e.fs, i) /\ Calls!ERROR = ERROR
        /\ Calls!Fail(g) = Fail(g) /\ Calls!Fail(e.fs) = Fail(e.fs)
    BY <1>1, SameBlocks, SameConstants
  <2> QED
    BY <2>1, <2>2, <2>3, <2>4, ZenonT(60) DEF Calls!CreateFile, CreateFile
<1>7. \A new : Calls!LinkFile(f, path, new, cur) = LinkFile(f, path, new, cur)
  BY <1>1, <1>6, SamePaths, SameEntries, SameConstants, ZenonT(40) DEF Calls!LinkFile, LinkFile
<1>8. Calls!UnlinkFile(f, path, cur) = UnlinkFile(f, path, cur)
  <2> DEFINE d == SuperDir(f, path, cur)
             name == FileName(path)
             k == Min(Matching(f, d, name))
             i == CellAt(f, d, k).inum
             less == [f EXCEPT !.inode[i].nlink = @ - 1]
  <2>1. Calls!SuperDir(f, path, cur) = d /\ Calls!FileName(path) = name
    BY SamePaths
  <2>2. /\ Calls!Min(Calls!Matching(f, d, name)) = k
        /\ Calls!CellAt(f, d, k) = CellAt(f, d, k)
        /\ Calls!IsDir(f, d) = IsDir(f, d)
        /\ Calls!Found(f, d, name) = Found(f, d, name)
    BY SameEntries, SameConstants
  <2>3. /\ Calls!Clear(less, i) = Clear(less, i)
        /\ Calls!NthBlock(f, d, k \div UNITS) = NthBlock(f, d, k \div UNITS)
    BY SameBlocks, ZenonT(40)
  <2>4. Calls!ERROR = ERROR /\ Calls!Fail(f) = Fail(f) /\ Calls!Undefined(f) = Undefined(f)
    BY <1>1, SameConstants
  <2> QED
    BY <2>1, <2>2, <2>3, <2>4, ZenonT(60) DEF Calls!UnlinkFile, UnlinkFile
<1>9. \A name : Calls!DotOver(name) = DotOver(name) /\ Calls!DotDotOver(name) = DotDotOver(name)
  BY SameConstants DEF Calls!DotOver, DotOver, Calls!DotDotOver, DotDotOver
<1>10. Calls!MakeDir(f, path, cur) = MakeDir(f, path, cur)
  <2> DEFINE d == SuperDir(f, path, cur)
             name == FileName(path)
             e == EntryFor(f, d, name)
             i == NextInode(e.fs)
             b == NextBlock(e.fs)
             named == SetEntry(e, i, name)
  <2>1. Calls!SuperDir(f, path, cur) = d /\ Calls!FileName(path) = name
    BY SamePaths
  <2>2. Calls!EntryFor(f, d, name) = e
    BY SameEntries
  <2>3. /\ Calls!NextInode(e.fs) = i /\ Calls!NextBlock(e.fs) = b
        /\ Calls!Rest(named.i_head) = Rest(named.i_head)
        /\ Calls!Rest(named.b_head) = Rest(named.b_head)
        /\ Calls!SetEntry(e, i, name) = named
    BY <1>2, <1>3
  <2>4. /\ Calls!ERROR = ERROR /\ Calls!TableBlocks = TableBlocks
        /\ Calls!INODE_DIRECTORY = INODE_DIRECTORY
        /\ Calls!Fail(e.fs) = Fail(e.fs) /\ Calls!Undefined(f) = Undefined(f)
    BY <1>1, SameConstants DEF Calls!INODE_DIRECTORY, INODE_DIRECTORY
  <2> HIDE DEF d, name, e, i, b, named
  <2>5. MakeDir(f, path, cur) =
          IF d = ERROR THEN Undefined(f)
          ELSE IF e.fs.cell[e.b][e.c].inum # 0 THEN Fail(e.fs)
          ELSE [fs |-> [named EXCEPT
                          !.i_head = Rest(@),
                          !.b_head = Rest(@),
                          !.inode[i] = [@ EXCEPT !.type = INODE_DIRECTORY, !.size = 2,
                                                 !.nlink = 1, !.direct[0] = b],
                          !.cell[b] = DirRow(@, i, d),
                          !.bad = @ \/ b \in TableBlocks \cup {0}],
                ret |-> 0]
    BY SMTT(30) DEF MakeDir, d, name, e, i, b, named
  <2> QED
    BY <2>1, <2>2, <2>3, <2>4, <2>5, <1>9, ZenonT(60) DEF Calls!MakeDir, Calls!DirRow, DirRow
<1>11. Calls!RemoveDir(f, path, cur) = RemoveDir(f, path, cur)
  BY <1>1, SamePaths, SameEntries, SameBlocks, SameConstants, ZenonT(40) DEF Calls!RemoveDir, RemoveDir
<1> QED
  BY <1>5, <1>6, <1>7, <1>8, <1>10, <1>11, SMTT(30)

(* Reads and seeks.                                                           *)
LEMMA SameData ==
  ASSUME NEW f, NEW i, NEW pos, NEW n
  PROVE  /\ Calls!ReadFile(f, i, pos, n) = ReadFile(f, i, pos, n)
         /\ \A whence : Calls!SeekFile(f, i, n, whence, pos) = SeekFile(f, i, n, whence, pos)
<1>1. Calls!ReadFile(f, i, pos, n) = ReadFile(f, i, pos, n)
  BY SameBlocks, SameConstants DEF Calls!ReadFile, ReadFile
<1>2. \A whence : Calls!SeekFile(f, i, n, whence, pos) = SeekFile(f, i, n, whence, pos)
  BY SameConstants DEF Calls!SeekFile, SeekFile, Calls!Wrap, Wrap
<1> QED
  BY <1>1, <1>2

(* The disk of mkyfs and what the server makes of it.                         *)
LEMMA SameBoot == Calls!Boot(Calls!MkYfs) = Boot(MkYfs)
BY DEF Calls!Boot, Boot, Calls!MkYfs, MkYfs, Calls!Blank, Blank, Calls!EmptyCell, EmptyCell,
  Calls!Scanned, Scanned, Calls!Pointers, Pointers, Calls!Descending, Descending,
  Calls!Inodes, Inodes, Calls!Blocks, Blocks, Calls!NumTable, NumTable,
  Calls!HEADER, HEADER, Calls!ROOTINODE, ROOTINODE, Calls!INODE_DIRECTORY, INODE_DIRECTORY,
  Calls!INODE_FREE, INODE_FREE, Calls!MaxBlocks, MaxBlocks, Calls!Pointer, Pointer, Calls!Min, Min

-----------------------------------------------------------------------------
(* The invariant *)

(* What processes have sent is still true of them when it is served.          *)
AsSent(p) ==
  LET m == request[p].call
  IN  /\ m \in Requests
      /\ request[p].cur = cwd[p]
      /\ Sendable(p, m)
      /\ OnFile(m) => request[p].file = fds[p][m.fd]

Table(f) == f = [p \in Procs |-> f[p]]

(* The server holds the request of a process that waits for its answer.        *)
RpcInv ==
  /\ Table(fds) /\ Table(cwd) /\ Table(request) /\ Table(answer)
  /\ at \in {"receive", "handle", "reply", "exit"}
  /\ at \in {"handle", "reply"} => client \in Procs /\ Waiting(client)
  /\ \A p \in Procs : request[p] = NULL => answer[p] = << >>
  /\ \A p \in Procs : request[p] # NULL => AsSent(p)

(* It holds at the start: nobody has asked for anything.                      *)
LEMMA RpcInvInit == RpcInit => RpcInv
BY DEF RpcInit, Init, RpcInv, Table, NoFiles, AtRoot

(* Every step keeps it: a process that waits does nothing else, so that its   *)
(* files and its directory stay what they were when it asked.                 *)
LEMMA RpcInvStep == RpcInv /\ [RpcNext]_all => RpcInv'
<1> SUFFICES ASSUME RpcInv, [RpcNext]_all PROVE RpcInv'
  OBVIOUS
<1> USE DEF Loop, server
<1>1. ASSUME NEW p \in Procs, NEW m \in Requests, Send(p, m) PROVE RpcInv'
  <2>1. /\ request[p] = NULL /\ answer[p] = << >>
        /\ request' = [request EXCEPT ![p] =
             [call |-> m, cur |-> cwd[p], file |-> IF OnFile(m) THEN fds[p][m.fd] ELSE NULL]]
        /\ UNCHANGED <<fds, cwd, answer, at, client, ret>>
        /\ Sendable(p, m)
    BY <1>1 DEF Send, RpcInv
  <2>2. AsSent(p)'
    BY <2>1 DEF AsSent, Sendable, RpcInv, Table
  <2>3. ASSUME NEW q \in Procs, q # p, request'[q] # NULL PROVE AsSent(q)'
    BY <2>1, <2>3 DEF AsSent, Sendable, RpcInv
  <2>4. at \in {"handle", "reply"} => Waiting(client)'
    BY <2>1 DEF RpcInv, Waiting
  <2> QED
    BY <2>1, <2>2, <2>3, <2>4 DEF RpcInv, Table
<1>2. ASSUME NEW p \in Procs, NEW fd \in Slots, CloseFile(p, fd) PROVE RpcInv'
  <2>1. /\ request[p] = NULL
        /\ fds' = [fds EXCEPT ![p][fd] = NULL]
        /\ UNCHANGED <<cwd, request, answer, at, client, ret>>
    BY <1>2 DEF CloseFile, Close, rpc
  <2>2. ASSUME NEW q \in Procs, request'[q] # NULL PROVE AsSent(q)'
    BY <2>1, <2>2 DEF AsSent, Sendable, RpcInv
  <2> QED
    BY <2>1, <2>2, ZenonT(40) DEF RpcInv, Table, Waiting
<1>3. ASSUME NEW p \in Procs, Return(p) PROVE RpcInv'
  <2>1. /\ answer[p] # << >> /\ request'[p] = NULL /\ answer'[p] = << >>
        /\ \A q \in Procs \ {p} : /\ request'[q] = request[q] /\ answer'[q] = answer[q]
                                  /\ fds'[q] = fds[q] /\ cwd'[q] = cwd[q]
        /\ UNCHANGED <<at, client, ret>>
    BY <1>3 DEF Return, RpcInv, Table
  <2>2. Table(fds)' /\ Table(cwd)' /\ Table(request)' /\ Table(answer)'
    BY <1>3, ZenonT(40) DEF Return, RpcInv, Table
  <2>3. ASSUME NEW q \in Procs, request'[q] # NULL PROVE AsSent(q)'
    BY <2>1, <2>3 DEF AsSent, Sendable, RpcInv
  <2>4. at \in {"handle", "reply"} => client # p /\ Waiting(client)'
    BY <2>1 DEF RpcInv, Waiting
  <2> QED
    BY <2>1, <2>2, <2>3, <2>4 DEF RpcInv
<1>4. ASSUME NEW p \in Procs, Receive(p) PROVE RpcInv'
  <2>1. /\ at' = "handle" /\ client' = p /\ Waiting(p)
        /\ UNCHANGED <<fds, cwd, request, answer>>
    BY <1>4 DEF Receive
  <2> QED
    BY <2>1 DEF RpcInv, Table, Waiting, AsSent, Sendable
<1>5. CASE Handle
  <2>1. /\ at' = "reply" /\ client' = client /\ at = "handle"
        /\ UNCHANGED <<fds, cwd, request, answer>>
    BY <1>5 DEF Handle
  <2> QED
    BY <2>1 DEF RpcInv, Table, Waiting, AsSent, Sendable
<1>6. CASE Reply
  <2>1. /\ at' = "receive" /\ at = "reply"
        /\ answer' = [answer EXCEPT ![client] = <<ret>>]
        /\ UNCHANGED <<fds, cwd, request>>
    BY <1>6 DEF Reply
  <2>2. client \in Procs /\ request[client] # NULL
    BY <2>1 DEF RpcInv, Waiting
  <2> QED
    BY <2>1, <2>2 DEF RpcInv, Table, AsSent, Sendable
<1>7. CASE Exit
  <2>1. at' = "exit" /\ UNCHANGED <<fds, cwd, request, answer>>
    BY <1>7 DEF Exit
  <2> QED
    BY <2>1 DEF RpcInv, Table, AsSent, Sendable
<1>8. ASSUME NEW p \in Procs, SendFails(p) PROVE RpcInv'
  <2>1. /\ at = "exit" /\ request[p] # NULL
        /\ answer' = [answer EXCEPT ![p] = <<ERROR>>]
        /\ UNCHANGED <<fds, cwd, request, at, client, ret>>
    BY <1>8 DEF SendFails, Waiting
  <2> QED
    BY <2>1 DEF RpcInv, Table, AsSent, Sendable
<1>9. CASE UNCHANGED all
  <2>1. UNCHANGED <<fds, cwd, request, answer, at, client, ret>>
    BY <1>9 DEF all, rpc
  <2> QED
    BY <2>1 DEF RpcInv, Table, Waiting, AsSent, Sendable
<1> QED
  BY <1>1, <1>2, <1>3, <1>4, <1>5, <1>6, <1>7, <1>8, <1>9 DEF RpcNext

(* So whatever the server serves is what its client has at that moment.       *)
LEMMA RpcInvariant == RpcSpec => []RpcInv
BY RpcInvInit, RpcInvStep, PTL DEF RpcSpec

-----------------------------------------------------------------------------
(* What Calls sees of the processes *)

Files == [p \in Procs |-> IF Result[p] = << >> THEN fds[p]
                          ELSE FilesAfter(request[p].call, Result[p][1], fds[p])]
Cwds == [p \in Procs |-> IF Result[p] = << >> THEN cwd[p]
                         ELSE CwdAfter(request[p].call, Result[p][1], cwd[p])]

Step == UNCHANGED Calls!vars \/ Calls!Next

(* Each call of Yfs is a step of it.                                          *)
LEMMA CallSteps ==
  ASSUME NEW p \in Procs
  PROVE  /\ \A path \in Paths : Calls!Open(p, path) => Step
         /\ \A path \in Paths : Calls!Create(p, path) => Step
         /\ \A path \in Paths : Calls!Unlink(p, path) => Step
         /\ \A path \in Paths : Calls!MkDir(p, path) => Step
         /\ \A path \in Paths : Calls!RmDir(p, path) => Step
         /\ \A path \in Paths : Calls!ChDir(p, path) => Step
         /\ \A old, new \in Paths : Calls!Link(p, old, new) => Step
         /\ \A fd \in Slots : Calls!Close(p, fd) => Step
         /\ \A fd \in Slots, n \in Sizes : Calls!Read(p, fd, n) => Step
         /\ \A fd \in Slots, n \in Sizes : Calls!Write(p, fd, n) => Step
         /\ \A fd \in Slots, offset \in Offsets, whence \in {"SEEK_SET", "SEEK_CUR", "SEEK_END"} :
              Calls!Seek(p, fd, offset, whence) => Step
<1>1. Calls!Slots = Slots
  BY SameConstants
<1> QED
  BY <1>1, Zenon DEF Step, Calls!Next

-----------------------------------------------------------------------------
(* Each call of Yfs, as Calls has it, on the same file system *)

(* The open files after an Open or Create that found inode i.                 *)
Opened(p, i) ==
  LET free == {fd \in Slots : Files[p][fd] = NULL}
  IN  IF i = ERROR \/ free = {} THEN Files
      ELSE [Files EXCEPT ![p][Min(free)] = [i_num |-> i, pos |-> 0]]

(* Open: the file goes into a free slot, if there is one.                     *)
LEMMA OpenCall ==
  ASSUME NEW p, NEW path, Up, fs' = fs, Cwds' = Cwds,
         Files' = Opened(p, LookUp(fs, path, Cwds[p]))
  PROVE  Calls!Open(p, path)
<1>1. Calls!LookUp(fs, path, Cwds[p]) = LookUp(fs, path, Cwds[p])
  BY SameHandlers
<1>2. Calls!OpenAs(p, Calls!LookUp(fs, path, Cwds[p]))
  BY <1>1, SameConstants, ZenonT(40) DEF Calls!OpenAs, Files, Opened
<1>3. UNCHANGED <<fs, Cwds>>
  OBVIOUS
<1>4. Calls!Up
  BY DEF Calls!Up, Up
<1> QED
  BY <1>2, <1>3, <1>4 DEF Calls!Open, Cwds

(* Create: no promise of the processes stands in its way.                     *)
LEMMA CreateCall ==
  ASSUME NEW p, NEW path, Promises \subseteq {"buffer"}, Up, Cwds' = Cwds,
         fs' = CreateFile(fs, path, Cwds[p], ERROR).fs,
         Files' = Opened(p, CreateFile(fs, path, Cwds[p], ERROR).ret)
  PROVE  Calls!Create(p, path)
<1> DEFINE r == Calls!CreateFile(fs, path, Cwds[p], Calls!ERROR)
<1>1. r = CreateFile(fs, path, Cwds[p], ERROR)
  BY SameHandlers, SameConstants, ZenonT(40)
<1>2. /\ Calls!Plain(path) /\ \A d : Calls!HasParent(d) /\ Calls!Short(d, path)
      /\ Calls!Room(1) /\ Calls!InodeFor(p, path)
      /\ Calls!Kept("kind", ~Calls!IsDir(fs, Calls!Target(p, path)))
      /\ Calls!AtStart(Calls!Target(p, path))
  BY DEF Calls!Plain, Calls!HasParent, Calls!Short, Calls!Room, Calls!InodeFor, Calls!AtStart, Calls!Kept
<1>3. Calls!OpenAs(p, r.ret)
  BY <1>1, SameConstants, ZenonT(40) DEF Calls!OpenAs, Files, Opened
<1>4. Calls!Up
  BY DEF Calls!Up, Up
<1>5. fs' = r.fs
  BY <1>1
<1> QED
  BY <1>2, <1>3, <1>4, <1>5 DEF Calls!Create, Cwds

(* Unlink, MkDir, RmDir and Link: they change nothing in the processes.       *)
LEMMA NamesCall ==
  ASSUME NEW p, NEW path, Promises \subseteq {"buffer"}, Up, Files' = Files, Cwds' = Cwds
  PROVE  /\ fs' = UnlinkFile(fs, path, Cwds[p]).fs => Calls!Unlink(p, path)
         /\ fs' = MakeDir(fs, path, Cwds[p]).fs => Calls!MkDir(p, path)
         /\ fs' = RemoveDir(fs, path, Cwds[p]).fs => Calls!RmDir(p, path)
         /\ \A new : fs' = LinkFile(fs, path, new, Cwds[p]).fs => Calls!Link(p, path, new)
<1>1. /\ Calls!UnlinkFile(fs, path, Cwds[p]) = UnlinkFile(fs, path, Cwds[p])
      /\ Calls!MakeDir(fs, path, Cwds[p]) = MakeDir(fs, path, Cwds[p])
      /\ Calls!RemoveDir(fs, path, Cwds[p]) = RemoveDir(fs, path, Cwds[p])
      /\ \A new : Calls!LinkFile(fs, path, new, Cwds[p]) = LinkFile(fs, path, new, Cwds[p])
  BY SameHandlers, ZenonT(40)
<1>2. /\ \A q : Calls!Plain(q) /\ Calls!Straight(q) /\ Calls!Exists(p, q)
      /\ \A d : Calls!HasParent(d)
      /\ \A d, q : Calls!Short(d, q)
      /\ \A n : Calls!Room(n)
      /\ Calls!InodeFor(p, path)
      /\ \A c : Calls!Kept("kind", c)
      /\ \A i : Calls!AtStart(i) /\ Calls!Unused(i)
  BY DEF Calls!Plain, Calls!Straight, Calls!HasParent, Calls!Short, Calls!Exists, Calls!Room,
         Calls!InodeFor, Calls!AtStart, Calls!Unused, Calls!Kept
<1>a. Calls!Up /\ UNCHANGED <<Files, Cwds>>
  BY DEF Calls!Up, Up
<1>3. fs' = UnlinkFile(fs, path, Cwds[p]).fs => Calls!Unlink(p, path)
  BY <1>1, <1>2, <1>a DEF Calls!Unlink, Cwds, Files
<1>4. fs' = MakeDir(fs, path, Cwds[p]).fs => Calls!MkDir(p, path)
  BY <1>1, <1>2, <1>a, SMTT(30) DEF Calls!MkDir, Cwds, Files
<1>5. fs' = RemoveDir(fs, path, Cwds[p]).fs => Calls!RmDir(p, path)
  BY <1>1, <1>2, <1>a, SMTT(30) DEF Calls!RmDir, Cwds, Files
<1>6. ASSUME NEW new, fs' = LinkFile(fs, path, new, Cwds[p]).fs PROVE Calls!Link(p, path, new)
  BY <1>1, <1>2, <1>6, <1>a DEF Calls!Link, Cwds, Files
<1> QED
  BY <1>3, <1>4, <1>5, <1>6

(* ChDir: the current directory moves unless there is none of that name.      *)
LEMMA ChDirCall ==
  ASSUME NEW p, NEW path, Up, fs' = fs, Files' = Files,
         Cwds' = IF LookUp(fs, path, Cwds[p]) = ERROR THEN Cwds
                 ELSE [Cwds EXCEPT ![p] = LookUp(fs, path, Cwds[p])]
  PROVE  Calls!ChDir(p, path)
<1>1. Calls!LookUp(fs, path, Cwds[p]) = LookUp(fs, path, Cwds[p])
  BY SameHandlers
<1>2. Cwds' = IF Calls!LookUp(fs, path, Cwds[p]) = Calls!ERROR THEN Cwds
              ELSE [Cwds EXCEPT ![p] = Calls!LookUp(fs, path, Cwds[p])]
  BY <1>1, SameConstants
<1>3. UNCHANGED <<fs, Files>>
  OBVIOUS
<1>4. Calls!Up
  BY DEF Calls!Up, Up
<1> QED
  BY <1>2, <1>3, <1>4 DEF Calls!ChDir, Cwds, Files

(* Read and Write: the position moves by what the answer n says.              *)
LEMMA FileCall ==
  ASSUME NEW p, NEW fd, Promises \subseteq {"buffer"}, Up, Cwds' = Cwds,
         Files[p][fd] # NULL,
         NEW n,
         Files' = IF n = ERROR THEN Files ELSE [Files EXCEPT ![p][fd].pos = @ + n]
  PROVE  /\ \A size : /\ fs' = fs
                      /\ LET bytes == ReadFile(fs, Files[p][fd].i_num, Files[p][fd].pos, size)
                         IN  n = bytes \/ (Kept("buffer", FALSE) /\ bytes > 0 /\ n = ERROR)
                      => Calls!Read(p, fd, size)
         /\ \A size : \A valid \in 0 .. size :
              LET r == WriteFile(fs, Files[p][fd].i_num, Files[p][fd].pos, size, valid)
              IN  Kept("buffer", valid = size) /\ fs' = r.fs /\ n = r.ret
                      => Calls!Write(p, fd, size)
<1> DEFINE i == Files[p][fd].i_num
           pos == Files[p][fd].pos
<1>2. \A size : Calls!ReadFile(fs, i, pos, size) = ReadFile(fs, i, pos, size)
  BY SameData
<1>3. \A size, valid : Calls!WriteFile(fs, i, pos, size, valid) = WriteFile(fs, i, pos, size, valid)
  BY SameFolds
<1>4. /\ \A c : Calls!Kept("kind", c) /\ Calls!Kept("direct", c)
      /\ \A k : Calls!Room(k)
      /\ \A c : Calls!Kept("buffer", c) = Kept("buffer", c)
  BY DEF Calls!Room, Calls!Kept, Kept
<1>a. Calls!Up /\ UNCHANGED Cwds
  BY SMTT(30) DEF Calls!Up, Up
<1>5. ASSUME NEW size, fs' = fs, n = ReadFile(fs, i, pos, size)
                \/ (Kept("buffer", FALSE) /\ ReadFile(fs, i, pos, size) > 0 /\ n = ERROR)
      PROVE  Calls!Read(p, fd, size)
  <2> DEFINE bytes == Calls!ReadFile(fs, i, pos, size)
  <2>1. \/ Calls!Advance(p, fd, bytes)
        \/ Calls!Kept("buffer", FALSE) /\ bytes > 0 /\ Calls!Advance(p, fd, Calls!ERROR)
    <3>1. CASE n = bytes
      BY <3>1, SameConstants DEF Calls!Advance, Files
    <3>2. CASE Kept("buffer", FALSE) /\ bytes > 0 /\ n = ERROR
      BY <3>2, SameConstants DEF Calls!Advance, Calls!Kept, Kept, Files
    <3> QED
      BY <3>1, <3>2, <1>2, <1>5
  <2>2. UNCHANGED <<fs, Cwds>>
    BY <1>5, SMTT(30)
  <2> QED
    BY <2>1, <2>2, <1>a DEF Calls!Read, Cwds, Files
<1>6. ASSUME NEW size, NEW valid \in 0 .. size, Kept("buffer", valid = size),
             fs' = WriteFile(fs, i, pos, size, valid).fs, n = WriteFile(fs, i, pos, size, valid).ret
      PROVE  Calls!Write(p, fd, size)
  <2> DEFINE r(v) == Calls!WriteFile(fs, i, pos, size, v)
  <2>1. /\ "buffer" \in Promises => valid = size
        /\ Calls!Room(Calls!Missing(i, pos, size))
        /\ "kind" \notin Promises /\ "direct" \notin Promises
        /\ fs' = r(valid).fs
        /\ Files' = IF r(valid).ret = Calls!ERROR THEN Files
                    ELSE [Files EXCEPT ![p][fd].pos = @ + r(valid).ret]
    BY <1>3, <1>4, <1>6, SameConstants, ZenonT(40) DEF Kept
  <2> HIDE DEF r
  <2>2. \E v \in 0 .. size :
          /\ "buffer" \in Promises => v = size
          /\ Calls!Room(Calls!Missing(i, pos, size))
          /\ "kind" \notin Promises /\ "direct" \notin Promises
          /\ fs' = r(v).fs
          /\ Files' = IF r(v).ret = Calls!ERROR THEN Files
                    ELSE [Files EXCEPT ![p][fd].pos = @ + r(v).ret]
    BY <2>1, SMTT(30)
  <2> USE DEF r
  <2> QED
    BY <2>2, <1>a DEF Calls!Write, Calls!Advance, Calls!Kept, Cwds, Files
<1> QED
  BY <1>5, <1>6, ZenonT(40)

(* Seek: the answer is the new position.                                      *)
LEMMA SeekCall ==
  ASSUME NEW p, NEW fd, Up, fs' = fs, Cwds' = Cwds,
         Files[p][fd] # NULL, Files[p][fd].i_num > 0,
         NEW offset, NEW whence,
         Files' = LET to == SeekFile(fs, Files[p][fd].i_num, offset, whence, Files[p][fd].pos)
                  IN  IF to = ERROR THEN Files ELSE [Files EXCEPT ![p][fd].pos = to]
  PROVE  Calls!Seek(p, fd, offset, whence)
<1> DEFINE to == Calls!SeekFile(fs, Files[p][fd].i_num, offset, whence, Files[p][fd].pos)
<1>1. Files' = IF to = Calls!ERROR THEN Files ELSE [Files EXCEPT ![p][fd].pos = to]
  BY SameData, SameConstants, ZenonT(40)
<1>2. Calls!Up /\ UNCHANGED <<fs, Cwds>>
  BY DEF Calls!Up, Up
<1> QED
  BY <1>1, <1>2 DEF Calls!Seek, Cwds, Files
-----------------------------------------------------------------------------
(* The steps of YfsRpc *)

(* What an answer does to the open files.                                     *)
LEMMA AfterAnswer ==
  ASSUME NEW p \in Procs, NEW m, NEW n,
         Files' = [Files EXCEPT ![p] = FilesAfter(m, n, Files[p])]
  PROVE  /\ m.op \in {"OPEN", "CREATE"} => Files' = Opened(p, n)
         /\ m.op \in {"READ", "WRITE"} =>
              Files' = IF n = ERROR THEN Files ELSE [Files EXCEPT ![p][m.fd].pos = @ + n]
         /\ m.op = "SEEK" =>
              Files' = IF n = ERROR THEN Files ELSE [Files EXCEPT ![p][m.fd].pos = n]
         /\ m.op \notin {"OPEN", "CREATE", "READ", "WRITE", "SEEK"} => Files' = Files
<1> DEFINE free == {fd \in Slots : Files[p][fd] = NULL}
<1>1. n = ERROR => FilesAfter(m, n, Files[p]) = Files[p]
  BY DEF FilesAfter
<1>2. [Files EXCEPT ![p] = Files[p]] = Files
  BY ZenonT(40) DEF Files
<1>3. ASSUME m.op \in {"OPEN", "CREATE"} PROVE Files' = Opened(p, n)
  <2>1. FilesAfter(m, n, Files[p]) =
          IF n = ERROR \/ free = {} THEN Files[p]
          ELSE [Files[p] EXCEPT ![Min(free)] = [i_num |-> n, pos |-> 0]]
    BY <1>3 DEF FilesAfter
  <2>2. CASE n = ERROR \/ free = {}
    BY <2>1, <2>2, <1>2, ZenonT(40) DEF Opened
  <2>3. CASE ~(n = ERROR \/ free = {})
    BY <2>1, <2>3 DEF Opened
  <2> QED
    BY <2>2, <2>3
<1>4. ASSUME m.op \in {"READ", "WRITE"}
      PROVE  Files' = IF n = ERROR THEN Files ELSE [Files EXCEPT ![p][m.fd].pos = @ + n]
  <2>1. n # ERROR => FilesAfter(m, n, Files[p]) = [Files[p] EXCEPT ![m.fd].pos = @ + n]
    BY <1>4 DEF FilesAfter
  <2> QED
    BY <2>1, <1>1, <1>2, ZenonT(40)
<1>5. ASSUME m.op = "SEEK"
      PROVE  Files' = IF n = ERROR THEN Files ELSE [Files EXCEPT ![p][m.fd].pos = n]
  <2>1. n # ERROR => FilesAfter(m, n, Files[p]) = [Files[p] EXCEPT ![m.fd].pos = n]
    BY <1>5 DEF FilesAfter
  <2> QED
    BY <2>1, <1>1, <1>2, ZenonT(40)
<1>6. ASSUME m.op \notin {"OPEN", "CREATE", "READ", "WRITE", "SEEK"} PROVE Files' = Files
  <2>1. FilesAfter(m, n, Files[p]) = Files[p]
    BY <1>6 DEF FilesAfter
  <2> QED
    BY <2>1, <1>2
<1> QED
  BY <1>3, <1>4, <1>5, <1>6

(* A handler runs: this is the moment at which the call takes effect.         *)
LEMMA HandleStep ==
  ASSUME RpcInv, Promises \subseteq {"buffer"}, Handle
  PROVE  Step
<1>1. PICK p \in Procs, m \in Requests : p = client /\ m = request[p].call
  BY DEF RpcInv, Handle, AsSent, Waiting
<1>2. /\ Waiting(p) /\ at = "handle" /\ request[p].cur = cwd[p] /\ Sendable(p, m)
      /\ OnFile(m) => request[p].file = fds[p][m.fd]
  BY <1>1 DEF RpcInv, Handle, AsSent, Waiting
<1>3. UNCHANGED <<fds, cwd, request, answer>> /\ m.op # "SHUTDOWN" /\ Up
  BY <1>1 DEF Handle
<1>4. PICK r : /\ r \in Results(request[p])
               /\ fs' = r.fs /\ at' = "reply" /\ client' = p /\ ret' = r.ret
  BY <1>1 DEF Handle, Loop
<1>5. Files[p] = fds[p] /\ Cwds[p] = cwd[p]
  BY <1>1, <1>2 DEF Files, Cwds, Result, Waiting
<1>6. /\ Files' = [Files EXCEPT ![p] = FilesAfter(m, r.ret, Files[p])]
      /\ Cwds' = [Cwds EXCEPT ![p] = CwdAfter(m, r.ret, Cwds[p])]
  <2>1. Result' = [Result EXCEPT ![p] = <<r.ret>>] /\ Result[p] = << >>
    BY <1>1, <1>2, <1>3, <1>4, ZenonT(40) DEF Result, Waiting
  <2>2. /\ Files' = [Files EXCEPT ![p] = FilesAfter(m, r.ret, fds[p])]
        /\ Cwds' = [Cwds EXCEPT ![p] = CwdAfter(m, r.ret, cwd[p])]
    <3>1. Result'[p] = <<r.ret>> /\ \A x \in Procs \ {p} : Result'[x] = Result[x]
      BY <2>1, ZenonT(40) DEF Result
    <3>2. Files'[p] = FilesAfter(m, r.ret, fds[p]) /\ Cwds'[p] = CwdAfter(m, r.ret, cwd[p])
      BY <3>1, <1>1, <1>3 DEF Files, Cwds
    <3>3. ASSUME NEW x \in Procs \ {p} PROVE Files'[x] = Files[x] /\ Cwds'[x] = Cwds[x]
      BY <3>1, <1>3 DEF Files, Cwds
    <3> QED
      BY <3>2, <3>3, ZenonT(40) DEF Files, Cwds
  <2> QED
    BY <2>2, <1>5
<1>7. /\ OnFile(m) => /\ request[p].file = Files[p][m.fd] /\ Files[p][m.fd] # NULL
                      /\ m.op = "SEEK" => Files[p][m.fd].i_num > 0
      /\ request[p].cur = Cwds[p] /\ request[p].call = m
  BY <1>1, <1>2, <1>5 DEF Sendable
<1>c. m.op # "CHDIR" => Cwds' = Cwds
  <2>1. Cwds = [x \in Procs |-> Cwds[x]]
    BY DEF Cwds
  <2>2. m.op # "CHDIR" => CwdAfter(m, r.ret, Cwds[p]) = Cwds[p]
    BY DEF CwdAfter
  <2> QED
    BY <2>1, <2>2, <1>6
<1>f. /\ m.op \in {"OPEN", "CREATE"} => Files' = Opened(p, r.ret)
      /\ m.op \in {"READ", "WRITE"} =>
           Files' = IF r.ret = ERROR THEN Files ELSE [Files EXCEPT ![p][m.fd].pos = @ + r.ret]
      /\ m.op = "SEEK" =>
           Files' = IF r.ret = ERROR THEN Files ELSE [Files EXCEPT ![p][m.fd].pos = r.ret]
      /\ m.op \notin {"OPEN", "CREATE", "READ", "WRITE", "SEEK"} => Files' = Files
  BY <1>6, AfterAnswer, Zenon
<1>8. CASE m.op = "OPEN"
  <2>1. r = Same(LookUp(fs, m.path, request[p].cur)) /\ m.path \in Paths
    BY <1>8, <1>4, <1>7, RequestsAssumption, ZenonT(40) DEF Results
  <2>2. r.fs = fs /\ r.ret = LookUp(fs, m.path, Cwds[p])
    BY <2>1, <1>6, <1>7 DEF Same
  <2>3. Files' = Opened(p, LookUp(fs, m.path, Cwds[p]))
    BY <2>2, <1>8, <1>f
  <2>4. Calls!Open(p, m.path)
    BY <2>2, <2>3, <1>4, <1>3, <1>c, <1>8, OpenCall
  <2> QED
    BY <2>1, <2>4, CallSteps
<1>9. CASE m.op = "CREATE"
  <2>1. r = CreateFile(fs, m.path, Cwds[p], ERROR) /\ m.path \in Paths
    BY <1>9, <1>4, <1>6, <1>7, RequestsAssumption, ZenonT(40) DEF Results
  <2>2. Files' = Opened(p, r.ret)
    BY <1>9, <1>f
  <2>3. Calls!Create(p, m.path)
    BY <2>1, <2>2, <1>4, <1>3, <1>c, <1>9, CreateCall
  <2> QED
    BY <2>1, <2>3, CallSteps
<1>10. CASE m.op = "READ"
  <2> DEFINE bytes == ReadFile(fs, Files[p][m.fd].i_num, Files[p][m.fd].pos, m.size)
  <2>1. OnFile(m) /\ m.fd \in Slots /\ m.size \in Sizes
    BY <1>10, RequestsAssumption DEF OnFile
  <2>2. r = Same(bytes) \/ (Kept("buffer", FALSE) /\ bytes > 0 /\ r = Same(ERROR))
    <3>1. r \in {Same(bytes)} \cup IF Kept("buffer", FALSE) /\ bytes > 0 THEN {Same(ERROR)} ELSE {}
      BY <2>1, <1>10, <1>4, <1>7, ZenonT(40) DEF Results
    <3> QED
      BY <3>1, Zenon
  <2>3. /\ r.fs = fs
        /\ r.ret = bytes \/ (Kept("buffer", FALSE) /\ bytes > 0 /\ r.ret = ERROR)
    <3>1. \A n : Same(n).fs = fs /\ Same(n).ret = n
      BY DEF Same
    <3> QED
      BY <2>2, <3>1, ZenonT(40)
  <2>4. Files' = IF r.ret = ERROR THEN Files ELSE [Files EXCEPT ![p][m.fd].pos = @ + r.ret]
    BY <1>10, <1>f
  <2>5. Calls!Read(p, m.fd, m.size)
    BY <2>1, <2>3, <2>4, <1>4, <1>3, <1>6, <1>7, <1>c, <1>10, FileCall, ZenonT(40)
  <2> QED
    BY <2>1, <2>5, CallSteps
<1>11. CASE m.op = "WRITE"
  <2>1. OnFile(m) /\ m.fd \in Slots /\ m.size \in Sizes /\ m.size \in Nat
    BY <1>11, RequestsAssumption, YfsAssumption DEF OnFile
  <2>2. PICK valid \in (IF Kept("buffer", FALSE) THEN 0 ELSE m.size) .. m.size :
          r = WriteFile(fs, Files[p][m.fd].i_num, Files[p][m.fd].pos, m.size, valid)
    BY <2>1, <1>11, <1>4, <1>6, <1>7, ZenonT(40) DEF Results
  <2>3. valid \in 0 .. m.size /\ Kept("buffer", valid = m.size)
    BY <2>1, <2>2 DEF Kept
  <2>4. Files' = IF r.ret = ERROR THEN Files ELSE [Files EXCEPT ![p][m.fd].pos = @ + r.ret]
    BY <1>11, <1>f, SMTT(30)
  <2>5. Calls!Write(p, m.fd, m.size)
    BY <2>1, <2>2, <2>3, <2>4, <1>4, <1>3, <1>6, <1>7, <1>c, <1>11, FileCall
  <2> QED
    BY <2>1, <2>5, CallSteps
<1>12. CASE m.op = "SEEK"
  <2>1. /\ OnFile(m) /\ m.fd \in Slots /\ m.offset \in Offsets
        /\ m.whence \in {"SEEK_SET", "SEEK_CUR", "SEEK_END"}
    BY <1>12, RequestsAssumption DEF OnFile
  <2>2. r = Same(SeekFile(fs, Files[p][m.fd].i_num, m.offset, m.whence, Files[p][m.fd].pos))
    BY <2>1, <1>12, <1>4, <1>6, <1>7 DEF Results
  <2>3. /\ r.fs = fs
        /\ r.ret = SeekFile(fs, Files[p][m.fd].i_num, m.offset, m.whence, Files[p][m.fd].pos)
    BY <2>2 DEF Same
  <2>4. Files' = IF r.ret = ERROR THEN Files ELSE [Files EXCEPT ![p][m.fd].pos = r.ret]
    BY <1>12, <1>f
  <2>5. Calls!Seek(p, m.fd, m.offset, m.whence)
    BY <2>1, <2>3, <2>4, <1>4, <1>3, <1>6, <1>7, <1>c, <1>12, SeekCall, ZenonT(40)
  <2> QED
    BY <2>1, <2>5, CallSteps
<1>13. CASE m.op \in {"LINK", "UNLINK", "MKDIR", "RMDIR"}
  <2>1. Files' = Files /\ Cwds' = Cwds
    BY <1>13, <1>c, <1>f
  <2>2. m.path \in Paths /\ (m.op = "LINK" => m.new \in Paths)
    BY <1>13, RequestsAssumption
  <2>3. /\ m.op = "LINK" => r = LinkFile(fs, m.path, m.new, Cwds[p])
        /\ m.op = "UNLINK" => r = UnlinkFile(fs, m.path, Cwds[p])
        /\ m.op = "MKDIR" => r = MakeDir(fs, m.path, Cwds[p])
        /\ m.op = "RMDIR" => r = RemoveDir(fs, m.path, Cwds[p])
    BY <1>4, <1>6, <1>7, ZenonT(40) DEF Results
  <2>4. /\ m.op = "LINK" => Calls!Link(p, m.path, m.new)
        /\ m.op = "UNLINK" => Calls!Unlink(p, m.path)
        /\ m.op = "MKDIR" => Calls!MkDir(p, m.path)
        /\ m.op = "RMDIR" => Calls!RmDir(p, m.path)
    BY <2>1, <2>3, <1>4, <1>3, NamesCall, ZenonT(40)
  <2> QED
    BY <2>2, <2>4, <1>13, CallSteps
<1>14. CASE m.op = "CHDIR"
  <2>1. r = Same(LookUp(fs, m.path, Cwds[p])) /\ m.path \in Paths
    BY <1>14, <1>4, <1>6, <1>7, RequestsAssumption, ZenonT(40) DEF Results
  <2>2. r.fs = fs /\ r.ret = LookUp(fs, m.path, Cwds[p])
    BY <2>1 DEF Same
  <2>3. Files' = Files
    BY <1>14, <1>f
  <2>4. Cwds' = IF r.ret = ERROR THEN Cwds ELSE [Cwds EXCEPT ![p] = r.ret]
    <3>1. Cwds = [x \in Procs |-> Cwds[x]]
      BY DEF Cwds
    <3>2. CwdAfter(m, r.ret, Cwds[p]) = IF r.ret = ERROR THEN Cwds[p] ELSE r.ret
      BY <1>14 DEF CwdAfter
    <3> QED
      BY <3>1, <3>2, <1>6, ZenonT(40)
  <2>5. Calls!ChDir(p, m.path)
    BY <2>2, <2>3, <2>4, <1>4, <1>3, ChDirCall
  <2> QED
    BY <2>1, <2>5, CallSteps
<1>15. CASE m.op \in {"STAT", "SYNC"}
  <2>1. r.fs = fs
    <3>1. m.op = "STAT" => r \in IF LookUp(fs, m.path, Cwds[p]) = ERROR THEN {Same(ERROR)}
                                ELSE {Same(0), Same(ERROR)}
      BY <1>4, <1>7 DEF Results
    <3>2. m.op = "SYNC" => r \in {Same(0)}
      BY <1>4, <1>7 DEF Results
    <3> QED
      BY <3>1, <3>2, <1>15 DEF Same
  <2>2. fs' = fs /\ Files' = Files /\ Cwds' = Cwds
    BY <2>1, <1>15, <1>4, <1>c, <1>f
  <2> QED
    BY <2>2 DEF Step, Calls!vars, Files, Cwds
<1>16. m.op \in {"OPEN", "CREATE", "UNLINK", "MKDIR", "RMDIR", "CHDIR", "STAT", "LINK",
                 "READ", "WRITE", "SEEK", "SYNC"}
  BY <1>3, RequestsAssumption
<1> QED
  BY <1>8, <1>9, <1>10, <1>11, <1>12, <1>13, <1>14, <1>15, <1>16

(* Steps that change nothing for Calls.                                       *)
LEMMA SameView ==
  ASSUME fs' = fs, \A q \in Procs : Files'[q] = Files[q] /\ Cwds'[q] = Cwds[q]
  PROVE  Step
<1>1. Files' = Files /\ Cwds' = Cwds
  BY DEF Files, Cwds
<1> QED
  BY <1>1 DEF Step, Calls!vars, Files, Cwds

(* A process that has not asked has no answer.                                *)
LEMMA NoResult ==
  ASSUME RpcInv, NEW p \in Procs, request[p] = NULL
  PROVE  Result[p] = << >>
BY DEF RpcInv, Result, Waiting

(* All other steps change nothing for Calls, except Close, which asks nobody: *)
(* an answer is seen from the moment the handler has it.                      *)
LEMMA OtherStep ==
  ASSUME RpcInv, [RpcNext]_all, ~Handle
  PROVE  Step
<1> USE DEF Loop, server
<1>1. ASSUME NEW p \in Procs, NEW m \in Requests, Send(p, m) PROVE Step
  <2>1. Result[p] = << >> /\ Result' = Result /\ fs' = fs
    BY <1>1, NoResult DEF Send, Result
  <2>2. \A q \in Procs : /\ Files'[q] = Files[q] /\ Cwds'[q] = Cwds[q]
    BY <1>1, <2>1 DEF Send, Files, Cwds, RpcInv, Table
  <2> QED
    BY <2>1, <2>2, SameView
<1>2. ASSUME NEW p \in Procs, NEW fd \in Slots, CloseFile(p, fd) PROVE Step
  <2>1. /\ Result[p] = << >> /\ Result' = Result
        /\ fds[p][fd] # NULL /\ fds' = [fds EXCEPT ![p][fd] = NULL]
        /\ UNCHANGED <<fs, cwd, request>>
    BY <1>2, NoResult DEF CloseFile, Close, rpc, Result
  <2>2. Files[p] = fds[p] /\ Cwds' = Cwds
    BY <2>1 DEF Files, Cwds
  <2>3. Files' = [Files EXCEPT ![p][fd] = NULL]
    <3>1. fds'[p] = [fds[p] EXCEPT ![fd] = NULL] /\ \A q \in Procs \ {p} : fds'[q] = fds[q]
      BY <2>1 DEF RpcInv, Table
    <3>2. Files'[p] = [Files[p] EXCEPT ![fd] = NULL]
      BY <2>1, <2>2, <3>1 DEF Files
    <3>3. \A q \in Procs \ {p} : Files'[q] = Files[q]
      BY <2>1, <3>1 DEF Files
    <3> QED
      BY <3>2, <3>3, ZenonT(40) DEF Files
  <2>4. Calls!Close(p, fd)
    BY <2>1, <2>2, <2>3 DEF Calls!Close, Files, Cwds
  <2> QED
    BY <2>4, CallSteps
<1>3. ASSUME NEW p \in Procs, Return(p) PROVE Step
  <2>1. /\ Result[p] = answer[p] /\ Result[p] # << >> /\ Result'[p] = << >>
        /\ \A q \in Procs \ {p} : Result'[q] = Result[q]
        /\ fs' = fs
    BY <1>3 DEF Return, Result, RpcInv, Table, Waiting
  <2>2. /\ fds'[p] = FilesAfter(request[p].call, answer[p][1], fds[p])
        /\ cwd'[p] = CwdAfter(request[p].call, answer[p][1], cwd[p])
        /\ \A q \in Procs \ {p} : /\ fds'[q] = fds[q] /\ cwd'[q] = cwd[q]
                                  /\ request'[q] = request[q]
    BY <1>3 DEF Return, RpcInv, Table
  <2>3. \A q \in Procs : Files'[q] = Files[q] /\ Cwds'[q] = Cwds[q]
    <3>1. Files'[p] = Files[p] /\ Cwds'[p] = Cwds[p]
      BY <2>1, <2>2 DEF Files, Cwds
    <3>2. ASSUME NEW q \in Procs \ {p} PROVE Files'[q] = Files[q] /\ Cwds'[q] = Cwds[q]
      BY <2>1, <2>2 DEF Files, Cwds
    <3> QED
      BY <3>1, <3>2
  <2> QED
    BY <2>1, <2>3, SameView
<1>4. ASSUME NEW p \in Procs, Receive(p) PROVE Step
  <2>1. Result' = Result /\ UNCHANGED <<fs, fds, cwd, request>>
    BY <1>4 DEF Receive, Result
  <2> QED
    BY <2>1, SameView DEF Files, Cwds
<1>5. ASSUME NEW p \in Procs, SendFails(p) PROVE Step
  <2>1. /\ Result[p] = << >> /\ Result'[p] = <<ERROR>>
        /\ \A q \in Procs \ {p} : Result'[q] = Result[q]
        /\ UNCHANGED <<fs, fds, cwd, request>>
    BY <1>5 DEF SendFails, Result, RpcInv, Table, Waiting
  <2>2. \A m, f, c : FilesAfter(m, ERROR, f) = f /\ CwdAfter(m, ERROR, c) = c
    BY DEF FilesAfter, CwdAfter
  <2>3. \A q \in Procs : Files'[q] = Files[q] /\ Cwds'[q] = Cwds[q]
    <3>1. Files'[p] = Files[p] /\ Cwds'[p] = Cwds[p]
      BY <2>1, <2>2 DEF Files, Cwds
    <3>2. ASSUME NEW q \in Procs \ {p} PROVE Files'[q] = Files[q] /\ Cwds'[q] = Cwds[q]
      BY <2>1 DEF Files, Cwds
    <3> QED
      BY <3>1, <3>2
  <2> QED
    BY <2>1, <2>3, SameView
<1>6. ASSUME Reply PROVE Step
  <2>1. UNCHANGED <<fs, fds, cwd, request>>
    BY <1>6 DEF Reply
  <2>2. \A q \in Procs : Result'[q] = Result[q]
    BY <1>6 DEF Reply, Result, RpcInv, Table, Waiting
  <2> QED
    BY <2>1, <2>2, SameView DEF Files, Cwds
<1>7. ASSUME Exit PROVE Step
  <2>1. Result' = Result /\ UNCHANGED <<fs, fds, cwd, request>>
    BY <1>7 DEF Exit, Result
  <2> QED
    BY <2>1, SameView DEF Files, Cwds
<1>8. ASSUME UNCHANGED all PROVE Step
  <2>1. Result' = Result /\ UNCHANGED <<fs, fds, cwd, request>>
    BY <1>8 DEF all, rpc, Result
  <2> QED
    BY <2>1, SameView DEF Files, Cwds
<1> QED
  BY <1>1, <1>2, <1>3, <1>4, <1>5, <1>6, <1>7, <1>8 DEF RpcNext

(* For any number of processes, any requests and any disk, each call takes    *)
(* effect once, at one moment between Send and its return: the loop of main in *)
(* yfs.c and the calls of iolib.c together implement Yfs.  The processes      *)
(* promise nothing here, except memory for their buffers, or not even that.   *)
THEOREM CallsAtomic ==
  ASSUME Promises \subseteq {"buffer"}
  PROVE  RpcSpec => ImplementsCalls
<1>1. RpcInit => Calls!Init
  <2> SUFFICES ASSUME RpcInit PROVE Calls!Init
    OBVIOUS
  <2>1. fs = Calls!Boot(Calls!MkYfs)
    BY SameBoot DEF RpcInit, Init
  <2>2. \A p \in Procs : Result[p] = << >>
    BY DEF RpcInit, Result
  <2>3. Files = Calls!NoFiles /\ Cwds = Calls!AtRoot
    BY <2>2, SameConstants DEF RpcInit, Init, NoFiles, AtRoot, Calls!NoFiles, Calls!AtRoot, Files, Cwds
  <2> QED
    BY <2>1, <2>3 DEF Calls!Init, Files, Cwds
<1>2. RpcInv /\ [RpcNext]_all => [UNCHANGED Calls!vars \/ Calls!Next]_Calls!vars
  BY HandleStep, OtherStep DEF Step
<1> QED
  BY <1>1, <1>2, RpcInvariant, PTL DEF RpcSpec, ImplementsCalls
=============================================================================
