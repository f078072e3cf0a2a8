# A verification project for YFS, the Yalnix file server

The repository is a file system server (`yfs.c`), the library its clients are
linked with (`iolib.c`), a formatter for the disk (`mkyfs.c`) and test programs
(`yfs-tests.c`, `s/`). This directory holds TLA+ modules that model the server
and its clients, TLC configurations that check them on small instances, and
TLAPS proofs about the caches, their lists and tables, the message loop and the
file system itself. Line numbers below are those of `yfs.c` where no other file is
named.

## 1. The system

A client calls a library function; the library fills in a message, `Send`s it
and blocks until the server `Reply`s. The server (`main`, 92-267) has one
thread: it receives a request, runs the handler to the end and replies. Handlers
work on inodes and blocks that they get from two caches, and the caches work on
the disk.

| part | state | operations | hard behaviours | what makes it correct |
|---|---|---|---|---|
| block and inode caches (960-1284) | for each of the two: an LRU queue, a hash table, a counter; the disk | `get_b`, `get_i`, `evict_b`, `evict_i`, `handle_sync` | an inode's eviction fetches its block, which evicts another block; handlers keep pointers across fetches; Sync changes the queue it walks through; shutdown and crash | transparent to the handlers; Sync leaves nothing in memory; a held pointer stays valid |
| blocks and free lists (383-398, 1287-1335, 1394-1572) | pointers of inodes, the block of indirect pointers, free lists in memory | `get_nth_b`, `get_next_free_bnum`, `get_next_inum_free`, `make_free_lists`, three loops that free a file's blocks | freed pointers stay in the inode; the free lists are not on the disk but computed at the start | a block is in one place and none is lost |
| directories and paths (1338-1391, 1577-1767) | entries in the blocks of directories | `get_dir_entry`, `get_path_i_num`, `get_super_dir` | removed entries stay in their place and match by name; inodes are reused | names lead to the right inode, the directories are a tree |
| request handlers (269-956) | none of their own | open, create, read, write, seek, link, unlink, mkdir, rmdir, chdir, stat, sync, shutdown | several changes in one handler, of which a later one fails; arguments that are not checked | link counts, entries and blocks agree after every request |
| client library (`iolib.c`) | table of open files `opened_ft` with positions, current directory `cur_i` | the calls programs make | positions and inode numbers that went stale in between because of other processes | files keep their own data |
| queue and hash table of a cache (1006-1172) | a doubly linked list, chains of elements | `left_dequeue`, `right_dequeue`, `right_enqueue`, `query_ht`, `insert_ht`, `evict_ht` | pointers to set at either end and in the middle; one that is left unset; elements that outlive their item | the list and the table hold the same items, in order of use |
| message loop (103-267) | the request being served | Receive, dispatch, Reply | requests that wait while others are served; shutdown with other processes blocked in Send | every request is answered, once, to its sender; the answer is that of an atomic call |
| formatter (`mkyfs.c`) | the disk | writes header, root and free inodes | | the server starts on what it wrote |
| tests (`yfs-tests.c`, `s/*.c`) | | | | they say what the calls are meant to do |
| `scrap.c` | | | | an older copy of code of the server; no target of the `Makefile` builds it |

The headers of the directory `comp421` (`yalnix.h`, `filesystem.h`, `iolib.h`) are not in
the repository; the constants and structures used from them are modelled from
their use.

## 2. The modules

| module | extends | implements | theorems in |
|---|---|---|---|
| `YfsQueue` | | `YfsLru` | `YfsQueueProofs` |
| `YfsCache` | | `YfsStore` | `YfsCacheProofs` |
| `YfsHandlers` | `YfsFiles` | | |
| `Yfs` | `YfsHandlers` | `YfsTree` | `YfsProofs`, `YfsBlockProofs`, `YfsTreeProofs`, `YfsStepProofs`, `YfsPromiseProofs` |
| `YfsRpc` | `Yfs` | `Yfs` | `YfsRpcProofs` |
| `YfsPaths` | `YfsHandlers` | | |
| `YfsClaims` | `Yfs` | | |

Each `MC...` module gives the constants of one of these values for TLC.

The server is modelled in layers, the way it is written. At the bottom, `YfsQueue`
has the linked list and the hash chains of one cache, and implements `YfsLru`,
the numbers asked for last in order of use. `YfsCache` has both caches on top of
such a list and the disk, with handlers that fetch and store anything; it
implements `YfsStore`, a store in which a read returns the last write and a Sync
puts everything on the disk. `YfsFiles`, `YfsHandlers` and `Yfs` are the file
system written against such a store: they have no caches. `Yfs` implements
`YfsTree`, a tree of directories and files that has no blocks, no free lists and
no places of entries. In `Yfs` a library call is one step; `YfsRpc` takes it apart
into messages and implements `Yfs`. `YfsPaths` takes apart the path names.

**YfsStore** (abstract). Every object (an inode, a cell of a data block) has a
current value, a staged value (in its block) and a saved value (on the disk).
Values move forward only, at any moment; a Sync ends when all have arrived; a
restart goes back to what is saved.

**YfsCache**. `cache` holds the disk, and for each cache its queue, least recently
used first, its table from numbers to items and its counter. `GetB`, `GetI`,
`EvictB`, `EvictI` are the functions of that name. A handler is a sequence of
`GetBlock`, `GetInode`, `StoreBlock`, `StoreInode` and `Return`; what it may rely on
is a pointer to one inode and one into a block (`heldI`, `heldB`) while it makes
fewer further fetches than the cache has items (`sinceI`, `sinceB`).
`StoreIndirect` and `ClearFile` are the two stores of the code that set no dirty
flag (1327 and 762-776); the constant `UnmarkedStores` allows or forbids them.
`SyncBlock` and `SyncInode` are one turn of each loop of `handle_sync`. The dirty
flag of a fetched inode is uninitialised in the code, so it is any value here.
`Restart` is possible at any moment: a crash, or the exit after a shutdown.

**YfsLru** (abstract). The sequence of the last `Capacity` numbers that were asked for.

**YfsQueue**. The items in memory with `prev_c_item` and `next_c_item`, `q_first`, `q_last`,
the chains of the hash table, and the counter; an address is used again after a
free. `RightEnqueue` does not set `next_c_item` of the only item in the queue of inodes
(1153), so that it is `Junk`, which is an error to test or to follow (`bad`). `Scan` is
`make_free_lists` (1446-1555), which fetches inodes one after the other before any
request is served; `Get` is any later fetch. The table has `Capacity + 1` buckets.

**YfsFiles**. The file system as one record: inodes, the block of indirect
pointers, cells of blocks, the two free lists, and `bad` once the server did
something C leaves undefined or handed out a block it must not. The unit of
length is one directory entry of 32 bytes; a unit of data is a cell that
remembers which inode it was written to. `GrowBlock` is `get_nth_b` with
allocation, `EntryFor` is `get_dir_entry` with creation, `Clear` the loop that
frees a file's blocks, `PathInode` and `SuperDir` the walks along a path.

**YfsHandlers**. One operator per handler, from the file system and the arguments
to the new file system and the reply; `MkYfs` is the disk `mkyfs` writes and
`Boot` is `make_free_lists`. `WriteFile` has one more argument, `valid`: how much of the
buffer can be copied before `CopyFrom` fails (558), in which case the handler
returns with blocks taken and the size half moved. Sums of `handle_seek` wrap at
32 bits (`Wrap`; the bound `INT_MAX` is 15 in the instances).

**YfsTree** (abstract). What programs may rely on: `tree` has the entries of each
directory, its parent, and the size of each file; `fds` and `cwd` are those of the
processes. A call that fails changes nothing. Three oddities of the server that a
program sees are in it on purpose: RmDir may refuse an empty directory, a relative
new name of Link starts at the root when the old name is absolute, and ChDir to a
file succeeds.

**Yfs**. The clients: `fds` is `opened_ft` of each process, `cwd` is `cur_i`. One
action per library call; since a call is one request and requests are served
one at a time, a call is one step. `Restart` is Shutdown and a new start of the
server with new processes.

**YfsRpc**. The same calls as a conversation. `Send` is the library up to its Send:
it tests what the library tests, and puts into the message the inode and position
or the current directory of that moment. `Receive`, `Handle` and `Reply` are one turn
of the loop in `main`, `Exit` is `handle_shutdown` (and the call of it when Receive
fails, 124-128), and `Return` is what the library does with the answer. Between any
two of these come the steps of other processes. Receive, Send and Reply belong to
the kernel, which is not in the repository: it lets Receive take any waiting
request, and Send fail once the server is gone. In the refinement to `Yfs` a call
takes effect when its handler runs.

**YfsPaths**. Path names as sequences of characters: the loops that skip slashes,
`get_next_path_part`, the comparison of `get_dir_entry`, the search for the last slash
in `get_super_dir`, the length test of the library. Reference definitions (`PathOf`,
`PathTo`) cut a text at its slashes and each name after `DIRNAMELEN` characters.
Processes create, make, unlink and enter what they name, so that the file systems
in which texts are looked up are those such names lead to.

**YfsClaims**. What tests and comments say and the server does not do.

Operators marked `Fault:` are plausible mistakes, defined next to the operator
they are mistakes of. No specification uses them: they serve to see that a
property notices when the operator is replaced.

### The promises

The server checks little of what it is asked to do. What it keeps right
therefore depends on its clients, and `Yfs` says on what: each promise is a
guard that a run includes or leaves out (constant `Promises`).

- `live`: what is unlinked or removed exists, and so does the directory something
  is made in. `handle_rmdir` (790) takes 0, the answer for a missing path, for an
  inode, and `handle_mkdir` (716) does not test `get_super_dir`'s result.
- `kind`: RmDir is for directories, Unlink, Create and Write for files. No handler
  looks at the type (647, 366; the test at 537 compares a Boolean with -1);
  `s/link_unlink.c:97-100`, `s/create_close.c:71-73` and
  `s/read_write_seek_stat.c:126-127` expect an error.
- `plain`: nobody makes or removes `.`, `..` or the root.
- `straight`: the path of a directory that is removed has `.` and `..` only before its first
  name. `handle_rmdir` clears the directory (808) before it looks for its parent along the
  path, which for `a/../a` leads through the directory that is gone (811).
- `idle`: nobody is in a directory that is removed, or past the beginning of a
  file that is truncated or unlinked: processes hold inode numbers and
  positions, and the server does not see them.
- `space`: the free lists hold what is asked for. Without an inode
  `get_next_inum_free` answers 0, the header (1398); the last blocks of the list are
  the inode table itself, because `make_free_lists` marks only block 0 (1504).
- `direct`: no file grows beyond its direct blocks. No handler sets `inode->indirect`
  (1320-1327 reads it), so that all files share block 0 as their indirect block. The
  run `big` leaves the promise out: one file alone may have indirect blocks.
- `buffer`: the buffer of a read or a write is memory the process has.
- `stay`: no restart. Not a promise of clients but a bound: `tree` and `big` look at
  one lifetime of the server.

`rpc` makes no promise but `buffer`: that calls are atomic does not depend on the
others.

## 3. The runs

| run | instance | checks |
|---|---|---|
| `cache_store` | 3 blocks, 2 of them inode table with 2 inodes each, two values, caches of 2 blocks and 1 inode | `SyncSaves`, `ImplementsStore` |
| `cache_lru` | 5 blocks, caches of 3 and 2, with the unmarked stores | `CacheOK`, `HeldIsLive` |
| `queue` | a cache of 3, 6 numbers of which most buckets have two, 4 addresses | `SyncMeetsAll`, `TableFindsQueue`, `NothingUnset`, `ImplementsLru` |
| `tree` | 2 processes, 7 blocks, 3 inodes, relative paths and `..`, no data | `TypeOK`, `BlocksAccounted`, `DirsAreTree`, `FreeInodesUnused`, `DotsResolve`, `ImplementsTree` |
| `links` | 1 process, absolute paths of depth 2 and relative ones, links across directories, restarts | `NlinkCountsNames`, `EntriesFound`, `ImplementsTree` |
| `data` | 1 process with 2 open files, 2 file names, writes of 2 units, seeks by 0, 1 and the largest int, restarts | `BlocksExclusive`, `OwnData`, `Defined`, `SeeksExact`, `ImplementsTree` |
| `big` | 1 file, 2 direct and 2 indirect blocks, up to the maximal size, buffers that end anywhere | `BlocksExclusive`, `OwnData` |
| `paths` | all texts of up to 6 characters over `a`, `.` and `/`, names of up to 2 | `LookUpAgrees`, `ParentAgrees`, `CreatedIsFound` |
| `rpc` | 2 processes, 1 file, 9 kinds of request | `ImplementsCalls`, `CallsReturn`, `ShutdownEnds` |

What they show:

- *The caches are transparent.* No fetch and no eviction changes what a handler
  reads; values reach the disk and never go back; when `handle_sync` returns, or
  `handle_shutdown` exits, the disk has what the handlers would read, although
  copying inodes fetches and evicts blocks which the first loop has passed.
- *List and table are one cache.* Whatever is fetched, `right_dequeue` and the
  evictions keep the list connected both ways and the chains in step with it; the
  walk of `handle_sync` (963-1001) meets every item once. The pointer that
  `right_enqueue` forgets is never read, since `make_free_lists` fetches a second inode
  before anything else happens, and the cache has room for two (an assumption of
  the module; with a cache of one the pointer would be read).
- *A held pointer survives.* `handle_unlink`, `get_create_file` and `handle_link` keep
  pointers across fetches; LRU order keeps them alive as long as there are fewer
  fetches than items.
- *Blocks.* A block outside the inode table is in one file at one place or on the
  free list once (`BlocksExclusive`), and no block is in neither
  (`BlocksAccounted`): freed pointers stay in the inodes and the code gets away
  with it within one lifetime because sizes hide them. (After a restart a file's
  stale pointers count as used, up to the first 0: blocks are lost, never shared.
  That is why `BlocksAccounted` is checked in `tree`, without restarts. Inodes do get
  lost: `handle_unlink` puts none on the free list, and neither it nor `handle_rmdir`
  sets the type that `make_free_lists` looks for.)
- *Data.* Every unit of a file below its size was written to that file
  (`OwnData`), for any interleaving of calls on two open files under the promises,
  and never a free or foreign block shows through. The two open files belong to
  one process here: a request carries inode and position, so that the server
  cannot tell two processes with a file each from one with two.
- *Names.* `nlink` of a file is the number of its entries; each entry is found by
  its name although removed entries match too; the directories form a tree that
  `..` follows; free inodes have no name, no open file and are nobody's current
  directory.
- *A tree.* Under the promises, processes see `YfsTree` (`ImplementsTree`): a call changes
  the entries, parents and sizes it should and no others, also when inodes,
  blocks or places of entries are used again. `tree` has two processes and
  directories that come and go, `links` names across directories, `data` lengths
  and positions.
- *Positions.* `handle_seek` answers what it would with unbounded numbers, although
  `cur_pos + offset` may wrap (`SeeksExact`).
- *A failing write.* In `big` a write may fail at any unit of its buffer, or at the
  end of the largest file: blocks stay in one place and data where it belongs. The
  block taken for the failing part is not in the file and not free until the next
  start; that is why `BlocksAccounted` is checked under `buffer`.
- *Path names.* Slashes that are repeated or at the end, dots, and names longer than
  DIRNAMELEN lead to the inode, the directory and the entry that the text means,
  and a file that was created is found by the same text. Excepted are two slashes at
  the beginning of a name given to Link: `adj_path_i` takes one of them away, and
  the other is an empty name (`LookUpAgrees` says so).
- *Requests.* With requests of other processes served in between, each call still
  takes effect at one moment (`ImplementsCalls`); every call returns, with an error
  when the server is gone (`CallsReturn`); Shutdown is carried out (`ShutdownEnds`), and
  since `handle_shutdown` does not reply, Shutdown itself returns an error.
  The instance has Open, Create, Stat, ChDir, Read, Write, Seek, Sync and Shutdown. Link,
  Unlink, MkDir and RmDir are not in it: without promises they lead to states
  without bound (section 6), and to the message loop one handler is like another.
  Theorem `CallsAtomic` has all of them.

Bounds. Every variable is finite because blocks, inodes, slots and sizes are.
Cache sizes of 1 to 3 with more blocks and inodes than that reach all cases of
`get_b` and `get_i`: hit, miss with room, miss with eviction, an eviction of an
inode that evicts a block, and one whose block is there. The 16 entries of a
block come down to `UNITS` = 2, so that the third entry of a directory already
needs a second block. 2 direct blocks reach the boundary between blocks and the
end of the direct ones; `big` crosses it. 3 inodes are the root and two others,
enough for a directory in a directory, a file in either, two files, or a file
with names in two directories, and few enough that an inode of a removed
directory is used again at once; the inode table is one block, with `IPB` =
`NUM_INODES` + 1 (the assumption is `IPB` >= 2: header and root are in one block). `MAX_OPEN_FILES` of 1 or 2 makes the table of open files full with the
next one. A directory has at most 4 entries, so that later names take the places
of removed ones. 6 to 8 blocks leave few beyond those of the directories, so that
blocks are reused as well. In `queue` a cache of 3 has a first, a last and a middle
item, and 6 numbers in 4 buckets make chains of two; one address more than items lets
an evicted item's memory be used at once or later. In `paths` six characters are
enough for a text that is too long, `MAXPATHNAMELEN` being 6, and the five of the
others for `a/../`, `//a/a` and `aaa/.`; the 14 letters of a name come down to
`DIRNAMELEN` = 2, which a text of three letters exceeds. In `rpc` two processes are
one that is served and one that waits; one file is written whole, `Sizes` = {6}, so
that it fails, succeeds or is at its end. Each run takes about two minutes at most.

Symmetry: processes are interchangeable, and so are names, which are only
compared for equality; in `cache_store` so are the two values. Initial states and
paths are closed under these permutations. `rpc`, the run with liveness
properties, and `queue` and `paths` use no symmetry.

Fairness is assumed in `YfsRpc` alone; the other properties are safety properties.
`Fairness` has four parts. `WF(Serve)`: the main loop goes on, from Receive to the
handler and to Reply; it has no wait but Receive. `SF(Receive(p))`: a process that is
blocked in Send is received in the end, although others come and go; the kernel
queues requests. `WF(Return(p))`: a process whose Send has returned goes on.
`WF(SendFails(p))`: the kernel ends the Send of a process whose server is gone; this is an
assumption about the kernel that the repository cannot confirm. Nothing makes a
process ask, and nothing makes Receive fail. With weak fairness of Receive alone
`ShutdownEnds` would be false: another process that keeps asking disables it again and again.

Deadlock is checked in all passing runs: some call is always possible, a restart
is for the caches, and in `rpc` a process can still try to Send after the exit. The
violation runs do not check for it, as they stop at the first counterexample.

## 4. What is proved

`YfsCacheProofs` proves, for every size of the disk and of the caches and every
number of inodes in a block:

- `CachesWellFormed`: `Spec => []CacheOK`. Queue, table and counter of each cache
  describe the same items, each once, and no cache outgrows its size.
- `PointersLive`: `Spec => []HeldIsLive`. A pointer that is held while fewer items are
  fetched than the cache has is not evicted.
- `SyncSavesAll`: `Spec => []SyncSaves`, if `~UnmarkedStores`.

Assumptions of these three: `SizesAssumption` (sizes are positive, the table does not fill the
disk) and `NullAssumption` (`NULL` is no item), both of `YfsCache`.

The argument. `CacheOK` alone is not inductive enough for the second theorem: that
a pointer is live says nothing about the next eviction. The invariant `CacheInv`
adds `HeldRecent`, how near the end of its queue a held item is: at most `sinceB` (or
`sinceI`) items are behind it. Each fetch moves it forward by one at most, and the
bound on fetches keeps it away from the head. `SyncIsAlone` says that nothing is
held during a sync. For `SyncSaves` the invariant `SyncInv` says of each moment of
the sync what has arrived already: an item that is not marked holds what it was
read from; during the first loop the blocks the queue lists before `pos` are on the
disk; during the second loop all cached blocks are, and of the inodes those before
`pos` are in their blocks. The second loop fetches blocks and no inodes, so its
queue stands still, and what it evicts has been written.
Lemmas about `Dequeue` and `Touch` carry the sequences, lemmas about `GetB`
and `GetI` the caches; each action of `Next` is one step of each theorem.

The end of `YfsCacheProofs` proves, from the same assumptions:

- `NeverBackwards`. Every step of `YfsCache` is a step of `YfsStore` or the end of a Sync,
  whatever is marked dirty: a value that a handler reads is the last it stored, and
  values only move on from the cached inode to its block and from the block to the disk.
- `StoreImplemented`: `Spec => ImplementsStore`, if `~UnmarkedStores`. The end of a Sync is a step of
  the store too: all values have arrived.

The argument. In the refinement mapping an inode has three places at once: its item in
the cache of inodes, else its block; its block's item in the cache of blocks, else
the disk; and the disk. `CacheInv` makes them agree where nothing is marked
(`YfsCache` picks the mark of a fetched inode at will, so that nothing follows from it). Each
of `EvictB`, `EvictI`, `GetB` and `GetI` moves values forward only, and a step that calls
several of them composes their moves. At the end of a Sync `SyncInv` says that the
disk has what the handlers read.

`YfsQueueProofs` proves, for every size of a cache from two on, any numbers of items and any
addresses malloc may return:

- `NeverUnset`: `Spec => []NothingUnset`. The pointer that `right_enqueue` leaves unset is
  never tested or followed, and the assertion of `insert_ht` holds.
- `SyncWalk`: `Spec => []SyncMeetsAll`. The list is the same forth and back.
- `TableAndQueue`: `Spec => []TableFindsQueue`. The chains hold the items of the list and no
  others.
- `RecentList`: `Spec => ImplementsLru`.

Assumption: `QueueAssumption` (a cache and a first scan of two or more, addresses for as many
items).

The argument. None of the four properties is inductive: they say what one meets on the
list, and nothing about a pointer nobody has followed yet. The invariant `QueueInv` says that
there is a sequence of addresses, each once, of which the memory is the list and the
table (`Holds`): each item's `prev_c_item` is the one before, its `next_c_item` the one after
(`Linked`); the chains have one element for each of them and no other (`Chained`); their
numbers differ, and all other memory is unset (`Numbered`). What the last item's `next_c_item`
is, is said apart: NULL (`Closed`), or still unset in the only item of the queue of inodes,
which then is the item of inode 1 and the next fetch that of inode 2, a miss that evicts
nothing (`Ended`, `Started`). Lemmas `LinkLeft`, `LinkWithout` and `LinkMore` say what `left_dequeue`,
`right_dequeue` and `right_enqueue` do to the sequence, `InsertFacts` and `EvictHtFacts` what the table's
operations do to the chains. What `Walk`, a recursive function, meets along
the pointers of such a sequence is proved by induction (`StepsUnique`, `WalkFacts`).

`YfsRpcProofs` proves, for any number of processes, any set of requests, any paths
and sizes and any disk:

- `CallsAtomic`: `RpcSpec => ImplementsCalls`, if `Promises \subseteq {"buffer"}`. Each call
  takes effect once, between its Send and its return. (The guards of the other
  promises are in `Yfs` and not in `YfsRpc`, where processes ask what they like; hence the
  assumption.)

Assumptions: `YfsAssumption` (sizes) and `RequestsAssumption` (requests name paths,
slots, sizes and offsets that exist in the model).

The argument. `Calls` is an instance of all of `Yfs` with other values for `fds` and `cwd`:
those a process will have once it has taken up its answer. The first lemmas
(`Same...`) show that the handlers in the instance are the handlers. The inductive
invariant `RpcInv` says that a request that waits is still true of its process
(`AsSent`): the inode, position and directory in the message are those the process
has now, because it does nothing while it is blocked, and that the request in the
server is one that waits for its answer. Hence `Handle` is the step at which `Calls`
takes the call (`HandleStep`, one case per request), Close is a step of its own, and
all others change nothing that `Calls` sees (`OtherStep`).

`YfsProofs` proves, for every disk, any number of processes, any paths, sizes and offsets, and
whatever promises are made or none:

- `TypesKept`: `Spec => []TypeOK`. Every number of an inode or a block that is anywhere in
  the file system, in an entry or with a process, is the number of one that exists.
- `SeekIsExact`: `Spec => []SeeksExact`. The sums of `handle_seek` that wrap make no difference.

Assumptions: `YfsAssumption` (sizes), `PathsAssumption` (`.`, `..` and `Junk` are no names)
and `OffsetsAssumption` (offsets are ints).

The argument. `Fits` is inductive: the types, and that no file is longer than its direct and
indirect blocks (`SizesFit`), which is what keeps the sums of `handle_seek` within the
width of an int where they matter. There is one lemma for what each function of the server
returns, and one for each handler. Walking along a path, taking a file's blocks off the free
list one by one and freeing them are folds and recursive functions. The prover cannot
instantiate an induction theorem, so that the lemmas `FoldExists`, `StepsExist` and
`StepsStay` do the induction themselves: if a step went wrong, there would be a first
one (`Least`). They give the values between the steps, for instance the inodes
along a path (`PathSteps`), and lemmas go from one to the next.

`YfsBlockProofs`, `YfsTreeProofs`, `YfsStepProofs` and `YfsPromiseProofs` are one proof about
processes that keep their promises. Its theorems have the hypothesis `Promised`: `Promises` contains `live`,
`kind`, `plain`, `straight`, `idle`, `space` and `direct`. Restarts and buffers that end anywhere
are included: `stay` and `buffer` may be promised or not. The assumptions are those of `YfsProofs`, and for
`TreeImplemented` `NullAssumption` of `Yfs` (`NULL` is no inode and no open file).

- `ServerDefined`: `Spec => []Defined`. The server stays within what C defines, and gives out no
  block of the inode table.
- `BlocksHaveOneOwner`: `Spec => []BlocksExclusive`. No block is in two places.
- `FilesHoldOwnData`: `Spec => []OwnData`. Below its size a file holds what was written to it.
- `NamesFound`: `Spec => []EntriesFound`. Each entry is found by its name.
- `TreeKept`: `Spec => []DirsAreTree`. The directories are a tree.
- `FreeStayFree`: `Spec => []FreeInodesUnused`. A free inode has no name, nobody
  has it open and nobody is in it.
- `NlinkCounts`: `Spec => []NlinkCountsNames`. `nlink` of a file is the number of its names.
- `DotsKeptWithoutData`: `Spec => []DotsResolve`, if no process writes data (`Sizes \subseteq {0}`).
- `NoBlockLost`: `Spec => []BlocksAccounted`, if moreover `stay` is promised, so that the server is not
  started again.

- `TreeImplemented`: `Spec => ImplementsTree`, if `buffer` is promised too and no path has `.` or `..` in
  it (`Dotless`) or no process writes data. Every call is one of `YfsTree`, or changes nothing that shows.

The last three have hypotheses because without them the properties are false. Data in the first two
places of a block become names of a new directory (run `dots`), and a path that uses them leads
elsewhere. A write whose buffer ends early leaves the file longer, which no call of `YfsTree` does
while it fails. A file that is unlinked, then written, then
closed by the process that has it open, takes its blocks with it; and a removed directory keeps its type
and its pointers, which `make_free_lists` takes for blocks in use at the next start.

The argument. None of these properties is inductive, and no two of them are without each
other, because each handler relies on all of them at once: that a block that is appended
is in no other file (`BlocksExclusive`) rests on the free list, that an entry is not
overwritten on the block being in one file, that a walk ends at the inode meant on the
entries, and that what is freed was nobody else's on the walk. The invariant
`Inv` is that the server went wrong without damage (`Safe`), or not at all, and then
the file system is `Healthy` and the processes hold what is there (`Holding`).

- `Sound` (in `YfsBlockProofs`): a block is at one place of one file or once on the free list
  (`BlocksInv`), and no size reaches the indirect block (`SizesDirect`). Pointers above a file's size
  do not count; `NthBlock` is 0 there.
- `DataInv`: a regular file has no holes (`Whole`) and all its cells are its own. Without the
  first half a write beyond the end would bring up a stale pointer.
- `DirInv`: a directory has two entries or more, the first is itself, and no name is there twice,
  with an inode or without. `EntriesFound` follows from the names of removed entries being
  counted in.
- `TreeInv` (in `YfsTreeProofs`): the root is its own parent; an entry below the first two names an
  inode in use, only one entry names a directory, and that directory's `..` is where the
  entry is; every directory but the root has such an entry.
- `InodesInv`: an inode is on the free list once at most, and what is there has no size.
- `Holding` (in `YfsStepProofs`): open files and current directories are in use and no position is
  beyond the end; this is where `idle` is needed.

`Alike` says that a step leaves a file as it is: its type, size, blocks and cells. Most of
the proof is one lemma per step of a handler saying what it does to one file and that all
others are `Alike`. In `YfsTreeProofs` there is a lemma for the entry a handler makes
(`EntryStep`), for the one it removes, and for each handler; `YfsStepProofs` has one for each
action, and derives from `Inv` what the properties say. Those properties are about what the root
leads to (`Live`, a fold), and `LiveSteps` shows that all of it is in use.

That the server does not go wrong at all is a second invariant on top of `Inv`, `Clean`: the
blocks of the inode table are the last of the free list, no inode points to one, and
inode 0 stays the header. `space` leaves them at the end of the list, and `make_free_lists` puts
them there, because its list falls. What remains is `handle_rmdir`, which uses whatever it
finds as the parent: `ParentStays` shows that along a straight path it finds after the directory
was cleared what it found before, since a walk down from a name never meets a directory twice.

That `nlink` counts names is a third, `Graph`, about the entries as edges from a directory and
a place to an inode. `Counts` says that a file's `nlink` is the number of edges to it: each
handler adds one or takes one away (`Grew`, `Shrank`), and `Cardinality` follows. `NlinkCountsNames` counts
only what the root leads to; hence `Rooted`: every set of inodes that contains the root and
that no edge leaves has all directories. `Live` is such a set (`LiveClosed`): if its fold still grew
at the last step, it would have grown at each, and have more members than there are inodes.

A fourth, `Dots`, is for `DotsKeptWithoutData`: the first two names of a block are dots or nothing (`Fine`), or
the block is a later one of a directory (`Beyond`), whose first two cells hold names. A directory
with a later block has more than two entries, and since directories do not shrink it is never
removed, so that such a block is not given back. A fifth, `Accounted`, is for `NoBlockLost`: a block behind the
table is on the list or `NthBlock` of some inode. What a handler takes from the list it puts in a
file, and what it frees was all of the file, because a file has no holes. At the start it is the
list `make_free_lists` makes (`FirstAccounted`). The property asks for an inode in use; without data only
directories have blocks, and by `Rooted` the root leads to all of them.

For `TreeImplemented` the refinement mapping `TreeOf` reads the tree off a file system. `TreeIs` says of a healthy
one what that is: a name of a directory leads to an inode in the tree if some entry does
(`Leads`), and one entry at most can. That a path leads to the same inode in both (`PathShows`) is the
comparison of two folds along one path, step by step. Then there is a lemma for each action
(`OpenTree`, ..., `RestartTree`). Those of the actions that make or remove an entry take from the
proofs before how the entries changed (`Grew`, `Shrank`), and `GrewTree` and `ShrankTree` translate it into the
one name of the tree that changes; `UnlinkTree` needs `Counts`, because the server empties a file
when `nlink` is 0 and the tree when no name is left. `WriteClean` says that a write goes to its end
and how long the file is then. A sixth invariant, `FreeKinds`, says that no free inode is a regular
file: what `Create` and `MkDir` take is not in the tree before (`Fresh`).

## 5. Only model-checked

All properties of `Yfs` that the passing runs check are proved; those with a hypothesis above hold in the
runs because these satisfy it. The three properties of `YfsPaths` compare
two recursive ways of reading a text, character by character and part by part: that is
induction over data. `CallsReturn` and
`ShutdownEnds` are liveness properties; liveness under fairness and `ENABLED` are beyond the
prover.

## 6. Where the program and its documentation differ

Each of these runs finds a counterexample; each leaves out one promise, or asks
about a call that the promises forbid.

| run | what the code does | what the repository says |
|---|---|---|
| `rmdir_missing` | `handle_rmdir` of a missing path clears inode 0, the header, puts 0 on the free list and returns 0 | `s/mkdir_rmdir.c:109-110`: an error |
| `gaps` (without `idle`) | after a truncation by another process a write at an old position takes up the stale pointers of the skipped blocks | `s/read_write_seek_stat.c:104-109`: what was skipped reads as zeros |
| `dots` | `handle_mkdir` writes `.` and `..` over the names in a block it does not clear | `s/chdir.c:66-72`: both lead somewhere in a new directory |

Read in the code and covered by the promises, without a run: RmDir of a directory
that is empty again fails because directories do not shrink (798, against
`s/mkdir_rmdir.c:91-107`); Open and ChDir of `/` fail (277, against `s/open.c:70-71`);
Seek does not go past the end (928, against `s/read_write_seek_stat.c:54-55`); a store
into the indirect block, and the size of a removed directory, are not marked
dirty (1327, 762-776), so Sync leaves them in memory; the blocks of the inode table
are at the end of the free list (1559-1567); all files share one indirect block
(1320). A Link with an absolute old name starts a relative new name at the root.
Link does not find what Open finds when a name begins with two slashes. ChDir to a
file succeeds. Create stores the first DIRNAMELEN characters of a longer name, MkDir
all of them, over what follows (702). `MkDir("a/")` makes an entry with an empty name.
`Unlink` of a name that was removed takes a link from inode 0, the header. `RmDir("a/../a")`
clears the directory, looks for its parent through it, finds none and calls
`get_i(ERROR)` by way of `get_dir_entry` (808-811).

## 7. Not modelled

- `scrap.c`, which nothing builds; the bodies of the test programs (what they assert
  is in `YfsClaims`).
- malloc that fails, in the server or the library, and a path that cannot be copied
  from the process (`get_proc_path`).
- A crash of the server in the middle of a request. What would be on the disk then is
  what `YfsStore` allows; the code has no recovery whose result could be stated:
  `make_free_lists` takes the disk as it is. A crash between requests, and at any moment
  of a Sync, is in `YfsCache`.
- A message that is lost or comes twice: the kernel's Send and Reply do not.
- `MkDir` with a name longer than DIRNAMELEN, which writes over what follows the entry.
  Names of one or two characters, which `.` and `..` of a reused block can leave
  behind in part, are one value, `Junk`.
- `inode->reuse`, which nothing reads; file contents beyond whose they are; what Stat
  reports.
- `YfsCache` keeps sequences and functions and `YfsQueue` a single cache: the two are
  not composed. `YfsQueue` shows that the one stands for the other.
- At a `Restart` of `Yfs` all of memory was saved. What Sync in fact leaves behind are
  sizes of removed directories, which nothing leads to; block 0, where pointers are
  only without `direct`; and the inode of a write that failed half way (`Restart`
  therefore requires `direct` and `buffer`).
- 32-bit sums in read and write: they would need a size near INT_MAX, as the position
  stays below the maximal size of a file.

## 8. Plan

What is left is what the proofs do not reach:

- `LookUpAgrees`, `ParentAgrees` and `CreatedIsFound` of `YfsPaths`: an induction over the characters of a
  text.
- A refinement for data and dots together, which needs a `YfsTree` whose new directories may have dots that
  lead elsewhere (`dots`).
- A refinement for a write that fails half way (`big`), which needs a `YfsTree` with a call that fails and
  leaves the file longer.
