------------------------------ MODULE YfsCache ------------------------------
(* The two caches of the file server (yfs.c): an LRU cache of disk blocks and, *)
(* on top of it, an LRU cache of inodes.  An evicted inode is copied into its  *)
(* block, which is fetched for the purpose and may evict another block; an     *)
(* evicted block is written to the disk.                                       *)
(*                                                                             *)
(* Each cache is a queue (least recently used first), a hash table from        *)
(* numbers to cache items and a counter.  The hash table is a function whose   *)
(* value is NULL where query_ht returns NULL.  A block is a function from its  *)
(* slots to values: a slot of a table block is an inode, a slot of any other   *)
(* block is one cell of data.                                                  *)
EXTENDS Integers, Sequences

CONSTANTS
  NumBlocks,            \* sectors of the disk, numbered from 0
  NumTable,             \* blocks 1..NumTable hold the inodes
  IPB,                  \* inodes per block: BLOCKSIZE / INODESIZE
  Val,                  \* contents of an inode or of a cell of data
  NULL,                 \* what query_ht returns for an absent key
  BLOCK_CACHESIZE,
  INODE_CACHESIZE,
  UnmarkedStores        \* whether some handler stores without marking dirty

Blocks == 0 .. NumBlocks - 1
TableBlocks == 1 .. NumTable
Inodes == 0 .. IPB * NumTable - 1
Slots == 0 .. IPB - 1

BlockData == [Slots -> Val]
BlockItem == [data : BlockData, dirty : BOOLEAN]
InodeItem == [data : Val, dirty : BOOLEAN]

ASSUME SizesAssumption ==
  /\ NumTable \in Nat \ {0}
  /\ NumBlocks \in Nat
  /\ NumTable < NumBlocks
  /\ IPB \in Nat \ {0}
  /\ BLOCK_CACHESIZE \in Nat \ {0}
  /\ INODE_CACHESIZE \in Nat \ {0}
  /\ UnmarkedStores \in BOOLEAN

ASSUME NullAssumption == NULL \notin BlockItem \cup InodeItem \cup Nat

VARIABLES
  cache,                \* the disk and the caches: see CacheType
  heldB,                \* the block a handler holds a pointer into, or NULL
  sinceB,               \* blocks fetched since it took that pointer
  heldI,                \* the inode a handler holds a pointer to, or NULL
  sinceI,               \* inodes fetched since it took that pointer
  phase,                \* where the server is: see Phases
  pos,                  \* the item of the queue handle_sync has reached
  exiting               \* handle_sync was called by handle_shutdown

vars == <<cache, heldB, sinceB, heldI, sinceI, phase, pos, exiting>>

Phases == {"serve", "blocks", "inodes", "exit"}

CacheType ==
  [disk  : [Blocks -> BlockData],
   bq    : Seq(Blocks),  bht : [Blocks -> BlockItem \cup {NULL}],  bsize : Nat,
   iq    : Seq(Inodes),  iht : [Inodes -> InodeItem \cup {NULL}],  isize : Nat]

-----------------------------------------------------------------------------
(* The queues *)

(* right_dequeue: the item leaves the queue wherever it is.                   *)
Dequeue(q, x) ==
  LET k == CHOOSE k \in 1 .. Len(q) : q[k] = x
  IN  [j \in 1 .. Len(q) - 1 |-> IF j < k THEN q[j] ELSE q[j + 1]]

(* Fault: a hit leaves the queue as it is.                                    *)
TouchNot(q, x) == q

(* A hit moves the item to the end of its queue.                              *)
Touch(q, x) == Append(Dequeue(q, x), x)

-----------------------------------------------------------------------------
(* The block cache *)

(* evict_b writes the block whether it is dirty or not.                       *)
EvictB(c) ==
  LET b == Head(c.bq)
  IN  [c EXCEPT !.disk[b] = c.bht[b].data,
                !.bq = Tail(c.bq),
                !.bht[b] = NULL,
                !.bsize = c.bsize - 1]

(* The miss of get_b, once there is room.                                     *)
ReadB(c, b) ==
  [c EXCEPT !.bq = Append(c.bq, b),
            !.bht[b] = [data |-> c.disk[b], dirty |-> FALSE],
            !.bsize = c.bsize + 1]

GetB(c, b) ==
  IF c.bht[b] # NULL THEN [c EXCEPT !.bq = Touch(c.bq, b)]
  ELSE IF c.bsize = BLOCK_CACHESIZE THEN ReadB(EvictB(c), b)
  ELSE ReadB(c, b)

-----------------------------------------------------------------------------
(* The inode cache *)

BlockOf(i) == i \div IPB + 1

(* Fault: the place of the inode in its block is forgotten.                   *)
SlotOfFirst(i) == 0

SlotOf(i) == i - (BlockOf(i) - 1) * IPB

(* Fault: the counter does not go down.                                       *)
DropIUncounted(c) ==
  [c EXCEPT !.iq = Tail(c.iq), !.iht[Head(c.iq)] = NULL]

(* evict_i: the item leaves the queue and the table, then is copied into its  *)
(* block, and the block is marked.                                            *)
DropI(c) ==
  [c EXCEPT !.iq = Tail(c.iq),
            !.iht[Head(c.iq)] = NULL,
            !.isize = c.isize - 1]

CopyI(c, i, v) ==
  [c EXCEPT !.bht[BlockOf(i)] =
     [data |-> [@.data EXCEPT ![SlotOf(i)] = v], dirty |-> TRUE]]

(* Fault: the dirty flag is tested, and the wrong way round.                  *)
EvictIClean(c) ==
  LET i == Head(c.iq)
  IN  IF c.iht[i].dirty THEN DropI(c)
      ELSE CopyI(GetB(DropI(c), BlockOf(i)), i, c.iht[i].data)

EvictI(c) ==
  LET i == Head(c.iq)
  IN  CopyI(GetB(DropI(c), BlockOf(i)), i, c.iht[i].data)

(* The miss of get_i, once there is room.  The dirty flag of the new item is  *)
(* never initialised: d is whatever malloc returned.                          *)
ReadI(c, i, d) ==
  LET g == GetB(c, BlockOf(i))
  IN  [g EXCEPT !.iq = Append(g.iq, i),
                !.iht[i] = [data |-> g.bht[BlockOf(i)].data[SlotOf(i)], dirty |-> d],
                !.isize = g.isize + 1]

GetI(c, i, d) ==
  IF c.iht[i] # NULL THEN [c EXCEPT !.iq = Touch(c.iq, i)]
  ELSE IF c.isize = INODE_CACHESIZE THEN ReadI(EvictI(c), i, d)
  ELSE ReadI(c, i, d)

-----------------------------------------------------------------------------
(* What the handlers do with the caches.  A handler keeps at most one pointer  *)
(* into a block and one to an inode across further calls of get_b and get_i,   *)
(* and it makes fewer such calls than the cache has items: the guards on       *)
(* sinceB and sinceI bound that number.                                        *)

Idle == heldB = NULL /\ heldI = NULL

(* One more fetch of block b: the pointer into heldB has to survive n others. *)
RoomB(n) == heldB # NULL => sinceB + n < BLOCK_CACHESIZE
RoomI    == heldI # NULL => sinceI + 1 < INODE_CACHESIZE

Init ==
  /\ cache \in {[disk  |-> d,
                 bq    |-> << >>, bht |-> [b \in Blocks |-> NULL], bsize |-> 0,
                 iq    |-> << >>, iht |-> [i \in Inodes |-> NULL], isize |-> 0] :
                d \in [Blocks -> BlockData]}
  /\ heldB = NULL /\ sinceB = 0
  /\ heldI = NULL /\ sinceI = 0
  /\ phase = "serve" /\ pos = 1 /\ exiting = FALSE

(* block = get_b(b), for a block outside the inode table; the handler keeps   *)
(* the pointer it held or replaces it by the new one.                         *)
GetBlock(b) ==
  /\ phase = "serve"
  /\ b \notin TableBlocks
  /\ cache' = GetB(cache, b)
  /\ \/ heldB' = b /\ sinceB' = 0
     \/ heldB # NULL /\ RoomB(1) /\ heldB' = heldB /\ sinceB' = sinceB + 1
  /\ UNCHANGED <<heldI, sinceI, phase, pos, exiting>>

(* inode = get_i(i): it fetches up to two blocks.                             *)
GetInode(i) ==
  /\ phase = "serve"
  /\ RoomB(2)
  /\ \E d \in BOOLEAN : cache' = GetI(cache, i, d)
  /\ sinceB' = IF heldB = NULL THEN 0 ELSE sinceB + 2
  /\ \/ heldI' = i /\ sinceI' = 0
     \/ heldI # NULL /\ RoomI /\ heldI' = heldI /\ sinceI' = sinceI + 1
  /\ UNCHANGED <<heldB, phase, pos, exiting>>

(* A store through the pointer into the block, then                           *)
(* query_ht(b_ht, b_num)->dirty = true.                                       *)
StoreBlock(s, v) ==
  /\ phase = "serve"
  /\ heldB # NULL
  /\ cache' = [cache EXCEPT !.bht[heldB] =
                 [data |-> [@.data EXCEPT ![s] = v], dirty |-> TRUE]]
  /\ UNCHANGED <<heldB, sinceB, heldI, sinceI, phase, pos, exiting>>

(* get_nth_b stores the new block number into the indirect block and does     *)
(* not mark it.                                                               *)
StoreIndirect(s, v) ==
  /\ UnmarkedStores
  /\ phase = "serve"
  /\ heldB # NULL
  /\ cache' = [cache EXCEPT !.bht[heldB] =
                 [data |-> [@.data EXCEPT ![s] = v], dirty |-> @.dirty]]
  /\ UNCHANGED <<heldB, sinceB, heldI, sinceI, phase, pos, exiting>>

StoreInode(v) ==
  /\ phase = "serve"
  /\ heldI # NULL
  /\ cache' = [cache EXCEPT !.iht[heldI] = [data |-> v, dirty |-> TRUE]]
  /\ UNCHANGED <<heldB, sinceB, heldI, sinceI, phase, pos, exiting>>

(* handle_rmdir empties the directory's inode and does not mark it.           *)
ClearFile(v) ==
  /\ UnmarkedStores
  /\ phase = "serve"
  /\ heldI # NULL
  /\ cache' = [cache EXCEPT !.iht[heldI] = [data |-> v, dirty |-> @.dirty]]
  /\ UNCHANGED <<heldB, sinceB, heldI, sinceI, phase, pos, exiting>>

(* The handler returns and its pointers are gone.                             *)
Return ==
  /\ phase = "serve"
  /\ ~Idle
  /\ heldB' = NULL /\ sinceB' = 0
  /\ heldI' = NULL /\ sinceI' = 0
  /\ UNCHANGED <<cache, phase, pos, exiting>>

-----------------------------------------------------------------------------
(* handle_sync, one turn of a loop at a time *)

SyncBegin(down) ==
  /\ phase = "serve"
  /\ Idle
  /\ phase' = "blocks" /\ pos' = 1 /\ exiting' = down
  /\ UNCHANGED <<cache, heldB, sinceB, heldI, sinceI>>

SyncBlock ==
  /\ phase = "blocks"
  /\ pos <= Len(cache.bq)
  /\ LET b == cache.bq[pos]
     IN  cache' = IF cache.bht[b].dirty
                  THEN [cache EXCEPT !.disk[b] = cache.bht[b].data]
                  ELSE cache
  /\ pos' = pos + 1
  /\ UNCHANGED <<heldB, sinceB, heldI, sinceI, phase, exiting>>

SyncBlocksDone ==
  /\ phase = "blocks"
  /\ pos > Len(cache.bq)
  /\ phase' = "inodes" /\ pos' = 1
  /\ UNCHANGED <<cache, heldB, sinceB, heldI, sinceI, exiting>>

(* Fault: the block is not written.                                           *)
WriteIStaged(c, i) == CopyI(GetB(c, BlockOf(i)), i, c.iht[i].data)

(* The inode is copied into its block and the block is written; the block is  *)
(* not marked.                                                                *)
WriteI(c, i) ==
  LET g   == GetB(c, BlockOf(i))
      new == [g.bht[BlockOf(i)].data EXCEPT ![SlotOf(i)] = c.iht[i].data]
  IN  [g EXCEPT !.bht[BlockOf(i)] = [data |-> new, dirty |-> @.dirty],
                !.disk[BlockOf(i)] = new]

SyncInode ==
  /\ phase = "inodes"
  /\ pos <= Len(cache.iq)
  /\ LET i == cache.iq[pos]
     IN  cache' = IF cache.iht[i].dirty THEN WriteI(cache, i) ELSE cache
  /\ pos' = pos + 1
  /\ UNCHANGED <<heldB, sinceB, heldI, sinceI, phase, exiting>>

SyncEnd ==
  /\ phase = "inodes"
  /\ pos > Len(cache.iq)
  /\ phase' = IF exiting THEN "exit" ELSE "serve"
  /\ UNCHANGED <<cache, heldB, sinceB, heldI, sinceI, pos, exiting>>

(* The process ends (Exit in handle_shutdown, or a crash at any other moment) *)
(* and is started again on the same disk: make_free_lists creates both caches *)
(* empty.                                                                     *)
Restart ==
  /\ cache' = [cache EXCEPT !.bq = << >>, !.bht = [b \in Blocks |-> NULL], !.bsize = 0,
                            !.iq = << >>, !.iht = [i \in Inodes |-> NULL], !.isize = 0]
  /\ heldB' = NULL /\ sinceB' = 0
  /\ heldI' = NULL /\ sinceI' = 0
  /\ phase' = "serve" /\ pos' = 1 /\ exiting' = FALSE

Next ==
  \/ \E b \in Blocks : GetBlock(b)
  \/ \E i \in Inodes : GetInode(i)
  \/ \E s \in Slots, v \in Val : StoreBlock(s, v)
  \/ \E s \in Slots, v \in Val : StoreIndirect(s, v)
  \/ \E v \in Val : StoreInode(v)
  \/ \E v \in Val : ClearFile(v)
  \/ Return
  \/ \E down \in BOOLEAN : SyncBegin(down)
  \/ SyncBlock
  \/ SyncBlocksDone
  \/ SyncInode
  \/ SyncEnd
  \/ Restart

Spec == Init /\ [][Next]_vars
-----------------------------------------------------------------------------
(* Properties *)

(* A cache's queue lists the keys of its hash table, each once, and its       *)
(* counter is the length of the queue: the test  size == CACHESIZE  of get_b   *)
(* and get_i is what keeps the cache bounded, and the assertion of insert_ht   *)
(* (query_ht(ht, key) == NULL) holds because no item is listed twice.          *)
QueueOK(q, ht, size, max) ==
  /\ size = Len(q)
  /\ size <= max
  /\ \A j, k \in 1 .. Len(q) : q[j] = q[k] => j = k
  /\ \A j \in 1 .. Len(q) : ht[q[j]] # NULL
  /\ \A x \in DOMAIN ht : ht[x] # NULL => \E j \in 1 .. Len(q) : q[j] = x

(* Type invariant: the variables have their types and queue, table and        *)
(* counter of each cache (b_ht/cache_b_queue/cache_b_size and the inode's)     *)
(* describe the same set of items.                                            *)
CacheOK ==
  /\ cache \in CacheType
  /\ QueueOK(cache.bq, cache.bht, cache.bsize, BLOCK_CACHESIZE)
  /\ QueueOK(cache.iq, cache.iht, cache.isize, INODE_CACHESIZE)
  /\ heldB \in (Blocks \ TableBlocks) \cup {NULL} /\ sinceB \in Nat
  /\ heldI \in Inodes \cup {NULL} /\ sinceI \in Nat
  /\ phase \in Phases /\ pos \in Nat \ {0} /\ exiting \in BOOLEAN

(* A pointer that get_b or get_i returned still points into the cache when    *)
(* the handler stores through it, although other fetches came in between:      *)
(* handle_unlink and get_create_file fetch inodes between taking dir_entry and *)
(* storing into it, and the item's memory is freed when it is evicted.         *)
HeldIsLive ==
  /\ heldB # NULL => cache.bht[heldB] # NULL
  /\ heldI # NULL => cache.iht[heldI] # NULL

(* The objects of the abstract store are all the slots of the disk; the slots *)
(* of the table blocks are the inodes.                                        *)
Objects == Blocks \X Slots
InodeAt(b, s) == (b - 1) * IPB + s

StagedIn(c, b, s) == IF c.bht[b] # NULL THEN c.bht[b].data[s] ELSE c.disk[b][s]
MemIn(c, b, s) ==
  IF b \in TableBlocks /\ c.iht[InodeAt(b, s)] # NULL
  THEN c.iht[InodeAt(b, s)].data
  ELSE StagedIn(c, b, s)

(* When handle_sync is about to return, and when handle_shutdown exits, the   *)
(* disk holds what the handlers would read: every inode is in its block and    *)
(* every block is on the disk, in spite of the blocks that the copying of      *)
(* inodes evicts and fetches meanwhile.                                        *)
SyncSaves ==
  \/ phase = "exit"
  \/ phase = "inodes" /\ pos > Len(cache.iq)
  => \A b \in Blocks, s \in Slots : cache.disk[b][s] = MemIn(cache, b, s)

(* The caches implement the store the handlers are written against: no fetch  *)
(* and no eviction changes what a handler reads, values reach the disk without *)
(* ever going back to an older one, and Sync returns when all have arrived.    *)
Abstract == INSTANCE YfsStore WITH
  mem     <- [o \in Objects |-> MemIn(cache, o[1], o[2])],
  staged  <- [o \in Objects |-> StagedIn(cache, o[1], o[2])],
  saved   <- [o \in Objects |-> cache.disk[o[1]][o[2]]],
  syncing <- phase \in {"blocks", "inodes"}

ImplementsStore == Abstract!Spec
=============================================================================
