------------------------------ MODULE YfsQueue ------------------------------
(* How yfs.c keeps the items of a cache: as nodes of a doubly linked list     *)
(* that are also the values of a hash table with chains.  YfsCache has a      *)
(* sequence and a function for them.                                          *)
(*                                                                             *)
(* The memory malloc returns holds anything, and right_enqueue does not set   *)
(* every pointer of a new item: such a pointer is Junk until it is set.  To   *)
(* test or to follow Junk or NULL is an error, after which anything could     *)
(* happen; the model only notes it.                                           *)
EXTENDS Naturals, Sequences, SequencesExt, FiniteSets

CONSTANTS
  Keys,                 \* the blocks or the inodes
  Capacity,             \* BLOCK_CACHESIZE or INODE_CACHESIZE
  Addrs,                \* where malloc can put an item
  Scanned,              \* the inodes make_free_lists fetches: 1 .. Scanned
  NULL, Junk

(* The cache evicts before it allocates, so as many addresses as items do.  A *)
(* queue that is empty a second time is one of a cache of a single item; the  *)
(* scan of the first block of inodes fetches more than one.                   *)
ASSUME QueueAssumption ==
  /\ Capacity \in Nat /\ Capacity >= 2
  /\ Scanned \in Nat /\ Scanned >= 2
  /\ 1 .. Scanned \subseteq Keys /\ Keys \subseteq Nat
  /\ IsFiniteSet(Addrs) /\ Cardinality(Addrs) >= Capacity
  /\ NULL # Junk /\ NULL \notin Addrs /\ Junk \notin Addrs

VARIABLES
  kind,                 \* whether it is cache_b_queue or cache_i_queue
  scan,                 \* the next inode make_free_lists fetches
  mem
vars == <<kind, scan, mem>>

(* mem is a record                                                            *)
(*   item            [address -> [c_item_num, prev, next]], prev_c_item and   *)
(*                   next_c_item in short                                     *)
(*   q_first, q_last the queue                                                *)
(*   head            the chains of the hash table, as sequences of [key,      *)
(*                   value]                                                   *)
(*   size            cache_b_size or cache_i_size                             *)
(*   bad             an error as above, or a failed assertion                 *)

Buckets == 0 .. Capacity
Pointers == Addrs \cup {NULL, Junk}
Unset == [c_item_num |-> 0, prev |-> Junk, next |-> Junk]

Init ==
  /\ kind \in {"blocks", "inodes"}
  /\ scan = 1
  /\ mem = [item |-> [a \in Addrs |-> Unset], q_first |-> NULL, q_last |-> NULL,
            head |-> [h \in Buckets |-> << >>], size |-> 0, bad |-> FALSE]

-----------------------------------------------------------------------------
(* The hash table has one bucket more than the cache has items.               *)

Bucket(key) == key % (Capacity + 1)

(* The elements of a chain with a key; there is one at most.                  *)
In(m, key) == {k \in DOMAIN m.head[Bucket(key)] : m.head[Bucket(key)][k].key = key}

First(m, key) == CHOOSE k \in In(m, key) : \A j \in In(m, key) : k <= j

QueryHt(m, key) ==
  IF In(m, key) = {} THEN NULL ELSE m.head[Bucket(key)][First(m, key)].value

InsertHt(m, key, value) ==
  [m EXCEPT !.head[Bucket(key)] = <<[key |-> key, value |-> value]>> \o @,
            !.bad = @ \/ QueryHt(m, key) # NULL]

(* Fault: it is always the head of the chain that goes.                       *)
EvictHtHead(m, key) == [m EXCEPT !.head[Bucket(key)] = Tail(@)]

(* evict_ht: the first element with the key goes.                             *)
EvictHt(m, key) ==
  IF In(m, key) = {} THEN m
  ELSE [m EXCEPT !.head[Bucket(key)] = RemoveAt(@, First(m, key))]

-----------------------------------------------------------------------------
(* The queue *)

Tested(m, p) == [m EXCEPT !.bad = @ \/ p = Junk]

(* left_dequeue: the first item goes; its own next_c_item stays.              *)
LeftDequeue(m) ==
  LET first == m.q_first
      next == m.item[first].next
      rest == [Tested(m, next) EXCEPT !.item[first].prev = NULL, !.q_first = next]
  IN  CASE next = NULL   -> [rest EXCEPT !.q_last = NULL]
        [] next \in Addrs -> [rest EXCEPT !.item[next].prev = NULL]
        [] OTHER         -> rest

(* Faults: the item after does not learn of the item before, nor the item     *)
(* before of the item after.                                                  *)
RightDequeueForth(m, a) ==
  LET prev == m.item[a].prev
      next == m.item[a].next
      seen == Tested(Tested(m, next), prev)
  IN  IF prev \notin Addrs THEN LeftDequeue(m)
      ELSE [seen EXCEPT !.item[prev].next = next, !.q_last = IF next = NULL THEN prev ELSE @]

RightDequeueBack(m, a) ==
  LET prev == m.item[a].prev
      next == m.item[a].next
      seen == Tested(Tested(m, next), prev)
  IN  IF prev \notin Addrs THEN LeftDequeue(m)
      ELSE IF next \in Addrs THEN [seen EXCEPT !.item[next].prev = prev]
      ELSE [seen EXCEPT !.q_last = prev]

(* right_dequeue: the item goes wherever it is.                               *)
RightDequeue(m, a) ==
  LET prev == m.item[a].prev
      next == m.item[a].next
      seen == Tested(Tested(m, next), prev)
      past == [seen EXCEPT !.item[prev].next = next]
  IN  IF prev \notin Addrs THEN LeftDequeue(m)
      ELSE CASE next = NULL   -> [past EXCEPT !.q_last = prev]
             [] next \in Addrs -> [past EXCEPT !.item[next].prev = prev]
             [] OTHER         -> past

(* Fault: the new last item keeps its next_c_item.                            *)
RightEnqueueOpen(m, a, queue) ==
  IF m.q_first = NULL
  THEN [m EXCEPT !.item[a].prev = NULL,
                 !.item[a].next = IF queue = "blocks" THEN NULL ELSE @,
                 !.q_first = a, !.q_last = a]
  ELSE [m EXCEPT !.item[m.q_last].next = a, !.item[a].prev = m.q_last, !.q_last = a]

(* right_enqueue: the only item of a queue of inodes keeps its next_c_item.   *)
RightEnqueue(m, a, queue) ==
  IF m.q_first = NULL
  THEN [m EXCEPT !.item[a].prev = NULL,
                 !.item[a].next = IF queue = "blocks" THEN NULL ELSE @,
                 !.q_first = a, !.q_last = a]
  ELSE [m EXCEPT !.item[m.q_last].next = a,
                 !.item[a].prev = m.q_last, !.item[a].next = NULL,
                 !.q_last = a]

-----------------------------------------------------------------------------
(* The cache, as get_b and get_i use these.  (Where the contents come from    *)
(* and go to is in YfsCache.)                                                 *)

Hit(m, x) == RightEnqueue(RightDequeue(m, QueryHt(m, x)), QueryHt(m, x), kind)

(* evict_b and evict_i: the item is freed last.                               *)
Evict(m) ==
  LET lru == m.q_first
      out == EvictHt([LeftDequeue(m) EXCEPT !.size = @ - 1], m.item[lru].c_item_num)
  IN  [out EXCEPT !.item[lru] = Unset]

Miss(m, x, a) ==
  LET new == [m EXCEPT !.item[a] = [Unset EXCEPT !.c_item_num = x]]
      in == RightEnqueue(new, a, kind)
  IN  InsertHt([in EXCEPT !.size = @ + 1], x, a)

InQueue(m) == {a \in Addrs : m.item[a] # Unset}

Fetch(x) ==
  /\ ~mem.bad
  /\ LET room == IF mem.size = Capacity THEN Evict(mem) ELSE mem
     IN  \/ QueryHt(mem, x) # NULL /\ mem' = Hit(mem, x)
         \/ QueryHt(mem, x) = NULL /\ \E a \in Addrs \ InQueue(room) : mem' = Miss(room, x, a)

(* make_free_lists fetches the inodes one after the other.                    *)
Scanning == kind = "inodes" /\ scan <= Scanned
Scan == Scanning /\ Fetch(scan) /\ scan' = scan + 1 /\ UNCHANGED kind

Get(x) == ~Scanning /\ Fetch(x) /\ UNCHANGED <<kind, scan>>

Next == Scan \/ \E x \in Keys : Get(x)

Spec == Init /\ [][Next]_vars

-----------------------------------------------------------------------------
(* Properties *)

(* The items one comes by from an item on, at most n: up to NULL or Junk.     *)
Walk(from, pointer, n) ==
  LET at[k \in 1 .. n] == IF k = 1 THEN from
                          ELSE IF at[k - 1] \in Addrs THEN pointer[at[k - 1]] ELSE NULL
      items == {k \in 1 .. n : at[k] \in Addrs}
  IN  [k \in items |-> at[k]]

Back == Walk(mem.q_last, [a \in Addrs |-> mem.item[a].prev], Capacity + 1)
Forth == Walk(mem.q_first, [a \in Addrs |-> mem.item[a].next], Capacity + 1)

Recent == LET back == Back
          IN  [k \in DOMAIN back |-> mem.item[back[Len(back) + 1 - k]].c_item_num]

(* The list and the table do what a list of the most recent numbers does.     *)
Lru == INSTANCE YfsLru WITH recent <- Recent

ImplementsLru == Lru!Spec

(* handle_sync goes from q_first along next_c_item: it meets every item once, *)
(* and then NULL.                                                             *)
SyncMeetsAll ==
  LET forth == Forth
  IN  kind = "blocks" \/ scan > 2 =>
        /\ forth = Reverse(Back)
        /\ forth # << >> => mem.item[Last(forth)].next = NULL

(* query_ht finds the items of the queue, by their numbers, and no others: no *)
(* chain leads to memory that was freed.                                      *)
TableFindsQueue ==
  LET items == ToSet(Back)
      chained == UNION {ToSet(mem.head[h]) : h \in Buckets}
  IN  /\ \A a \in items : QueryHt(mem, mem.item[a].c_item_num) = a
      /\ chained = {[key |-> mem.item[a].c_item_num, value |-> a] : a \in items}
      /\ mem.size = Cardinality(items)

(* A pointer that right_enqueue left unset is never tested or followed, and   *)
(* insert_ht's assertion holds.                                               *)
NothingUnset == ~mem.bad
=============================================================================
