--------------------------- MODULE YfsCacheProofs ---------------------------
(* Theorems about YfsCache, for every size of the disk and of the caches; the *)
(* last is that it implements the store of YfsStore.                          *)
EXTENDS YfsCache, TLAPS

(* y is in the queue with at most d items behind it.                          *)
Recent(q, y, d) == \E k \in 1 .. Len(q) : q[k] = y /\ Len(q) - k <= d

-----------------------------------------------------------------------------
(* Queues *)

(* Dequeue removes exactly the item it is asked to remove.                    *)
LEMMA DequeueFacts ==
  ASSUME NEW S, NEW q \in Seq(S), NEW k \in 1 .. Len(q), NEW x, q[k] = x,
         \A i, j \in 1 .. Len(q) : q[i] = q[j] => i = j
  PROVE  /\ Dequeue(q, x) \in Seq(S)
         /\ Len(Dequeue(q, x)) = Len(q) - 1
         /\ \A j \in 1 .. Len(q) - 1 :
              Dequeue(q, x)[j] = IF j < k THEN q[j] ELSE q[j + 1]
<1> DEFINE D == [j \in 1 .. Len(q) - 1 |-> IF j < k THEN q[j] ELSE q[j + 1]]
<1>1. (CHOOSE i \in 1 .. Len(q) : q[i] = x) = k
  OBVIOUS
<1>2. Dequeue(q, x) = D
  BY <1>1 DEF Dequeue
<1>3. Len(q) - 1 \in Nat
  OBVIOUS
<1>4. D \in [1 .. Len(q) - 1 -> S]
  OBVIOUS
<1>5. D \in Seq(S) /\ Len(D) = Len(q) - 1
  BY <1>3, <1>4
<1> QED
  BY <1>2, <1>5

(* A hit keeps the queue in step with the table and moves every other item    *)
(* back by at most one place.                                                 *)
LEMMA TouchFacts ==
  ASSUME NEW S, NEW q \in Seq(S), NEW ht, NEW size, NEW max, NEW x \in DOMAIN ht,
         QueueOK(q, ht, size, max), ht[x] # NULL
  PROVE  /\ Touch(q, x) \in Seq(S)
         /\ QueueOK(Touch(q, x), ht, size, max)
         /\ Recent(Touch(q, x), x, 0)
         /\ \A y, d : d \in Nat /\ Recent(q, y, d) => Recent(Touch(q, x), y, d + 1)
<1>1. PICK k \in 1 .. Len(q) : q[k] = x
  BY DEF QueueOK
<1> DEFINE D == Dequeue(q, x)
           T == Touch(q, x)
<1>2. /\ D \in Seq(S)
      /\ Len(D) = Len(q) - 1
      /\ \A j \in 1 .. Len(q) - 1 : D[j] = IF j < k THEN q[j] ELSE q[j + 1]
  <2>1. \A i, j \in 1 .. Len(q) : q[i] = q[j] => i = j
    BY DEF QueueOK
  <2> QED
    BY <1>1, <2>1, DequeueFacts
<1>3. T \in Seq(S) /\ Len(T) = Len(q) /\ T[Len(q)] = x
  BY <1>1, <1>2 DEF Touch
<1>4. \A j \in 1 .. Len(q) - 1 : T[j] = IF j < k THEN q[j] ELSE q[j + 1]
  BY <1>1, <1>2 DEF Touch
<1> HIDE DEF D, T
<1>5. QueueOK(T, ht, size, max)
  <2>1. size = Len(T) /\ size <= max
    BY <1>3 DEF QueueOK
  <2>2. \A i, j \in 1 .. Len(q) : q[i] = q[j] => i = j
    BY DEF QueueOK
  <2>3. \A i, j \in 1 .. Len(T) : T[i] = T[j] => i = j
    BY <1>1, <1>3, <1>4, <2>2
  <2>4. \A j \in 1 .. Len(q) : ht[q[j]] # NULL
    BY DEF QueueOK
  <2>5. \A j \in 1 .. Len(T) : ht[T[j]] # NULL
    BY <1>1, <1>3, <1>4, <2>4
  <2>6. \A m \in 1 .. Len(q) : \E j \in 1 .. Len(T) : T[j] = q[m]
    <3> SUFFICES ASSUME NEW m \in 1 .. Len(q)
                 PROVE  \E j \in 1 .. Len(T) : T[j] = q[m]
      OBVIOUS
    <3>1. CASE m < k
      BY <1>1, <1>3, <1>4, <3>1
    <3>2. CASE m = k
      BY <1>1, <1>3, <3>2
    <3>3. CASE m > k
      <4>1. m - 1 \in 1 .. Len(q) - 1 /\ T[m - 1] = q[m]
        BY <1>1, <1>3, <1>4, <3>3
      <4> QED
        BY <1>3, <4>1
    <3> QED
      BY <3>1, <3>2, <3>3
  <2>7. \A y \in DOMAIN ht : ht[y] # NULL => \E j \in 1 .. Len(T) : T[j] = y
    BY <2>6, SMTT(20) DEF QueueOK
  <2> QED
    BY <2>1, <2>3, <2>5, <2>7 DEF QueueOK
<1>6. Recent(T, x, 0)
  BY <1>1, <1>3 DEF Recent
<1>7. ASSUME NEW y, NEW d, d \in Nat, Recent(q, y, d)
      PROVE  Recent(T, y, d + 1)
  <2>1. PICK m \in 1 .. Len(q) : q[m] = y /\ Len(q) - m <= d
    BY <1>7 DEF Recent
  <2>2. CASE m < k
    BY <1>1, <1>3, <1>4, <1>7, <2>1, <2>2 DEF Recent
  <2>3. CASE m = k
    BY <1>1, <1>3, <1>7, <2>1, <2>3 DEF Recent
  <2>4. CASE m > k
    <3>1. m - 1 \in 1 .. Len(T) /\ T[m - 1] = y /\ Len(T) - (m - 1) <= d + 1
      BY <1>1, <1>3, <1>4, <1>7, <2>1, <2>4
    <3> QED
      BY <3>1 DEF Recent
  <2> QED
    BY <2>2, <2>3, <2>4
<1> QED
  BY <1>3, <1>5, <1>6, <1>7 DEF T

(* Evicting the least recently used item: every item with fewer items behind  *)
(* it than the cache holds keeps its place counted from the end.              *)
LEMMA DropFacts ==
  ASSUME NEW S, NEW q \in Seq(S), NEW ht, NEW size, NEW max,
         max \in Nat, DOMAIN ht = S, QueueOK(q, ht, size, max), Len(q) > 0
  PROVE  /\ Head(q) \in S
         /\ Tail(q) \in Seq(S)
         /\ QueueOK(Tail(q), [ht EXCEPT ![Head(q)] = NULL], size - 1, max)
         /\ \A y, d : d \in Nat /\ d + 1 < Len(q) /\ Recent(q, y, d)
                      => Recent(Tail(q), y, d) /\ y # Head(q)
<1> DEFINE t == Tail(q)
           h == [ht EXCEPT ![Head(q)] = NULL]
<1>1. /\ Head(q) = q[1] /\ Head(q) \in S /\ t \in Seq(S) /\ Len(t) = Len(q) - 1
      /\ \A j \in 1 .. Len(t) : t[j] = q[j + 1]
  OBVIOUS
<1>2. /\ \A i, j \in 1 .. Len(q) : q[i] = q[j] => i = j
      /\ \A j \in 1 .. Len(q) : ht[q[j]] # NULL
      /\ \A y \in S : ht[y] # NULL => \E j \in 1 .. Len(q) : q[j] = y
      /\ size = Len(q) /\ size <= max
  BY DEF QueueOK
<1> HIDE DEF t
<1>3. size - 1 = Len(t) /\ size - 1 <= max
  BY <1>1, <1>2
<1>4. \A i, j \in 1 .. Len(t) : t[i] = t[j] => i = j
  BY <1>1, <1>2
<1>5. \A j \in 1 .. Len(t) : h[t[j]] # NULL
  <2> SUFFICES ASSUME NEW j \in 1 .. Len(t) PROVE h[t[j]] # NULL
    OBVIOUS
  <2>1. j + 1 \in 1 .. Len(q) /\ 1 \in 1 .. Len(q) /\ j + 1 # 1
    BY <1>1
  <2>2. t[j] \in S /\ t[j] # Head(q) /\ ht[t[j]] # NULL
    BY <1>1, <1>2, <2>1, SMTT(20)
  <2> QED
    BY <2>2
<1>6. \A y \in DOMAIN h : h[y] # NULL => \E j \in 1 .. Len(t) : t[j] = y
  <2> SUFFICES ASSUME NEW y \in S, h[y] # NULL
               PROVE  \E j \in 1 .. Len(t) : t[j] = y
    OBVIOUS
  <2>1. y # q[1] /\ ht[y] # NULL
    BY <1>1
  <2>2. PICK j \in 1 .. Len(q) : q[j] = y
    BY <1>2, <2>1
  <2>3. j - 1 \in 1 .. Len(t) /\ t[j - 1] = y
    BY <1>1, <2>1, <2>2
  <2> QED
    BY <2>3
<1>7. ASSUME NEW y, NEW d, d \in Nat, d + 1 < Len(q), Recent(q, y, d)
      PROVE  Recent(t, y, d) /\ y # Head(q)
  <2>1. PICK m \in 1 .. Len(q) : q[m] = y /\ Len(q) - m <= d
    BY <1>7 DEF Recent
  <2>2. m # 1
    BY <1>7, <2>1
  <2>3. m - 1 \in 1 .. Len(t) /\ t[m - 1] = y /\ Len(t) - (m - 1) <= d
    BY <1>1, <2>1, <2>2
  <2> QED
    BY <1>1, <1>2, <2>1, <2>2, <2>3 DEF Recent
<1> QED
  BY <1>1, <1>3, <1>4, <1>5, <1>6, <1>7 DEF QueueOK, t

(* The item added at the end has nothing behind it, the others one item more. *)
LEMMA AppendRecent ==
  ASSUME NEW S, NEW q \in Seq(S), NEW x \in S
  PROVE  /\ Append(q, x) \in Seq(S)
         /\ Recent(Append(q, x), x, 0)
         /\ \A y, d : d \in Nat /\ Recent(q, y, d) => Recent(Append(q, x), y, d + 1)
<1> DEFINE a == Append(q, x)
<1>1. /\ a \in Seq(S) /\ Len(a) = Len(q) + 1 /\ a[Len(q) + 1] = x
      /\ \A j \in 1 .. Len(q) : a[j] = q[j]
  OBVIOUS
<1> HIDE DEF a
<1>2. Recent(a, x, 0)
  BY <1>1 DEF Recent
<1>3. ASSUME NEW y, NEW d, d \in Nat, Recent(q, y, d)
      PROVE  Recent(a, y, d + 1)
  BY <1>1, <1>3 DEF Recent
<1> QED
  BY <1>1, <1>2, <1>3 DEF a

(* A miss with room adds the item at the end.                                 *)
LEMMA AddFacts ==
  ASSUME NEW S, NEW q \in Seq(S), NEW ht, NEW size, NEW max, NEW x \in S, NEW e,
         DOMAIN ht = S, QueueOK(q, ht, size, max), max \in Nat, size # max, ht[x] = NULL, e # NULL
  PROVE  QueueOK(Append(q, x), [ht EXCEPT ![x] = e], size + 1, max)
<1> DEFINE a == Append(q, x)
           h == [ht EXCEPT ![x] = e]
<1>1. /\ a \in Seq(S) /\ Len(a) = Len(q) + 1 /\ a[Len(q) + 1] = x
      /\ \A j \in 1 .. Len(q) : a[j] = q[j]
  OBVIOUS
<1>2. /\ \A i, j \in 1 .. Len(q) : q[i] = q[j] => i = j
      /\ \A j \in 1 .. Len(q) : ht[q[j]] # NULL
      /\ \A y \in S : ht[y] # NULL => \E j \in 1 .. Len(q) : q[j] = y
      /\ size = Len(q) /\ size <= max
  BY DEF QueueOK
<1> HIDE DEF a
<1>3. size + 1 = Len(a) /\ size + 1 <= max
  BY <1>1, <1>2
<1>4. \A i, j \in 1 .. Len(a) : a[i] = a[j] => i = j
  BY <1>1, <1>2
<1>5. \A j \in 1 .. Len(a) : h[a[j]] # NULL
  BY <1>1, <1>2
<1>6. \A y \in DOMAIN h : h[y] # NULL => \E j \in 1 .. Len(a) : a[j] = y
  <2> SUFFICES ASSUME NEW y \in S, h[y] # NULL
               PROVE  \E j \in 1 .. Len(a) : a[j] = y
    OBVIOUS
  <2>1. CASE y = x
    BY <1>1, <2>1
  <2>2. CASE y # x
    BY <1>1, <1>2, <2>2
  <2> QED
    BY <2>1, <2>2
<1> QED
  BY <1>1, <1>3, <1>4, <1>5, <1>6 DEF QueueOK, a

-----------------------------------------------------------------------------
(* The block cache *)

BothOK(c) ==
  /\ c \in CacheType
  /\ QueueOK(c.bq, c.bht, c.bsize, BLOCK_CACHESIZE)
  /\ QueueOK(c.iq, c.iht, c.isize, INODE_CACHESIZE)

(* What becomes of the blocks when d takes the place of c: the values the     *)
(* block cache holds or would read stay, and the disk only receives them.      *)
BlocksKept(c, d) ==
  /\ \A b \in Blocks, s \in Slots : StagedIn(d, b, s) = StagedIn(c, b, s)
  /\ \A b \in Blocks :
       d.disk[b] # c.disk[b] => c.bht[b] # NULL /\ d.disk[b] = c.bht[b].data
  /\ \A b \in Blocks : d.bht[b] # NULL =>
       \/ d.bht[b] = c.bht[b]
       \/ d.bht[b] = [data |-> d.disk[b], dirty |-> FALSE]

SameInodes(c, d) == d.iq = c.iq /\ d.iht = c.iht /\ d.isize = c.isize

LEMMA NullFacts ==
  /\ \A e \in BlockItem : e # NULL
  /\ \A e \in InodeItem : e # NULL
BY NullAssumption

LEMMA EvictBFacts ==
  ASSUME NEW c, BothOK(c), c.bsize = BLOCK_CACHESIZE
  PROVE  /\ BothOK(EvictB(c)) /\ SameInodes(c, EvictB(c)) /\ BlocksKept(c, EvictB(c))
         /\ EvictB(c).bsize # BLOCK_CACHESIZE
         /\ \A b \in Blocks : c.bht[b] = NULL => EvictB(c).bht[b] = NULL
         /\ \A y, d : d \in Nat /\ d + 1 < BLOCK_CACHESIZE /\ Recent(c.bq, y, d)
                      => Recent(EvictB(c).bq, y, d)
<1> DEFINE e == EvictB(c)
           h == Head(c.bq)
<1>1. /\ c \in CacheType /\ BLOCK_CACHESIZE \in Nat \ {0} /\ Len(c.bq) = BLOCK_CACHESIZE
      /\ c.bq \in Seq(Blocks) /\ c.bht \in [Blocks -> BlockItem \cup {NULL}] /\ Len(c.bq) > 0
      /\ c.disk \in [Blocks -> BlockData] /\ c.bsize \in Nat
  BY SizesAssumption DEF BothOK, QueueOK, CacheType
<1>2. /\ h \in Blocks /\ Tail(c.bq) \in Seq(Blocks)
      /\ QueueOK(Tail(c.bq), [c.bht EXCEPT ![h] = NULL], c.bsize - 1, BLOCK_CACHESIZE)
      /\ \A y, d : d \in Nat /\ d + 1 < Len(c.bq) /\ Recent(c.bq, y, d)
                   => Recent(Tail(c.bq), y, d) /\ y # h
  <2>1. DOMAIN c.bht = Blocks /\ QueueOK(c.bq, c.bht, c.bsize, BLOCK_CACHESIZE)
    BY <1>1 DEF BothOK
  <2> QED
    BY <1>1, <2>1, DropFacts
<1>3. c.bht[h] # NULL
  BY <1>1 DEF BothOK, QueueOK
<1>4. c.bht[h] \in BlockItem
  BY <1>1, <1>2, <1>3
<1>5. /\ e.disk = [c.disk EXCEPT ![h] = c.bht[h].data]
      /\ e.bq = Tail(c.bq) /\ e.bht = [c.bht EXCEPT ![h] = NULL] /\ e.bsize = c.bsize - 1
      /\ SameInodes(c, e)
  BY <1>1 DEF EvictB, CacheType, SameInodes
<1>6. e \in CacheType
  <2>1. /\ [c.disk EXCEPT ![h] = c.bht[h].data] \in [Blocks -> BlockData]
        /\ [c.bht EXCEPT ![h] = NULL] \in [Blocks -> BlockItem \cup {NULL}]
        /\ c.bsize - 1 \in Nat
    BY <1>1, <1>4 DEF BlockItem
  <2> QED
    BY <1>1, <1>2, <2>1 DEF EvictB, CacheType
<1>7. BothOK(e)
  BY <1>2, <1>5, <1>6 DEF BothOK, SameInodes
<1>8. BlocksKept(c, e)
  <2>1. \A b \in Blocks :
           IF b = h THEN e.disk[b] = c.bht[b].data /\ e.bht[b] = NULL
                    ELSE e.disk[b] = c.disk[b] /\ e.bht[b] = c.bht[b]
    BY <1>1, <1>2, <1>5
  <2> HIDE DEF e, h
  <2>2. \A b \in Blocks, s \in Slots : StagedIn(e, b, s) = StagedIn(c, b, s)
    BY <1>3, <2>1 DEF StagedIn
  <2> QED
    BY <1>3, <2>1, <2>2 DEF BlocksKept
<1>9. \A b \in Blocks : c.bht[b] = NULL => e.bht[b] = NULL
  BY <1>1, <1>2, <1>5
<1> HIDE DEF e
<1> QED
  BY <1>1, <1>2, <1>5, <1>7, <1>8, <1>9 DEF e

LEMMA ReadBFacts ==
  ASSUME NEW c, BothOK(c), NEW b \in Blocks, c.bsize # BLOCK_CACHESIZE, c.bht[b] = NULL
  PROVE  /\ BothOK(ReadB(c, b)) /\ SameInodes(c, ReadB(c, b)) /\ BlocksKept(c, ReadB(c, b))
         /\ ReadB(c, b).bht[b] # NULL
         /\ Recent(ReadB(c, b).bq, b, 0)
         /\ \A y, d : d \in Nat /\ Recent(c.bq, y, d) => Recent(ReadB(c, b).bq, y, d + 1)
<1> DEFINE r == ReadB(c, b)
           new == [data |-> c.disk[b], dirty |-> FALSE]
<1>1. /\ c \in CacheType /\ BLOCK_CACHESIZE \in Nat
      /\ c.bq \in Seq(Blocks) /\ c.bht \in [Blocks -> BlockItem \cup {NULL}]
      /\ c.disk \in [Blocks -> BlockData] /\ c.bsize \in Nat
  BY SizesAssumption DEF BothOK, CacheType
<1>2. new \in BlockItem /\ new # NULL
  BY <1>1, NullFacts DEF BlockItem
<1>3. /\ Append(c.bq, b) \in Seq(Blocks)
      /\ QueueOK(Append(c.bq, b), [c.bht EXCEPT ![b] = new], c.bsize + 1, BLOCK_CACHESIZE)
      /\ Recent(Append(c.bq, b), b, 0)
      /\ \A y, d : d \in Nat /\ Recent(c.bq, y, d) => Recent(Append(c.bq, b), y, d + 1)
  <2>1. DOMAIN c.bht = Blocks /\ QueueOK(c.bq, c.bht, c.bsize, BLOCK_CACHESIZE)
    BY <1>1 DEF BothOK
  <2> HIDE DEF new
  <2>2. new # NULL /\ c.bsize # BLOCK_CACHESIZE /\ c.bht[b] = NULL
    BY <1>2
  <2>3. Append(c.bq, b) \in Seq(Blocks) /\ Recent(Append(c.bq, b), b, 0)
    BY <1>1, AppendRecent
  <2>5. \A y, d : d \in Nat /\ Recent(c.bq, y, d) => Recent(Append(c.bq, b), y, d + 1)
    BY <1>1, AppendRecent
  <2>4. QueueOK(Append(c.bq, b), [c.bht EXCEPT ![b] = new], c.bsize + 1, BLOCK_CACHESIZE)
    BY <1>1, <2>1, <2>2, AddFacts
  <2> QED
    BY <2>3, <2>4, <2>5
<1>5. /\ r.disk = c.disk /\ r.bq = Append(c.bq, b)
      /\ r.bht = [c.bht EXCEPT ![b] = new] /\ r.bsize = c.bsize + 1
      /\ SameInodes(c, r)
  BY <1>1 DEF ReadB, CacheType, SameInodes
<1>6. r \in CacheType
  <2>1. [c.bht EXCEPT ![b] = new] \in [Blocks -> BlockItem \cup {NULL}] /\ c.bsize + 1 \in Nat
    BY <1>1, <1>2
  <2> QED
    BY <1>1, <1>3, <2>1 DEF ReadB, CacheType
<1>7. BothOK(r)
  BY <1>3, <1>5, <1>6 DEF BothOK, SameInodes
<1>8. BlocksKept(c, r) /\ r.bht[b] # NULL
  <2>1. \A a \in Blocks : r.bht[a] = IF a = b THEN new ELSE c.bht[a]
    BY <1>1, <1>5
  <2>2. new.data = c.disk[b]
    OBVIOUS
  <2> HIDE DEF r
  <2>3. \A a \in Blocks, s \in Slots : StagedIn(r, a, s) = StagedIn(c, a, s)
    BY <1>2, <1>5, <2>1, <2>2 DEF StagedIn
  <2> QED
    BY <1>2, <1>5, <2>1, <2>3 DEF BlocksKept
<1> HIDE DEF r, new
<1> QED
  BY <1>3, <1>5, <1>7, <1>8 DEF r

(* get_b: the block is in the cache afterwards, nothing a handler reads has   *)
(* changed, and a pointer that fewer than BLOCK_CACHESIZE fetches have        *)
(* followed still points into the cache.                                      *)
LEMMA GetBFacts ==
  ASSUME NEW c, BothOK(c), NEW b \in Blocks
  PROVE  /\ BothOK(GetB(c, b)) /\ SameInodes(c, GetB(c, b)) /\ BlocksKept(c, GetB(c, b))
         /\ GetB(c, b).bht[b] # NULL
         /\ Recent(GetB(c, b).bq, b, 0)
         /\ \A y, d : d \in Nat /\ d + 1 < BLOCK_CACHESIZE /\ Recent(c.bq, y, d)
                      => Recent(GetB(c, b).bq, y, d + 1)
<1>1. CASE c.bht[b] # NULL
  <2> DEFINE t == [c EXCEPT !.bq = Touch(c.bq, b)]
  <2>1. /\ c \in CacheType
        /\ c.bq \in Seq(Blocks) /\ c.bht \in [Blocks -> BlockItem \cup {NULL}]
        /\ QueueOK(c.bq, c.bht, c.bsize, BLOCK_CACHESIZE)
    BY DEF BothOK, CacheType
  <2>2. /\ Touch(c.bq, b) \in Seq(Blocks)
        /\ QueueOK(Touch(c.bq, b), c.bht, c.bsize, BLOCK_CACHESIZE)
        /\ Recent(Touch(c.bq, b), b, 0)
        /\ \A y, d : d \in Nat /\ Recent(c.bq, y, d) => Recent(Touch(c.bq, b), y, d + 1)
    <3>1. b \in DOMAIN c.bht
      BY <2>1
    <3> QED
      BY <1>1, <2>1, <3>1, TouchFacts
  <2>3. /\ GetB(c, b) = t /\ t \in CacheType /\ t.bq = Touch(c.bq, b)
        /\ t.disk = c.disk /\ t.bht = c.bht /\ t.bsize = c.bsize /\ SameInodes(c, t)
    BY <1>1, <2>1, <2>2 DEF GetB, CacheType, SameInodes
  <2> HIDE DEF t
  <2>4. BothOK(t)
    BY <2>2, <2>3 DEF BothOK, SameInodes
  <2>5. BlocksKept(c, t)
    BY <2>3 DEF BlocksKept, StagedIn
  <2> QED
    BY <1>1, <2>2, <2>3, <2>4, <2>5
<1>2. CASE c.bht[b] = NULL /\ c.bsize # BLOCK_CACHESIZE
  <2>1. GetB(c, b) = ReadB(c, b)
    BY <1>2 DEF GetB
  <2> QED
    BY <1>2, <2>1, ReadBFacts
<1>3. CASE c.bht[b] = NULL /\ c.bsize = BLOCK_CACHESIZE
  <2> DEFINE e == EvictB(c)
             r == ReadB(e, b)
  <2>1. GetB(c, b) = r
    BY <1>3 DEF GetB
  <2>2. /\ BothOK(e) /\ SameInodes(c, e) /\ BlocksKept(c, e)
        /\ e.bsize # BLOCK_CACHESIZE /\ e.bht[b] = NULL
        /\ \A y, d : d \in Nat /\ d + 1 < BLOCK_CACHESIZE /\ Recent(c.bq, y, d)
                     => Recent(e.bq, y, d)
    BY <1>3, EvictBFacts
  <2> HIDE DEF e
  <2>3. /\ BothOK(r) /\ SameInodes(e, r) /\ BlocksKept(e, r)
        /\ r.bht[b] # NULL /\ Recent(r.bq, b, 0)
        /\ \A y, d : d \in Nat /\ Recent(e.bq, y, d) => Recent(r.bq, y, d + 1)
    BY <2>2, ReadBFacts
  <2>4. r.disk = e.disk
    BY <2>2 DEF ReadB, BothOK, CacheType
  <2>5. \A x \in Blocks : e.bht[x] # NULL => e.bht[x] = c.bht[x]
    BY <1>3 DEF EvictB, BothOK, CacheType, e
  <2> HIDE DEF r
  <2>6. SameInodes(c, r)
    BY <2>2, <2>3 DEF SameInodes
  <2>7. BlocksKept(c, r)
    BY <2>2, <2>3, <2>4, <2>5 DEF BlocksKept
  <2> QED
    BY <2>1, <2>2, <2>3, <2>6, <2>7
<1> QED
  BY <1>1, <1>2, <1>3
-----------------------------------------------------------------------------
(* Where an inode lies *)

LEMMA DivFacts ==
  ASSUME NEW n \in Nat \ {0}, NEW i \in Nat
  PROVE  i \div n \in Nat /\ (i \div n) * n <= i /\ i < (i \div n) * n + n
OBVIOUS

LEMMA QuotientBound ==
  ASSUME NEW n \in Nat \ {0}, NEW t \in Nat, NEW q \in Nat, NEW i \in Nat,
         q * n <= i, i < n * t
  PROVE  q < t
<1> SUFFICES ASSUME q >= t PROVE FALSE
  OBVIOUS
<1>1. q = t + (q - t) /\ q - t \in Nat
  OBVIOUS
<1>2. q * n = t * n + (q - t) * n
  BY <1>1
<1>3. (q - t) * n >= 0
  BY <1>1
<1> QED
  BY <1>2, <1>3

LEMMA QuotientUnique ==
  ASSUME NEW n \in Nat \ {0}, NEW q \in Nat, NEW r \in Nat, NEW i \in Nat,
         q * n <= i, i < q * n + n, r * n <= i, i < r * n + n
  PROVE  q = r
<1>1. CASE q < r
  <2>1. r = q + (r - q) /\ r - q \in Nat /\ r - q >= 1
    BY <1>1
  <2>2. r * n = q * n + (r - q) * n
    BY <2>1
  <2>3. (r - q) * n >= n
    BY <2>1
  <2> QED
    BY <2>2, <2>3
<1>2. CASE r < q
  <2>1. q = r + (q - r) /\ q - r \in Nat /\ q - r >= 1
    BY <1>2
  <2>2. q * n = r * n + (q - r) * n
    BY <2>1
  <2>3. (q - r) * n >= n
    BY <2>1
  <2> QED
    BY <2>2, <2>3
<1> QED
  BY <1>1, <1>2

(* Every inode has a slot of its own in one of the table blocks.              *)
LEMMA PlaceFacts ==
  /\ \A i \in Inodes : /\ BlockOf(i) \in TableBlocks
                       /\ BlockOf(i) \in Blocks
                       /\ SlotOf(i) \in Slots
                       /\ InodeAt(BlockOf(i), SlotOf(i)) = i
  /\ \A b \in TableBlocks, s \in Slots : /\ InodeAt(b, s) \in Inodes
                                         /\ BlockOf(InodeAt(b, s)) = b
                                         /\ SlotOf(InodeAt(b, s)) = s
<1> USE SizesAssumption
<1>1. ASSUME NEW i \in Inodes
      PROVE  /\ BlockOf(i) \in TableBlocks /\ BlockOf(i) \in Blocks
             /\ SlotOf(i) \in Slots /\ InodeAt(BlockOf(i), SlotOf(i)) = i
  <2> DEFINE q == i \div IPB
  <2>1. i \in Nat /\ i < IPB * NumTable /\ IPB * NumTable \in Nat
    BY DEF Inodes
  <2>2. q \in Nat /\ q * IPB <= i /\ i < q * IPB + IPB
    BY <2>1, DivFacts
  <2>3. BlockOf(i) = q + 1 /\ SlotOf(i) = i - (q + 1 - 1) * IPB
    BY <2>1, <2>2 DEF BlockOf, SlotOf
  <2> HIDE DEF q
  <2>4. q < NumTable
    BY <2>1, <2>2, QuotientBound
  <2>5. SlotOf(i) = i - q * IPB /\ q * IPB \in Nat
    BY <2>2, <2>3
  <2>6. BlockOf(i) \in TableBlocks /\ BlockOf(i) \in Blocks
    BY <2>2, <2>3, <2>4 DEF TableBlocks, Blocks
  <2>7. SlotOf(i) \in Slots
    BY <2>1, <2>2, <2>5 DEF Slots
  <2>8. InodeAt(BlockOf(i), SlotOf(i)) = q * IPB + (i - q * IPB)
    BY <2>2, <2>3, <2>5 DEF InodeAt
  <2> QED
    BY <2>1, <2>5, <2>6, <2>7, <2>8
<1>2. ASSUME NEW b \in TableBlocks, NEW s \in Slots
      PROVE  /\ InodeAt(b, s) \in Inodes
             /\ BlockOf(InodeAt(b, s)) = b /\ SlotOf(InodeAt(b, s)) = s
  <2> DEFINE i == InodeAt(b, s)
             q == i \div IPB
             r == b - 1
  <2>1. /\ r \in Nat /\ r * IPB \in Nat /\ i = r * IPB + s /\ s \in Nat /\ s < IPB
        /\ b = r + 1 /\ r < NumTable
    BY DEF TableBlocks, Slots, InodeAt
  <2>2. r * IPB + IPB <= IPB * NumTable
    <3>1. NumTable = r + 1 + (NumTable - (r + 1)) /\ NumTable - (r + 1) \in Nat
      BY <2>1
    <3>2. IPB * NumTable = r * IPB + IPB + (NumTable - (r + 1)) * IPB
      BY <2>1, <3>1
    <3>3. (NumTable - (r + 1)) * IPB >= 0 /\ (NumTable - (r + 1)) * IPB \in Int
      BY <3>1
    <3> QED
      BY <2>1, <3>2, <3>3
  <2>3. i \in Nat /\ i < IPB * NumTable /\ IPB * NumTable \in Nat
    BY <2>1, <2>2
  <2>4. q \in Nat /\ q * IPB <= i /\ i < q * IPB + IPB
    BY <2>3, DivFacts
  <2> HIDE DEF r, i
  <2>5. BlockOf(i) = q + 1 /\ SlotOf(i) = i - (q + 1 - 1) * IPB
    BY <2>3, <2>4 DEF BlockOf, SlotOf
  <2> HIDE DEF q
  <2>6. q = r
    BY <2>1, <2>3, <2>4, QuotientUnique
  <2>7. SlotOf(i) = s
    BY <2>1, <2>5, <2>6
  <2>8. i \in Inodes
    BY <2>3 DEF Inodes
  <2> QED
    BY <2>1, <2>5, <2>6, <2>7, <2>8 DEF i
<1> QED
  BY <1>1, <1>2
-----------------------------------------------------------------------------
(* The inode cache *)

(* An item that is not marked dirty holds what it was read from.              *)
CleanIn(c) ==
  /\ \A b \in Blocks :
       c.bht[b] # NULL /\ ~c.bht[b].dirty => c.bht[b].data = c.disk[b]
  /\ \A i \in Inodes :
       c.iht[i] # NULL /\ ~c.iht[i].dirty
       => c.iht[i].data = StagedIn(c, BlockOf(i), SlotOf(i))

MemKept(c, d) ==
  \A b \in Blocks, s \in Slots : MemIn(d, b, s) = MemIn(c, b, s)

(* What MemKept amounts to: the cached inodes, and the blocks as staged.      *)
LEMMA MemKeptBySame ==
  ASSUME NEW c, NEW d, SameInodes(c, d), BlocksKept(c, d)
  PROVE  MemKept(c, d)
BY DEF MemKept, MemIn, SameInodes, BlocksKept

LEMMA CleanKeptByGetB ==
  ASSUME NEW c, NEW d, SameInodes(c, d), BlocksKept(c, d), CleanIn(c)
  PROVE  CleanIn(d)
<1>1. ASSUME NEW b \in Blocks, d.bht[b] # NULL, ~d.bht[b].dirty
      PROVE  d.bht[b].data = d.disk[b]
  <2>1. CASE d.bht[b] = c.bht[b]
    BY <1>1, <2>1 DEF CleanIn, BlocksKept
  <2>2. CASE d.bht[b] = [data |-> d.disk[b], dirty |-> FALSE]
    BY <2>2
  <2> QED
    BY <1>1, <2>1, <2>2 DEF BlocksKept
<1>2. ASSUME NEW i \in Inodes, d.iht[i] # NULL, ~d.iht[i].dirty
      PROVE  d.iht[i].data = StagedIn(d, BlockOf(i), SlotOf(i))
  BY <1>2, PlaceFacts DEF CleanIn, SameInodes, BlocksKept
<1> QED
  BY <1>1, <1>2 DEF CleanIn

LEMMA CopyIFacts ==
  ASSUME NEW c, BothOK(c), NEW i \in Inodes, NEW v \in Val,
         c.iht[i] = NULL, c.bht[BlockOf(i)] # NULL
  PROVE  /\ BothOK(CopyI(c, i, v)) /\ SameInodes(c, CopyI(c, i, v))
         /\ CopyI(c, i, v).bq = c.bq
         /\ \A b \in Blocks, s \in Slots :
              MemIn(CopyI(c, i, v), b, s) =
                IF b \in TableBlocks /\ InodeAt(b, s) = i THEN v ELSE MemIn(c, b, s)
         /\ CleanIn(c) => CleanIn(CopyI(c, i, v))
<1> DEFINE d == CopyI(c, i, v)
           B == BlockOf(i)
           new == [data |-> [c.bht[B].data EXCEPT ![SlotOf(i)] = v], dirty |-> TRUE]
<1>1. /\ B \in Blocks /\ B \in TableBlocks /\ SlotOf(i) \in Slots /\ c \in CacheType
      /\ c.bht \in [Blocks -> BlockItem \cup {NULL}] /\ c.bht[B] \in BlockItem
      /\ c.disk \in [Blocks -> BlockData]
  BY PlaceFacts DEF BothOK, CacheType
<1>2. new \in BlockItem /\ new # NULL
  BY <1>1, NullFacts DEF BlockItem, BlockData
<1>3. /\ d.bht = [c.bht EXCEPT ![B] = new]
      /\ d.disk = c.disk /\ d.bq = c.bq /\ d.bsize = c.bsize /\ SameInodes(c, d)
  BY <1>1 DEF CopyI, CacheType, SameInodes
<1>4. d \in CacheType
  <2>1. [c.bht EXCEPT ![B] = new] \in [Blocks -> BlockItem \cup {NULL}]
    BY <1>1, <1>2
  <2> QED
    BY <1>1, <2>1 DEF CopyI, CacheType
<1> HIDE DEF d
<1>5. BothOK(d)
  <2>1. QueueOK(d.bq, d.bht, d.bsize, BLOCK_CACHESIZE)
    <3>1. \A b \in Blocks : (d.bht[b] # NULL) <=> (c.bht[b] # NULL)
      BY <1>1, <1>2, <1>3
    <3>2. DOMAIN d.bht = Blocks /\ DOMAIN c.bht = Blocks /\ c.bq \in Seq(Blocks)
      BY <1>1, <1>3 DEF CacheType
    <3>3. QueueOK(c.bq, c.bht, c.bsize, BLOCK_CACHESIZE)
      BY DEF BothOK
    <3>4. \A j \in 1 .. Len(c.bq) : c.bq[j] \in Blocks
      BY <3>2
    <3> QED
      BY <1>3, <3>1, <3>2, <3>3, <3>4 DEF QueueOK
  <2> QED
    BY <1>3, <1>4, <2>1 DEF BothOK, SameInodes
<1>6. \A b \in Blocks, s \in Slots :
        StagedIn(d, b, s) = IF b = B /\ s = SlotOf(i) THEN v ELSE StagedIn(c, b, s)
  <2> SUFFICES ASSUME NEW b \in Blocks, NEW s \in Slots
               PROVE  StagedIn(d, b, s) =
                        IF b = B /\ s = SlotOf(i) THEN v ELSE StagedIn(c, b, s)
    OBVIOUS
  <2>1. CASE b = B
    <3>1. d.bht[b] = new /\ d.bht[b] # NULL
      BY <1>1, <1>2, <1>3, <2>1
    <3>2. new.data[s] = IF s = SlotOf(i) THEN v ELSE c.bht[B].data[s]
      BY <1>1 DEF BlockItem, BlockData
    <3> HIDE DEF new
    <3> QED
      BY <2>1, <3>1, <3>2 DEF StagedIn
  <2>2. CASE b # B
    BY <1>1, <1>3, <2>2 DEF StagedIn
  <2> QED
    BY <2>1, <2>2
<1>7. \A b \in TableBlocks, s \in Slots : (b = B /\ s = SlotOf(i)) <=> InodeAt(b, s) = i
  BY PlaceFacts
<1>8. \A b \in Blocks, s \in Slots :
        MemIn(d, b, s) =
          IF b \in TableBlocks /\ InodeAt(b, s) = i THEN v ELSE MemIn(c, b, s)
  <2> SUFFICES ASSUME NEW b \in Blocks, NEW s \in Slots
               PROVE  MemIn(d, b, s) =
                        IF b \in TableBlocks /\ InodeAt(b, s) = i THEN v ELSE MemIn(c, b, s)
    OBVIOUS
  <2>1. d.iht = c.iht
    BY <1>3 DEF SameInodes
  <2>2. CASE b \in TableBlocks /\ InodeAt(b, s) = i
    <3>1. StagedIn(d, b, s) = v
      BY <1>6, <1>7, <2>2
    <3> QED
      BY <2>1, <2>2, <3>1 DEF MemIn
  <2>3. CASE ~(b \in TableBlocks /\ InodeAt(b, s) = i)
    <3>1. StagedIn(d, b, s) = StagedIn(c, b, s)
      BY <1>1, <1>6, <1>7, <2>3
    <3> QED
      BY <2>1, <2>3, <3>1 DEF MemIn
  <2> QED
    BY <2>2, <2>3
<1>9. ASSUME CleanIn(c)
      PROVE  CleanIn(d)
  <2>1. \A b \in Blocks : d.bht[b] # NULL /\ ~d.bht[b].dirty => d.bht[b].data = d.disk[b]
    BY <1>1, <1>3, <1>9 DEF CleanIn
  <2>2. ASSUME NEW j \in Inodes, d.iht[j] # NULL, ~d.iht[j].dirty
        PROVE  d.iht[j].data = StagedIn(d, BlockOf(j), SlotOf(j))
    <3>1. j # i /\ d.iht[j] = c.iht[j]
      BY <1>3, <2>2 DEF SameInodes
    <3>2. InodeAt(BlockOf(j), SlotOf(j)) # i /\ BlockOf(j) \in Blocks /\ SlotOf(j) \in Slots
          /\ BlockOf(j) \in TableBlocks
      BY <3>1, PlaceFacts
    <3>3. StagedIn(d, BlockOf(j), SlotOf(j)) = StagedIn(c, BlockOf(j), SlotOf(j))
      BY <1>6, <1>7, <3>2
    <3> QED
      BY <1>9, <2>2, <3>1, <3>3 DEF CleanIn
  <2> QED
    BY <2>1, <2>2 DEF CleanIn
<1> HIDE DEF B, new
<1> QED
  BY <1>3, <1>5, <1>8, <1>9 DEF d

(* The first part of evict_i: the inode is gone from its cache.               *)
LEMMA DropIFacts ==
  ASSUME NEW c, BothOK(c), c.isize = INODE_CACHESIZE
  PROVE  LET i == Head(c.iq)
             n == DropI(c)
         IN  /\ i \in Inodes /\ c.iht[i] # NULL /\ c.iht[i] \in InodeItem
             /\ BothOK(n)
             /\ n.disk = c.disk /\ n.bq = c.bq /\ n.bht = c.bht /\ n.bsize = c.bsize
             /\ n.iq = Tail(c.iq) /\ n.iht = [c.iht EXCEPT ![i] = NULL] /\ n.isize = c.isize - 1
             /\ \A y, d : d \in Nat /\ d + 1 < Len(c.iq) /\ Recent(c.iq, y, d)
                          => Recent(Tail(c.iq), y, d) /\ y # i
<1> DEFINE i == Head(c.iq)
           n == DropI(c)
<1>1. /\ c \in CacheType /\ INODE_CACHESIZE \in Nat \ {0} /\ Len(c.iq) = INODE_CACHESIZE
      /\ c.iq \in Seq(Inodes) /\ c.iht \in [Inodes -> InodeItem \cup {NULL}] /\ Len(c.iq) > 0
      /\ c.isize \in Nat
  BY SizesAssumption DEF BothOK, QueueOK, CacheType
<1>2. /\ i \in Inodes /\ Tail(c.iq) \in Seq(Inodes)
      /\ QueueOK(Tail(c.iq), [c.iht EXCEPT ![i] = NULL], c.isize - 1, INODE_CACHESIZE)
      /\ \A y, d : d \in Nat /\ d + 1 < Len(c.iq) /\ Recent(c.iq, y, d)
                   => Recent(Tail(c.iq), y, d) /\ y # i
  <2>1. DOMAIN c.iht = Inodes /\ QueueOK(c.iq, c.iht, c.isize, INODE_CACHESIZE)
    BY <1>1 DEF BothOK
  <2> QED
    BY <1>1, <2>1, DropFacts
<1>3. c.iht[i] # NULL
  BY <1>1 DEF BothOK, QueueOK
<1>4. c.iht[i] \in InodeItem
  BY <1>1, <1>2, <1>3
<1>5. /\ n.disk = c.disk /\ n.bq = c.bq /\ n.bht = c.bht /\ n.bsize = c.bsize
      /\ n.iq = Tail(c.iq) /\ n.iht = [c.iht EXCEPT ![i] = NULL] /\ n.isize = c.isize - 1
  BY <1>1 DEF DropI, CacheType
<1>6. n \in CacheType
  <2>1. [c.iht EXCEPT ![i] = NULL] \in [Inodes -> InodeItem \cup {NULL}] /\ c.isize - 1 \in Nat
    BY <1>1
  <2> QED
    BY <1>1, <1>2, <2>1 DEF DropI, CacheType
<1> HIDE DEF n
<1>7. BothOK(n)
  BY <1>2, <1>5, <1>6 DEF BothOK
<1> QED
  BY <1>2, <1>3, <1>4, <1>5, <1>7 DEF n

(* evict_i: the inode's value moves into its block and the rest stays.        *)
LEMMA EvictIFacts ==
  ASSUME NEW c, BothOK(c), c.isize = INODE_CACHESIZE
  PROVE  /\ BothOK(EvictI(c)) /\ MemKept(c, EvictI(c))
         /\ CleanIn(c) => CleanIn(EvictI(c))
         /\ EvictI(c).isize # INODE_CACHESIZE
         /\ \A j \in Inodes : c.iht[j] = NULL => EvictI(c).iht[j] = NULL
         /\ \A y, d : d \in Nat /\ d + 1 < INODE_CACHESIZE /\ Recent(c.iq, y, d)
                      => Recent(EvictI(c).iq, y, d)
         /\ \A y, d : d \in Nat /\ d + 1 < BLOCK_CACHESIZE /\ Recent(c.bq, y, d)
                      => Recent(EvictI(c).bq, y, d + 1)
<1> DEFINE i == Head(c.iq)
           v == c.iht[i].data
           n == DropI(c)
           g == GetB(n, BlockOf(i))
           e == CopyI(g, i, v)
<1>1. /\ INODE_CACHESIZE \in Nat \ {0} /\ Len(c.iq) = INODE_CACHESIZE
      /\ c.iht \in [Inodes -> InodeItem \cup {NULL}] /\ c.isize \in Nat
  BY SizesAssumption DEF BothOK, QueueOK, CacheType
<1>2. /\ i \in Inodes /\ c.iht[i] # NULL /\ c.iht[i] \in InodeItem
      /\ BothOK(n)
      /\ n.disk = c.disk /\ n.bq = c.bq /\ n.bht = c.bht /\ n.bsize = c.bsize
      /\ n.iq = Tail(c.iq) /\ n.iht = [c.iht EXCEPT ![i] = NULL] /\ n.isize = c.isize - 1
      /\ \A y, d : d \in Nat /\ d + 1 < Len(c.iq) /\ Recent(c.iq, y, d)
                   => Recent(Tail(c.iq), y, d) /\ y # i
  BY DropIFacts
<1>4. v \in Val
  BY <1>2 DEF InodeItem
<1> HIDE DEF n
<1>8. /\ n.iht[i] = NULL
      /\ \A j \in Inodes : j # i => n.iht[j] = c.iht[j]
  BY <1>1, <1>2
<1>9. \A b \in Blocks, s \in Slots : StagedIn(n, b, s) = StagedIn(c, b, s)
  BY <1>2 DEF StagedIn
<1>10. CleanIn(c) => CleanIn(n)
  BY <1>2, <1>8, <1>9, PlaceFacts DEF CleanIn
<1>11. BlockOf(i) \in Blocks
  BY <1>2, PlaceFacts
<1>12. /\ BothOK(g) /\ SameInodes(n, g) /\ BlocksKept(n, g) /\ g.bht[BlockOf(i)] # NULL
       /\ \A y, d : d \in Nat /\ d + 1 < BLOCK_CACHESIZE /\ Recent(n.bq, y, d)
                    => Recent(g.bq, y, d + 1)
  BY <1>2, <1>11, GetBFacts
<1> HIDE DEF g
<1>13. MemKept(n, g) /\ (CleanIn(n) => CleanIn(g)) /\ g.iht[i] = NULL
  BY <1>8, <1>12, MemKeptBySame, CleanKeptByGetB DEF SameInodes
<1>14. /\ BothOK(e) /\ SameInodes(g, e) /\ e.bq = g.bq /\ (CleanIn(g) => CleanIn(e))
       /\ \A b \in Blocks, s \in Slots :
            MemIn(e, b, s) =
              IF b \in TableBlocks /\ InodeAt(b, s) = i THEN v ELSE MemIn(g, b, s)
  BY <1>2, <1>4, <1>12, <1>13, CopyIFacts
<1>15. EvictI(c) = e
  BY DEF EvictI, g, n
<1> HIDE DEF e
<1>16. MemKept(c, e)
  <2> SUFFICES ASSUME NEW b \in Blocks, NEW s \in Slots
               PROVE  MemIn(e, b, s) = MemIn(c, b, s)
    BY DEF MemKept
  <2>1. CASE b \in TableBlocks /\ InodeAt(b, s) = i
    BY <1>2, <1>14, <2>1 DEF MemIn
  <2>2. CASE ~(b \in TableBlocks /\ InodeAt(b, s) = i)
    <3>1. MemIn(e, b, s) = MemIn(n, b, s)
      BY <1>13, <1>14, <2>2 DEF MemKept
    <3>2. b \in TableBlocks => InodeAt(b, s) \in Inodes
      BY PlaceFacts
    <3> QED
      BY <1>8, <1>9, <2>2, <3>1, <3>2 DEF MemIn
  <2> QED
    BY <2>1, <2>2
<1>17. e.iq = Tail(c.iq) /\ e.iht = n.iht /\ e.isize = c.isize - 1
  BY <1>2, <1>12, <1>14 DEF SameInodes
<1>18. /\ e.isize # INODE_CACHESIZE
       /\ \A j \in Inodes : c.iht[j] = NULL => e.iht[j] = NULL
  BY <1>1, <1>8, <1>17
<1>19. \A y, d : d \in Nat /\ d + 1 < INODE_CACHESIZE /\ Recent(c.iq, y, d)
                 => Recent(e.iq, y, d)
  BY <1>1, <1>2, <1>17
<1>20. \A y, d : d \in Nat /\ d + 1 < BLOCK_CACHESIZE /\ Recent(c.bq, y, d)
                 => Recent(e.bq, y, d + 1)
  BY <1>2, <1>12, <1>14
<1> HIDE DEF i, v
<1> QED
  BY <1>10, <1>13, <1>14, <1>15, <1>16, <1>18, <1>19, <1>20

(* The miss of get_i: its block is fetched and the inode is copied out of it. *)
LEMMA ReadIFacts ==
  ASSUME NEW c, BothOK(c), NEW i \in Inodes, NEW f \in BOOLEAN,
         c.isize # INODE_CACHESIZE, c.iht[i] = NULL
  PROVE  /\ BothOK(ReadI(c, i, f)) /\ MemKept(c, ReadI(c, i, f))
         /\ CleanIn(c) => CleanIn(ReadI(c, i, f))
         /\ ReadI(c, i, f).iht[i] # NULL
         /\ Recent(ReadI(c, i, f).iq, i, 0)
         /\ \A y, d : d \in Nat /\ Recent(c.iq, y, d) => Recent(ReadI(c, i, f).iq, y, d + 1)
         /\ \A y, d : d \in Nat /\ d + 1 < BLOCK_CACHESIZE /\ Recent(c.bq, y, d)
                      => Recent(ReadI(c, i, f).bq, y, d + 1)
<1> DEFINE g == GetB(c, BlockOf(i))
           new == [data |-> g.bht[BlockOf(i)].data[SlotOf(i)], dirty |-> f]
           r == ReadI(c, i, f)
<1>1. BlockOf(i) \in Blocks /\ SlotOf(i) \in Slots /\ BlockOf(i) \in TableBlocks
      /\ InodeAt(BlockOf(i), SlotOf(i)) = i
  BY PlaceFacts
<1>2. /\ BothOK(g) /\ SameInodes(c, g) /\ BlocksKept(c, g) /\ g.bht[BlockOf(i)] # NULL
      /\ \A y, d : d \in Nat /\ d + 1 < BLOCK_CACHESIZE /\ Recent(c.bq, y, d)
                   => Recent(g.bq, y, d + 1)
  BY <1>1, GetBFacts
<1>3. r = [g EXCEPT !.iq = Append(g.iq, i), !.iht[i] = new, !.isize = g.isize + 1]
  BY DEF ReadI
<1> HIDE DEF g
<1>4. MemKept(c, g) /\ (CleanIn(c) => CleanIn(g))
  BY <1>2, MemKeptBySame, CleanKeptByGetB
<1>5. /\ g \in CacheType /\ g.bht[BlockOf(i)] \in BlockItem
      /\ g.iq \in Seq(Inodes) /\ g.iht \in [Inodes -> InodeItem \cup {NULL}] /\ g.isize \in Nat
      /\ g.isize # INODE_CACHESIZE /\ g.iht[i] = NULL /\ INODE_CACHESIZE \in Nat
  BY <1>1, <1>2, SizesAssumption DEF BothOK, CacheType, SameInodes
<1>6. new \in InodeItem /\ new # NULL /\ new.data = StagedIn(g, BlockOf(i), SlotOf(i))
  BY <1>1, <1>2, <1>5, NullFacts DEF InodeItem, BlockItem, BlockData, StagedIn
<1> HIDE DEF new, r
<1>7. /\ r.disk = g.disk /\ r.bq = g.bq /\ r.bht = g.bht /\ r.bsize = g.bsize
      /\ r.iq = Append(g.iq, i) /\ r.iht = [g.iht EXCEPT ![i] = new] /\ r.isize = g.isize + 1
  BY <1>3, <1>5 DEF CacheType
<1>8. /\ Append(g.iq, i) \in Seq(Inodes) /\ Recent(Append(g.iq, i), i, 0)
      /\ \A y, d : d \in Nat /\ Recent(g.iq, y, d) => Recent(Append(g.iq, i), y, d + 1)
  BY <1>5, AppendRecent
<1>9. QueueOK(Append(g.iq, i), [g.iht EXCEPT ![i] = new], g.isize + 1, INODE_CACHESIZE)
  <2>1. DOMAIN g.iht = Inodes /\ QueueOK(g.iq, g.iht, g.isize, INODE_CACHESIZE)
    BY <1>2, <1>5 DEF BothOK
  <2> QED
    BY <1>5, <1>6, <2>1, AddFacts
<1>10. r \in CacheType
  <2>1. [g.iht EXCEPT ![i] = new] \in [Inodes -> InodeItem \cup {NULL}] /\ g.isize + 1 \in Nat
    BY <1>5, <1>6
  <2> QED
    BY <1>3, <1>5, <1>8, <2>1 DEF CacheType
<1>11. BothOK(r)
  BY <1>2, <1>7, <1>9, <1>10 DEF BothOK
<1>12. \A b \in Blocks, s \in Slots : StagedIn(r, b, s) = StagedIn(g, b, s)
  BY <1>7 DEF StagedIn
<1>13. \A j \in Inodes : r.iht[j] = IF j = i THEN new ELSE g.iht[j]
  BY <1>5, <1>7
<1>14. MemKept(g, r)
  <2> SUFFICES ASSUME NEW b \in Blocks, NEW s \in Slots
               PROVE  MemIn(r, b, s) = MemIn(g, b, s)
    BY DEF MemKept
  <2>1. CASE b \in TableBlocks /\ InodeAt(b, s) = i
    <3>1. b = BlockOf(i) /\ s = SlotOf(i)
      BY <2>1, PlaceFacts
    <3> QED
      BY <1>5, <1>6, <1>13, <2>1, <3>1 DEF MemIn
  <2>2. CASE ~(b \in TableBlocks /\ InodeAt(b, s) = i)
    <3>1. b \in TableBlocks => InodeAt(b, s) \in Inodes
      BY PlaceFacts
    <3> QED
      BY <1>12, <1>13, <2>2, <3>1 DEF MemIn
  <2> QED
    BY <2>1, <2>2
<1>15. MemKept(c, r)
  BY <1>4, <1>14 DEF MemKept
<1>16. CleanIn(g) => CleanIn(r)
  BY <1>6, <1>7, <1>12, <1>13, PlaceFacts DEF CleanIn
<1>17. r.iht[i] # NULL
  BY <1>6, <1>13
<1>18. /\ \A y, d : d \in Nat /\ Recent(c.iq, y, d) => Recent(r.iq, y, d + 1)
       /\ \A y, d : d \in Nat /\ d + 1 < BLOCK_CACHESIZE /\ Recent(c.bq, y, d)
                    => Recent(r.bq, y, d + 1)
  BY <1>2, <1>7, <1>8 DEF SameInodes
<1> QED
  BY <1>4, <1>7, <1>8, <1>11, <1>15, <1>16, <1>17, <1>18 DEF r
(* get_i: the inode is in the cache afterwards and nothing a handler reads    *)
(* has changed; at most two blocks are fetched.                               *)
LEMMA GetIFacts ==
  ASSUME NEW c, BothOK(c), NEW i \in Inodes, NEW f \in BOOLEAN
  PROVE  /\ BothOK(GetI(c, i, f)) /\ MemKept(c, GetI(c, i, f))
         /\ CleanIn(c) => CleanIn(GetI(c, i, f))
         /\ Recent(GetI(c, i, f).iq, i, 0)
         /\ \A y, d : d \in Nat /\ d + 1 < INODE_CACHESIZE /\ Recent(c.iq, y, d)
                      => Recent(GetI(c, i, f).iq, y, d + 1)
         /\ \A y, d : d \in Nat /\ d + 2 < BLOCK_CACHESIZE /\ Recent(c.bq, y, d)
                      => Recent(GetI(c, i, f).bq, y, d + 2)
<1> USE SizesAssumption
<1>1. CASE c.iht[i] # NULL
  <2> DEFINE t == [c EXCEPT !.iq = Touch(c.iq, i)]
  <2>1. /\ c \in CacheType /\ c.bq \in Seq(Blocks)
        /\ c.iq \in Seq(Inodes) /\ c.iht \in [Inodes -> InodeItem \cup {NULL}]
        /\ QueueOK(c.iq, c.iht, c.isize, INODE_CACHESIZE)
    BY DEF BothOK, CacheType
  <2>2. /\ Touch(c.iq, i) \in Seq(Inodes)
        /\ QueueOK(Touch(c.iq, i), c.iht, c.isize, INODE_CACHESIZE)
        /\ Recent(Touch(c.iq, i), i, 0)
        /\ \A y, d : d \in Nat /\ Recent(c.iq, y, d) => Recent(Touch(c.iq, i), y, d + 1)
    <3>1. i \in DOMAIN c.iht
      BY <2>1
    <3> QED
      BY <1>1, <2>1, <3>1, TouchFacts
  <2>3. /\ GetI(c, i, f) = t /\ t \in CacheType /\ t.iq = Touch(c.iq, i)
        /\ t.disk = c.disk /\ t.bq = c.bq /\ t.bht = c.bht /\ t.bsize = c.bsize
        /\ t.iht = c.iht /\ t.isize = c.isize
    BY <1>1, <2>1, <2>2 DEF GetI, CacheType
  <2> HIDE DEF t
  <2>4. BothOK(t)
    BY <2>2, <2>3 DEF BothOK
  <2>5. \A b \in Blocks, s \in Slots : StagedIn(t, b, s) = StagedIn(c, b, s)
    BY <2>3 DEF StagedIn
  <2>6. MemKept(c, t)
    BY <2>3, <2>5 DEF MemKept, MemIn
  <2>7. CleanIn(c) => CleanIn(t)
    BY <2>3, <2>5, PlaceFacts DEF CleanIn
  <2>8. \A y, d : d \in Nat /\ Recent(c.bq, y, d) => Recent(t.bq, y, d + 2)
    <3> SUFFICES ASSUME NEW y, NEW d, d \in Nat, Recent(c.bq, y, d)
                 PROVE  Recent(c.bq, y, d + 2)
      BY <2>3
    <3> QED
      BY <2>1 DEF Recent
  <2> QED
    BY <2>2, <2>3, <2>4, <2>6, <2>7, <2>8
<1>2. CASE c.iht[i] = NULL /\ c.isize # INODE_CACHESIZE
  <2> DEFINE r == ReadI(c, i, f)
  <2>1. GetI(c, i, f) = r
    BY <1>2 DEF GetI
  <2>2. /\ BothOK(r) /\ MemKept(c, r) /\ (CleanIn(c) => CleanIn(r)) /\ Recent(r.iq, i, 0)
        /\ \A y, d : d \in Nat /\ Recent(c.iq, y, d) => Recent(r.iq, y, d + 1)
        /\ \A y, d : d \in Nat /\ d + 1 < BLOCK_CACHESIZE /\ Recent(c.bq, y, d)
                     => Recent(r.bq, y, d + 1)
    BY <1>2, ReadIFacts
  <2> HIDE DEF r
  <2>3. r.bq \in Seq(Blocks)
    BY <2>2 DEF BothOK, CacheType
  <2>4. \A y, d : d \in Nat /\ d + 2 < BLOCK_CACHESIZE /\ Recent(c.bq, y, d)
                  => Recent(r.bq, y, d + 2)
    <3> SUFFICES ASSUME NEW y, NEW d, d \in Nat, d + 2 < BLOCK_CACHESIZE, Recent(c.bq, y, d)
                 PROVE  Recent(r.bq, y, d + 2)
      OBVIOUS
    <3>1. d + 1 < BLOCK_CACHESIZE
      OBVIOUS
    <3>2. Recent(r.bq, y, d + 1)
      BY <2>2, <3>1
    <3> QED
      BY <2>3, <3>2 DEF Recent
  <2> QED
    BY <2>1, <2>2, <2>4
<1>3. CASE c.iht[i] = NULL /\ c.isize = INODE_CACHESIZE
  <2> DEFINE e == EvictI(c)
             r == ReadI(e, i, f)
  <2>1. GetI(c, i, f) = r
    BY <1>3 DEF GetI
  <2>2. /\ BothOK(e) /\ MemKept(c, e) /\ (CleanIn(c) => CleanIn(e))
        /\ e.isize # INODE_CACHESIZE /\ e.iht[i] = NULL
        /\ \A y, d : d \in Nat /\ d + 1 < INODE_CACHESIZE /\ Recent(c.iq, y, d)
                     => Recent(e.iq, y, d)
        /\ \A y, d : d \in Nat /\ d + 1 < BLOCK_CACHESIZE /\ Recent(c.bq, y, d)
                     => Recent(e.bq, y, d + 1)
    BY <1>3, EvictIFacts
  <2> HIDE DEF e
  <2>3. /\ BothOK(r) /\ MemKept(e, r) /\ (CleanIn(e) => CleanIn(r)) /\ Recent(r.iq, i, 0)
        /\ \A y, d : d \in Nat /\ Recent(e.iq, y, d) => Recent(r.iq, y, d + 1)
        /\ \A y, d : d \in Nat /\ d + 1 < BLOCK_CACHESIZE /\ Recent(e.bq, y, d)
                     => Recent(r.bq, y, d + 1)
    BY <2>2, ReadIFacts
  <2> HIDE DEF r
  <2>4. MemKept(c, r) /\ (CleanIn(c) => CleanIn(r))
    BY <2>2, <2>3 DEF MemKept
  <2>5. \A y, d : d \in Nat /\ d + 2 < BLOCK_CACHESIZE /\ Recent(c.bq, y, d)
                  => Recent(r.bq, y, d + 2)
    <3> SUFFICES ASSUME NEW y, NEW d, d \in Nat, d + 2 < BLOCK_CACHESIZE, Recent(c.bq, y, d)
                 PROVE  Recent(r.bq, y, d + 2)
      OBVIOUS
    <3>1. d + 1 < BLOCK_CACHESIZE /\ d + 1 + 1 < BLOCK_CACHESIZE /\ d + 1 \in Nat
          /\ d + 1 + 1 = d + 2
      OBVIOUS
    <3>2. Recent(e.bq, y, d + 1)
      BY <2>2, <3>1
    <3>3. Recent(r.bq, y, d + 1 + 1)
      BY <2>3, <3>1, <3>2
    <3> QED
      BY <3>1, <3>3
  <2> QED
    BY <2>1, <2>2, <2>3, <2>4, <2>5
<1> QED
  BY <1>1, <1>2, <1>3
-----------------------------------------------------------------------------
(* The caches stay well formed *)

(* The pointers a handler holds are recent enough not to have been evicted.   *)
HeldRecent ==
  /\ heldB # NULL => Recent(cache.bq, heldB, sinceB) /\ sinceB < BLOCK_CACHESIZE
  /\ heldI # NULL => Recent(cache.iq, heldI, sinceI) /\ sinceI < INODE_CACHESIZE

(* No handler is at work while handle_sync is.                                *)
SyncIsAlone == phase # "serve" => Idle

CacheInv == CacheOK /\ HeldRecent /\ SyncIsAlone

LEMMA InvBothOK ==
  ASSUME CacheInv
  PROVE  /\ BothOK(cache)
         /\ heldB # NULL => heldB \in Blocks /\ cache.bht[heldB] \in BlockItem
         /\ heldI # NULL => heldI \in Inodes /\ cache.iht[heldI] \in InodeItem
         /\ cache.disk \in [Blocks -> BlockData]
         /\ cache.bht \in [Blocks -> BlockItem \cup {NULL}]
         /\ cache.iht \in [Inodes -> InodeItem \cup {NULL}]
         /\ cache.bq \in Seq(Blocks) /\ cache.iq \in Seq(Inodes)
<1>1. BothOK(cache)
  BY DEF CacheInv, CacheOK, BothOK
<1>2. /\ cache.disk \in [Blocks -> BlockData]
      /\ cache.bht \in [Blocks -> BlockItem \cup {NULL}]
      /\ cache.iht \in [Inodes -> InodeItem \cup {NULL}]
      /\ cache.bq \in Seq(Blocks) /\ cache.iq \in Seq(Inodes)
  BY <1>1 DEF BothOK, CacheType
<1>3. ASSUME heldB # NULL
      PROVE  heldB \in Blocks /\ cache.bht[heldB] \in BlockItem
  <2>1. heldB \in Blocks
    BY <1>3 DEF CacheInv, CacheOK
  <2>2. PICK k \in 1 .. Len(cache.bq) : cache.bq[k] = heldB
    BY <1>3 DEF CacheInv, HeldRecent, Recent
  <2>3. cache.bht[heldB] # NULL
    BY <1>1, <2>2 DEF BothOK, QueueOK
  <2> QED
    BY <1>2, <2>1, <2>3
<1>4. ASSUME heldI # NULL
      PROVE  heldI \in Inodes /\ cache.iht[heldI] \in InodeItem
  <2>1. heldI \in Inodes
    BY <1>4 DEF CacheInv, CacheOK
  <2>2. PICK k \in 1 .. Len(cache.iq) : cache.iq[k] = heldI
    BY <1>4 DEF CacheInv, HeldRecent, Recent
  <2>3. cache.iht[heldI] # NULL
    BY <1>1, <2>2 DEF BothOK, QueueOK
  <2> QED
    BY <1>2, <2>1, <2>3
<1> QED
  BY <1>1, <1>2, <1>3, <1>4

(* Replacing the item of a cached key by another leaves the queue as it was.  *)
LEMMA ReplaceKeepsQueue ==
  ASSUME NEW S, NEW q \in Seq(S), NEW ht, NEW size, NEW max, NEW x \in S, NEW e,
         DOMAIN ht = S, QueueOK(q, ht, size, max), ht[x] # NULL, e # NULL
  PROVE  QueueOK(q, [ht EXCEPT ![x] = e], size, max)
<1> DEFINE h == [ht EXCEPT ![x] = e]
<1>1. \A y \in S : (h[y] # NULL) <=> (ht[y] # NULL)
  OBVIOUS
<1>2. DOMAIN h = S /\ \A j \in 1 .. Len(q) : q[j] \in S
  OBVIOUS
<1> HIDE DEF h
<1>3. QueueOK(q, h, size, max)
  BY <1>1, <1>2 DEF QueueOK
<1> QED
  BY <1>3 DEF h

LEMMA ReplaceBlock ==
  ASSUME NEW c, BothOK(c), NEW b \in Blocks, c.bht[b] # NULL, NEW e \in BlockItem
  PROVE  BothOK([c EXCEPT !.bht[b] = e])
<1> DEFINE d == [c EXCEPT !.bht[b] = e]
<1>1. /\ c \in CacheType /\ c.bht \in [Blocks -> BlockItem \cup {NULL}]
      /\ c.bq \in Seq(Blocks) /\ e # NULL
  BY NullFacts DEF BothOK, CacheType
<1>2. /\ d.bht = [c.bht EXCEPT ![b] = e] /\ d.bq = c.bq /\ d.bsize = c.bsize
      /\ d.iq = c.iq /\ d.iht = c.iht /\ d.isize = c.isize
  BY <1>1 DEF CacheType
<1>3. d \in CacheType
  <2>1. [c.bht EXCEPT ![b] = e] \in [Blocks -> BlockItem \cup {NULL}]
    BY <1>1
  <2> QED
    BY <1>1, <2>1 DEF CacheType
<1>4. QueueOK(c.bq, [c.bht EXCEPT ![b] = e], c.bsize, BLOCK_CACHESIZE)
  <2>1. DOMAIN c.bht = Blocks /\ QueueOK(c.bq, c.bht, c.bsize, BLOCK_CACHESIZE)
    BY <1>1 DEF BothOK
  <2> QED
    BY <1>1, <2>1, ReplaceKeepsQueue
<1> HIDE DEF d
<1>5. BothOK(d)
  BY <1>2, <1>3, <1>4 DEF BothOK
<1> QED
  BY <1>5 DEF d

LEMMA ReplaceInode ==
  ASSUME NEW c, BothOK(c), NEW i \in Inodes, c.iht[i] # NULL, NEW e \in InodeItem
  PROVE  BothOK([c EXCEPT !.iht[i] = e])
<1> DEFINE d == [c EXCEPT !.iht[i] = e]
<1>1. /\ c \in CacheType /\ c.iht \in [Inodes -> InodeItem \cup {NULL}]
      /\ c.iq \in Seq(Inodes) /\ e # NULL
  BY NullFacts DEF BothOK, CacheType
<1>2. /\ d.iht = [c.iht EXCEPT ![i] = e] /\ d.bq = c.bq /\ d.bsize = c.bsize
      /\ d.iq = c.iq /\ d.bht = c.bht /\ d.isize = c.isize
  BY <1>1 DEF CacheType
<1>3. d \in CacheType
  <2>1. [c.iht EXCEPT ![i] = e] \in [Inodes -> InodeItem \cup {NULL}]
    BY <1>1
  <2> QED
    BY <1>1, <2>1 DEF CacheType
<1>4. QueueOK(c.iq, [c.iht EXCEPT ![i] = e], c.isize, INODE_CACHESIZE)
  <2>1. DOMAIN c.iht = Inodes /\ QueueOK(c.iq, c.iht, c.isize, INODE_CACHESIZE)
    BY <1>1 DEF BothOK
  <2> QED
    BY <1>1, <2>1, ReplaceKeepsQueue
<1> HIDE DEF d
<1>5. BothOK(d)
  BY <1>2, <1>3, <1>4 DEF BothOK
<1> QED
  BY <1>5 DEF d
(* Every cached block is on the disk.                                         *)
BlocksSaved(c) == \A b \in Blocks : c.bht[b] # NULL => c.bht[b].data = c.disk[b]

(* One turn of handle_sync's second loop puts one inode on the disk and       *)
(* touches nothing else there, whatever it evicts on the way.                 *)
LEMMA WriteIFacts ==
  ASSUME NEW c, BothOK(c), NEW i \in Inodes, c.iht[i] # NULL
  PROVE  /\ BothOK(WriteI(c, i)) /\ SameInodes(c, WriteI(c, i))
         /\ BlocksSaved(c) =>
              /\ BlocksSaved(WriteI(c, i))
              /\ \A b \in Blocks, s \in Slots :
                   WriteI(c, i).disk[b][s] =
                     IF b = BlockOf(i) /\ s = SlotOf(i) THEN c.iht[i].data
                                                        ELSE c.disk[b][s]
<1> DEFINE B == BlockOf(i)
           g == GetB(c, B)
           new == [g.bht[B].data EXCEPT ![SlotOf(i)] = c.iht[i].data]
           item == [data |-> new, dirty |-> g.bht[B].dirty]
           m == [g EXCEPT !.bht[B] = item]
           w == WriteI(c, i)
<1>1. B \in Blocks /\ SlotOf(i) \in Slots
  BY PlaceFacts
<1>2. BothOK(g) /\ SameInodes(c, g) /\ BlocksKept(c, g) /\ g.bht[B] # NULL
  BY <1>1, GetBFacts
<1>3. w = [g EXCEPT !.bht[B] = item, !.disk[B] = new]
  BY DEF WriteI
<1> HIDE DEF g, w
<1>4. /\ g \in CacheType /\ g.bht \in [Blocks -> BlockItem \cup {NULL}]
      /\ g.bht[B] \in BlockItem /\ g.disk \in [Blocks -> BlockData]
      /\ c.iht[i] \in InodeItem /\ c.disk \in [Blocks -> BlockData]
  BY <1>1, <1>2 DEF BothOK, CacheType
<1>5. new \in BlockData /\ item \in BlockItem /\ item # NULL /\ item.data = new
  BY <1>1, <1>4, NullFacts DEF BlockItem, InodeItem, BlockData
<1>6. \A s \in Slots : new[s] = IF s = SlotOf(i) THEN c.iht[i].data ELSE g.bht[B].data[s]
  BY <1>1, <1>4 DEF BlockItem, BlockData
<1> HIDE DEF new, item, B
<1>7. BothOK(m)
  BY <1>1, <1>2, <1>5, ReplaceBlock
<1>8. /\ w.disk = [g.disk EXCEPT ![B] = new] /\ w.bht = m.bht /\ w.bq = m.bq
      /\ w.bsize = m.bsize /\ w.iq = m.iq /\ w.iht = m.iht /\ w.isize = m.isize
      /\ m.bht = [g.bht EXCEPT ![B] = item] /\ SameInodes(g, m)
  BY <1>3, <1>4 DEF CacheType, SameInodes
<1>9. w \in CacheType
  <2>1. /\ [g.disk EXCEPT ![B] = new] \in [Blocks -> BlockData]
        /\ [g.bht EXCEPT ![B] = item] \in [Blocks -> BlockItem \cup {NULL}]
    BY <1>4, <1>5
  <2> QED
    BY <1>3, <1>4, <2>1 DEF CacheType
<1>10. BothOK(w) /\ SameInodes(c, w)
  BY <1>2, <1>7, <1>8, <1>9 DEF BothOK, SameInodes
<1>11. ASSUME BlocksSaved(c)
       PROVE  BlocksSaved(w) /\
              \A b \in Blocks, s \in Slots :
                w.disk[b][s] = IF b = B /\ s = SlotOf(i) THEN c.iht[i].data
                                                         ELSE c.disk[b][s]
  <2>1. \A b \in Blocks : g.disk[b] = c.disk[b]
    BY <1>2, <1>11 DEF BlocksKept, BlocksSaved
  <2>2. BlocksSaved(g)
    <3> SUFFICES ASSUME NEW b \in Blocks, g.bht[b] # NULL
                 PROVE  g.bht[b].data = g.disk[b]
      BY DEF BlocksSaved
    <3>1. CASE g.bht[b] = c.bht[b]
      BY <1>11, <2>1, <3>1 DEF BlocksSaved
    <3>2. CASE g.bht[b] = [data |-> g.disk[b], dirty |-> FALSE]
      BY <3>2
    <3> QED
      BY <1>2, <3>1, <3>2 DEF BlocksKept
  <2>3. g.bht[B].data = g.disk[B]
    BY <1>1, <1>2, <2>2 DEF BlocksSaved, B
  <2>4. \A b \in Blocks : IF b = B THEN w.disk[b] = new /\ w.bht[b] = item
                                   ELSE w.disk[b] = g.disk[b] /\ w.bht[b] = g.bht[b]
    BY <1>4, <1>8
  <2>5. BlocksSaved(w)
    BY <1>5, <2>2, <2>4 DEF BlocksSaved
  <2>6. ASSUME NEW b \in Blocks, NEW s \in Slots
        PROVE  w.disk[b][s] = IF b = B /\ s = SlotOf(i) THEN c.iht[i].data
                                                        ELSE c.disk[b][s]
    <3>1. CASE b = B
      BY <1>6, <2>1, <2>3, <2>4, <3>1
    <3>2. CASE b # B
      BY <2>1, <2>4, <3>2
    <3> QED
      BY <3>1, <3>2
  <2> QED
    BY <2>5, <2>6
<1> QED
  BY <1>10, <1>11 DEF w, B

-----------------------------------------------------------------------------
(* The initial state and every step keep CacheInv. *)

LEMMA InitCacheInv == Init => CacheInv
<1> SUFFICES ASSUME Init PROVE CacheInv
  OBVIOUS
<1> USE SizesAssumption
<1>1. PICK d \in [Blocks -> BlockData] :
        cache = [disk |-> d,
                 bq |-> << >>, bht |-> [b \in Blocks |-> NULL], bsize |-> 0,
                 iq |-> << >>, iht |-> [i \in Inodes |-> NULL], isize |-> 0]
  BY DEF Init
<1>2. cache \in CacheType
  BY <1>1 DEF CacheType
<1>3. QueueOK(cache.bq, cache.bht, cache.bsize, BLOCK_CACHESIZE)
  BY <1>1 DEF QueueOK
<1>4. QueueOK(cache.iq, cache.iht, cache.isize, INODE_CACHESIZE)
  BY <1>1 DEF QueueOK
<1>5. /\ heldB = NULL /\ sinceB = 0 /\ heldI = NULL /\ sinceI = 0
      /\ phase = "serve" /\ pos = 1 /\ exiting = FALSE
  BY DEF Init
<1>6. HeldRecent /\ SyncIsAlone
  BY <1>5 DEF HeldRecent, SyncIsAlone
<1>7. /\ heldB \in (Blocks \ TableBlocks) \cup {NULL} /\ sinceB \in Nat
      /\ heldI \in Inodes \cup {NULL} /\ sinceI \in Nat
      /\ phase \in Phases /\ pos \in Nat \ {0}
  BY <1>5 DEF Phases
<1>8. exiting \in BOOLEAN
  BY <1>5, Zenon
<1> QED
  BY <1>2, <1>3, <1>4, <1>6, <1>7, <1>8 DEF CacheInv, CacheOK

LEMMA StepCacheInv == CacheInv /\ [Next]_vars => CacheInv'
<1> SUFFICES ASSUME CacheInv, [Next]_vars PROVE CacheInv'
  OBVIOUS
<1> USE SizesAssumption
<1>0. /\ BothOK(cache) /\ cache \in CacheType
      /\ heldB \in (Blocks \ TableBlocks) \cup {NULL} /\ sinceB \in Nat
      /\ heldI \in Inodes \cup {NULL} /\ sinceI \in Nat
      /\ phase \in Phases /\ pos \in Nat \ {0} /\ exiting \in BOOLEAN
      /\ cache.bq \in Seq(Blocks) /\ cache.iq \in Seq(Inodes)
  BY InvBothOK DEF CacheInv, CacheOK
<1>00. ASSUME BothOK(cache') PROVE
       /\ cache' \in CacheType
       /\ QueueOK(cache'.bq, cache'.bht, cache'.bsize, BLOCK_CACHESIZE)
       /\ QueueOK(cache'.iq, cache'.iht, cache'.isize, INODE_CACHESIZE)
  BY <1>00 DEF BothOK
<1>1. ASSUME NEW b \in Blocks, GetBlock(b) PROVE CacheInv'
  <2>1. /\ BothOK(cache') /\ SameInodes(cache, cache') /\ Recent(cache'.bq, b, 0)
        /\ \A y, d : d \in Nat /\ d + 1 < BLOCK_CACHESIZE /\ Recent(cache.bq, y, d)
                     => Recent(cache'.bq, y, d + 1)
    BY <1>0, <1>1, GetBFacts DEF GetBlock
  <2>2. heldI' # NULL => Recent(cache'.iq, heldI', sinceI') /\ sinceI' < INODE_CACHESIZE
    BY <1>1, <2>1 DEF GetBlock, CacheInv, HeldRecent, SameInodes
  <2>3. heldB' # NULL => Recent(cache'.bq, heldB', sinceB') /\ sinceB' < BLOCK_CACHESIZE
    BY <1>0, <1>1, <2>1 DEF GetBlock, CacheInv, HeldRecent, RoomB
  <2>4. heldB' \in (Blocks \ TableBlocks) \cup {NULL} /\ sinceB' \in Nat
    BY <1>0, <1>1 DEF GetBlock
  <2>5. CacheOK'
    BY <1>0, <1>00, <1>1, <2>1, <2>4 DEF GetBlock, CacheOK
  <2>6. HeldRecent'
    BY <2>2, <2>3 DEF HeldRecent
  <2>7. SyncIsAlone'
    BY <1>1 DEF GetBlock, SyncIsAlone
  <2> QED
    BY <2>5, <2>6, <2>7 DEF CacheInv
<1>2. ASSUME NEW i \in Inodes, GetInode(i) PROVE CacheInv'
  <2>1. /\ BothOK(cache') /\ Recent(cache'.iq, i, 0)
        /\ \A y, d : d \in Nat /\ d + 1 < INODE_CACHESIZE /\ Recent(cache.iq, y, d)
                     => Recent(cache'.iq, y, d + 1)
        /\ \A y, d : d \in Nat /\ d + 2 < BLOCK_CACHESIZE /\ Recent(cache.bq, y, d)
                     => Recent(cache'.bq, y, d + 2)
    BY <1>0, <1>2, GetIFacts DEF GetInode
  <2>2. heldI' # NULL => Recent(cache'.iq, heldI', sinceI') /\ sinceI' < INODE_CACHESIZE
    BY <1>0, <1>2, <2>1 DEF GetInode, CacheInv, HeldRecent, RoomI
  <2>3. heldB' # NULL => Recent(cache'.bq, heldB', sinceB') /\ sinceB' < BLOCK_CACHESIZE
    BY <1>0, <1>2, <2>1 DEF GetInode, CacheInv, HeldRecent, RoomB
  <2>4. heldI' \in Inodes \cup {NULL} /\ sinceI' \in Nat /\ sinceB' \in Nat
    BY <1>0, <1>2 DEF GetInode
  <2>5. CacheOK'
    BY <1>0, <1>00, <1>2, <2>1, <2>4 DEF GetInode, CacheOK
  <2>6. HeldRecent'
    BY <2>2, <2>3 DEF HeldRecent
  <2>7. SyncIsAlone'
    BY <1>2 DEF GetInode, SyncIsAlone
  <2> QED
    BY <2>5, <2>6, <2>7 DEF CacheInv
<1>3. ASSUME NEW e \in BlockItem, heldB # NULL,
             cache' = [cache EXCEPT !.bht[heldB] = e],
             UNCHANGED <<heldB, sinceB, heldI, sinceI, phase, pos, exiting>>
      PROVE CacheInv'
  <2>1. BothOK(cache')
    <3>1. heldB \in Blocks /\ cache.bht[heldB] # NULL
      BY <1>3, InvBothOK, NullFacts
    <3> QED
      BY <1>0, <1>3, <3>1, ReplaceBlock
  <2>2. cache'.bq = cache.bq /\ cache'.iq = cache.iq
    BY <1>0, <1>3 DEF CacheType
  <2>3. CacheOK'
    BY <1>0, <1>00, <1>3, <2>1 DEF CacheOK
  <2>4. HeldRecent'
    BY <1>3, <2>2 DEF CacheInv, HeldRecent
  <2>5. SyncIsAlone'
    BY <1>3 DEF CacheInv, SyncIsAlone, Idle
  <2> QED
    BY <2>3, <2>4, <2>5 DEF CacheInv
<1>4. ASSUME NEW e \in InodeItem, heldI # NULL,
             cache' = [cache EXCEPT !.iht[heldI] = e],
             UNCHANGED <<heldB, sinceB, heldI, sinceI, phase, pos, exiting>>
      PROVE CacheInv'
  <2>1. BothOK(cache')
    <3>1. heldI \in Inodes /\ cache.iht[heldI] # NULL
      BY <1>4, InvBothOK, NullFacts
    <3> QED
      BY <1>0, <1>4, <3>1, ReplaceInode
  <2>2. cache'.bq = cache.bq /\ cache'.iq = cache.iq
    BY <1>0, <1>4 DEF CacheType
  <2>3. CacheOK'
    BY <1>0, <1>00, <1>4, <2>1 DEF CacheOK
  <2>4. HeldRecent'
    BY <1>4, <2>2 DEF CacheInv, HeldRecent
  <2>5. SyncIsAlone'
    BY <1>4 DEF CacheInv, SyncIsAlone, Idle
  <2> QED
    BY <2>3, <2>4, <2>5 DEF CacheInv
<1>5. ASSUME NEW s \in Slots, NEW v \in Val, StoreBlock(s, v) PROVE CacheInv'
  <2>1. [data |-> [cache.bht[heldB].data EXCEPT ![s] = v], dirty |-> TRUE] \in BlockItem
    BY <1>5, InvBothOK DEF StoreBlock, BlockItem, BlockData
  <2> QED
    BY <1>3, <1>5, <2>1 DEF StoreBlock
<1>6. ASSUME NEW s \in Slots, NEW v \in Val, StoreIndirect(s, v) PROVE CacheInv'
  <2>1. [data |-> [cache.bht[heldB].data EXCEPT ![s] = v],
         dirty |-> cache.bht[heldB].dirty] \in BlockItem
    BY <1>6, InvBothOK DEF StoreIndirect, BlockItem, BlockData
  <2> QED
    BY <1>3, <1>6, <2>1 DEF StoreIndirect
<1>7. ASSUME NEW v \in Val, StoreInode(v) PROVE CacheInv'
  <2>1. [data |-> v, dirty |-> TRUE] \in InodeItem
    BY DEF InodeItem
  <2> QED
    BY <1>4, <1>7, <2>1 DEF StoreInode
<1>8. ASSUME NEW v \in Val, ClearFile(v) PROVE CacheInv'
  <2>1. [data |-> v, dirty |-> cache.iht[heldI].dirty] \in InodeItem
    BY <1>8, InvBothOK DEF ClearFile, InodeItem
  <2> QED
    BY <1>4, <1>8, <2>1 DEF ClearFile
<1>9. CASE Return
  BY <1>9 DEF Return, CacheInv, CacheOK, HeldRecent, SyncIsAlone, Idle
<1>10. ASSUME NEW down \in BOOLEAN, SyncBegin(down) PROVE CacheInv'
  BY <1>10 DEF SyncBegin, CacheInv, CacheOK, HeldRecent, SyncIsAlone, Idle, Phases
<1>11. CASE SyncBlock
  <2> DEFINE b == cache.bq[pos]
  <2>1. /\ b \in Blocks /\ cache.bht[b] # NULL
        /\ cache.bht \in [Blocks -> BlockItem \cup {NULL}] /\ cache.disk \in [Blocks -> BlockData]
    BY <1>0, <1>11, InvBothOK DEF SyncBlock, BothOK, QueueOK
  <2>2. cache.bht[b].data \in BlockData
    BY <2>1 DEF BlockItem
  <2> HIDE DEF b
  <2>3. /\ cache' \in CacheType
        /\ cache'.bq = cache.bq /\ cache'.bht = cache.bht /\ cache'.bsize = cache.bsize
        /\ cache'.iq = cache.iq /\ cache'.iht = cache.iht /\ cache'.isize = cache.isize
    <3>1. \/ cache' = cache
          \/ cache' = [cache EXCEPT !.disk[b] = cache.bht[b].data]
      BY <1>11 DEF SyncBlock, b
    <3>2. [cache.disk EXCEPT ![b] = cache.bht[b].data] \in [Blocks -> BlockData]
      BY <2>1, <2>2
    <3> QED
      BY <1>0, <3>1, <3>2, SMTT(20) DEF CacheType
  <2>4. CacheOK'
    <3>1. /\ UNCHANGED <<heldB, sinceB, heldI, sinceI, phase, exiting>>
          /\ pos' = pos + 1
      BY <1>11 DEF SyncBlock
    <3>2. /\ QueueOK(cache'.bq, cache'.bht, cache'.bsize, BLOCK_CACHESIZE)
          /\ QueueOK(cache'.iq, cache'.iht, cache'.isize, INODE_CACHESIZE)
      BY <1>0, <2>3 DEF BothOK
    <3> QED
      BY <1>0, <2>3, <3>1, <3>2 DEF CacheOK
  <2>5. HeldRecent'
    BY <1>11, <2>3 DEF SyncBlock, CacheInv, HeldRecent
  <2>6. SyncIsAlone'
    BY <1>11 DEF SyncBlock, CacheInv, SyncIsAlone, Idle
  <2> QED
    BY <2>4, <2>5, <2>6 DEF CacheInv
<1>12. CASE SyncBlocksDone
  BY <1>12 DEF SyncBlocksDone, CacheInv, CacheOK, HeldRecent, SyncIsAlone, Idle, Phases
<1>13. CASE SyncInode
  <2> DEFINE i == cache.iq[pos]
  <2>1. heldB = NULL /\ heldI = NULL
    BY <1>13 DEF SyncInode, CacheInv, SyncIsAlone, Idle
  <2>2. i \in Inodes /\ cache.iht[i] # NULL
    BY <1>0, <1>13 DEF SyncInode, BothOK, QueueOK
  <2>3. cache' = WriteI(cache, i) \/ cache' = cache
    BY <1>13 DEF SyncInode
  <2> HIDE DEF i
  <2>4. BothOK(cache')
    BY <1>0, <2>2, <2>3, WriteIFacts
  <2>5. CacheOK'
    <3>1. /\ UNCHANGED <<heldB, sinceB, heldI, sinceI, phase, exiting>>
          /\ pos' = pos + 1
      BY <1>13 DEF SyncInode
    <3> QED
      BY <1>0, <1>00, <2>4, <3>1 DEF CacheOK
  <2>6. HeldRecent'
    BY <1>13, <2>1 DEF SyncInode, HeldRecent
  <2>7. SyncIsAlone'
    BY <1>13, <2>1 DEF SyncInode, SyncIsAlone, Idle
  <2> QED
    BY <2>5, <2>6, <2>7 DEF CacheInv
<1>14. CASE SyncEnd
  BY <1>14 DEF SyncEnd, CacheInv, CacheOK, HeldRecent, SyncIsAlone, Idle, Phases
<1>15. CASE Restart
  <2> DEFINE nb == [b \in Blocks |-> NULL]
             ni == [i \in Inodes |-> NULL]
  <2>1. /\ cache' = [cache EXCEPT !.bq = << >>, !.bht = nb, !.bsize = 0,
                                  !.iq = << >>, !.iht = ni, !.isize = 0]
        /\ heldB' = NULL /\ sinceB' = 0 /\ heldI' = NULL /\ sinceI' = 0
        /\ phase' = "serve" /\ pos' = 1 /\ exiting' = FALSE
    BY <1>15 DEF Restart
  <2>2. /\ nb \in [Blocks -> BlockItem \cup {NULL}] /\ ni \in [Inodes -> InodeItem \cup {NULL}]
        /\ \A b \in DOMAIN nb : nb[b] = NULL
        /\ \A i \in DOMAIN ni : ni[i] = NULL
    OBVIOUS
  <2> HIDE DEF nb, ni
  <2>3. /\ cache' \in CacheType
        /\ cache'.bq = << >> /\ cache'.bht = nb /\ cache'.bsize = 0
        /\ cache'.iq = << >> /\ cache'.iht = ni /\ cache'.isize = 0
    <3>1. << >> \in Seq(Blocks) /\ << >> \in Seq(Inodes) /\ 0 \in Nat
      OBVIOUS
    <3>2. /\ cache'.bq = << >> /\ cache'.bht = nb /\ cache'.bsize = 0
          /\ cache'.iq = << >> /\ cache'.iht = ni /\ cache'.isize = 0
      BY <1>0, <2>1 DEF CacheType
    <3> QED
      BY <1>0, <2>1, <2>2, <3>1, <3>2 DEF CacheType
  <2>4. /\ QueueOK(cache'.bq, cache'.bht, cache'.bsize, BLOCK_CACHESIZE)
        /\ QueueOK(cache'.iq, cache'.iht, cache'.isize, INODE_CACHESIZE)
    BY <2>2, <2>3 DEF QueueOK
  <2>5. HeldRecent' /\ SyncIsAlone'
    BY <2>1 DEF HeldRecent, SyncIsAlone
  <2>6. /\ heldB' \in (Blocks \ TableBlocks) \cup {NULL} /\ sinceB' \in Nat
        /\ heldI' \in Inodes \cup {NULL} /\ sinceI' \in Nat
        /\ phase' \in Phases /\ pos' \in Nat \ {0}
    BY <2>1 DEF Phases
  <2>7. exiting' \in BOOLEAN
    BY <2>1, Zenon
  <2> QED
    BY <2>3, <2>4, <2>5, <2>6, <2>7 DEF CacheInv, CacheOK
<1>16. CASE UNCHANGED vars
  BY <1>16 DEF vars, CacheInv, CacheOK, HeldRecent, SyncIsAlone, Idle
<1> QED
  BY <1>1, <1>2, <1>5, <1>6, <1>7, <1>8, <1>9, <1>10, <1>11, <1>12, <1>13, <1>14, <1>15,
     <1>16 DEF Next
LEMMA CacheInvariant == Spec => []CacheInv
<1>1. Init => CacheInv
  BY InitCacheInv
<1>2. CacheInv /\ [Next]_vars => CacheInv'
  BY StepCacheInv
<1> QED
  BY <1>1, <1>2, PTL DEF Spec

(* The queue, the hash table and the counter of each cache agree in every     *)
(* reachable state, whatever the sizes of the caches: neither cache outgrows   *)
(* its CACHESIZE, and insert_ht (yfs.c:1010) never finds its key in the table. *)
THEOREM CachesWellFormed == Spec => []CacheOK
<1>1. CacheInv => CacheOK
  BY DEF CacheInv
<1> QED
  BY <1>1, CacheInvariant, PTL

(* A pointer that fewer than CACHESIZE fetches have followed is never freed   *)
(* under the handler that holds it (get_b yfs.c:1189, get_i yfs.c:1248).       *)
THEOREM PointersLive == Spec => []HeldIsLive
<1>1. CacheInv => HeldIsLive
  BY InvBothOK, NullFacts DEF HeldIsLive
<1> QED
  BY <1>1, CacheInvariant, PTL

-----------------------------------------------------------------------------
(* Sync saves everything, if every store marks what it changes *)

InodeSaved(c, i) == c.iht[i].data = c.disk[BlockOf(i)][SlotOf(i)]

SyncInv ==
  /\ CleanIn(cache)
  /\ phase = "blocks" =>
       \A j \in 1 .. Len(cache.bq) :
         j < pos => cache.bht[cache.bq[j]].data = cache.disk[cache.bq[j]]
  /\ phase = "inodes" =>
       /\ BlocksSaved(cache)
       /\ \A j \in 1 .. Len(cache.iq) : j < pos => InodeSaved(cache, cache.iq[j])
  /\ phase = "exit" =>
       \A b \in Blocks, s \in Slots : cache.disk[b][s] = MemIn(cache, b, s)

(* Once the second loop has reached the end of its queue, nothing is left.    *)
LEMMA AllSaved ==
  ASSUME CacheInv, BlocksSaved(cache),
         \A j \in 1 .. Len(cache.iq) : InodeSaved(cache, cache.iq[j])
  PROVE  \A b \in Blocks, s \in Slots : cache.disk[b][s] = MemIn(cache, b, s)
<1>1. \A i \in Inodes : cache.iht[i] # NULL => InodeSaved(cache, i)
  BY InvBothOK DEF BothOK, QueueOK
<1>2. \A b \in Blocks, s \in Slots : cache.disk[b][s] = StagedIn(cache, b, s)
  BY DEF BlocksSaved, StagedIn
<1> SUFFICES ASSUME NEW b \in Blocks, NEW s \in Slots
             PROVE  cache.disk[b][s] = MemIn(cache, b, s)
  OBVIOUS
<1>3. CASE b \in TableBlocks /\ cache.iht[InodeAt(b, s)] # NULL
  BY <1>1, <1>3, PlaceFacts DEF MemIn, InodeSaved
<1>4. CASE ~(b \in TableBlocks /\ cache.iht[InodeAt(b, s)] # NULL)
  BY <1>2, <1>4 DEF MemIn
<1> QED
  BY <1>3, <1>4

LEMMA StepSyncInv ==
  ASSUME ~UnmarkedStores
  PROVE  CacheInv /\ SyncInv /\ [Next]_vars => SyncInv'
<1> SUFFICES ASSUME CacheInv, SyncInv, [Next]_vars PROVE SyncInv'
  OBVIOUS
<1>0. /\ BothOK(cache) /\ cache \in CacheType
      /\ cache.bq \in Seq(Blocks) /\ cache.iq \in Seq(Inodes) /\ pos \in Nat \ {0}
      /\ cache.disk \in [Blocks -> BlockData]
      /\ cache.bht \in [Blocks -> BlockItem \cup {NULL}]
      /\ cache.iht \in [Inodes -> InodeItem \cup {NULL}]
      /\ CleanIn(cache)
  BY InvBothOK DEF CacheInv, CacheOK, SyncInv
<1>a. ASSUME CleanIn(cache'), phase' = "serve" PROVE SyncInv'
  BY <1>a DEF SyncInv, CleanIn, StagedIn
<1>1. ASSUME NEW b \in Blocks, GetBlock(b) PROVE SyncInv'
  <2>1. CleanIn(cache')
    BY <1>0, <1>1, GetBFacts, CleanKeptByGetB DEF GetBlock
  <2> QED
    BY <1>1, <1>a, <2>1 DEF GetBlock
<1>2. ASSUME NEW i \in Inodes, GetInode(i) PROVE SyncInv'
  <2>1. CleanIn(cache')
    BY <1>0, <1>2, GetIFacts DEF GetInode
  <2> QED
    BY <1>2, <1>a, <2>1 DEF GetInode
<1>3. ASSUME NEW s \in Slots, NEW v \in Val, StoreBlock(s, v) PROVE SyncInv'
  <2> DEFINE e == [data |-> [cache.bht[heldB].data EXCEPT ![s] = v], dirty |-> TRUE]
  <2>1. heldB \in Blocks /\ heldB \notin TableBlocks /\ e.dirty
    BY <1>3 DEF StoreBlock, CacheInv, CacheOK
  <2>2. cache' = [cache EXCEPT !.bht[heldB] = e]
    BY <1>3 DEF StoreBlock
  <2> HIDE DEF e
  <2>3. /\ cache'.disk = cache.disk /\ cache'.iht = cache.iht
        /\ \A b \in Blocks : cache'.bht[b] = IF b = heldB THEN e ELSE cache.bht[b]
    BY <1>0, <2>1, <2>2 DEF CacheType
  <2>4. \A i \in Inodes :
          StagedIn(cache', BlockOf(i), SlotOf(i)) = StagedIn(cache, BlockOf(i), SlotOf(i))
    BY <2>1, <2>3, PlaceFacts DEF StagedIn
  <2>5. CleanIn(cache')
    BY <1>0, <2>1, <2>3, <2>4 DEF CleanIn
  <2> QED
    BY <1>3, <1>a, <2>5 DEF StoreBlock
<1>4. ASSUME NEW v \in Val, StoreInode(v) PROVE SyncInv'
  <2> DEFINE e == [data |-> v, dirty |-> TRUE]
  <2>1. heldI \in Inodes /\ e.dirty
    BY <1>4 DEF StoreInode, CacheInv, CacheOK
  <2>2. cache' = [cache EXCEPT !.iht[heldI] = e]
    BY <1>4 DEF StoreInode
  <2> HIDE DEF e
  <2>3. /\ cache'.disk = cache.disk /\ cache'.bht = cache.bht
        /\ \A i \in Inodes : cache'.iht[i] = IF i = heldI THEN e ELSE cache.iht[i]
    BY <1>0, <2>1, <2>2 DEF CacheType
  <2>4. CleanIn(cache')
    BY <1>0, <2>1, <2>3 DEF CleanIn, StagedIn
  <2> QED
    BY <1>4, <1>a, <2>4 DEF StoreInode
<1>5. CASE Return
  BY <1>0, <1>5, <1>a DEF Return
<1>6. ASSUME NEW down \in BOOLEAN, SyncBegin(down) PROVE SyncInv'
  BY <1>0, <1>6, SMTT(30) DEF SyncBegin, SyncInv
<1>7. CASE SyncBlock
  <2> DEFINE b == cache.bq[pos]
  <2>1. pos \in 1 .. Len(cache.bq) /\ b \in Blocks /\ cache.bht[b] # NULL
    BY <1>0, <1>7 DEF SyncBlock, BothOK, QueueOK
  <2>2. cache.bht[b] \in BlockItem /\ cache.bht[b].data \in BlockData
    BY <1>0, <2>1 DEF BlockItem
  <2>3. \/ cache.bht[b].dirty /\ cache' = [cache EXCEPT !.disk[b] = cache.bht[b].data]
        \/ ~cache.bht[b].dirty /\ cache' = cache
    BY <1>7 DEF SyncBlock
  <2> HIDE DEF b
  <2>4. /\ cache'.bq = cache.bq /\ cache'.bht = cache.bht /\ cache'.iht = cache.iht
        /\ cache'.disk[b] = cache.bht[b].data
        /\ \A a \in Blocks : a # b => cache'.disk[a] = cache.disk[a]
    <3>1. CASE cache.bht[b].dirty /\ cache' = [cache EXCEPT !.disk[b] = cache.bht[b].data]
      BY <1>0, <2>1, <3>1 DEF CacheType
    <3>2. CASE ~cache.bht[b].dirty /\ cache' = cache
      BY <1>0, <2>1, <3>2 DEF CleanIn
    <3> QED
      BY <2>3, <3>1, <3>2
  <2>5. \A a \in Blocks, s \in Slots : StagedIn(cache', a, s) = StagedIn(cache, a, s)
    BY <2>1, <2>4 DEF StagedIn
  <2>6. CleanIn(cache')
    BY <1>0, <2>1, <2>4, <2>5, PlaceFacts DEF CleanIn
  <2>7. \A j \in 1 .. Len(cache.bq) :
          j < pos => cache.bht[cache.bq[j]].data = cache.disk[cache.bq[j]]
    BY <1>7 DEF SyncBlock, SyncInv
  <2>8. \A j \in 1 .. Len(cache'.bq) :
          j < pos + 1 => cache'.bht[cache'.bq[j]].data = cache'.disk[cache'.bq[j]]
    <3> SUFFICES ASSUME NEW j \in 1 .. Len(cache.bq), j < pos + 1
                 PROVE  cache.bht[cache.bq[j]].data = cache'.disk[cache.bq[j]]
      BY <2>4
    <3>1. CASE cache.bq[j] = b
      BY <2>4, <3>1
    <3>2. CASE cache.bq[j] # b
      <4>1. j # pos /\ j < pos /\ cache.bq[j] \in Blocks
        BY <1>0, <3>2 DEF b
      <4> QED
        BY <2>4, <2>7, <3>2, <4>1
    <3> QED
      BY <3>1, <3>2
  <2> QED
    BY <1>7, <2>6, <2>8 DEF SyncBlock, SyncInv
<1>8. CASE SyncBlocksDone
  <2>1. \A j \in 1 .. Len(cache.bq) : cache.bht[cache.bq[j]].data = cache.disk[cache.bq[j]]
    BY <1>0, <1>8 DEF SyncBlocksDone, SyncInv
  <2>2. BlocksSaved(cache)
    BY <1>0, <2>1, SMTT(30) DEF BlocksSaved, BothOK, QueueOK
  <2> QED
    BY <1>0, <1>8, <2>2 DEF SyncBlocksDone, SyncInv, BlocksSaved
<1>9. CASE SyncInode
  <2> DEFINE i == cache.iq[pos]
  <2>1. pos \in 1 .. Len(cache.iq) /\ i \in Inodes /\ cache.iht[i] # NULL
    BY <1>0, <1>9 DEF SyncInode, BothOK, QueueOK
  <2>2. /\ BlocksSaved(cache)
        /\ \A j \in 1 .. Len(cache.iq) : j < pos => InodeSaved(cache, cache.iq[j])
    BY <1>9 DEF SyncInode, SyncInv
  <2>3. \A a \in Blocks, s \in Slots : StagedIn(cache, a, s) = cache.disk[a][s]
    BY <2>2 DEF BlocksSaved, StagedIn
  <2>4. CASE ~cache.iht[i].dirty
    <3>1. cache' = cache
      BY <1>9, <2>4 DEF SyncInode
    <3>2. InodeSaved(cache, i)
      BY <1>0, <2>1, <2>3, <2>4, PlaceFacts DEF CleanIn, InodeSaved
    <3>3. \A j \in 1 .. Len(cache.iq) : j < pos + 1 => InodeSaved(cache, cache.iq[j])
      BY <1>0, <2>2, <3>2, SMTT(20)
    <3> QED
      BY <1>0, <1>9, <2>2, <3>1, <3>3 DEF SyncInode, SyncInv
  <2>5. CASE cache.iht[i].dirty
    <3>1. cache' = WriteI(cache, i)
      BY <1>9, <2>5 DEF SyncInode
    <3> HIDE DEF i
    <3>2. /\ SameInodes(cache, cache') /\ BlocksSaved(cache')
          /\ \A b \in Blocks, s \in Slots :
               cache'.disk[b][s] =
                 IF b = BlockOf(i) /\ s = SlotOf(i) THEN cache.iht[i].data
                                                    ELSE cache.disk[b][s]
      BY <1>0, <2>1, <2>2, <3>1, WriteIFacts
    <3>3. \A j \in Inodes :
            cache'.disk[BlockOf(j)][SlotOf(j)] =
              IF j = i THEN cache.iht[i].data ELSE cache.disk[BlockOf(j)][SlotOf(j)]
      <4>1. \A j \in Inodes : BlockOf(j) = BlockOf(i) /\ SlotOf(j) = SlotOf(i) => j = i
        BY <2>1, PlaceFacts
      <4> QED
        BY <3>2, <4>1, PlaceFacts
    <3>4. \A a \in Blocks, s \in Slots : StagedIn(cache', a, s) = cache'.disk[a][s]
      BY <3>2 DEF BlocksSaved, StagedIn
    <3>5. CleanIn(cache')
      <4>1. \A b \in Blocks :
              cache'.bht[b] # NULL /\ ~cache'.bht[b].dirty
              => cache'.bht[b].data = cache'.disk[b]
        BY <3>2 DEF BlocksSaved
      <4>2. ASSUME NEW j \in Inodes, cache'.iht[j] # NULL, ~cache'.iht[j].dirty
            PROVE  cache'.iht[j].data = StagedIn(cache', BlockOf(j), SlotOf(j))
        <5>1. cache'.iht[j] = cache.iht[j] /\ j # i
          BY <2>5, <3>2, <4>2 DEF SameInodes, i
        <5>2. cache.iht[j].data = cache.disk[BlockOf(j)][SlotOf(j)]
          BY <1>0, <2>3, <4>2, <5>1, PlaceFacts DEF CleanIn
        <5> QED
          BY <3>3, <3>4, <5>1, <5>2, PlaceFacts
      <4> QED
        BY <4>1, <4>2 DEF CleanIn
    <3>6. \A j \in 1 .. Len(cache'.iq) : j < pos + 1 => InodeSaved(cache', cache'.iq[j])
      <4> SUFFICES ASSUME NEW j \in 1 .. Len(cache.iq), j < pos + 1
                   PROVE  InodeSaved(cache', cache.iq[j])
        BY <3>2 DEF SameInodes
      <4>1. cache.iq[j] \in Inodes /\ cache'.iht = cache.iht
        BY <1>0, <3>2 DEF SameInodes
      <4>2. CASE cache.iq[j] = i
        BY <3>3, <4>1, <4>2 DEF InodeSaved
      <4>3. CASE cache.iq[j] # i
        <5>1. j < pos
          BY <1>0, <4>3 DEF i
        <5> QED
          BY <2>2, <3>3, <4>1, <4>3, <5>1 DEF InodeSaved
      <4> QED
        BY <4>2, <4>3
    <3> QED
      BY <1>9, <3>2, <3>5, <3>6 DEF SyncInode, SyncInv
  <2> QED
    BY <2>4, <2>5
<1>10. CASE SyncEnd
  <2>1. BlocksSaved(cache) /\ \A j \in 1 .. Len(cache.iq) : InodeSaved(cache, cache.iq[j])
    BY <1>0, <1>10 DEF SyncEnd, SyncInv
  <2>2. \A b \in Blocks, s \in Slots : cache.disk[b][s] = MemIn(cache, b, s)
    BY <2>1, AllSaved
  <2>3. cache' = cache /\ phase' \in {"exit", "serve"}
    BY <1>10 DEF SyncEnd
  <2> QED
    BY <1>0, <2>2, <2>3 DEF SyncInv
<1>11. CASE Restart
  <2> DEFINE nb == [b \in Blocks |-> NULL]
             ni == [i \in Inodes |-> NULL]
  <2>1. cache' = [cache EXCEPT !.bq = << >>, !.bht = nb, !.bsize = 0,
                               !.iq = << >>, !.iht = ni, !.isize = 0]
    BY <1>11 DEF Restart
  <2>2. /\ \A b \in Blocks : nb[b] = NULL
        /\ \A i \in Inodes : ni[i] = NULL
    OBVIOUS
  <2> HIDE DEF nb, ni
  <2>3. cache'.bht = nb /\ cache'.iht = ni
    BY <1>0, <2>1 DEF CacheType
  <2>4. CleanIn(cache')
    BY <2>2, <2>3 DEF CleanIn
  <2> QED
    BY <1>11, <1>a, <2>4 DEF Restart
<1>12. CASE UNCHANGED vars
  BY <1>12 DEF vars, SyncInv
<1> QED
  BY <1>1, <1>2, <1>3, <1>4, <1>5, <1>6, <1>7, <1>8, <1>9, <1>10, <1>11, <1>12
  DEF Next, StoreIndirect, ClearFile

LEMMA SyncInvariant ==
  ASSUME ~UnmarkedStores
  PROVE  Spec => []SyncInv
<1>1. Init => SyncInv
  <2> SUFFICES ASSUME Init PROVE SyncInv
    OBVIOUS
  <2>1. /\ \A b \in Blocks : cache.bht[b] = NULL
        /\ \A i \in Inodes : cache.iht[i] = NULL
        /\ phase = "serve"
    BY DEF Init
  <2> QED
    BY <2>1 DEF SyncInv, CleanIn
<1>2. CacheInv /\ SyncInv /\ [Next]_vars => SyncInv'
  BY StepSyncInv
<1> QED
  BY <1>1, <1>2, CacheInvariant, PTL DEF Spec

(* Sync and Shutdown leave the disk equal to what the handlers read, for      *)
(* every size of the caches and of the disk, provided every store marks what   *)
(* it changes (handle_sync yfs.c:958-1005, handle_shutdown yfs.c:894).         *)
THEOREM SyncSavesAll ==
  ASSUME ~UnmarkedStores
  PROVE  Spec => []SyncSaves
<1>1. CacheInv /\ SyncInv => SyncSaves
  <2> SUFFICES ASSUME CacheInv, SyncInv, phase = "inodes", pos > Len(cache.iq)
               PROVE  \A b \in Blocks, s \in Slots : cache.disk[b][s] = MemIn(cache, b, s)
    BY DEF SyncInv, SyncSaves
  <2>1. pos \in Nat /\ Len(cache.iq) \in Nat
    BY InvBothOK DEF CacheInv, CacheOK
  <2>2. BlocksSaved(cache) /\ \A j \in 1 .. Len(cache.iq) : InodeSaved(cache, cache.iq[j])
    BY <2>1 DEF SyncInv
  <2> QED
    BY <2>2, AllSaved
<1> QED
  BY <1>1, CacheInvariant, SyncInvariant, PTL

-----------------------------------------------------------------------------
(* The caches implement the store *)

(* Values move forward from c to d, and nothing a handler reads changes.      *)
StagedForward(c, d) ==
  \A b \in Blocks, s \in Slots : StagedIn(d, b, s) \in {StagedIn(c, b, s), MemIn(c, b, s)}
DiskForward(c, d) ==
  \A b \in Blocks, s \in Slots :
    d.disk[b][s] \in {c.disk[b][s], StagedIn(c, b, s), StagedIn(d, b, s)}
Forward(c, d) == MemKept(c, d) /\ StagedForward(c, d) /\ DiskForward(c, d)

LEMMA ForwardTwice ==
  ASSUME NEW c, NEW d, NEW e, Forward(c, d), Forward(d, e)
  PROVE  Forward(c, e)
<1>1. MemKept(c, e)
  BY DEF Forward, MemKept
<1>2. StagedForward(c, e)
  BY DEF Forward, MemKept, StagedForward
<1>3. ASSUME NEW b \in Blocks, NEW s \in Slots
      PROVE  e.disk[b][s] \in {c.disk[b][s], StagedIn(c, b, s), StagedIn(e, b, s)}
  <2>1. /\ MemIn(d, b, s) = MemIn(c, b, s)
        /\ StagedIn(d, b, s) \in {StagedIn(c, b, s), MemIn(c, b, s)}
        /\ StagedIn(e, b, s) \in {StagedIn(d, b, s), MemIn(d, b, s)}
        /\ d.disk[b][s] \in {c.disk[b][s], StagedIn(c, b, s), StagedIn(d, b, s)}
        /\ e.disk[b][s] \in {d.disk[b][s], StagedIn(d, b, s), StagedIn(e, b, s)}
    BY DEF Forward, MemKept, StagedForward, DiskForward
  <2> QED
    BY <2>1
<1> QED
  BY <1>1, <1>2, <1>3 DEF Forward, DiskForward

(* A fetch or an eviction of a block writes blocks to the disk at most.       *)
LEMMA KeptIsForward ==
  ASSUME NEW c, NEW d, SameInodes(c, d), BlocksKept(c, d)
  PROVE  Forward(c, d)
<1>1. MemKept(c, d)
  BY MemKeptBySame
<1>2. StagedForward(c, d)
  BY DEF BlocksKept, StagedForward
<1>3. DiskForward(c, d)
  BY DEF BlocksKept, DiskForward, StagedIn
<1> QED
  BY <1>1, <1>2, <1>3 DEF Forward

(* What the store's variables hold is of the right type.                      *)
LEMMA StagedType ==
  ASSUME NEW c, BothOK(c), NEW b \in Blocks, NEW s \in Slots
  PROVE  StagedIn(c, b, s) \in Val /\ c.disk[b][s] \in Val /\ MemIn(c, b, s) \in Val
<1>1. /\ c.disk \in [Blocks -> BlockData]
      /\ c.bht \in [Blocks -> BlockItem \cup {NULL}]
      /\ c.iht \in [Inodes -> InodeItem \cup {NULL}]
  BY DEF BothOK, CacheType
<1>2. c.disk[b][s] \in Val
  BY <1>1 DEF BlockData
<1>3. StagedIn(c, b, s) \in Val
  BY <1>1, <1>2 DEF StagedIn, BlockItem, BlockData
<1>4. MemIn(c, b, s) \in Val
  BY <1>1, <1>3, PlaceFacts DEF MemIn, InodeItem
<1> QED
  BY <1>2, <1>3, <1>4

(* The inode's value is copied into its block, and nothing else moves.        *)
LEMMA CopyIStages ==
  ASSUME NEW c, BothOK(c), NEW i \in Inodes, NEW v \in Val, c.bht[BlockOf(i)] # NULL
  PROVE  /\ CopyI(c, i, v).disk = c.disk
         /\ \A b \in Blocks, s \in Slots :
              StagedIn(CopyI(c, i, v), b, s) =
                IF b = BlockOf(i) /\ s = SlotOf(i) THEN v ELSE StagedIn(c, b, s)
<1> DEFINE d == CopyI(c, i, v)
           B == BlockOf(i)
           new == [data |-> [c.bht[B].data EXCEPT ![SlotOf(i)] = v], dirty |-> TRUE]
<1>1. /\ B \in Blocks /\ SlotOf(i) \in Slots /\ c \in CacheType
      /\ c.bht \in [Blocks -> BlockItem \cup {NULL}] /\ c.bht[B] \in BlockItem
  BY PlaceFacts DEF BothOK, CacheType
<1>2. d.bht = [c.bht EXCEPT ![B] = new] /\ d.disk = c.disk
  BY <1>1 DEF CopyI, CacheType
<1>3. c.bht[B].data \in [Slots -> Val]
  BY <1>1 DEF BlockItem, BlockData
<1>4. new # NULL /\ \A s \in Slots : new.data[s] = IF s = SlotOf(i) THEN v ELSE c.bht[B].data[s]
  <2>1. new \in BlockItem
    BY <1>1, <1>3 DEF BlockItem, BlockData
  <2> QED
    BY <1>3, <2>1, NullFacts
<1> HIDE DEF d, B, new
<1>5. \A b \in Blocks : d.bht[b] = IF b = B THEN new ELSE c.bht[b]
  BY <1>1, <1>2
<1>6. c.bht[B] # NULL
  BY DEF B
<1>7. \A b \in Blocks, s \in Slots :
        StagedIn(d, b, s) = IF b = B /\ s = SlotOf(i) THEN v ELSE StagedIn(c, b, s)
  BY <1>2, <1>4, <1>5, <1>6 DEF StagedIn
<1> QED
  BY <1>2, <1>7 DEF d, B

(* evict_i: the inode's value arrives in its block.                           *)
LEMMA EvictIForward ==
  ASSUME NEW c, BothOK(c), c.isize = INODE_CACHESIZE
  PROVE  Forward(c, EvictI(c))
<1> DEFINE i == Head(c.iq)
           v == c.iht[i].data
           n == DropI(c)
           g == GetB(n, BlockOf(i))
           e == CopyI(g, i, v)
<1>1. /\ i \in Inodes /\ c.iht[i] # NULL /\ c.iht[i] \in InodeItem /\ BothOK(n)
      /\ n.disk = c.disk /\ n.bht = c.bht
  BY DropIFacts
<1>2. MemKept(c, e)
  BY EvictIFacts DEF EvictI
<1> HIDE DEF n
<1>3. v \in Val
  BY <1>1 DEF InodeItem
<1>4. BlockOf(i) \in Blocks /\ BlockOf(i) \in TableBlocks /\ InodeAt(BlockOf(i), SlotOf(i)) = i
  BY <1>1, PlaceFacts
<1>5. BothOK(g) /\ BlocksKept(n, g) /\ g.bht[BlockOf(i)] # NULL
  BY <1>1, <1>4, GetBFacts
<1> HIDE DEF g
<1>6. /\ e.disk = g.disk
      /\ \A b \in Blocks, s \in Slots :
           StagedIn(e, b, s) =
             IF b = BlockOf(i) /\ s = SlotOf(i) THEN v ELSE StagedIn(g, b, s)
  BY <1>1, <1>3, <1>5, CopyIStages
<1>7. \A b \in Blocks, s \in Slots : StagedIn(g, b, s) = StagedIn(c, b, s)
  BY <1>1, <1>5 DEF BlocksKept, StagedIn
<1>8. MemIn(c, BlockOf(i), SlotOf(i)) = v
  BY <1>1, <1>4 DEF MemIn
<1>9. StagedForward(c, e)
  BY <1>6, <1>7, <1>8 DEF StagedForward
<1>10. \A b \in Blocks, s \in Slots : g.disk[b][s] \in {c.disk[b][s], StagedIn(c, b, s)}
  BY <1>1, <1>5, SMTT(30) DEF BlocksKept, StagedIn
<1>11. DiskForward(c, e)
  BY <1>6, <1>10 DEF DiskForward
<1>12. EvictI(c) = e
  BY DEF EvictI, g, n
<1> QED
  BY <1>2, <1>9, <1>11, <1>12 DEF Forward

LEMMA ReadIForward ==
  ASSUME NEW c, BothOK(c), NEW i \in Inodes, NEW f \in BOOLEAN,
         c.isize # INODE_CACHESIZE, c.iht[i] = NULL
  PROVE  Forward(c, ReadI(c, i, f))
<1> DEFINE g == GetB(c, BlockOf(i))
           r == ReadI(c, i, f)
<1>1. BlockOf(i) \in Blocks
  BY PlaceFacts
<1>2. BothOK(g) /\ SameInodes(c, g) /\ BlocksKept(c, g)
  BY <1>1, GetBFacts
<1>3. MemKept(c, r)
  BY ReadIFacts
<1>4. r.disk = g.disk /\ r.bht = g.bht
  <2>1. g \in CacheType
    BY <1>2 DEF BothOK
  <2> HIDE DEF g
  <2>2. r = [g EXCEPT !.iq = Append(g.iq, i),
                      !.iht[i] = [data |-> g.bht[BlockOf(i)].data[SlotOf(i)], dirty |-> f],
                      !.isize = g.isize + 1]
    BY DEF ReadI, g
  <2> QED
    BY <2>1, <2>2 DEF CacheType
<1> HIDE DEF g, r
<1>5. Forward(c, g)
  BY <1>2, KeptIsForward, SMTT(20)
<1>6. StagedForward(c, r) /\ DiskForward(c, r)
  BY <1>4, <1>5, ZenonT(40) DEF Forward, StagedForward, DiskForward, StagedIn
<1> QED
  BY <1>3, <1>6 DEF Forward, r

LEMMA GetIForward ==
  ASSUME NEW c, BothOK(c), NEW i \in Inodes, NEW f \in BOOLEAN
  PROVE  Forward(c, GetI(c, i, f))
<1>1. CASE c.iht[i] # NULL
  <2> DEFINE t == [c EXCEPT !.iq = Touch(c.iq, i)]
  <2>1. GetI(c, i, f) = t /\ t.disk = c.disk /\ t.bht = c.bht /\ t.iht = c.iht
    BY <1>1 DEF GetI, BothOK, CacheType
  <2> HIDE DEF t
  <2>2. \A b \in Blocks, s \in Slots :
          StagedIn(t, b, s) = StagedIn(c, b, s) /\ MemIn(t, b, s) = MemIn(c, b, s)
    BY <2>1 DEF StagedIn, MemIn
  <2> QED
    BY <2>1, <2>2 DEF Forward, MemKept, StagedForward, DiskForward
<1>2. CASE c.iht[i] = NULL /\ c.isize # INODE_CACHESIZE
  BY <1>2, ReadIForward DEF GetI
<1>3. CASE c.iht[i] = NULL /\ c.isize = INODE_CACHESIZE
  <2> DEFINE e == EvictI(c)
  <2>1. Forward(c, e) /\ BothOK(e) /\ e.isize # INODE_CACHESIZE /\ e.iht[i] = NULL
    BY <1>3, EvictIForward, EvictIFacts
  <2>2. GetI(c, i, f) = ReadI(e, i, f)
    BY <1>3 DEF GetI
  <2> HIDE DEF e
  <2>3. Forward(e, ReadI(e, i, f))
    BY <2>1, ReadIForward
  <2> QED
    BY <2>1, <2>2, <2>3, ForwardTwice
<1> QED
  BY <1>1, <1>2, <1>3

(* A turn of the second loop of handle_sync: the inode's value arrives in its *)
(* block and on the disk.                                                     *)
LEMMA WriteIForward ==
  ASSUME NEW c, BothOK(c), NEW i \in Inodes, c.iht[i] # NULL
  PROVE  Forward(c, WriteI(c, i))
<1> DEFINE B == BlockOf(i)
           v == c.iht[i].data
           g == GetB(c, B)
           new == [g.bht[B].data EXCEPT ![SlotOf(i)] = v]
           item == [data |-> new, dirty |-> g.bht[B].dirty]
           w == WriteI(c, i)
<1>1. B \in Blocks /\ SlotOf(i) \in Slots /\ B \in TableBlocks /\ InodeAt(B, SlotOf(i)) = i
  BY PlaceFacts
<1>2. BothOK(g) /\ SameInodes(c, g) /\ BlocksKept(c, g) /\ g.bht[B] # NULL
  BY <1>1, GetBFacts
<1>3. w = [g EXCEPT !.bht[B] = item, !.disk[B] = new]
  BY DEF WriteI
<1> HIDE DEF g, w
<1>4. /\ g \in CacheType /\ g.bht \in [Blocks -> BlockItem \cup {NULL}]
      /\ g.bht[B] \in BlockItem /\ g.disk \in [Blocks -> BlockData]
      /\ c.iht[i] \in InodeItem
  BY <1>1, <1>2 DEF BothOK, CacheType
<1>5. g.bht[B].data \in [Slots -> Val] /\ v \in Val
  BY <1>4 DEF BlockItem, BlockData, InodeItem
<1>6. item # NULL /\ item.data = new
      /\ \A s \in Slots : new[s] = IF s = SlotOf(i) THEN v ELSE g.bht[B].data[s]
  <2>1. item \in BlockItem
    BY <1>4, <1>5 DEF BlockItem, BlockData
  <2> QED
    BY <1>5, <2>1, NullFacts
<1> HIDE DEF item, new
<1>7. /\ w.iht = g.iht
      /\ \A b \in Blocks : /\ w.bht[b] = IF b = B THEN item ELSE g.bht[b]
                           /\ w.disk[b] = IF b = B THEN new ELSE g.disk[b]
  BY <1>1, <1>3, <1>4 DEF CacheType
<1>8. Forward(c, g)
  BY <1>2, KeptIsForward
<1>9. \A b \in Blocks, s \in Slots :
        StagedIn(w, b, s) = IF b = B /\ s = SlotOf(i) THEN v ELSE StagedIn(g, b, s)
  BY <1>2, <1>6, <1>7 DEF StagedIn
<1>10. MemIn(g, B, SlotOf(i)) = v
  BY <1>1, <1>2 DEF MemIn, SameInodes
<1>11. \A b \in Blocks, s \in Slots : MemIn(w, b, s) = MemIn(g, b, s)
  <2> SUFFICES ASSUME NEW b \in Blocks, NEW s \in Slots
               PROVE  MemIn(w, b, s) = MemIn(g, b, s)
    OBVIOUS
  <2>1. CASE b = B /\ s = SlotOf(i)
    BY <1>1, <1>2, <1>7, <2>1 DEF MemIn, SameInodes
  <2>2. CASE ~(b = B /\ s = SlotOf(i))
    BY <1>7, <1>9, <2>2 DEF MemIn
  <2> QED
    BY <2>1, <2>2
<1>12. StagedForward(g, w)
  BY <1>9, <1>10 DEF StagedForward
<1>13. DiskForward(g, w)
  BY <1>6, <1>7 DEF DiskForward, StagedIn
<1>14. Forward(g, w)
  BY <1>11, <1>12, <1>13 DEF Forward, MemKept
<1> QED
  BY <1>8, <1>14, ForwardTwice DEF w

-----------------------------------------------------------------------------
(* Every step of the caches is a step of the store. *)

MemMap(c) == [o \in Objects |-> MemIn(c, o[1], o[2])]
StagedMap(c) == [o \in Objects |-> StagedIn(c, o[1], o[2])]
SavedMap(c) == [o \in Objects |-> c.disk[o[1]][o[2]]]
Syncing == phase \in {"blocks", "inodes"}

LEMMA ForwardIsWriteBack ==
  ASSUME BothOK(cache'), Forward(cache, cache'), Syncing' = Syncing
  PROVE  Abstract!WriteBack
<1>1. ASSUME NEW o \in Objects PROVE
        /\ MemIn(cache', o[1], o[2]) = MemIn(cache, o[1], o[2])
        /\ StagedIn(cache', o[1], o[2]) \in Val /\ cache'.disk[o[1]][o[2]] \in Val
        /\ StagedIn(cache', o[1], o[2])
             \in {StagedIn(cache, o[1], o[2]), MemIn(cache, o[1], o[2])}
        /\ cache'.disk[o[1]][o[2]] \in {cache.disk[o[1]][o[2]], StagedIn(cache, o[1], o[2]),
                                        StagedIn(cache', o[1], o[2])}
  <2>1. o[1] \in Blocks /\ o[2] \in Slots
    BY DEF Objects
  <2> QED
    BY <2>1, StagedType DEF Forward, MemKept, StagedForward, DiskForward
<1>2. StagedMap(cache') \in [Objects -> Val] /\ SavedMap(cache') \in [Objects -> Val]
  BY <1>1 DEF StagedMap, SavedMap
<1>3. MemMap(cache') = MemMap(cache)
  BY <1>1 DEF MemMap
<1>4. \A o \in Objects :
        /\ StagedMap(cache')[o] \in {StagedMap(cache)[o], MemMap(cache)[o]}
        /\ SavedMap(cache')[o]
             \in {SavedMap(cache)[o], StagedMap(cache)[o], StagedMap(cache')[o]}
  BY <1>1 DEF StagedMap, SavedMap, MemMap
<1> QED
  BY <1>2, <1>3, <1>4 DEF Abstract!WriteBack, MemMap, StagedMap, SavedMap, Syncing

(* A store into a cell of a data block changes the block that contains it.    *)
LEMMA StoreBlockIsStore ==
  ASSUME CacheInv, NEW s \in Slots, NEW v \in Val, NEW f \in BOOLEAN, heldB # NULL,
         cache' = [cache EXCEPT !.bht[heldB] =
                     [data |-> [cache.bht[heldB].data EXCEPT ![s] = v], dirty |-> f]],
         ~Syncing, Syncing' = Syncing
  PROVE  Abstract!Store(<<heldB, s>>, v)
<1> DEFINE new == [cache.bht[heldB].data EXCEPT ![s] = v]
           e == [data |-> new, dirty |-> f]
<1>1. /\ cache \in CacheType /\ heldB \in Blocks /\ cache.bht[heldB] \in BlockItem
      /\ cache.bht \in [Blocks -> BlockItem \cup {NULL}]
  BY InvBothOK DEF BothOK
<1>2. heldB \notin TableBlocks
  BY DEF CacheInv, CacheOK
<1>3. cache.bht[heldB].data \in [Slots -> Val] /\ cache.bht[heldB] # NULL
  BY <1>1, NullFacts DEF BlockItem, BlockData
<1>4. /\ e # NULL /\ e.data = new
      /\ \A t \in Slots : new[t] = IF t = s THEN v ELSE cache.bht[heldB].data[t]
  <2>1. e \in BlockItem
    BY <1>3 DEF BlockItem, BlockData
  <2> QED
    BY <1>3, <2>1, NullFacts
<1> HIDE DEF e, new
<1>5. /\ cache'.disk = cache.disk /\ cache'.iht = cache.iht
      /\ \A b \in Blocks : cache'.bht[b] = IF b = heldB THEN e ELSE cache.bht[b]
  BY <1>1 DEF CacheType, e, new
<1>6. ASSUME NEW b \in Blocks, NEW t \in Slots PROVE
        /\ StagedIn(cache', b, t) = IF b = heldB /\ t = s THEN v ELSE StagedIn(cache, b, t)
        /\ MemIn(cache', b, t) = IF b = heldB /\ t = s THEN v ELSE MemIn(cache, b, t)
  <2>1. StagedIn(cache', b, t) = IF b = heldB /\ t = s THEN v ELSE StagedIn(cache, b, t)
    BY <1>3, <1>4, <1>5 DEF StagedIn
  <2> QED
    BY <1>2, <1>5, <2>1 DEF MemIn
<1>7. ASSUME NEW o \in Objects PROVE
        /\ StagedMap(cache')[o] = IF o = <<heldB, s>> THEN v ELSE StagedMap(cache)[o]
        /\ MemMap(cache')[o] = IF o = <<heldB, s>> THEN v ELSE MemMap(cache)[o]
  <2>1. o[1] \in Blocks /\ o[2] \in Slots /\ (o = <<heldB, s>> <=> o[1] = heldB /\ o[2] = s)
    BY DEF Objects
  <2> QED
    BY <1>6, <2>1 DEF StagedMap, MemMap
<1>8. /\ MemMap(cache') = [MemMap(cache) EXCEPT ![<<heldB, s>>] = v]
      /\ StagedMap(cache') = [StagedMap(cache) EXCEPT ![<<heldB, s>>] = v]
  BY <1>7 DEF StagedMap, MemMap
<1>9. SavedMap(cache') = SavedMap(cache)
  BY <1>5 DEF SavedMap
<1> QED
  BY <1>8, <1>9 DEF Abstract!Store, MemMap, StagedMap, SavedMap, Syncing

(* A store into a cached inode leaves the block that contains it as it was.   *)
LEMMA StoreInodeIsStore ==
  ASSUME CacheInv, NEW v \in Val, NEW f \in BOOLEAN, heldI # NULL,
         cache' = [cache EXCEPT !.iht[heldI] = [data |-> v, dirty |-> f]],
         ~Syncing, Syncing' = Syncing
  PROVE  Abstract!Store(<<BlockOf(heldI), SlotOf(heldI)>>, v)
<1> DEFINE e == [data |-> v, dirty |-> f]
           p == <<BlockOf(heldI), SlotOf(heldI)>>
<1>1. /\ cache \in CacheType /\ heldI \in Inodes /\ cache.iht[heldI] \in InodeItem
      /\ cache.iht \in [Inodes -> InodeItem \cup {NULL}] /\ cache.iht[heldI] # NULL
  BY InvBothOK, NullFacts DEF BothOK
<1>2. e # NULL /\ e.data = v
  <2>1. e \in InodeItem
    BY DEF InodeItem
  <2> QED
    BY <2>1, NullFacts
<1> HIDE DEF e
<1>3. /\ cache'.disk = cache.disk /\ cache'.bht = cache.bht
      /\ \A i \in Inodes : cache'.iht[i] = IF i = heldI THEN e ELSE cache.iht[i]
  BY <1>1 DEF CacheType, e
<1>4. \A b \in Blocks, t \in Slots : StagedIn(cache', b, t) = StagedIn(cache, b, t)
  BY <1>3 DEF StagedIn
<1>5. ASSUME NEW b \in Blocks, NEW t \in Slots PROVE
        MemIn(cache', b, t) =
          IF b = BlockOf(heldI) /\ t = SlotOf(heldI) THEN v ELSE MemIn(cache, b, t)
  <2>1. CASE b \in TableBlocks
    <3>1. /\ InodeAt(b, t) \in Inodes
          /\ InodeAt(b, t) = heldI <=> b = BlockOf(heldI) /\ t = SlotOf(heldI)
      BY <1>1, <2>1, PlaceFacts
    <3> QED
      BY <1>1, <1>2, <1>3, <1>4, <2>1, <3>1 DEF MemIn
  <2>2. CASE b \notin TableBlocks
    BY <1>1, <1>4, <2>2, PlaceFacts DEF MemIn
  <2> QED
    BY <2>1, <2>2
<1>6. ASSUME NEW o \in Objects PROVE
        /\ StagedMap(cache')[o] = StagedMap(cache)[o]
        /\ MemMap(cache')[o] = IF o = p THEN v ELSE MemMap(cache)[o]
  <2>1. /\ o[1] \in Blocks /\ o[2] \in Slots
        /\ o = p <=> o[1] = BlockOf(heldI) /\ o[2] = SlotOf(heldI)
    BY DEF Objects
  <2> QED
    BY <1>4, <1>5, <2>1 DEF StagedMap, MemMap
<1>7. MemMap(cache') = [MemMap(cache) EXCEPT ![p] = v] /\ StagedMap(cache') = StagedMap(cache)
  BY <1>6 DEF StagedMap, MemMap
<1>8. SavedMap(cache') = SavedMap(cache)
  BY <1>3 DEF SavedMap
<1> QED
  BY <1>7, <1>8 DEF Abstract!Store, MemMap, StagedMap, SavedMap, Syncing

LEMMA InitStore == Init => Abstract!Init
<1> SUFFICES ASSUME Init PROVE Abstract!Init
  OBVIOUS
<1>1. /\ cache.disk \in [Blocks -> BlockData] /\ phase = "serve"
      /\ \A b \in Blocks : cache.bht[b] = NULL
      /\ \A i \in Inodes : cache.iht[i] = NULL
  BY DEF Init
<1>2. ASSUME NEW o \in Objects PROVE
        /\ cache.disk[o[1]][o[2]] \in Val
        /\ StagedIn(cache, o[1], o[2]) = cache.disk[o[1]][o[2]]
        /\ MemIn(cache, o[1], o[2]) = cache.disk[o[1]][o[2]]
  <2>1. o[1] \in Blocks /\ o[2] \in Slots
    BY DEF Objects
  <2> QED
    BY <1>1, <2>1, PlaceFacts DEF BlockData, StagedIn, MemIn
<1> QED
  BY <1>1, <1>2 DEF Abstract!Init

(* The state in which handle_sync is about to return.                         *)
LEMMA SyncEndSaved ==
  ASSUME CacheInv, SyncInv, SyncEnd
  PROVE  Abstract!SyncEnd
<1>1. pos \in Nat /\ Len(cache.iq) \in Nat
  BY InvBothOK DEF CacheInv, CacheOK
<1>2. BlocksSaved(cache) /\ \A j \in 1 .. Len(cache.iq) : InodeSaved(cache, cache.iq[j])
  BY <1>1 DEF SyncInv, SyncEnd
<1>3. \A b \in Blocks, s \in Slots : cache.disk[b][s] = MemIn(cache, b, s)
  BY <1>2, AllSaved
<1>4. \A o \in Objects : cache.disk[o[1]][o[2]] = MemIn(cache, o[1], o[2])
  BY <1>3 DEF Objects
<1>5. cache' = cache /\ phase = "inodes" /\ phase' \in {"exit", "serve"}
  BY DEF SyncEnd
<1> QED
  BY <1>4, <1>5 DEF Abstract!SyncEnd

(* Every step but the end of handle_sync, whatever the stores mark.           *)
LEMMA StepStore ==
  CacheInv /\ CacheInv' /\ [Next]_vars => [Abstract!Next \/ SyncEnd]_(Abstract!vars)
<1> SUFFICES ASSUME CacheInv, CacheInv', [Next]_vars
             PROVE  Abstract!Next \/ SyncEnd \/ UNCHANGED Abstract!vars
  OBVIOUS
<1>0. /\ BothOK(cache) /\ BothOK(cache') /\ cache \in CacheType
      /\ cache.bq \in Seq(Blocks) /\ cache.iq \in Seq(Inodes) /\ pos \in Nat \ {0}
      /\ cache.disk \in [Blocks -> BlockData]
      /\ cache.bht \in [Blocks -> BlockItem \cup {NULL}]
      /\ cache.iht \in [Inodes -> InodeItem \cup {NULL}]
  BY InvBothOK DEF CacheInv, CacheOK, BothOK
<1>a. ASSUME Forward(cache, cache'), phase' = phase PROVE Abstract!Next
  BY <1>0, <1>a, ForwardIsWriteBack DEF Syncing, Abstract!Next
<1>b. ASSUME cache' = cache, Syncing' = Syncing PROVE UNCHANGED Abstract!vars
  BY <1>b DEF Abstract!vars, Syncing
<1>1. ASSUME NEW b \in Blocks, GetBlock(b) PROVE Abstract!Next
  BY <1>0, <1>1, <1>a, GetBFacts, KeptIsForward DEF GetBlock
<1>2. ASSUME NEW i \in Inodes, GetInode(i) PROVE Abstract!Next
  BY <1>0, <1>2, <1>a, GetIForward DEF GetInode
<1>3. ASSUME NEW s \in Slots, NEW v \in Val, StoreBlock(s, v) \/ StoreIndirect(s, v)
      PROVE Abstract!Next
  <2>1. heldB # NULL /\ ~Syncing /\ Syncing' = Syncing
    BY <1>3 DEF StoreBlock, StoreIndirect, Syncing
  <2>2. cache.bht[heldB].dirty \in BOOLEAN /\ <<heldB, s>> \in Objects
    BY <2>1, InvBothOK DEF BlockItem, Objects
  <2>3. PICK f \in BOOLEAN :
          cache' = [cache EXCEPT !.bht[heldB] =
                      [data |-> [cache.bht[heldB].data EXCEPT ![s] = v], dirty |-> f]]
    BY <1>3, <2>2 DEF StoreBlock, StoreIndirect
  <2>4. Abstract!Store(<<heldB, s>>, v)
    BY <2>1, <2>3, StoreBlockIsStore
  <2> QED
    BY <2>2, <2>4 DEF Abstract!Next
<1>4. ASSUME NEW v \in Val, StoreInode(v) \/ ClearFile(v) PROVE Abstract!Next
  <2>1. heldI # NULL /\ ~Syncing /\ Syncing' = Syncing
    BY <1>4 DEF StoreInode, ClearFile, Syncing
  <2>2. cache.iht[heldI].dirty \in BOOLEAN /\ <<BlockOf(heldI), SlotOf(heldI)>> \in Objects
    BY <2>1, InvBothOK, PlaceFacts DEF InodeItem, Objects
  <2>3. PICK f \in BOOLEAN : cache' = [cache EXCEPT !.iht[heldI] = [data |-> v, dirty |-> f]]
    BY <1>4, <2>2 DEF StoreInode, ClearFile
  <2>4. Abstract!Store(<<BlockOf(heldI), SlotOf(heldI)>>, v)
    BY <2>1, <2>3, StoreInodeIsStore
  <2> QED
    BY <2>2, <2>4 DEF Abstract!Next
<1>5. CASE Return
  BY <1>5, <1>b DEF Return, Syncing
<1>6. ASSUME NEW down \in BOOLEAN, SyncBegin(down) PROVE Abstract!Next
  BY <1>6 DEF SyncBegin, Abstract!Next, Abstract!SyncBegin
<1>7. CASE SyncBlock
  <2> DEFINE b == cache.bq[pos]
  <2>1. b \in Blocks /\ cache.bht[b] # NULL
    BY <1>0, <1>7 DEF SyncBlock, BothOK, QueueOK
  <2>2. \/ cache' = [cache EXCEPT !.disk[b] = cache.bht[b].data]
        \/ cache' = cache
    BY <1>7 DEF SyncBlock
  <2> HIDE DEF b
  <2>3. /\ cache'.bht = cache.bht /\ cache'.iht = cache.iht
        /\ \A a \in Blocks : \/ cache'.disk[a] = cache.disk[a]
                             \/ a = b /\ cache'.disk[a] = cache.bht[b].data
    BY <1>0, <2>1, <2>2 DEF CacheType
  <2>4. \A a \in Blocks, s \in Slots :
          StagedIn(cache', a, s) \in {StagedIn(cache, a, s), cache.disk[a][s]}
          /\ StagedIn(cache', a, s) = StagedIn(cache, a, s)
    BY <2>1, <2>3, SMTT(30) DEF StagedIn
  <2>5. Forward(cache, cache')
    BY <2>1, <2>3, <2>4 DEF Forward, MemKept, StagedForward, DiskForward, MemIn, StagedIn
  <2> QED
    BY <1>7, <1>a, <2>5 DEF SyncBlock
<1>8. CASE SyncBlocksDone
  BY <1>8, <1>b DEF SyncBlocksDone, Syncing
<1>9. CASE SyncInode
  <2> DEFINE i == cache.iq[pos]
  <2>1. i \in Inodes /\ cache.iht[i] # NULL
    <3>1. pos \in 1 .. Len(cache.iq)
      BY <1>0, <1>9 DEF SyncInode
    <3>2. \A j \in 1 .. Len(cache.iq) : cache.iht[cache.iq[j]] # NULL
      BY <1>0 DEF BothOK, QueueOK
    <3> QED
      BY <1>0, <3>1, <3>2
  <2>2. cache' = WriteI(cache, i) \/ cache' = cache
    BY <1>9 DEF SyncInode
  <2>3. phase' = phase
    BY <1>9 DEF SyncInode
  <2> HIDE DEF i
  <2>4. CASE cache' = WriteI(cache, i)
    BY <1>0, <1>a, <2>1, <2>3, <2>4, WriteIForward
  <2>5. CASE cache' = cache
    BY <1>b, <2>3, <2>5 DEF Syncing
  <2> QED
    BY <2>2, <2>4, <2>5
<1>10. CASE Restart
  <2> DEFINE nb == [b \in Blocks |-> NULL]
             ni == [i \in Inodes |-> NULL]
  <2>1. cache' = [cache EXCEPT !.bq = << >>, !.bht = nb, !.bsize = 0,
                               !.iq = << >>, !.iht = ni, !.isize = 0]
    BY <1>10 DEF Restart
  <2>2. (\A b \in Blocks : nb[b] = NULL) /\ (\A i \in Inodes : ni[i] = NULL)
    OBVIOUS
  <2> HIDE DEF nb, ni
  <2>3. cache'.bht = nb /\ cache'.iht = ni /\ cache'.disk = cache.disk
    BY <1>0, <2>1 DEF CacheType
  <2>4. ASSUME NEW o \in Objects PROVE
          /\ cache'.disk[o[1]][o[2]] = cache.disk[o[1]][o[2]]
          /\ StagedIn(cache', o[1], o[2]) = cache.disk[o[1]][o[2]]
          /\ MemIn(cache', o[1], o[2]) = cache.disk[o[1]][o[2]]
    <3>1. o[1] \in Blocks /\ o[2] \in Slots
      BY DEF Objects
    <3> QED
      BY <2>2, <2>3, <3>1, PlaceFacts DEF StagedIn, MemIn
  <2>5. phase' = "serve"
    BY <1>10 DEF Restart
  <2> QED
    BY <2>4, <2>5 DEF Abstract!Next, Abstract!Restart
<1>11. CASE UNCHANGED vars
  BY <1>11, <1>b DEF vars, Syncing
<1> QED
  BY <1>1, <1>2, <1>3, <1>4, <1>5, <1>6, <1>7, <1>8, <1>9, <1>10, <1>11 DEF Next

(* Whatever the handlers mark, no fetch, no eviction and no turn of           *)
(* handle_sync changes what a handler reads or takes a value back to an older *)
(* one (get_b yfs.c:1189, get_i yfs.c:1248): the only step that may not be    *)
(* the store's is the end of handle_sync.                                     *)
THEOREM NeverBackwards ==
  Spec => Abstract!Init /\ [][Abstract!Next \/ SyncEnd]_(Abstract!vars)
<1>1. Init => Abstract!Init
  BY InitStore
<1>2. CacheInv /\ CacheInv' /\ [Next]_vars => [Abstract!Next \/ SyncEnd]_(Abstract!vars)
  BY StepStore
<1> QED
  BY <1>1, <1>2, CacheInvariant, PTL DEF Spec

(* The two caches implement the store the handlers are written against, for   *)
(* every size of the disk and of the caches, provided every store marks what  *)
(* it changes (handle_sync yfs.c:958-1005).                                   *)
THEOREM StoreImplemented ==
  ASSUME ~UnmarkedStores
  PROVE  Spec => ImplementsStore
<1>1. Init => Abstract!Init
  BY InitStore
<1>2. CacheInv /\ CacheInv' /\ SyncInv /\ [Next]_vars => [Abstract!Next]_(Abstract!vars)
  BY StepStore, SyncEndSaved DEF Abstract!Next
<1> QED
  BY <1>1, <1>2, CacheInvariant, SyncInvariant, PTL DEF Spec, ImplementsStore, Abstract!Spec
=============================================================================
