--------------------------- MODULE YfsQueueProofs ---------------------------
(* The linked list and the hash table of a cache are a list of the most       *)
(* recent numbers, for every size of the cache, any numbers and any           *)
(* addresses malloc returns.                                                  *)
EXTENDS YfsQueue, SequenceTheorems, FiniteSetTheorems, WellFoundedInduction,
  TLAPS

LEMMA NullFacts == NULL # Junk /\ NULL \notin Addrs /\ Junk \notin Addrs
<1> QED
  BY QueueAssumption

LEMMA SizeFacts == Capacity \in Nat /\ Capacity >= 2 /\ Scanned \in Nat /\ Scanned >= 2
<1> QED
  BY QueueAssumption

LEMMA ExceptFacts ==
  ASSUME NEW S, NEW T, NEW f \in [S -> T], NEW a \in S, NEW x \in T
  PROVE  /\ [f EXCEPT ![a] = x] \in [S -> T]
         /\ \A b \in S : [f EXCEPT ![a] = x][b] = IF b = a THEN x ELSE f[b]
<1> QED
  OBVIOUS

LEMMA RemoveAtFacts ==
  ASSUME NEW S, NEW s \in Seq(S), NEW k \in 1 .. Len(s)
  PROVE  /\ RemoveAt(s, k) \in Seq(S)
         /\ Len(RemoveAt(s, k)) = Len(s) - 1
         /\ \A j \in 1 .. Len(s) - 1 : RemoveAt(s, k)[j] = IF j < k THEN s[j] ELSE s[j + 1]
<1> DEFINE l == SubSeq(s, 1, k - 1)
           r == SubSeq(s, k + 1, Len(s))
<1>1. Len(s) \in Nat /\ k \in Nat /\ 1 <= k /\ k <= Len(s)
  OBVIOUS
<1>2. /\ l \in Seq(S) /\ Len(l) = k - 1
      /\ \A j \in 1 .. k - 1 : l[j] = s[j]
  BY <1>1, SubSeqProperties
<1>3. /\ r \in Seq(S) /\ Len(r) = Len(s) - k
      /\ \A j \in 1 .. Len(s) - k : r[j] = s[k + j]
  BY <1>1, SubSeqProperties
<1> HIDE DEF l, r
<1>4. /\ l \o r \in Seq(S) /\ Len(l \o r) = Len(s) - 1
      /\ \A j \in 1 .. Len(l) + Len(r) :
           (l \o r)[j] = IF j <= Len(l) THEN l[j] ELSE r[j - Len(l)]
  <2>1. Len(l) + Len(r) = Len(s) - 1
    BY <1>1, <1>2, <1>3
  <2> QED
    BY <1>2, <1>3, <2>1, ConcatProperties
<1>5. ASSUME NEW j \in 1 .. Len(s) - 1
      PROVE  (l \o r)[j] = IF j < k THEN s[j] ELSE s[j + 1]
  <2>1. j \in Int /\ (l \o r)[j] = IF j <= k - 1 THEN l[j] ELSE r[j - (k - 1)]
    <3>1. j \in 1 .. Len(l) + Len(r)
      BY <1>1, <1>2, <1>3
    <3> QED
      BY <1>2, <1>4, <3>1
  <2>2. CASE j < k
    <3>1. j <= k - 1 /\ j \in 1 .. k - 1
      BY <1>1, <2>1, <2>2
    <3> QED
      BY <1>2, <2>1, <2>2, <3>1
  <2>3. CASE ~(j < k)
    <3>1. j - (k - 1) \in 1 .. Len(s) - k /\ k + (j - (k - 1)) = j + 1 /\ ~(j <= k - 1)
      BY <1>1, <2>1, <2>3
    <3>2. r[j - (k - 1)] = s[j + 1]
      BY <1>3, <3>1
    <3> QED
      BY <2>1, <2>3, <3>1, <3>2
  <2> QED
    BY <2>2, <2>3
<1> QED
  BY <1>4, <1>5 DEF RemoveAt, l, r

LEMMA RemoveAtDistinct ==
  ASSUME NEW S, NEW s \in Seq(S), NEW k \in 1 .. Len(s),
         \A i, j \in 1 .. Len(s) : s[i] = s[j] => i = j
  PROVE  \A i, j \in 1 .. Len(s) - 1 : RemoveAt(s, k)[i] = RemoveAt(s, k)[j] => i = j
<1> DEFINE r == RemoveAt(s, k)
<1>1. \A j \in 1 .. Len(s) - 1 : r[j] = s[IF j < k THEN j ELSE j + 1]
  BY RemoveAtFacts
<1> HIDE DEF r
<1> SUFFICES ASSUME NEW i \in 1 .. Len(s) - 1, NEW j \in 1 .. Len(s) - 1, r[i] = r[j]
             PROVE  i = j
  BY DEF r
<1>2. /\ (IF i < k THEN i ELSE i + 1) \in 1 .. Len(s)
      /\ (IF j < k THEN j ELSE j + 1) \in 1 .. Len(s)
  OBVIOUS
<1>3. (IF i < k THEN i ELSE i + 1) = (IF j < k THEN j ELSE j + 1)
  BY <1>1, <1>2
<1> QED
  BY <1>3

-----------------------------------------------------------------------------
(* The memory, and what each operation does to each of its fields *)

Places == Addrs \cup {NULL}
ItemType == [c_item_num : Nat, prev : Pointers, next : Pointers]
Element == [key : Nat, value : Addrs]
MemType ==
  [item : [Addrs -> ItemType], q_first : Places, q_last : Places,
   head : [Buckets -> Seq(Element)], size : Nat, bad : BOOLEAN]

Num(m, a) == m.item[a].c_item_num

(* What the operations on the queue leave alone.                              *)
SameRest(m, n) ==
  /\ n.head = m.head /\ n.size = m.size
  /\ \A a \in Addrs : Num(n, a) = Num(m, a)

(* left_dequeue, when the pointer it tests is set.                            *)
LEMMA LeftDequeueFields ==
  ASSUME NEW m \in MemType, m.q_first \in Addrs, m.item[m.q_first].next \in Places
  PROVE  LET first == m.q_first
             next == m.item[first].next
             n == LeftDequeue(m)
         IN  /\ n \in MemType /\ SameRest(m, n) /\ n.bad = m.bad
             /\ n.q_first = next
             /\ n.q_last = IF next = NULL THEN NULL ELSE m.q_last
             /\ \A a \in Addrs : n.item[a].next = m.item[a].next
             /\ \A a \in Addrs :
                  n.item[a].prev = IF a \in {first, next} THEN NULL ELSE m.item[a].prev
             /\ \A a \in Addrs : a \notin {first, next} => n.item[a] = m.item[a]
<1> USE NullFacts
<1> DEFINE first == m.q_first
           next == m.item[first].next
           tested == Tested(m, next)
           rest == [tested EXCEPT !.item[first].prev = NULL, !.q_first = next]
           n == LeftDequeue(m)
<1>1. next # Junk /\ tested = m
  <2>1. m.bad \in BOOLEAN /\ next # Junk
    BY DEF MemType, Places
  <2>2. (m.bad \/ next = Junk) = m.bad
    BY <2>1, Zenon
  <2>3. tested = [m EXCEPT !.bad = m.bad]
    BY <2>2 DEF Tested
  <2> QED
    BY <2>1, <2>3 DEF MemType
<1>2. /\ m.item \in [Addrs -> ItemType] /\ first \in Addrs /\ next \in Places
      /\ m.item[first] \in ItemType
  BY DEF MemType
<1> DEFINE cleared == [m.item[first] EXCEPT !.prev = NULL]
           items == [m.item EXCEPT ![first] = cleared]
<1>3. rest = [m EXCEPT !.item = items, !.q_first = next]
  BY <1>1, <1>2 DEF MemType
<1>4. /\ cleared \in ItemType /\ cleared.prev = NULL /\ cleared.next = next
      /\ cleared.c_item_num = Num(m, first)
  BY <1>2 DEF ItemType, Pointers, Num
<1> HIDE DEF cleared
<1>5. items \in [Addrs -> ItemType] /\ \A a \in Addrs : items[a] = IF a = first THEN cleared ELSE m.item[a]
  BY <1>2, <1>4, ExceptFacts, SMTT(20)
<1> HIDE DEF items
<1>6. /\ rest \in MemType /\ rest.item = items /\ rest.q_first = next /\ rest.q_last = m.q_last
      /\ rest.head = m.head /\ rest.size = m.size /\ rest.bad = m.bad
  BY <1>2, <1>3, <1>5 DEF MemType
<1> HIDE DEF rest
<1>7. CASE next = NULL
  <2>1. n = [rest EXCEPT !.q_last = NULL]
    BY <1>7 DEF LeftDequeue, rest, tested
  <2>2. /\ n \in MemType /\ n.item = items /\ n.q_first = next /\ n.q_last = NULL
        /\ n.head = m.head /\ n.size = m.size /\ n.bad = m.bad
    BY <1>6, <2>1 DEF MemType, Places
  <2> HIDE DEF n, next, first
  <2> QED
    BY <1>2, <1>4, <1>5, <1>7, <2>2 DEF SameRest, Num, n, next, first
<1>8. CASE next # NULL
  <2> DEFINE second == [items[next] EXCEPT !.prev = NULL]
             both == [items EXCEPT ![next] = second]
  <2>1. next \in Addrs /\ next # NULL
    BY <1>2, <1>8 DEF Places
  <2>2. n = [rest EXCEPT !.item[next].prev = NULL]
    BY <2>1 DEF LeftDequeue, rest, tested
  <2>3. n = [rest EXCEPT !.item = both]
    BY <1>5, <1>6, <2>1, <2>2 DEF MemType
  <2>4. items[next] \in ItemType
    BY <1>5, <2>1
  <2>5. /\ second \in ItemType /\ second.prev = NULL /\ second.next = items[next].next
        /\ second.c_item_num = items[next].c_item_num
    BY <2>4 DEF ItemType, Pointers
  <2> HIDE DEF second
  <2>6. /\ both \in [Addrs -> ItemType]
        /\ \A a \in Addrs : both[a] = IF a = next THEN second ELSE items[a]
    BY <1>5, <2>1, <2>5
  <2> HIDE DEF both
  <2>7. /\ n \in MemType /\ n.item = both /\ n.q_first = next /\ n.q_last = m.q_last
        /\ n.head = m.head /\ n.size = m.size /\ n.bad = m.bad
    BY <1>6, <2>3, <2>6 DEF MemType
  <2> HIDE DEF n, next, first
  <2> QED
    BY <1>2, <1>4, <1>5, <2>1, <2>5, <2>6, <2>7 DEF SameRest, Num, n, next, first
<1> QED
  BY <1>7, <1>8

(* To test a pointer that is set changes nothing.                             *)
LEMMA TestedSet ==
  ASSUME NEW m \in MemType, NEW p \in Places
  PROVE  Tested(m, p) = m
<1>1. m.bad \in BOOLEAN /\ p # Junk
  BY QueueAssumption DEF MemType, Places
<1>2. (m.bad \/ p = Junk) = m.bad
  BY <1>1, Zenon
<1>3. Tested(m, p) = [m EXCEPT !.bad = m.bad]
  BY <1>2 DEF Tested
<1> QED
  BY <1>1, <1>3 DEF MemType

(* right_dequeue, of an item that is not the first.                           *)
LEMMA RightDequeueFields ==
  ASSUME NEW m \in MemType, NEW a \in Addrs,
         m.item[a].prev \in Addrs, m.item[a].next \in Places, m.item[a].prev # m.item[a].next
  PROVE  LET prev == m.item[a].prev
             next == m.item[a].next
             n == RightDequeue(m, a)
         IN  /\ n \in MemType /\ SameRest(m, n) /\ n.bad = m.bad
             /\ n.q_first = m.q_first
             /\ n.q_last = IF next = NULL THEN prev ELSE m.q_last
             /\ \A b \in Addrs : n.item[b].next = IF b = prev THEN next ELSE m.item[b].next
             /\ \A b \in Addrs : n.item[b].prev = IF b = next THEN prev ELSE m.item[b].prev
             /\ \A b \in Addrs : b \notin {prev, next} => n.item[b] = m.item[b]
<1> USE NullFacts
<1> DEFINE prev == m.item[a].prev
           next == m.item[a].next
           seen == Tested(Tested(m, next), prev)
           past == [seen EXCEPT !.item[prev].next = next]
           n == RightDequeue(m, a)
<1>1. seen = m
  BY TestedSet DEF Places
<1>2. /\ m.item \in [Addrs -> ItemType] /\ prev \in Addrs /\ next \in Places
      /\ m.item[prev] \in ItemType
  BY DEF MemType
<1> DEFINE linked == [m.item[prev] EXCEPT !.next = next]
           items == [m.item EXCEPT ![prev] = linked]
<1>3. past = [m EXCEPT !.item = items]
  BY <1>1, <1>2 DEF MemType
<1>4. /\ linked \in ItemType /\ linked.next = next /\ linked.prev = m.item[prev].prev
      /\ linked.c_item_num = Num(m, prev)
  BY <1>2 DEF ItemType, Pointers, Places, Num
<1> HIDE DEF linked
<1>5. /\ items \in [Addrs -> ItemType]
      /\ \A b \in Addrs : items[b] = IF b = prev THEN linked ELSE m.item[b]
  BY <1>2, <1>4, ExceptFacts
<1> HIDE DEF items
<1>6. /\ past \in MemType /\ past.item = items /\ past.q_first = m.q_first
      /\ past.q_last = m.q_last
      /\ past.head = m.head /\ past.size = m.size /\ past.bad = m.bad
  BY <1>2, <1>3, <1>5, Zenon DEF MemType
<1> HIDE DEF past
<1>7. CASE next = NULL
  <2>1. n = [past EXCEPT !.q_last = prev]
    BY <1>2, <1>7 DEF RightDequeue, past, seen
  <2>2. /\ n \in MemType /\ n.item = items /\ n.q_first = m.q_first /\ n.q_last = prev
        /\ n.head = m.head /\ n.size = m.size /\ n.bad = m.bad
    BY <1>2, <1>6, <2>1 DEF MemType, Places
  <2> HIDE DEF n, next, prev
  <2> QED
    BY <1>2, <1>4, <1>5, <1>7, <2>2 DEF SameRest, Num, n, next, prev
<1>8. CASE next # NULL
  <2> DEFINE after == [items[next] EXCEPT !.prev = prev]
             both == [items EXCEPT ![next] = after]
  <2>1. next \in Addrs /\ next # NULL
    BY <1>2, <1>8 DEF Places
  <2>2. n = [past EXCEPT !.item[next].prev = prev]
    BY <1>2, <2>1 DEF RightDequeue, past, seen
  <2>3. n = [past EXCEPT !.item = both]
    BY <1>5, <1>6, <2>1, <2>2 DEF MemType
  <2>4. items[next] \in ItemType
    BY <1>5, <2>1
  <2>5. /\ after \in ItemType /\ after.prev = prev /\ after.next = items[next].next
        /\ after.c_item_num = items[next].c_item_num
    BY <1>2, <2>4 DEF ItemType, Pointers
  <2> HIDE DEF after
  <2>6. /\ both \in [Addrs -> ItemType]
        /\ \A b \in Addrs : both[b] = IF b = next THEN after ELSE items[b]
    BY <1>5, <2>1, <2>5
  <2> HIDE DEF both
  <2>7. /\ n \in MemType /\ n.item = both /\ n.q_first = m.q_first /\ n.q_last = m.q_last
        /\ n.head = m.head /\ n.size = m.size /\ n.bad = m.bad
    BY <1>6, <2>3, <2>6 DEF MemType
  <2> HIDE DEF n, next, prev
  <2> QED
    BY <1>2, <1>4, <1>5, <2>1, <2>5, <2>6, <2>7 DEF SameRest, Num, n, next, prev
<1> QED
  BY <1>7, <1>8

(* right_enqueue, into a queue that is empty.                                 *)
LEMMA EnqueueFirstFields ==
  ASSUME NEW m \in MemType, NEW a \in Addrs, NEW queue, m.q_first = NULL
  PROVE  LET n == RightEnqueue(m, a, queue)
         IN  /\ n \in MemType /\ SameRest(m, n) /\ n.bad = m.bad
             /\ n.q_first = a /\ n.q_last = a
             /\ n.item[a].prev = NULL
             /\ n.item[a].next = IF queue = "blocks" THEN NULL ELSE m.item[a].next
             /\ \A b \in Addrs : b # a => n.item[b] = m.item[b]
<1> USE NullFacts
<1> DEFINE n == RightEnqueue(m, a, queue)
           next == IF queue = "blocks" THEN NULL ELSE m.item[a].next
           new == [m.item[a] EXCEPT !.prev = NULL, !.next = next]
           items == [m.item EXCEPT ![a] = new]
<1>1. m.item \in [Addrs -> ItemType] /\ m.item[a] \in ItemType /\ next \in Pointers
  BY DEF MemType, ItemType, Pointers
<1>2. n = [m EXCEPT !.item[a].prev = NULL,
                    !.item[a].next = IF queue = "blocks" THEN NULL ELSE @,
                    !.q_first = a, !.q_last = a]
  BY DEF RightEnqueue
<1>3. n = [m EXCEPT !.item = items, !.q_first = a, !.q_last = a]
  <2> DEFINE one == [m.item[a] EXCEPT !.prev = NULL]
             first == [m.item EXCEPT ![a] = one]
             then == [first EXCEPT ![a] = [one EXCEPT !.next = next]]
  <2>1. one \in ItemType /\ one.next = m.item[a].next
    BY <1>1 DEF ItemType, Pointers
  <2>2. /\ first \in [Addrs -> ItemType] /\ first[a] = one
        /\ then \in [Addrs -> ItemType]
    <3> HIDE DEF one
    <3>1. [one EXCEPT !.next = next] \in ItemType
      BY <1>1, <2>1 DEF ItemType
    <3> QED
      BY <1>1, <2>1, <3>1
  <2>3. then = items
    <3>1. [one EXCEPT !.next = next] = new
      BY <1>1 DEF ItemType
    <3> HIDE DEF one, new
    <3> QED
      BY <1>1, <3>1
  <2>4. n = [m EXCEPT !.item = then, !.q_first = a, !.q_last = a]
    <3> HIDE DEF n
    <3>1. n = [[m EXCEPT !.item = first] EXCEPT
                 !.item[a].next = IF queue = "blocks" THEN NULL ELSE @,
                 !.q_first = a, !.q_last = a]
      BY <1>2, ZenonT(30)
    <3>2. [m EXCEPT !.item = first].item = first
      BY DEF MemType
    <3> HIDE DEF first, one
    <3>3. (IF queue = "blocks" THEN NULL ELSE first[a].next) = next
      BY <2>1, <2>2
    <3> QED
      BY <2>2, <3>1, <3>2, <3>3
  <2> QED
    BY <2>3, <2>4
<1>4. /\ new \in ItemType /\ new.prev = NULL /\ new.next = next
      /\ new.c_item_num = Num(m, a)
  BY <1>1 DEF ItemType, Pointers, Num
<1> HIDE DEF new
<1>5. /\ items \in [Addrs -> ItemType]
      /\ \A b \in Addrs : items[b] = IF b = a THEN new ELSE m.item[b]
  BY <1>1, <1>4
<1> HIDE DEF items
<1>6. /\ n \in MemType /\ n.item = items /\ n.q_first = a /\ n.q_last = a
      /\ n.head = m.head /\ n.size = m.size /\ n.bad = m.bad
  BY <1>3, <1>5 DEF MemType, Places
<1> HIDE DEF n
<1> QED
  BY <1>4, <1>5, <1>6 DEF SameRest, Num, n

(* right_enqueue, behind the last item.                                       *)
LEMMA EnqueueFields ==
  ASSUME NEW m \in MemType, NEW a \in Addrs, NEW queue,
         m.q_first # NULL, m.q_last \in Addrs, m.q_last # a
  PROVE  LET last == m.q_last
             n == RightEnqueue(m, a, queue)
         IN  /\ n \in MemType /\ SameRest(m, n) /\ n.bad = m.bad
             /\ n.q_first = m.q_first /\ n.q_last = a
             /\ n.item[a].prev = last /\ n.item[a].next = NULL
             /\ n.item[last].next = a /\ n.item[last].prev = m.item[last].prev
             /\ \A b \in Addrs : b \notin {a, last} => n.item[b] = m.item[b]
<1> USE NullFacts
<1> DEFINE last == m.q_last
           n == RightEnqueue(m, a, queue)
           before == [m.item[last] EXCEPT !.next = a]
           new == [m.item[a] EXCEPT !.prev = last, !.next = NULL]
           items == [m.item EXCEPT ![last] = before, ![a] = new]
<1>1. m.item \in [Addrs -> ItemType] /\ m.item[a] \in ItemType /\ m.item[last] \in ItemType
  BY DEF MemType
<1>2. n = [m EXCEPT !.item[last].next = a,
                    !.item[a].prev = last, !.item[a].next = NULL, !.q_last = a]
  BY DEF RightEnqueue
<1>3. n = [m EXCEPT !.item = items, !.q_last = a]
  <2> DEFINE one == [m.item[a] EXCEPT !.prev = last]
             first == [m.item EXCEPT ![last] = before]
             second == [first EXCEPT ![a] = one]
             then == [second EXCEPT ![a] = [one EXCEPT !.next = NULL]]
  <2>1. /\ before \in ItemType /\ one \in ItemType
        /\ [one EXCEPT !.next = NULL] \in ItemType /\ [one EXCEPT !.next = NULL] = new
    BY <1>1 DEF ItemType, Pointers
  <2> HIDE DEF before, one, new
  <2>2. /\ first \in [Addrs -> ItemType] /\ first[a] = m.item[a]
        /\ second \in [Addrs -> ItemType] /\ second[a] = one
        /\ then \in [Addrs -> ItemType] /\ then = items
    BY <1>1, <2>1
  <2>3. n = [m EXCEPT !.item = then, !.q_last = a]
    <3>1. n = [[[m EXCEPT !.item = first] EXCEPT !.item[a].prev = last]
                 EXCEPT !.item[a].next = NULL, !.q_last = a]
      BY <1>2 DEF before
    <3>2. [m EXCEPT !.item = first].item = first
      BY DEF MemType
    <3> HIDE DEF first
    <3>3. [[m EXCEPT !.item = first] EXCEPT !.item[a].prev = last] = [m EXCEPT !.item = second]
      BY <2>2, <3>2 DEF one
    <3>4. [m EXCEPT !.item = second].item = second
      BY DEF MemType
    <3> HIDE DEF second
    <3> QED
      BY <2>2, <3>1, <3>3, <3>4
  <2> QED
    BY <2>2, <2>3
<1>4. /\ new \in ItemType /\ new.prev = last /\ new.next = NULL
      /\ new.c_item_num = Num(m, a)
  BY <1>1 DEF ItemType, Pointers, Num
<1>5. /\ before \in ItemType /\ before.prev = m.item[last].prev /\ before.next = a
      /\ before.c_item_num = Num(m, last)
  BY <1>1 DEF ItemType, Pointers, Num
<1> HIDE DEF new, before
<1>6. /\ items \in [Addrs -> ItemType]
      /\ \A b \in Addrs :
           items[b] = IF b = a THEN new ELSE IF b = last THEN before ELSE m.item[b]
  BY <1>1, <1>4, <1>5
<1> HIDE DEF items
<1>7. /\ n \in MemType /\ n.item = items /\ n.q_first = m.q_first /\ n.q_last = a
      /\ n.head = m.head /\ n.size = m.size /\ n.bad = m.bad
  BY <1>3, <1>6 DEF MemType, Places
<1> HIDE DEF n
<1> QED
  BY <1>4, <1>5, <1>6, <1>7 DEF SameRest, Num, n

-----------------------------------------------------------------------------
(* The list *)

(* The items of the queue are those of q, in its order.                       *)
Linked(m, q) ==
  /\ q \in Seq(Addrs)
  /\ \A j, k \in 1 .. Len(q) : q[j] = q[k] => j = k
  /\ m.q_first = IF Len(q) = 0 THEN NULL ELSE q[1]
  /\ m.q_last = IF Len(q) = 0 THEN NULL ELSE q[Len(q)]
  /\ \A k \in 1 .. Len(q) : m.item[q[k]].prev = IF k = 1 THEN NULL ELSE q[k - 1]
  /\ \A k \in 1 .. Len(q) - 1 : m.item[q[k]].next = q[k + 1]

(* No item comes after the last.                                              *)
Closed(m, q) == Len(q) > 0 => m.item[q[Len(q)]].next = NULL

Within(q, a) == \E k \in 1 .. Len(q) : q[k] = a

(* An operation on the queue, by which q becomes r.                           *)
Moves(m, q, n, r) ==
  /\ n \in MemType /\ SameRest(m, n) /\ n.bad = m.bad
  /\ Linked(n, r)
  /\ \A a \in Addrs : ~Within(q, a) /\ ~Within(r, a) => n.item[a] = m.item[a]

LEMMA LinkLeft ==
  ASSUME NEW m \in MemType, NEW q, Linked(m, q), Closed(m, q), Len(q) > 0
  PROVE  /\ Moves(m, q, LeftDequeue(m), RemoveAt(q, 1))
         /\ Closed(LeftDequeue(m), RemoveAt(q, 1))
<1> USE NullFacts
<1> DEFINE first == m.q_first
           next == m.item[first].next
           n == LeftDequeue(m)
           r == RemoveAt(q, 1)
<1>1. q \in Seq(Addrs) /\ Len(q) \in Nat /\ 1 \in 1 .. Len(q)
  BY DEF Linked
<1>0. Len(q) # 1 => 2 \in 1 .. Len(q) /\ q[2] \in Addrs
  <2>1. Len(q) # 1 => 2 \in 1 .. Len(q)
    <3>1. \A l \in Nat : l > 0 /\ l # 1 => 2 \in 1 .. l
      OBVIOUS
    <3> QED
      BY <1>1, <3>1
  <2> QED
    BY <1>1, <2>1
<1>2. r \in Seq(Addrs) /\ Len(r) = Len(q) - 1 /\ \A j \in 1 .. Len(q) - 1 : r[j] = q[j + 1]
  <2>1. /\ r \in Seq(Addrs) /\ Len(r) = Len(q) - 1
        /\ \A j \in 1 .. Len(q) - 1 : r[j] = IF j < 1 THEN q[j] ELSE q[j + 1]
    BY <1>1, RemoveAtFacts
  <2> HIDE DEF r
  <2>2. \A j \in 1 .. Len(q) - 1 : ~(j < 1)
    BY <1>1
  <2> QED
    BY <2>1, <2>2
<1>3. first = q[1] /\ first \in Addrs /\ next = IF Len(q) = 1 THEN NULL ELSE q[2]
  <2>1. first = q[1] /\ q[1] \in Addrs
    BY <1>1 DEF Linked
  <2> HIDE DEF first
  <2>2. CASE Len(q) = 1
    BY <2>1, <2>2 DEF Closed
  <2>3. CASE Len(q) # 1
    <3>1. 1 \in 1 .. Len(q) - 1 /\ 1 + 1 = 2
      BY <1>0, <1>1, <2>3, SizeFacts
    <3>2. m.item[q[1]].next = q[2]
      BY <3>1 DEF Linked
    <3> QED
      BY <2>1, <2>3, <3>2
  <2> QED
    BY <2>1, <2>2, <2>3
<1>4. next \in Places
  <2> HIDE DEF next
  <2> QED
    BY <1>0, <1>3 DEF Places
<1>5. /\ n \in MemType /\ SameRest(m, n) /\ n.bad = m.bad
      /\ n.q_first = next
      /\ n.q_last = IF next = NULL THEN NULL ELSE m.q_last
      /\ \A a \in Addrs : n.item[a].next = m.item[a].next
      /\ \A a \in Addrs :
           n.item[a].prev = IF a \in {first, next} THEN NULL ELSE m.item[a].prev
      /\ \A a \in Addrs : a \notin {first, next} => n.item[a] = m.item[a]
  BY <1>3, <1>4, LeftDequeueFields
<1> HIDE DEF n, r, first, next
<1>6. \A j, k \in 1 .. Len(r) : r[j] = r[k] => j = k
  <2>1. \A j, k \in 1 .. Len(q) : q[j] = q[k] => j = k
    BY DEF Linked
  <2> QED
    BY <1>1, <1>2, <2>1, RemoveAtDistinct DEF r
<1>7. /\ n.q_first = IF Len(r) = 0 THEN NULL ELSE r[1]
      /\ n.q_last = IF Len(r) = 0 THEN NULL ELSE r[Len(r)]
  BY <1>1, <1>2, <1>3, <1>5, SMTT(30) DEF Linked
<1>8. ASSUME NEW k \in 1 .. Len(r)
      PROVE  n.item[r[k]].prev = IF k = 1 THEN NULL ELSE r[k - 1]
  <2>1. r[k] = q[k + 1] /\ r[k] \in Addrs /\ k + 1 \in 1 .. Len(q) /\ k + 1 # 1
    BY <1>1, <1>2
  <2>2. r[k] # first
    BY <1>1, <1>3, <2>1 DEF Linked
  <2>3. m.item[r[k]].prev = q[k]
    BY <1>1, <2>1 DEF Linked
  <2>4. CASE k = 1
    BY <1>3, <1>5, <2>1, <2>4
  <2>5. CASE k # 1
    <3>1. r[k] # next
      BY <1>1, <1>2, <1>3, <2>1, <2>5 DEF Linked
    <3> QED
      BY <1>2, <1>5, <2>1, <2>2, <2>3, <2>5, <3>1
  <2> QED
    BY <2>4, <2>5
<1>9. ASSUME NEW k \in 1 .. Len(r) - 1 PROVE n.item[r[k]].next = r[k + 1]
  <2>1. r[k] = q[k + 1] /\ r[k] \in Addrs /\ k + 1 \in 1 .. Len(q) - 1 /\ r[k + 1] = q[k + 1 + 1]
    BY <1>1, <1>2
  <2>2. m.item[q[k + 1]].next = q[k + 1 + 1]
    BY <2>1 DEF Linked
  <2> QED
    BY <1>5, <2>1, <2>2
<1>10. Closed(n, r)
  BY <1>1, <1>2, <1>5 DEF Linked, Closed
<1>11. ASSUME NEW a \in Addrs, ~Within(q, a) PROVE n.item[a] = m.item[a]
  <2>1. a # q[1] /\ (Len(q) # 1 => a # q[2])
    BY <1>0, <1>1, <1>11 DEF Within
  <2>2. a # first /\ a # next
    BY <1>3, <2>1, QueueAssumption
  <2> QED
    BY <1>5, <2>2
<1> QED
  BY <1>2, <1>5, <1>6, <1>7, <1>8, <1>9, <1>10, <1>11 DEF Linked, Moves, n, r

LEMMA LinkWithout ==
  ASSUME NEW m \in MemType, NEW q, Linked(m, q), Closed(m, q), NEW k \in 1 .. Len(q)
  PROVE  /\ Moves(m, q, RightDequeue(m, q[k]), RemoveAt(q, k))
         /\ Closed(RightDequeue(m, q[k]), RemoveAt(q, k))
<1> USE NullFacts
<1> DEFINE a == q[k]
           prev == m.item[a].prev
           next == m.item[a].next
           n == RightDequeue(m, a)
           r == RemoveAt(q, k)
<1>1. /\ q \in Seq(Addrs) /\ Len(q) \in Nat /\ k \in Nat /\ 1 <= k /\ k <= Len(q)
      /\ a \in Addrs
  BY DEF Linked
<1>2. CASE k = 1
  <2>1. prev = NULL
    BY <1>2 DEF Linked
  <2>2. RightDequeue(m, a) = LeftDequeue(m)
    BY <2>1 DEF RightDequeue
  <2>3. Len(q) > 0
    BY <1>1
  <2> QED
    BY <1>2, <2>2, <2>3, LinkLeft
<1>3. CASE k # 1
  <2>1. /\ r \in Seq(Addrs) /\ Len(r) = Len(q) - 1
        /\ \A j \in 1 .. Len(q) - 1 : r[j] = IF j < k THEN q[j] ELSE q[j + 1]
    BY RemoveAtFacts, <1>1
  <2>2. prev = q[k - 1] /\ next = IF k = Len(q) THEN NULL ELSE q[k + 1]
    BY <1>1, <1>3 DEF Linked, Closed
  <2>3. prev \in Addrs /\ next \in Places /\ prev # next
    BY <1>1, <1>3, <2>2 DEF Linked, Places
  <2>4. /\ n \in MemType /\ SameRest(m, n) /\ n.bad = m.bad
        /\ n.q_first = m.q_first
        /\ n.q_last = IF next = NULL THEN prev ELSE m.q_last
        /\ \A b \in Addrs : n.item[b].next = IF b = prev THEN next ELSE m.item[b].next
        /\ \A b \in Addrs : n.item[b].prev = IF b = next THEN prev ELSE m.item[b].prev
        /\ \A b \in Addrs : b \notin {prev, next} => n.item[b] = m.item[b]
    BY <1>1, <2>3, RightDequeueFields
  <2> HIDE DEF n, r, prev, next, a
  <2>5. \A i, j \in 1 .. Len(r) : r[i] = r[j] => i = j
    <3>1. \A i, j \in 1 .. Len(q) : q[i] = q[j] => i = j
      BY DEF Linked
    <3> QED
      BY <1>1, <2>1, <3>1, RemoveAtDistinct, SMTT(30) DEF r
  <2>6. /\ n.q_first = IF Len(r) = 0 THEN NULL ELSE r[1]
        /\ n.q_last = IF Len(r) = 0 THEN NULL ELSE r[Len(r)]
    <3>1. m.q_first = q[1] /\ m.q_last = q[Len(q)]
      BY <1>1 DEF Linked
    <3>2. Len(r) # 0 /\ r[1] = q[1]
      BY <1>1, <1>3, <2>1
    <3>3. CASE k = Len(q)
      BY <1>1, <1>3, <2>1, <2>2, <2>4, <3>1, <3>2, <3>3
    <3>4. CASE k # Len(q)
      <4>1. next # NULL
        BY <1>1, <2>2, <3>4
      <4>2. r[Len(r)] = q[Len(q)]
        BY <1>1, <1>3, <2>1, <3>4
      <4> QED
        BY <2>4, <3>1, <3>2, <4>1, <4>2
    <3> QED
      BY <3>3, <3>4
  <2>7. ASSUME NEW j \in 1 .. Len(r)
        PROVE  n.item[r[j]].prev = IF j = 1 THEN NULL ELSE r[j - 1]
    <3>1. r[j] \in Addrs
      BY <1>1, <2>1
    <3>2. CASE j < k
      <4>1. r[j] = q[j] /\ j \in 1 .. Len(q) /\ (j # 1 => r[j - 1] = q[j - 1])
        BY <1>1, <2>1, <3>2
      <4>2. r[j] # next
        BY <1>1, <2>2, <3>2, <4>1 DEF Linked
      <4> QED
        BY <2>4, <3>1, <4>1, <4>2 DEF Linked
    <3>3. CASE j = k
      <4>1. r[j] = q[k + 1] /\ k # Len(q) /\ r[j - 1] = q[k - 1]
        BY <1>1, <1>3, <2>1, <3>3
      <4> QED
        BY <1>3, <2>2, <2>4, <3>1, <3>3, <4>1
    <3>4. CASE j > k
      <4>1. r[j] = q[j + 1] /\ j + 1 \in 1 .. Len(q) /\ j - 1 \in 1 .. Len(q) - 1
            /\ r[j - 1] = q[j] /\ j + 1 # 1 /\ j # 1
        BY <1>1, <2>1, <3>4
      <4>2. r[j] # next
        BY <1>1, <2>2, <3>4, <4>1 DEF Linked
      <4>3. m.item[q[j + 1]].prev = q[j]
        BY <4>1 DEF Linked
      <4> QED
        BY <2>4, <3>1, <4>1, <4>2, <4>3
    <3> QED
      BY <1>1, <3>2, <3>3, <3>4
  <2>8. ASSUME NEW j \in 1 .. Len(r)
        PROVE  n.item[r[j]].next = IF j = Len(r) THEN NULL ELSE r[j + 1]
    <3>1. r[j] \in Addrs
      BY <1>1, <2>1
    <3>2. CASE j < k - 1
      <4>0. /\ j \in 1 .. Len(q) - 1 /\ j + 1 \in 1 .. Len(q) - 1 /\ j \in 1 .. Len(q)
            /\ j < k /\ j + 1 < k /\ j # Len(r) /\ k - 1 \in 1 .. Len(q) /\ j # k - 1
        <5>1. Len(r) = Len(q) - 1
          BY <2>1
        <5> QED
          BY <1>1, <3>2, <5>1
      <4>1. r[j] = q[j] /\ r[j + 1] = q[j + 1]
        BY <2>1, <4>0
      <4>2. r[j] # prev
        <5>1. q[j] # q[k - 1]
          BY <4>0 DEF Linked
        <5> QED
          BY <2>2, <4>1, <5>1
      <4>3. m.item[q[j]].next = q[j + 1]
        BY <4>0 DEF Linked
      <4> QED
        BY <2>4, <3>1, <4>0, <4>1, <4>2, <4>3
    <3>3. CASE j = k - 1
      <4>1. r[j] = prev /\ (j # Len(r) => r[j + 1] = q[k + 1])
            /\ (j = Len(r) <=> k = Len(q))
        BY <1>1, <1>3, <2>1, <2>2, <3>3
      <4>2. n.item[r[j]].next = next
        BY <2>4, <3>1, <4>1
      <4> QED
        BY <2>2, <4>1, <4>2
    <3>4. CASE j > k - 1
      <4>1. r[j] = q[j + 1] /\ j + 1 \in 1 .. Len(q) /\ k - 1 \in 1 .. Len(q)
        BY <1>1, <1>3, <2>1, <3>4
      <4>2. r[j] # prev
        BY <1>1, <2>2, <3>4, <4>1 DEF Linked
      <4>3. m.item[q[j + 1]].next = IF j = Len(r) THEN NULL ELSE r[j + 1]
        <5>1. CASE j = Len(r)
          BY <1>1, <2>1, <5>1 DEF Closed
        <5>2. CASE j # Len(r)
          <6>1. j + 1 \in 1 .. Len(q) - 1 /\ ~(j + 1 < k) /\ r[j + 1] = q[j + 1 + 1]
            BY <1>1, <2>1, <3>4, <5>2
          <6> QED
            BY <5>2, <6>1 DEF Linked
        <5> QED
          BY <5>1, <5>2
      <4> QED
        BY <2>4, <3>1, <4>1, <4>2, <4>3
    <3> QED
      BY <1>1, <3>2, <3>3, <3>4
  <2>9. ASSUME NEW b \in Addrs, ~Within(q, b) PROVE n.item[b] = m.item[b]
    <3>1. b # prev /\ b # next
      BY <1>1, <1>3, <2>2, <2>9 DEF Within
    <3> QED
      BY <2>4, <3>1
  <2>10. Closed(n, r)
    BY <1>1, <2>1, <2>8 DEF Closed
  <2>11. \A j \in 1 .. Len(r) - 1 : n.item[r[j]].next = r[j + 1]
    BY <1>1, <2>1, <2>8, SMTT(20)
  <2> QED
    BY <2>1, <2>4, <2>5, <2>6, <2>7, <2>9, <2>10, <2>11 DEF Linked, Moves, n, r, a
<1> QED
  BY <1>2, <1>3

LEMMA LinkMore ==
  ASSUME NEW m \in MemType, NEW q, Linked(m, q), NEW a \in Addrs, ~Within(q, a)
  PROVE  LET n == RightEnqueue(m, a, kind)
         IN  /\ Moves(m, q, n, Append(q, a))
             /\ n.item[a].next = IF Len(q) > 0 \/ kind = "blocks" THEN NULL ELSE m.item[a].next
<1> USE NullFacts
<1> DEFINE n == RightEnqueue(m, a, kind)
           r == Append(q, a)
<1>1. q \in Seq(Addrs) /\ Len(q) \in Nat
  BY DEF Linked
<1>2. /\ r \in Seq(Addrs) /\ Len(r) = Len(q) + 1
      /\ \A j \in 1 .. Len(q) : r[j] = q[j]
      /\ r[Len(q) + 1] = a
  BY <1>1
<1>3. \A j, k \in 1 .. Len(r) : r[j] = r[k] => j = k
  <2> HIDE DEF r
  <2>1. \A j \in 1 .. Len(q) : r[j] # a
    BY <1>2 DEF Within
  <2> QED
    BY <1>1, <1>2, <2>1 DEF Linked
<1>4. CASE Len(q) = 0
  <2>1. m.q_first = NULL
    BY <1>4 DEF Linked
  <2>2. /\ n \in MemType /\ SameRest(m, n) /\ n.bad = m.bad
        /\ n.q_first = a /\ n.q_last = a
        /\ n.item[a].prev = NULL
        /\ n.item[a].next = IF kind = "blocks" THEN NULL ELSE m.item[a].next
        /\ \A b \in Addrs : b # a => n.item[b] = m.item[b]
    BY <2>1, EnqueueFirstFields
  <2> HIDE DEF n, r
  <2>3. Linked(n, r)
    BY <1>2, <1>3, <1>4, <2>2 DEF Linked
  <2>4. \A b \in Addrs : ~Within(r, b) => b # a
    BY <1>1, <1>2 DEF Within
  <2> QED
    BY <1>4, <2>2, <2>3, <2>4 DEF Moves, n, r
<1>5. CASE Len(q) # 0
  <2> DEFINE last == m.q_last
  <2>1. m.q_first # NULL /\ last = q[Len(q)] /\ last \in Addrs /\ last # a /\ Len(q) \in 1 .. Len(q)
    BY <1>1, <1>5 DEF Linked, Within
  <2>2. /\ n \in MemType /\ SameRest(m, n) /\ n.bad = m.bad
        /\ n.q_first = m.q_first /\ n.q_last = a
        /\ n.item[a].prev = last /\ n.item[a].next = NULL
        /\ n.item[last].next = a /\ n.item[last].prev = m.item[last].prev
        /\ \A b \in Addrs : b \notin {a, last} => n.item[b] = m.item[b]
    BY <2>1, EnqueueFields
  <2> HIDE DEF n, r, last
  <2>3. \A j \in 1 .. Len(q) : q[j] # a /\ q[j] \in Addrs
    BY <1>1 DEF Within
  <2>4. \A j \in 1 .. Len(q) - 1 : q[j] # last
    BY <1>1, <2>1 DEF Linked
  <2>5. \A j \in 1 .. Len(r) : n.item[r[j]].prev = IF j = 1 THEN NULL ELSE r[j - 1]
    <3> SUFFICES ASSUME NEW j \in 1 .. Len(r)
                 PROVE  n.item[r[j]].prev = IF j = 1 THEN NULL ELSE r[j - 1]
      OBVIOUS
    <3>1. CASE j = Len(r)
      BY <1>1, <1>2, <1>5, <2>1, <2>2, <3>1
    <3>2. CASE j # Len(r)
      <4>1. j \in 1 .. Len(q) /\ r[j] = q[j] /\ (j # 1 => r[j - 1] = q[j - 1])
        BY <1>1, <1>2, <3>2
      <4>2. n.item[q[j]].prev = m.item[q[j]].prev
        BY <2>2, <2>3, <4>1
      <4> QED
        BY <4>1, <4>2 DEF Linked
    <3> QED
      BY <3>1, <3>2
  <2>6. \A j \in 1 .. Len(r) - 1 : n.item[r[j]].next = r[j + 1]
    <3> SUFFICES ASSUME NEW j \in 1 .. Len(r) - 1 PROVE n.item[r[j]].next = r[j + 1]
      OBVIOUS
    <3>1. CASE j = Len(q)
      BY <1>1, <1>2, <2>1, <2>2, <3>1
    <3>2. CASE j # Len(q)
      <4>1. j \in 1 .. Len(q) - 1 /\ j \in 1 .. Len(q) /\ r[j] = q[j] /\ r[j + 1] = q[j + 1]
        BY <1>1, <1>2, <3>2
      <4>2. n.item[q[j]].next = m.item[q[j]].next
        BY <2>2, <2>3, <2>4, <4>1
      <4> QED
        BY <4>1, <4>2 DEF Linked
    <3> QED
      BY <3>1, <3>2
  <2>7. n.q_first = r[1] /\ n.q_last = r[Len(r)] /\ Len(r) # 0
    BY <1>1, <1>2, <1>5, <2>2 DEF Linked
  <2>8. Linked(n, r)
    BY <1>2, <1>3, <2>5, <2>6, <2>7 DEF Linked
  <2>9. \A b \in Addrs : ~Within(q, b) /\ ~Within(r, b) => b # a /\ b # last
    BY <1>1, <1>2, <2>1 DEF Within
  <2> QED
    BY <1>1, <1>5, <2>2, <2>8, <2>9 DEF Moves, n, r
<1> QED
  BY <1>4, <1>5

LEMMA ElementsOf ==
  ASSUME NEW S, NEW s \in Seq(S), \A i, j \in 1 .. Len(s) : s[i] = s[j] => i = j
  PROVE  /\ \A x : x \in ToSet(s) <=> Within(s, x)
         /\ ToSet(s) \subseteq S
         /\ \A k \in 1 .. Len(s) : ToSet(RemoveAt(s, k)) = ToSet(s) \ {s[k]}
         /\ \A x \in S : ToSet(Append(s, x)) = ToSet(s) \cup {x}
<1>1. (\A x : x \in ToSet(s) <=> Within(s, x)) /\ ToSet(s) \subseteq S
  BY DEF ToSet, Within
<1>2. ASSUME NEW k \in 1 .. Len(s)
      PROVE  ToSet(RemoveAt(s, k)) = ToSet(s) \ {s[k]}
  <2> DEFINE r == RemoveAt(s, k)
  <2>1. /\ r \in Seq(S) /\ Len(r) = Len(s) - 1
        /\ \A j \in 1 .. Len(s) - 1 : r[j] = IF j < k THEN s[j] ELSE s[j + 1]
    BY RemoveAtFacts
  <2> HIDE DEF r
  <2>2. ASSUME NEW j \in 1 .. Len(r) PROVE r[j] \in ToSet(s) /\ r[j] # s[k]
    BY <2>1, SMTT(30) DEF ToSet
  <2>3. ASSUME NEW i \in 1 .. Len(s), i # k
        PROVE  \E j \in 1 .. Len(r) : r[j] = s[i]
    <3>1. CASE i < k
      BY <2>1, <3>1
    <3>2. CASE i > k
      <4>1. i - 1 \in 1 .. Len(r) /\ r[i - 1] = s[i]
        BY <2>1, <3>2
      <4> QED
        BY <4>1
    <3> QED
      BY <2>3, <3>1, <3>2
  <2>4. \A y : y \in ToSet(s) <=> \E i \in 1 .. Len(s) : y = s[i]
    BY DEF ToSet
  <2>5. \A y : y \in ToSet(r) <=> \E j \in 1 .. Len(r) : y = r[j]
    BY <2>1 DEF ToSet
  <2>6. ASSUME NEW y \in ToSet(r) PROVE y \in ToSet(s) \ {s[k]}
    BY <2>2, <2>5
  <2>7. ASSUME NEW y \in ToSet(s) \ {s[k]} PROVE y \in ToSet(r)
    BY <2>3, <2>4, <2>5
  <2> QED
    BY <2>6, <2>7 DEF r
<1>3. ASSUME NEW x \in S PROVE ToSet(Append(s, x)) = ToSet(s) \cup {x}
  <2> DEFINE r == Append(s, x)
  <2>1. /\ r \in Seq(S) /\ Len(r) = Len(s) + 1 /\ Len(s) \in Nat
        /\ r[Len(s) + 1] = x
        /\ \A j \in 1 .. Len(s) : r[j] = s[j]
    OBVIOUS
  <2> HIDE DEF r
  <2>2. \A j \in 1 .. Len(r) : r[j] \in ToSet(s) \cup {x}
    BY <2>1 DEF ToSet
  <2>3. (\A j \in 1 .. Len(s) : s[j] \in ToSet(r)) /\ x \in ToSet(r)
    <3>1. \A j \in 1 .. Len(s) : j \in 1 .. Len(r)
      BY <2>1
    <3>2. Len(s) + 1 \in 1 .. Len(r)
      BY <2>1
    <3> QED
      BY <2>1, <3>1, <3>2 DEF ToSet
  <2> QED
    BY <2>2, <2>3 DEF ToSet, r
<1> QED
  BY <1>1, <1>2, <1>3

-----------------------------------------------------------------------------
(* The hash table *)

Entry(m, a) == [key |-> Num(m, a), value |-> a]

(* The chains lead to the items of A, each by its number, and nowhere else.   *)
Chained(m, A) ==
  /\ \A h \in Buckets : \A j \in 1 .. Len(m.head[h]) :
       \E a \in A : m.head[h][j] = Entry(m, a) /\ Bucket(Num(m, a)) = h
  /\ \A h \in Buckets : \A i, j \in 1 .. Len(m.head[h]) :
       m.head[h][i].key = m.head[h][j].key => i = j
  /\ \A a \in A : \E j \in 1 .. Len(m.head[Bucket(Num(m, a))]) :
       m.head[Bucket(Num(m, a))][j] = Entry(m, a)

LEMMA BucketFact == \A x \in Nat : Bucket(x) \in Buckets
<1> SUFFICES ASSUME NEW x \in Nat PROVE x % (Capacity + 1) \in 0 .. Capacity
  BY DEF Bucket, Buckets
<1> QED
  BY QueueAssumption

LEMMA MemFacts ==
  ASSUME NEW m \in MemType
  PROVE  /\ m.head \in [Buckets -> Seq(Element)]
         /\ \A h \in Buckets : /\ m.head[h] \in Seq(Element)
                               /\ DOMAIN m.head[h] = 1 .. Len(m.head[h])
         /\ \A a \in Addrs : Num(m, a) \in Nat /\ Bucket(Num(m, a)) \in Buckets
         /\ m.bad \in BOOLEAN /\ m.size \in Nat
<1>1. /\ m.head \in [Buckets -> Seq(Element)] /\ m.item \in [Addrs -> ItemType]
      /\ m.bad \in BOOLEAN /\ m.size \in Nat
  BY DEF MemType
<1>2. \A a \in Addrs : Num(m, a) \in Nat
  BY <1>1 DEF Num, ItemType
<1> QED
  BY <1>1, <1>2, BucketFact

(* query_ht finds an item by its number, or nothing.                          *)
LEMMA QueryFacts ==
  ASSUME NEW m \in MemType, NEW A \in SUBSET Addrs, Chained(m, A), NEW x \in Nat
  PROVE  /\ (\A a \in A : Num(m, a) # x) => In(m, x) = {} /\ QueryHt(m, x) = NULL
         /\ \A a \in A : Num(m, a) = x =>
              /\ In(m, x) # {} /\ QueryHt(m, x) = a
              /\ First(m, x) \in 1 .. Len(m.head[Bucket(x)])
              /\ m.head[Bucket(x)][First(m, x)] = Entry(m, a)
<1> DEFINE h == Bucket(x)
           c == m.head[h]
<1>1. h \in Buckets /\ c \in Seq(Element) /\ DOMAIN c = 1 .. Len(c)
  BY MemFacts, BucketFact
<1>2. In(m, x) = {k \in 1 .. Len(c) : c[k].key = x}
  BY <1>1 DEF In
<1>3. ASSUME \A a \in A : Num(m, a) # x PROVE In(m, x) = {} /\ QueryHt(m, x) = NULL
  <2>1. \A j \in 1 .. Len(c) : \E a \in A : c[j] = Entry(m, a)
    BY <1>1 DEF Chained
  <2>2. \A j \in 1 .. Len(c) : c[j].key # x
    <3>1. \A a \in A : Entry(m, a).key # x
      BY <1>3 DEF Entry
    <3> HIDE DEF c
    <3> QED
      BY <2>1, <3>1
  <2>3. In(m, x) = {}
    BY <1>2, <2>2
  <2> QED
    BY <2>3 DEF QueryHt
<1>4. ASSUME NEW a \in A, Num(m, a) = x
      PROVE  /\ In(m, x) # {} /\ QueryHt(m, x) = a
             /\ First(m, x) \in 1 .. Len(c)
             /\ c[First(m, x)] = Entry(m, a)
  <2>1. PICK j \in 1 .. Len(c) : c[j] = Entry(m, a)
    BY <1>4 DEF Chained
  <2>2. c[j].key = x /\ c[j].value = a
    BY <1>4, <2>1 DEF Entry
  <2>3. \A i \in 1 .. Len(c) : c[i].key = x => i = j
    BY <1>1, <2>2, SMTT(30) DEF Chained
  <2> HIDE DEF c, h
  <2>4. In(m, x) = {j}
    BY <1>2, <2>2, <2>3
  <2>5. First(m, x) = j
    BY <2>1, <2>4 DEF First
  <2>6. QueryHt(m, x) = a
    BY <2>2, <2>4, <2>5 DEF QueryHt, c, h
  <2> QED
    BY <2>1, <2>4, <2>5, <2>6
<1> QED
  BY <1>3, <1>4

(* insert_ht, of a number that is not in the table.                           *)
LEMMA InsertFacts ==
  ASSUME NEW m \in MemType, NEW A \in SUBSET Addrs, Chained(m, A), NEW a \in Addrs,
         \A b \in A : Num(m, b) # Num(m, a)
  PROVE  LET n == InsertHt(m, Num(m, a), a)
         IN  /\ n \in MemType /\ Chained(n, A \cup {a}) /\ n.bad = m.bad
             /\ n.item = m.item /\ n.size = m.size
             /\ n.q_first = m.q_first /\ n.q_last = m.q_last
<1> DEFINE x == Num(m, a)
           h == Bucket(x)
           c == m.head[h]
           e == [key |-> x, value |-> a]
           longer == <<e>> \o c
           n == InsertHt(m, x, a)
<1>1. /\ m.head \in [Buckets -> Seq(Element)] /\ m.bad \in BOOLEAN
      /\ x \in Nat /\ h \in Buckets /\ c \in Seq(Element) /\ Len(c) \in Nat
  BY MemFacts
<1>2. QueryHt(m, x) = NULL
  BY <1>1, QueryFacts
<1>3. (m.bad \/ QueryHt(m, x) # NULL) = m.bad
  BY <1>1, <1>2, Zenon
<1>4. e \in Element /\ e = Entry(m, a) /\ e.key = x
  BY <1>1 DEF Element, Entry
<1>5. <<e>> \in Seq(Element) /\ Len(<<e>>) = 1 /\ <<e>>[1] = e
  BY <1>4
<1> HIDE DEF e
<1>6. /\ longer \in Seq(Element) /\ Len(longer) = Len(c) + 1
      /\ longer[1] = e /\ \A j \in 1 .. Len(c) : longer[j + 1] = c[j]
  <2> DEFINE one == <<e>>
  <2>1. one \in Seq(Element) /\ Len(one) = 1 /\ one[1] = e
    BY <1>5
  <2> HIDE DEF one, c
  <2>2. /\ one \o c \in Seq(Element) /\ Len(one \o c) = Len(one) + Len(c)
        /\ \A i \in 1 .. Len(one) + Len(c) :
             (one \o c)[i] = IF i <= Len(one) THEN one[i] ELSE c[i - Len(one)]
    BY <1>1, <2>1, ConcatProperties
  <2>3. (one \o c)[1] = e
    BY <1>1, <2>1, <2>2
  <2>4. ASSUME NEW j \in 1 .. Len(c) PROVE (one \o c)[j + 1] = c[j]
    <3>1. j + 1 \in 1 .. Len(one) + Len(c) /\ ~(j + 1 <= Len(one)) /\ j + 1 - Len(one) = j
      BY <1>1, <2>1
    <3> QED
      BY <2>2, <3>1
  <2> QED
    BY <2>1, <2>2, <2>3, <2>4 DEF one
<1>7. n = [m EXCEPT !.head[h] = longer, !.bad = m.bad]
  BY <1>3 DEF InsertHt, e
<1> HIDE DEF longer, n
<1>8. /\ n \in MemType /\ n.bad = m.bad /\ n.item = m.item /\ n.size = m.size
      /\ n.q_first = m.q_first /\ n.q_last = m.q_last
      /\ \A g \in Buckets : n.head[g] = IF g = h THEN longer ELSE m.head[g]
  <2> DEFINE heads == [m.head EXCEPT ![h] = longer]
  <2>1. /\ heads \in [Buckets -> Seq(Element)]
        /\ \A g \in Buckets : heads[g] = IF g = h THEN longer ELSE m.head[g]
    BY <1>1, <1>6
  <2>2. n = [m EXCEPT !.head = heads]
    BY <1>1, <1>7 DEF MemType
  <2> HIDE DEF heads
  <2> QED
    BY <2>1, <2>2 DEF MemType
<1>9. \A b \in Addrs : Entry(n, b) = Entry(m, b) /\ Num(n, b) = Num(m, b)
  BY <1>8 DEF Entry, Num
<1>10. ASSUME NEW g \in Buckets, NEW j \in 1 .. Len(n.head[g])
       PROVE  \E b \in A \cup {a} : n.head[g][j] = Entry(n, b) /\ Bucket(Num(n, b)) = g
  <2>1. CASE g # h
    BY <1>8, <1>9, <2>1, SMTT(30) DEF Chained
  <2>2. CASE g = h /\ j = 1
    BY <1>4, <1>6, <1>8, <1>9, <2>2
  <2>3. CASE g = h /\ j # 1
    <3>1. j - 1 \in 1 .. Len(c) /\ n.head[g][j] = c[j - 1]
      <4>1. j - 1 \in 1 .. Len(c) /\ (j - 1) + 1 = j
        BY <1>1, <1>6, <1>8, <2>3
      <4> QED
        BY <1>6, <1>8, <2>3, <4>1
    <3>2. \E b \in A : c[j - 1] = Entry(m, b) /\ Bucket(Num(m, b)) = h
      BY <1>1, <3>1 DEF Chained
    <3> QED
      BY <1>9, <2>3, <3>1, <3>2
  <2> QED
    BY <2>1, <2>2, <2>3
<1>11. \A j \in 1 .. Len(c) : c[j].key # x
  <2>1. \A b \in A : Entry(m, b).key # x
    BY DEF Entry
  <2>2. \A j \in 1 .. Len(c) : \E b \in A : c[j] = Entry(m, b)
    BY <1>1 DEF Chained
  <2> HIDE DEF c, x
  <2> QED
    BY <2>1, <2>2
<1>12. ASSUME NEW g \in Buckets, NEW i \in 1 .. Len(n.head[g]), NEW j \in 1 .. Len(n.head[g]),
              n.head[g][i].key = n.head[g][j].key
       PROVE  i = j
  <2>1. CASE g # h
    BY <1>8, <1>12, <2>1, SMTT(20) DEF Chained
  <2>2. CASE g = h
    <3>1. n.head[g] = longer
      BY <1>8, <2>2
    <3>2. \A k \in 1 .. Len(longer) :
            k # 1 => k - 1 \in 1 .. Len(c) /\ longer[k] = c[k - 1]
      <4> SUFFICES ASSUME NEW k \in 1 .. Len(longer), k # 1
                   PROVE  k - 1 \in 1 .. Len(c) /\ longer[k] = c[k - 1]
        OBVIOUS
      <4>1. k - 1 \in 1 .. Len(c) /\ (k - 1) + 1 = k
        BY <1>1, <1>6
      <4> QED
        BY <1>6, <4>1
    <3>3. \A k, l \in 1 .. Len(c) : c[k].key = c[l].key => k = l
      BY <1>1 DEF Chained
    <3> HIDE DEF c, x
    <3>4. CASE i = 1
      BY <1>4, <1>6, <1>11, <1>12, <3>1, <3>2, <3>4
    <3>5. CASE j = 1
      BY <1>4, <1>6, <1>11, <1>12, <3>1, <3>2, <3>5
    <3>6. CASE i # 1 /\ j # 1
      <4>1. i - 1 = j - 1
        BY <1>12, <3>1, <3>2, <3>3, <3>6, SMTT(30)
      <4> QED
        BY <1>6, <3>1, <4>1
    <3> QED
      BY <3>4, <3>5, <3>6
  <2> QED
    BY <2>1, <2>2
<1>13. ASSUME NEW b \in A \cup {a}
       PROVE  \E j \in 1 .. Len(n.head[Bucket(Num(n, b))]) :
                n.head[Bucket(Num(n, b))][j] = Entry(n, b)
  <2>0. b \in Addrs /\ Bucket(Num(m, b)) \in Buckets /\ Num(n, b) = Num(m, b)
    BY <1>9, MemFacts
  <2>1. CASE b = a
    <3>1. n.head[h] = longer /\ 1 \in 1 .. Len(longer)
      BY <1>1, <1>6, <1>8
    <3> QED
      BY <1>4, <1>6, <1>9, <2>0, <2>1, <3>1
  <2>2. CASE b \in A
    <3>1. PICK j \in 1 .. Len(m.head[Bucket(Num(m, b))]) :
            m.head[Bucket(Num(m, b))][j] = Entry(m, b)
      BY <2>2 DEF Chained
    <3>2. CASE Bucket(Num(m, b)) # h
      BY <1>8, <1>9, <2>0, <3>1, <3>2
    <3>3. CASE Bucket(Num(m, b)) = h
      <4>1. j + 1 \in 1 .. Len(longer) /\ longer[j + 1] = Entry(m, b) /\ n.head[h] = longer
        BY <1>1, <1>6, <1>8, <3>1, <3>3
      <4> QED
        BY <1>9, <2>0, <3>3, <4>1
    <3> QED
      BY <3>2, <3>3
  <2> QED
    BY <2>1, <2>2
<1> QED
  BY <1>8, <1>10, <1>12, <1>13 DEF Chained, n

(* evict_ht, of the number of an item.                                        *)
LEMMA EvictHtFacts ==
  ASSUME NEW m \in MemType, NEW A \in SUBSET Addrs, Chained(m, A), NEW a \in A,
         \A b \in A : Num(m, b) = Num(m, a) => b = a
  PROVE  LET n == EvictHt(m, Num(m, a))
         IN  /\ n \in MemType /\ Chained(n, A \ {a}) /\ n.bad = m.bad
             /\ n.item = m.item /\ n.size = m.size
             /\ n.q_first = m.q_first /\ n.q_last = m.q_last
<1> DEFINE x == Num(m, a)
           h == Bucket(x)
           c == m.head[h]
           f == First(m, x)
           shorter == RemoveAt(c, f)
           n == EvictHt(m, x)
<1>1. /\ m.head \in [Buckets -> Seq(Element)] /\ a \in Addrs
      /\ x \in Nat /\ h \in Buckets /\ c \in Seq(Element) /\ Len(c) \in Nat
  BY MemFacts
<1>2. In(m, x) # {} /\ f \in 1 .. Len(c) /\ c[f] = Entry(m, a)
  BY <1>1, QueryFacts
<1> HIDE DEF f
<1>3. /\ shorter \in Seq(Element) /\ Len(shorter) = Len(c) - 1
      /\ \A j \in 1 .. Len(c) - 1 : shorter[j] = IF j < f THEN c[j] ELSE c[j + 1]
  BY <1>1, <1>2, RemoveAtFacts
<1>4. n = [m EXCEPT !.head[h] = shorter]
  BY <1>2 DEF EvictHt, f
<1> HIDE DEF shorter, n
<1>5. /\ n \in MemType /\ n.bad = m.bad /\ n.item = m.item /\ n.size = m.size
      /\ n.q_first = m.q_first /\ n.q_last = m.q_last
      /\ \A g \in Buckets : n.head[g] = IF g = h THEN shorter ELSE m.head[g]
  <2> DEFINE heads == [m.head EXCEPT ![h] = shorter]
  <2>1. /\ heads \in [Buckets -> Seq(Element)]
        /\ \A g \in Buckets : heads[g] = IF g = h THEN shorter ELSE m.head[g]
    BY <1>1, <1>3
  <2>2. n = [m EXCEPT !.head = heads]
    BY <1>1, <1>4 DEF MemType
  <2> HIDE DEF heads
  <2> QED
    BY <2>1, <2>2 DEF MemType
<1>6. \A b \in Addrs : Entry(n, b) = Entry(m, b) /\ Num(n, b) = Num(m, b)
  BY <1>5 DEF Entry, Num
<1>7. /\ \A k, l \in 1 .. Len(c) : c[k].key = c[l].key => k = l
      /\ \A k \in 1 .. Len(c) : \E b \in A : c[k] = Entry(m, b) /\ Bucket(Num(m, b)) = h
  BY <1>1 DEF Chained
<1> HIDE DEF c
<1>8. ASSUME NEW j \in 1 .. Len(shorter)
      PROVE  \E k \in 1 .. Len(c) : /\ shorter[j] = c[k] /\ k # f
                                    /\ k = IF j < f THEN j ELSE j + 1
  BY <1>1, <1>2, <1>3
<1>9. ASSUME NEW g \in Buckets, NEW j \in 1 .. Len(n.head[g])
      PROVE  \E b \in A \ {a} : n.head[g][j] = Entry(n, b) /\ Bucket(Num(n, b)) = g
  <2>1. CASE g # h
    <3>1. PICK b \in A : m.head[g][j] = Entry(m, b) /\ Bucket(Num(m, b)) = g
      BY <1>5, <1>9, <2>1 DEF Chained
    <3>2. b # a /\ b \in Addrs /\ n.head[g] = m.head[g]
      BY <1>5, <2>1, <3>1
    <3> QED
      BY <1>6, <3>1, <3>2
  <2>2. CASE g = h
    <3>1. n.head[g] = shorter /\ j \in 1 .. Len(shorter)
      BY <1>5, <1>9, <2>2
    <3>2. PICK k \in 1 .. Len(c) : shorter[j] = c[k] /\ k # f
      BY <1>8, <3>1
    <3>3. PICK b \in A : c[k] = Entry(m, b) /\ Bucket(Num(m, b)) = h
      BY <1>7
    <3>4. b # a
      BY <1>2, <1>7, <3>2, <3>3
    <3> QED
      BY <1>6, <2>2, <3>1, <3>2, <3>3, <3>4
  <2> QED
    BY <2>1, <2>2
<1>10. ASSUME NEW g \in Buckets, NEW i \in 1 .. Len(n.head[g]), NEW j \in 1 .. Len(n.head[g]),
              n.head[g][i].key = n.head[g][j].key
       PROVE  i = j
  <2>1. CASE g # h
    BY <1>5, <1>10, <2>1, SMTT(20) DEF Chained
  <2>2. CASE g = h
    <3>1. n.head[g] = shorter
      BY <1>5, <2>2
    <3>2. PICK k \in 1 .. Len(c) : shorter[i] = c[k] /\ k = IF i < f THEN i ELSE i + 1
      BY <1>8, <3>1
    <3>3. PICK l \in 1 .. Len(c) : shorter[j] = c[l] /\ l = IF j < f THEN j ELSE j + 1
      BY <1>8, <3>1
    <3>4. k = l
      BY <1>7, <1>10, <3>1, <3>2, <3>3
    <3> QED
      BY <1>1, <1>2, <1>3, <3>1, <3>2, <3>3, <3>4
  <2> QED
    BY <2>1, <2>2
<1>11. ASSUME NEW b \in A \ {a}
       PROVE  \E j \in 1 .. Len(n.head[Bucket(Num(n, b))]) :
                n.head[Bucket(Num(n, b))][j] = Entry(n, b)
  <2>1. b \in Addrs /\ Bucket(Num(m, b)) \in Buckets /\ Num(n, b) = Num(m, b)
    BY <1>6, MemFacts
  <2>2. PICK k \in 1 .. Len(m.head[Bucket(Num(m, b))]) :
          m.head[Bucket(Num(m, b))][k] = Entry(m, b)
    BY DEF Chained
  <2>3. CASE Bucket(Num(m, b)) # h
    BY <1>5, <1>6, <2>1, <2>2, <2>3
  <2>4. CASE Bucket(Num(m, b)) = h
    <3>1. k \in 1 .. Len(c) /\ c[k] = Entry(m, b)
      BY <2>2, <2>4 DEF c
    <3>2. k # f
      <4>1. Entry(m, b).value = b /\ Entry(m, a).value = a
        BY DEF Entry
      <4> QED
        BY <1>2, <3>1, <4>1
    <3>3. \E j \in 1 .. Len(shorter) : shorter[j] = c[k]
      <4>1. CASE k < f
        <5>1. k \in 1 .. Len(c) - 1
          BY <1>1, <1>2, <3>1, <4>1
        <5>2. k \in 1 .. Len(shorter) /\ shorter[k] = c[k]
          BY <1>3, <4>1, <5>1
        <5> QED
          BY <5>2
      <4>2. CASE k > f
        <5>1. k - 1 \in 1 .. Len(shorter) /\ k - 1 \in 1 .. Len(c) - 1
              /\ ~(k - 1 < f) /\ (k - 1) + 1 = k
          BY <1>1, <1>2, <1>3, <3>1, <4>2
        <5>2. shorter[k - 1] = c[k]
          BY <1>3, <5>1
        <5> QED
          BY <5>1, <5>2
      <4> QED
        BY <1>2, <3>1, <3>2, <4>1, <4>2
    <3> QED
      BY <1>5, <1>6, <2>1, <2>4, <3>1, <3>3
  <2> QED
    BY <2>3, <2>4
<1> QED
  BY <1>5, <1>9, <1>10, <1>11 DEF Chained, n

-----------------------------------------------------------------------------
(* The cache *)

(* The items of A have numbers of their own; the other items are not in use.  *)
Numbered(m, A) ==
  /\ \A a \in A : Num(m, a) \in Keys
  /\ \A a, b \in A : Num(m, a) = Num(m, b) => a = b
  /\ \A a \in Addrs \ A : m.item[a] = Unset

(* The queue and the table hold the items q, least recently used first.       *)
Holds(m, q) ==
  /\ m \in MemType
  /\ Linked(m, q)
  /\ Chained(m, ToSet(q))
  /\ Numbered(m, ToSet(q))
  /\ m.size = Len(q) /\ Len(q) <= Capacity
  /\ ~m.bad

LEMMA HoldsFacts ==
  ASSUME NEW m, NEW q, Holds(m, q)
  PROVE  /\ m \in MemType /\ q \in Seq(Addrs) /\ Len(q) \in Nat
         /\ \A j, k \in 1 .. Len(q) : q[j] = q[k] => j = k
         /\ ToSet(q) \in SUBSET Addrs
         /\ \A x : x \in ToSet(q) <=> Within(q, x)
         /\ \A k \in 1 .. Len(q) : q[k] \in ToSet(q)
         /\ \A a \in ToSet(q) : Num(m, a) \in Nat
<1>1. /\ m \in MemType /\ q \in Seq(Addrs) /\ Len(q) \in Nat
      /\ \A j, k \in 1 .. Len(q) : q[j] = q[k] => j = k
  BY DEF Holds, Linked
<1>2. ToSet(q) \in SUBSET Addrs /\ \A x : x \in ToSet(q) <=> Within(q, x)
  BY <1>1, ElementsOf
<1>3. \A k \in 1 .. Len(q) : q[k] \in ToSet(q)
  BY <1>2 DEF Within
<1>4. \A a \in ToSet(q) : Num(m, a) \in Nat
  BY <1>1, <1>2, MemFacts
<1> QED
  BY <1>1, <1>2, <1>3, <1>4

(* Chained and Linked say nothing about the rest of the memory.               *)
LEMMA ChainedKept ==
  ASSUME NEW m, NEW n, NEW A, Chained(m, A), n.head = m.head,
         \A a \in A : Num(n, a) = Num(m, a)
  PROVE  Chained(n, A)
<1>1. \A a \in A : Entry(n, a) = Entry(m, a)
  BY DEF Entry
<1>2. ASSUME NEW h \in Buckets, NEW j \in 1 .. Len(n.head[h])
      PROVE  \E a \in A : n.head[h][j] = Entry(n, a) /\ Bucket(Num(n, a)) = h
  <2>1. PICK a \in A : m.head[h][j] = Entry(m, a) /\ Bucket(Num(m, a)) = h
    BY DEF Chained
  <2> QED
    BY <1>1, <2>1
<1>3. ASSUME NEW a \in A
      PROVE  \E j \in 1 .. Len(n.head[Bucket(Num(n, a))]) :
               n.head[Bucket(Num(n, a))][j] = Entry(n, a)
  BY <1>1 DEF Chained
<1>4. \A h \in Buckets : \A i, j \in 1 .. Len(n.head[h]) :
        n.head[h][i].key = n.head[h][j].key => i = j
  BY DEF Chained
<1> QED
  BY <1>2, <1>3, <1>4 DEF Chained

LEMMA LinkedKept ==
  ASSUME NEW m, NEW n, NEW q, Linked(m, q), n.q_first = m.q_first, n.q_last = m.q_last,
         \A k \in 1 .. Len(q) : n.item[q[k]] = m.item[q[k]]
  PROVE  Linked(n, q) /\ (Closed(m, q) => Closed(n, q))
<1>1. Len(q) \in Nat
  BY DEF Linked
<1>2. Linked(n, q)
  <2>1. ASSUME NEW k \in 1 .. Len(q)
        PROVE  n.item[q[k]].prev = IF k = 1 THEN NULL ELSE q[k - 1]
    BY DEF Linked
  <2>2. ASSUME NEW k \in 1 .. Len(q) - 1 PROVE n.item[q[k]].next = q[k + 1]
    <3>1. k \in 1 .. Len(q)
      BY <1>1
    <3> QED
      BY <3>1 DEF Linked
  <2> QED
    BY <2>1, <2>2 DEF Linked
<1>3. Closed(m, q) => Closed(n, q)
  BY <1>1 DEF Closed
<1> QED
  BY <1>2, <1>3

(* A hit moves the item to the end of the queue.                              *)
LEMMA HitHolds ==
  ASSUME NEW m, NEW q, Holds(m, q), Closed(m, q), NEW k \in 1 .. Len(q)
  PROVE  LET n == Hit(m, Num(m, q[k]))
             r == Append(RemoveAt(q, k), q[k])
         IN  Holds(n, r) /\ Closed(n, r) /\ \A a \in Addrs : Num(n, a) = Num(m, a)
<1> DEFINE a == q[k]
           s == RemoveAt(q, k)
           r == Append(s, a)
           d == RightDequeue(m, a)
           n == Hit(m, Num(m, a))
<1>1. /\ m \in MemType /\ q \in Seq(Addrs) /\ Len(q) \in Nat /\ a \in ToSet(q) /\ a \in Addrs
      /\ \A i, j \in 1 .. Len(q) : q[i] = q[j] => i = j
      /\ ToSet(q) \in SUBSET Addrs /\ Num(m, a) \in Nat
  BY HoldsFacts
<1>2. /\ s \in Seq(Addrs) /\ Len(s) = Len(q) - 1
      /\ \A i, j \in 1 .. Len(s) : s[i] = s[j] => i = j
  <2>1. s \in Seq(Addrs) /\ Len(s) = Len(q) - 1
    BY <1>1, RemoveAtFacts
  <2>2. \A i, j \in 1 .. Len(q) - 1 : s[i] = s[j] => i = j
    BY <1>1, RemoveAtDistinct
  <2> QED
    BY <2>1, <2>2
<1>3. ToSet(s) = ToSet(q) \ {a} /\ (\A x : x \in ToSet(s) <=> Within(s, x))
  BY <1>1, <1>2, ElementsOf
<1>4. ToSet(r) = ToSet(q)
  <2> HIDE DEF s
  <2>1. ToSet(r) = ToSet(s) \cup {a}
    BY <1>1, <1>2, ElementsOf
  <2> QED
    BY <1>1, <1>3, <2>1
<1>5. Len(r) = Len(q) /\ r[Len(q)] = a /\ r \in Seq(Addrs)
  BY <1>1, <1>2
<1>6. QueryHt(m, Num(m, a)) = a
  BY <1>1, QueryFacts DEF Holds
<1>7. n = RightEnqueue(d, a, kind)
  BY <1>6 DEF Hit
<1>8. Moves(m, q, d, s) /\ Closed(d, s)
  BY LinkWithout DEF Holds
<1>9. ~Within(s, a)
  BY <1>3
<1> HIDE DEF n, d, s, r
<1>10. /\ Moves(d, s, n, r)
       /\ n.item[a].next = IF Len(s) > 0 \/ kind = "blocks" THEN NULL ELSE d.item[a].next
  BY <1>1, <1>7, <1>8, <1>9, LinkMore DEF Moves, r
<1>11. n \in MemType /\ Linked(n, r) /\ n.bad = m.bad /\ SameRest(m, n)
  BY <1>8, <1>10 DEF Moves, SameRest
<1>12. \A b \in Addrs : Num(n, b) = Num(m, b)
  BY <1>11 DEF SameRest
<1>13. Closed(n, r)
  <2> SUFFICES n.item[a].next = NULL
    BY <1>5 DEF Closed
  <2>1. CASE Len(s) > 0
    BY <1>10, <2>1
  <2>2. CASE ~(Len(s) > 0)
    <3>1. k = Len(q) /\ k = 1
      BY <1>1, <1>2, <2>2
    <3>2. m.item[a].next = NULL /\ m.item[a].prev = NULL /\ m.q_first = a
      BY <1>1, <3>1 DEF Holds, Linked, Closed
    <3>3. d = LeftDequeue(m)
      BY <3>2, QueueAssumption DEF RightDequeue, d
    <3>4. d.item[a].next = NULL
      BY <1>1, <3>2, <3>3, LeftDequeueFields DEF Places
    <3> QED
      BY <1>10, <3>4
  <2> QED
    BY <2>1, <2>2
<1>14. Chained(n, ToSet(r))
  BY <1>1, <1>4, <1>11, <1>12, ChainedKept DEF Holds, SameRest
<1>15. Numbered(n, ToSet(r))
  <2>1. ASSUME NEW b \in Addrs \ ToSet(r) PROVE n.item[b] = m.item[b]
    <3>1. ~Within(q, b) /\ ~Within(s, b) /\ ~Within(r, b)
      <4>1. b \notin ToSet(q) /\ b \notin ToSet(s)
        BY <1>3, <1>4, <2>1
      <4>2. ~Within(r, b)
        BY <1>5, <2>1 DEF ToSet, Within
      <4> QED
        BY <1>3, <4>1, <4>2, HoldsFacts
    <3> QED
      BY <1>8, <1>10, <3>1 DEF Moves
  <2> QED
    BY <1>1, <1>4, <1>12, <2>1 DEF Holds, Numbered
<1>16. n.size = Len(r) /\ Len(r) <= Capacity /\ ~n.bad
  BY <1>5, <1>11 DEF Holds, SameRest
<1> QED
  BY <1>11, <1>12, <1>13, <1>14, <1>15, <1>16 DEF Holds, n, r, s

(* The first item of the queue leaves it and the table.                       *)
LEMMA EvictHolds ==
  ASSUME NEW m, NEW q, Holds(m, q), Closed(m, q), Len(q) > 0
  PROVE  LET n == Evict(m)
             r == RemoveAt(q, 1)
         IN  /\ Holds(n, r) /\ Closed(n, r)
             /\ \A a \in ToSet(r) : Num(n, a) = Num(m, a)
<1> USE NullFacts, SizeFacts
<1> DEFINE a == q[1]
           r == RemoveAt(q, 1)
           d == LeftDequeue(m)
           less == [d EXCEPT !.size = d.size - 1]
           out == EvictHt(less, Num(m, a))
           n == Evict(m)
<1>1. /\ m \in MemType /\ q \in Seq(Addrs) /\ Len(q) \in Nat /\ 1 \in 1 .. Len(q)
      /\ a \in ToSet(q) /\ a \in Addrs
      /\ \A i, j \in 1 .. Len(q) : q[i] = q[j] => i = j
      /\ ToSet(q) \in SUBSET Addrs /\ m.size = Len(q)
  BY HoldsFacts DEF Holds
<1>2. r \in Seq(Addrs) /\ Len(r) = Len(q) - 1
  BY <1>1, RemoveAtFacts
<1>3. ToSet(r) = ToSet(q) \ {a}
  BY <1>1, ElementsOf
<1>4. Moves(m, q, d, r) /\ Closed(d, r)
  BY LinkLeft DEF Holds
<1>5. m.q_first = a
  BY <1>1 DEF Holds, Linked
<1>6. n = [out EXCEPT !.item[a] = Unset]
  BY <1>5 DEF Evict, Num
<1> HIDE DEF d
<1>7. /\ d \in MemType /\ d.head = m.head /\ d.size = Len(q) /\ d.bad = m.bad
      /\ Linked(d, r) /\ \A b \in Addrs : Num(d, b) = Num(m, b)
      /\ \A b \in Addrs : ~Within(q, b) /\ ~Within(r, b) => d.item[b] = m.item[b]
  BY <1>1, <1>4 DEF Moves, SameRest
<1>8. /\ less \in MemType /\ less.head = m.head /\ less.size = Len(r) /\ less.bad = m.bad
      /\ less.item = d.item /\ less.q_first = d.q_first /\ less.q_last = d.q_last
  <2>1. Len(r) \in Nat /\ d.size - 1 = Len(r)
    BY <1>1, <1>2, <1>7
  <2> HIDE DEF r
  <2> QED
    BY <1>7, <2>1 DEF MemType
<1> HIDE DEF less
<1>9. \A b \in Addrs : Num(less, b) = Num(m, b)
  BY <1>7, <1>8 DEF Num
<1>10. Chained(less, ToSet(q))
  BY <1>1, <1>8, <1>9, ChainedKept DEF Holds
<1>11. \A b \in ToSet(q) : Num(less, b) = Num(less, a) => b = a
  BY <1>1, <1>9 DEF Holds, Numbered
<1>12. /\ out \in MemType /\ Chained(out, ToSet(q) \ {a}) /\ out.bad = less.bad
       /\ out.item = less.item /\ out.size = less.size
       /\ out.q_first = less.q_first /\ out.q_last = less.q_last
  <2>1. Num(less, a) = Num(m, a)
    BY <1>1, <1>9
  <2>2. out = EvictHt(less, Num(less, a))
    BY <2>1
  <2> HIDE DEF out, a
  <2> QED
    BY <1>1, <1>8, <1>10, <1>11, <2>2, EvictHtFacts
<1> HIDE DEF out, n
<1>13. /\ n \in MemType /\ n.head = out.head /\ n.bad = m.bad /\ n.size = Len(r)
       /\ n.q_first = d.q_first /\ n.q_last = d.q_last
       /\ \A b \in Addrs : n.item[b] = IF b = a THEN Unset ELSE d.item[b]
  <2> DEFINE items == [out.item EXCEPT ![a] = Unset]
  <2>1. Unset \in ItemType
    BY DEF Unset, ItemType, Pointers
  <2>2. /\ items \in [Addrs -> ItemType]
        /\ \A b \in Addrs : items[b] = IF b = a THEN Unset ELSE d.item[b]
    BY <1>1, <1>8, <1>12, <2>1 DEF MemType
  <2>3. n = [out EXCEPT !.item = items]
    BY <1>6
  <2> HIDE DEF items
  <2> QED
    BY <1>8, <1>12, <2>2, <2>3 DEF MemType
<1>14. \A b \in ToSet(r) : b \in Addrs /\ b # a /\ n.item[b] = d.item[b]
  BY <1>1, <1>3, <1>13
<1>15. \A b \in ToSet(r) : Num(n, b) = Num(m, b) /\ Num(n, b) = Num(out, b)
  BY <1>7, <1>8, <1>12, <1>14 DEF Num
<1>16. \A k \in 1 .. Len(r) : r[k] \in ToSet(r)
  BY <1>2 DEF ToSet
<1>17. Linked(n, r) /\ Closed(n, r)
  <2>1. \A k \in 1 .. Len(r) : n.item[r[k]] = d.item[r[k]]
    BY <1>14, <1>16
  <2> QED
    BY <1>4, <1>7, <1>13, <2>1, LinkedKept
<1>18. Chained(n, ToSet(r))
  <2>1. Chained(out, ToSet(r))
    BY <1>3, <1>12
  <2> HIDE DEF r
  <2> QED
    BY <1>13, <1>15, <2>1, ChainedKept
<1>19. Numbered(n, ToSet(r))
  <2>1. ASSUME NEW b \in Addrs \ ToSet(r), b # a PROVE n.item[b] = Unset
    <3>1. b \notin ToSet(q)
      BY <1>3, <2>1
    <3>2. ~Within(q, b) /\ ~Within(r, b)
      BY <1>2, <2>1, <3>1, HoldsFacts DEF ToSet, Within
    <3> QED
      BY <1>7, <1>13, <2>1, <3>1, <3>2 DEF Holds, Numbered
  <2>2. n.item[a] = Unset
    BY <1>1, <1>13
  <2> QED
    BY <1>3, <1>15, <2>1, <2>2 DEF Holds, Numbered
<1> QED
  BY <1>1, <1>2, <1>13, <1>15, <1>17, <1>18, <1>19 DEF Holds, n, r

(* A miss puts the new item at the end of the queue and into the table.       *)
LEMMA MissHolds ==
  ASSUME NEW m, NEW q, Holds(m, q), NEW x \in Keys, NEW a \in Addrs \ ToSet(q),
         Len(q) < Capacity, \A b \in ToSet(q) : Num(m, b) # x
  PROVE  LET n == Miss(m, x, a)
             r == Append(q, a)
         IN  /\ Holds(n, r) /\ Num(n, a) = x
             /\ \A b \in ToSet(q) : Num(n, b) = Num(m, b)
             /\ n.item[a].next = IF Len(q) > 0 \/ kind = "blocks" THEN NULL ELSE Junk
<1> USE NullFacts, SizeFacts
<1> DEFINE r == Append(q, a)
           item == [Unset EXCEPT !.c_item_num = x]
           new == [m EXCEPT !.item[a] = item]
           in == RightEnqueue(new, a, kind)
           more == [in EXCEPT !.size = in.size + 1]
           n == Miss(m, x, a)
<1>1. /\ m \in MemType /\ q \in Seq(Addrs) /\ Len(q) \in Nat
      /\ \A i, j \in 1 .. Len(q) : q[i] = q[j] => i = j
      /\ ToSet(q) \in SUBSET Addrs /\ m.size = Len(q) /\ x \in Nat
      /\ \A y : y \in ToSet(q) <=> Within(q, y)
  BY HoldsFacts, QueueAssumption DEF Holds
<1>2. r \in Seq(Addrs) /\ Len(r) = Len(q) + 1 /\ ToSet(r) = ToSet(q) \cup {a}
  BY <1>1, ElementsOf
<1>3. item \in ItemType /\ item.c_item_num = x /\ item.next = Junk
  BY <1>1 DEF Unset, ItemType, Pointers
<1> HIDE DEF item
<1>4. /\ new \in MemType /\ new.head = m.head /\ new.size = Len(q) /\ new.bad = m.bad
      /\ new.q_first = m.q_first /\ new.q_last = m.q_last
      /\ \A b \in Addrs : new.item[b] = IF b = a THEN item ELSE m.item[b]
  <2> DEFINE items == [m.item EXCEPT ![a] = item]
  <2>1. /\ items \in [Addrs -> ItemType]
        /\ \A b \in Addrs : items[b] = IF b = a THEN item ELSE m.item[b]
    BY <1>1, <1>3 DEF MemType
  <2>2. new = [m EXCEPT !.item = items]
    OBVIOUS
  <2> HIDE DEF items, new
  <2> QED
    BY <1>1, <2>1, <2>2 DEF MemType
<1> HIDE DEF new
<1>5. Linked(new, q)
  <2>1. \A k \in 1 .. Len(q) : q[k] \in Addrs /\ q[k] # a
    BY <1>1 DEF Within
  <2>2. \A k \in 1 .. Len(q) : new.item[q[k]] = m.item[q[k]]
    BY <1>4, <2>1
  <2> QED
    BY <1>4, <2>2, LinkedKept DEF Holds
<1>6. ~Within(q, a)
  BY <1>1
<1> HIDE DEF r
<1>7. /\ Moves(new, q, in, r)
      /\ in.item[a].next = IF Len(q) > 0 \/ kind = "blocks" THEN NULL ELSE new.item[a].next
  BY <1>4, <1>5, <1>6, LinkMore DEF r
<1> HIDE DEF in
<1>8. /\ in \in MemType /\ in.head = m.head /\ in.size = Len(q) /\ in.bad = m.bad
      /\ Linked(in, r) /\ \A b \in Addrs : Num(in, b) = Num(new, b)
      /\ \A b \in Addrs : ~Within(q, b) /\ ~Within(r, b) => in.item[b] = new.item[b]
  BY <1>4, <1>7 DEF Moves, SameRest
<1>9. /\ more \in MemType /\ more.head = m.head /\ more.size = Len(r) /\ more.bad = m.bad
      /\ more.item = in.item /\ more.q_first = in.q_first /\ more.q_last = in.q_last
  <2>1. Len(r) \in Nat /\ in.size + 1 = Len(r)
    BY <1>1, <1>2, <1>8
  <2> QED
    BY <1>8, <2>1 DEF MemType
<1>10. n = InsertHt(more, x, a)
  BY DEF Miss, more, in, new, item
<1> HIDE DEF more, n
<1>11. /\ Num(more, a) = x
       /\ \A b \in ToSet(q) : Num(more, b) = Num(m, b)
  BY <1>1, <1>3, <1>4, <1>8, <1>9 DEF Num
<1>12. Chained(more, ToSet(q))
  BY <1>9, <1>11, ChainedKept DEF Holds
<1>13. /\ n \in MemType /\ Chained(n, ToSet(r)) /\ n.bad = more.bad
       /\ n.item = more.item /\ n.size = more.size
       /\ n.q_first = more.q_first /\ n.q_last = more.q_last
  <2>1. n = InsertHt(more, Num(more, a), a)
    BY <1>10, <1>11
  <2>2. \A b \in ToSet(q) : Num(more, b) # Num(more, a)
    BY <1>11
  <2>3. more \in MemType /\ ToSet(q) \in SUBSET Addrs /\ a \in Addrs
    BY <1>1, <1>9
  <2>4. /\ n \in MemType /\ Chained(n, ToSet(q) \cup {a}) /\ n.bad = more.bad
        /\ n.item = more.item /\ n.size = more.size
        /\ n.q_first = more.q_first /\ n.q_last = more.q_last
    BY <1>12, <2>1, <2>2, <2>3, InsertFacts
  <2> QED
    BY <1>2, <2>4
<1>14. Num(n, a) = x /\ \A b \in ToSet(q) : Num(n, b) = Num(m, b)
  BY <1>11, <1>13 DEF Num
<1>15. Linked(n, r)
  BY <1>8, <1>9, <1>13, LinkedKept
<1>16. Numbered(n, ToSet(r))
  <2>1. ASSUME NEW b \in Addrs \ ToSet(r) PROVE n.item[b] = Unset
    <3>1. b # a /\ b \notin ToSet(q)
      BY <1>2, <2>1
    <3>2. ~Within(q, b) /\ ~Within(r, b)
      BY <1>1, <1>2, <2>1, <3>1 DEF ToSet, Within
    <3> QED
      BY <1>4, <1>8, <1>9, <1>13, <2>1, <3>1, <3>2 DEF Holds, Numbered
  <2>2. /\ \A b \in ToSet(q) : Num(m, b) \in Keys
        /\ \A b, c \in ToSet(q) : Num(m, b) = Num(m, c) => b = c
    BY DEF Holds, Numbered
  <2> QED
    BY <1>2, <1>14, <2>1, <2>2 DEF Numbered
<1>17. n.item[a].next = IF Len(q) > 0 \/ kind = "blocks" THEN NULL ELSE Junk
  BY <1>3, <1>4, <1>7, <1>9, <1>13
<1>18. Len(r) <= Capacity /\ n.size = Len(r) /\ ~n.bad
  BY <1>1, <1>2, <1>9, <1>13 DEF Holds
<1> QED
  BY <1>13, <1>14, <1>15, <1>16, <1>17, <1>18 DEF Holds, n, r

LEMMA HeldInUse ==
  ASSUME NEW m, NEW q, Holds(m, q), NEW a \in Addrs \ InQueue(m)
  PROVE  a \notin ToSet(q)
<1> SUFFICES ASSUME NEW k \in 1 .. Len(q), q[k] = a PROVE FALSE
  BY HoldsFacts DEF Within
<1>1. m.item[a].prev = IF k = 1 THEN NULL ELSE q[k - 1]
  BY DEF Holds, Linked
<1>2. k # 1 => q[k - 1] \in Addrs
  BY HoldsFacts
<1>3. m.item[a].prev # Junk
  BY <1>1, <1>2, QueueAssumption
<1>4. m.item[a] = Unset
  BY DEF InQueue
<1> QED
  BY <1>3, <1>4 DEF Unset

(* What get_b and get_i do to the items q when they are asked for x: r.       *)
Found(q, x, r) ==
  \E k \in 1 .. Len(q) :
    /\ Num(mem, q[k]) = x
    /\ r = Append(RemoveAt(q, k), q[k])
    /\ \A a \in Addrs : Num(mem', a) = Num(mem, a)

Kept(q) == IF Len(q) = Capacity THEN RemoveAt(q, 1) ELSE q

Read(q, x, r) ==
  /\ \A k \in 1 .. Len(q) : Num(mem, q[k]) # x
  /\ \E a \in Addrs : /\ r = Append(Kept(q), a) /\ Num(mem', a) = x
                      /\ \A b \in ToSet(Kept(q)) : Num(mem', b) = Num(mem, b)
                      /\ mem'.item[a].next = IF Len(Kept(q)) > 0 \/ kind = "blocks"
                                             THEN NULL ELSE Junk

LEMMA FetchHolds ==
  ASSUME NEW q, Holds(mem, q), NEW x \in Keys, Fetch(x),
         \/ Closed(mem, q)
         \/ Len(q) # Capacity /\ (\A k \in 1 .. Len(q) : Num(mem, q[k]) # x)
  PROVE  \E r : /\ Holds(mem', r)
                /\ \/ Found(q, x, r) /\ Closed(mem', r)
                   \/ Read(q, x, r)
<1> USE NullFacts, SizeFacts
<1>1. /\ mem \in MemType /\ q \in Seq(Addrs) /\ Len(q) \in Nat
      /\ \A i, j \in 1 .. Len(q) : q[i] = q[j] => i = j
      /\ ToSet(q) \in SUBSET Addrs /\ mem.size = Len(q) /\ Len(q) <= Capacity /\ x \in Nat
      /\ \A y : y \in ToSet(q) <=> Within(q, y)
      /\ Chained(mem, ToSet(q))
  BY HoldsFacts, QueueAssumption DEF Holds
<1>2. CASE \E k \in 1 .. Len(q) : Num(mem, q[k]) = x
  <2>1. PICK k \in 1 .. Len(q) : Num(mem, q[k]) = x
    BY <1>2
  <2>2. q[k] \in ToSet(q) /\ q[k] \in Addrs /\ Closed(mem, q)
    BY <1>1, <2>1 DEF Within
  <2>3. QueryHt(mem, x) = q[k]
    BY <1>1, <2>1, <2>2, QueryFacts
  <2>4. mem' = Hit(mem, Num(mem, q[k]))
    <3>1. q[k] # NULL
      BY <2>2
    <3> QED
      BY <2>1, <2>3, <3>1 DEF Fetch
  <2> DEFINE r == Append(RemoveAt(q, k), q[k])
  <2>5. Holds(mem', r) /\ Closed(mem', r) /\ \A a \in Addrs : Num(mem', a) = Num(mem, a)
    BY <2>2, <2>4, HitHolds
  <2>6. Found(q, x, r)
    BY <2>1, <2>5 DEF Found
  <2> QED
    BY <2>5, <2>6
<1>3. CASE \A k \in 1 .. Len(q) : Num(mem, q[k]) # x
  <2> DEFINE room == IF mem.size = Capacity THEN Evict(mem) ELSE mem
             s == Kept(q)
  <2>1. \A a \in ToSet(q) : Num(mem, a) # x
    BY <1>1, <1>3 DEF Within
  <2>2. QueryHt(mem, x) = NULL
    BY <1>1, <2>1, QueryFacts
  <2>3. PICK a \in Addrs \ InQueue(room) : mem' = Miss(room, x, a)
    BY <2>2 DEF Fetch
  <2>4. /\ Holds(room, s) /\ Len(s) < Capacity /\ ToSet(s) \subseteq ToSet(q)
        /\ \A b \in ToSet(s) : Num(room, b) = Num(mem, b)
    <3>1. CASE Len(q) = Capacity
      <4>1. room = Evict(mem) /\ s = RemoveAt(q, 1) /\ Len(q) > 0 /\ Closed(mem, q)
            /\ 1 \in 1 .. Len(q)
        BY <1>1, <3>1 DEF Kept
      <4> HIDE DEF room
      <4>2. Holds(room, s) /\ \A b \in ToSet(s) : Num(room, b) = Num(mem, b)
        BY <4>1, EvictHolds
      <4>3. Len(s) = Len(q) - 1 /\ ToSet(s) = ToSet(q) \ {q[1]}
        BY <1>1, <4>1, RemoveAtFacts, ElementsOf
      <4> QED
        BY <1>1, <3>1, <4>2, <4>3
    <3>2. CASE Len(q) # Capacity
      <4>1. room = mem /\ s = q
        BY <1>1, <3>2 DEF Kept
      <4> QED
        BY <1>1, <3>2, <4>1
    <3> QED
      BY <3>1, <3>2
  <2> HIDE DEF room, s
  <2>5. a \in Addrs \ ToSet(s)
    BY <2>3, <2>4, HeldInUse
  <2>6. \A b \in ToSet(s) : Num(room, b) # x
    BY <2>1, <2>4
  <2> DEFINE r == Append(s, a)
  <2>7. /\ Holds(mem', r) /\ Num(mem', a) = x
        /\ \A b \in ToSet(s) : Num(mem', b) = Num(room, b)
        /\ mem'.item[a].next = IF Len(s) > 0 \/ kind = "blocks" THEN NULL ELSE Junk
    BY <2>3, <2>4, <2>5, <2>6, MissHolds
  <2>8. Read(q, x, r)
    BY <1>3, <2>4, <2>5, <2>7 DEF Read, s
  <2> QED
    BY <2>7, <2>8
<1> QED
  BY <1>2, <1>3

-----------------------------------------------------------------------------
(* The invariant *)

(* The first item of cache_i_queue keeps its next_c_item unset until the      *)
(* second arrives, which is the next fetch of make_free_lists; from then on   *)
(* the queue has two items at least.                                          *)
Ended(q) ==
  \/ Closed(mem, q)
  \/ kind = "inodes" /\ scan = 2 /\ Len(q) = 1 /\ mem.item[q[1]].next = Junk
Started(q) ==
  kind = "inodes" =>
    \/ scan \in {1, 2} /\ Len(q) = scan - 1 /\ \A k \in 1 .. Len(q) : Num(mem, q[k]) = k
    \/ scan > 2 /\ Len(q) >= 2

QueueInv ==
  /\ kind \in {"blocks", "inodes"} /\ scan \in 1 .. Scanned + 1
  /\ \E q : Holds(mem, q) /\ Ended(q) /\ Started(q)

LEMMA InitQueueInv == Init => QueueInv
<1> SUFFICES ASSUME Init PROVE QueueInv
  OBVIOUS
<1> USE QueueAssumption
<1> DEFINE q == << >>
           items == [a \in Addrs |-> Unset]
           heads == [h \in Buckets |-> << >>]
<1>1. /\ mem = [item |-> items, q_first |-> NULL, q_last |-> NULL,
                head |-> heads, size |-> 0, bad |-> FALSE]
      /\ kind \in {"blocks", "inodes"} /\ scan = 1
  BY DEF Init
<1>2. items \in [Addrs -> ItemType] /\ \A a \in Addrs : items[a] = Unset
  BY DEF Unset, ItemType, Pointers
<1>3. heads \in [Buckets -> Seq(Element)] /\ \A h \in Buckets : Len(heads[h]) = 0
  OBVIOUS
<1> HIDE DEF items, heads
<1>4. mem \in MemType
  <2>1. FALSE \in BOOLEAN
    BY Zenon
  <2> QED
    BY <1>1, <1>2, <1>3, <2>1 DEF MemType, Places
<1>5. q \in Seq(Addrs) /\ Len(q) = 0 /\ ToSet(q) = {}
  BY DEF ToSet
<1> HIDE DEF q
<1>6. Linked(mem, q)
  BY <1>1, <1>5 DEF Linked
<1>7. Chained(mem, ToSet(q))
  BY <1>1, <1>3, <1>5 DEF Chained
<1>8. Numbered(mem, ToSet(q))
  BY <1>1, <1>2, <1>5 DEF Numbered
<1>9. Holds(mem, q)
  BY <1>1, <1>4, <1>5, <1>6, <1>7, <1>8 DEF Holds
<1>10. Ended(q) /\ Started(q)
  BY <1>1, <1>5 DEF Ended, Started, Closed
<1> QED
  BY <1>1, <1>9, <1>10 DEF QueueInv

LEMMA LengthOfFound ==
  ASSUME NEW q \in Seq(Addrs), NEW x, NEW r, Found(q, x, r)
  PROVE  Len(r) = Len(q)
<1>1. PICK k \in 1 .. Len(q) : r = Append(RemoveAt(q, k), q[k])
  BY DEF Found
<1>2. RemoveAt(q, k) \in Seq(Addrs) /\ Len(RemoveAt(q, k)) = Len(q) - 1 /\ Len(q) \in Nat
  BY RemoveAtFacts
<1> QED
  BY <1>1, <1>2

LEMMA LengthOfRead ==
  ASSUME NEW q \in Seq(Addrs), NEW x, NEW r, Read(q, x, r), Len(q) <= Capacity
  PROVE  /\ Len(r) = IF Len(q) = Capacity THEN Capacity ELSE Len(q) + 1
         /\ (Len(r) > 1 \/ kind = "blocks") => Closed(mem', r)
         /\ Len(r) = 1 => mem'.item[r[1]].next \in {NULL, Junk} /\ Num(mem', r[1]) = x
<1> USE NullFacts, SizeFacts
<1>1. PICK a \in Addrs :
        /\ r = Append(Kept(q), a) /\ Num(mem', a) = x
        /\ mem'.item[a].next = IF Len(Kept(q)) > 0 \/ kind = "blocks" THEN NULL ELSE Junk
  BY DEF Read
<1>2. /\ Kept(q) \in Seq(Addrs)
      /\ Len(Kept(q)) = IF Len(q) = Capacity THEN Capacity - 1 ELSE Len(q)
  <2>1. CASE Len(q) = Capacity
    <3>1. 1 \in 1 .. Len(q)
      BY <2>1
    <3> QED
      BY <2>1, <3>1, RemoveAtFacts DEF Kept
  <2>2. CASE Len(q) # Capacity
    BY <2>2 DEF Kept
  <2> QED
    BY <2>1, <2>2
<1>3. Len(r) = Len(Kept(q)) + 1 /\ r[Len(r)] = a /\ Len(Kept(q)) \in Nat /\ Len(q) \in Nat
  BY <1>1, <1>2
<1>4. ASSUME Len(r) > 1 \/ kind = "blocks" PROVE Closed(mem', r)
  BY <1>1, <1>3, <1>4 DEF Closed
<1> QED
  BY <1>1, <1>2, <1>3, <1>4

LEMMA StepQueueInv == QueueInv /\ [Next]_vars => QueueInv'
<1> SUFFICES ASSUME QueueInv, [Next]_vars PROVE QueueInv'
  OBVIOUS
<1> USE NullFacts, SizeFacts
<1>1. PICK q : Holds(mem, q) /\ Ended(q) /\ Started(q)
  BY DEF QueueInv
<1>2. /\ q \in Seq(Addrs) /\ Len(q) \in Nat /\ Len(q) <= Capacity
      /\ kind \in {"blocks", "inodes"} /\ scan \in 1 .. Scanned + 1
  BY <1>1, HoldsFacts DEF QueueInv, Holds
<1>3. ASSUME NEW x \in Keys, Fetch(x), Closed(mem, q), kind' = kind,
             (kind = "blocks" /\ scan' = scan) \/ (scan > 2 /\ scan' \in {scan, scan + 1}),
             scan' \in 1 .. Scanned + 1
      PROVE  QueueInv'
  <2>1. PICK r : /\ Holds(mem', r)
                 /\ (Found(q, x, r) /\ Closed(mem', r)) \/ Read(q, x, r)
    BY <1>1, <1>3, FetchHolds
  <2>2. Len(r) >= Len(q) /\ Len(r) \in Nat
    <3>1. CASE Found(q, x, r)
      BY <1>2, <3>1, LengthOfFound
    <3>2. CASE Read(q, x, r)
      BY <1>2, <3>2, LengthOfRead
    <3> QED
      BY <2>1, <3>1, <3>2
  <2>3. kind = "inodes" => scan > 2 /\ Len(q) >= 2
    BY <1>1, <1>2, <1>3 DEF Started
  <2>4. Closed(mem', r)
    <3>1. CASE Read(q, x, r)
      BY <1>2, <2>2, <2>3, <3>1, LengthOfRead
    <3> QED
      BY <2>1, <3>1
  <2>5. Started(r)' /\ Ended(r)'
    <3>1. Ended(r)'
      BY <2>4 DEF Ended
    <3>2. kind' = "inodes" => scan' > 2 /\ Len(r) >= 2
      BY <1>2, <1>3, <2>2, <2>3
    <3> QED
      BY <3>1, <3>2 DEF Started
  <2> QED
    BY <1>2, <1>3, <2>1, <2>5 DEF QueueInv
<1>4. CASE Scan
  <2>1. kind = "inodes" /\ kind' = kind /\ scan <= Scanned /\ scan' = scan + 1 /\ Fetch(scan)
        /\ scan \in Keys
    BY <1>2, <1>4, QueueAssumption DEF Scan, Scanning
  <2>2. CASE scan > 2
    <3>1. Closed(mem, q)
      BY <1>1, <2>2 DEF Ended
    <3> QED
      BY <1>2, <1>3, <2>1, <2>2, <3>1
  <2>3. CASE scan \in {1, 2}
    <3>1. Len(q) = scan - 1 /\ \A k \in 1 .. Len(q) : Num(mem, q[k]) = k
      BY <1>1, <2>1, <2>3 DEF Started
    <3>2. Len(q) # Capacity /\ \A k \in 1 .. Len(q) : Num(mem, q[k]) # scan
      BY <1>2, <2>3, <3>1
    <3>3. PICK r : Holds(mem', r) /\ (Found(q, scan, r) \/ Read(q, scan, r))
      BY <1>1, <2>1, <3>2, FetchHolds
    <3>4. Read(q, scan, r)
      BY <3>2, <3>3 DEF Found
    <3>5. /\ Len(r) = scan
          /\ Len(r) > 1 => Closed(mem', r)
          /\ Len(r) = 1 => mem'.item[r[1]].next \in {NULL, Junk} /\ Num(mem', r[1]) = scan
      BY <1>2, <2>1, <2>3, <3>1, <3>2, <3>4, LengthOfRead
    <3>6. CASE scan = 1
      <4>1. Ended(r)'
        BY <2>1, <3>5, <3>6 DEF Ended, Closed
      <4>2. Started(r)'
        BY <2>1, <3>5, <3>6 DEF Started
      <4> QED
        BY <1>2, <2>1, <3>3, <4>1, <4>2 DEF QueueInv
    <3>7. CASE scan = 2
      <4>1. Ended(r)' /\ Started(r)'
        BY <2>1, <3>5, <3>7 DEF Ended, Started
      <4> QED
        BY <1>2, <2>1, <3>3, <4>1 DEF QueueInv
    <3> QED
      BY <2>3, <3>6, <3>7
  <2> QED
    BY <1>2, <2>2, <2>3
<1>5. ASSUME NEW x \in Keys, Get(x) PROVE QueueInv'
  <2>1. ~Scanning /\ Fetch(x) /\ kind' = kind /\ scan' = scan
    BY <1>5 DEF Get
  <2>2. kind = "inodes" => scan > 2
    BY <1>2, <2>1 DEF Scanning
  <2>3. Closed(mem, q)
    BY <1>1, <1>2, <2>2 DEF Ended
  <2> QED
    BY <1>2, <1>3, <2>1, <2>2, <2>3
<1>6. CASE UNCHANGED vars
  BY <1>1, <1>2, <1>6 DEF vars, QueueInv, Ended, Started
<1> QED
  BY <1>4, <1>5, <1>6 DEF Next

LEMMA QueueInvariant == Spec => []QueueInv
<1>1. Init => QueueInv
  BY InitQueueInv
<1>2. QueueInv /\ [Next]_vars => QueueInv'
  BY StepQueueInv
<1> QED
  BY <1>1, <1>2, PTL DEF Spec

(* The pointer that right_enqueue leaves unset in the only item of            *)
(* cache_i_queue (yfs.c:1148) is never tested or followed, and insert_ht's    *)
(* assertion (yfs.c:1015) holds, for every size of the cache.                 *)
THEOREM NeverUnset == Spec => []NothingUnset
<1>1. QueueInv => NothingUnset
  BY DEF QueueInv, Holds, NothingUnset
<1> QED
  BY <1>1, QueueInvariant, PTL

-----------------------------------------------------------------------------
(* What a walk along the list meets *)

(* Induction over the numbers, as the least counterexample.                   *)
LEMMA Least ==
  ASSUME NEW T, T \subseteq Nat, T # {}
  PROVE  \E x \in T : \A y \in T : x <= y
<1> DEFINE R == OpToRel(<, Nat)
<1>1. IsWellFoundedOn(R, Nat)
  BY NatLessThanWellFounded
<1>2. \A x, y \in Nat : y < x => <<y, x>> \in R
  BY DEF OpToRel
<1> HIDE DEF R
<1>3. PICK x \in T : \A y \in T : ~(<<y, x>> \in R)
  BY <1>1, WFMin
<1>4. ASSUME NEW y \in T PROVE x <= y
  <2>1. x \in Nat /\ y \in Nat
    OBVIOUS
  <2>2. ~(y < x)
    BY <2>1, <1>2, <1>3
  <2> QED
    BY <2>1, <2>2
<1> QED
  BY <1>4

(* The function a walk is defined by.                                         *)
Steps(from, pointer, n, at) ==
  at = [k \in 1 .. n |-> IF k = 1 THEN from
                         ELSE IF at[k - 1] \in Addrs THEN pointer[at[k - 1]] ELSE NULL]

LEMMA StepsUnique ==
  ASSUME NEW from, NEW pointer, NEW n \in Nat, NEW f, NEW g,
         Steps(from, pointer, n, f), Steps(from, pointer, n, g)
  PROVE  f = g
<1> DEFINE next(p) == IF p \in Addrs THEN pointer[p] ELSE NULL
           Differ == {k \in 1 .. n : f[k] # g[k]}
<1>1. \A k \in 1 .. n : /\ f[k] = IF k = 1 THEN from ELSE next(f[k - 1])
                        /\ g[k] = IF k = 1 THEN from ELSE next(g[k - 1])
  BY DEF Steps
<1> HIDE DEF next
<1>2. Differ = {}
  <2> SUFFICES ASSUME Differ # {} PROVE FALSE
    OBVIOUS
  <2>1. Differ \subseteq Nat
    OBVIOUS
  <2>2. PICK k \in Differ : \A j \in Differ : k <= j
    <3> HIDE DEF Differ
    <3> QED
      BY <2>1, Least
  <2>3. k \in 1 .. n /\ f[k] # g[k] /\ k # 1
    BY <1>1
  <2>4. k - 1 \in 1 .. n /\ ~(k <= k - 1)
    BY <2>3
  <2>5. f[k - 1] = g[k - 1]
    BY <2>2, <2>4
  <2> QED
    BY <1>1, <2>3, <2>5
<1>3. \A k \in 1 .. n : f[k] = g[k]
  BY <1>2
<1>4. f = [k \in 1 .. n |-> f[k]] /\ g = [k \in 1 .. n |-> g[k]]
  BY DEF Steps
<1> QED
  BY <1>3, <1>4

LEMMA WalkIs ==
  ASSUME NEW from, NEW pointer, NEW n \in Nat, NEW w, Steps(from, pointer, n, w),
         NEW l, {k \in 1 .. n : w[k] \in Addrs} = 1 .. l
  PROVE  Walk(from, pointer, n) = [k \in 1 .. l |-> w[k]]
<1>1. (CHOOSE f : Steps(from, pointer, n, f)) = w
  BY StepsUnique
<1>2. Walk(from, pointer, n) = [k \in {k \in 1 .. n : w[k] \in Addrs} |-> w[k]]
  BY <1>1 DEF Walk, Steps
<1> QED
  BY <1>2

(* A walk along pointers from an item of q to the next ends with the last.    *)
LEMMA WalkFacts ==
  ASSUME NEW q \in Seq(Addrs), NEW pointer, NEW n \in Nat, Len(q) < n,
         NEW from, from = IF Len(q) = 0 THEN NULL ELSE q[1],
         \A k \in 1 .. Len(q) - 1 : pointer[q[k]] = q[k + 1],
         Len(q) > 0 => pointer[q[Len(q)]] \notin Addrs
  PROVE  Walk(from, pointer, n) = q
<1> USE NullFacts
<1> DEFINE l == Len(q)
           past == IF l = 0 THEN NULL ELSE pointer[q[l]]
           w == [k \in 1 .. n |-> IF k <= l THEN q[k] ELSE IF k = l + 1 THEN past ELSE NULL]
<1>1. l \in Nat /\ past \notin Addrs /\ \A k \in 1 .. l : q[k] \in Addrs
  OBVIOUS
<1>2. \A k \in 1 .. n : w[k] = IF k <= l THEN q[k] ELSE IF k = l + 1 THEN past ELSE NULL
  OBVIOUS
<1>3. w = [k \in 1 .. n |-> w[k]]
  OBVIOUS
<1> HIDE DEF w
<1>4. ASSUME NEW k \in 1 .. n
      PROVE  w[k] = IF k = 1 THEN from
                    ELSE IF w[k - 1] \in Addrs THEN pointer[w[k - 1]] ELSE NULL
  <2>1. CASE k = 1
    BY <1>1, <1>2, <2>1
  <2>2. CASE k # 1
    <3>1. k - 1 \in 1 .. n /\ (k - 1) + 1 = k
      BY <2>2
    <3>2. CASE k <= l
      <4>1. k - 1 \in 1 .. l - 1 /\ k - 1 \in 1 .. l /\ w[k - 1] = q[k - 1] /\ w[k] = q[k]
        BY <1>1, <1>2, <2>2, <3>1, <3>2
      <4>2. pointer[q[k - 1]] = q[k]
        BY <3>1, <4>1
      <4> QED
        BY <1>1, <2>2, <4>1, <4>2
    <3>3. CASE k = l + 1
      <4>1. k - 1 = l /\ l \in 1 .. l /\ w[k - 1] = q[l] /\ w[k] = past /\ l # 0
        BY <1>1, <1>2, <2>2, <3>1, <3>3
      <4> QED
        BY <1>1, <2>2, <4>1
    <3>4. CASE k > l + 1
      <4>1. ~(k <= l) /\ k # l + 1 /\ ~(k - 1 <= l)
        BY <1>1, <3>4
      <4>2. w[k] = NULL /\ w[k - 1] \in {past, NULL}
        BY <1>2, <3>1, <4>1
      <4> QED
        BY <1>1, <2>2, <4>2
    <3> QED
      BY <1>1, <3>2, <3>3, <3>4
  <2> QED
    BY <2>1, <2>2
<1>5. Steps(from, pointer, n, w)
  BY <1>3, <1>4 DEF Steps
<1>7. {k \in 1 .. n : w[k] \in Addrs} = 1 .. l
  BY <1>1, <1>2
<1>8. Walk(from, pointer, n) = [k \in 1 .. l |-> w[k]]
  BY <1>5, <1>7, WalkIs
<1>9. \A k \in 1 .. l : w[k] = q[k]
  BY <1>1, <1>2
<1>10. q = [k \in 1 .. l |-> q[k]]
  OBVIOUS
<1> QED
  BY <1>7, <1>8, <1>9, <1>10

LEMMA ReverseFacts ==
  ASSUME NEW S, NEW s \in Seq(S)
  PROVE  /\ Reverse(s) \in Seq(S) /\ Len(Reverse(s)) = Len(s)
         /\ \A k \in 1 .. Len(s) : Reverse(s)[k] = s[Len(s) + 1 - k]
         /\ Reverse(Reverse(s)) = s
<1> DEFINE r == Reverse(s)
<1>1. r = [k \in 1 .. Len(s) |-> s[(Len(s) - k) + 1]] /\ Len(s) \in Nat
  BY DEF Reverse
<1>2. \A k \in 1 .. Len(s) : (Len(s) - k) + 1 \in 1 .. Len(s) /\ (Len(s) - k) + 1 = Len(s) + 1 - k
  BY <1>1
<1> HIDE DEF r
<1>3. r \in Seq(S) /\ Len(r) = Len(s) /\ \A k \in 1 .. Len(s) : r[k] = s[Len(s) + 1 - k]
  BY <1>1, <1>2
<1>4. \A k \in 1 .. Len(s) : r[(Len(s) - k) + 1] = s[k]
  <2> SUFFICES ASSUME NEW k \in 1 .. Len(s) PROVE r[(Len(s) - k) + 1] = s[k]
    OBVIOUS
  <2>1. Len(s) + 1 - ((Len(s) - k) + 1) = k
    BY <1>1
  <2> QED
    BY <1>2, <1>3, <2>1
<1>5. Reverse(r) = [k \in 1 .. Len(s) |-> s[k]]
  BY <1>3, <1>4 DEF Reverse
<1> QED
  BY <1>3, <1>5 DEF r

Backwards(m) == Walk(m.q_last, [a \in Addrs |-> m.item[a].prev], Capacity + 1)

(* From q_last along prev_c_item one meets the items backwards.               *)
LEMMA BackwardsFacts ==
  ASSUME NEW m, NEW q, Holds(m, q)
  PROVE  Backwards(m) = Reverse(q)
<1> USE NullFacts, SizeFacts
<1> DEFINE r == Reverse(q)
           pointer == [a \in Addrs |-> m.item[a].prev]
           l == Len(q)
<1>1. /\ q \in Seq(Addrs) /\ l \in Nat /\ l < Capacity + 1
      /\ m.q_last = IF l = 0 THEN NULL ELSE q[l]
      /\ \A k \in 1 .. l : m.item[q[k]].prev = IF k = 1 THEN NULL ELSE q[k - 1]
  BY HoldsFacts DEF Holds, Linked
<1>2. r \in Seq(Addrs) /\ Len(r) = l /\ \A k \in 1 .. l : r[k] = q[l + 1 - k]
  BY <1>1, ReverseFacts
<1>3. \A k \in 1 .. l : q[k] \in Addrs /\ pointer[q[k]] = m.item[q[k]].prev
  BY <1>1
<1> HIDE DEF r, pointer
<1>4. ASSUME NEW k \in 1 .. Len(r) - 1 PROVE pointer[r[k]] = r[k + 1]
  <2>1. k \in 1 .. l /\ k + 1 \in 1 .. l /\ l + 1 - k \in 1 .. l /\ l + 1 - k # 1
        /\ l + 1 - (k + 1) = (l + 1 - k) - 1
    BY <1>1, <1>2
  <2>2. r[k] = q[l + 1 - k] /\ r[k + 1] = q[(l + 1 - k) - 1]
    BY <1>2, <2>1
  <2>3. pointer[q[l + 1 - k]] = q[(l + 1 - k) - 1]
    BY <1>1, <1>3, <2>1
  <2> QED
    BY <2>2, <2>3
<1>5. ASSUME Len(r) > 0 PROVE pointer[r[Len(r)]] \notin Addrs
  <2>1. l \in 1 .. l /\ 1 \in 1 .. l /\ l + 1 - l = 1
    BY <1>1, <1>2, <1>5
  <2>2. r[Len(r)] = q[1]
    BY <1>2, <2>1
  <2>3. pointer[q[1]] = NULL
    BY <1>1, <1>3, <2>1
  <2> QED
    BY <2>2, <2>3
<1>6. m.q_last = IF Len(r) = 0 THEN NULL ELSE r[1]
  <2>1. CASE l = 0
    BY <1>1, <1>2, <2>1
  <2>2. CASE l # 0
    <3>1. 1 \in 1 .. l /\ l + 1 - 1 = l
      BY <1>1, <2>2
    <3> QED
      BY <1>1, <1>2, <2>2, <3>1
  <2> QED
    BY <2>1, <2>2
<1>7. Walk(m.q_last, pointer, Capacity + 1) = r
  <2>1. Capacity + 1 \in Nat /\ Len(r) < Capacity + 1 /\ r \in Seq(Addrs)
    BY <1>1, <1>2
  <2> QED
    BY <1>4, <1>5, <1>6, <2>1, WalkFacts, ZenonT(40)
<1> QED
  BY <1>7 DEF Backwards, pointer, r

LEMMA BackFacts ==
  ASSUME NEW q, Holds(mem, q)
  PROVE  Back = Reverse(q)
<1> QED
  BY BackwardsFacts DEF Backwards, Back

(* From q_first along next_c_item one meets them in order.                    *)
LEMMA ForthFacts ==
  ASSUME NEW q, Holds(mem, q), Ended(q)
  PROVE  Forth = q
<1> USE NullFacts, SizeFacts
<1> DEFINE pointer == [a \in Addrs |-> mem.item[a].next]
           l == Len(q)
<1>1. /\ q \in Seq(Addrs) /\ l \in Nat /\ l < Capacity + 1
      /\ mem.q_first = IF l = 0 THEN NULL ELSE q[1]
      /\ \A k \in 1 .. l - 1 : mem.item[q[k]].next = q[k + 1]
  BY HoldsFacts DEF Holds, Linked
<1>2. \A k \in 1 .. l : q[k] \in Addrs /\ pointer[q[k]] = mem.item[q[k]].next
  BY <1>1
<1> HIDE DEF pointer
<1>3. ASSUME NEW k \in 1 .. l - 1 PROVE pointer[q[k]] = q[k + 1]
  <2>1. k \in 1 .. l
    BY <1>1
  <2> QED
    BY <1>1, <1>2, <2>1
<1>4. ASSUME l > 0 PROVE pointer[q[l]] \notin Addrs
  <2>1. l \in 1 .. l
    BY <1>1, <1>4
  <2>2. mem.item[q[l]].next \in {NULL, Junk}
    BY <1>1, <1>4 DEF Ended, Closed
  <2> QED
    BY <1>2, <2>1, <2>2
<1>5. Walk(mem.q_first, pointer, Capacity + 1) = q
  BY <1>1, <1>3, <1>4, WalkFacts
<1> QED
  BY <1>5 DEF Forth, pointer

(* handle_sync (yfs.c:962) meets every item of a queue once and stops at      *)
(* NULL, once cache_i_queue has had a second item.                            *)
THEOREM SyncWalk == Spec => []SyncMeetsAll
<1>1. ASSUME QueueInv PROVE SyncMeetsAll
  <2> SUFFICES ASSUME kind = "blocks" \/ scan > 2
               PROVE  /\ Forth = Reverse(Back)
                      /\ Forth # << >> => mem.item[Last(Forth)].next = NULL
    BY DEF SyncMeetsAll
  <2>1. PICK q : Holds(mem, q) /\ Ended(q)
    BY <1>1 DEF QueueInv
  <2>2. q \in Seq(Addrs)
    BY <2>1, HoldsFacts
  <2>3. Forth = q /\ Back = Reverse(q) /\ Reverse(Reverse(q)) = q
    BY <2>1, <2>2, ForthFacts, BackFacts, ReverseFacts
  <2>4. Closed(mem, q)
    BY <2>1 DEF Ended
  <2>5. q # << >> => Len(q) > 0 /\ Last(q) = q[Len(q)]
    BY <2>2 DEF Last
  <2> QED
    BY <2>3, <2>4, <2>5 DEF Closed
<1> QED
  BY <1>1, QueueInvariant, PTL

LEMMA SizeOfSet ==
  ASSUME NEW S, NEW s \in Seq(S), \A i, j \in 1 .. Len(s) : s[i] = s[j] => i = j
  PROVE  Cardinality(ToSet(s)) = Len(s)
<1>1. Len(s) \in Nat /\ DOMAIN s = 1 .. Len(s) /\ \A k \in 1 .. Len(s) : s[k] \in ToSet(s)
  BY DEF ToSet
<1>2. \A x \in ToSet(s) : \E k \in 1 .. Len(s) : s[k] = x
  BY DEF ToSet
<1>3. s \in [1 .. Len(s) -> ToSet(s)]
  BY <1>1
<1>4. s \in Bijection(1 .. Len(s), ToSet(s))
  BY <1>1, <1>2, <1>3 DEF Bijection, Injection, Surjection, IsInjective
<1> QED
  BY <1>1, <1>4, FS_CountingElements DEF ExistsBijection

(* query_ht (yfs.c:1071) finds every item of the queue by its number; the     *)
(* chains lead to them and nowhere else, so never to an item that was freed;  *)
(* and the counter that makes a cache evict is the length of its queue.       *)
THEOREM TableAndQueue == Spec => []TableFindsQueue
<1>1. ASSUME QueueInv PROVE TableFindsQueue
  <2>1. PICK q : Holds(mem, q)
    BY <1>1 DEF QueueInv
  <2>2. /\ mem \in MemType /\ q \in Seq(Addrs) /\ Chained(mem, ToSet(q))
        /\ \A j, k \in 1 .. Len(q) : q[j] = q[k] => j = k
        /\ ToSet(q) \in SUBSET Addrs /\ \A a \in ToSet(q) : Num(mem, a) \in Nat
        /\ Numbered(mem, ToSet(q)) /\ mem.size = Len(q)
    BY <2>1, HoldsFacts DEF Holds
  <2>3. ToSet(Back) = ToSet(q)
    <3>1. Back = Reverse(q) /\ Len(q) \in Nat
      BY <2>1, <2>2, BackFacts
    <3>2. /\ Reverse(q) \in Seq(Addrs) /\ Len(Reverse(q)) = Len(q)
          /\ \A k \in 1 .. Len(q) : Reverse(q)[k] = q[Len(q) + 1 - k]
      BY <2>2, ReverseFacts
    <3>3. ASSUME NEW k \in 1 .. Len(q)
          PROVE  \E j \in 1 .. Len(q) : Reverse(q)[j] = q[k]
      <4>1. Len(q) + 1 - k \in 1 .. Len(q) /\ Len(q) + 1 - (Len(q) + 1 - k) = k
        BY <3>1
      <4> QED
        BY <3>2, <4>1
    <3>4. ASSUME NEW k \in 1 .. Len(q)
          PROVE  \E j \in 1 .. Len(q) : Reverse(q)[k] = q[j]
      <4>1. Len(q) + 1 - k \in 1 .. Len(q)
        BY <3>1
      <4> QED
        BY <3>2, <4>1
    <3>5. /\ \A x : x \in ToSet(q) <=> \E k \in 1 .. Len(q) : x = q[k]
          /\ \A x : x \in ToSet(Reverse(q)) <=> \E k \in 1 .. Len(q) : x = Reverse(q)[k]
      <4>1. \A x : x \in ToSet(q) <=> \E k \in 1 .. Len(q) : x = q[k]
        BY <2>2 DEF ToSet
      <4>2. \A x : x \in ToSet(Reverse(q)) <=> \E k \in 1 .. Len(q) : x = Reverse(q)[k]
        <5>1. DOMAIN Reverse(q) = 1 .. Len(q)
          BY <3>2
        <5> QED
          BY <5>1 DEF ToSet
      <4> QED
        BY <4>1, <4>2
    <3>6. ASSUME NEW x PROVE x \in ToSet(Reverse(q)) <=> x \in ToSet(q)
      <4>1. ASSUME NEW k \in 1 .. Len(q), x = q[k] PROVE x \in ToSet(Reverse(q))
        BY <3>3, <3>5, <4>1
      <4>2. ASSUME NEW k \in 1 .. Len(q), x = Reverse(q)[k] PROVE x \in ToSet(q)
        BY <3>4, <3>5, <4>2
      <4> QED
        BY <3>5, <4>1, <4>2
    <3> QED
      BY <3>1, <3>6
  <2> DEFINE A == ToSet(q)
             chained == UNION {ToSet(mem.head[h]) : h \in Buckets}
  <2>4. Cardinality(A) = mem.size
    BY <2>2, SizeOfSet
  <2>5. \A a \in A : QueryHt(mem, Num(mem, a)) = a
    <3> SUFFICES ASSUME NEW a \in A PROVE QueryHt(mem, Num(mem, a)) = a
      OBVIOUS
    <3> QED
      BY <2>2, QueryFacts
  <2>6. /\ \A a \in A : Num(mem, a) \in Nat /\ Bucket(Num(mem, a)) \in Buckets
        /\ \A h \in Buckets : DOMAIN mem.head[h] = 1 .. Len(mem.head[h])
    BY <2>2, MemFacts
  <2>7. \A e : e \in chained <=>
          \E h \in Buckets : \E j \in 1 .. Len(mem.head[h]) : e = mem.head[h][j]
    BY <2>6 DEF ToSet
  <2> HIDE DEF chained, A
  <2>8. ASSUME NEW e \in chained PROVE \E a \in A : e = Entry(mem, a)
    <3>1. PICK g \in Buckets : \E j \in 1 .. Len(mem.head[g]) : e = mem.head[g][j]
      BY <2>7
    <3>2. \A j \in 1 .. Len(mem.head[g]) : \E a \in A : mem.head[g][j] = Entry(mem, a)
      BY <2>2 DEF Chained, A
    <3> QED
      BY <3>1, <3>2
  <2>9. ASSUME NEW a \in A PROVE Entry(mem, a) \in chained
    <3>1. PICK j \in 1 .. Len(mem.head[Bucket(Num(mem, a))]) :
            mem.head[Bucket(Num(mem, a))][j] = Entry(mem, a)
      BY <2>2 DEF Chained, A
    <3> QED
      BY <2>6, <2>7, <3>1
  <2>10. chained = {Entry(mem, a) : a \in A}
    BY <2>8, <2>9
  <2> QED
    BY <2>3, <2>4, <2>5, <2>10 DEF TableFindsQueue, Entry, Num, A, chained
<1> QED
  BY <1>1, QueueInvariant, PTL

-----------------------------------------------------------------------------
(* The list of the most recent numbers *)

Nums(m, q) == [k \in 1 .. Len(q) |-> Num(m, q[k])]

LEMMA NumsFacts ==
  ASSUME NEW m \in MemType, NEW q \in Seq(Addrs)
  PROVE  /\ Nums(m, q) \in Seq(Nat) /\ Len(Nums(m, q)) = Len(q)
         /\ \A k \in 1 .. Len(q) : Nums(m, q)[k] = Num(m, q[k])
<1>1. Len(q) \in Nat /\ \A k \in 1 .. Len(q) : q[k] \in Addrs
  OBVIOUS
<1>2. \A k \in 1 .. Len(q) : Num(m, q[k]) \in Nat
  BY <1>1, MemFacts
<1> QED
  BY <1>1, <1>2 DEF Nums

(* Two sequences of one length with the same elements are the same.           *)
LEMMA SameSequence ==
  ASSUME NEW S, NEW s \in Seq(S), NEW t \in Seq(S), Len(s) = Len(t),
         \A k \in 1 .. Len(s) : s[k] = t[k]
  PROVE  s = t
<1>1. s = [k \in 1 .. Len(s) |-> s[k]] /\ t = [k \in 1 .. Len(s) |-> t[k]]
  OBVIOUS
<1> QED
  BY <1>1

LEMMA NumsOfRest ==
  ASSUME NEW m \in MemType, NEW q \in Seq(Addrs), NEW k \in 1 .. Len(q)
  PROVE  Nums(m, RemoveAt(q, k)) = RemoveAt(Nums(m, q), k)
<1> DEFINE s == Nums(m, q)
           r == RemoveAt(q, k)
           t == RemoveAt(s, k)
           u == Nums(m, r)
<1>1. s \in Seq(Nat) /\ Len(s) = Len(q) /\ \A j \in 1 .. Len(q) : s[j] = Num(m, q[j])
  BY NumsFacts
<1>2. /\ r \in Seq(Addrs) /\ Len(r) = Len(q) - 1 /\ Len(q) \in Nat
      /\ \A j \in 1 .. Len(q) - 1 : r[j] = IF j < k THEN q[j] ELSE q[j + 1]
  BY RemoveAtFacts
<1> HIDE DEF s, r
<1>3. /\ t \in Seq(Nat) /\ Len(t) = Len(q) - 1
      /\ \A j \in 1 .. Len(q) - 1 : t[j] = IF j < k THEN s[j] ELSE s[j + 1]
  BY <1>1, RemoveAtFacts
<1>4. /\ u \in Seq(Nat) /\ Len(u) = Len(q) - 1
      /\ \A j \in 1 .. Len(q) - 1 : u[j] = Num(m, r[j])
  BY <1>2, NumsFacts
<1> HIDE DEF t, u
<1>5. ASSUME NEW j \in 1 .. Len(q) - 1 PROVE u[j] = t[j]
  <2>1. j \in 1 .. Len(q) /\ j + 1 \in 1 .. Len(q)
    BY <1>2
  <2> QED
    BY <1>1, <1>2, <1>3, <1>4, <2>1
<1>6. u = t
  BY <1>3, <1>4, <1>5, SameSequence
<1> QED
  BY <1>6 DEF t, u, s, r

LEMMA NumsOfMore ==
  ASSUME NEW m \in MemType, NEW q \in Seq(Addrs), NEW a \in Addrs
  PROVE  Nums(m, Append(q, a)) = Append(Nums(m, q), Num(m, a))
<1> DEFINE s == Nums(m, q)
           r == Append(q, a)
           t == Append(s, Num(m, a))
           u == Nums(m, r)
<1>1. /\ s \in Seq(Nat) /\ Len(s) = Len(q) /\ Num(m, a) \in Nat
      /\ \A j \in 1 .. Len(q) : s[j] = Num(m, q[j])
  BY NumsFacts, MemFacts
<1>2. /\ r \in Seq(Addrs) /\ Len(r) = Len(q) + 1 /\ Len(q) \in Nat
      /\ \A j \in 1 .. Len(q) + 1 : r[j] = IF j = Len(q) + 1 THEN a ELSE q[j]
  OBVIOUS
<1> HIDE DEF s, r
<1>3. /\ t \in Seq(Nat) /\ Len(t) = Len(q) + 1
      /\ \A j \in 1 .. Len(q) + 1 : t[j] = IF j = Len(q) + 1 THEN Num(m, a) ELSE s[j]
  BY <1>1, <1>2
<1>4. /\ u \in Seq(Nat) /\ Len(u) = Len(q) + 1
      /\ \A j \in 1 .. Len(q) + 1 : u[j] = Num(m, r[j])
  BY <1>2, NumsFacts
<1> HIDE DEF t, u
<1>5. ASSUME NEW j \in 1 .. Len(q) + 1 PROVE u[j] = t[j]
  <2>1. CASE j = Len(q) + 1
    BY <1>2, <1>3, <1>4, <2>1
  <2>2. CASE j # Len(q) + 1
    <3>1. j \in 1 .. Len(q)
      BY <1>2, <2>2
    <3> QED
      BY <1>1, <1>2, <1>3, <1>4, <2>2, <3>1
  <2> QED
    BY <2>1, <2>2
<1>6. u = t
  BY <1>3, <1>4, <1>5, SameSequence
<1> QED
  BY <1>6 DEF t, u, s, r

LEMMA NumsKept ==
  ASSUME NEW m, NEW n, NEW q \in Seq(Addrs),
         \A a \in ToSet(q) : Num(n, a) = Num(m, a)
  PROVE  Nums(n, q) = Nums(m, q)
<1>1. \A k \in 1 .. Len(q) : q[k] \in ToSet(q)
  BY DEF ToSet
<1> QED
  BY <1>1 DEF Nums

RecentOf(m) ==
  LET back == Backwards(m)
  IN  [k \in DOMAIN back |-> m.item[back[Len(back) + 1 - k]].c_item_num]

LEMMA RecentFacts ==
  ASSUME NEW m, NEW q, Holds(m, q)
  PROVE  RecentOf(m) = Nums(m, q)
<1> DEFINE r == Reverse(q)
<1>1. q \in Seq(Addrs) /\ Len(q) \in Nat
  BY HoldsFacts
<1>2. /\ r \in Seq(Addrs) /\ Len(r) = Len(q) /\ Reverse(r) = q
      /\ \A k \in 1 .. Len(q) : r[k] = q[Len(q) + 1 - k]
  BY <1>1, ReverseFacts
<1>3. Backwards(m) = r
  BY BackwardsFacts
<1> HIDE DEF r
<1>4. ASSUME NEW k \in 1 .. Len(q) PROVE r[Len(r) + 1 - k] = q[k]
  <2>1. Len(q) + 1 - k \in 1 .. Len(q) /\ Len(q) + 1 - (Len(q) + 1 - k) = k
    BY <1>1
  <2> QED
    BY <1>2, <2>1
<1>5. DOMAIN r = 1 .. Len(q)
  BY <1>2
<1>6. RecentOf(m) = [k \in 1 .. Len(q) |-> m.item[r[Len(r) + 1 - k]].c_item_num]
  BY <1>3, <1>5 DEF RecentOf
<1> QED
  BY <1>4, <1>6 DEF Nums, Num

LEMMA FetchStep ==
  ASSUME QueueInv, Next
  PROVE  \E x \in Keys : \E q, r :
           Holds(mem, q) /\ Holds(mem', r) /\ (Found(q, x, r) \/ Read(q, x, r))
<1> USE NullFacts, SizeFacts
<1>1. PICK q : Holds(mem, q) /\ Ended(q) /\ Started(q)
  BY DEF QueueInv
<1>2. /\ Len(q) \in Nat /\ kind \in {"blocks", "inodes"} /\ scan \in 1 .. Scanned + 1
  BY <1>1, HoldsFacts DEF QueueInv
<1>3. PICK x \in Keys : /\ Fetch(x)
                        /\ (Scan /\ x = scan) \/ ~Scanning
  <2>1. CASE Scan
    <3>1. scan \in Keys /\ Fetch(scan)
      BY <1>2, <2>1, QueueAssumption DEF Scan, Scanning
    <3> QED
      BY <2>1, <3>1
  <2>2. CASE \E x \in Keys : Get(x)
    BY <2>2 DEF Get
  <2> QED
    BY <2>1, <2>2 DEF Next
<1>4. \/ Closed(mem, q)
      \/ Len(q) # Capacity /\ (\A k \in 1 .. Len(q) : Num(mem, q[k]) # x)
  <2>1. CASE ~Scanning
    <3>1. kind = "inodes" => scan > 2
      BY <1>2, <2>1 DEF Scanning
    <3> QED
      BY <1>1, <1>2, <3>1 DEF Ended
  <2>2. CASE Scan /\ x = scan
    <3>1. kind = "inodes"
      BY <2>2 DEF Scan, Scanning
    <3>2. CASE scan > 2
      BY <1>1, <3>2 DEF Ended
    <3>3. CASE ~(scan > 2)
      <4>1. Len(q) = scan - 1 /\ \A k \in 1 .. Len(q) : Num(mem, q[k]) = k
        BY <1>1, <3>1, <3>3 DEF Started
      <4> QED
        BY <1>2, <2>2, <3>3, <4>1
    <3> QED
      BY <3>2, <3>3
  <2> QED
    BY <1>3, <2>1, <2>2
<1>5. PICK r : Holds(mem', r) /\ (Found(q, x, r) \/ Read(q, x, r))
  BY <1>1, <1>3, <1>4, FetchHolds
<1> QED
  BY <1>1, <1>5

(* A cache of yfs.c is a list of the numbers asked for last, in the order of  *)
(* their last use, of which the first goes when the cache is full.            *)
THEOREM RecentList == Spec => ImplementsLru
<1> USE SizeFacts
<1>1. Init => Lru!Init
  <2> SUFFICES ASSUME Init PROVE Recent = << >>
    BY DEF Lru!Init
  <2>1. PICK q : Holds(mem, q) /\ Started(q) /\ mem.size = 0
    BY InitQueueInv DEF QueueInv, Init
  <2>2. q \in Seq(Addrs) /\ Len(q) = 0
    BY <2>1, HoldsFacts DEF Holds
  <2>3. Recent = Nums(mem, q)
    BY <2>1, RecentFacts DEF Recent, RecentOf, Back, Backwards
  <2> QED
    BY <2>2, <2>3 DEF Nums
<1>2. ASSUME QueueInv, [Next]_vars PROVE [Lru!Next]_Recent
  <2>1. CASE Next
    <3>1. PICK x \in Keys : \E q, r :
            Holds(mem, q) /\ Holds(mem', r) /\ (Found(q, x, r) \/ Read(q, x, r))
      BY <1>2, <2>1, FetchStep
    <3>2. PICK q, r : Holds(mem, q) /\ Holds(mem', r) /\ (Found(q, x, r) \/ Read(q, x, r))
      BY <3>1, SMTT(30)
    <3>3. Recent = Nums(mem, q) /\ Recent' = Nums(mem', r)
      BY <3>2, RecentFacts DEF Recent, RecentOf, Back, Backwards
    <3>4. /\ mem \in MemType /\ mem' \in MemType /\ q \in Seq(Addrs) /\ Len(q) \in Nat
          /\ ToSet(q) \in SUBSET Addrs /\ \A j \in 1 .. Len(q) : q[j] \in Addrs
          /\ \A i, j \in 1 .. Len(q) : q[i] = q[j] => i = j
      BY <3>2, HoldsFacts
    <3> DEFINE s == Nums(mem, q)
    <3>5. /\ s \in Seq(Nat) /\ Len(s) = Len(q) /\ DOMAIN s = 1 .. Len(q)
          /\ \A k \in 1 .. Len(q) : s[k] = Num(mem, q[k])
      BY <3>4, NumsFacts
    <3>6. ASSUME Found(q, x, r) PROVE Lru!Hit(x)
      <4>1. PICK k \in 1 .. Len(q) :
              /\ Num(mem, q[k]) = x
              /\ r = Append(RemoveAt(q, k), q[k])
              /\ \A a \in Addrs : Num(mem', a) = Num(mem, a)
        BY <3>6 DEF Found
      <4>2. RemoveAt(q, k) \in Seq(Addrs) /\ r \in Seq(Addrs)
        BY <3>4, <4>1, RemoveAtFacts
      <4>3. Nums(mem', r) = Nums(mem, r)
        <5>1. ToSet(r) \subseteq Addrs
          BY <4>2 DEF ToSet
        <5> QED
          BY <4>1, <4>2, <5>1, NumsKept
      <4>4. Nums(mem, r) = Append(RemoveAt(s, k), x)
        BY <3>4, <4>1, <4>2, NumsOfMore, NumsOfRest
      <4> QED
        BY <3>3, <3>5, <4>1, <4>3, <4>4 DEF Lru!Hit, Lru!RemoveAt, RemoveAt
    <3>7. ASSUME Read(q, x, r) PROVE Lru!Miss(x)
      <4>1. PICK a \in Addrs : /\ r = Append(Kept(q), a) /\ Num(mem', a) = x
                               /\ \A b \in ToSet(Kept(q)) : Num(mem', b) = Num(mem, b)
        BY <3>7 DEF Read
      <4>2. x \notin ToSet(s)
        BY <3>5, <3>7 DEF Read, ToSet
      <4>3. /\ Kept(q) \in Seq(Addrs)
            /\ Nums(mem, Kept(q)) = IF Len(s) = Capacity THEN Tail(s) ELSE s
        <5>1. CASE Len(q) = Capacity
          <6>1. 1 \in 1 .. Len(q) /\ s # << >>
            BY <3>4, <3>5, <5>1
          <6>2. RemoveAt(q, 1) \in Seq(Addrs) /\ Nums(mem, RemoveAt(q, 1)) = RemoveAt(s, 1)
            BY <3>4, <6>1, RemoveAtFacts, NumsOfRest
          <6>3. RemoveAt(s, 1) = Tail(s)
            <7> HIDE DEF s
            <7>0. s \in Seq(Nat) /\ 1 \in 1 .. Len(s)
              BY <3>5, <6>1
            <7>1. /\ RemoveAt(s, 1) \in Seq(Nat) /\ Len(RemoveAt(s, 1)) = Len(s) - 1
                  /\ \A j \in 1 .. Len(s) - 1 : RemoveAt(s, 1)[j] = IF j < 1 THEN s[j] ELSE s[j + 1]
              BY <7>0, RemoveAtFacts
            <7>2. /\ Tail(s) \in Seq(Nat) /\ Len(Tail(s)) = Len(s) - 1
                  /\ \A j \in 1 .. Len(s) - 1 : Tail(s)[j] = s[j + 1]
              BY <3>5, <6>1
            <7>3. \A j \in 1 .. Len(RemoveAt(s, 1)) : RemoveAt(s, 1)[j] = Tail(s)[j]
              BY <7>1, <7>2
            <7>4. Len(RemoveAt(s, 1)) = Len(Tail(s))
              BY <7>1, <7>2
            <7>5. RemoveAt(s, 1) \in Seq(Nat) /\ Tail(s) \in Seq(Nat)
              BY <7>1, <7>2
            <7> QED
              BY <7>3, <7>4, <7>5, SameSequence
          <6> QED
            BY <3>5, <5>1, <6>2, <6>3 DEF Kept
        <5>2. CASE Len(q) # Capacity
          BY <3>4, <3>5, <5>2, Zenon DEF Kept
        <5> QED
          BY <5>1, <5>2
      <4>4. Nums(mem', r) = Append(Nums(mem, Kept(q)), x)
        BY <3>4, <4>1, <4>3, NumsOfMore, NumsKept
      <4> QED
        BY <3>3, <4>2, <4>3, <4>4 DEF Lru!Miss, Lru!ToSet, ToSet
    <3> QED
      BY <3>2, <3>6, <3>7 DEF Lru!Next, Lru!Get
  <2>2. CASE UNCHANGED vars
    BY <2>2 DEF vars, Recent, Back
  <2> QED
    BY <1>2, <2>1, <2>2
<1> QED
  BY <1>1, <1>2, QueueInvariant, PTL DEF Spec, ImplementsLru, Lru!Spec
=============================================================================
