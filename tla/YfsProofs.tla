------------------------------ MODULE YfsProofs ------------------------------
(* Whatever the processes ask for, with or without the promises, the server   *)
(* keeps the types of its data, and handle_seek's sums of 32 bits do.         *)
EXTENDS Yfs, SequenceTheorems, FiniteSetTheorems, WellFoundedInduction, TLAPS

-----------------------------------------------------------------------------
(* Numbers and folds *)

(* Induction over the numbers, as the least counterexample.                   *)
LEMMA Least ==
  ASSUME NEW T, T \subseteq Nat, T # {}
  PROVE  \E x \in T : \A y \in T : x <= y
<1> DEFINE R == OpToRel(<, Nat)
<1>1. IsWellFoundedOn(R, Nat)
  BY NatLessThanWellFounded
<1>2. \A x, y \in Nat : y < x => <<y, x>> \in R
  BY DEF OpToRel
<1> HIDE DEF R
<1>3. PICK x \in T : \A y \in T : ~(<<y, x>> \in R)
  BY <1>1, WFMin
<1>4. ASSUME NEW y \in T PROVE x <= y
  <2>1. x \in Nat /\ y \in Nat
    OBVIOUS
  <2>2. ~(y < x)
    BY <2>1, <1>2, <1>3
  <2> QED
    BY <2>1, <2>2
<1> QED
  BY <1>4

LEMMA MinFacts ==
  ASSUME NEW T, T \subseteq Nat, T # {}
  PROVE  Min(T) \in T /\ \A y \in T : Min(T) <= y
<1>1. \E x \in T : \A y \in T : x <= y
  BY Least
<1> QED
  BY <1>1 DEF Min

LEMMA MaxOfInterval ==
  ASSUME NEW n \in Nat, NEW s \in SUBSET (1 .. n), s # {}
  PROVE  Max(s) \in s /\ \A y \in s : Max(s) >= y
<1> DEFINE T == {n - y : y \in s}
<1>1. T \subseteq Nat /\ T # {}
  <2>1. \A y \in 1 .. n : n - y \in Nat
    OBVIOUS
  <2> QED
    BY <2>1
<1>2. PICK x \in T : \A z \in T : x <= z
  <2> HIDE DEF T
  <2> QED
    BY <1>1, Least
<1>3. PICK y \in s : x = n - y
  BY <1>2
<1>4. \A z \in s : y >= z
  <2> SUFFICES ASSUME NEW z \in s PROVE y >= z
    OBVIOUS
  <2>1. x <= n - z
    BY <1>2
  <2>2. y \in 1 .. n /\ z \in 1 .. n
    OBVIOUS
  <2> QED
    BY <1>3, <2>1, <2>2
<1> QED
  BY <1>3, <1>4 DEF Max

LEMMA MaxOfTwo ==
  ASSUME NEW i \in Int, NEW j \in Int
  PROVE  Max({i, j}) = IF i >= j THEN i ELSE j
<1> DEFINE m == IF i >= j THEN i ELSE j
<1>1. m \in {i, j} /\ \A y \in {i, j} : m >= y
  OBVIOUS
<1>2. \A x \in {i, j} : (\A y \in {i, j} : x >= y) => x = m
  OBVIOUS
<1> HIDE DEF m
<1>3. Max({i, j}) = m
  BY <1>1, <1>2 DEF Max
<1> QED
  BY <1>3 DEF m

LEMMA MinOfTwo ==
  ASSUME NEW i \in Int, NEW j \in Int
  PROVE  Min({i, j}) = IF i <= j THEN i ELSE j
<1> DEFINE m == IF i <= j THEN i ELSE j
<1>1. m \in {i, j} /\ \A y \in {i, j} : m <= y
  OBVIOUS
<1>2. \A x \in {i, j} : (\A y \in {i, j} : x <= y) => x = m
  OBVIOUS
<1> HIDE DEF m
<1>3. Min({i, j}) = m
  BY <1>1, <1>2 DEF Min
<1> QED
  BY <1>3 DEF m

LEMMA PrefixFacts ==
  ASSUME NEW n \in Nat, NEW k \in 1 .. n
  PROVE  /\ 1 .. k # {} /\ Max(1 .. k) = k /\ (1 .. k) \ {k} = 1 .. k - 1
         /\ 1 .. k \in SUBSET (1 .. n) /\ 1 .. k - 1 \in SUBSET (1 .. n)
         /\ k - 1 \in 0 .. n /\ k \in 0 .. n
<1>1. k \in 1 .. k /\ \A y \in 1 .. k : k >= y
  OBVIOUS
<1>2. \A x \in 1 .. k : (\A y \in 1 .. k : x >= y) => x = k
  OBVIOUS
<1>3. Max(1 .. k) = k
  BY <1>1, <1>2 DEF Max
<1> QED
  BY <1>1, <1>3

(* What folds step by step: the sets below n + 1, and their largest numbers.  *)
Folding(base, G, n, it) ==
  it = [s \in SUBSET (1 .. n) |-> IF s = {} THEN base ELSE G[<<it[s \ {Max(s)}], Max(s)>>]]

LEMMA FoldExists ==
  ASSUME NEW A, NEW n \in Nat, NEW base \in A, NEW G,
         \A a \in A : \A k \in 1 .. n : G[<<a, k>>] \in A
  PROVE  \E it \in [SUBSET (1 .. n) -> A] : Folding(base, G, n, it)
<1> DEFINE Next1(it, s) == IF s = {} THEN base ELSE G[<<it[s \ {Max(s)}], Max(s)>>]
           Folds(m, it) == /\ it \in [SUBSET (1 .. m) -> A]
                           /\ \A s \in SUBSET (1 .. m) : it[s] = Next1(it, s)
           Without == {m \in 0 .. n : ~ \E it : Folds(m, it)}
<1>1. Folds(0, [s \in SUBSET (1 .. 0) |-> base])
  <2>1. SUBSET (1 .. 0) = {{}}
    <3>1. 1 .. 0 = {}
      OBVIOUS
    <3> QED
      BY <3>1
  <2> QED
    BY <2>1
<1>2. ASSUME NEW m \in 1 .. n, NEW f, Folds(m - 1, f)
      PROVE  \E it : Folds(m, it)
  <2> DEFINE it == [s \in SUBSET (1 .. m) |->
                      IF m \in s THEN G[<<f[s \ {m}], m>>] ELSE f[s]]
  <2>0. \A y \in 1 .. m : y # m => y \in 1 .. m - 1
    OBVIOUS
  <2>1. \A s \in SUBSET (1 .. m) : s \ {m} \in SUBSET (1 .. m - 1)
    BY <2>0
  <2>2. ASSUME NEW s \in SUBSET (1 .. m) PROVE it[s] \in A
    <3>1. f[s \ {m}] \in A
      BY <1>2, <2>1
    <3>2. CASE m \in s
      BY <3>1, <3>2
    <3>3. CASE m \notin s
      <4>1. s \ {m} = s
        BY <3>3
      <4> QED
        BY <3>1, <3>3, <4>1
    <3> QED
      BY <3>2, <3>3
  <2>3. ASSUME NEW s \in SUBSET (1 .. m) PROVE it[s] = Next1(it, s)
    <3>1. CASE m \in s
      <4>1. \A y \in s : m >= y
        OBVIOUS
      <4>2. \A x \in s : (\A y \in s : x >= y) => x = m
        BY <3>1
      <4>3. Max(s) = m
        BY <3>1, <4>1, <4>2 DEF Max
      <4>4. it[s \ {m}] = f[s \ {m}] /\ s # {}
        BY <3>1
      <4> HIDE DEF it
      <4>5. it[s] = G[<<f[s \ {m}], m>>]
        BY <3>1 DEF it
      <4> QED
        BY <4>3, <4>4, <4>5
    <3>2. CASE m \notin s
      <4>1. s \in SUBSET (1 .. m - 1) /\ s \ {Max(s)} \in SUBSET (1 .. m)
            /\ m \notin s \ {Max(s)}
        BY <2>1, <3>2
      <4>2. it[s] = f[s] /\ it[s \ {Max(s)}] = f[s \ {Max(s)}]
        BY <3>2, <4>1
      <4>3. f[s] = Next1(f, s)
        BY <1>2, <4>1
      <4> QED
        BY <4>2, <4>3
    <3> QED
      BY <3>1, <3>2
  <2>4. it \in [SUBSET (1 .. m) -> A]
    BY <2>2
  <2> HIDE DEF it
  <2>5. Folds(m, it)
    BY <2>3, <2>4
  <2> QED
    BY <2>5
<1> HIDE DEF Folds
<1>3. Without = {}
  <2> SUFFICES ASSUME Without # {} PROVE FALSE
    OBVIOUS
  <2>1. PICK m \in Without : \A j \in Without : m <= j
    <3>1. Without \subseteq Nat
      OBVIOUS
    <3> HIDE DEF Without
    <3> QED
      BY <3>1, Least
  <2>2. m # 0
    BY <1>1
  <2>3. m - 1 \in 0 .. n /\ m \in 1 .. n /\ ~(m <= m - 1)
    BY <2>2
  <2>4. PICK f : Folds(m - 1, f)
    BY <2>1, <2>3
  <2> QED
    BY <1>2, <2>3, <2>4
<1>4. PICK it : Folds(n, it)
  BY <1>3
<1>5. it \in [SUBSET (1 .. n) -> A] /\ \A s \in SUBSET (1 .. n) : it[s] = Next1(it, s)
  BY <1>4 DEF Folds
<1>6. it = [s \in SUBSET (1 .. n) |-> it[s]]
  BY <1>5
<1>7. it = [s \in SUBSET (1 .. n) |-> Next1(it, s)]
  BY <1>5, <1>6
<1> QED
  BY <1>5, <1>7 DEF Folding


(* A recursive function on the numbers up to n, from its steps.               *)
StepsOf(base, G, n, at) ==
  at[0] = base /\ \A k \in 1 .. n : at[k] = G[<<at[k - 1], k>>]

LEMMA StepsExist ==
  ASSUME NEW A, NEW n \in Nat, NEW base \in A, NEW G,
         \A a \in A : \A k \in 1 .. n : G[<<a, k>>] \in A
  PROVE  \E at \in [0 .. n -> A] : StepsOf(base, G, n, at)
<1>1. PICK it \in [SUBSET (1 .. n) -> A] : Folding(base, G, n, it)
  BY FoldExists
<1> DEFINE at == [k \in 0 .. n |-> it[1 .. k]]
<1>2. it = [s \in SUBSET (1 .. n) |-> IF s = {} THEN base ELSE G[<<it[s \ {Max(s)}], Max(s)>>]]
  BY <1>1 DEF Folding
<1>3. at \in [0 .. n -> A]
  <2>1. \A k \in 0 .. n : 1 .. k \in SUBSET (1 .. n)
    OBVIOUS
  <2> QED
    BY <2>1
<1>4. at[0] = base
  <2>1. 1 .. 0 = {} /\ {} \in SUBSET (1 .. n) /\ 0 \in 0 .. n
    OBVIOUS
  <2>2. it[{}] = base
    BY <1>2, <2>1
  <2> QED
    BY <2>1, <2>2
<1>5. ASSUME NEW k \in 1 .. n PROVE at[k] = G[<<at[k - 1], k>>]
  <2>1. /\ 1 .. k # {} /\ Max(1 .. k) = k /\ (1 .. k) \ {k} = 1 .. k - 1
        /\ 1 .. k \in SUBSET (1 .. n) /\ k - 1 \in 0 .. n /\ k \in 0 .. n
    BY PrefixFacts
  <2>2. it[1 .. k] = G[<<it[(1 .. k) \ {Max(1 .. k)}], Max(1 .. k)>>]
    BY <1>2, <2>1
  <2> QED
    BY <2>1, <2>2
<1> HIDE DEF at
<1>6. StepsOf(base, G, n, at)
  BY <1>4, <1>5 DEF StepsOf
<1> QED
  BY <1>3, <1>6

(* Division of numbers.                                                       *)
LEMMA DivFacts ==
  ASSUME NEW k \in Nat, NEW u \in Nat, u >= 1
  PROVE  k \div u \in Nat /\ k % u \in 0 .. u - 1 /\ k = u * (k \div u) + (k % u)
OBVIOUS

LEMMA DivBelow ==
  ASSUME NEW k \in Nat, NEW u \in Nat, u >= 1, NEW n \in Nat
  PROVE  k < n * u <=> k \div u < n
<1> DEFINE q == k \div u
           r == k % u
<1>1. q \in Nat /\ r \in 0 .. u - 1 /\ k = u * q + r
  BY DivFacts
<1> HIDE DEF q, r
<1>2. CASE q < n
  <2>1. u * (q + 1) <= u * n
    BY <1>1, <1>2
  <2>2. u * (q + 1) = u * q + u
    BY <1>1
  <2>3. k < n * u
    BY <1>1, <2>1, <2>2
  <2> QED
    BY <1>2, <2>3 DEF q
<1>3. CASE q >= n
  <2>1. u * q >= u * n
    BY <1>1, <1>3
  <2>2. ~(k < n * u)
    BY <1>1, <2>1
  <2> QED
    BY <1>1, <1>3, <2>2 DEF q
<1> QED
  BY <1>1, <1>2, <1>3

-----------------------------------------------------------------------------
(* Types *)

InodeType == [type : 0 .. HEADER, nlink : Int, size : Nat,
              direct : [0 .. NUM_DIRECT - 1 -> Blocks]]
PathNames == Names \cup {"", ".", ".."}
CellType == [inum : Inodes, name : PathNames \cup {Junk}]
FsType == [inode : [Inodes -> InodeType],
           indirect : [0 .. NUM_INDIRECT - 1 -> Blocks],
           cell : [Blocks -> [0 .. UNITS - 1 -> CellType]],
           i_head : Seq(Inodes), b_head : Seq(Blocks), bad : BOOLEAN]
FileType == [i_num : Inodes, pos : Nat]
FdsType == [Procs -> [Slots -> {NULL} \cup FileType]]

LEMMA ConstantFacts ==
  /\ NUM_BLOCKS \in Nat /\ NUM_BLOCKS >= 1
  /\ NUM_INODES \in Nat /\ IPB \in Nat /\ IPB >= 1
  /\ NUM_DIRECT \in Nat /\ NUM_DIRECT >= 1 /\ NUM_INDIRECT \in Nat
  /\ MAX_OPEN_FILES \in Nat
  /\ UNITS \in Nat /\ UNITS >= 2
  /\ MaxBlocks = NUM_DIRECT + NUM_INDIRECT /\ MaxBlocks \in Nat /\ MaxBlocks >= 1
  /\ 0 \in Blocks /\ NumTable + 1 \in Blocks /\ Blocks \subseteq Nat
  /\ NumTable \in Nat /\ NumTable >= 1 /\ 0 \notin TableBlocks
  /\ NumTable * IPB \in Nat
  /\ 0 \in Inodes /\ ROOTINODE \in Inodes /\ Inodes \subseteq Nat /\ ERROR \notin Inodes
  /\ Scanned \subseteq Inodes \ {0}
<1>1. /\ NUM_BLOCKS \in Nat /\ NUM_BLOCKS >= 1
      /\ NUM_INODES \in Nat /\ NUM_INODES >= 1 /\ IPB \in Nat /\ IPB >= 1
      /\ NUM_DIRECT \in Nat /\ NUM_DIRECT >= 1 /\ NUM_INDIRECT \in Nat
      /\ MAX_OPEN_FILES \in Nat
      /\ UNITS \in Nat /\ UNITS >= 2 /\ NumTable + 1 \in Blocks
  BY YfsAssumption
<1>2. MaxBlocks = NUM_DIRECT + NUM_INDIRECT /\ MaxBlocks \in Nat /\ MaxBlocks >= 1
  BY <1>1 DEF MaxBlocks
<1>3. 0 \in Blocks /\ Blocks \subseteq Nat
  BY <1>1 DEF Blocks
<1> DEFINE q == NUM_INODES \div IPB
           t == (NUM_INODES + IPB - 1) \div IPB
<1>4. q \in Nat /\ NUM_INODES < IPB * q + IPB
  BY <1>1, DivFacts
<1>5. t \in Nat /\ IPB * t <= NUM_INODES + IPB - 1
  <2>1. NUM_INODES + IPB - 1 \in Nat
    BY <1>1
  <2> QED
    BY <1>1, <2>1, DivFacts
<1>6. NumTable = q + 1
  BY DEF NumTable
<1> HIDE DEF q, t
<1>7. NumTable * IPB = IPB * q + IPB /\ IPB * q \in Nat /\ IPB * t \in Nat
  BY <1>1, <1>4, <1>5, <1>6
<1>8. t <= q + 1
  <2> SUFFICES ASSUME t >= q + 2 PROVE FALSE
    BY <1>4, <1>5
  <2>1. IPB * t >= IPB * (q + 2)
    BY <1>1, <1>4, <1>5
  <2>2. IPB * (q + 2) = IPB * q + 2 * IPB
    BY <1>1, <1>4
  <2> QED
    BY <1>1, <1>4, <1>5, <1>7, <2>1, <2>2
<1>9. IPB * t <= NumTable * IPB
  <2>1. IPB * t <= IPB * (q + 1)
    BY <1>1, <1>4, <1>5, <1>8
  <2>2. IPB * (q + 1) = IPB * q + IPB
    BY <1>1, <1>4
  <2> QED
    BY <1>7, <2>1, <2>2
<1>10. Scanned = 1 .. IPB * t - 1
  BY DEF Scanned, t
<1>11. /\ NumTable \in Nat /\ NumTable >= 1 /\ NumTable * IPB \in Nat
       /\ NumTable * IPB >= 2
  BY <1>1, <1>4, <1>6, <1>7
<1>12. 0 \notin TableBlocks
  BY <1>11 DEF TableBlocks
<1>13. 0 \in Inodes /\ ROOTINODE \in Inodes /\ Inodes \subseteq Nat /\ ERROR \notin Inodes
  BY <1>11 DEF Inodes, ROOTINODE, ERROR
<1>14. Scanned \subseteq Inodes \ {0}
  BY <1>7, <1>9, <1>10, <1>11 DEF Inodes
<1> QED
  BY <1>1, <1>2, <1>3, <1>11, <1>12, <1>13, <1>14


-----------------------------------------------------------------------------
(* The blocks of a file *)

LEMMA NthFacts ==
  ASSUME NEW m \in FsType, NEW i \in Inodes, NEW n \in Nat
  PROVE  /\ NthBlock(m, i, n) \in Blocks
         /\ NthBlock(m, i, n) # 0 => /\ n < MaxBlocks /\ n * UNITS < m.inode[i].size
                                     /\ NthBlock(m, i, n) = Pointer(m, i, n)
         /\ n < MaxBlocks => Pointer(m, i, n) \in Blocks
<1>1. ASSUME n < MaxBlocks PROVE Pointer(m, i, n) \in Blocks
  <2>1. CASE n < NUM_DIRECT
    <3>1. m.inode[i].direct \in [0 .. NUM_DIRECT - 1 -> Blocks]
      BY DEF FsType, InodeType
    <3>2. n \in 0 .. NUM_DIRECT - 1
      BY <2>1, ConstantFacts
    <3> QED
      BY <2>1, <3>1, <3>2 DEF Pointer
  <2>2. CASE ~(n < NUM_DIRECT)
    <3>1. m.indirect \in [0 .. NUM_INDIRECT - 1 -> Blocks]
          /\ n - NUM_DIRECT \in 0 .. NUM_INDIRECT - 1
      BY <1>1, <2>2, ConstantFacts DEF FsType
    <3> QED
      BY <2>2, <3>1 DEF Pointer
  <2> QED
    BY <2>1, <2>2
<1>2. CASE n < MaxBlocks /\ n * UNITS < m.inode[i].size
  BY <1>1, <1>2 DEF NthBlock
<1>3. CASE ~(n < MaxBlocks /\ n * UNITS < m.inode[i].size)
  <2>1. NthBlock(m, i, n) = 0
    BY <1>3 DEF NthBlock
  <2> QED
    BY <1>1, <2>1, ConstantFacts
<1> QED
  BY <1>2, <1>3

LEMMA NumFacts ==
  ASSUME NEW m \in FsType, NEW i \in Inodes
  PROVE  /\ NumBlocks(m, i) \in 0 .. MaxBlocks
         /\ NthBlock(m, i, NumBlocks(m, i)) = 0
         /\ \A n \in 0 .. NumBlocks(m, i) - 1 : NthBlock(m, i, n) # 0
<1> DEFINE S == {n \in 0 .. MaxBlocks : NthBlock(m, i, n) = 0}
<1>1. MaxBlocks \in S
  BY ConstantFacts DEF NthBlock
<1>2. S \subseteq 0 .. MaxBlocks /\ S \subseteq Nat /\ NumBlocks(m, i) = Min(S)
  BY ConstantFacts DEF NumBlocks
<1>3. \A n \in 0 .. MaxBlocks : n \notin S => NthBlock(m, i, n) # 0
  OBVIOUS
<1>4. \A n \in S : NthBlock(m, i, n) = 0
  OBVIOUS
<1> HIDE DEF S
<1>5. Min(S) \in S /\ \A y \in S : Min(S) <= y
  BY <1>1, <1>2, MinFacts
<1>6. ASSUME NEW n \in 0 .. Min(S) - 1 PROVE NthBlock(m, i, n) # 0
  <2>0. Min(S) \in 0 .. MaxBlocks /\ MaxBlocks \in Nat
    BY <1>2, <1>5, ConstantFacts
  <2>1. Min(S) \in Nat /\ Min(S) <= MaxBlocks
    BY <2>0
  <2> DEFINE l == Min(S)
  <2>2. n \in 0 .. MaxBlocks /\ ~(l <= n)
    <3> l \in Nat /\ n \in 0 .. l - 1 /\ l <= MaxBlocks /\ MaxBlocks \in Nat
      BY <2>0, <2>1
    <3> HIDE DEF l
    <3> QED
      OBVIOUS
  <2> QED
    BY <1>3, <1>5, <2>2
<1> QED
  BY <1>2, <1>4, <1>5, <1>6

LEMMA BlocksOfType ==
  ASSUME NEW m \in FsType, NEW i \in Inodes
  PROVE  /\ BlocksOf(m, i) \in Seq(Blocks) /\ Len(BlocksOf(m, i)) = NumBlocks(m, i)
         /\ Reverse(BlocksOf(m, i)) \in Seq(Blocks)
         /\ Len(Reverse(BlocksOf(m, i))) = NumBlocks(m, i)
         /\ \A n \in 1 .. NumBlocks(m, i) :
              /\ BlocksOf(m, i)[n] = NthBlock(m, i, n - 1)
              /\ Reverse(BlocksOf(m, i))[n] = NthBlock(m, i, NumBlocks(m, i) - n)
<1> DEFINE l == NumBlocks(m, i)
           q == BlocksOf(m, i)
<1>1. l \in Nat
  BY NumFacts, ConstantFacts
<1>2. \A n \in 1 .. l : NthBlock(m, i, n - 1) \in Blocks
  BY <1>1, NthFacts
<1>3. q = [n \in 1 .. l |-> NthBlock(m, i, n - 1)]
  BY DEF BlocksOf
<1> HIDE DEF l, q
<1>4. q \in [1 .. l -> Blocks]
  BY <1>2, <1>3
<1>5. q \in Seq(Blocks) /\ Len(q) = l /\ \A n \in 1 .. l : q[n] = NthBlock(m, i, n - 1)
  BY <1>1, <1>3, <1>4
<1>6. Reverse(q) = [n \in 1 .. l |-> q[(l - n) + 1]]
  BY <1>5 DEF Reverse
<1>7. \A n \in 1 .. l : (l - n) + 1 \in 1 .. l /\ (l - n) + 1 - 1 = l - n
  BY <1>1
<1>8. \A n \in 1 .. l : q[(l - n) + 1] = NthBlock(m, i, l - n) /\ q[(l - n) + 1] \in Blocks
  BY <1>4, <1>5, <1>7
<1>9. Reverse(q) \in [1 .. l -> Blocks] /\ \A n \in 1 .. l : Reverse(q)[n] = NthBlock(m, i, l - n)
  BY <1>6, <1>8
<1>10. Reverse(q) \in Seq(Blocks) /\ Len(Reverse(q)) = l
  BY <1>1, <1>9, <1>6
<1> QED
  BY <1>5, <1>9, <1>10 DEF l, q

LEMMA ClearType ==
  ASSUME NEW m \in FsType, NEW i \in Inodes
  PROVE  /\ Clear(m, i) \in FsType
         /\ Clear(m, i) = [m EXCEPT !.b_head = Reverse(BlocksOf(m, i)) \o m.b_head,
                                    !.inode = [m.inode EXCEPT ![i].size = 0]]
<1> DEFINE q == Reverse(BlocksOf(m, i)) \o m.b_head
           inodes == [m.inode EXCEPT ![i].size = 0]
<1>1. Clear(m, i) = [m EXCEPT !.b_head = q, !.inode = inodes]
  BY DEF Clear
<1>2. q \in Seq(Blocks)
  BY BlocksOfType DEF FsType
<1>3. inodes \in [Inodes -> InodeType]
  BY ZenonT(40) DEF FsType, InodeType
<1> HIDE DEF q, inodes
<1>4. [m EXCEPT !.b_head = q, !.inode = inodes] \in FsType
  BY <1>2, <1>3 DEF FsType
<1> QED
  BY <1>1, <1>4 DEF q, inodes

LEMMA NextTypes ==
  ASSUME NEW m \in FsType
  PROVE  /\ NextInode(m) \in Inodes /\ Rest(m.i_head) \in Seq(Inodes)
         /\ NextBlock(m) \in Blocks /\ Rest(m.b_head) \in Seq(Blocks)
<1>1. m.i_head \in Seq(Inodes) /\ m.b_head \in Seq(Blocks)
  BY DEF FsType
<1>2. NextInode(m) \in Inodes /\ Rest(m.i_head) \in Seq(Inodes)
  BY <1>1, ConstantFacts DEF NextInode, Rest
<1>3. NextBlock(m) \in Blocks /\ Rest(m.b_head) \in Seq(Blocks)
  BY <1>1, ConstantFacts DEF NextBlock, Rest
<1> QED
  BY <1>2, <1>3

(* get_nth_b(inode, n, true) takes a block or leaves everything as it is.     *)
Taken(m) == [m EXCEPT !.b_head = Rest(m.b_head), !.bad = m.bad \/ NextBlock(m) \in TableBlocks]

LEMMA GrowCases ==
  ASSUME NEW m \in FsType, NEW i \in Inodes, NEW n \in Nat
  PROVE  /\ n >= MaxBlocks => GrowBlock(m, i, n) = [fs |-> m, b |-> 0]
         /\ n < MaxBlocks /\ n * UNITS < m.inode[i].size =>
              GrowBlock(m, i, n) = [fs |-> m, b |-> Pointer(m, i, n)]
         /\ n < NUM_DIRECT /\ n * UNITS >= m.inode[i].size =>
              GrowBlock(m, i, n) =
                [fs |-> [Taken(m) EXCEPT !.inode = [m.inode EXCEPT ![i].direct[n] = NextBlock(m)]],
                 b  |-> NextBlock(m)]
         /\ n >= NUM_DIRECT /\ n < MaxBlocks /\ n * UNITS >= m.inode[i].size =>
              GrowBlock(m, i, n) =
                [fs |-> [Taken(m) EXCEPT
                           !.indirect = [m.indirect EXCEPT ![n - NUM_DIRECT] = NextBlock(m)]],
                 b  |-> NextBlock(m)]
<1>1. m.inode[i].size \in Nat /\ n * UNITS \in Nat /\ NUM_DIRECT \in Nat /\ MaxBlocks \in Nat
      /\ NUM_DIRECT <= MaxBlocks
  BY ConstantFacts DEF FsType, InodeType
<1>2. CASE n >= MaxBlocks
  BY <1>1, <1>2 DEF GrowBlock
<1>3. CASE n < MaxBlocks /\ n * UNITS < m.inode[i].size
  BY <1>1, <1>3 DEF GrowBlock
<1>4. CASE n < MaxBlocks /\ n * UNITS >= m.inode[i].size /\ n < NUM_DIRECT
  BY <1>1, <1>4 DEF GrowBlock, Taken, FsType
<1>5. CASE n < MaxBlocks /\ n * UNITS >= m.inode[i].size /\ n >= NUM_DIRECT
  BY <1>1, <1>5 DEF GrowBlock, Taken, FsType
<1> QED
  BY <1>1, <1>2, <1>3, <1>4, <1>5

LEMMA GrowType ==
  ASSUME NEW m \in FsType, NEW i \in Inodes, NEW n \in Nat
  PROVE  LET g == GrowBlock(m, i, n)
         IN  /\ g.fs \in FsType /\ g.b \in Blocks
             /\ g.fs.cell = m.cell /\ g.fs.i_head = m.i_head
             /\ \A j \in Inodes : /\ g.fs.inode[j].size = m.inode[j].size
                                  /\ g.fs.inode[j].type = m.inode[j].type
             /\ n >= MaxBlocks => g.b = 0
             /\ n < MaxBlocks /\ n * UNITS < m.inode[i].size => g.b = Pointer(m, i, n)
<1> DEFINE g == GrowBlock(m, i, n)
           b == NextBlock(m)
           q == Rest(m.b_head)
           bad == m.bad \/ b \in TableBlocks
           inodes == [m.inode EXCEPT ![i].direct[n] = b]
           indirect == [m.indirect EXCEPT ![n - NUM_DIRECT] = b]
<1>1. b \in Blocks /\ q \in Seq(Blocks) /\ bad \in BOOLEAN
  BY NextTypes DEF FsType
<1>2. m.inode[i].size \in Nat /\ n * UNITS \in Nat /\ NUM_DIRECT \in Nat /\ MaxBlocks \in Nat
      /\ NUM_DIRECT <= MaxBlocks
  BY ConstantFacts DEF FsType, InodeType
<1>3. CASE n >= MaxBlocks
  BY <1>2, <1>3, GrowCases, ConstantFacts
<1>4. CASE n < MaxBlocks /\ n * UNITS < m.inode[i].size
  BY <1>2, <1>4, GrowCases, NthFacts
<1>5. CASE n < NUM_DIRECT /\ n * UNITS >= m.inode[i].size
  <2>1. n \in 0 .. NUM_DIRECT - 1 /\ m.inode \in [Inodes -> InodeType]
    BY <1>2, <1>5 DEF FsType
  <2>2. /\ inodes \in [Inodes -> InodeType]
        /\ \A j \in Inodes : inodes[j].size = m.inode[j].size /\ inodes[j].type = m.inode[j].type
    BY <1>1, <2>1 DEF InodeType
  <2> HIDE DEF inodes, bad, q, b
  <2>3. Taken(m) = [m EXCEPT !.b_head = q, !.bad = bad]
    BY DEF Taken, bad, q, b
  <2> DEFINE f == [[m EXCEPT !.b_head = q, !.bad = bad] EXCEPT !.inode = inodes]
  <2>4. f \in FsType
    BY <1>1, <2>2 DEF FsType
  <2>5. f.inode = inodes /\ f.cell = m.cell /\ f.i_head = m.i_head
    BY DEF FsType
  <2>6. g = [fs |-> [Taken(m) EXCEPT !.inode = inodes], b |-> b]
    BY <1>2, <1>5, GrowCases DEF inodes, b
  <2>60. g.fs = f /\ g.b = b
    BY <2>3, <2>6
  <2> HIDE DEF f
  <2>7. /\ g.fs.inode = inodes /\ g.fs.cell = m.cell /\ g.fs.i_head = m.i_head
        /\ g.fs \in FsType /\ g.b = b
    BY <2>4, <2>5, <2>60
  <2> HIDE DEF g
  <2>8. QED
    BY <1>1, <1>2, <1>5, <2>2, <2>7 DEF g
<1>6. CASE n >= NUM_DIRECT /\ n < MaxBlocks /\ n * UNITS >= m.inode[i].size
  <2>1. n - NUM_DIRECT \in 0 .. NUM_INDIRECT - 1
    BY <1>2, <1>6, ConstantFacts
  <2>2. indirect \in [0 .. NUM_INDIRECT - 1 -> Blocks]
    BY <1>1, <2>1 DEF FsType
  <2> HIDE DEF indirect, bad, q, b
  <2>3. Taken(m) = [m EXCEPT !.b_head = q, !.bad = bad]
    BY DEF Taken, bad, q, b
  <2> DEFINE f == [[m EXCEPT !.b_head = q, !.bad = bad] EXCEPT !.indirect = indirect]
  <2>4. f \in FsType
    BY <1>1, <2>2 DEF FsType
  <2>5. f.inode = m.inode /\ f.cell = m.cell /\ f.i_head = m.i_head
    BY DEF FsType
  <2>6. g = [fs |-> [Taken(m) EXCEPT !.indirect = indirect], b |-> b]
    BY <1>2, <1>6, GrowCases DEF indirect, b
  <2>60. g.fs = f /\ g.b = b
    BY <2>3, <2>6
  <2> HIDE DEF f
  <2>7. /\ g.fs.inode = m.inode /\ g.fs.cell = m.cell /\ g.fs.i_head = m.i_head
        /\ g.fs \in FsType /\ g.b = b
    BY <2>4, <2>5, <2>60
  <2> HIDE DEF g
  <2>8. QED
    BY <1>1, <1>2, <1>6, <2>7 DEF g
<1> QED
  BY <1>2, <1>3, <1>4, <1>5, <1>6


LEMMA GrowBad ==
  ASSUME NEW m \in FsType, NEW i \in Inodes, NEW n \in Nat
  PROVE  m.bad => GrowBlock(m, i, n).fs.bad
<1>1. Taken(m).bad = (m.bad \/ NextBlock(m) \in TableBlocks)
  BY DEF Taken, FsType
<1>2. m.inode[i].size \in Nat /\ n * UNITS \in Nat /\ NUM_DIRECT \in Nat /\ MaxBlocks \in Nat
      /\ NUM_DIRECT <= MaxBlocks
  BY ConstantFacts DEF FsType, InodeType
<1>3. CASE n >= MaxBlocks
  BY <1>3, GrowCases
<1>4. CASE n < MaxBlocks /\ n * UNITS < m.inode[i].size
  BY <1>4, GrowCases
<1>5. CASE n < NUM_DIRECT /\ n * UNITS >= m.inode[i].size
  <2> DEFINE x == [m.inode EXCEPT ![i].direct[n] = NextBlock(m)]
  <2>1. GrowBlock(m, i, n).fs = [Taken(m) EXCEPT !.inode = x]
    BY <1>5, GrowCases
  <2> HIDE DEF x
  <2> QED
    BY <1>1, <2>1 DEF Taken, FsType
<1>6. CASE n >= NUM_DIRECT /\ n < MaxBlocks /\ n * UNITS >= m.inode[i].size
  <2> DEFINE x == [m.indirect EXCEPT ![n - NUM_DIRECT] = NextBlock(m)]
  <2>1. GrowBlock(m, i, n).fs = [Taken(m) EXCEPT !.indirect = x]
    BY <1>6, GrowCases
  <2> HIDE DEF x
  <2> QED
    BY <1>1, <2>1 DEF Taken, FsType
<1> QED
  BY <1>2, <1>3, <1>4, <1>5, <1>6

-----------------------------------------------------------------------------
(* Directories *)

LEMMA CellFacts ==
  ASSUME NEW m \in FsType, NEW i \in Inodes, NEW k \in Nat
  PROVE  /\ k \div UNITS \in Nat /\ k % UNITS \in 0 .. UNITS - 1
         /\ NthBlock(m, i, k \div UNITS) \in Blocks
         /\ CellAt(m, i, k) \in CellType
<1>0. UNITS \in Nat /\ UNITS >= 1
  BY ConstantFacts
<1>1. k \div UNITS \in Nat /\ k % UNITS \in 0 .. UNITS - 1
  BY <1>0, DivFacts
<1>2. NthBlock(m, i, k \div UNITS) \in Blocks
  BY <1>1, NthFacts
<1>3. m.cell \in [Blocks -> [0 .. UNITS - 1 -> CellType]]
  BY DEF FsType
<1> QED
  BY <1>1, <1>2, <1>3 DEF CellAt

LEMMA PlacesFacts ==
  ASSUME NEW m \in FsType, NEW i \in Inodes
  PROVE  /\ Places(m, i) \subseteq Nat
         /\ \A k \in Nat : k \in Places(m, i) <=> /\ k < m.inode[i].size
                                                  /\ k \div UNITS < NumBlocks(m, i)
<1> DEFINE s == m.inode[i].size
           l == NumBlocks(m, i)
           t == l * UNITS
           least == Min({s, t})
<1>1. s \in Nat /\ l \in Nat /\ t \in Nat /\ UNITS \in Nat /\ UNITS >= 1
  <2>1. s \in Nat
    BY DEF FsType, InodeType
  <2>2. UNITS \in Nat /\ UNITS >= 1 /\ MaxBlocks \in Nat /\ l \in 0 .. MaxBlocks
    BY NumFacts, ConstantFacts
  <2> HIDE DEF l, s
  <2>3. l \in Nat /\ l * UNITS \in Nat
    BY <2>2
  <2> QED
    BY <2>1, <2>2, <2>3
<1>2. \A k \in Nat : k < t <=> k \div UNITS < l
  BY <1>1, DivBelow
<1>3. Places(m, i) = 0 .. least - 1
  BY DEF Places
<1> HIDE DEF s, t
<1>4. least = IF s <= t THEN s ELSE t
  BY <1>1, MinOfTwo
<1> HIDE DEF least
<1>5. \A k \in Nat : k \in 0 .. least - 1 <=> k < s /\ k < t
  BY <1>1, <1>4
<1>6. 0 .. least - 1 \subseteq Nat
  OBVIOUS
<1> QED
  BY <1>2, <1>3, <1>5, <1>6 DEF s

(* The first place in a set of places.                                        *)
LEMMA FirstPlace ==
  ASSUME NEW m \in FsType, NEW i \in Inodes, NEW S \in SUBSET Places(m, i), S # {}
  PROVE  Min(S) \in S /\ Min(S) \in Places(m, i) /\ Min(S) \in Nat /\ \A k \in S : Min(S) <= k
<1>1. Places(m, i) \subseteq Nat
  BY PlacesFacts
<1>2. S \subseteq Nat
  BY <1>1
<1> QED
  BY <1>1, <1>2, MinFacts

LEMMA FoundFacts ==
  ASSUME NEW m \in FsType, NEW i \in Inodes, NEW name, Found(m, i, name)
  PROVE  /\ Min(Matching(m, i, name)) \in Places(m, i)
         /\ Min(Matching(m, i, name)) \in Nat
         /\ CellAt(m, i, Min(Matching(m, i, name))).name = name
         /\ Inum(m, i, name) = CellAt(m, i, Min(Matching(m, i, name))).inum
         /\ Inum(m, i, name) \in Inodes
         /\ \A k \in Places(m, i) : CellAt(m, i, k).name = name => Min(Matching(m, i, name)) <= k
<1> DEFINE S == Matching(m, i, name)
<1>1. S \in SUBSET Places(m, i) /\ S # {}
  BY DEF Matching, Found
<1>2. \A k \in S : CellAt(m, i, k).name = name
  BY DEF Matching
<1>3. \A k \in Places(m, i) : CellAt(m, i, k).name = name => k \in S
  BY DEF Matching
<1> HIDE DEF S
<1>4. Min(S) \in S /\ Min(S) \in Places(m, i) /\ Min(S) \in Nat /\ \A k \in S : Min(S) <= k
  BY <1>1, FirstPlace
<1>5. CellAt(m, i, Min(S)) \in CellType
  BY <1>4, CellFacts
<1>6. CellAt(m, i, Min(S)).inum \in Inodes
  BY <1>5 DEF CellType
<1>7. Inum(m, i, name) = CellAt(m, i, Min(S)).inum
  BY DEF Inum, S
<1> QED
  BY <1>2, <1>3, <1>4, <1>6, <1>7 DEF S

LEMMA VacantFacts ==
  ASSUME NEW m \in FsType, NEW i \in Inodes, Vacant(m, i) # {}
  PROVE  /\ Min(Vacant(m, i)) \in Places(m, i)
         /\ Min(Vacant(m, i)) \in Nat
         /\ CellAt(m, i, Min(Vacant(m, i))).inum = 0
<1>1. Vacant(m, i) \in SUBSET Places(m, i) /\ \A k \in Vacant(m, i) : CellAt(m, i, k).inum = 0
  BY DEF Vacant
<1>2. Min(Vacant(m, i)) \in Vacant(m, i) /\ Min(Vacant(m, i)) \in Nat
  BY <1>1, FirstPlace
<1> QED
  BY <1>1, <1>2

CellsType == [Blocks -> [0 .. UNITS - 1 -> CellType]]

WithInum(cells, b, c, i) == [cells EXCEPT ![b][c].inum = i]
WithCell(cells, b, c, cell) == [cells EXCEPT ![b][c] = cell]

LEMMA SetInum ==
  ASSUME NEW cells \in CellsType, NEW b \in Blocks, NEW c \in 0 .. UNITS - 1, NEW i \in Inodes,
         NEW new, new = WithInum(cells, b, c, i)
  PROVE  /\ new \in CellsType
         /\ new[b][c].inum = i /\ new[b][c].name = cells[b][c].name
         /\ \A b2 \in Blocks, c2 \in 0 .. UNITS - 1 :
              b2 # b \/ c2 # c => new[b2][c2] = cells[b2][c2]
<1> DEFINE row == cells[b]
           cell == [row[c] EXCEPT !.inum = i]
           row2 == [row EXCEPT ![c] = cell]
<1>1. row \in [0 .. UNITS - 1 -> CellType] /\ row[c] \in CellType
  BY DEF CellsType
<1>2. cell \in CellType /\ cell.inum = i /\ cell.name = row[c].name
  BY <1>1 DEF CellType
<1>3. new = [cells EXCEPT ![b] = row2]
  BY DEF WithInum
<1> HIDE DEF cell
<1>4. row2 \in [0 .. UNITS - 1 -> CellType] /\ row2[c] = cell
      /\ \A c2 \in 0 .. UNITS - 1 : c2 # c => row2[c2] = row[c2]
  BY <1>1, <1>2
<1> HIDE DEF row2
<1>5. new \in CellsType /\ new[b] = row2 /\ \A b2 \in Blocks : b2 # b => new[b2] = cells[b2]
  BY <1>3, <1>4 DEF CellsType
<1>6. \A b2 \in Blocks, c2 \in 0 .. UNITS - 1 :
        b2 # b \/ c2 # c => new[b2][c2] = cells[b2][c2]
  BY <1>4, <1>5
<1> QED
  BY <1>2, <1>3, <1>4, <1>5, <1>6

LEMMA SetCell ==
  ASSUME NEW cells \in CellsType, NEW b \in Blocks, NEW c \in 0 .. UNITS - 1, NEW cell \in CellType,
         NEW new, new = WithCell(cells, b, c, cell)
  PROVE  /\ new \in CellsType /\ new[b][c] = cell
         /\ \A b2 \in Blocks, c2 \in 0 .. UNITS - 1 :
              b2 # b \/ c2 # c => new[b2][c2] = cells[b2][c2]
<1> DEFINE row == cells[b]
           row2 == [row EXCEPT ![c] = cell]
<1>1. row \in [0 .. UNITS - 1 -> CellType]
  BY DEF CellsType
<1>2. new = [cells EXCEPT ![b] = row2]
  BY DEF WithCell
<1>3. row2 \in [0 .. UNITS - 1 -> CellType] /\ row2[c] = cell
      /\ \A c2 \in 0 .. UNITS - 1 : c2 # c => row2[c2] = row[c2]
  BY <1>1
<1> HIDE DEF row2
<1>4. new \in CellsType /\ new[b] = row2 /\ \A b2 \in Blocks : b2 # b => new[b2] = cells[b2]
  BY <1>2, <1>3 DEF CellsType
<1>5. \A b2 \in Blocks, c2 \in 0 .. UNITS - 1 :
        b2 # b \/ c2 # c => new[b2][c2] = cells[b2][c2]
  BY <1>3, <1>4
<1> QED
  BY <1>2, <1>3, <1>4, <1>5

LEMMA SetSize ==
  ASSUME NEW inodes \in [Inodes -> InodeType], NEW i \in Inodes, NEW s \in Nat,
         NEW new, new = [inodes EXCEPT ![i].size = s]
  PROVE  /\ new \in [Inodes -> InodeType] /\ new[i].size = s
         /\ new[i] = [inodes[i] EXCEPT !.size = s]
         /\ \A j \in Inodes : j # i => new[j] = inodes[j]
<1> DEFINE inode == [inodes[i] EXCEPT !.size = s]
<1>1. inode \in InodeType /\ inode.size = s
  BY DEF InodeType
<1>2. new = [inodes EXCEPT ![i] = inode]
  OBVIOUS
<1> HIDE DEF inode
<1>3. [inodes EXCEPT ![i] = inode] \in [Inodes -> InodeType]
      /\ [inodes EXCEPT ![i] = inode][i] = inode
      /\ \A j \in Inodes : j # i => [inodes EXCEPT ![i] = inode][j] = inodes[j]
  BY <1>1
<1> QED
  BY <1>1, <1>2, <1>3 DEF inode

(* A place to put an entry: a file system, a block and a cell of the block.   *)
PlaceType == [fs : FsType, b : Blocks, c : 0 .. UNITS - 1]

LEMMA AtType ==
  ASSUME NEW m \in FsType, NEW i \in Inodes, NEW k \in Nat
  PROVE  /\ At(m, i, k) \in PlaceType /\ At(m, i, k).fs = m
         /\ At(m, i, k).b = NthBlock(m, i, k \div UNITS) /\ At(m, i, k).c = k % UNITS
         /\ m.cell[At(m, i, k).b][At(m, i, k).c] = CellAt(m, i, k)
<1>1. k % UNITS \in 0 .. UNITS - 1 /\ NthBlock(m, i, k \div UNITS) \in Blocks
  BY CellFacts
<1> QED
  BY <1>1 DEF At, PlaceType, CellAt

(* No size is more than the largest file's, before something goes wrong, and  *)
(* more than one beyond it after.                                             *)
SizesFit(m) ==
  \A i \in Inodes : m.inode[i].size <= MaxBlocks * UNITS + (IF m.bad THEN 1 ELSE 0)

LEMMA RoomBelow ==
  ASSUME NEW s \in Nat, NEW n \in Nat, NEW u \in Nat, u >= 1, NEW l \in Nat,
         s <= n * u,
         s % u # 0 \/ (l < n /\ s <= l * u)
  PROVE  s + 1 <= n * u
<1>1. CASE s % u # 0
  <2>1. s # u * n
    <3> SUFFICES ASSUME s = u * n PROVE FALSE
      OBVIOUS
    <3>1. (u * n + 0) \div u = n /\ (u * n + 0) % u = 0
      OBVIOUS
    <3>2. u * n + 0 = u * n
      OBVIOUS
    <3> QED
      BY <1>1, <3>1, <3>2
  <2>2. u * n = n * u /\ n * u \in Nat
    OBVIOUS
  <2> QED
    BY <2>1, <2>2
<1>2. CASE l < n /\ s <= l * u
  <2>1. (l + 1) * u <= n * u
    BY <1>2
  <2>2. (l + 1) * u = l * u + u
    OBVIOUS
  <2> QED
    BY <1>2, <2>1, <2>2
<1> QED
  BY <1>1, <1>2


LEMMA AppendType ==
  ASSUME NEW m \in FsType, NEW i \in Inodes
  PROVE  /\ Append1(m, i) \in PlaceType
         /\ Append1(m, i).fs.cell[Append1(m, i).b][Append1(m, i).c].inum = 0
         /\ ~m.bad /\ SizesFit(m) => SizesFit(Append1(m, i).fs)
<1> DEFINE n == NumBlocks(m, i)
           c == m.inode[i].size % UNITS
           last == IF n = 0 THEN 0 ELSE NthBlock(m, i, n - 1)
           r == IF c = 0 THEN GrowBlock(m, i, n) ELSE [fs |-> m, b |-> last]
           f == r.fs
           b == r.b
           cells == [f.cell EXCEPT ![b][c].inum = 0]
           inodes == [f.inode EXCEPT ![i].size = @ + 1]
           bad == f.bad \/ b = 0
           g == [f EXCEPT !.cell = cells, !.inode = inodes, !.bad = bad]
<1>1. /\ UNITS \in Nat /\ UNITS >= 1 /\ MaxBlocks \in Nat /\ n \in 0 .. MaxBlocks /\ n \in Nat
      /\ NthBlock(m, i, n) = 0 /\ m.inode[i].size \in Nat
  <2>1. UNITS \in Nat /\ UNITS >= 1 /\ MaxBlocks \in Nat
    BY ConstantFacts
  <2>2. n \in 0 .. MaxBlocks /\ NthBlock(m, i, n) = 0 /\ m.inode[i].size \in Nat
    BY NumFacts DEF FsType, InodeType
  <2> HIDE DEF n
  <2> QED
    BY <2>1, <2>2
<1>2. c \in 0 .. UNITS - 1
  BY <1>1, DivFacts
<1>3. last \in Blocks
  <2>1. CASE n = 0
    BY <2>1, ConstantFacts
  <2>2. CASE n # 0
    <3>1. n - 1 \in Nat
      BY <1>1, <2>2
    <3> QED
      BY <2>2, <3>1, NthFacts
  <2> QED
    BY <2>1, <2>2
<1>4. /\ f \in FsType /\ b \in Blocks
      /\ \A j \in Inodes : f.inode[j].size = m.inode[j].size
  <2>1. CASE c = 0
    BY <1>1, <2>1, GrowType
  <2>2. CASE c # 0
    BY <1>3, <2>2
  <2> QED
    BY <2>1, <2>2
<1>5. Append1(m, i) = [fs |-> g, b |-> b, c |-> c]
  BY DEF Append1
<1>6. b = 0 \/ c # 0 \/ (n < MaxBlocks /\ m.inode[i].size <= n * UNITS)
  <2> SUFFICES ASSUME c = 0, b # 0 PROVE n < MaxBlocks /\ m.inode[i].size <= n * UNITS
    OBVIOUS
  <2>1. b = GrowBlock(m, i, n).b
    OBVIOUS
  <2>2. n < MaxBlocks
    BY <1>1, <2>1, GrowType
  <2>3. CASE n * UNITS < m.inode[i].size
    <3>1. b = Pointer(m, i, n)
      BY <1>1, <2>1, <2>2, <2>3, GrowType
    <3>2. NthBlock(m, i, n) = Pointer(m, i, n)
      BY <2>2, <2>3 DEF NthBlock
    <3> QED
      BY <1>1, <3>1, <3>2
  <2>4. CASE ~(n * UNITS < m.inode[i].size)
    <3>1. n * UNITS \in Nat
      BY <1>1
    <3> QED
      BY <1>1, <2>2, <2>4, <3>1
  <2> QED
    BY <2>3, <2>4
<1> HIDE DEF f, b, c, n, r
<1>7. cells \in CellsType /\ cells[b][c].inum = 0
  <2>1. f.cell \in CellsType /\ 0 \in Inodes
    BY <1>4, ConstantFacts DEF FsType, CellsType
  <2> DEFINE old == f.cell
  <2>2. old \in CellsType /\ cells = WithInum(old, b, c, 0)
    BY <2>1 DEF WithInum
  <2> HIDE DEF cells, old, last, inodes, bad, g
  <2>3. cells \in CellsType /\ cells[b][c].inum = 0
    BY <1>2, <1>4, <2>1, <2>2, SetInum
  <2> QED
    BY <2>3
<1>8. inodes \in [Inodes -> InodeType] /\ inodes[i].size = m.inode[i].size + 1
      /\ \A j \in Inodes : j # i => inodes[j].size = m.inode[j].size
  <2>1. f.inode \in [Inodes -> InodeType] /\ f.inode[i].size = m.inode[i].size
        /\ m.inode[i].size + 1 \in Nat
    BY <1>1, <1>4 DEF FsType
  <2>2. inodes = [f.inode EXCEPT ![i].size = m.inode[i].size + 1]
    BY <2>1
  <2> HIDE DEF inodes
  <2> QED
    BY <1>4, <2>1, <2>2, SetSize
<1>9. bad \in BOOLEAN
  BY <1>4 DEF FsType
<1> HIDE DEF cells, inodes, bad
<1>10. g \in FsType /\ g.cell = cells /\ g.inode = inodes /\ g.bad = bad
  BY <1>4, <1>7, <1>8, <1>9 DEF FsType, CellsType
<1>11. ASSUME ~m.bad, SizesFit(m), NEW j \in Inodes
       PROVE  inodes[j].size <= MaxBlocks * UNITS + (IF bad THEN 1 ELSE 0)
  <2>1. m.inode[j].size <= MaxBlocks * UNITS /\ MaxBlocks * UNITS \in Nat
        /\ m.inode[j].size \in Nat
    BY <1>1, <1>11 DEF SizesFit, FsType, InodeType
  <2>2. CASE j # i
    BY <1>8, <2>1, <2>2
  <2>3. CASE j = i /\ b = 0
    <3>1. bad
      BY <2>3 DEF bad
    <3> QED
      BY <1>8, <2>1, <2>3, <3>1
  <2>4. CASE j = i /\ b # 0
    <3>1. m.inode[i].size + 1 <= MaxBlocks * UNITS
      BY <1>1, <1>6, <2>1, <2>4, RoomBelow DEF c
    <3> QED
      BY <1>8, <2>1, <2>4, <3>1
  <2> QED
    BY <2>2, <2>3, <2>4
<1> HIDE DEF g
<1>12. ~m.bad /\ SizesFit(m) => SizesFit(g)
  BY <1>10, <1>11 DEF SizesFit
<1> QED
  BY <1>2, <1>4, <1>5, <1>7, <1>10, <1>12 DEF PlaceType

LEMMA EntryForType ==
  ASSUME NEW m \in FsType, NEW i \in Inodes, NEW name
  PROVE  /\ EntryFor(m, i, name) \in PlaceType
         /\ ~m.bad /\ SizesFit(m) => SizesFit(EntryFor(m, i, name).fs)
<1>1. CASE Found(m, i, name)
  <2>1. EntryFor(m, i, name) = At(m, i, Min(Matching(m, i, name)))
    BY <1>1 DEF EntryFor
  <2> QED
    BY <1>1, <2>1, FoundFacts, AtType
<1>2. CASE ~Found(m, i, name) /\ Vacant(m, i) # {}
  <2>1. EntryFor(m, i, name) = At(m, i, Min(Vacant(m, i)))
    BY <1>2 DEF EntryFor
  <2> QED
    BY <1>2, <2>1, VacantFacts, AtType
<1>3. CASE ~Found(m, i, name) /\ Vacant(m, i) = {}
  <2>1. EntryFor(m, i, name) = Append1(m, i)
    BY <1>3 DEF EntryFor
  <2> QED
    BY <2>1, AppendType
<1> QED
  BY <1>1, <1>2, <1>3

-----------------------------------------------------------------------------
(* Path names *)

PathType == [abs : BOOLEAN, parts : Seq(PathNames)]

LEMMA PathFacts ==
  ASSUME NEW path \in PathType
  PROVE  /\ Parts(path) \in Seq(PathNames) /\ Len(Parts(path)) \in Nat \ {0}
         /\ Front(Parts(path)) \in Seq(PathNames)
         /\ Len(Front(Parts(path))) = Len(Parts(path)) - 1
         /\ \A n \in 1 .. Len(Parts(path)) - 1 : Front(Parts(path))[n] = Parts(path)[n]
         /\ FileName(path) \in PathNames /\ FileName(path) = Parts(path)[Len(Parts(path))]
         /\ \A cur \in Inodes : Start(path, cur) \in Inodes
<1> DEFINE q == Parts(path)
           l == Len(q)
<1>1. q \in Seq(PathNames) /\ q # << >>
  <2>1. path.parts \in Seq(PathNames)
    BY DEF PathType
  <2>2. "" \in PathNames
    BY DEF PathNames
  <2>3. \A x \in PathNames : <<x>> \in Seq(PathNames) /\ <<x>> # << >>
    OBVIOUS
  <2> QED
    BY <2>1, <2>2, <2>3 DEF Parts
<1> HIDE DEF q
<1>2. l \in Nat /\ l # 0
  BY <1>1
<1>3. Front(q) = [n \in 1 .. l - 1 |-> q[n]] 
  BY <1>1 DEF Front
<1>4. \A n \in 1 .. l - 1 : q[n] \in PathNames
  BY <1>1
<1>5. Front(q) \in Seq(PathNames) /\ Len(Front(q)) = l - 1
      /\ \A n \in 1 .. l - 1 : Front(q)[n] = q[n]
  BY <1>2, <1>3, <1>4
<1>6. Last(q) = q[l] /\ Last(q) \in PathNames
  BY <1>1, <1>2 DEF Last
<1>7. \A cur \in Inodes : Start(path, cur) \in Inodes
  BY ConstantFacts DEF Start
<1> QED
  BY <1>1, <1>2, <1>5, <1>6, <1>7 DEF q, FileName


(* Whatever starts in a set and stays in it step by step is always in it.     *)
LEMMA StepsStay ==
  ASSUME NEW A, NEW n \in Nat, NEW at, at[0] \in A,
         \A k \in 1 .. n : at[k - 1] \in A => at[k] \in A
  PROVE  \A k \in 0 .. n : at[k] \in A
<1> DEFINE Outside == {k \in 0 .. n : at[k] \notin A}
<1> SUFFICES ASSUME Outside # {} PROVE FALSE
  OBVIOUS
<1>1. Outside \subseteq Nat /\ \A k \in 0 .. n : k \notin Outside => at[k] \in A
  OBVIOUS
<1>2. \A k \in Outside : k \in 0 .. n /\ at[k] \notin A
  OBVIOUS
<1> HIDE DEF Outside
<1>3. PICK k \in Outside : \A j \in Outside : k <= j
  BY <1>1, Least
<1>4. k \in 0 .. n /\ at[k] \notin A
  BY <1>2
<1>5. k # 0
  BY <1>4
<1>6. k \in 1 .. n /\ k - 1 \in 0 .. n /\ ~(k <= k - 1)
  BY <1>4, <1>5
<1>7. at[k - 1] \in A
  BY <1>1, <1>3, <1>6
<1> QED
  BY <1>4, <1>6, <1>7

(* One part of a path.                                                        *)
Walk(m, i, name) ==
  IF i = ERROR \/ ~IsDir(m, i) THEN ERROR
  ELSE IF Found(m, i, name) THEN Inum(m, i, name)
  ELSE 0

Walking(m, start, parts, it) ==
  it = [s \in SUBSET (DOMAIN parts) |->
          IF s = {} THEN start ELSE Walk(m, it[s \ {Max(s)}], parts[Max(s)])]

Ends(i) == IF i = ERROR THEN 0 ELSE i

LEMMA PathIs ==
  ASSUME NEW m, NEW start, NEW parts, NEW i,
         i = (CHOOSE it : Walking(m, start, parts, it))[DOMAIN parts]
  PROVE  PathInode(m, parts, start) = Ends(i)
BY DEF PathInode, FoldLeft, MapThenFoldSet, Walking, Walk, Ends

LEMMA WalkType ==
  ASSUME NEW m \in FsType, NEW i \in Inodes \cup {ERROR}, NEW name
  PROVE  Walk(m, i, name) \in Inodes \cup {ERROR}
<1>1. CASE i = ERROR \/ ~IsDir(m, i)
  BY <1>1 DEF Walk
<1>2. CASE i # ERROR /\ IsDir(m, i) /\ Found(m, i, name)
  <2>1. i \in Inodes
    BY <1>2
  <2> QED
    BY <1>2, <2>1, FoundFacts DEF Walk
<1>3. CASE i # ERROR /\ IsDir(m, i) /\ ~Found(m, i, name)
  BY <1>3, ConstantFacts DEF Walk
<1> QED
  BY <1>1, <1>2, <1>3

(* A path is walked part by part.                                             *)
LEMMA PathSteps ==
  ASSUME NEW m \in FsType, NEW parts \in Seq(PathNames), NEW start \in Inodes
  PROVE  \E at \in [0 .. Len(parts) -> Inodes \cup {ERROR}] :
           /\ at[0] = start
           /\ \A k \in 1 .. Len(parts) : at[k] = Walk(m, at[k - 1], parts[k])
           /\ PathInode(m, parts, start) = Ends(at[Len(parts)])
<1> DEFINE A == Inodes \cup {ERROR}
           l == Len(parts)
           G == [x \in A \X (1 .. l) |-> Walk(m, x[1], parts[x[2]])]
<1>1. l \in Nat /\ DOMAIN parts = 1 .. l
  OBVIOUS
<1>2. \A a \in A : \A k \in 1 .. l : G[<<a, k>>] = Walk(m, a, parts[k]) /\ G[<<a, k>>] \in A
  BY WalkType
<1> HIDE DEF G
<1>3. start \in A
  OBVIOUS
<1>4. PICK it0 \in [SUBSET (1 .. l) -> A] : Folding(start, G, l, it0)
  <2> HIDE DEF A, l
  <2>1. \A a \in A : \A k \in 1 .. l : G[<<a, k>>] \in A
    BY <1>2
  <2> QED
    BY <1>1, <1>3, <2>1, FoldExists
<1>5. \A s \in SUBSET (1 .. l) : s # {} => Max(s) \in 1 .. l /\ s \ {Max(s)} \in SUBSET (1 .. l)
  <2> SUFFICES ASSUME NEW s \in SUBSET (1 .. l), s # {}
               PROVE  Max(s) \in 1 .. l
    OBVIOUS
  <2>1. Max(s) \in s
    BY <1>1, MaxOfInterval
  <2> QED
    BY <2>1
<1>6. Walking(m, start, parts, it0)
  <2>1. \A s \in SUBSET (1 .. l) : s # {} =>
          G[<<it0[s \ {Max(s)}], Max(s)>>] = Walk(m, it0[s \ {Max(s)}], parts[Max(s)])
    <3> SUFFICES ASSUME NEW s \in SUBSET (1 .. l), s # {}
                 PROVE  G[<<it0[s \ {Max(s)}], Max(s)>>] = Walk(m, it0[s \ {Max(s)}], parts[Max(s)])
      OBVIOUS
    <3> DEFINE t == s \ {Max(s)}
               x == Max(s)
    <3>1. t \in SUBSET (1 .. l) /\ x \in 1 .. l
      BY <1>5
    <3> HIDE DEF t, x
    <3>2. it0[t] \in A
      BY <1>4, <3>1
    <3>3. G[<<it0[t], x>>] = Walk(m, it0[t], parts[x])
      BY <1>2, <3>1, <3>2
    <3> QED
      BY <3>3 DEF t, x
  <2>2. [s \in SUBSET (1 .. l) |->
           IF s = {} THEN start ELSE G[<<it0[s \ {Max(s)}], Max(s)>>]]
        = [s \in SUBSET (1 .. l) |->
             IF s = {} THEN start ELSE Walk(m, it0[s \ {Max(s)}], parts[Max(s)])]
    BY <2>1
  <2>3. it0 = [s \in SUBSET (1 .. l) |->
                 IF s = {} THEN start ELSE Walk(m, it0[s \ {Max(s)}], parts[Max(s)])]
    BY <1>4, <2>2 DEF Folding
  <2> QED
    BY <1>1, <2>3 DEF Walking
<1> DEFINE it == CHOOSE it : Walking(m, start, parts, it)
           at == [k \in 0 .. l |-> it[1 .. k]]
<1>7. Walking(m, start, parts, it)
  BY <1>6
<1>8. PathInode(m, parts, start) = Ends(it[1 .. l])
  BY <1>1, PathIs
<1> HIDE DEF it
<1>9. it = [s \in SUBSET (1 .. l) |->
              IF s = {} THEN start ELSE Walk(m, it[s \ {Max(s)}], parts[Max(s)])]
  BY <1>1, <1>7 DEF Walking
<1>10. at[0] = start
  <2>1. 1 .. 0 = {} /\ {} \in SUBSET (1 .. l) /\ 0 \in 0 .. l
    BY <1>1
  <2>2. it[{}] = start
    BY <1>9, <2>1
  <2> QED
    BY <2>1, <2>2
<1>11. ASSUME NEW k \in 1 .. l PROVE at[k] = Walk(m, at[k - 1], parts[k])
  <2>1. /\ 1 .. k # {} /\ Max(1 .. k) = k /\ (1 .. k) \ {k} = 1 .. k - 1
        /\ 1 .. k \in SUBSET (1 .. l) /\ k - 1 \in 0 .. l /\ k \in 0 .. l
    BY <1>1, PrefixFacts
  <2>2. it[1 .. k] = Walk(m, it[(1 .. k) \ {Max(1 .. k)}], parts[Max(1 .. k)])
    BY <1>9, <2>1
  <2>3. it[1 .. k] = Walk(m, it[1 .. k - 1], parts[k])
    BY <2>1, <2>2
  <2> QED
    BY <2>1, <2>3
<1>12. at = [k \in 0 .. l |-> at[k]] /\ l \in 0 .. l /\ at[l] = it[1 .. l]
  BY <1>1
<1> HIDE DEF at
<1>13. \A k \in 0 .. l : at[k] \in A
  <2>1. at[0] \in A
    BY <1>3, <1>10
  <2>2. \A k \in 1 .. l : at[k - 1] \in A => at[k] \in A
    BY <1>11, WalkType
  <2> HIDE DEF A, l
  <2> QED
    BY <1>1, <2>1, <2>2, StepsStay
<1>14. at \in [0 .. l -> A]
  BY <1>12, <1>13
<1> QED
  BY <1>8, <1>10, <1>11, <1>12, <1>14

LEMMA PathInodeType ==
  ASSUME NEW m \in FsType, NEW parts \in Seq(PathNames), NEW start \in Inodes
  PROVE  PathInode(m, parts, start) \in Inodes
<1>1. PICK at \in [0 .. Len(parts) -> Inodes \cup {ERROR}] :
        PathInode(m, parts, start) = Ends(at[Len(parts)])
  BY PathSteps
<1>2. at[Len(parts)] \in Inodes \cup {ERROR}
  OBVIOUS
<1> QED
  BY <1>1, <1>2, ConstantFacts DEF Ends

LEMMA ResolveType ==
  ASSUME NEW m \in FsType, NEW path \in PathType, NEW cur \in Inodes
  PROVE  Resolve(m, path, cur) \in Inodes
BY PathFacts, PathInodeType DEF Resolve

LEMMA SuperDirType ==
  ASSUME NEW m \in FsType, NEW path \in PathType, NEW cur \in Inodes
  PROVE  SuperDir(m, path, cur) \in Inodes \cup {ERROR}
<1>1. Start(path, cur) \in Inodes /\ Front(Parts(path)) \in Seq(PathNames)
  BY PathFacts
<1>2. PathInode(m, Front(Parts(path)), Start(path, cur)) \in Inodes
  BY <1>1, PathInodeType
<1> QED
  BY <1>1, <1>2 DEF SuperDir


-----------------------------------------------------------------------------
(* The handlers keep the types, and the sizes within bounds *)

LEMMA SizesFitStep ==
  ASSUME NEW m \in FsType, NEW m2 \in FsType, SizesFit(m), m.bad => m2.bad,
         \A j \in Inodes : m2.inode[j].size = m.inode[j].size \/ m2.inode[j].size <= 2
  PROVE  SizesFit(m2)
<1>1. MaxBlocks * UNITS \in Nat /\ MaxBlocks * UNITS >= 2
  <2>1. MaxBlocks \in Nat /\ MaxBlocks >= 1 /\ UNITS \in Nat /\ UNITS >= 2
    BY ConstantFacts
  <2>2. MaxBlocks * UNITS >= 1 * UNITS
    BY <2>1
  <2> QED
    BY <2>1, <2>2
<1> DEFINE t == MaxBlocks * UNITS
<1> HIDE DEF t
<1>2. ASSUME NEW j \in Inodes
      PROVE  m2.inode[j].size <= t + (IF m2.bad THEN 1 ELSE 0)
  <2>1. m.inode[j].size <= t + (IF m.bad THEN 1 ELSE 0)
        /\ m.inode[j].size \in Nat /\ m2.inode[j].size \in Nat
    BY DEF SizesFit, FsType, InodeType, t
  <2>2. t \in Nat /\ t >= 2
    BY <1>1 DEF t
  <2> QED
    BY <2>1, <2>2
<1> QED
  BY <1>2 DEF SizesFit, t

LEMMA SetEntryType ==
  ASSUME NEW e \in PlaceType, NEW j \in Inodes, NEW name \in PathNames
  PROVE  /\ SetEntry(e, j, name) \in FsType
         /\ SetEntry(e, j, name)
              = [e.fs EXCEPT !.cell = WithCell(e.fs.cell, e.b, e.c, [inum |-> j, name |-> name])]
<1> DEFINE m == e.fs
           cells == WithCell(m.cell, e.b, e.c, [inum |-> j, name |-> name])
<1>1. m \in FsType /\ e.b \in Blocks /\ e.c \in 0 .. UNITS - 1 /\ m.cell \in CellsType
  BY DEF PlaceType, FsType, CellsType
<1>2. [inum |-> j, name |-> name] \in CellType
  BY DEF CellType
<1>3. SetEntry(e, j, name) = [m EXCEPT !.cell = cells]
  BY DEF SetEntry, WithCell
<1>4. cells \in CellsType
  BY <1>1, <1>2, SetCell
<1> HIDE DEF cells, m
<1>5. [m EXCEPT !.cell = cells] \in FsType
  BY <1>1, <1>4 DEF FsType, CellsType
<1> QED
  BY <1>3, <1>5 DEF cells, m

(* An inode after its type, its nlink and its size were set.                  *)
LEMMA SetInode ==
  ASSUME NEW inodes \in [Inodes -> InodeType], NEW i \in Inodes, NEW inode \in InodeType,
         NEW new, new = [inodes EXCEPT ![i] = inode]
  PROVE  /\ new \in [Inodes -> InodeType] /\ new[i] = inode
         /\ \A j \in Inodes : j # i => new[j] = inodes[j]
OBVIOUS

LEMMA MakeFileType ==
  ASSUME NEW m \in FsType
  PROVE  /\ MakeFile(m) \in FsType
         /\ MakeFile(m) = [m EXCEPT !.i_head = Rest(m.i_head),
                                    !.inode = [m.inode EXCEPT ![NextInode(m)] =
                                                 [m.inode[NextInode(m)] EXCEPT
                                                    !.type = INODE_REGULAR,
                                                    !.size = 0,
                                                    !.nlink = 1]]]
<1> DEFINE i == NextInode(m)
           inode == [m.inode[i] EXCEPT !.type = INODE_REGULAR, !.size = 0, !.nlink = 1]
           inodes == [m.inode EXCEPT ![i] = inode]
           q == Rest(m.i_head)
<1>1. i \in Inodes /\ q \in Seq(Inodes) /\ m.inode \in [Inodes -> InodeType]
  BY NextTypes DEF FsType
<1>2. inode \in InodeType
  <2> DEFINE old == m.inode[i]
  <2>1. old \in InodeType
    BY <1>1
  <2>2. inode = [old EXCEPT !.type = INODE_REGULAR, !.size = 0, !.nlink = 1]
    OBVIOUS
  <2>3. INODE_REGULAR \in 0 .. HEADER
    BY DEF INODE_REGULAR, HEADER
  <2> HIDE DEF inode, old
  <2>4. old = [type |-> old.type, nlink |-> old.nlink, size |-> old.size, direct |-> old.direct]
        /\ old.direct \in [0 .. NUM_DIRECT - 1 -> Blocks]
    BY <2>1 DEF InodeType
  <2>5. inode = [type |-> INODE_REGULAR, nlink |-> 1, size |-> 0, direct |-> old.direct]
    BY <2>2, <2>4
  <2> QED
    BY <2>3, <2>4, <2>5 DEF InodeType
<1>3. MakeFile(m) = [m EXCEPT !.i_head = q, !.inode = inodes]
  BY <1>1, ZenonT(40) DEF MakeFile, FsType
<1> HIDE DEF inode, i, q
<1>4. inodes \in [Inodes -> InodeType]
  BY <1>1, <1>2
<1> HIDE DEF inodes
<1>5. [m EXCEPT !.i_head = q, !.inode = inodes] \in FsType
  BY <1>1, <1>4 DEF FsType
<1> QED
  BY <1>3, <1>5 DEF inodes, inode, i, q

LEMMA ClearFits ==
  ASSUME NEW m \in FsType, NEW i \in Inodes, SizesFit(m)
  PROVE  SizesFit(Clear(m, i))
<1> DEFINE inodes == [m.inode EXCEPT ![i].size = 0]
<1>1. \A j \in Inodes : inodes[j].size = m.inode[j].size \/ inodes[j].size <= 2
  BY DEF FsType, InodeType
<1> DEFINE q == Reverse(BlocksOf(m, i)) \o m.b_head
<1>2. Clear(m, i) \in FsType /\ Clear(m, i) = [m EXCEPT !.b_head = q, !.inode = inodes]
  BY ClearType
<1> HIDE DEF inodes, q
<1>3. Clear(m, i).inode = inodes /\ Clear(m, i).bad = m.bad
  BY <1>2 DEF FsType
<1> QED
  BY <1>1, <1>2, <1>3, SizesFitStep

LEMMA MakeFileFits ==
  ASSUME NEW m \in FsType, SizesFit(m)
  PROVE  SizesFit(MakeFile(m))
<1> DEFINE i == NextInode(m)
           inode == [m.inode[i] EXCEPT !.type = INODE_REGULAR, !.size = 0, !.nlink = 1]
           inodes == [m.inode EXCEPT ![i] = inode]
           q == Rest(m.i_head)
<1>1. i \in Inodes /\ m.inode[i] \in InodeType
  BY NextTypes DEF FsType
<1> HIDE DEF i
<1>2. inode.size = 0
  BY <1>1 DEF InodeType
<1> HIDE DEF inode
<1>3. \A j \in Inodes : inodes[j].size = m.inode[j].size \/ inodes[j].size <= 2
  BY <1>1, <1>2 DEF FsType
<1>4. MakeFile(m) \in FsType /\ MakeFile(m) = [m EXCEPT !.i_head = q, !.inode = inodes]
  BY MakeFileType DEF i, inode
<1> HIDE DEF inodes, q
<1>5. MakeFile(m).inode = inodes /\ MakeFile(m).bad = m.bad
  BY <1>4 DEF FsType
<1> QED
  BY <1>3, <1>4, <1>5, SizesFitStep

LEMMA SetEntryFits ==
  ASSUME NEW e \in PlaceType, NEW j \in Inodes, NEW name \in PathNames, SizesFit(e.fs)
  PROVE  SizesFit(SetEntry(e, j, name))
<1> DEFINE m == e.fs
           cells == WithCell(m.cell, e.b, e.c, [inum |-> j, name |-> name])
<1>1. SetEntry(e, j, name) \in FsType /\ SetEntry(e, j, name) = [m EXCEPT !.cell = cells]
      /\ m \in FsType
  BY SetEntryType DEF PlaceType
<1>2. SizesFit(m)
  OBVIOUS
<1> HIDE DEF m, cells
<1>3. SetEntry(e, j, name).inode = m.inode /\ SetEntry(e, j, name).bad = m.bad
  BY <1>1 DEF FsType
<1> QED
  BY <1>1, <1>2, <1>3, SizesFitStep

LEMMA EntryInum ==
  ASSUME NEW e \in PlaceType
  PROVE  e.fs \in FsType /\ e.fs.cell[e.b][e.c].inum \in Inodes
BY ZenonT(40) DEF PlaceType, FsType, CellType

LEMMA CreateFileType ==
  ASSUME NEW m \in FsType, NEW path \in PathType, NEW cur \in Inodes, NEW new \in Inodes \cup {ERROR}
  PROVE  LET r == CreateFile(m, path, cur, new)
         IN  /\ r.fs \in FsType /\ r.ret \in Inodes \cup {ERROR}
             /\ ~m.bad /\ SizesFit(m) => SizesFit(r.fs)
<1> DEFINE d == SuperDir(m, path, cur)
           e == EntryFor(m, d, FileName(path))
           i == e.fs.cell[e.b][e.c].inum
           j == IF new = ERROR THEN NextInode(e.fs) ELSE new
           named == SetEntry(e, j, FileName(path))
           r == CreateFile(m, path, cur, new)
           fails == (path.abs /\ path.parts = << >>) \/ d = ERROR \/ ~IsDir(m, d)
<1>1. d \in Inodes \cup {ERROR} /\ FileName(path) \in PathNames
  BY SuperDirType, PathFacts
<1>2. CASE fails
  <2>1. r = Fail(m)
    BY <1>2, Zenon DEF CreateFile
  <2> QED
    BY <2>1 DEF Fail
<1>3. CASE ~fails
  <2>1. d \in Inodes
    BY <1>1, <1>3
  <2>2. e \in PlaceType /\ (~m.bad /\ SizesFit(m) => SizesFit(e.fs))
    BY <2>1, EntryForType
  <2>3. e.fs \in FsType /\ i \in Inodes /\ j \in Inodes
    BY <2>2, EntryInum, NextTypes
  <2>4. named \in FsType /\ (SizesFit(e.fs) => SizesFit(named))
    BY <1>1, <2>2, <2>3, SetEntryType, SetEntryFits
  <2>5. r = IF i # 0 /\ new # ERROR THEN Fail(e.fs)
            ELSE IF i # 0 THEN [fs |-> Clear(e.fs, i), ret |-> i]
            ELSE [fs |-> IF new = ERROR THEN MakeFile(named) ELSE named, ret |-> j]
    BY <1>3 DEF CreateFile
  <2>6. Clear(e.fs, i) \in FsType /\ (SizesFit(e.fs) => SizesFit(Clear(e.fs, i)))
    BY <2>3, ClearType, ClearFits, Zenon
  <2>7. MakeFile(named) \in FsType /\ (SizesFit(named) => SizesFit(MakeFile(named)))
    BY <2>4, MakeFileType, MakeFileFits, Zenon
  <2> HIDE DEF r, named, e, i, j, d, fails
  <2>8. CASE i # 0 /\ new # ERROR
    BY <2>2, <2>3, <2>5, <2>8 DEF Fail, r
  <2>9. CASE i # 0 /\ new = ERROR
    BY <2>2, <2>3, <2>5, <2>6, <2>9 DEF r
  <2>10. CASE i = 0
    BY <2>2, <2>3, <2>4, <2>5, <2>7, <2>10 DEF r
  <2> QED
    BY <2>8, <2>9, <2>10
<1> QED
  BY <1>2, <1>3


(* The inode of a file that got one link more or less.                        *)
LEMMA NlinkType ==
  ASSUME NEW m \in FsType, NEW i \in Inodes, NEW x \in Int,
         NEW new, new = [m EXCEPT !.inode = [m.inode EXCEPT ![i].nlink = x]]
  PROVE  /\ new \in FsType /\ new.bad = m.bad
         /\ \A j \in Inodes : new.inode[j].size = m.inode[j].size
         /\ SizesFit(m) => SizesFit(new)
<1> DEFINE inodes == [m.inode EXCEPT ![i].nlink = x]
<1>1. inodes \in [Inodes -> InodeType]
      /\ \A j \in Inodes : inodes[j].size = m.inode[j].size
  BY ZenonT(40) DEF FsType, InodeType
<1>2. new = [m EXCEPT !.inode = inodes]
  OBVIOUS
<1> HIDE DEF inodes
<1>3. new \in FsType /\ new.inode = inodes /\ new.bad = m.bad
  BY <1>1, <1>2 DEF FsType
<1>4. SizesFit(m) => SizesFit(new)
  <2>1. \A j \in Inodes : new.inode[j].size = m.inode[j].size
    BY <1>1, <1>3
  <2> QED
    BY <1>3, <2>1 DEF SizesFit
<1> QED
  BY <1>1, <1>3, <1>4

LEMMA FailType ==
  ASSUME NEW m \in FsType
  PROVE  /\ Fail(m).fs = m /\ Undefined(m).fs \in FsType
         /\ SizesFit(m) => SizesFit(Undefined(m).fs)
<1> DEFINE new == [m EXCEPT !.bad = TRUE]
<1>1. Fail(m).fs = m /\ Undefined(m).fs = new
  BY DEF Fail, Undefined
<1>2. new \in FsType /\ new.inode = m.inode /\ new.bad = TRUE
  BY DEF FsType
<1> HIDE DEF new
<1>3. SizesFit(m) => SizesFit(new)
  BY <1>2, SizesFitStep
<1> QED
  BY <1>1, <1>2, <1>3

LEMMA LinkFileType ==
  ASSUME NEW m \in FsType, NEW old \in PathType, NEW new \in PathType, NEW cur \in Inodes
  PROVE  LET r == LinkFile(m, old, new, cur)
         IN  r.fs \in FsType /\ (~m.bad /\ SizesFit(m) => SizesFit(r.fs))
<1> DEFINE i == Resolve(m, old, cur)
           path == [abs |-> FALSE, parts |-> new.parts]
           at == Start(new, Start(old, cur))
           c == CreateFile(m, path, at, i)
           r == LinkFile(m, old, new, cur)
<1>1. i \in Inodes /\ at \in Inodes /\ path \in PathType
  BY ResolveType, PathFacts DEF PathType
<1>2. r = IF i = 0 THEN Fail(m)
          ELSE IF IsDir(m, i) THEN Fail(m)
          ELSE IF c.ret = ERROR THEN c
          ELSE [fs |-> [c.fs EXCEPT !.inode[i].nlink = @ + 1], ret |-> 0]
  BY DEF LinkFile
<1> HIDE DEF r, path, at, i
<1>3. c.fs \in FsType /\ (~m.bad /\ SizesFit(m) => SizesFit(c.fs))
  BY <1>1, CreateFileType
<1> HIDE DEF c
<1>4. CASE i = 0 \/ IsDir(m, i)
  <2>1. r.fs = m
    BY <1>2, <1>4 DEF Fail
  <2> QED
    BY <2>1 DEF r
<1>5. CASE ~(i = 0 \/ IsDir(m, i)) /\ c.ret = ERROR
  BY <1>2, <1>3, <1>5 DEF r
<1>6. CASE ~(i = 0 \/ IsDir(m, i)) /\ c.ret # ERROR
  <2> DEFINE f == c.fs
             x == f.inode[i].nlink + 1
             more == [f EXCEPT !.inode = [f.inode EXCEPT ![i].nlink = x]]
  <2>1. x \in Int /\ f \in FsType
    <3>1. f \in FsType
      BY <1>3
    <3> HIDE DEF f
    <3>2. f.inode[i] \in InodeType
      BY <1>1, <3>1 DEF FsType
    <3>3. f.inode[i].nlink \in Int
      BY <3>2 DEF InodeType
    <3> QED
      BY <3>1, <3>3
  <2>2. r.fs = more
    BY <1>1, <1>2, <1>6, <2>1 DEF FsType
  <2> HIDE DEF x, f
  <2>3. more \in FsType /\ (SizesFit(f) => SizesFit(more))
    BY <1>1, <2>1, NlinkType
  <2> QED
    BY <1>3, <2>2, <2>3 DEF r, f
<1> QED
  BY <1>4, <1>5, <1>6

LEMMA SetInumType ==
  ASSUME NEW m \in FsType, NEW b \in Blocks, NEW c \in 0 .. UNITS - 1, NEW i \in Inodes,
         NEW new, new = [m EXCEPT !.cell = WithInum(m.cell, b, c, i)]
  PROVE  /\ new \in FsType /\ new.bad = m.bad /\ new.inode = m.inode
         /\ SizesFit(m) => SizesFit(new)
<1> DEFINE cells == WithInum(m.cell, b, c, i)
<1>1. cells \in CellsType
  <2>1. m.cell \in CellsType
    BY DEF FsType, CellsType
  <2> QED
    BY <2>1, SetInum
<1> HIDE DEF cells
<1>2. new = [m EXCEPT !.cell = cells]
  BY DEF cells
<1>3. new \in FsType /\ new.bad = m.bad /\ new.inode = m.inode
  BY <1>1, <1>2 DEF FsType, CellsType
<1> QED
  BY <1>3, SizesFitStep

LEMMA UnlinkFileType ==
  ASSUME NEW m \in FsType, NEW path \in PathType, NEW cur \in Inodes
  PROVE  LET r == UnlinkFile(m, path, cur)
         IN  r.fs \in FsType /\ (~m.bad /\ SizesFit(m) => SizesFit(r.fs))
<1> DEFINE d == SuperDir(m, path, cur)
           name == FileName(path)
           k == Min(Matching(m, d, name))
           i == CellAt(m, d, k).inum
           less == [m EXCEPT !.inode[i].nlink = @ - 1]
           done == IF less.inode[i].nlink = 0 THEN Clear(less, i) ELSE less
           b == NthBlock(m, d, k \div UNITS)
           c == k % UNITS
           r == UnlinkFile(m, path, cur)
<1>1. r = IF d = ERROR THEN Undefined(m)
          ELSE IF ~IsDir(m, d) \/ ~Found(m, d, name) THEN Fail(m)
          ELSE [fs |-> [done EXCEPT !.cell[b][c].inum = 0], ret |-> 0]
  BY DEF UnlinkFile
<1>2. d \in Inodes \cup {ERROR}
  BY SuperDirType
<1>3. CASE d = ERROR \/ ~IsDir(m, d) \/ ~Found(m, d, name)
  <2> HIDE DEF r, d, name, done, b, c
  <2>1. r = Undefined(m) \/ r = Fail(m)
    BY <1>1, <1>3
  <2> QED
    BY <2>1, FailType DEF r
<1>4. CASE ~(d = ERROR \/ ~IsDir(m, d) \/ ~Found(m, d, name))
  <2>1. d \in Inodes
    BY <1>2, <1>4
  <2>2. k \in Nat /\ i \in Inodes
    <3>1. Found(m, d, name)
      BY <1>4
    <3>2. Inum(m, d, name) = i
      BY DEF Inum
    <3> QED
      BY <2>1, <3>1, <3>2, FoundFacts
  <2>3. b \in Blocks /\ c \in 0 .. UNITS - 1
    BY <2>1, <2>2, CellFacts
  <2> HIDE DEF d, name, k, i, b, c
  <2>4. less \in FsType /\ (SizesFit(m) => SizesFit(less))
    <3> DEFINE x == m.inode[i].nlink - 1
               new == [m EXCEPT !.inode = [m.inode EXCEPT ![i].nlink = x]]
    <3>1. x \in Int /\ less = new
      BY <2>2 DEF FsType, InodeType
    <3> HIDE DEF x
    <3>2. new \in FsType /\ (SizesFit(m) => SizesFit(new))
      BY <2>2, <3>1, NlinkType
    <3> QED
      BY <3>1, <3>2
  <2> HIDE DEF less
  <2>5. done \in FsType /\ (SizesFit(less) => SizesFit(done))
    BY <2>2, <2>4, ClearType, ClearFits
  <2> HIDE DEF done, r
  <2>6. r.fs = [done EXCEPT !.cell[b][c].inum = 0]
    BY <1>1, <1>4
  <2> DEFINE gone == [done EXCEPT !.cell = WithInum(done.cell, b, c, 0)]
  <2>7. r.fs = gone
    BY <2>5, <2>6 DEF WithInum, FsType
  <2>8. gone \in FsType /\ (SizesFit(done) => SizesFit(gone))
    BY <2>3, <2>5, SetInumType, ConstantFacts
  <2> QED
    BY <2>4, <2>5, <2>7, <2>8 DEF r
<1> QED
  BY <1>3, <1>4


(* The new directory of handle_mkdir: its inode and the two entries of its    *)
(* block.                                                                     *)
DirInode(old, b) ==
  [old EXCEPT !.type = INODE_DIRECTORY, !.size = 2, !.nlink = 1, !.direct[0] = b]
DirCells(cells, i, d, b) == [cells EXCEPT ![b] = DirRow(@, i, d)]
NewDir(m, i, d, b) ==
  [m EXCEPT !.i_head = Rest(m.i_head),
            !.b_head = Rest(m.b_head),
            !.inode = [m.inode EXCEPT ![i] = DirInode(m.inode[i], b)],
            !.cell = DirCells(m.cell, i, d, b),
            !.bad = m.bad \/ b \in TableBlocks \cup {0}]

LEMMA DirInodeType ==
  ASSUME NEW old \in InodeType, NEW b \in Blocks
  PROVE  /\ DirInode(old, b) \in InodeType
         /\ DirInode(old, b).type = INODE_DIRECTORY /\ DirInode(old, b).size = 2
         /\ DirInode(old, b).direct = [old.direct EXCEPT ![0] = b]
<1> DEFINE direct == [old.direct EXCEPT ![0] = b]
<1>1. old = [type |-> old.type, nlink |-> old.nlink, size |-> old.size, direct |-> old.direct]
      /\ old.direct \in [0 .. NUM_DIRECT - 1 -> Blocks]
  BY DEF InodeType
<1>2. direct \in [0 .. NUM_DIRECT - 1 -> Blocks]
  BY <1>1
<1> HIDE DEF direct
<1>3. DirInode(old, b) = [type |-> INODE_DIRECTORY, nlink |-> 1, size |-> 2, direct |-> direct]
  <2>1. DirInode(old, b) = [old EXCEPT !.type = INODE_DIRECTORY, !.size = 2, !.nlink = 1,
                                       !.direct = direct]
    BY <1>1 DEF DirInode, direct
  <2> QED
    BY <1>1, <2>1
<1>4. INODE_DIRECTORY \in 0 .. HEADER
  BY DEF INODE_DIRECTORY, HEADER
<1>5. DirInode(old, b) \in InodeType
  BY <1>2, <1>3, <1>4 DEF InodeType
<1> QED
  BY <1>3, <1>5 DEF direct

LEMMA DirCellsType ==
  ASSUME NEW cells \in CellsType, NEW i \in Inodes, NEW d \in Inodes, NEW b \in Blocks
  PROVE  /\ DirCells(cells, i, d, b) \in CellsType
         /\ DirCells(cells, i, d, b)[b][0] = [inum |-> i, name |-> DotOver(cells[b][0].name)]
         /\ DirCells(cells, i, d, b)[b][1] = [inum |-> d, name |-> DotDotOver(cells[b][1].name)]
         /\ \A b2 \in Blocks, c2 \in 0 .. UNITS - 1 :
              b2 # b \/ c2 >= 2 => DirCells(cells, i, d, b)[b2][c2] = cells[b2][c2]
<1> DEFINE row == cells[b]
           cell0 == [inum |-> i, name |-> DotOver(row[0].name)]
           cell1 == [inum |-> d, name |-> DotDotOver(row[1].name)]
           row2 == [row EXCEPT ![0] = cell0, ![1] = cell1]
           new == [cells EXCEPT ![b] = row2]
<1>1. 0 \in 0 .. UNITS - 1 /\ 1 \in 0 .. UNITS - 1 /\ UNITS \in Nat
  BY ConstantFacts
<1>2. \A name : DotOver(name) \in PathNames \cup {Junk} /\ DotDotOver(name) \in PathNames \cup {Junk}
  BY DEF DotOver, DotDotOver, PathNames
<1>3. cell0 \in CellType /\ cell1 \in CellType
  BY <1>2 DEF CellType
<1>4. row \in [0 .. UNITS - 1 -> CellType]
  BY DEF CellsType
<1>5. DirCells(cells, i, d, b) = new
  <2>1. DirCells(cells, i, d, b) = [cells EXCEPT ![b] = DirRow(row, i, d)]
    BY DEF DirCells
  <2> HIDE DEF row
  <2>2. DirRow(row, i, d) = row2
    BY <1>1, <1>4 DEF DirRow
  <2> HIDE DEF row2
  <2> QED
    BY <2>1, <2>2
<1> HIDE DEF cell0, cell1, row
<1>6. row2 \in [0 .. UNITS - 1 -> CellType] /\ row2[0] = cell0 /\ row2[1] = cell1
      /\ \A c \in 0 .. UNITS - 1 : c >= 2 => row2[c] = row[c]
  BY <1>1, <1>3, <1>4
<1> HIDE DEF row2
<1>7. new \in CellsType /\ new[b] = row2 /\ \A b2 \in Blocks : b2 # b => new[b2] = cells[b2]
  BY <1>6 DEF CellsType
<1> HIDE DEF new
<1>8. \A b2 \in Blocks, c2 \in 0 .. UNITS - 1 : b2 # b \/ c2 >= 2 => new[b2][c2] = cells[b2][c2]
  BY <1>6, <1>7 DEF row
<1> QED
  BY <1>5, <1>6, <1>7, <1>8 DEF cell0, cell1, row

LEMMA NewDirType ==
  ASSUME NEW m \in FsType, NEW i \in Inodes, NEW d \in Inodes, NEW b \in Blocks
  PROVE  /\ NewDir(m, i, d, b) \in FsType
         /\ SizesFit(m) => SizesFit(NewDir(m, i, d, b))
<1> DEFINE is == Rest(m.i_head)
           bs == Rest(m.b_head)
           inode == DirInode(m.inode[i], b)
           inodes == [m.inode EXCEPT ![i] = inode]
           cells == DirCells(m.cell, i, d, b)
           bad == m.bad \/ b \in TableBlocks \cup {0}
           new == [m EXCEPT !.i_head = is, !.b_head = bs, !.inode = inodes, !.cell = cells,
                            !.bad = bad]
<1>1. m.inode \in [Inodes -> InodeType] /\ m.cell \in CellsType /\ m.bad \in BOOLEAN
  BY DEF FsType, CellsType
<1>2. is \in Seq(Inodes) /\ bs \in Seq(Blocks)
  BY NextTypes
<1>3. inode \in InodeType /\ inode.size = 2
  <2>1. m.inode[i] \in InodeType
    BY <1>1
  <2> QED
    BY <2>1, DirInodeType
<1>4. cells \in CellsType
  BY <1>1, DirCellsType
<1>5. bad \in BOOLEAN
  BY <1>1
<1> HIDE DEF inode
<1>6. inodes \in [Inodes -> InodeType]
      /\ \A j \in Inodes : inodes[j].size = m.inode[j].size \/ inodes[j].size <= 2
  BY <1>1, <1>3
<1> HIDE DEF is, bs, inodes, cells, bad
<1>7. new \in FsType /\ new.inode = inodes /\ new.bad = bad
  BY <1>2, <1>4, <1>5, <1>6 DEF FsType, CellsType
<1>8. NewDir(m, i, d, b) = new
  BY DEF NewDir, is, bs, inodes, inode, cells, bad
<1>9. m.bad => bad
  BY DEF bad
<1> HIDE DEF new
<1> QED
  BY <1>6, <1>7, <1>8, <1>9, SizesFitStep

LEMMA MakeDirCases ==
  ASSUME NEW m \in FsType, NEW path \in PathType, NEW cur \in Inodes
  PROVE  LET d == SuperDir(m, path, cur)
             e == EntryFor(m, d, FileName(path))
             i == NextInode(e.fs)
             b == NextBlock(e.fs)
             named == SetEntry(e, i, FileName(path))
         IN  MakeDir(m, path, cur)
               = IF d = ERROR THEN Undefined(m)
                 ELSE IF e.fs.cell[e.b][e.c].inum # 0 THEN Fail(e.fs)
                 ELSE [fs |-> NewDir(named, i, d, b), ret |-> 0]
<1> DEFINE d == SuperDir(m, path, cur)
           e == EntryFor(m, d, FileName(path))
           i == NextInode(e.fs)
           b == NextBlock(e.fs)
           named == SetEntry(e, i, FileName(path))
           new == [named EXCEPT
                      !.i_head = Rest(@),
                      !.b_head = Rest(@),
                      !.inode[i] = DirInode(@, b),
                      !.cell = DirCells(@, i, d, b),
                      !.bad = @ \/ b \in TableBlocks \cup {0}]
<1>1. MakeDir(m, path, cur)
        = IF d = ERROR THEN Undefined(m)
          ELSE IF e.fs.cell[e.b][e.c].inum # 0 THEN Fail(e.fs)
          ELSE [fs |-> new, ret |-> 0]
  BY DEF MakeDir, DirInode, DirCells
<1>2. ASSUME d # ERROR PROVE new = NewDir(named, i, d, b)
  <2>1. d \in Inodes /\ FileName(path) \in PathNames
    BY <1>2, SuperDirType, PathFacts
  <2>2. e \in PlaceType
    BY <2>1, EntryForType
  <2>3. e.fs \in FsType /\ i \in Inodes /\ b \in Blocks
    BY <2>2, NextTypes, EntryInum
  <2>4. named \in FsType
    BY <2>1, <2>2, <2>3, SetEntryType
  <2> HIDE DEF named, i, b, d
  <2> QED
    BY <2>4 DEF NewDir, FsType
<1> HIDE DEF new
<1> QED
  BY <1>1, <1>2


LEMMA MakeDirType ==
  ASSUME NEW m \in FsType, NEW path \in PathType, NEW cur \in Inodes
  PROVE  LET r == MakeDir(m, path, cur)
         IN  r.fs \in FsType /\ (~m.bad /\ SizesFit(m) => SizesFit(r.fs))
<1> DEFINE d == SuperDir(m, path, cur)
           e == EntryFor(m, d, FileName(path))
           i == NextInode(e.fs)
           b == NextBlock(e.fs)
           named == SetEntry(e, i, FileName(path))
           r == MakeDir(m, path, cur)
<1>1. r = IF d = ERROR THEN Undefined(m)
          ELSE IF e.fs.cell[e.b][e.c].inum # 0 THEN Fail(e.fs)
          ELSE [fs |-> NewDir(named, i, d, b), ret |-> 0]
  BY MakeDirCases
<1>2. CASE d = ERROR
  <2> HIDE DEF r
  <2> QED
    BY <1>1, <1>2, FailType DEF r
<1>3. CASE d # ERROR
  <2>1. d \in Inodes /\ FileName(path) \in PathNames
    BY <1>3, SuperDirType, PathFacts
  <2>2. e \in PlaceType /\ (~m.bad /\ SizesFit(m) => SizesFit(e.fs))
    BY <2>1, EntryForType
  <2>3. e.fs \in FsType /\ i \in Inodes /\ b \in Blocks
    BY <2>2, NextTypes, EntryInum
  <2>4. named \in FsType /\ (SizesFit(e.fs) => SizesFit(named))
    BY <2>1, <2>2, <2>3, SetEntryType, SetEntryFits
  <2> HIDE DEF named, i, b, d, e, r
  <2>5. NewDir(named, i, d, b) \in FsType
        /\ (SizesFit(named) => SizesFit(NewDir(named, i, d, b)))
    BY <2>1, <2>3, <2>4, NewDirType
  <2>6. r.fs = e.fs \/ r.fs = NewDir(named, i, d, b)
    BY <1>1, <1>3 DEF Fail
  <2> QED
    BY <2>2, <2>3, <2>4, <2>5, <2>6 DEF r
<1> QED
  BY <1>2, <1>3

(* What handle_rmdir leaves of the directory before it looks for the entry.   *)
Gone(m, i) == [Clear(m, i) EXCEPT !.i_head = <<i>> \o @]

LEMMA GoneType ==
  ASSUME NEW m \in FsType, NEW i \in Inodes
  PROVE  /\ Gone(m, i) \in FsType /\ Gone(m, i).bad = m.bad
         /\ Gone(m, i).inode = Clear(m, i).inode /\ Gone(m, i).b_head = Clear(m, i).b_head
         /\ Gone(m, i).cell = m.cell /\ Gone(m, i).indirect = m.indirect
         /\ Gone(m, i).i_head = <<i>> \o m.i_head
         /\ SizesFit(m) => SizesFit(Gone(m, i))
<1> DEFINE f == Clear(m, i)
           q == <<i>> \o f.i_head
           new == [f EXCEPT !.i_head = q]
<1>1. f \in FsType /\ f.bad = m.bad /\ f.cell = m.cell /\ f.indirect = m.indirect
      /\ f.i_head = m.i_head
  <2> DEFINE x == Reverse(BlocksOf(m, i)) \o m.b_head
             y == [m.inode EXCEPT ![i].size = 0]
  <2>1. f \in FsType /\ f = [m EXCEPT !.b_head = x, !.inode = y]
    BY ClearType
  <2> HIDE DEF x, y, f
  <2> QED
    BY <2>1 DEF FsType
<1>2. SizesFit(m) => SizesFit(f)
  BY ClearFits
<1> HIDE DEF f
<1>3. q \in Seq(Inodes)
  BY <1>1 DEF FsType
<1>4. Gone(m, i) = new
  BY DEF Gone, f
<1> HIDE DEF q
<1>5. new \in FsType /\ new.bad = f.bad /\ new.inode = f.inode /\ new.b_head = f.b_head
      /\ new.cell = f.cell /\ new.indirect = f.indirect /\ new.i_head = q
  BY <1>1, <1>3 DEF FsType
<1>6. SizesFit(f) => SizesFit(new)
  BY <1>1, <1>5, SizesFitStep
<1> HIDE DEF new
<1> QED
  BY <1>1, <1>2, <1>4, <1>5, <1>6 DEF f, q

LEMMA RemoveDirType ==
  ASSUME NEW m \in FsType, NEW path \in PathType, NEW cur \in Inodes
  PROVE  LET r == RemoveDir(m, path, cur)
         IN  r.fs \in FsType /\ (~m.bad /\ SizesFit(m) => SizesFit(r.fs))
<1> DEFINE i == Resolve(m, path, cur)
           gone == Gone(m, i)
           d == SuperDir(gone, path, cur)
           e == EntryFor(gone, d, FileName(path))
           r == RemoveDir(m, path, cur)
<1>1. r = IF m.inode[i].size > 2 THEN Fail(m)
          ELSE IF d = ERROR THEN Undefined(gone)
          ELSE [fs |-> [e.fs EXCEPT !.cell[e.b][e.c].inum = 0], ret |-> 0]
  BY DEF RemoveDir, Gone
<1>2. i \in Inodes
  BY ResolveType
<1>3. gone \in FsType /\ gone.bad = m.bad /\ (SizesFit(m) => SizesFit(gone))
  BY <1>2, GoneType
<1>4. d \in Inodes \cup {ERROR}
  BY <1>3, SuperDirType
<1>5. CASE m.inode[i].size > 2
  <2> HIDE DEF r
  <2> QED
    BY <1>1, <1>5, FailType, Zenon DEF r
<1>6. CASE ~(m.inode[i].size > 2) /\ d = ERROR
  <2> HIDE DEF r, gone
  <2> QED
    BY <1>1, <1>3, <1>6, FailType, Zenon DEF r
<1>7. CASE ~(m.inode[i].size > 2) /\ d # ERROR
  <2>1. e \in PlaceType /\ (~gone.bad /\ SizesFit(gone) => SizesFit(e.fs))
    BY <1>3, <1>4, <1>7, EntryForType
  <2> DEFINE f == e.fs
             b == e.b
             c == e.c
             new == [f EXCEPT !.cell = WithInum(f.cell, b, c, 0)]
  <2>2. f \in FsType /\ b \in Blocks /\ c \in 0 .. UNITS - 1
    BY <2>1 DEF PlaceType
  <2> HIDE DEF r, d, e, gone, new
  <2>3. r.fs = [f EXCEPT !.cell[b][c].inum = 0]
    BY <1>1, <1>7
  <2> HIDE DEF f, b, c
  <2>4. r.fs = new
    BY <2>2, <2>3 DEF WithInum, FsType, new
  <2>5. new \in FsType /\ (SizesFit(f) => SizesFit(new))
    BY <2>2, SetInumType, ConstantFacts DEF new
  <2> QED
    BY <1>3, <2>1, <2>4, <2>5 DEF r, f
<1> QED
  BY <1>5, <1>6, <1>7


(* One unit of handle_write.                                                  *)
Put(i, pos, n, valid, r, k) ==
  LET g == GrowBlock(r.fs, i, k \div UNITS)
  IN  IF r.ret = ERROR THEN r
      ELSE IF g.b = 0 \/ ChunkEnd(k, pos + n) > pos + valid THEN Fail(g.fs)
      ELSE [r EXCEPT !.fs = [g.fs EXCEPT
              !.cell[g.b][k % UNITS] = [inum |-> i, name |-> Junk],
              !.inode[i].size = Max({@, k + 1})]]

Unit(f, i, b, k) ==
  [f EXCEPT !.cell = WithCell(f.cell, b, k % UNITS, [inum |-> i, name |-> Junk]),
            !.inode = [f.inode EXCEPT ![i].size = Max({f.inode[i].size, k + 1})]]

Units(pos, n) == [j \in 1 .. n |-> pos + j - 1]

Writing(m, i, pos, n, valid, it) ==
  it = [s \in SUBSET (DOMAIN Units(pos, n)) |->
          IF s = {} THEN [fs |-> m, ret |-> n]
          ELSE Put(i, pos, n, valid, it[s \ {Max(s)}], Units(pos, n)[Max(s)])]

LEMMA WriteIs ==
  ASSUME NEW m, NEW i, NEW pos, NEW n, NEW valid
  PROVE  WriteFile(m, i, pos, n, valid)
           = (CHOOSE it : Writing(m, i, pos, n, valid, it))[DOMAIN Units(pos, n)]
BY DEF WriteFile, FoldLeft, MapThenFoldSet, Writing, Put, Units

ReplyType(n) == [fs : FsType, ret : {n, ERROR}]

LEMMA UnitType ==
  ASSUME NEW f \in FsType, NEW i \in Inodes, NEW b \in Blocks, NEW k \in Nat
  PROVE  /\ Unit(f, i, b, k) \in FsType
         /\ Unit(f, i, b, k).inode[i].size
              = IF f.inode[i].size >= k + 1 THEN f.inode[i].size ELSE k + 1
         /\ Unit(f, i, b, k).inode[i].type = f.inode[i].type
         /\ Unit(f, i, b, k).inode[i].direct = f.inode[i].direct
         /\ Unit(f, i, b, k).inode[i].nlink = f.inode[i].nlink
         /\ \A j \in Inodes : j # i => Unit(f, i, b, k).inode[j] = f.inode[j]
         /\ Unit(f, i, b, k).cell = WithCell(f.cell, b, k % UNITS, [inum |-> i, name |-> Junk])
         /\ Unit(f, i, b, k).bad = f.bad /\ Unit(f, i, b, k).b_head = f.b_head
         /\ Unit(f, i, b, k).i_head = f.i_head /\ Unit(f, i, b, k).indirect = f.indirect
<1> DEFINE size == f.inode[i].size
           most == Max({size, k + 1})
           cells == WithCell(f.cell, b, k % UNITS, [inum |-> i, name |-> Junk])
           inodes == [f.inode EXCEPT ![i].size = most]
           new == [f EXCEPT !.cell = cells, !.inode = inodes]
<1>1. f.inode \in [Inodes -> InodeType] /\ f.cell \in CellsType /\ size \in Nat
  BY DEF FsType, CellsType, InodeType
<1>2. most = (IF size >= k + 1 THEN size ELSE k + 1) /\ most \in Nat
  <2> HIDE DEF size
  <2>1. size \in Int /\ k + 1 \in Int
    BY <1>1
  <2>2. most = IF size >= k + 1 THEN size ELSE k + 1
    BY <2>1, MaxOfTwo
  <2> HIDE DEF most
  <2> QED
    BY <1>1, <2>2
<1>3. cells \in CellsType
  <2>1. UNITS \in Nat /\ UNITS >= 1
    BY ConstantFacts
  <2>2. k % UNITS \in 0 .. UNITS - 1
    BY <2>1, DivFacts
  <2>3. [inum |-> i, name |-> Junk] \in CellType
    BY DEF CellType
  <2> QED
    BY <1>1, <2>2, <2>3, SetCell
<1>4. Unit(f, i, b, k) = new
  BY DEF Unit
<1> HIDE DEF most, cells
<1>5. /\ inodes \in [Inodes -> InodeType] /\ inodes[i].size = most
      /\ inodes[i].type = f.inode[i].type /\ inodes[i].direct = f.inode[i].direct
      /\ inodes[i].nlink = f.inode[i].nlink
      /\ \A j \in Inodes : j # i => inodes[j] = f.inode[j]
  <2> DEFINE old == f.inode
  <2>1. old \in [Inodes -> InodeType] /\ inodes = [old EXCEPT ![i].size = most]
    BY <1>1
  <2> HIDE DEF old, inodes
  <2>2. /\ inodes \in [Inodes -> InodeType] /\ inodes[i].size = most
        /\ inodes[i] = [old[i] EXCEPT !.size = most] /\ old[i] \in InodeType
        /\ \A j \in Inodes : j # i => inodes[j] = old[j]
    BY <1>2, <2>1, SetSize
  <2>3. inodes[i].type = old[i].type /\ inodes[i].direct = old[i].direct
        /\ inodes[i].nlink = old[i].nlink
    BY <2>2 DEF InodeType
  <2> QED
    BY <2>2, <2>3 DEF old
<1> HIDE DEF inodes
<1>6. /\ new \in FsType /\ new.inode = inodes /\ new.cell = cells /\ new.bad = f.bad
      /\ new.b_head = f.b_head /\ new.i_head = f.i_head /\ new.indirect = f.indirect
  BY <1>3, <1>5 DEF FsType, CellsType
<1> HIDE DEF new
<1> QED
  BY <1>2, <1>4, <1>5, <1>6 DEF most, cells

LEMMA PutCases ==
  ASSUME NEW i \in Inodes, NEW pos \in Nat, NEW n \in Nat, NEW valid \in Nat,
         NEW r \in ReplyType(n), NEW k \in Nat
  PROVE  LET g == GrowBlock(r.fs, i, k \div UNITS)
         IN  Put(i, pos, n, valid, r, k)
               = IF r.ret = ERROR THEN r
                 ELSE IF g.b = 0 \/ ChunkEnd(k, pos + n) > pos + valid
                      THEN [fs |-> g.fs, ret |-> ERROR]
                 ELSE [fs |-> Unit(g.fs, i, g.b, k), ret |-> r.ret]
<1> DEFINE g == GrowBlock(r.fs, i, k \div UNITS)
           f == g.fs
           b == g.b
           new == [f EXCEPT !.cell[b][k % UNITS] = [inum |-> i, name |-> Junk],
                            !.inode[i].size = Max({@, k + 1})]
<1>1. Put(i, pos, n, valid, r, k)
        = IF r.ret = ERROR THEN r
          ELSE IF g.b = 0 \/ ChunkEnd(k, pos + n) > pos + valid THEN Fail(g.fs)
          ELSE [r EXCEPT !.fs = new]
  BY DEF Put
<1>2. f \in FsType
  <2>1. r.fs \in FsType
    BY DEF ReplyType
  <2>2. k \div UNITS \in Nat
    <3>1. UNITS \in Nat /\ UNITS >= 1
      BY ConstantFacts
    <3> QED
      BY <3>1, DivFacts
  <2> QED
    BY <2>1, <2>2, GrowType
<1> HIDE DEF g
<1>3. new = Unit(f, i, b, k)
  <2> HIDE DEF f, b
  <2> QED
    BY <1>2 DEF Unit, WithCell, FsType
<1> HIDE DEF new
<1>4. [r EXCEPT !.fs = new] = [fs |-> new, ret |-> r.ret]
  BY DEF ReplyType
<1> QED
  BY <1>1, <1>3, <1>4 DEF Fail, g

LEMMA PutType ==
  ASSUME NEW i \in Inodes, NEW pos \in Nat, NEW n \in Nat, NEW valid \in Nat,
         NEW r \in ReplyType(n), NEW k \in Nat
  PROVE  LET p == Put(i, pos, n, valid, r, k)
         IN  /\ p \in ReplyType(n) /\ (SizesFit(r.fs) => SizesFit(p.fs))
             /\ \A j \in Inodes : p.fs.inode[j].type = r.fs.inode[j].type
<1> DEFINE g == GrowBlock(r.fs, i, k \div UNITS)
           p == Put(i, pos, n, valid, r, k)
           f == g.fs
           b == g.b
<1>1. r.fs \in FsType /\ r.ret \in {n, ERROR}
  BY DEF ReplyType
<1>2. UNITS \in Nat /\ UNITS >= 1 /\ MaxBlocks \in Nat
  BY ConstantFacts
<1>3. k \div UNITS \in Nat /\ (k < MaxBlocks * UNITS <=> k \div UNITS < MaxBlocks)
  BY <1>2, DivFacts, DivBelow
<1>4. /\ f \in FsType /\ b \in Blocks /\ (b # 0 => k < MaxBlocks * UNITS)
      /\ \A j \in Inodes : /\ f.inode[j].size = r.fs.inode[j].size
                           /\ f.inode[j].type = r.fs.inode[j].type
  <2>1. k \div UNITS >= MaxBlocks => b = 0
    BY <1>1, <1>3, GrowType
  <2> QED
    BY <1>1, <1>2, <1>3, <2>1, GrowType
<1>5. r.fs.bad => f.bad
  <2>1. GrowBlock(r.fs, i, k \div UNITS).fs.bad \in BOOLEAN /\ r.fs.bad \in BOOLEAN
    BY <1>1, <1>4 DEF FsType
  <2> QED
    BY <1>1, <1>3, GrowBad
<1>6. SizesFit(r.fs) => SizesFit(f)
  BY <1>1, <1>4, <1>5, SizesFitStep
<1>7. p = IF r.ret = ERROR THEN r
          ELSE IF b = 0 \/ ChunkEnd(k, pos + n) > pos + valid THEN [fs |-> f, ret |-> ERROR]
          ELSE [fs |-> Unit(f, i, b, k), ret |-> r.ret]
  BY PutCases
<1> HIDE DEF f, b, g, p
<1>8. CASE r.ret = ERROR
  BY <1>7, <1>8 DEF p
<1>9. CASE r.ret # ERROR /\ (b = 0 \/ ChunkEnd(k, pos + n) > pos + valid)
  BY <1>4, <1>6, <1>7, <1>9 DEF p, ReplyType
<1>10. CASE r.ret # ERROR /\ b # 0 /\ ~(ChunkEnd(k, pos + n) > pos + valid)
  <2> DEFINE u == Unit(f, i, b, k)
  <2>1. p = [fs |-> u, ret |-> r.ret]
    BY <1>7, <1>10, Zenon
  <2>2. /\ u \in FsType /\ u.bad = f.bad
        /\ u.inode[i].size = IF f.inode[i].size >= k + 1 THEN f.inode[i].size ELSE k + 1
        /\ \A j \in Inodes : j # i => u.inode[j] = f.inode[j]
    <3>1. f \in FsType /\ i \in Inodes /\ b \in Blocks /\ k \in Nat
      BY <1>4
    <3> QED
      BY <3>1, UnitType, ZenonT(60)
  <2>3. \A j \in Inodes : u.inode[j].type = f.inode[j].type
    <3>1. u.inode[i].type = f.inode[i].type
      BY <1>4, UnitType
    <3> QED
      BY <2>2, <3>1
  <2> HIDE DEF u
  <2>4. k + 1 <= MaxBlocks * UNITS /\ MaxBlocks * UNITS \in Nat
    BY <1>2, <1>4, <1>10
  <2> DEFINE t == MaxBlocks * UNITS
  <2> HIDE DEF t
  <2>5. ASSUME SizesFit(f), NEW j \in Inodes
        PROVE  u.inode[j].size <= t + (IF u.bad THEN 1 ELSE 0)
    <3>1. f.inode[j].size <= t + (IF f.bad THEN 1 ELSE 0) /\ f.inode[j].size \in Nat
          /\ t \in Nat /\ k + 1 <= t
      BY <1>4, <2>4, <2>5 DEF SizesFit, FsType, InodeType, t
    <3>2. CASE j = i
      BY <2>2, <3>1, <3>2
    <3>3. CASE j # i
      BY <2>2, <3>1, <3>3
    <3> QED
      BY <3>2, <3>3
  <2>6. SizesFit(f) => SizesFit(u)
    BY <2>5 DEF SizesFit, t
  <2>7. p \in ReplyType(n) /\ p.fs = u
    BY <1>1, <2>1, <2>2 DEF ReplyType
  <2> QED
    BY <1>4, <1>6, <2>3, <2>6, <2>7 DEF p
<1> QED
  BY <1>8, <1>9, <1>10


(* handle_write copies unit by unit.                                          *)
WritesBy(m, i, pos, n, valid, at) ==
  /\ at[0] = [fs |-> m, ret |-> n]
  /\ \A k \in 1 .. n : at[k] = Put(i, pos, n, valid, at[k - 1], pos + k - 1)
  /\ WriteFile(m, i, pos, n, valid) = at[n]

LEMMA WriteSteps ==
  ASSUME NEW m \in FsType, NEW i \in Inodes, NEW pos \in Nat, NEW n \in Nat, NEW valid \in Nat
  PROVE  \E at \in [0 .. n -> ReplyType(n)] : WritesBy(m, i, pos, n, valid, at)
<1> DEFINE A == ReplyType(n)
           start == [fs |-> m, ret |-> n]
           parts == Units(pos, n)
           Step(r, k) == Put(i, pos, n, valid, r, k)
           G == [x \in A \X (1 .. n) |-> Step(x[1], parts[x[2]])]
<1>1. DOMAIN parts = 1 .. n /\ \A k \in 1 .. n : parts[k] = pos + k - 1 /\ parts[k] \in Nat
  BY DEF Units
<1> HIDE DEF parts
<1>2. \A r \in A : \A k \in 1 .. n : Step(r, parts[k]) \in A
  BY <1>1, PutType
<1> HIDE DEF Step
<1>3. start \in A
  BY DEF ReplyType
<1>4. \A a \in A : \A k \in 1 .. n : G[<<a, k>>] = Step(a, parts[k]) /\ G[<<a, k>>] \in A
  BY <1>2
<1> HIDE DEF G
<1>5. PICK it0 \in [SUBSET (1 .. n) -> A] : Folding(start, G, n, it0)
  <2>1. \A a \in A : \A k \in 1 .. n : G[<<a, k>>] \in A
    BY <1>4
  <2> HIDE DEF A, start
  <2> QED
    BY <1>3, <2>1, FoldExists
<1>6. \A s \in SUBSET (1 .. n) : s # {} => Max(s) \in 1 .. n /\ s \ {Max(s)} \in SUBSET (1 .. n)
  <2> SUFFICES ASSUME NEW s \in SUBSET (1 .. n), s # {}
               PROVE  Max(s) \in 1 .. n
    OBVIOUS
  <2>1. Max(s) \in s
    BY MaxOfInterval
  <2> QED
    BY <2>1
<1> DEFINE Walks(it) == it = [s \in SUBSET (1 .. n) |->
                                IF s = {} THEN start ELSE Step(it[s \ {Max(s)}], parts[Max(s)])]
<1>7. Walks(it0)
  <2>1. \A s \in SUBSET (1 .. n) : s # {} =>
          G[<<it0[s \ {Max(s)}], Max(s)>>] = Step(it0[s \ {Max(s)}], parts[Max(s)])
    <3> SUFFICES ASSUME NEW s \in SUBSET (1 .. n), s # {}
                 PROVE  G[<<it0[s \ {Max(s)}], Max(s)>>] = Step(it0[s \ {Max(s)}], parts[Max(s)])
      OBVIOUS
    <3> DEFINE t == s \ {Max(s)}
               x == Max(s)
    <3>1. t \in SUBSET (1 .. n) /\ x \in 1 .. n
      BY <1>6
    <3> HIDE DEF t, x, A
    <3>2. it0[t] \in A
      BY <1>5, <3>1
    <3>3. G[<<it0[t], x>>] = Step(it0[t], parts[x])
      BY <1>4, <3>1, <3>2
    <3> QED
      BY <3>3 DEF t, x
  <2> HIDE DEF start
  <2>2. [s \in SUBSET (1 .. n) |->
           IF s = {} THEN start ELSE G[<<it0[s \ {Max(s)}], Max(s)>>]]
        = [s \in SUBSET (1 .. n) |->
             IF s = {} THEN start ELSE Step(it0[s \ {Max(s)}], parts[Max(s)])]
    BY <2>1
  <2> QED
    BY <1>5, <2>2 DEF Folding
<1>8. \A it : Writing(m, i, pos, n, valid, it) <=> Walks(it)
  BY <1>1 DEF Writing, Step, parts
<1> DEFINE it == CHOOSE it : Writing(m, i, pos, n, valid, it)
           at == [k \in 0 .. n |-> it[1 .. k]]
<1>9. Walks(it)
  <2>1. Writing(m, i, pos, n, valid, it0)
    BY <1>7, <1>8
  <2>2. Writing(m, i, pos, n, valid, it)
    BY <2>1
  <2> QED
    BY <1>8, <2>2
<1>10. WriteFile(m, i, pos, n, valid) = it[1 .. n]
  BY <1>1, WriteIs DEF parts
<1> HIDE DEF it, start
<1>11. at[0] = start
  <2>1. 1 .. 0 = {} /\ {} \in SUBSET (1 .. n) /\ 0 \in 0 .. n
    OBVIOUS
  <2>2. it[{}] = start
    BY <1>9, <2>1
  <2> QED
    BY <2>1, <2>2
<1>12. ASSUME NEW k \in 1 .. n PROVE at[k] = Step(at[k - 1], parts[k])
  <2>1. /\ 1 .. k # {} /\ Max(1 .. k) = k /\ (1 .. k) \ {k} = 1 .. k - 1
        /\ 1 .. k \in SUBSET (1 .. n) /\ k - 1 \in 0 .. n /\ k \in 0 .. n
    BY PrefixFacts
  <2>2. it[1 .. k] = Step(it[(1 .. k) \ {Max(1 .. k)}], parts[Max(1 .. k)])
    BY <1>9, <2>1
  <2>3. it[1 .. k] = Step(it[1 .. k - 1], parts[k])
    BY <2>1, <2>2
  <2> QED
    BY <2>1, <2>3
<1>13. at = [k \in 0 .. n |-> at[k]] /\ n \in 0 .. n /\ at[n] = it[1 .. n]
  OBVIOUS
<1> HIDE DEF at, A
<1>14. \A k \in 0 .. n : at[k] \in A
  <2>1. at[0] \in A
    BY <1>3, <1>11
  <2>2. \A k \in 1 .. n : at[k - 1] \in A => at[k] \in A
    BY <1>2, <1>12
  <2> QED
    BY <2>1, <2>2, StepsStay
<1>15. at \in [0 .. n -> A]
  BY <1>13, <1>14
<1>16. \A k \in 1 .. n : at[k] = Put(i, pos, n, valid, at[k - 1], pos + k - 1)
  BY <1>1, <1>12 DEF Step
<1>17. /\ at \in [0 .. n -> ReplyType(n)] /\ at[0] = [fs |-> m, ret |-> n]
       /\ WriteFile(m, i, pos, n, valid) = at[n]
  BY <1>10, <1>11, <1>13, <1>15 DEF A, start
<1> HIDE DEF Walks
<1>18. WritesBy(m, i, pos, n, valid, at)
  BY <1>16, <1>17 DEF WritesBy
<1> QED
  BY <1>17, <1>18

LEMMA WriteFileType ==
  ASSUME NEW m \in FsType, NEW i \in Inodes, NEW pos \in Nat, NEW n \in Nat, NEW valid \in Nat
  PROVE  LET r == WriteFile(m, i, pos, n, valid)
         IN  r \in ReplyType(n) /\ (SizesFit(m) => SizesFit(r.fs))
<1>0. PICK at \in [0 .. n -> ReplyType(n)] : WritesBy(m, i, pos, n, valid, at)
  BY WriteSteps
<1>1. /\ at[0] = [fs |-> m, ret |-> n]
      /\ \A k \in 1 .. n : at[k] = Put(i, pos, n, valid, at[k - 1], pos + k - 1)
      /\ WriteFile(m, i, pos, n, valid) = at[n]
  BY <1>0 DEF WritesBy
<1>2. WriteFile(m, i, pos, n, valid) \in ReplyType(n)
  BY <1>1
<1>3. ASSUME SizesFit(m) PROVE SizesFit(at[n].fs)
  <2> DEFINE A == {r \in ReplyType(n) : SizesFit(r.fs)}
  <2>1. at[0] \in A
    <3>1. at[0] \in ReplyType(n) /\ at[0].fs = m
      BY <1>1
    <3> QED
      BY <1>3, <3>1
  <2>2. ASSUME NEW k \in 1 .. n, at[k - 1] \in A PROVE at[k] \in A
    <3>1. at[k - 1] \in ReplyType(n) /\ SizesFit(at[k - 1].fs) /\ pos + k - 1 \in Nat
      BY <2>2
    <3> DEFINE old == at[k - 1]
               x == pos + k - 1
    <3>2. at[k] = Put(i, pos, n, valid, old, x)
      BY <1>1
    <3>3. old \in ReplyType(n) /\ SizesFit(old.fs) /\ x \in Nat
      BY <3>1
    <3> HIDE DEF old, x
    <3>4. Put(i, pos, n, valid, old, x) \in ReplyType(n)
          /\ SizesFit(Put(i, pos, n, valid, old, x).fs)
      BY <3>3, PutType
    <3> QED
      BY <3>2, <3>4
  <2> HIDE DEF A
  <2>3. \A k \in 0 .. n : at[k] \in A
    BY <2>1, <2>2, StepsStay
  <2> QED
    BY <2>3 DEF A
<1> QED
  BY <1>1, <1>2, <1>3


-----------------------------------------------------------------------------
(* The free lists of make_free_lists, and the disk of mkyfs *)

IsInjective1(q) == \A k, l \in 1 .. Len(q) : q[k] = q[l] => k = l

(* The list after n numbers: those in S, each once.                           *)
ListOf(S, n, q) ==
  /\ q \in Seq(S \cap (0 .. n - 1))
  /\ IsInjective1(q)
  /\ \A x \in S \cap (0 .. n - 1) : \E k \in 1 .. Len(q) : q[k] = x

Pushed(S, q, x) == IF x \in S THEN <<x>> \o q ELSE q

Listing(S, n, list) ==
  list = [k \in 0 .. n |-> IF k = 0 THEN << >>
                           ELSE IF k - 1 \in S THEN <<k - 1>> \o list[k - 1]
                           ELSE list[k - 1]]

LEMMA DescendingIs ==
  ASSUME NEW S, NEW n
  PROVE  Descending(S, n) = (CHOOSE list : Listing(S, n, list))[n]
BY DEF Descending, Listing

LEMMA PushFacts ==
  ASSUME NEW S, NEW n \in Nat, NEW q, ListOf(S, n, q)
  PROVE  ListOf(S, n + 1, Pushed(S, q, n))
<1> DEFINE A == S \cap (0 .. n - 1)
           B == S \cap (0 .. (n + 1) - 1)
           p == <<n>> \o q
           l == Len(q)
<1>1. q \in Seq(A) /\ A \subseteq B /\ n \notin A /\ q \in Seq(B) /\ l \in Nat
  <2>1. A \subseteq B /\ n \notin A
    OBVIOUS
  <2>2. q \in Seq(A)
    BY DEF ListOf
  <2> HIDE DEF A, B
  <2>3. q \in Seq(B)
    BY <2>1, <2>2
  <2> QED
    BY <2>1, <2>2, <2>3
<1>2. \A x \in B : x = n \/ x \in A
  OBVIOUS
<1>3. CASE n \in S
  <2>1. n \in B
    BY <1>3
  <2> HIDE DEF A, B
  <2>2. <<n>> \in Seq(B) /\ Len(<<n>>) = 1
    BY <2>1
  <2>3. p \in Seq(B) /\ Len(p) = l + 1 /\ p[1] = n
        /\ \A k \in 2 .. l + 1 : p[k] = q[k - 1]
    BY <1>1, <2>2
  <2> HIDE DEF p
  <2>4. \A k \in 2 .. l + 1 : p[k] \in A /\ k - 1 \in 1 .. l
    BY <1>1, <2>3
  <2>5. IsInjective1(q)
    BY DEF ListOf
  <2>6. ASSUME NEW k1 \in 1 .. l + 1, NEW k2 \in 1 .. l + 1, p[k1] = p[k2] PROVE k1 = k2
    <3>1. CASE k1 = 1 /\ k2 # 1
      <4>1. p[k2] \in A
        BY <1>1, <3>1, <2>4
      <4> QED
        BY <1>1, <2>3, <2>6, <3>1, <4>1
    <3>2. CASE k1 # 1 /\ k2 = 1
      <4>1. p[k1] \in A
        BY <1>1, <3>2, <2>4
      <4> QED
        BY <1>1, <2>3, <2>6, <3>2, <4>1
    <3>3. CASE k1 # 1 /\ k2 # 1
      <4>1. k1 \in 2 .. l + 1 /\ k2 \in 2 .. l + 1
        BY <1>1, <3>3
      <4>2. q[k1 - 1] = q[k2 - 1] /\ k1 - 1 \in 1 .. l /\ k2 - 1 \in 1 .. l
        BY <2>3, <2>4, <2>6, <4>1
      <4>3. k1 - 1 = k2 - 1
        BY <2>5, <4>2 DEF IsInjective1
      <4> QED
        BY <4>3
    <3> QED
      BY <3>1, <3>2, <3>3
  <2>7. ASSUME NEW x \in B PROVE \E k \in 1 .. l + 1 : p[k] = x
    <3>1. CASE x = n
      <4>1. 1 \in 1 .. l + 1
        BY <1>1
      <4> QED
        BY <2>3, <3>1, <4>1
    <3>2. CASE x \in A
      <4>1. PICK k \in 1 .. l : q[k] = x
        BY <3>2 DEF ListOf, A
      <4>2. k + 1 \in 2 .. l + 1 /\ k + 1 \in 1 .. l + 1 /\ (k + 1) - 1 = k
        BY <1>1
      <4>3. p[k + 1] = x
        BY <2>3, <4>1, <4>2
      <4> QED
        BY <4>2, <4>3
    <3> QED
      BY <1>2, <3>1, <3>2
  <2>8. IsInjective1(p)
    BY <2>3, <2>6 DEF IsInjective1
  <2>9. Pushed(S, q, n) = p
    BY <1>3 DEF Pushed, p
  <2> QED
    BY <2>3, <2>7, <2>8, <2>9 DEF ListOf, B
<1>4. CASE n \notin S
  <2>1. B = A /\ Pushed(S, q, n) = q
    BY <1>2, <1>4 DEF Pushed
  <2> HIDE DEF A, B
  <2> QED
    BY <2>1 DEF ListOf, A, B
<1> QED
  BY <1>3, <1>4

(* make_free_lists goes through the numbers and puts each at the front.       *)
LEMMA DescendingSteps ==
  ASSUME NEW S, NEW n \in Nat
  PROVE  \E list : /\ list[0] = << >>
                   /\ \A k \in 1 .. n : list[k] = Pushed(S, list[k - 1], k - 1)
                   /\ Descending(S, n) = list[n]
<1> DEFINE A == Seq(Nat)
           G == [x \in A \X (1 .. n) |-> Pushed(S, x[1], x[2] - 1)]
<1>1. \A q \in A : \A k \in 1 .. n :
        G[<<q, k>>] = Pushed(S, q, k - 1) /\ Pushed(S, q, k - 1) \in A
  <2> SUFFICES ASSUME NEW q \in A, NEW k \in 1 .. n
               PROVE  Pushed(S, q, k - 1) \in A
    OBVIOUS
  <2>1. k - 1 \in Nat
    OBVIOUS
  <2>2. <<k - 1>> \o q \in A
    BY <2>1
  <2> QED
    BY <2>2 DEF Pushed
<1> HIDE DEF G
<1>2. << >> \in A
  OBVIOUS
<1>30. PICK f \in [0 .. n -> A] : StepsOf(<< >>, G, n, f)
  <2>1. \A q \in A : \A k \in 1 .. n : G[<<q, k>>] \in A
    BY <1>1
  <2> DEFINE nil == << >>
  <2>2. nil \in A
    BY <1>2
  <2> HIDE DEF A, nil
  <2>3. \E f \in [0 .. n -> A] : StepsOf(nil, G, n, f)
    BY <2>1, <2>2, StepsExist
  <2> QED
    BY <2>3 DEF nil
<1>3. f[0] = << >> /\ \A k \in 1 .. n : f[k] = G[<<f[k - 1], k>>]
  BY <1>30 DEF StepsOf
<1>4. Listing(S, n, f)
  <2>1. ASSUME NEW k \in 0 .. n
        PROVE  f[k] = IF k = 0 THEN << >>
                      ELSE IF k - 1 \in S THEN <<k - 1>> \o f[k - 1] ELSE f[k - 1]
    <3>1. CASE k = 0
      BY <1>3, <3>1
    <3>2. CASE k # 0
      <4>1. k \in 1 .. n /\ k - 1 \in 0 .. n
        BY <3>2
      <4>2. f[k - 1] \in A
        BY <4>1
      <4>3. f[k] = Pushed(S, f[k - 1], k - 1)
        BY <1>1, <1>3, <4>1, <4>2
      <4> QED
        BY <3>2, <4>3 DEF Pushed
    <3> QED
      BY <3>1, <3>2
  <2>2. f = [k \in 0 .. n |-> f[k]]
    OBVIOUS
  <2> QED
    BY <2>1, <2>2 DEF Listing
<1> DEFINE list == CHOOSE list : Listing(S, n, list)
<1>5. Listing(S, n, list)
  BY <1>4
<1>6. Descending(S, n) = list[n]
  BY DescendingIs
<1> HIDE DEF list
<1>7. list[0] = << >> /\ \A k \in 1 .. n : list[k] = Pushed(S, list[k - 1], k - 1)
  <2>1. \A k \in 0 .. n : list[k] = IF k = 0 THEN << >>
                                    ELSE IF k - 1 \in S THEN <<k - 1>> \o list[k - 1]
                                    ELSE list[k - 1]
    BY <1>5 DEF Listing
  <2>2. 0 \in 0 .. n /\ \A k \in 1 .. n : k \in 0 .. n /\ k # 0
    OBVIOUS
  <2> QED
    BY <2>1, <2>2 DEF Pushed
<1> QED
  BY <1>6, <1>7

LEMMA DescendingFacts ==
  ASSUME NEW S, NEW n \in Nat
  PROVE  ListOf(S, n, Descending(S, n))
<1>6. PICK list : /\ list[0] = << >>
                  /\ \A k \in 1 .. n : list[k] = Pushed(S, list[k - 1], k - 1)
                  /\ Descending(S, n) = list[n]
  BY DescendingSteps
<1>7. list[0] = << >> /\ \A k \in 1 .. n : list[k] = Pushed(S, list[k - 1], k - 1)
  BY <1>6
<1> DEFINE Bad == {k \in 0 .. n : ~ListOf(S, k, list[k])}
<1>8. Bad = {}
  <2> SUFFICES ASSUME Bad # {} PROVE FALSE
    OBVIOUS
  <2>1. PICK k \in Bad : \A j \in Bad : k <= j
    <3>1. Bad \subseteq Nat
      OBVIOUS
    <3> HIDE DEF Bad
    <3> QED
      BY <3>1, Least
  <2>2. k # 0
    <3>1. ListOf(S, 0, list[0])
      <4>1. << >> \in Seq(S \cap (0 .. 0 - 1)) /\ S \cap (0 .. 0 - 1) = {} /\ Len(<< >>) = 0
        OBVIOUS
      <4> QED
        BY <1>7, <4>1 DEF ListOf, IsInjective1
    <3> QED
      BY <3>1
  <2>3. k \in 1 .. n /\ k - 1 \in 0 .. n /\ k - 1 \in Nat /\ (k - 1) + 1 = k /\ ~(k <= k - 1)
    BY <2>2
  <2>4. ListOf(S, k - 1, list[k - 1])
    BY <2>1, <2>3
  <2>5. ListOf(S, (k - 1) + 1, Pushed(S, list[k - 1], k - 1))
    BY <2>3, <2>4, PushFacts
  <2> QED
    BY <1>7, <2>3, <2>5
<1>9. n \in 0 .. n
  OBVIOUS
<1> QED
  BY <1>6, <1>8, <1>9


LEMMA BootType ==
  ASSUME NEW m \in FsType
  PROVE  /\ Boot(m) \in FsType /\ (SizesFit(m) => SizesFit(Boot(m)))
         /\ Boot(m).inode = m.inode /\ Boot(m).cell = m.cell /\ Boot(m).indirect = m.indirect
         /\ LET free == {i \in Scanned : m.inode[i].type = INODE_FREE}
                used == {0} \cup UNION {Pointers(m, i) : i \in Scanned \ free}
            IN  /\ Boot(m).i_head = Descending(free, NumTable * IPB)
                /\ Boot(m).b_head = Descending(Blocks \ used, NUM_BLOCKS)
<1> DEFINE free == {i \in Scanned : m.inode[i].type = INODE_FREE}
           used == {0} \cup UNION {Pointers(m, i) : i \in Scanned \ free}
           is == Descending(free, NumTable * IPB)
           bs == Descending(Blocks \ used, NUM_BLOCKS)
           bad == m.bad \/ m.inode[0].type # HEADER \/ m.inode[0].nlink # 0
           new == [m EXCEPT !.i_head = is, !.b_head = bs, !.bad = bad]
<1>1. Boot(m) = new
  BY DEF Boot
<1>2. is \in Seq(Inodes)
  <2>1. NumTable * IPB \in Nat
    BY ConstantFacts
  <2>2. is \in Seq(free \cap (0 .. NumTable * IPB - 1))
    BY <2>1, DescendingFacts DEF ListOf
  <2>3. free \cap (0 .. NumTable * IPB - 1) \subseteq Inodes
    BY DEF Inodes
  <2> HIDE DEF free, is
  <2> QED
    BY <2>2, <2>3
<1>3. bs \in Seq(Blocks)
  <2>1. NUM_BLOCKS \in Nat
    BY ConstantFacts
  <2>2. bs \in Seq((Blocks \ used) \cap (0 .. NUM_BLOCKS - 1))
    BY <2>1, DescendingFacts DEF ListOf
  <2>3. (Blocks \ used) \cap (0 .. NUM_BLOCKS - 1) \subseteq Blocks
    OBVIOUS
  <2> HIDE DEF used, bs
  <2> QED
    BY <2>2, <2>3
<1>4. bad \in BOOLEAN
  BY DEF FsType
<1>5. m.bad => bad
  OBVIOUS
<1> HIDE DEF is, bs, bad
<1>6. new \in FsType /\ new.inode = m.inode /\ new.bad = bad /\ new.cell = m.cell
      /\ new.indirect = m.indirect /\ new.i_head = is /\ new.b_head = bs
  BY <1>2, <1>3, <1>4 DEF FsType
<1> HIDE DEF new
<1>7. SizesFit(m) => SizesFit(new)
  BY <1>5, <1>6, SizesFitStep
<1> QED
  BY <1>1, <1>6, <1>7 DEF is, bs

(* The root that mkyfs makes of a blank inode.                                *)
LEMMA RootInode ==
  ASSUME NEW b \in InodeType, NEW x \in [0 .. NUM_DIRECT - 1 -> Blocks]
  PROVE  [b EXCEPT !.type = INODE_DIRECTORY, !.nlink = 2, !.size = 2, !.direct = x]
         = [type |-> INODE_DIRECTORY, nlink |-> 2, size |-> 2, direct |-> x]
<1>1. PICK t \in 0 .. HEADER : t = INODE_DIRECTORY
  BY DEF INODE_DIRECTORY, HEADER
<1>2. PICK l \in Int : l = 2
  OBVIOUS
<1>3. PICK s \in Nat : s = 2
  OBVIOUS
<1> DEFINE r == [b EXCEPT !.type = t, !.nlink = l, !.size = s, !.direct = x]
<1>4. r \in InodeType
  BY DEF InodeType
<1>5. r.type = t /\ r.nlink = l /\ r.size = s /\ r.direct = x
  BY DEF InodeType
<1> HIDE DEF r
<1>6. r = [type |-> r.type, nlink |-> r.nlink, size |-> r.size, direct |-> r.direct]
  BY <1>4 DEF InodeType
<1>7. r = [type |-> t, nlink |-> l, size |-> s, direct |-> x]
  BY <1>5, <1>6, Zenon
<1> QED
  BY <1>1, <1>2, <1>3, <1>7, Zenon DEF r

(* The disk that mkyfs writes is a file system.                               *)
LEMMA MkYfsType ==
  /\ MkYfs \in FsType /\ SizesFit(MkYfs)
  /\ \A i \in Inodes :
       IF i = ROOTINODE
       THEN /\ MkYfs.inode[i].type = INODE_DIRECTORY /\ MkYfs.inode[i].size = 2
            /\ MkYfs.inode[i].direct[0] = NumTable + 1
       ELSE MkYfs.inode[i].type \in {INODE_FREE, HEADER} /\ MkYfs.inode[i].size = 0
  /\ MkYfs.cell[NumTable + 1][0] = [inum |-> ROOTINODE, name |-> "."]
  /\ MkYfs.cell[NumTable + 1][1] = [inum |-> ROOTINODE, name |-> ".."]
  /\ MkYfs.i_head = << >> /\ MkYfs.b_head = << >>
<1> DEFINE none == [n \in 0 .. NUM_DIRECT - 1 |-> 0]
           one == [none EXCEPT ![0] = NumTable + 1]
           Kind(i) == IF i = 0 THEN HEADER ELSE IF i = ROOTINODE THEN INODE_DIRECTORY
                      ELSE INODE_FREE
           inodes == [i \in Inodes |->
                        [type |-> Kind(i), nlink |-> IF i = ROOTINODE THEN 2 ELSE 0,
                         size |-> IF i = ROOTINODE THEN 2 ELSE 0,
                         direct |-> IF i = ROOTINODE THEN one ELSE none]]
           indirect == [n \in 0 .. NUM_INDIRECT - 1 |-> 0]
           Cell(b, c) == IF b # NumTable + 1 THEN EmptyCell
                         ELSE IF c = 0 THEN [inum |-> ROOTINODE, name |-> "."]
                         ELSE IF c = 1 THEN [inum |-> ROOTINODE, name |-> ".."]
                         ELSE EmptyCell
           cells == [b \in Blocks |-> [c \in 0 .. UNITS - 1 |-> Cell(b, c)]]
           new == [inode |-> inodes, indirect |-> indirect, cell |-> cells,
                   i_head |-> << >>, b_head |-> << >>, bad |-> FALSE]
<1>1. /\ 0 \in Blocks /\ NumTable + 1 \in Blocks /\ 0 \in Inodes /\ ROOTINODE \in Inodes
      /\ NUM_DIRECT \in Nat /\ NUM_DIRECT >= 1 /\ ROOTINODE = 1
  BY ConstantFacts DEF ROOTINODE
<1>2. none \in [0 .. NUM_DIRECT - 1 -> Blocks] /\ one \in [0 .. NUM_DIRECT - 1 -> Blocks]
  BY <1>1
<1>3. \A i \in Inodes : Kind(i) \in 0 .. HEADER
  BY DEF INODE_FREE, INODE_DIRECTORY, HEADER
<1>4. MkYfs.inode = inodes
  <2>1. \A i \in Inodes :
          (CASE i = 0 -> [Blank EXCEPT !.type = HEADER]
             [] i = ROOTINODE -> [Blank EXCEPT !.type = INODE_DIRECTORY, !.nlink = 2,
                                               !.size = 2, !.direct[0] = NumTable + 1]
             [] OTHER -> Blank)
          = [type |-> Kind(i), nlink |-> IF i = ROOTINODE THEN 2 ELSE 0,
             size |-> IF i = ROOTINODE THEN 2 ELSE 0,
             direct |-> IF i = ROOTINODE THEN one ELSE none]
    <3> SUFFICES ASSUME NEW i \in Inodes
                 PROVE  (CASE i = 0 -> [Blank EXCEPT !.type = HEADER]
                           [] i = ROOTINODE -> [Blank EXCEPT !.type = INODE_DIRECTORY, !.nlink = 2,
                                                             !.size = 2, !.direct[0] = NumTable + 1]
                           [] OTHER -> Blank)
                        = [type |-> Kind(i), nlink |-> IF i = ROOTINODE THEN 2 ELSE 0,
                           size |-> IF i = ROOTINODE THEN 2 ELSE 0,
                           direct |-> IF i = ROOTINODE THEN one ELSE none]
      OBVIOUS
    <3>1. Blank = [type |-> INODE_FREE, nlink |-> 0, size |-> 0, direct |-> none]
      BY DEF Blank
    <3> HIDE DEF none
    <3>2. CASE i = 0
      BY <1>1, <3>1, <3>2
    <3>3. CASE i = ROOTINODE
      <4> DEFINE b == [type |-> INODE_FREE, nlink |-> 0, size |-> 0, direct |-> none]
                 root == [type |-> INODE_DIRECTORY, nlink |-> 2, size |-> 2, direct |-> one]
      <4>1. [b EXCEPT !.type = INODE_DIRECTORY, !.nlink = 2, !.size = 2,
                      !.direct[0] = NumTable + 1] = root
        <5>1. /\ b \in InodeType /\ b.direct = none
          BY <1>2 DEF InodeType, INODE_FREE, HEADER
        <5> HIDE DEF b
        <5>2. [b EXCEPT !.type = INODE_DIRECTORY, !.nlink = 2, !.size = 2,
                        !.direct[0] = NumTable + 1]
              = [b EXCEPT !.type = INODE_DIRECTORY, !.nlink = 2, !.size = 2, !.direct = one]
          BY <5>1
        <5> HIDE DEF one
        <5>3. [b EXCEPT !.type = INODE_DIRECTORY, !.nlink = 2, !.size = 2, !.direct = one] = root
          BY <1>2, <5>1, RootInode
        <5> HIDE DEF root
        <5> QED
          BY <5>2, <5>3, Zenon
      <4>2. [Blank EXCEPT !.type = INODE_DIRECTORY, !.nlink = 2, !.size = 2,
                          !.direct[0] = NumTable + 1] = root
        <5> HIDE DEF root
        <5> QED
          BY <3>1, <4>1
      <4> QED
        BY <1>1, <3>3, <4>2
    <3>4. CASE i # 0 /\ i # ROOTINODE
      BY <1>1, <3>1, <3>4
    <3> QED
      BY <3>2, <3>3, <3>4
  <2> HIDE DEF Kind, one, none
  <2> QED
    BY <2>1 DEF MkYfs
<1>5. MkYfs.cell = cells
  <2>1. \A b \in Blocks, c \in 0 .. UNITS - 1 :
          (IF b # NumTable + 1 THEN EmptyCell
           ELSE CASE c = 0 -> [inum |-> ROOTINODE, name |-> "."]
                  [] c = 1 -> [inum |-> ROOTINODE, name |-> ".."]
                  [] OTHER -> EmptyCell) = Cell(b, c)
    OBVIOUS
  <2> HIDE DEF Cell
  <2> QED
    BY <2>1 DEF MkYfs
<1>6. MkYfs = new
  <2> HIDE DEF inodes, cells
  <2> QED
    BY <1>4, <1>5 DEF MkYfs
<1>7. inodes \in [Inodes -> InodeType]
  <2> HIDE DEF Kind, one, none
  <2> QED
    BY <1>2, <1>3 DEF InodeType
<1>8. indirect \in [0 .. NUM_INDIRECT - 1 -> Blocks]
  BY <1>1
<1>9. cells \in [Blocks -> [0 .. UNITS - 1 -> CellType]]
  <2>1. ASSUME NEW b \in Blocks, NEW c \in 0 .. UNITS - 1 PROVE Cell(b, c) \in CellType
    BY <1>1 DEF CellType, EmptyCell, PathNames
  <2> HIDE DEF Cell
  <2> QED
    BY <2>1
<1>10. \A i \in Inodes : inodes[i].size <= 2 /\ inodes[i].size \in Nat
  OBVIOUS
<1>14. \A i \in Inodes :
         IF i = ROOTINODE
         THEN /\ inodes[i].type = INODE_DIRECTORY /\ inodes[i].size = 2
              /\ inodes[i].direct[0] = NumTable + 1
         ELSE inodes[i].type \in {INODE_FREE, HEADER} /\ inodes[i].size = 0
  <2> SUFFICES ASSUME NEW i \in Inodes
               PROVE  IF i = ROOTINODE
                      THEN /\ inodes[i].type = INODE_DIRECTORY /\ inodes[i].size = 2
                           /\ inodes[i].direct[0] = NumTable + 1
                      ELSE inodes[i].type \in {INODE_FREE, HEADER} /\ inodes[i].size = 0
    OBVIOUS
  <2>1. one[0] = NumTable + 1
    BY <1>1
  <2> HIDE DEF one, none
  <2>2. CASE i = ROOTINODE
    BY <1>1, <2>1, <2>2
  <2>3. CASE i # ROOTINODE
    BY <2>3
  <2> QED
    BY <2>2, <2>3
<1>15. /\ cells[NumTable + 1][0] = [inum |-> ROOTINODE, name |-> "."]
       /\ cells[NumTable + 1][1] = [inum |-> ROOTINODE, name |-> ".."]
  <2>1. 0 \in 0 .. UNITS - 1 /\ 1 \in 0 .. UNITS - 1
    BY ConstantFacts
  <2> QED
    BY <1>1, <2>1
<1> HIDE DEF inodes, indirect, cells
<1>11. new \in FsType /\ new.inode = inodes
  BY <1>7, <1>8, <1>9 DEF FsType
<1>12. MaxBlocks * UNITS \in Nat /\ MaxBlocks * UNITS >= 2
  <2>1. MaxBlocks \in Nat /\ MaxBlocks >= 1 /\ UNITS \in Nat /\ UNITS >= 2
    BY ConstantFacts
  <2>2. MaxBlocks * UNITS >= 1 * UNITS
    BY <2>1
  <2> QED
    BY <2>1, <2>2
<1>13. SizesFit(new)
  <2> DEFINE t == MaxBlocks * UNITS
  <2> HIDE DEF t
  <2>1. ASSUME NEW i \in Inodes PROVE new.inode[i].size <= t + (IF new.bad THEN 1 ELSE 0)
    BY <1>10, <1>11, <1>12 DEF t
  <2> QED
    BY <2>1 DEF SizesFit, t
<1> QED
  BY <1>6, <1>11, <1>13, <1>14, <1>15


-----------------------------------------------------------------------------
(* Type correctness *)

TypeInv ==
  /\ fs \in FsType
  /\ fds \in FdsType
  /\ cwd \in [Procs -> Inodes]

(* What the processes name is a path, and what they ask for has a type.       *)
LEMMA RequestTypes ==
  /\ Paths \subseteq PathType
  /\ Sizes \subseteq Nat /\ Offsets \subseteq Int
  /\ Slots \subseteq Nat
<1>1. Slots \subseteq Nat
  BY ConstantFacts DEF Slots
<1>2. Sizes \subseteq Nat /\ Offsets \subseteq Int
  BY YfsAssumption
<1>3. Paths \subseteq PathType
  BY PathsAssumption, Zenon DEF PathType, PathNames
<1> QED
  BY <1>1, <1>2, <1>3

(* The table of open files takes a file in the first slot that is free.       *)
LEMMA OpenAsType ==
  ASSUME NEW p \in Procs, NEW i \in Inodes \cup {ERROR}, fds \in FdsType, OpenAs(p, i)
  PROVE  fds' \in FdsType
<1> DEFINE free == {fd \in Slots : fds[p][fd] = NULL}
           file == [i_num |-> i, pos |-> 0]
<1>1. CASE i = ERROR \/ free = {}
  BY <1>1 DEF OpenAs
<1>2. CASE i # ERROR /\ free # {}
  <2>1. Min(free) \in Slots
    <3>1. free \subseteq Nat
      BY RequestTypes
    <3>2. Min(free) \in free
      BY <1>2, <3>1, MinFacts
    <3> QED
      BY <3>2
  <2>2. file \in FileType
    BY <1>2 DEF FileType
  <2>3. fds' = [fds EXCEPT ![p][Min(free)] = file]
    BY <1>2 DEF OpenAs
  <2> HIDE DEF file, free
  <2> QED
    BY <2>1, <2>2, <2>3 DEF FdsType
<1> QED
  BY <1>1, <1>2

(* A slot that takes a file, and a position that moves to a number.           *)
LEMMA SlotType ==
  ASSUME NEW p \in Procs, NEW fd \in Slots, fds \in FdsType, NEW file \in FileType
  PROVE  [fds EXCEPT ![p][fd] = file] \in FdsType
<1> DEFINE row == [fds[p] EXCEPT ![fd] = file]
<1>1. fds[p] \in [Slots -> {NULL} \cup FileType]
  BY DEF FdsType
<1>2. row \in [Slots -> {NULL} \cup FileType]
  BY <1>1
<1>3. [fds EXCEPT ![p][fd] = file] = [fds EXCEPT ![p] = row]
  OBVIOUS
<1> HIDE DEF row
<1> QED
  BY <1>2, <1>3 DEF FdsType

LEMMA AdvanceType ==
  ASSUME NEW p \in Procs, NEW fd \in Slots, fds \in FdsType, fds[p][fd] # NULL,
         NEW to \in Nat
  PROVE  [fds EXCEPT ![p][fd].pos = to] \in FdsType
<1> DEFINE f == fds[p][fd]
           f2 == [f EXCEPT !.pos = to]
<1>1. f \in FileType
  BY DEF FdsType
<1>2. [fds EXCEPT ![p][fd].pos = to] = [fds EXCEPT ![p][fd] = f2]
  OBVIOUS
<1> HIDE DEF f
<1>3. f2 \in FileType
  BY <1>1 DEF FileType
<1> HIDE DEF f2
<1>4. [fds EXCEPT ![p][fd] = f2] \in FdsType
  BY <1>3, SlotType
<1> QED
  BY <1>2, <1>4, Zenon

LEMMA AdvanceBytes ==
  ASSUME NEW p \in Procs, NEW fd \in Slots, fds \in FdsType, fds[p][fd] # NULL,
         NEW bytes \in Nat \cup {ERROR}, Advance(p, fd, bytes)
  PROVE  fds' \in FdsType
<1>1. CASE bytes = ERROR
  BY <1>1 DEF Advance
<1>2. CASE bytes # ERROR
  <2>1. fds[p][fd] \in FileType /\ fds[p][fd].pos \in Nat
    BY DEF FdsType, FileType
  <2>2. PICK to \in Nat : to = fds[p][fd].pos + bytes
    BY <1>2, <2>1
  <2>3. fds' = [fds EXCEPT ![p][fd].pos = to]
    BY <1>2, <2>2 DEF Advance
  <2> QED
    BY <2>2, <2>3, AdvanceType
<1> QED
  BY <1>1, <1>2

(* The files of a process that a step looks at.                               *)
LEMMA FileFacts ==
  ASSUME NEW p \in Procs, NEW fd \in Slots, TypeInv, fds[p][fd] # NULL
  PROVE  /\ fds[p][fd] \in FileType
         /\ fds[p][fd].i_num \in Inodes /\ fds[p][fd].pos \in Nat
BY DEF TypeInv, FdsType, FileType

LEMMA ReadFileType ==
  ASSUME NEW m \in FsType, NEW i \in Inodes, NEW pos \in Nat, NEW n \in Nat
  PROVE  ReadFile(m, i, pos, n) \in Nat \cup {ERROR}
<1>1. m.inode[i].size \in Nat
  BY DEF FsType, InodeType
<1> QED
  BY <1>1 DEF ReadFile

LEMMA LookUpType ==
  ASSUME NEW m \in FsType, NEW path \in PathType, NEW cur \in Inodes
  PROVE  LookUp(m, path, cur) \in Inodes \cup {ERROR}
BY ResolveType DEF LookUp


-----------------------------------------------------------------------------
(* The steps *)

Fits == TypeInv /\ SizesFit(fs)

LEMMA InitFits == Init => Fits
<1> SUFFICES ASSUME Init PROVE Fits
  OBVIOUS
<1>1. fs \in FsType /\ SizesFit(fs)
  BY MkYfsType, BootType DEF Init
<1>2. fds \in FdsType
  BY DEF Init, NoFiles, FdsType
<1>3. cwd \in [Procs -> Inodes]
  BY ConstantFacts DEF Init, AtRoot
<1> QED
  BY <1>1, <1>2, <1>3 DEF Fits, TypeInv

LEMMA OpenFits ==
  ASSUME Fits, NEW p \in Procs, NEW path \in Paths, Open(p, path)
  PROVE  Fits'
<1>1. path \in PathType /\ cwd[p] \in Inodes /\ fs \in FsType /\ fds \in FdsType
  BY RequestTypes DEF Fits, TypeInv
<1>2. LookUp(fs, path, cwd[p]) \in Inodes \cup {ERROR}
  BY <1>1, LookUpType
<1>3. fds' \in FdsType
  BY <1>1, <1>2, OpenAsType DEF Open
<1> QED
  BY <1>3 DEF Open, Fits, TypeInv

LEMMA CreateFits ==
  ASSUME Fits, NEW p \in Procs, NEW path \in Paths, Create(p, path)
  PROVE  Fits'
<1> DEFINE r == CreateFile(fs, path, cwd[p], ERROR)
<1>1. path \in PathType /\ cwd[p] \in Inodes /\ fs \in FsType /\ fds \in FdsType /\ ~fs.bad
  BY RequestTypes DEF Fits, TypeInv, Create, Up
<1>2. /\ r.fs \in FsType /\ r.ret \in Inodes \cup {ERROR}
      /\ SizesFit(fs) => SizesFit(r.fs)
  BY <1>1, CreateFileType
<1>3. fs' = r.fs /\ OpenAs(p, r.ret) /\ cwd' = cwd
  BY DEF Create
<1> HIDE DEF r
<1>4. fds' \in FdsType
  BY <1>1, <1>2, <1>3, OpenAsType
<1> QED
  BY <1>2, <1>3, <1>4 DEF Fits, TypeInv

LEMMA CloseFits ==
  ASSUME Fits, NEW p \in Procs, NEW fd \in Slots, Close(p, fd)
  PROVE  Fits'
<1>1. fds' \in FdsType
  BY DEF Fits, TypeInv, Close, FdsType
<1> QED
  BY <1>1 DEF Fits, TypeInv, Close

LEMMA ReadFits ==
  ASSUME Fits, NEW p \in Procs, NEW fd \in Slots, NEW n \in Sizes, Read(p, fd, n)
  PROVE  Fits'
<1> DEFINE bytes == ReadFile(fs, fds[p][fd].i_num, fds[p][fd].pos, n)
<1>1. fs \in FsType /\ fds \in FdsType /\ fds[p][fd] # NULL /\ n \in Nat
  BY RequestTypes DEF Fits, TypeInv, Read
<1>2. bytes \in Nat \cup {ERROR}
  BY <1>1, FileFacts, ReadFileType DEF Fits
<1>3. Advance(p, fd, bytes) \/ Advance(p, fd, ERROR)
  BY DEF Read
<1> HIDE DEF bytes
<1>4. fds' \in FdsType
  BY <1>1, <1>2, <1>3, AdvanceBytes
<1> QED
  BY <1>4 DEF Fits, TypeInv, Read

LEMMA WriteFits ==
  ASSUME Fits, NEW p \in Procs, NEW fd \in Slots, NEW n \in Sizes, Write(p, fd, n)
  PROVE  Fits'
<1> DEFINE f == fds[p][fd]
<1>1. fs \in FsType /\ fds \in FdsType /\ f # NULL /\ n \in Nat
  BY RequestTypes DEF Fits, TypeInv, Write
<1>2. f.i_num \in Inodes /\ f.pos \in Nat
  BY <1>1, FileFacts DEF Fits
<1>3. PICK valid \in 0 .. n :
        /\ fs' = WriteFile(fs, f.i_num, f.pos, n, valid).fs
        /\ Advance(p, fd, WriteFile(fs, f.i_num, f.pos, n, valid).ret)
  BY DEF Write
<1> DEFINE r == WriteFile(fs, f.i_num, f.pos, n, valid)
<1>4. r \in ReplyType(n) /\ (SizesFit(fs) => SizesFit(r.fs))
  BY <1>1, <1>2, WriteFileType
<1>5. fs' = r.fs /\ Advance(p, fd, r.ret)
  BY <1>3
<1> HIDE DEF r
<1>6. r.fs \in FsType /\ r.ret \in Nat \cup {ERROR}
  BY <1>1, <1>4 DEF ReplyType
<1>7. fds' \in FdsType
  BY <1>1, <1>5, <1>6, AdvanceBytes
<1>8. cwd' = cwd
  BY DEF Write
<1> QED
  BY <1>4, <1>5, <1>6, <1>7, <1>8 DEF Fits, TypeInv

LEMMA SeekFits ==
  ASSUME Fits, NEW p \in Procs, NEW fd \in Slots, NEW offset \in Offsets,
         NEW whence \in {"SEEK_SET", "SEEK_CUR", "SEEK_END"}, Seek(p, fd, offset, whence)
  PROVE  Fits'
<1> DEFINE to == SeekFile(fs, fds[p][fd].i_num, offset, whence, fds[p][fd].pos)
<1>1. fs \in FsType /\ fds \in FdsType /\ fds[p][fd] # NULL /\ offset \in Int
  BY RequestTypes DEF Fits, TypeInv, Seek
<1>2. to = ERROR \/ to \in Nat
  <2>1. fds[p][fd].i_num \in Inodes /\ fds[p][fd].pos \in Nat
    BY <1>1, FileFacts DEF Fits
  <2>2. fs.inode[fds[p][fd].i_num].size \in Nat /\ INT_MAX \in Nat
    BY <1>1, <2>1, YfsAssumption DEF FsType, InodeType
  <2>3. \A x \in Int : Wrap(x) \in Int
    BY <2>2 DEF Wrap
  <2> QED
    BY <1>1, <2>1, <2>2, <2>3 DEF SeekFile
<1>3. fds' = IF to = ERROR THEN fds ELSE [fds EXCEPT ![p][fd].pos = to]
  BY DEF Seek
<1> HIDE DEF to
<1>4. fds' \in FdsType
  BY <1>1, <1>2, <1>3, AdvanceType
<1> QED
  BY <1>4 DEF Fits, TypeInv, Seek


LEMMA LinkFits ==
  ASSUME Fits, NEW p \in Procs, NEW old \in Paths, NEW new \in Paths, Link(p, old, new)
  PROVE  Fits'
<1>1. old \in PathType /\ new \in PathType /\ cwd[p] \in Inodes /\ fs \in FsType /\ ~fs.bad
  BY RequestTypes DEF Fits, TypeInv, Link, Up
<1>2. fs' \in FsType /\ (SizesFit(fs) => SizesFit(fs'))
  BY <1>1, LinkFileType DEF Link
<1> QED
  BY <1>2 DEF Fits, TypeInv, Link, SizesFit

LEMMA UnlinkFits ==
  ASSUME Fits, NEW p \in Procs, NEW path \in Paths, Unlink(p, path)
  PROVE  Fits'
<1>1. path \in PathType /\ cwd[p] \in Inodes /\ fs \in FsType /\ ~fs.bad
  BY RequestTypes DEF Fits, TypeInv, Unlink, Up
<1>2. fs' \in FsType /\ (SizesFit(fs) => SizesFit(fs'))
  BY <1>1, UnlinkFileType DEF Unlink
<1> QED
  BY <1>2 DEF Fits, TypeInv, Unlink, SizesFit

LEMMA MkDirFits ==
  ASSUME Fits, NEW p \in Procs, NEW path \in Paths, MkDir(p, path)
  PROVE  Fits'
<1>1. path \in PathType /\ cwd[p] \in Inodes /\ fs \in FsType /\ ~fs.bad
  BY RequestTypes DEF Fits, TypeInv, MkDir, Up
<1>2. fs' \in FsType /\ (SizesFit(fs) => SizesFit(fs'))
  BY <1>1, MakeDirType DEF MkDir
<1> QED
  BY <1>2 DEF Fits, TypeInv, MkDir, SizesFit

LEMMA RmDirFits ==
  ASSUME Fits, NEW p \in Procs, NEW path \in Paths, RmDir(p, path)
  PROVE  Fits'
<1>1. path \in PathType /\ cwd[p] \in Inodes /\ fs \in FsType /\ ~fs.bad
  BY RequestTypes DEF Fits, TypeInv, RmDir, Up
<1>2. fs' \in FsType /\ (SizesFit(fs) => SizesFit(fs'))
  BY <1>1, RemoveDirType DEF RmDir
<1> QED
  BY <1>2 DEF Fits, TypeInv, RmDir, SizesFit

LEMMA ChDirFits ==
  ASSUME Fits, NEW p \in Procs, NEW path \in Paths, ChDir(p, path)
  PROVE  Fits'
<1>1. path \in PathType /\ cwd[p] \in Inodes /\ fs \in FsType /\ cwd \in [Procs -> Inodes]
  BY RequestTypes DEF Fits, TypeInv
<1>2. LookUp(fs, path, cwd[p]) \in Inodes \cup {ERROR}
  BY <1>1, LookUpType
<1>3. cwd' \in [Procs -> Inodes]
  BY <1>1, <1>2 DEF ChDir
<1> QED
  BY <1>3 DEF Fits, TypeInv, ChDir

LEMMA RestartFits ==
  ASSUME Fits, Restart
  PROVE  Fits'
<1>1. fs' \in FsType /\ SizesFit(fs')
  BY BootType DEF Fits, TypeInv, Restart
<1>2. fds' \in FdsType
  BY DEF Restart, NoFiles, FdsType
<1>3. cwd' \in [Procs -> Inodes]
  BY ConstantFacts DEF Restart, AtRoot
<1> QED
  BY <1>1, <1>2, <1>3 DEF Fits, TypeInv, SizesFit

LEMMA FitsStep == Fits /\ [Next]_vars => Fits'
<1> SUFFICES ASSUME Fits, [Next]_vars PROVE Fits'
  OBVIOUS
<1>1. CASE UNCHANGED vars
  BY <1>1 DEF vars, Fits, TypeInv
<1>2. CASE Next
  <2>1. ASSUME NEW p \in Procs, NEW path \in Paths,
               Open(p, path) \/ Create(p, path) \/ Unlink(p, path) \/ MkDir(p, path)
               \/ RmDir(p, path) \/ ChDir(p, path)
        PROVE  Fits'
    BY <2>1, OpenFits, CreateFits, UnlinkFits, MkDirFits, RmDirFits, ChDirFits
  <2>2. ASSUME NEW p \in Procs, NEW fd \in Slots, NEW n \in Sizes,
               Read(p, fd, n) \/ Write(p, fd, n)
        PROVE  Fits'
    BY <2>2, ReadFits, WriteFits
  <2>3. ASSUME NEW p \in Procs, NEW fd \in Slots, Close(p, fd) PROVE Fits'
    BY <2>3, CloseFits
  <2>4. ASSUME NEW p \in Procs, NEW fd \in Slots, NEW offset \in Offsets,
               NEW whence \in {"SEEK_SET", "SEEK_CUR", "SEEK_END"}, Seek(p, fd, offset, whence)
        PROVE  Fits'
    BY <2>4, SeekFits
  <2>5. ASSUME NEW p \in Procs, NEW old \in Paths, NEW new \in Paths, Link(p, old, new)
        PROVE  Fits'
    BY <2>5, LinkFits
  <2> QED
    BY <1>2, <2>1, <2>2, <2>3, <2>4, <2>5, RestartFits DEF Next
<1> QED
  BY <1>1, <1>2

LEMMA FitsAlways == Spec => []Fits
BY InitFits, FitsStep, PTL DEF Spec

(* Type correctness: whatever path, offset or size a process asks for, every  *)
(* handler leaves inodes, blocks, entries, free lists and the processes'      *)
(* tables within their types; numbers of inodes and blocks that come from the *)
(* disk, or from a free list that is empty, always name one that exists.      *)
THEOREM TypesKept == Spec => []TypeOK
<1>1. Fits => TypeOK
  BY DEF Fits, TypeInv, TypeOK, FsType, InodeType, CellType, PathNames, FdsType, FileType
<1> QED
  BY <1>1, FitsAlways, PTL

-----------------------------------------------------------------------------
(* handle_seek *)

(* A sum of two ints that is not too large for an int is itself, and one that *)
(* is too large is negative.                                                  *)
LEMMA WrapFacts ==
  ASSUME NEW x \in Int, INT_MAX \in Nat, -INT_MAX - 1 <= x, x <= 2 * INT_MAX
  PROVE  Wrap(x) \in Int /\ (IF x <= INT_MAX THEN Wrap(x) = x ELSE Wrap(x) < 0)
<1> DEFINE w == 2 * (INT_MAX + 1)
           y == x + INT_MAX + 1
<1>1. w \in Nat /\ w > 0 /\ y \in Nat /\ y < 2 * w
  OBVIOUS
<1>2. \A a, b \in Nat : b > 0 /\ a < b => a % b = a
  OBVIOUS
<1>3. \A a, b \in Nat : b > 0 /\ b <= a /\ a < 2 * b => a % b = a - b
  OBVIOUS
<1>4. y % w = IF y < w THEN y ELSE y - w
  <2> HIDE DEF w, y
  <2> QED
    BY <1>1, <1>2, <1>3
<1>5. Wrap(x) = (y % w) - (INT_MAX + 1)
  BY DEF Wrap
<1> QED
  BY <1>1, <1>4, <1>5

(* The limits of the sums: no file grows beyond its last block, but for the   *)
(* one entry too many that makes the server go wrong.                         *)
LEMMA SeekLimits ==
  ASSUME Fits, NEW i \in Inodes
  PROVE  /\ INT_MAX \in Nat
         /\ fs.inode[i].size \in Nat /\ fs.inode[i].size <= INT_MAX
<1>1. fs.inode[i].size \in Nat
  BY DEF Fits, TypeInv, FsType, InodeType
<1>2. INT_MAX \in Nat
  BY YfsAssumption
<1>3. MaxBlocks * UNITS \in Nat
  BY ConstantFacts
<1>4. fs.inode[i].size <= MaxBlocks * UNITS + (IF fs.bad THEN 1 ELSE 0)
  BY DEF Fits, SizesFit
<1>5. INT_MAX > MaxBlocks * UNITS
  BY OffsetsAssumption, SMTT(30)
<1> QED
  BY <1>1, <1>2, <1>3, <1>4, <1>5

LEMMA SeekExact ==
  ASSUME Fits
  PROVE  SeeksExact
<1> SUFFICES ASSUME NEW p \in Procs, NEW fd \in Slots, fds[p][fd] # NULL,
                    NEW offset \in Offsets,
                    NEW whence \in {"SEEK_SET", "SEEK_CUR", "SEEK_END"}
             PROVE  LET f == fds[p][fd]
                        size == fs.inode[f.i_num].size
                        to == offset + CASE whence = "SEEK_SET" -> 0
                                         [] whence = "SEEK_CUR" -> f.pos
                                         [] whence = "SEEK_END" -> size
                    IN  SeekFile(fs, f.i_num, offset, whence, f.pos)
                          = IF f.pos \in 0 .. size /\ to \in 0 .. size THEN to ELSE ERROR
  BY SMTT(30) DEF SeeksExact
<1> DEFINE f == fds[p][fd]
           size == fs.inode[f.i_num].size
<1>1. f.i_num \in Inodes /\ f.pos \in Nat
  BY FileFacts DEF Fits
<1>2. INT_MAX \in Nat /\ size \in Nat /\ size <= INT_MAX
  BY <1>1, SeekLimits
<1>3. offset \in Int /\ -INT_MAX - 1 <= offset /\ offset <= INT_MAX
  BY <1>2, OffsetsAssumption
<1> DEFINE pos == f.pos
<1>4. pos \in Nat
  BY <1>1
<1>5. SeekFile(fs, f.i_num, offset, whence, pos)
      = LET to == CASE whence = "SEEK_SET" -> offset
                    [] whence = "SEEK_CUR" -> Wrap(pos + offset)
                    [] whence = "SEEK_END" -> Wrap(size + offset)
        IN  IF /\ pos \in 0 .. size
               /\ IF whence = "SEEK_END" THEN offset <= 0 /\ to >= 0 ELSE to \in 0 .. size
            THEN to ELSE ERROR
  BY DEF SeekFile
<1> HIDE DEF f, size, pos
<1>6. CASE whence = "SEEK_SET"
  BY <1>2, <1>3, <1>4, <1>5, <1>6 DEF pos, size, f
<1>7. CASE whence = "SEEK_CUR"
  BY <1>2, <1>3, <1>4, <1>5, <1>7, WrapFacts, SMTT(30) DEF pos, size, f
<1>8. CASE whence = "SEEK_END"
  BY <1>2, <1>3, <1>4, <1>5, <1>8, WrapFacts DEF pos, size, f
<1> QED
  BY <1>6, <1>7, <1>8

(* With sums that wrap around at the width of an int, handle_seek answers     *)
(* every offset and every whence as it would with unbounded numbers, and      *)
(* never moves a position beyond the end of the file.                         *)
THEOREM SeekIsExact == Spec => []SeeksExact
<1>1. Fits => SeeksExact
  BY SeekExact
<1> QED
  BY <1>1, FitsAlways, PTL
=============================================================================
