-------------------------- MODULE MemoryPoolProofs --------------------------
(***************************************************************************)
(* Theorems about MemoryPool for any number of threads, pools and blocks:  *)
(* no block is lost, none has two owners, and each is as large as it was   *)
(* asked for if an int can hold that.                                      *)
(***************************************************************************)
EXTENDS MemoryPool, FiniteSetTheorems, WellFoundedInduction, TLAPS

Returning == {"frees", "pushes", "freesMalloc"}

\* The blocks a free list has to hold.
IsFree(b) ==
    /\ b \notin held
    /\ \A t \in Threads : ~(at[t] \in Returning /\ block[t] = b)

FreeBlocks(s) == {b \in BlocksOf(s) : IsFree(b)}

\* q lists the n members of B once each, in the order in which a list that
\* begins with first goes through them.
IsChain(q, n, first, hs, B) ==
    /\ n \in Nat
    /\ q \in [1..n -> B]
    /\ \A i, j \in 1..n : q[i] = q[j] => i = j
    /\ \A b \in B : \E i \in 1..n : q[i] = b
    /\ first = IF n = 0 THEN Null ELSE q[1]
    /\ \A i \in 1..n : hs[q[i]].Next = IF i = n THEN Null ELSE q[i + 1]

\* Every pool's list goes through its free blocks and ends.
HasList(s) ==
    \E n \in 0..Count[s] : \E q \in [1..n -> FreeBlocks(s)] :
        IsChain(q, n, m_pHead[s], heads, FreeBlocks(s))

Lists == \A s \in Sizes : HasList(s)

\* What a thread has, by its place.  Between its two steps on a list it has
\* the mutex of the pool, so that what it has read of the list is still so.
Carries(t) ==
    /\ at[t] \in {"runs", "allocs", "mallocs"} => block[t] = Null
    /\ at[t] \in {"allocs", "pops", "mallocs"} => size[t] \in Requests
    /\ at[t] \in {"allocs", "pops"} => PoolOf(size[t]) \in Sizes
    /\ at[t] = "pops" =>
          /\ m_Mutex[PoolOf(size[t])] = t
          /\ block[t] = m_pHead[PoolOf(size[t])]
          /\ block[t] # Null
    /\ at[t] \in {"frees", "pushes"} => block[t] \in Blocks \ held
    /\ at[t] = "pushes" =>
          /\ m_Mutex[block[t][1]] = t
          /\ heads[block[t]].Next = m_pHead[block[t][1]]
    /\ at[t] = "freesMalloc" => block[t] \in mallocs \ held

Carrying == \A t \in Threads : Carries(t)

\* Two threads do not give back the same block.
GivenOnce ==
    \A t, u \in Threads :
        at[t] \in Returning /\ at[u] \in Returning /\ block[t] = block[u] => t = u

\* The inductive invariant.  BlocksExact alone is not inductive: that the head
\* of the list is still what a thread has read needs the mutex (Carrying), and
\* that a list loses nothing needs the order of the blocks in it (Lists).
Inv == TypeOK /\ Carrying /\ GivenOnce /\ Lists /\ FitsRequest

-----------------------------------------------------------------------------
(* Blocks and pools *)

\* A block names its pool, is not nullptr and is none of malloc's.
LEMMA BlockFacts ==
    ASSUME NEW s \in Sizes, NEW b \in BlocksOf(s)
    PROVE  b \in Blocks /\ b[1] = s /\ b # Null /\ b \notin Mallocs
<1>1. b \in Blocks /\ b[1] = s
  BY DEF Blocks, BlocksOf
<1>2. QED
  BY <1>1, BlocksAssumption

LEMMA PoolOfBlock ==
    ASSUME NEW b \in Blocks
    PROVE  b[1] \in Sizes /\ b \in BlocksOf(b[1])
  BY DEF Blocks, BlocksOf

\* A set of sizes that is not empty has a smallest one.
LEMMA Smallest ==
    ASSUME NEW G \in SUBSET Nat, G # {}
    PROVE  \E n \in G : \A m \in G : n <= m
<1>1. PICK n \in G : \A m \in G : ~ (<<m, n>> \in OpToRel(<, Nat))
  BY NatLessThanWellFounded, WFMin
<1>2. \A m \in G : ~ (m < n)
  BY <1>1 DEF OpToRel
<1>3. QED
  BY <1>2

\* What is passed on as an int is the size itself, if an int can hold it.
LEMMA IntIs ==
    ASSUME NEW n \in Nat
    PROVE  ToInt(n) \in Int /\ (n <= IntMax => ToInt(n) = n)
<1>1. IntMax \in Nat /\ 2 * (IntMax + 1) \in Nat \ {0}
  BY IntAssumption
<1>2. n % (2 * (IntMax + 1)) \in Nat
  BY <1>1
<1>3. ToInt(n) \in Int
  BY <1>1, <1>2 DEF ToInt
<1>4. ASSUME n <= IntMax PROVE ToInt(n) = n
  <2>1. n < 2 * (IntMax + 1)
    BY <1>1, <1>4
  <2>2. n % (2 * (IntMax + 1)) = n
    BY <1>1, <2>1
  <2>3. QED
    BY <1>4, <2>2 DEF ToInt
<1>5. QED
  BY <1>3, <1>4

\* MemoryMgr picks a pool whose blocks the int fits into, or the one without,
\* for an int that is larger than every block.
LEMMA PoolFits ==
    ASSUME NEW n \in Nat
    PROVE  \/ PoolOf(n) = Other /\ ToInt(n) \in Nat
           \/ PoolOf(n) \in Sizes /\ ToInt(n) <= PoolOf(n)
<1> DEFINE G == {s \in Sizes : ToInt(n) <= s}
<1>1. ToInt(n) \in Int
  BY IntIs
<1>2. CASE G = {}
  <2>1. PoolOf(n) = Other
    BY <1>2 DEF PoolOf
  <2>2. PICK s \in Sizes : s \in Nat /\ ~(ToInt(n) <= s)
    BY <1>2, SizesAssumption
  <2>3. QED
    BY <1>1, <2>1, <2>2
<1>3. CASE G # {}
  <2>1. PoolOf(n) = Min(G)
    BY <1>3 DEF PoolOf
  <2>2. \E s \in G : \A r \in G : s <= r
    BY <1>3, Smallest, SizesAssumption
  <2>3. Min(G) \in G
    BY <2>2 DEF Min
  <2>4. QED
    BY <2>1, <2>3
<1>4. QED
  BY <1>2, <1>3

\* ... so that a size that an int can hold fits.
LEMMA PoolFitsSize ==
    ASSUME NEW n \in Nat, n <= IntMax
    PROVE  PoolOf(n) = Other \/ (PoolOf(n) \in Sizes /\ n <= PoolOf(n))
<1>1. ToInt(n) = n
  BY IntIs
<1>2. QED
  BY <1>1, PoolFits

-----------------------------------------------------------------------------
(* Lists *)

\* A list of blocks of a pool is no longer than the pool has blocks.
LEMMA ChainFits ==
    ASSUME NEW s \in Sizes, NEW B, B \subseteq BlocksOf(s),
           NEW n \in Nat, NEW q \in [1..n -> B],
           \A i, j \in 1..n : q[i] = q[j] => i = j
    PROVE  n <= Count[s]
<1> DEFINE place == [i \in 1..n |-> q[i][2]]
<1>1. Count[s] \in Nat
  BY SizesAssumption
<1>2. \A i \in 1..n : q[i] = <<s, q[i][2]>> /\ q[i][2] \in 1..Count[s]
  BY DEF BlocksOf
<1>3. place \in Injection(1..n, 1..Count[s])
  <2>1. place \in [1..n -> 1..Count[s]]
    BY <1>2
  <2>2. ASSUME NEW i \in 1..n, NEW j \in 1..n, place[i] = place[j]
        PROVE  i = j
    <3>1. q[i] = <<s, place[i]>> /\ q[j] = <<s, place[j]>>
      BY <1>2
    <3>2. q[i] = q[j]
      BY <2>2, <3>1
    <3>3. QED
      BY <3>2
  <2>3. QED
    BY <2>1, <2>2 DEF Injection, IsInjective
<1>4. \A k \in Nat : IsFiniteSet(1..k) /\ Cardinality(1..k) = k
  <2>1. TAKE k \in Nat
  <2>2. 1 \in Int /\ k \in Int
    OBVIOUS
  <2>3. IsFiniteSet(1..k) /\ Cardinality(1..k) = IF 1 > k THEN 0 ELSE k - 1 + 1
    BY <2>2, FS_Interval
  <2>4. QED
    BY <2>3
<1>5. QED
  BY <1>1, <1>3, <1>4, FS_Injection

\* A list does not see what happens to the heads of other blocks.
LEMMA ChainKept ==
    ASSUME NEW q, NEW n, NEW first, NEW hs, NEW gs, NEW B,
           IsChain(q, n, first, hs, B), \A b \in B : gs[b] = hs[b]
    PROVE  IsChain(q, n, first, gs, B)
  BY DEF IsChain

\* AllocMemory: the list without its first block.
LEMMA ChainPopped ==
    ASSUME NEW q, NEW n, NEW first, NEW hs, NEW B,
           IsChain(q, n, first, hs, B), n # 0
    PROVE  /\ first \in B
           /\ \E r \in [1..(n - 1) -> B \ {first}] :
                 IsChain(r, n - 1, hs[first].Next, hs, B \ {first})
<1> DEFINE r == [i \in 1..(n - 1) |-> q[i + 1]]
<1>1. n \in Nat /\ n - 1 \in Nat /\ 1 \in 1..n /\ first = q[1] /\ first \in B
  BY DEF IsChain
<1>2. \A i \in 1..(n - 1) : i + 1 \in 1..n /\ r[i] = q[i + 1] /\ r[i] \in B \ {first}
  BY <1>1 DEF IsChain
<1>3. r \in [1..(n - 1) -> B \ {first}]
  BY <1>2
<1>4. \A i, j \in 1..(n - 1) : r[i] = r[j] => i = j
  BY <1>2 DEF IsChain
<1>5. ASSUME NEW b \in B \ {first} PROVE \E i \in 1..(n - 1) : r[i] = b
  <2>1. PICK i \in 1..n : q[i] = b
    BY DEF IsChain
  <2>2. i # 1
    BY <1>1, <1>5, <2>1
  <2>3. i - 1 \in 1..(n - 1) /\ (i - 1) + 1 = i
    BY <1>1, <2>2
  <2>4. QED
    BY <1>2, <2>1, <2>3
<1>6. hs[first].Next = IF n - 1 = 0 THEN Null ELSE r[1]
  BY <1>1, <1>2 DEF IsChain
<1>7. \A i \in 1..(n - 1) : hs[r[i]].Next = IF i = n - 1 THEN Null ELSE r[i + 1]
  <2>1. TAKE i \in 1..(n - 1)
  <2>2. hs[q[i + 1]].Next = IF i + 1 = n THEN Null ELSE q[(i + 1) + 1]
    BY <1>2 DEF IsChain
  <2>3. CASE i = n - 1
    BY <1>1, <1>2, <2>2, <2>3
  <2>4. CASE i # n - 1
    BY <1>1, <1>2, <2>2, <2>4
  <2>5. QED
    BY <2>3, <2>4
<1> HIDE DEF r
<1>8. IsChain(r, n - 1, hs[first].Next, hs, B \ {first})
  BY <1>1, <1>3, <1>4, <1>5, <1>6, <1>7 DEF IsChain
<1>9. QED
  BY <1>1, <1>3, <1>8

\* FreeMemory: a block that points to the first one goes before it.
LEMMA ChainPushed ==
    ASSUME NEW q, NEW n, NEW first, NEW hs, NEW B, NEW b,
           IsChain(q, n, first, hs, B), b \notin B, hs[b].Next = first
    PROVE  \E r \in [1..(n + 1) -> B \cup {b}] : IsChain(r, n + 1, b, hs, B \cup {b})
<1> DEFINE r == [i \in 1..(n + 1) |-> IF i = 1 THEN b ELSE q[i - 1]]
<1>1. n \in Nat /\ n + 1 \in Nat /\ n + 1 # 0 /\ 1 \in 1..(n + 1)
  BY DEF IsChain
<1>2. r[1] = b /\ \A i \in 1..(n + 1) \ {1} : i - 1 \in 1..n /\ r[i] = q[i - 1] /\ r[i] \in B
  BY <1>1 DEF IsChain
<1>3. r \in [1..(n + 1) -> B \cup {b}]
  BY <1>2
<1>4. \A i, j \in 1..(n + 1) : r[i] = r[j] => i = j
  <2>1. TAKE i, j \in 1..(n + 1)
  <2>2. CASE i = 1 \/ j = 1
    BY <1>2, <2>2
  <2>3. CASE i # 1 /\ j # 1
    BY <1>2, <2>3 DEF IsChain
  <2>4. QED
    BY <2>2, <2>3
<1>5. ASSUME NEW x \in B \cup {b} PROVE \E i \in 1..(n + 1) : r[i] = x
  <2>1. CASE x = b
    BY <1>1, <1>2, <2>1
  <2>2. CASE x \in B
    <3>1. PICK i \in 1..n : q[i] = x
      BY <2>2 DEF IsChain
    <3>2. i + 1 \in 1..(n + 1) \ {1} /\ (i + 1) - 1 = i
      BY <1>1
    <3>3. QED
      BY <1>2, <3>1, <3>2
  <2>3. QED
    BY <2>1, <2>2
<1>6. \A i \in 1..(n + 1) : hs[r[i]].Next = IF i = n + 1 THEN Null ELSE r[i + 1]
  <2>1. TAKE i \in 1..(n + 1)
  <2>2. CASE i = 1
    <3>1. first = IF n = 0 THEN Null ELSE q[1]
      BY DEF IsChain
    <3>2. n # 0 => r[2] = q[1]
      BY <1>1
    <3>3. QED
      BY <1>1, <1>2, <2>2, <3>1, <3>2
  <2>3. CASE i # 1
    <3>1. i - 1 \in 1..n /\ r[i] = q[i - 1]
      BY <1>2, <2>3
    <3>2. hs[q[i - 1]].Next = IF i - 1 = n THEN Null ELSE q[(i - 1) + 1]
      BY <3>1 DEF IsChain
    <3>3. i # n + 1 => r[i + 1] = q[i]
      BY <1>1
    <3>4. QED
      BY <1>1, <3>1, <3>2, <3>3
  <2>4. QED
    BY <2>2, <2>3
<1> HIDE DEF r
<1>7. IsChain(r, n + 1, b, hs, B \cup {b})
  BY <1>1, <1>2, <1>3, <1>4, <1>5, <1>6 DEF IsChain
<1>8. QED
  BY <1>3, <1>7

\* Following Next from m_pHead goes through the list and then stays at its end.
LEMMA FollowIs ==
    ASSUME NEW s \in Sizes, NEW B, B \subseteq BlocksOf(s), NEW n \in Nat, NEW q,
           IsChain(q, n, m_pHead[s], heads, B), n <= Count[s]
    PROVE  \A i \in 0..Count[s] : Follow(s)[i] = IF i < n THEN q[i + 1] ELSE Null
<1> DEFINE Step(f, i) == IF i = 0 THEN m_pHead[s]
                         ELSE IF f[i - 1] = Null THEN Null
                         ELSE heads[f[i - 1]].Next
           Solves(f) == f = [i \in 0..Count[s] |-> Step(f, i)]
           F == [i \in 0..Count[s] |-> IF i < n THEN q[i + 1] ELSE Null]
<1>1. Count[s] \in Nat /\ n \in 0..Count[s]
  BY SizesAssumption
<1>2. \A i \in 0..Count[s] : F[i] = IF i < n THEN q[i + 1] ELSE Null
  OBVIOUS
<1>3. \A i \in 0..Count[s] : Step(F, i) = F[i]
  <2>1. TAKE i \in 0..Count[s]
  <2>2. CASE i = 0
    <3>1. m_pHead[s] = IF n = 0 THEN Null ELSE q[1]
      BY DEF IsChain
    <3>2. F[0] = IF 0 < n THEN q[1] ELSE Null
      BY <1>1
    <3>3. QED
      BY <1>1, <2>2, <3>1, <3>2
  <2>3. CASE i # 0 /\ i - 1 < n
    <3>1. i - 1 \in 0..Count[s] /\ i \in 1..n /\ F[i - 1] = q[i]
      BY <1>1, <1>2, <2>3
    <3>2. q[i] # Null
      BY <3>1, BlockFacts DEF IsChain
    <3>3. heads[q[i]].Next = IF i = n THEN Null ELSE q[i + 1]
      BY <3>1 DEF IsChain
    <3>4. Step(F, i) = heads[q[i]].Next
      BY <2>3, <3>1, <3>2
    <3>5. F[i] = IF i = n THEN Null ELSE q[i + 1]
      BY <1>1, <1>2, <3>1
    <3>6. QED
      BY <3>3, <3>4, <3>5
  <2>4. CASE i # 0 /\ ~(i - 1 < n)
    BY <1>1, <1>2, <2>4
  <2>5. QED
    BY <2>2, <2>3, <2>4
<1>4. Solves(F)
  <2>1. F = [i \in 0..Count[s] |-> F[i]]
    OBVIOUS
  <2> HIDE DEF F, Step
  <2>2. QED
    BY <1>3, <2>1
<1>5. Follow(s) = CHOOSE f : Solves(f)
  BY DEF Follow
<1> HIDE DEF F
<1>6. Solves(Follow(s))
  <2> HIDE DEF Solves
  <2>1. QED
    BY <1>4, <1>5, Zenon
<1> DEFINE D == {i \in 0..Count[s] : Follow(s)[i] # F[i]}
<1>7. D = {}
  <2>1. SUFFICES ASSUME D # {} PROVE FALSE
    OBVIOUS
  <2>2. D \in SUBSET Nat
    BY <1>1
  <2> HIDE DEF D
  <2>3. PICK k \in D : \A m \in D : k <= m
    BY <2>1, <2>2, Smallest
  <2> USE DEF D
  <2>4. k \in 0..Count[s] /\ Follow(s)[k] = Step(Follow(s), k)
    BY <1>6
  <2>5. k # 0 => k - 1 \in 0..Count[s] /\ k - 1 \notin D
    BY <1>1, <2>3, <2>4
  <2>6. k # 0 => Follow(s)[k - 1] = F[k - 1]
    BY <2>5
  <2>7. Step(Follow(s), k) = Step(F, k)
    BY <2>6
  <2>8. QED
    BY <1>3, <2>3, <2>4, <2>7
<1>8. QED
  BY <1>2, <1>7

-----------------------------------------------------------------------------
(* What the inductive invariant says *)

\* A list is what the specification follows: it ends, and holds what is free.
LEMMA ListExact ==
    ASSUME Lists, NEW s \in Sizes
    PROVE  Follow(s)[Count[s]] = Null /\ FreeList(s) = FreeBlocks(s)
<1>1. PICK n \in 0..Count[s] : \E q \in [1..n -> FreeBlocks(s)] :
         IsChain(q, n, m_pHead[s], heads, FreeBlocks(s))
  BY DEF Lists, HasList
<1>2. PICK q \in [1..n -> FreeBlocks(s)] :
         IsChain(q, n, m_pHead[s], heads, FreeBlocks(s))
  BY <1>1
<1>3. n \in Nat /\ n <= Count[s] /\ Count[s] \in Nat
  BY SizesAssumption
<1>4. FreeBlocks(s) \subseteq BlocksOf(s)
  BY DEF FreeBlocks
<1>5. \A i \in 0..Count[s] : Follow(s)[i] = IF i < n THEN q[i + 1] ELSE Null
  BY <1>2, <1>3, <1>4, FollowIs
<1>6. \A b \in FreeBlocks(s) : b # Null
  BY <1>4, BlockFacts
<1>7. FreeList(s) \subseteq FreeBlocks(s)
  <2>1. SUFFICES ASSUME NEW i \in 0..Count[s], Follow(s)[i] # Null
                 PROVE  Follow(s)[i] \in FreeBlocks(s)
    BY DEF FreeList
  <2>2. i < n /\ i + 1 \in 1..n /\ Follow(s)[i] = q[i + 1]
    BY <1>3, <1>5, <2>1
  <2>3. QED
    BY <1>2, <2>2
<1>8. ASSUME NEW b \in FreeBlocks(s) PROVE b \in FreeList(s)
  <2>1. PICK i \in 1..n : q[i] = b
    BY <1>2 DEF IsChain
  <2>2. i - 1 \in 0..Count[s] /\ i - 1 < n /\ (i - 1) + 1 = i
    BY <1>3
  <2>3. Follow(s)[i - 1] = b /\ b # Null
    BY <1>5, <1>6, <2>1, <2>2
  <2>4. QED
    BY <2>2, <2>3 DEF FreeList
<1>9. QED
  BY <1>3, <1>5, <1>7, <1>8

\* What a list begins with is free, and a list that is not empty has a first.
LEMMA FirstIsFree ==
    ASSUME Lists, NEW s \in Sizes, m_pHead[s] # Null
    PROVE  m_pHead[s] \in FreeBlocks(s)
<1>1. PICK n \in 0..Count[s] : \E q \in [1..n -> FreeBlocks(s)] :
         IsChain(q, n, m_pHead[s], heads, FreeBlocks(s))
  BY DEF Lists, HasList
<1>2. PICK q \in [1..n -> FreeBlocks(s)] :
         IsChain(q, n, m_pHead[s], heads, FreeBlocks(s))
  BY <1>1
<1>3. n # 0
  BY <1>2 DEF IsChain
<1>4. QED
  BY <1>2, <1>3, ChainPopped

LEMMA AtMostOne ==
    ASSUME NEW T \in SUBSET Threads, \A t, u \in T : t = u
    PROVE  Cardinality(T) \in {0, 1} /\ (T = {} => Cardinality(T) = 0)
<1>1. CASE T = {}
  BY <1>1, FS_EmptySet
<1>2. CASE T # {}
  <2>1. PICK t : T = {t}
    BY <1>2
  <2>2. QED
    BY <2>1, FS_Singleton
<1>3. QED
  BY <1>1, <1>2

\* A block that is handed out is free, and is handed out to one thread.
LEMMA HandedOut ==
    ASSUME Carrying, Lists, NEW t \in Threads, at[t] = "pops"
    PROVE  /\ block[t] \in FreeBlocks(PoolOf(size[t])) /\ PoolOf(size[t]) \in Sizes
           /\ block[t] \in Blocks /\ block[t] \notin mallocs \cap Mallocs
           /\ block[t][1] = PoolOf(size[t])
<1>1. /\ PoolOf(size[t]) \in Sizes /\ block[t] = m_pHead[PoolOf(size[t])]
      /\ block[t] # Null
  BY DEF Carrying, Carries
<1>2. block[t] \in FreeBlocks(PoolOf(size[t]))
  BY <1>1, FirstIsFree
<1>3. block[t] \in BlocksOf(PoolOf(size[t]))
  BY <1>2 DEF FreeBlocks
<1>4. QED
  BY <1>1, <1>2, <1>3, BlockFacts

\* The inductive invariant implies what the run checks.
LEMMA InvExact == Inv => BlocksExact
<1> SUFFICES ASSUME Inv PROVE BlocksExact
  OBVIOUS
<1>1. ASSUME NEW s \in Sizes
      PROVE  /\ Follow(s)[Count[s]] = Null
             /\ FreeList(s) = {b \in BlocksOf(s) : b \notin held /\ Freeing(b) = {}}
  <2>1. FreeBlocks(s) = {b \in BlocksOf(s) : b \notin held /\ Freeing(b) = {}}
    BY DEF FreeBlocks, IsFree, Freeing, Returning
  <2>2. QED
    BY <2>1, ListExact DEF Inv
<1>2. ASSUME NEW b \in Blocks \cup mallocs
      PROVE  /\ Cardinality(Freeing(b)) + Cardinality(HandingOut(b)) <= 1
             /\ b \in held => Freeing(b) \cup HandingOut(b) = {}
  <2>1. \A t, u \in Freeing(b) : t = u
    BY DEF Freeing, Inv, GivenOnce, Returning
  <2>2. ASSUME NEW t \in HandingOut(b)
        PROVE  /\ b \in FreeBlocks(PoolOf(size[t])) /\ b[1] = PoolOf(size[t])
               /\ m_Mutex[b[1]] = t
    BY HandedOut DEF HandingOut, Inv, Carrying, Carries
  <2>3. \A t, u \in HandingOut(b) : t = u
    BY <2>2
  <2>4. HandingOut(b) # {} => Freeing(b) = {} /\ b \notin held
    BY <2>2 DEF FreeBlocks, IsFree, Freeing, Returning
  <2>5. Freeing(b) \subseteq Threads /\ HandingOut(b) \subseteq Threads
    BY DEF Freeing, HandingOut
  <2>6. /\ Cardinality(Freeing(b)) \in {0, 1} /\ Cardinality(HandingOut(b)) \in {0, 1}
        /\ Freeing(b) = {} => Cardinality(Freeing(b)) = 0
        /\ HandingOut(b) = {} => Cardinality(HandingOut(b)) = 0
    BY <2>1, <2>3, <2>5, AtMostOne
  <2>7. b \in held => Freeing(b) = {}
    BY DEF Freeing, Inv, Carrying, Carries
  <2>8. QED
    BY <2>4, <2>6, <2>7
<1>3. QED
  BY <1>1, <1>2 DEF BlocksExact, Inv

-----------------------------------------------------------------------------
(* The first state *)

LEMMA InitLists == Init => Lists
<1> SUFFICES ASSUME Init, NEW s \in Sizes PROVE HasList(s)
  BY DEF Lists
<1> DEFINE n == Count[s]
           q == [i \in 1..n |-> <<s, i>>]
<1>1. n \in Nat \ {0}
  BY SizesAssumption
<1>2. FreeBlocks(s) = BlocksOf(s)
  BY DEF Init, FreeBlocks, IsFree, Returning
<1>3. \A i \in 1..n : q[i] = <<s, i>> /\ q[i] \in BlocksOf(s)
  BY DEF BlocksOf
<1>4. q \in [1..n -> FreeBlocks(s)]
  BY <1>2, <1>3
<1>5. \A i, j \in 1..n : q[i] = q[j] => i = j
  BY <1>3
<1>6. \A b \in BlocksOf(s) : \E i \in 1..n : q[i] = b
  BY <1>3 DEF BlocksOf
<1>7. m_pHead[s] = q[1]
  BY <1>1, <1>3 DEF Init
<1>8. \A i \in 1..n : heads[q[i]].Next = IF i = n THEN Null ELSE q[i + 1]
  <2>1. TAKE i \in 1..n
  <2>2. q[i] \in Blocks /\ q[i][1] = s /\ q[i][2] = i
    BY <1>3, BlockFacts
  <2>3. heads[q[i]].Next = FirstNext(s, i)
    BY <2>2 DEF Init, FirstHead
  <2>4. i # n => q[i + 1] = <<s, i + 1>>
    BY <1>1, <1>3
  <2>5. QED
    BY <2>3, <2>4 DEF FirstNext
<1> HIDE DEF q
<1>9. IsChain(q, n, m_pHead[s], heads, FreeBlocks(s))
  BY <1>1, <1>2, <1>4, <1>5, <1>6, <1>7, <1>8 DEF IsChain
<1>10. QED
  BY <1>1, <1>4, <1>9 DEF HasList

LEMMA InitInv == Init => Inv
<1> SUFFICES ASSUME Init PROVE Inv
  OBVIOUS
<1>1. ASSUME NEW b \in Blocks
      PROVE  heads[b] \in [Next : BlocksOf(b[1]) \cup {Null}, Pool : {b[1]}, IsBlock : {TRUE}]
  <2>1. heads[b] = FirstHead(b)
    BY DEF Init
  <2>2. PICK s \in Sizes : b \in BlocksOf(s)
    BY DEF Blocks
  <2>3. FirstNext(b[1], b[2]) \in BlocksOf(b[1]) \cup {Null}
    <3>1. PICK i \in 1..Count[s] : b = <<s, i>>
      BY <2>2 DEF BlocksOf
    <3>2. i # Count[s] => i + 1 \in 1..Count[s]
      BY SizesAssumption
    <3>3. i # Count[s] => <<s, i + 1>> \in BlocksOf(s)
      BY <3>2 DEF BlocksOf
    <3>4. b[1] = s /\ b[2] = i
      BY <3>1
    <3>5. QED
      BY <3>3, <3>4 DEF FirstNext
  <2>4. heads[b] = [Next |-> FirstNext(b[1], b[2]), Pool |-> b[1], IsBlock |-> TRUE]
    BY <2>1 DEF FirstHead
  <2>5. QED
    BY <2>3, <2>4
<1>2. \A s \in Sizes : m_pHead[s] \in BlocksOf(s)
  BY SizesAssumption DEF Init, BlocksOf
<1>3. TypeOK
  BY <1>1, <1>2 DEF Init, TypeOK
<1>4. Carrying /\ GivenOnce /\ FitsRequest
  BY DEF Init, Carrying, Carries, GivenOnce, FitsRequest, Returning
<1>5. QED
  BY <1>3, <1>4, InitLists DEF Inv

-----------------------------------------------------------------------------
(* The steps *)

\* Which blocks are free before and after a step of t.
GivenByOthers(t, b) == \E u \in Threads \ {t} : at[u] \in Returning /\ block[u] = b

LEMMA FreeBefore ==
    ASSUME NEW t \in Threads, NEW b
    PROVE  IsFree(b) <=>
              b \notin held /\ ~(at[t] \in Returning /\ block[t] = b) /\ ~GivenByOthers(t, b)
  BY DEF IsFree, GivenByOthers

LEMMA FreeAfter ==
    ASSUME TypeOK, NEW t \in Threads, NEW p, at' = [at EXCEPT ![t] = p],
           \A u \in Threads \ {t} : block'[u] = block[u], NEW b
    PROVE  IsFree(b)' <=>
              b \notin held' /\ ~(p \in Returning /\ block'[t] = b) /\ ~GivenByOthers(t, b)
<1>1. at'[t] = p /\ \A u \in Threads \ {t} : at'[u] = at[u]
  BY DEF TypeOK
<1>2. QED
  BY <1>1 DEF IsFree, GivenByOthers

\* A list stays when its blocks stay free and keep their heads.
LEMMA ListKept ==
    ASSUME NEW s \in Sizes, HasList(s), m_pHead'[s] = m_pHead[s],
           \A b \in BlocksOf(s) : IsFree(b)' <=> IsFree(b),
           \A b \in BlocksOf(s) : IsFree(b) => heads'[b] = heads[b]
    PROVE  HasList(s)'
<1>1. FreeBlocks(s)' = FreeBlocks(s) /\ \A b \in FreeBlocks(s) : heads'[b] = heads[b]
  BY DEF FreeBlocks, BlocksOf
<1>2. PICK n \in 0..Count[s] : \E q \in [1..n -> FreeBlocks(s)] :
         IsChain(q, n, m_pHead[s], heads, FreeBlocks(s))
  BY DEF HasList
<1>3. PICK q \in [1..n -> FreeBlocks(s)] :
         IsChain(q, n, m_pHead[s], heads, FreeBlocks(s))
  BY <1>2
<1>4. IsChain(q, n, m_pHead[s], heads', FreeBlocks(s))
  BY <1>1, <1>3, ChainKept
<1>5. QED
  BY <1>1, <1>4 DEF HasList

\* Where a thread goes without its block, the block and its head stay.
LEMMA FreeUnmoved ==
    ASSUME TypeOK, Lists, NEW t \in Threads, NEW p, at' = [at EXCEPT ![t] = p],
           UNCHANGED <<block, m_pHead>>, held' \cap Blocks = held \cap Blocks,
           p \in Returning <=> at[t] \in Returning,
           \A b \in Blocks : IsFree(b) => heads'[b] = heads[b]
    PROVE  Lists'
<1>1. ASSUME NEW b \in Blocks PROVE IsFree(b)' <=> IsFree(b)
  <2>1. IsFree(b)' <=>
           b \notin held' /\ ~(p \in Returning /\ block[t] = b) /\ ~GivenByOthers(t, b)
    BY FreeAfter
  <2>2. QED
    BY <2>1, FreeBefore
<1>2. QED
  BY <1>1, BlockFacts, ListKept DEF Lists

LEMMA NewStep ==
    ASSUME Inv, NEW t \in Threads, NEW n \in Requests, New(t, n)
    PROVE  Inv'
<1> DEFINE p == IF PoolOf(n) = Other THEN "mallocs" ELSE "allocs"
<1>1. /\ at[t] = "runs" /\ at' = [at EXCEPT ![t] = p] /\ size' = [size EXCEPT ![t] = n]
      /\ UNCHANGED <<heads, m_pHead, m_Mutex, mallocs, capacity, held, asked, block>>
  BY DEF New, Goes, poolVars, mallocVars, programVars
<1>2. p \in {"mallocs", "allocs"} /\ (p = "allocs" => PoolOf(n) \in Sizes)
  BY PoolFits, RequestsAssumption
<1> HIDE DEF p
<1>3. /\ at'[t] = p /\ \A u \in Threads \ {t} : at'[u] = at[u]
      /\ size'[t] = n /\ \A u \in Threads \ {t} : size'[u] = size[u]
  BY <1>1 DEF Inv, TypeOK
<1>4. TypeOK'
  BY <1>1, <1>2 DEF Inv, TypeOK
<1>5. Carrying'
  BY <1>1, <1>2, <1>3 DEF Inv, Carrying, Carries
<1>6. GivenOnce'
  BY <1>1, <1>2, <1>3 DEF Inv, GivenOnce, Returning
<1>7. Lists'
  BY <1>1, <1>2, FreeUnmoved DEF Inv, Returning
<1>8. FitsRequest'
  BY <1>1 DEF Inv, FitsRequest
<1>9. QED
  BY <1>4, <1>5, <1>6, <1>7, <1>8 DEF Inv

LEMMA ReadHeadStep ==
    ASSUME Inv, NEW t \in Threads, ReadHead(t)
    PROVE  Inv'
<1> DEFINE s == PoolOf(size[t])
<1>1. /\ at[t] = "allocs" /\ at' = [at EXCEPT ![t] = "pops"]
      /\ m_Mutex[s] = Nobody /\ m_Mutex' = [m_Mutex EXCEPT ![s] = t]
      /\ m_pHead[s] # Null /\ block' = [block EXCEPT ![t] = m_pHead[s]]
      /\ UNCHANGED <<heads, m_pHead, mallocs, capacity, held, asked, size>>
  BY DEF ReadHead, Goes, mallocVars, programVars
<1>2. s \in Sizes /\ size[t] \in Requests /\ block[t] = Null
  BY <1>1 DEF Inv, Carrying, Carries
<1>3. m_pHead[s] \in Blocks /\ m_pHead[s] \in BlocksOf(s)
  BY <1>1, <1>2, BlockFacts DEF Inv, TypeOK
<1>4. /\ at'[t] = "pops" /\ \A u \in Threads \ {t} : at'[u] = at[u]
      /\ block'[t] = m_pHead[s] /\ \A u \in Threads \ {t} : block'[u] = block[u]
      /\ m_Mutex'[s] = t /\ \A r \in Sizes \ {s} : m_Mutex'[r] = m_Mutex[r]
  BY <1>1, <1>2 DEF Inv, TypeOK
<1>5. TypeOK'
  BY <1>1, <1>2, <1>3 DEF Inv, TypeOK
<1>6. Carrying'
  <2>1. ASSUME NEW u \in Threads \ {t}
        PROVE  /\ at[u] = "pops" => PoolOf(size[u]) # s
               /\ at[u] = "pushes" => block[u][1] # s
    BY <1>1, NamesAssumption DEF Inv, Carrying, Carries
  <2>2. \A u \in Threads : at[u] = "pushes" => block[u][1] \in Sizes
    BY PoolOfBlock DEF Inv, Carrying, Carries
  <2> HIDE DEF s
  <2>3. ASSUME NEW u \in Threads \ {t}
        PROVE  /\ at[u] = "pops" => m_Mutex'[PoolOf(size[u])] = m_Mutex[PoolOf(size[u])]
               /\ at[u] = "pushes" => m_Mutex'[block[u][1]] = m_Mutex[block[u][1]]
    BY <1>4, <2>1, <2>2 DEF Inv, Carrying, Carries
  <2>4. QED
    BY <1>1, <1>2, <1>4, <2>3 DEF Inv, Carrying, Carries, s
<1>7. GivenOnce'
  BY <1>1, <1>4 DEF Inv, GivenOnce, Returning
<1>8. Lists'
  <2>1. ASSUME NEW b \in Blocks PROVE IsFree(b)' <=> IsFree(b)
    <3>1. TypeOK /\ "pops" \notin Returning /\ at[t] \notin Returning
      BY <1>1 DEF Inv, Returning
    <3>2. IsFree(b)' <=> b \notin held' /\ ~GivenByOthers(t, b)
      BY <1>1, <1>4, <3>1, FreeAfter
    <3>3. QED
      BY <1>1, <3>1, <3>2, FreeBefore
  <2>2. QED
    BY <1>1, <2>1, BlockFacts, ListKept DEF Inv, Lists
<1>9. FitsRequest'
  BY <1>1 DEF Inv, FitsRequest
<1>10. QED
  BY <1>5, <1>6, <1>7, <1>8, <1>9 DEF Inv

LEMMA FindEmptyStep ==
    ASSUME Inv, NEW t \in Threads, FindEmpty(t)
    PROVE  Inv'
<1>1. /\ at[t] = "allocs" /\ at' = [at EXCEPT ![t] = "mallocs"]
      /\ UNCHANGED <<heads, m_pHead, m_Mutex, mallocs, capacity, held, asked, size, block>>
  BY DEF FindEmpty, Goes, poolVars, mallocVars, programVars
<1>2. at'[t] = "mallocs" /\ \A u \in Threads \ {t} : at'[u] = at[u]
  BY <1>1 DEF Inv, TypeOK
<1>3. TypeOK'
  BY <1>1 DEF Inv, TypeOK
<1>4. Carrying' /\ GivenOnce'
  BY <1>1, <1>2 DEF Inv, Carrying, Carries, GivenOnce, Returning
<1>5. Lists'
  BY <1>1, FreeUnmoved DEF Inv, Returning
<1>6. FitsRequest'
  BY <1>1 DEF Inv, FitsRequest
<1>7. QED
  BY <1>3, <1>4, <1>5, <1>6 DEF Inv

\* Pop: the block leaves the list and goes to the program in the same step.
LEMMA PopStep ==
    ASSUME Inv, NEW t \in Threads, Pop(t)
    PROVE  Inv'
<1>1. PICK s, b :
         /\ s = PoolOf(size[t]) /\ b = block[t]
         /\ at[t] = "pops" /\ at' = [at EXCEPT ![t] = "runs"]
         /\ m_pHead' = [m_pHead EXCEPT ![s] = heads[m_pHead[s]].Next]
         /\ m_Mutex' = [m_Mutex EXCEPT ![s] = Nobody]
         /\ held' = held \cup {b} /\ asked' = [asked EXCEPT ![b] = size[t]]
         /\ size' = [size EXCEPT ![t] = 0] /\ block' = [block EXCEPT ![t] = Null]
         /\ UNCHANGED <<heads, mallocs, capacity>>
  BY DEF Pop, HandOut, Goes, mallocVars
<1>2. /\ s \in Sizes /\ size[t] \in Requests /\ size[t] \in Nat
      /\ size[t] <= IntMax => size[t] <= s
      /\ m_Mutex[s] = t /\ b = m_pHead[s] /\ b # Null
  <2>1. /\ s \in Sizes /\ size[t] \in Requests /\ size[t] \in Nat
        /\ m_Mutex[s] = t /\ b = m_pHead[s] /\ b # Null
    BY <1>1, RequestsAssumption DEF Inv, Carrying, Carries
  <2>2. size[t] <= IntMax => size[t] <= s
    BY <1>1, <2>1, PoolFitsSize, NamesAssumption
  <2>3. QED
    BY <2>1, <2>2
<1>3. /\ b \in FreeBlocks(s) /\ b \in BlocksOf(s) /\ b \in Blocks /\ b[1] = s
      /\ IsFree(b) /\ b \notin Mallocs
  <2>1. b \in FreeBlocks(s)
    BY <1>2, FirstIsFree DEF Inv
  <2>2. QED
    BY <1>2, <2>1, BlockFacts DEF FreeBlocks
<1>4. /\ at'[t] = "runs" /\ \A u \in Threads \ {t} : at'[u] = at[u]
      /\ size'[t] = 0 /\ \A u \in Threads \ {t} : size'[u] = size[u]
      /\ block'[t] = Null /\ \A u \in Threads \ {t} : block'[u] = block[u]
      /\ m_Mutex'[s] = Nobody /\ \A r \in Sizes \ {s} : m_Mutex'[r] = m_Mutex[r]
      /\ m_pHead'[s] = heads[b].Next /\ \A r \in Sizes \ {s} : m_pHead'[r] = m_pHead[r]
  BY <1>1, <1>2 DEF Inv, TypeOK
<1>5. TypeOK'
  <2>1. heads[b].Next \in BlocksOf(s) \cup {Null}
    BY <1>3 DEF Inv, TypeOK
  <2>2. DOMAIN m_pHead' = Sizes /\ \A r \in Sizes : m_pHead'[r] \in BlocksOf(r) \cup {Null}
    BY <1>1, <1>4, <2>1 DEF Inv, TypeOK
  <2>3. /\ m_Mutex' \in [Sizes -> Threads \cup {Nobody}]
        /\ held' \subseteq Blocks \cup mallocs'
    BY <1>1, <1>3 DEF Inv, TypeOK
  <2>4. asked' \in [Blocks \cup Mallocs -> Nat] /\ size' \in [Threads -> Requests \cup {0}]
    BY <1>1, <1>2, <1>3, RequestsAssumption DEF Inv, TypeOK
  <2>5. QED
    BY <1>1, <2>2, <2>3, <2>4 DEF Inv, TypeOK
<1>6. Carrying'
  <2>1. ASSUME NEW u \in Threads \ {t}
        PROVE  /\ at[u] = "pops" => PoolOf(size[u]) \in Sizes \ {s}
               /\ at[u] = "pushes" => block[u][1] \in Sizes \ {s}
    BY <1>2, PoolOfBlock DEF Inv, Carrying, Carries
  <2>2. \A u \in Threads \ {t} : at[u] \in Returning => block[u] # b
    BY <1>3 DEF IsFree
  <2>3. QED
    BY <1>1, <1>4, <2>1, <2>2 DEF Inv, Carrying, Carries, Returning
<1>7. GivenOnce'
  BY <1>1, <1>4 DEF Inv, GivenOnce, Returning
<1>8. ASSUME NEW c \in Blocks PROVE IsFree(c)' <=> IsFree(c) /\ c # b
  <2>1. TypeOK /\ "runs" \notin Returning /\ at[t] \notin Returning
    BY <1>1 DEF Inv, Returning
  <2>2. IsFree(c)' <=> c \notin held' /\ ~GivenByOthers(t, c)
    BY <1>1, <1>4, <2>1, FreeAfter
  <2>3. QED
    BY <1>1, <2>1, <2>2, FreeBefore
<1>9. Lists'
  <2>1. ASSUME NEW r \in Sizes \ {s} PROVE HasList(r)'
    <3>1. \A c \in BlocksOf(r) : c \in Blocks /\ c # b
      BY <1>3, <2>1, BlockFacts
    <3>2. QED
      BY <1>1, <1>4, <1>8, <2>1, <3>1, ListKept DEF Inv, Lists
  <2>2. HasList(s)'
    <3>1. PICK n \in 0..Count[s] : \E q \in [1..n -> FreeBlocks(s)] :
             IsChain(q, n, m_pHead[s], heads, FreeBlocks(s))
      BY <1>2 DEF Inv, Lists, HasList
    <3>2. PICK q \in [1..n -> FreeBlocks(s)] :
             IsChain(q, n, m_pHead[s], heads, FreeBlocks(s))
      BY <3>1
    <3>3. n # 0
      BY <1>2, <3>2 DEF IsChain
    <3>4. PICK r \in [1..(n - 1) -> FreeBlocks(s) \ {b}] :
             IsChain(r, n - 1, heads[b].Next, heads, FreeBlocks(s) \ {b})
      BY <1>2, <3>2, <3>3, ChainPopped
    <3>5. FreeBlocks(s)' = FreeBlocks(s) \ {b}
      BY <1>2, <1>8, BlockFacts DEF FreeBlocks, BlocksOf
    <3>6. n - 1 \in 0..Count[s] /\ Count[s]' = Count[s]
      BY <1>2, <3>3, SizesAssumption
    <3>7. m_pHead'[s] = heads[b].Next /\ heads' = heads
      BY <1>1, <1>4
    <3>8. IsChain(r, n - 1, m_pHead'[s], heads', FreeBlocks(s)')
      BY <3>4, <3>5, <3>7
    <3>9. r \in [1..(n - 1) -> FreeBlocks(s)']
      BY <3>4, <3>5
    <3>10. QED
      BY <3>6, <3>8, <3>9 DEF HasList
  <2>3. QED
    BY <2>1, <2>2 DEF Lists
<1>10. FitsRequest'
  <2>1. b \notin mallocs' /\ asked'[b] = size[t] /\ b[1] = s
    BY <1>1, <1>3 DEF Inv, TypeOK
  <2>2. \A c \in held \ {b} : asked'[c] = asked[c]
    BY <1>1 DEF Inv, TypeOK
  <2>3. QED
    BY <1>1, <1>2, <2>1, <2>2 DEF Inv, FitsRequest
<1>11. QED
  BY <1>5, <1>6, <1>7, <1>9, <1>10 DEF Inv

\* Malloc: a block that was nobody's; the lists are not touched.
LEMMA MallocStep ==
    ASSUME Inv, NEW t \in Threads, Malloc(t)
    PROVE  Inv'
<1> DEFINE s == PoolOf(size[t])
           room == IF s = Other THEN ToInt(size[t]) ELSE s
<1>1. PICK m \in Mallocs \ mallocs :
         /\ mallocs' = mallocs \cup {m}
         /\ capacity' = [capacity EXCEPT ![m] = room]
         /\ heads' = [c \in DOMAIN heads \cup {m} |->
                         IF c = m THEN [Next |-> Null, Pool |-> s, IsBlock |-> FALSE]
                         ELSE heads[c]]
         /\ HandOut(t, m)
  BY DEF Malloc
<1>2. /\ at[t] = "mallocs" /\ at' = [at EXCEPT ![t] = "runs"]
      /\ held' = held \cup {m} /\ asked' = [asked EXCEPT ![m] = size[t]]
      /\ size' = [size EXCEPT ![t] = 0] /\ block' = [block EXCEPT ![t] = Null]
      /\ UNCHANGED <<m_pHead, m_Mutex>>
  BY <1>1 DEF Malloc, HandOut, Goes
<1>3. /\ size[t] \in Requests /\ size[t] \in Nat
      /\ s \in Sizes \cup {Other} /\ room \in Nat
      /\ size[t] <= IntMax => size[t] <= room
  <2>1. size[t] \in Requests /\ size[t] \in Nat
    BY <1>2, RequestsAssumption DEF Inv, Carrying, Carries
  <2>2. s \in Sizes \cup {Other} /\ room \in Nat
    BY <2>1, PoolFits, SizesAssumption, NamesAssumption
  <2>3. ASSUME size[t] <= IntMax PROVE size[t] <= room
    <3>1. ToInt(size[t]) = size[t]
      BY <2>1, <2>3, IntIs
    <3>2. s = Other \/ (s # Other /\ size[t] <= s)
      BY <2>1, <2>3, PoolFitsSize, NamesAssumption
    <3>3. QED
      BY <2>1, <3>1, <3>2
  <2>4. QED
    BY <2>1, <2>2, <2>3
<1>4. m \notin Blocks /\ m \notin held /\ m # Null
  BY BlocksAssumption DEF Inv, TypeOK
<1>5. /\ at'[t] = "runs" /\ \A u \in Threads \ {t} : at'[u] = at[u]
      /\ size'[t] = 0 /\ \A u \in Threads \ {t} : size'[u] = size[u]
      /\ block'[t] = Null /\ \A u \in Threads \ {t} : block'[u] = block[u]
  BY <1>2 DEF Inv, TypeOK
<1>6. /\ DOMAIN heads' = Blocks \cup mallocs'
      /\ \A c \in Blocks \cup mallocs : heads'[c] = heads[c]
      /\ heads'[m] = [Next |-> Null, Pool |-> s, IsBlock |-> FALSE]
  BY <1>1, <1>4 DEF Inv, TypeOK
<1> HIDE DEF s, room
<1>7. TypeOK'
  <2>1. heads'[m] \in [Next : {Null}, Pool : Sizes \cup {Other}, IsBlock : {FALSE}]
    BY <1>3, <1>6
  <2>2. capacity' \in [Mallocs -> Nat]
    BY <1>1, <1>3 DEF Inv, TypeOK
  <2>3. /\ asked' \in [Blocks \cup Mallocs -> Nat] /\ size' \in [Threads -> Requests \cup {0}]
        /\ block' \in [Threads -> Blocks \cup mallocs' \cup {Null}]
    BY <1>1, <1>2, <1>3 DEF Inv, TypeOK
  <2>4. held' \subseteq Blocks \cup mallocs' /\ mallocs' \subseteq Mallocs
    BY <1>1, <1>2 DEF Inv, TypeOK
  <2>5. \A c \in mallocs' :
           heads'[c] \in [Next : {Null}, Pool : Sizes \cup {Other}, IsBlock : {FALSE}]
    BY <1>1, <1>6, <2>1 DEF Inv, TypeOK
  <2>6. QED
    BY <1>2, <1>6, <2>2, <2>3, <2>4, <2>5 DEF Inv, TypeOK
<1>8. Carrying'
  <2>1. \A u \in Threads \ {t} :
           at[u] = "pushes" => heads'[block[u]] = heads[block[u]]
    BY <1>6 DEF Inv, Carrying, Carries
  <2>2. ASSUME NEW u \in Threads \ {t}
        PROVE  /\ at[u] \in {"frees", "pushes"} => block[u] \in Blocks \ held'
               /\ at[u] = "freesMalloc" => block[u] \in mallocs' \ held'
    BY <1>1, <1>2, <1>4 DEF Inv, Carrying, Carries
  <2>3. QED
    BY <1>2, <1>5, <2>1, <2>2 DEF Inv, Carrying, Carries
<1>9. GivenOnce'
  BY <1>2, <1>5 DEF Inv, GivenOnce, Returning
<1>10. Lists'
  <2>1. ASSUME NEW c \in Blocks PROVE IsFree(c)' <=> IsFree(c)
    <3>1. TypeOK /\ "runs" \notin Returning /\ at[t] \notin Returning
      BY <1>2 DEF Inv, Returning
    <3>2. IsFree(c)' <=> c \notin held' /\ ~GivenByOthers(t, c)
      BY <1>2, <1>5, <3>1, FreeAfter
    <3>3. QED
      BY <1>2, <1>4, <3>1, <3>2, FreeBefore
  <2>2. \A r \in Sizes : \A c \in BlocksOf(r) : c \in Blocks /\ heads'[c] = heads[c]
    BY <1>6, BlockFacts
  <2>3. QED
    BY <1>2, <2>1, <2>2, ListKept DEF Inv, Lists
<1>11. FitsRequest'
  <2>1. (asked'[m] <= IntMax => asked'[m] <= capacity'[m]) /\ m \in mallocs'
    <3>1. asked'[m] = size[t] /\ capacity'[m] = room
      BY <1>1, <1>2 DEF Inv, TypeOK
    <3>2. QED
      BY <1>1, <1>3, <3>1
  <2>2. \A c \in held : asked'[c] = asked[c] /\ (c \in mallocs' <=> c \in mallocs)
    BY <1>1, <1>2, <1>4 DEF Inv, TypeOK
  <2>3. \A c \in mallocs : capacity'[c] = capacity[c]
    BY <1>1 DEF Inv, TypeOK
  <2>4. QED
    BY <1>2, <2>1, <2>2, <2>3 DEF Inv, FitsRequest
<1>12. QED
  BY <1>7, <1>8, <1>9, <1>10, <1>11 DEF Inv

\* Delete: the block goes from the program to the thread.
LEMMA DeleteStep ==
    ASSUME Inv, NEW t \in Threads, NEW b \in held, Delete(t, b)
    PROVE  Inv'
<1>1. PICK p \in {"frees", "freesMalloc"} :
         /\ at[t] = "runs" /\ at' = [at EXCEPT ![t] = p]
         /\ p = IF heads[b].IsBlock THEN "frees" ELSE "freesMalloc"
         /\ held' = held \ {b} /\ asked' = [asked EXCEPT ![b] = 0]
         /\ block' = [block EXCEPT ![t] = b]
         /\ UNCHANGED <<heads, m_pHead, m_Mutex, mallocs, capacity, size>>
  BY DEF Delete, Goes, poolVars, mallocVars
<1>2. /\ p = "frees" => b \in Blocks
      /\ p = "freesMalloc" => b \in mallocs
  BY <1>1 DEF Inv, TypeOK
<1>3. /\ at'[t] = p /\ \A u \in Threads \ {t} : at'[u] = at[u]
      /\ block'[t] = b /\ \A u \in Threads \ {t} : block'[u] = block[u]
  BY <1>1 DEF Inv, TypeOK
<1>4. TypeOK'
  <2>1. b \in Blocks \cup mallocs
    BY DEF Inv, TypeOK
  <2>2. /\ asked' \in [Blocks \cup Mallocs -> Nat] /\ held' \subseteq Blocks \cup mallocs
        /\ block' \in [Threads -> Blocks \cup mallocs \cup {Null}]
    BY <1>1, <2>1 DEF Inv, TypeOK
  <2>3. QED
    BY <1>1, <2>2 DEF Inv, TypeOK
<1>5. \A u \in Threads \ {t} : at[u] \in Returning => block[u] # b
  BY DEF Inv, Carrying, Carries, Returning
<1>6. Carrying'
  BY <1>1, <1>2, <1>3 DEF Inv, Carrying, Carries
<1>7. GivenOnce'
  BY <1>3, <1>5 DEF Inv, GivenOnce
<1>8. Lists'
  <2>1. ASSUME NEW c \in Blocks PROVE IsFree(c)' <=> IsFree(c)
    <3>1. TypeOK /\ p \in Returning /\ at[t] \notin Returning
      BY <1>1 DEF Inv, Returning
    <3>2. IsFree(c)' <=> c \notin held' /\ c # b /\ ~GivenByOthers(t, c)
      BY <1>1, <1>3, <3>1, FreeAfter
    <3>3. QED
      BY <1>1, <3>1, <3>2, FreeBefore
  <2>2. QED
    BY <1>1, <2>1, BlockFacts, ListKept DEF Inv, Lists
<1>9. FitsRequest'
  <2>1. \A c \in held' : c \in held /\ asked'[c] = asked[c]
    BY <1>1 DEF Inv, TypeOK
  <2>2. QED
    BY <1>1, <2>1 DEF Inv, FitsRequest
<1>10. QED
  BY <1>4, <1>6, <1>7, <1>8, <1>9 DEF Inv

\* Link: the block is not in the list yet, so the list does not change.
LEMMA LinkStep ==
    ASSUME Inv, NEW t \in Threads, Link(t)
    PROVE  Inv'
<1>1. PICK s, b :
         /\ s = heads[b].Pool /\ b = block[t]
         /\ at[t] = "frees" /\ at' = [at EXCEPT ![t] = "pushes"]
         /\ m_Mutex[s] = Nobody /\ m_Mutex' = [m_Mutex EXCEPT ![s] = t]
         /\ heads' = [heads EXCEPT ![b].Next = m_pHead[s]]
         /\ UNCHANGED <<m_pHead, mallocs, capacity, held, asked, size, block>>
  BY DEF Link, Goes, mallocVars, programVars
<1>2. b \in Blocks \ held /\ s = b[1] /\ s \in Sizes /\ b \in BlocksOf(s) /\ b \notin mallocs
  <2>1. b \in Blocks \ held
    BY <1>1 DEF Inv, Carrying, Carries
  <2>2. QED
    BY <1>1, <2>1, PoolOfBlock, BlocksAssumption DEF Inv, TypeOK
<1>3. /\ at'[t] = "pushes" /\ \A u \in Threads \ {t} : at'[u] = at[u]
      /\ m_Mutex'[s] = t /\ \A r \in Sizes \ {s} : m_Mutex'[r] = m_Mutex[r]
  BY <1>1, <1>2 DEF Inv, TypeOK
<1>4. /\ DOMAIN heads' = DOMAIN heads
      /\ heads'[b] = [heads[b] EXCEPT !.Next = m_pHead[s]]
      /\ \A c \in (Blocks \cup mallocs) \ {b} : heads'[c] = heads[c]
  BY <1>1, <1>2 DEF Inv, TypeOK
<1>5. /\ heads'[b] \in [Next : BlocksOf(s) \cup {Null}, Pool : {s}, IsBlock : {TRUE}]
      /\ heads'[b].Next = m_pHead[s]
  <2>1. /\ heads[b] \in [Next : BlocksOf(s) \cup {Null}, Pool : {s}, IsBlock : {TRUE}]
        /\ m_pHead[s] \in BlocksOf(s) \cup {Null}
    BY <1>2 DEF Inv, TypeOK
  <2>2. QED
    BY <1>4, <2>1
<1>6. TypeOK'
  <2>1. m_Mutex' \in [Sizes -> Threads \cup {Nobody}]
    BY <1>1 DEF Inv, TypeOK
  <2>2. /\ \A c \in Blocks : heads'[c] \in [Next : BlocksOf(c[1]) \cup {Null},
                                            Pool : {c[1]}, IsBlock : {TRUE}]
        /\ \A m \in mallocs : heads'[m] = heads[m]
    BY <1>2, <1>4, <1>5 DEF Inv, TypeOK
  <2>3. at' \in [Threads -> {"runs", "allocs", "pops", "mallocs",
                             "frees", "pushes", "freesMalloc"}]
    BY <1>1 DEF Inv, TypeOK
  <2>4. QED
    BY <1>1, <1>4, <2>1, <2>2, <2>3 DEF Inv, TypeOK
<1>7. Carrying'
  <2>1. ASSUME NEW u \in Threads \ {t}
        PROVE  /\ at[u] = "pops" => PoolOf(size[u]) \in Sizes \ {s}
               /\ at[u] = "pushes" => block[u][1] \in Sizes \ {s} /\ block[u] # b
    BY <1>1, <1>2, PoolOfBlock, NamesAssumption DEF Inv, Carrying, Carries
  <2>2. ASSUME NEW u \in Threads \ {t}, at[u] = "pushes"
        PROVE  heads'[block[u]] = heads[block[u]]
    BY <1>4, <2>1, <2>2 DEF Inv, Carrying, Carries
  <2>3. QED
    BY <1>1, <1>2, <1>3, <1>5, <2>1, <2>2 DEF Inv, Carrying, Carries
<1>8. GivenOnce'
  BY <1>1, <1>3 DEF Inv, GivenOnce, Returning
<1>9. Lists'
  <2>1. ~IsFree(b)
    BY <1>1 DEF IsFree, Returning
  <2>2. \A c \in Blocks : IsFree(c) => heads'[c] = heads[c]
    BY <1>4, <2>1
  <2>3. QED
    BY <1>1, <2>2, FreeUnmoved DEF Inv, Returning
<1>10. FitsRequest'
  BY <1>1 DEF Inv, FitsRequest
<1>11. QED
  BY <1>6, <1>7, <1>8, <1>9, <1>10 DEF Inv

\* Push: the block is before what was the first one when it was linked, and
\* is still, because the mutex has not been given back.
LEMMA PushStep ==
    ASSUME Inv, NEW t \in Threads, Push(t)
    PROVE  Inv'
<1>1. PICK s, b :
         /\ s = heads[b].Pool /\ b = block[t]
         /\ at[t] = "pushes" /\ at' = [at EXCEPT ![t] = "runs"]
         /\ m_pHead' = [m_pHead EXCEPT ![s] = b]
         /\ m_Mutex' = [m_Mutex EXCEPT ![s] = Nobody]
         /\ block' = [block EXCEPT ![t] = Null]
         /\ UNCHANGED <<heads, mallocs, capacity, held, asked, size>>
  BY DEF Push, Goes, mallocVars, programVars
<1>2. /\ b \in Blocks \ held /\ s = b[1] /\ s \in Sizes /\ b \in BlocksOf(s)
      /\ m_Mutex[s] = t /\ heads[b].Next = m_pHead[s]
  <2>1. b \in Blocks \ held /\ m_Mutex[b[1]] = t /\ heads[b].Next = m_pHead[b[1]]
    BY <1>1 DEF Inv, Carrying, Carries
  <2>2. QED
    BY <1>1, <2>1, PoolOfBlock DEF Inv, TypeOK
<1>3. /\ at'[t] = "runs" /\ \A u \in Threads \ {t} : at'[u] = at[u]
      /\ block'[t] = Null /\ \A u \in Threads \ {t} : block'[u] = block[u]
      /\ m_Mutex'[s] = Nobody /\ \A r \in Sizes \ {s} : m_Mutex'[r] = m_Mutex[r]
      /\ m_pHead'[s] = b /\ \A r \in Sizes \ {s} : m_pHead'[r] = m_pHead[r]
  BY <1>1, <1>2 DEF Inv, TypeOK
<1>4. TypeOK'
  <2>1. /\ DOMAIN m_pHead' = Sizes /\ \A r \in Sizes : m_pHead'[r] \in BlocksOf(r) \cup {Null}
        /\ m_Mutex' \in [Sizes -> Threads \cup {Nobody}]
    BY <1>1, <1>2, <1>3 DEF Inv, TypeOK
  <2>2. QED
    BY <1>1, <2>1 DEF Inv, TypeOK
<1>5. Carrying'
  <2>1. ASSUME NEW u \in Threads \ {t}
        PROVE  /\ at[u] = "pops" => PoolOf(size[u]) \in Sizes \ {s}
               /\ at[u] = "pushes" => block[u][1] \in Sizes \ {s}
    BY <1>2, PoolOfBlock DEF Inv, Carrying, Carries
  <2>2. QED
    BY <1>1, <1>3, <2>1 DEF Inv, Carrying, Carries
<1>6. GivenOnce'
  BY <1>1, <1>3 DEF Inv, GivenOnce, Returning
<1>7. /\ ~IsFree(b) /\ IsFree(b)'
      /\ \A c \in Blocks \ {b} : IsFree(c)' <=> IsFree(c)
  <2>1. TypeOK /\ "runs" \notin Returning /\ at[t] \in Returning /\ ~GivenByOthers(t, b)
    BY <1>1 DEF Inv, Returning, GivenOnce, GivenByOthers
  <2>2. \A c \in Blocks : IsFree(c)' <=> c \notin held' /\ ~GivenByOthers(t, c)
    BY <1>1, <1>3, <2>1, FreeAfter
  <2>3. QED
    BY <1>1, <1>2, <2>1, <2>2, FreeBefore
<1>8. Lists'
  <2>1. ASSUME NEW r \in Sizes \ {s} PROVE HasList(r)'
    <3>1. \A c \in BlocksOf(r) : c \in Blocks /\ c # b
      BY <1>2, <2>1, BlockFacts
    <3>2. QED
      BY <1>1, <1>3, <1>7, <2>1, <3>1, ListKept DEF Inv, Lists
  <2>2. HasList(s)'
    <3>1. PICK n \in 0..Count[s] : \E q \in [1..n -> FreeBlocks(s)] :
             IsChain(q, n, m_pHead[s], heads, FreeBlocks(s))
      BY <1>2 DEF Inv, Lists, HasList
    <3>2. PICK q \in [1..n -> FreeBlocks(s)] :
             IsChain(q, n, m_pHead[s], heads, FreeBlocks(s))
      BY <3>1
    <3>3. b \notin FreeBlocks(s)
      BY <1>7 DEF FreeBlocks
    <3>4. PICK r \in [1..(n + 1) -> FreeBlocks(s) \cup {b}] :
             IsChain(r, n + 1, b, heads, FreeBlocks(s) \cup {b})
      BY <1>2, <3>2, <3>3, ChainPushed
    <3>5. FreeBlocks(s)' = FreeBlocks(s) \cup {b}
      BY <1>2, <1>7, BlockFacts DEF FreeBlocks, BlocksOf
    <3>6. FreeBlocks(s) \cup {b} \subseteq BlocksOf(s)
      BY <1>2 DEF FreeBlocks
    <3>7. n + 1 \in Nat /\ \A i, j \in 1..(n + 1) : r[i] = r[j] => i = j
      BY <3>4 DEF IsChain
    <3>8. n + 1 <= Count[s]
      BY <1>2, <3>4, <3>6, <3>7, ChainFits
    <3>9. n + 1 \in 0..Count[s]
      BY <1>2, <3>7, <3>8, SizesAssumption
    <3>10. IsChain(r, n + 1, m_pHead'[s], heads', FreeBlocks(s)')
      BY <1>1, <1>3, <3>4, <3>5
    <3>11. QED
      BY <3>4, <3>5, <3>9, <3>10 DEF HasList
  <2>3. QED
    BY <2>1, <2>2 DEF Lists
<1>9. FitsRequest'
  BY <1>1 DEF Inv, FitsRequest
<1>10. QED
  BY <1>4, <1>5, <1>6, <1>8, <1>9 DEF Inv

\* Free: what goes back to malloc was no block of a pool, and nobody's.
LEMMA FreeStep ==
    ASSUME Inv, NEW t \in Threads, Free(t)
    PROVE  Inv'
<1>1. PICK m :
         /\ m = block[t]
         /\ at[t] = "freesMalloc" /\ at' = [at EXCEPT ![t] = "runs"]
         /\ mallocs' = mallocs \ {m} /\ capacity' = [capacity EXCEPT ![m] = 0]
         /\ heads' = [c \in DOMAIN heads \ {m} |-> heads[c]]
         /\ block' = [block EXCEPT ![t] = Null]
         /\ UNCHANGED <<m_pHead, m_Mutex, held, asked, size>>
  BY DEF Free, Goes, programVars
<1>2. m \in mallocs \ held /\ m \notin Blocks /\ m # Null
  BY <1>1, BlocksAssumption DEF Inv, Carrying, Carries, TypeOK
<1>3. /\ at'[t] = "runs" /\ \A u \in Threads \ {t} : at'[u] = at[u]
      /\ block'[t] = Null /\ \A u \in Threads \ {t} : block'[u] = block[u]
  BY <1>1 DEF Inv, TypeOK
<1>4. /\ DOMAIN heads' = Blocks \cup mallocs'
      /\ \A c \in Blocks \cup mallocs' : heads'[c] = heads[c]
  BY <1>1, <1>2 DEF Inv, TypeOK
<1>5. ASSUME NEW u \in Threads \ {t} PROVE block[u] # m
  <2>1. at[u] \in Returning => block[u] # m
    BY <1>1 DEF Inv, GivenOnce, Returning
  <2>2. at[u] = "pops" => block[u] \in Blocks
    BY HandedOut DEF Inv
  <2>3. at[u] \in {"runs", "allocs", "mallocs"} => block[u] = Null
    BY DEF Inv, Carrying, Carries
  <2>4. at[u] \in {"runs", "allocs", "mallocs", "pops"} \cup Returning
    BY DEF Inv, TypeOK, Returning
  <2>5. QED
    BY <1>2, <2>1, <2>2, <2>3, <2>4
<1>6. TypeOK'
  <2>1. capacity' \in [Mallocs -> Nat]
    BY <1>1 DEF Inv, TypeOK
  <2>2. block' \in [Threads -> Blocks \cup mallocs' \cup {Null}]
    <3>1. block' \in [Threads -> Blocks \cup mallocs \cup {Null}]
      BY <1>1 DEF Inv, TypeOK
    <3>2. \A u \in Threads : block'[u] # m
      BY <1>2, <1>3, <1>5
    <3>3. QED
      BY <1>1, <3>1, <3>2
  <2>3. held' \subseteq Blocks \cup mallocs' /\ mallocs' \subseteq Mallocs
    BY <1>1, <1>2 DEF Inv, TypeOK
  <2>4. at' \in [Threads -> {"runs", "allocs", "pops", "mallocs",
                             "frees", "pushes", "freesMalloc"}]
    BY <1>1 DEF Inv, TypeOK
  <2>5. \A c \in mallocs' : heads'[c] = heads[c] /\ c \in mallocs
    BY <1>1, <1>4
  <2>6. QED
    BY <1>1, <1>4, <2>1, <2>2, <2>3, <2>4, <2>5 DEF Inv, TypeOK
<1>7. Carrying'
  <2>1. \A u \in Threads \ {t} :
           at[u] = "pushes" => heads'[block[u]] = heads[block[u]]
    BY <1>4 DEF Inv, Carrying, Carries
  <2>2. ASSUME NEW u \in Threads \ {t}
        PROVE  at[u] = "freesMalloc" => block[u] \in mallocs' \ held'
    BY <1>1, <1>5 DEF Inv, Carrying, Carries
  <2>3. ASSUME NEW u \in Threads \ {t} PROVE Carries(u)'
    <3>1. at'[u] = at[u] /\ block'[u] = block[u]
      BY <1>3
    <3>2. Carries(u) /\ UNCHANGED <<m_pHead, m_Mutex, held, size>>
      BY <1>1 DEF Inv, Carrying
    <3>3. QED
      BY <2>1, <2>2, <3>1, <3>2 DEF Carries
  <2>4. Carries(t)'
    BY <1>3 DEF Carries
  <2>5. QED
    BY <2>3, <2>4 DEF Carrying
<1>8. GivenOnce'
  BY <1>1, <1>3 DEF Inv, GivenOnce, Returning
<1>9. Lists'
  <2>1. ASSUME NEW c \in Blocks PROVE IsFree(c)' <=> IsFree(c)
    <3>1. TypeOK /\ "runs" \notin Returning
      BY DEF Inv, Returning
    <3>2. IsFree(c)' <=> c \notin held' /\ ~GivenByOthers(t, c)
      BY <1>1, <1>3, <3>1, FreeAfter
    <3>3. QED
      BY <1>1, <1>2, <3>2, FreeBefore
  <2>2. \A r \in Sizes : \A c \in BlocksOf(r) : c \in Blocks /\ heads'[c] = heads[c]
    BY <1>4, BlockFacts
  <2>3. QED
    BY <1>1, <2>1, <2>2, ListKept DEF Inv, Lists
<1>10. FitsRequest'
  <2>1. \A c \in held : /\ c \in mallocs' <=> c \in mallocs
                        /\ c \in mallocs => capacity'[c] = capacity[c]
    BY <1>1, <1>2 DEF Inv, TypeOK
  <2>2. QED
    BY <1>1, <2>1 DEF Inv, FitsRequest
<1>11. QED
  BY <1>6, <1>7, <1>8, <1>9, <1>10 DEF Inv

-----------------------------------------------------------------------------
(* Every state *)

LEMMA NextInv == Inv /\ [Next]_vars => Inv'
<1> SUFFICES ASSUME Inv, [Next]_vars PROVE Inv'
  OBVIOUS
<1>1. CASE UNCHANGED vars
  <2>1. UNCHANGED <<heads, m_pHead, m_Mutex, mallocs, capacity, held, asked, at, size, block>>
    BY <1>1 DEF vars, poolVars, mallocVars, programVars, threadVars
  <2>2. TypeOK' /\ Carrying' /\ GivenOnce' /\ FitsRequest'
    BY <2>1 DEF Inv, TypeOK, Carrying, Carries, GivenOnce, FitsRequest
  <2>3. Lists'
    BY <2>1, ListKept DEF Inv, Lists, IsFree
  <2>4. QED
    BY <2>2, <2>3 DEF Inv
<1>2. ASSUME NEW t \in Threads,
             \/ \E n \in Requests : New(t, n)
             \/ ReadHead(t) \/ FindEmpty(t) \/ Pop(t) \/ Malloc(t)
             \/ \E b \in held : Delete(t, b)
             \/ Link(t) \/ Push(t) \/ Free(t)
      PROVE  Inv'
  BY <1>2, NewStep, ReadHeadStep, FindEmptyStep, PopStep, MallocStep, DeleteStep,
     LinkStep, PushStep, FreeStep
<1>3. QED
  BY <1>1, <1>2 DEF Next

LEMMA Invariance == Spec => []Inv
<1>1. Init => Inv
  BY InitInv
<1>2. Inv /\ [Next]_vars => Inv'
  BY NextInv
<1>3. QED
  BY <1>1, <1>2, PTL DEF Spec

\* Whatever the number of threads, pools and blocks: the free list of every
\* pool ends and holds exactly the blocks that nobody has, and no block is
\* handed out or given back twice (AllocMemory and FreeMemory).
THEOREM NoBlockLost == Spec => []BlocksExact
  BY Invariance, InvExact, PTL

\* A block is never smaller than what it was asked for, from a pool, from
\* malloc for a pool that is empty, and from malloc for what no pool serves, as
\* long as an int can hold the size (MemoryMgr 41 narrows it; a larger one may
\* come out negative and is served with the smallest block).
THEOREM LargeEnough == Spec => []FitsRequest
<1>1. Inv => FitsRequest
  BY DEF Inv
<1>2. QED
  BY <1>1, Invariance, PTL

=============================================================================
