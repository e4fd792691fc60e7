----------------------------- MODULE MemoryPool -----------------------------
(***************************************************************************)
(* The server's allocator: MemoryMgr picks a MemoryPool by the size asked  *)
(* for; a pool is a list of equal blocks behind a mutex, and malloc serves *)
(* what is too large and what finds its pool empty.  Any thread may free   *)
(* what another one has allocated.                                         *)
(*                                                                         *)
(* A block of a pool is <<size, number>>, a block from malloc a member of  *)
(* Mallocs.  Addresses and the contents of blocks are left out.  Sizes     *)
(* come as size_t and are narrowed to int.  What would write through a     *)
(* nullptr is not taken.                                                   *)
(***************************************************************************)
EXTENDS Integers, FiniteSets, FiniteSetsExt

CONSTANTS
    Threads,
    Sizes,      \* 8, 16, ... 2048: m_BlockMaxSize of the pools
    Count,      \* blocks of each pool, CONFIG_MEMORY_POOL_<size>_COUNT
    Other,      \* m_MemoryPool_Other, which has no block
    Mallocs,    \* blocks that malloc may return
    Requests,   \* sizes the program asks for, size_t
    IntMax,     \* the largest int: 2^31 - 1
    HeadSize,   \* sizeof(MemoryPoolHead)
    MaxHeld,    \* bound: blocks the program holds at a time
    Null,
    Nobody

ASSUME SizesAssumption ==
    /\ IsFiniteSet(Sizes) /\ Sizes # {} /\ Sizes \subseteq Nat
    /\ Count \in [Sizes -> Nat \ {0}]
ASSUME IntAssumption == IntMax \in Nat /\ HeadSize \in Nat
ASSUME RequestsAssumption == Requests \subseteq Nat
ASSUME NamesAssumption == Other \notin Sizes /\ Nobody \notin Threads
ASSUME MallocAssumption ==
    /\ IsFiniteSet(Threads) /\ IsFiniteSet(Mallocs)
    /\ MaxHeld \in Nat
    /\ Cardinality(Mallocs) >= MaxHeld + Cardinality(Threads)

VARIABLES
    heads,      \* the MemoryPoolHead before each block
    m_pHead,    \* of each pool
    m_Mutex,    \* of each pool: the thread that has it
    mallocs,    \* blocks malloc has returned and free has not got back
    capacity,   \* how much each of them holds
    held,       \* blocks the program has
    asked,      \* the size it asked for when it got them
    at,         \* place of each thread
    size,       \* the size a thread asks for
    block       \* retBlock or oldBlock of a thread

poolVars == <<heads, m_pHead, m_Mutex>>
mallocVars == <<mallocs, capacity>>
programVars == <<held, asked>>
threadVars == <<at, size, block>>
vars == <<poolVars, mallocVars, programVars, threadVars>>

-----------------------------------------------------------------------------
BlocksOf(pool) == {pool} \X (1..Count[pool])
Blocks == UNION {BlocksOf(pool) : pool \in Sizes}

\* malloc returns neither a block of a pool nor nullptr.
ASSUME BlocksAssumption ==
    /\ Mallocs \cap Blocks = {}
    /\ Null \notin Blocks \cup Mallocs

\* The list a constructor builds: every block points to the next one.
FirstNext(pool, i) == IF i = Count[pool] THEN Null ELSE <<pool, i + 1>>

FirstHead(b) == [Next |-> FirstNext(b[1], b[2]), Pool |-> b[1], IsBlock |-> TRUE]

\* What is left of a size_t that is passed on as an int.
ToInt(n) ==
    LET low == n % (2 * (IntMax + 1))
    IN  IF low <= IntMax THEN low ELSE low - 2 * (IntMax + 1)

\* Mutant: a size that fills a block exactly is taken for the next smaller.
PoolOfTooSmall(n) ==
    LET fitting == {s \in Sizes : ToInt(n) <= s + 1}
    IN  IF fitting # {} THEN Min(fitting) ELSE Other

\* MemoryMgr::AllocMemory: the smallest block that the int fits into, which
\* for a negative one is the smallest of all.
PoolOf(n) ==
    LET fitting == {s \in Sizes : ToInt(n) <= s}
    IN  IF fitting # {} THEN Min(fitting) ELSE Other

Init ==
    /\ heads = [b \in Blocks |-> FirstHead(b)]
    /\ m_pHead = [s \in Sizes |-> <<s, 1>>]
    /\ m_Mutex = [s \in Sizes |-> Nobody]
    /\ mallocs = {}
    /\ capacity = [m \in Mallocs |-> 0]
    /\ held = {}
    /\ asked = [b \in Blocks \cup Mallocs |-> 0]
    /\ at = [t \in Threads |-> "runs"]
    /\ size = [t \in Threads |-> 0]
    /\ block = [t \in Threads |-> Null]

Goes(t, place) == at' = [at EXCEPT ![t] = place]

HandOut(t, b) ==
    /\ held' = held \cup {b}
    /\ asked' = [asked EXCEPT ![b] = size[t]]
    /\ size' = [size EXCEPT ![t] = 0]
    /\ block' = [block EXCEPT ![t] = Null]
    /\ Goes(t, "runs")

-----------------------------------------------------------------------------
(* AllocMemory *)

New(t, n) ==
    /\ at[t] = "runs"
    /\ Cardinality(held) < MaxHeld
    /\ size' = [size EXCEPT ![t] = n]
    /\ Goes(t, IF PoolOf(n) = Other THEN "mallocs" ELSE "allocs")
    /\ UNCHANGED <<poolVars, mallocVars, programVars, block>>

\* Mutant: the list is read without the mutex.
ReadHeadUnlocked(t) ==
    LET pool == PoolOf(size[t]) IN
    /\ at[t] = "allocs"
    /\ m_pHead[pool] # Null
    /\ block' = [block EXCEPT ![t] = m_pHead[pool]]
    /\ Goes(t, "pops")
    /\ UNCHANGED <<poolVars, mallocVars, programVars, size>>

\* Under the mutex: retBlock is the first block ...
ReadHead(t) ==
    LET pool == PoolOf(size[t]) IN
    /\ at[t] = "allocs"
    /\ m_Mutex[pool] = Nobody
    /\ m_pHead[pool] # Null
    /\ m_Mutex' = [m_Mutex EXCEPT ![pool] = t]
    /\ block' = [block EXCEPT ![t] = m_pHead[pool]]
    /\ Goes(t, "pops")
    /\ UNCHANGED <<heads, m_pHead, mallocVars, programVars, size>>

\* ... or there is none, and the mutex is left for malloc.
FindEmpty(t) ==
    LET pool == PoolOf(size[t]) IN
    /\ at[t] = "allocs"
    /\ m_Mutex[pool] = Nobody
    /\ m_pHead[pool] = Null
    /\ Goes(t, "mallocs")
    /\ UNCHANGED <<poolVars, mallocVars, programVars, size, block>>

\* m_pHead = m_pHead->Next, and the mutex is given back.
Pop(t) ==
    LET pool == PoolOf(size[t]) IN
    /\ at[t] = "pops"
    /\ m_pHead' = [m_pHead EXCEPT ![pool] = heads[@].Next]
    /\ m_Mutex' = [m_Mutex EXCEPT ![pool] = Nobody]
    /\ HandOut(t, block[t])
    /\ UNCHANGED <<heads, mallocVars>>

\* A new block: as large as a block of the pool, or, from Other, as asked.
\* With its head it must not exceed an int: a negative size is too much for
\* malloc, and the head would be written through the nullptr it returns.
Malloc(t) ==
    LET pool == PoolOf(size[t])
        room == IF pool = Other THEN ToInt(size[t]) ELSE pool
    IN
    /\ at[t] = "mallocs"
    /\ room + HeadSize <= IntMax
    /\ \E m \in Mallocs \ mallocs :
          /\ mallocs' = mallocs \cup {m}
          /\ capacity' = [capacity EXCEPT ![m] = room]
          /\ heads' = [b \in DOMAIN heads \cup {m} |->
                          IF b = m THEN [Next |-> Null, Pool |-> pool, IsBlock |-> FALSE]
                          ELSE heads[b]]
          /\ HandOut(t, m)
    /\ UNCHANGED <<m_pHead, m_Mutex>>

-----------------------------------------------------------------------------
(* FreeMemory *)

Delete(t, b) ==
    /\ at[t] = "runs"
    /\ b \in held
    /\ held' = held \ {b}
    /\ asked' = [asked EXCEPT ![b] = 0]
    /\ block' = [block EXCEPT ![t] = b]
    /\ Goes(t, IF heads[b].IsBlock THEN "frees" ELSE "freesMalloc")
    /\ UNCHANGED <<poolVars, mallocVars, size>>

\* Under the mutex of the pool the block names: it points to the first
\* block ...
Link(t) ==
    LET pool == heads[block[t]].Pool IN
    /\ at[t] = "frees"
    /\ m_Mutex[pool] = Nobody
    /\ m_Mutex' = [m_Mutex EXCEPT ![pool] = t]
    /\ heads' = [heads EXCEPT ![block[t]].Next = m_pHead[pool]]
    /\ Goes(t, "pushes")
    /\ UNCHANGED <<m_pHead, mallocVars, programVars, size, block>>

\* ... and becomes the first one.
Push(t) ==
    LET pool == heads[block[t]].Pool IN
    /\ at[t] = "pushes"
    /\ m_pHead' = [m_pHead EXCEPT ![pool] = block[t]]
    /\ m_Mutex' = [m_Mutex EXCEPT ![pool] = Nobody]
    /\ block' = [block EXCEPT ![t] = Null]
    /\ Goes(t, "runs")
    /\ UNCHANGED <<heads, mallocVars, programVars, size>>

Free(t) ==
    /\ at[t] = "freesMalloc"
    /\ mallocs' = mallocs \ {block[t]}
    /\ capacity' = [capacity EXCEPT ![block[t]] = 0]
    /\ heads' = [b \in DOMAIN heads \ {block[t]} |-> heads[b]]
    /\ block' = [block EXCEPT ![t] = Null]
    /\ Goes(t, "runs")
    /\ UNCHANGED <<m_pHead, m_Mutex, programVars, size>>

Next ==
    \E t \in Threads :
        \/ \E n \in Requests : New(t, n)
        \/ ReadHead(t) \/ FindEmpty(t) \/ Pop(t) \/ Malloc(t)
        \/ \E b \in held : Delete(t, b)
        \/ Link(t) \/ Push(t) \/ Free(t)

Spec == Init /\ [][Next]_vars

-----------------------------------------------------------------------------
\* Every variable has its type; a block points into its own pool.
TypeOK ==
    /\ DOMAIN heads = Blocks \cup mallocs
    /\ \A b \in Blocks :
          heads[b] \in [Next : BlocksOf(b[1]) \cup {Null}, Pool : {b[1]}, IsBlock : {TRUE}]
    /\ \A m \in mallocs :
          heads[m] \in [Next : {Null}, Pool : Sizes \cup {Other}, IsBlock : {FALSE}]
    /\ DOMAIN m_pHead = Sizes
    /\ \A s \in Sizes : m_pHead[s] \in BlocksOf(s) \cup {Null}
    /\ m_Mutex \in [Sizes -> Threads \cup {Nobody}]
    /\ mallocs \subseteq Mallocs
    /\ capacity \in [Mallocs -> Nat]
    /\ held \subseteq Blocks \cup mallocs
    /\ asked \in [Blocks \cup Mallocs -> Nat]
    /\ at \in [Threads -> {"runs", "allocs", "pops", "mallocs",
                           "frees", "pushes", "freesMalloc"}]
    /\ size \in [Threads -> Requests \cup {0}]
    /\ block \in [Threads -> Blocks \cup mallocs \cup {Null}]

\* What following Next from m_pHead comes to after n steps.
Follow(pool) ==
    LET after[n \in 0..Count[pool]] ==
            IF n = 0 THEN m_pHead[pool]
            ELSE IF after[n - 1] = Null THEN Null
            ELSE heads[after[n - 1]].Next
    IN  after

FreeList(pool) == {Follow(pool)[n] : n \in 0..Count[pool]} \ {Null}

Freeing(b) == {t \in Threads : at[t] \in {"frees", "pushes", "freesMalloc"} /\ block[t] = b}
HandingOut(b) == {t \in Threads : at[t] = "pops" /\ block[t] = b}

\* No block is lost and none has two owners, whatever the threads do at a
\* time: the free list of a pool ends, it holds exactly the blocks that
\* neither the program has nor a thread is giving back, and a block is
\* handed out to one thread only (AllocMemory and FreeMemory, 37-74); a head
\* keeps the pool and the kind of its block.
BlocksExact ==
    /\ TypeOK
    /\ \A s \in Sizes :
          /\ Follow(s)[Count[s]] = Null
          /\ FreeList(s) = {b \in BlocksOf(s) : b \notin held /\ Freeing(b) = {}}
    /\ \A b \in Blocks \cup mallocs :
          /\ Cardinality(Freeing(b)) + Cardinality(HandingOut(b)) <= 1
          /\ b \in held => Freeing(b) \cup HandingOut(b) = {}

\* What the program gets is as large as it has asked for if an int can hold
\* the size, also when the pool was empty and when the size is on the boundary
\* of two pools (MemoryMgr 41-71, MemoryPool 48-60).  Beyond that it is not: a
\* negative int is served with the smallest block.
FitsRequest ==
    \A b \in held :
        asked[b] <= IntMax =>
            asked[b] <= IF b \in mallocs THEN capacity[b] ELSE b[1]

=============================================================================
