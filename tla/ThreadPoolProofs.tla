-------------------------- MODULE ThreadPoolProofs --------------------------
(***************************************************************************)
(* Theorems about ThreadPool for any finite set of threads and any set of  *)
(* tasks: the invariants the runs check on small instances, and that every *)
(* step of the pool is a step of the abstract TaskPool or a stutter.       *)
(***************************************************************************)
EXTENDS ThreadPool, FiniteSetTheorems, SequenceTheorems, TLAPS

\* The inductive invariant.  TaskOnce alone is not inductive: that a popped
\* task is a task needs HoldersHaveTasks, and JoinedMeansDrained needs to know
\* what the queue holds when the last thread has left (ShutdownOrder).
Inv ==
    /\ TypeOK
    /\ TaskOnce
    /\ AvailableIsIdle
    /\ HoldersHaveTasks
    /\ ShutdownOrder

-----------------------------------------------------------------------------
(* The queue *)

\* Popping a queue without repetitions takes exactly its head out of it.
LEMMA PopFacts ==
    ASSUME NEW S, NEW q \in Seq(S), q # <<>>
    PROVE  /\ Head(q) \in S
           /\ Tail(q) \in Seq(S)
           /\ {q[i] : i \in DOMAIN q}
                = {Head(q)} \cup {Tail(q)[i] : i \in DOMAIN Tail(q)}
           /\ (\A i, j \in DOMAIN q : q[i] = q[j] => i = j)
                => /\ \A i, j \in DOMAIN Tail(q) :
                         Tail(q)[i] = Tail(q)[j] => i = j
                   /\ Head(q) \notin {Tail(q)[i] : i \in DOMAIN Tail(q)}
<1>1. /\ Len(q) \in Nat \ {0}
      /\ DOMAIN q = 1..Len(q)
      /\ Head(q) = q[1]
      /\ Tail(q) \in Seq(S)
      /\ DOMAIN Tail(q) = 1..(Len(q) - 1)
      /\ \A i \in 1..(Len(q) - 1) : Tail(q)[i] = q[i + 1]
  OBVIOUS
<1>2. Head(q) \in S
  BY <1>1
<1>3. {q[i] : i \in DOMAIN q}
        = {Head(q)} \cup {Tail(q)[i] : i \in DOMAIN Tail(q)}
  <2>1. ASSUME NEW i \in DOMAIN q
        PROVE  q[i] \in {Head(q)} \cup {Tail(q)[k] : k \in DOMAIN Tail(q)}
    <3>1. CASE i = 1
      BY <1>1, <3>1
    <3>2. CASE i # 1
      <4>1. i - 1 \in DOMAIN Tail(q) /\ Tail(q)[i - 1] = q[i]
        BY <1>1, <3>2, <2>1
      <4>2. QED
        BY <4>1
    <3>3. QED
      BY <3>1, <3>2
  <2>2. Head(q) \in {q[i] : i \in DOMAIN q}
    BY <1>1
  <2>3. ASSUME NEW i \in DOMAIN Tail(q)
        PROVE  Tail(q)[i] \in {q[k] : k \in DOMAIN q}
    <3>1. i + 1 \in DOMAIN q /\ Tail(q)[i] = q[i + 1]
      BY <1>1, <2>3
    <3>2. QED
      BY <3>1
  <2>4. QED
    BY <2>1, <2>2, <2>3
<1>4. ASSUME \A i, j \in DOMAIN q : q[i] = q[j] => i = j
      PROVE  /\ \A i, j \in DOMAIN Tail(q) :
                   Tail(q)[i] = Tail(q)[j] => i = j
             /\ Head(q) \notin {Tail(q)[i] : i \in DOMAIN Tail(q)}
  <2>1. ASSUME NEW i \in DOMAIN Tail(q), NEW j \in DOMAIN Tail(q),
               Tail(q)[i] = Tail(q)[j]
        PROVE  i = j
    <3>1. i + 1 \in DOMAIN q /\ j + 1 \in DOMAIN q /\ q[i + 1] = q[j + 1]
      BY <1>1, <2>1
    <3>2. i + 1 = j + 1
      BY <1>4, <3>1
    <3>3. QED
      BY <1>1, <3>2
  <2>2. ASSUME NEW i \in DOMAIN Tail(q)
        PROVE  Tail(q)[i] # Head(q)
    <3>1. i + 1 \in DOMAIN q /\ 1 \in DOMAIN q /\ i + 1 # 1
          /\ Tail(q)[i] = q[i + 1]
      BY <1>1, <2>2
    <3>2. QED
      BY <1>1, <1>4, <3>1
  <2>3. QED
    BY <2>1, <2>2
<1>5. QED
  BY <1>1, <1>2, <1>3, <1>4

\* Pushing adds one element, and no repetition if the element is new.
LEMMA PushFacts ==
    ASSUME NEW S, NEW q \in Seq(S), NEW e \in S
    PROVE  /\ Append(q, e) \in Seq(S)
           /\ Append(q, e) # <<>>
           /\ {Append(q, e)[i] : i \in DOMAIN Append(q, e)}
                = {q[i] : i \in DOMAIN q} \cup {e}
           /\ (/\ \A i, j \in DOMAIN q : q[i] = q[j] => i = j
               /\ e \notin {q[i] : i \in DOMAIN q})
                => \A i, j \in DOMAIN Append(q, e) :
                       Append(q, e)[i] = Append(q, e)[j] => i = j
<1> DEFINE r == Append(q, e)
<1>1. /\ Len(q) \in Nat
      /\ DOMAIN q = 1..Len(q)
      /\ r \in Seq(S)
      /\ Len(r) = Len(q) + 1
      /\ DOMAIN r = 1..(Len(q) + 1)
      /\ r[Len(q) + 1] = e
      /\ \A i \in 1..Len(q) : r[i] = q[i]
  OBVIOUS
<1> HIDE DEF r
<1>2. r # <<>>
  BY <1>1
<1>3. {r[i] : i \in DOMAIN r} = {q[i] : i \in DOMAIN q} \cup {e}
  <2>1. ASSUME NEW i \in DOMAIN r
        PROVE  r[i] \in {q[k] : k \in DOMAIN q} \cup {e}
    <3>1. i = Len(q) + 1 \/ i \in DOMAIN q
      BY <1>1
    <3>2. QED
      BY <1>1, <3>1
  <2>2. ASSUME NEW i \in DOMAIN q
        PROVE  i \in DOMAIN r /\ r[i] = q[i]
    BY <1>1
  <2>3. Len(q) + 1 \in DOMAIN r
    BY <1>1
  <2>4. QED
    BY <1>1, <2>1, <2>2, <2>3
<1>4. ASSUME \A i, j \in DOMAIN q : q[i] = q[j] => i = j,
             e \notin {q[i] : i \in DOMAIN q},
             NEW i \in DOMAIN r, NEW j \in DOMAIN r, r[i] = r[j]
      PROVE  i = j
  <2>1. \A k \in DOMAIN r : k = Len(q) + 1 \/ (k \in DOMAIN q /\ r[k] = q[k])
    BY <1>1
  <2>2. \A k \in DOMAIN q : q[k] # e
    BY <1>4
  <2>3. QED
    BY <1>1, <1>4, <2>1, <2>2
<1>5. QED
  BY <1>1, <1>2, <1>3, <1>4 DEF r

-----------------------------------------------------------------------------
(* The number of idle threads *)

\* The threads the counter of line 49 and 51 leaves out.
Idle == {w \in Workers : pc[w] \notin {"running", "ran"}}

\* A thread that begins a task leaves the idle ones, one that has put the
\* counter back joins them, any other step of a thread leaves them alone.
LEMMA IdleCount ==
    ASSUME TypeOK, AvailableIsIdle, NEW w \in Workers
    PROVE  /\ m_AvailableThreadCount = Cardinality(Idle)
           /\ Cardinality(Idle) \in 0..Cardinality(Workers)
           /\ w \in Idle =>
                /\ Cardinality(Idle \ {w}) = Cardinality(Idle) - 1
                /\ Cardinality(Idle) - 1 \in 0..Cardinality(Workers)
           /\ w \notin Idle =>
                /\ Cardinality(Idle \cup {w}) = Cardinality(Idle) + 1
                /\ Cardinality(Idle) + 1 \in 0..Cardinality(Workers)
<1>1. IsFiniteSet(Workers) /\ Cardinality(Workers) \in Nat
  BY WorkersAssumption, FS_CardinalityType
<1>2. ASSUME NEW T \in SUBSET Workers
      PROVE  /\ IsFiniteSet(T)
             /\ Cardinality(T) \in Nat
             /\ Cardinality(T) <= Cardinality(Workers)
  BY <1>1, FS_Subset, FS_CardinalityType
<1>3. Idle \in SUBSET Workers /\ Idle \ {w} \in SUBSET Workers
      /\ Idle \cup {w} \in SUBSET Workers
  BY DEF Idle
<1>4. /\ w \in Idle => Cardinality(Idle \ {w}) = Cardinality(Idle) - 1
      /\ w \notin Idle => Cardinality(Idle \cup {w}) = Cardinality(Idle) + 1
  BY <1>2, <1>3, FS_AddElement, FS_RemoveElement
<1>5. m_AvailableThreadCount = Cardinality(Idle)
  BY DEF AvailableIsIdle, Idle
<1>6. /\ Cardinality(Idle) \in Nat
      /\ Cardinality(Idle) <= Cardinality(Workers)
      /\ Cardinality(Idle \ {w}) \in Nat
      /\ Cardinality(Idle \cup {w}) \in Nat
      /\ Cardinality(Idle \cup {w}) <= Cardinality(Workers)
  BY <1>2, <1>3
<1>7. QED
  BY <1>1, <1>4, <1>5, <1>6

-----------------------------------------------------------------------------
(* The invariant *)

LEMMA InitInv == Init => Inv
<1> SUFFICES ASSUME Init PROVE Inv
  OBVIOUS
<1> USE DEF Init
<1>1. Cardinality(Workers) \in Nat
  BY WorkersAssumption, FS_CardinalityType
<1>2. TypeOK
  <2>1. m_TaskQueue \in Seq(Tasks)
    BY EmptySeq
  <2>2. pc \in [Workers -> PcValues] /\ task \in [Workers -> Tasks \cup {NoTask}]
    BY DEF PcValues
  <2>3. m_AvailableThreadCount \in 0..Cardinality(Workers)
    BY <1>1
  <2>4. QED
    BY <2>1, <2>2, <2>3 DEF TypeOK
<1>3. TaskOnce
  BY DEF TaskOnce, Queued, Held, Busy
<1>4. AvailableIsIdle
  <2>1. {w \in Workers : pc[w] \notin {"running", "ran"}} = Workers
    OBVIOUS
  <2>2. QED
    BY <2>1 DEF AvailableIsIdle
<1>5. HoldersHaveTasks
  BY DEF HoldersHaveTasks
<1>6. ShutdownOrder
  BY WorkersAssumption DEF ShutdownOrder, AllLeft
<1>7. QED
  BY <1>2, <1>3, <1>4, <1>5, <1>6 DEF Inv

\* A step that moves one thread between places that own no task and count as
\* idle, and touches neither queue nor tasks, keeps everything but the order
\* of the shutdown.
LEMMA QuietStep ==
    ASSUME Inv,
           UNCHANGED <<m_TaskQueue, m_AvailableThreadCount, task, finished,
                       tooLate>>,
           pc' \in [Workers -> PcValues],
           m_IsDestory' \in BOOLEAN,
           dtor' \in {"none", "flagged", "notified", "joined"},
           \A w \in Workers :
               pc'[w] = pc[w] \/ {pc[w], pc'[w]} \cap
                                   {"popped", "running", "ran"} = {}
    PROVE  /\ TypeOK' /\ TaskOnce' /\ AvailableIsIdle' /\ HoldersHaveTasks'
           /\ Queued' = Queued
<1>1. TypeOK'
  BY DEF Inv, TypeOK
<1>2. \A w \in Workers : /\ Busy(w)' <=> Busy(w)
                         /\ pc'[w] \in {"running", "ran"}
                                <=> pc[w] \in {"running", "ran"}
  BY DEF Busy
<1>3. Held' = Held /\ Queued' = Queued
  BY <1>2 DEF Held, Queued
<1>4. TaskOnce'
  BY <1>2, <1>3 DEF Inv, TaskOnce
<1>5. {w \in Workers : pc[w] \notin {"running", "ran"}}'
        = {w \in Workers : pc[w] \notin {"running", "ran"}}
  BY <1>2
<1>6. AvailableIsIdle'
  BY <1>5 DEF Inv, AvailableIsIdle
<1>7. HoldersHaveTasks'
  BY DEF Inv, HoldersHaveTasks
<1>8. QED
  BY <1>1, <1>3, <1>4, <1>6, <1>7

\* What a push does to the queue (AddTask 56-61), whoever calls it.
LEMMA PushStep ==
    ASSUME Inv, NEW t \in Tasks, PushAndNotify(t),
           UNCHANGED <<m_IsDestory, m_AvailableThreadCount,
                       task, finished, dtor>>
    PROVE  /\ TypeOK' /\ TaskOnce' /\ AvailableIsIdle' /\ HoldersHaveTasks'
           /\ ShutdownOrder'
           /\ Held' = Held
           /\ AllLeft' <=> AllLeft
<1> USE DEF PushAndNotify
<1>1. TypeOK
  BY DEF Inv
<1>2. pc' = Woken /\ Woken \in [Workers -> PcValues]
  BY <1>1 DEF TypeOK, Woken, PcValues
<1>3. \A w \in Workers :
        /\ Busy(w)' <=> Busy(w)
        /\ pc'[w] \in {"running", "ran"} <=> pc[w] \in {"running", "ran"}
        /\ pc'[w] = "popped" <=> pc[w] = "popped"
        /\ pc'[w] = "exited" <=> pc[w] = "exited"
  BY <1>1, <1>2 DEF TypeOK, Woken, Busy
<1>4. /\ m_TaskQueue' \in Seq(Tasks)
      /\ Queued' = Queued \cup {t}
      /\ (\A i, j \in DOMAIN m_TaskQueue :
             m_TaskQueue[i] = m_TaskQueue[j] => i = j)
         => (\A i, j \in DOMAIN m_TaskQueue :
               m_TaskQueue[i] = m_TaskQueue[j] => i = j)'
  <2>1. m_TaskQueue \in Seq(Tasks) /\ t \notin Queued
    BY <1>1 DEF TypeOK, Submitted
  <2>2. m_TaskQueue' = Append(m_TaskQueue, t)
    OBVIOUS
  <2>3. QED
    BY <2>1, <2>2, PushFacts DEF Queued
<1>5. TypeOK'
  BY <1>1, <1>2, <1>4 DEF TypeOK
<1>6. Held' = Held
  BY <1>3 DEF Held
<1>7. TaskOnce'
  <2>1. t \notin Queued \cup Held \cup finished
    BY DEF Submitted
  <2>2. QED
    BY <1>3, <1>4, <1>6, <2>1 DEF Inv, TaskOnce
<1>8. AvailableIsIdle'
  <2>1. {w \in Workers : pc[w] \notin {"running", "ran"}}'
          = {w \in Workers : pc[w] \notin {"running", "ran"}}
    BY <1>3
  <2>2. QED
    BY <2>1 DEF Inv, AvailableIsIdle
<1>9. HoldersHaveTasks'
  BY <1>3 DEF Inv, HoldersHaveTasks
<1>10. AllLeft' <=> AllLeft
  BY <1>3 DEF AllLeft
<1>11. ShutdownOrder'
  BY <1>3, <1>4, <1>10 DEF Inv, ShutdownOrder
<1>12. QED
  BY <1>5, <1>6, <1>7, <1>8, <1>9, <1>10, <1>11

\* What taking a task does to the queue and to the thread (Work 46-47).
LEMMA TakeStep ==
    ASSUME Inv, NEW w \in Workers, TakeTask(w)
    PROVE  /\ TypeOK' /\ TaskOnce' /\ HoldersHaveTasks'
           /\ Head(m_TaskQueue) \in Tasks
           /\ Held' = Held \cup {Head(m_TaskQueue)}
<1> DEFINE h == Head(m_TaskQueue)
           r == Tail(m_TaskQueue)
<1>1. TypeOK /\ TaskOnce /\ HoldersHaveTasks
  BY DEF Inv
<1>a. m_TaskQueue \in Seq(Tasks) /\ m_TaskQueue # <<>>
      /\ \A i, j \in DOMAIN m_TaskQueue :
            m_TaskQueue[i] = m_TaskQueue[j] => i = j
  BY <1>1 DEF TypeOK, TaskOnce, TakeTask
<1>b. /\ h \in Tasks
      /\ r \in Seq(Tasks)
      /\ Queued = {h} \cup {r[i] : i \in DOMAIN r}
      /\ h \notin {r[i] : i \in DOMAIN r}
      /\ \A i, j \in DOMAIN r : r[i] = r[j] => i = j
  BY ONLY <1>a, PopFacts DEF Queued
<1>c. m_TaskQueue' = r
  BY DEF TakeTask
<1> HIDE DEF h, r
<1>2. /\ h \in Tasks
      /\ m_TaskQueue' \in Seq(Tasks)
      /\ Queued = {h} \cup Queued'
      /\ h \notin Queued'
      /\ (\A i, j \in DOMAIN m_TaskQueue :
             m_TaskQueue[i] = m_TaskQueue[j] => i = j)'
  BY ONLY <1>b, <1>c DEF Queued
<1> USE DEF TakeTask, Goto
<1>3. /\ pc' = [pc EXCEPT ![w] = "popped"]
      /\ task' = [task EXCEPT ![w] = h]
      /\ pc \in [Workers -> PcValues]
      /\ task \in [Workers -> Tasks \cup {NoTask}]
      /\ ~Busy(w)
  BY <1>1 DEF h, TypeOK, Busy
<1>4. TypeOK'
  BY <1>1, <1>2, <1>3 DEF TypeOK, PcValues
<1>5. /\ Busy(w)' /\ task'[w] = h
      /\ \A x \in Workers \ {w} : (Busy(x)' <=> Busy(x)) /\ task'[x] = task[x]
  BY <1>3 DEF Busy
<1>6. Held' = Held \cup {h}
  BY <1>3, <1>5 DEF Held
<1>7. h \in Queued /\ h \notin Held /\ h \notin finished
  BY <1>1, <1>2 DEF TaskOnce
<1>8. TaskOnce'
  <2>1. \A x \in Workers : Busy(x) => task[x] # h
    BY <1>7 DEF Held
  <2>2. (\A x, y \in Workers :
            Busy(x) /\ Busy(y) /\ task[x] = task[y] => x = y)'
    BY <1>1, <1>5, <2>1 DEF TaskOnce
  <2>3. (Queued \cap Held = {})' /\ ((Queued \cup Held) \cap finished = {})'
    BY <1>1, <1>2, <1>6, <1>7 DEF TaskOnce
  <2>4. QED
    BY <1>2, <2>2, <2>3 DEF TaskOnce
<1>9. HoldersHaveTasks'
  BY <1>1, <1>2, <1>3 DEF HoldersHaveTasks
<1>10. QED
  BY <1>2, <1>4, <1>6, <1>8, <1>9 DEF h

\* A task that returns leaves its thread and nothing else changes hands
\* (Work 50).
LEMMA EndStep ==
    ASSUME Inv, NEW w \in Workers, EndTask(w)
    PROVE  /\ TypeOK' /\ TaskOnce' /\ HoldersHaveTasks'
           /\ task[w] \in Tasks /\ task[w] \in Held
           /\ Held' = Held \ {task[w]}
<1> USE DEF EndTask, Goto
<1>1. TypeOK /\ TaskOnce /\ HoldersHaveTasks
  BY DEF Inv
<1>2. /\ pc' = [pc EXCEPT ![w] = "ran"]
      /\ pc \in [Workers -> PcValues]
      /\ Busy(w) /\ task[w] \in Tasks
      /\ Queued' = Queued
  BY <1>1 DEF TypeOK, HoldersHaveTasks, Busy, Queued
<1>3. ~Busy(w)' /\ \A x \in Workers \ {w} : Busy(x)' <=> Busy(x)
  BY <1>2 DEF Busy
<1>4. \A x \in Workers \ {w} : Busy(x) => task[x] # task[w]
  BY <1>1, <1>2 DEF TaskOnce
<1>5. task[w] \in Held /\ Held' = Held \ {task[w]}
  BY <1>2, <1>3, <1>4 DEF Held
<1>6. TypeOK'
  BY <1>1, <1>2 DEF TypeOK, PcValues
<1>7. TaskOnce'
  <2>1. (\A x, y \in Workers :
            Busy(x) /\ Busy(y) /\ task[x] = task[y] => x = y)'
    BY <1>1, <1>3 DEF TaskOnce
  <2>2. (Queued \cap Held = {})' /\ ((Queued \cup Held) \cap finished = {})'
    BY <1>1, <1>2, <1>5 DEF TaskOnce
  <2>3. QED
    BY <1>1, <2>1, <2>2 DEF TaskOnce
<1>8. HoldersHaveTasks'
  BY <1>1, <1>2 DEF HoldersHaveTasks
<1>9. QED
  BY <1>2, <1>5, <1>6, <1>7, <1>8

LEMMA NextInv == Inv /\ [Next]_vars => Inv'
<1> SUFFICES ASSUME Inv, [Next]_vars PROVE Inv'
  OBVIOUS
<1>1. TypeOK /\ TaskOnce /\ AvailableIsIdle /\ HoldersHaveTasks /\ ShutdownOrder
  BY DEF Inv
<1>2. ASSUME NEW w \in Workers, TakeTask(w) PROVE Inv'
  <2>1. TypeOK' /\ TaskOnce' /\ HoldersHaveTasks'
    BY <1>2, TakeStep
  <2>2. {x \in Workers : pc[x] \notin {"running", "ran"}}'
          = {x \in Workers : pc[x] \notin {"running", "ran"}}
    BY <1>1, <1>2 DEF TakeTask, Goto, TypeOK
  <2>3. AvailableIsIdle'
    BY <1>1, <1>2, <2>2 DEF TakeTask, AvailableIsIdle
  <2>4. ShutdownOrder'
    BY <1>1, <1>2 DEF TakeTask, Goto, TypeOK, ShutdownOrder, AllLeft
  <2>5. QED
    BY <2>1, <2>3, <2>4 DEF Inv
<1>3. ASSUME NEW w \in Workers,
             Leave(w) \/ TestFails(w) \/ FallAsleep(w) \/ SpuriousWakeup(w)
      PROVE Inv'
  <2>1. /\ TypeOK' /\ TaskOnce' /\ AvailableIsIdle' /\ HoldersHaveTasks'
        /\ Queued' = Queued
    <3>1. /\ UNCHANGED <<m_TaskQueue, m_IsDestory, m_AvailableThreadCount,
                         task, finished, tooLate, dtor>>
          /\ pc' \in [Workers -> PcValues]
          /\ \A x \in Workers :
                 pc'[x] = pc[x] \/ {pc[x], pc'[x]} \cap
                                     {"popped", "running", "ran"} = {}
      BY <1>1, <1>3 DEF Leave, TestFails, FallAsleep, SpuriousWakeup, Goto,
                        TypeOK, PcValues
    <3>2. QED
      BY <1>1, <3>1, QuietStep DEF TypeOK
  <2>2. ShutdownOrder'
    <3>1. ~AllLeft /\ tooLate' = {}
      BY <1>1, <1>3 DEF Leave, TestFails, FallAsleep, SpuriousWakeup, AllLeft,
                        ShutdownOrder
    <3>2. AllLeft' => Queued' = {}
      BY <1>1, <1>3 DEF Leave, TestFails, FallAsleep, SpuriousWakeup, Goto,
                        TypeOK, AllLeft, Queued
    <3>3. QED
      BY <1>1, <1>3, <3>1, <3>2
         DEF Leave, TestFails, FallAsleep, SpuriousWakeup, Goto,
             TypeOK, ShutdownOrder
  <2>3. QED
    BY <2>1, <2>2 DEF Inv
<1>4. ASSUME NEW w \in Workers, BeginTask(w) PROVE Inv'
  <2>1. Idle' = Idle \ {w} /\ w \in Idle
    BY <1>1, <1>4 DEF BeginTask, Goto, TypeOK, Idle
  <2>2. AvailableIsIdle' /\ TypeOK'
    <3>1. /\ m_AvailableThreadCount' = Cardinality(Idle')
          /\ m_AvailableThreadCount' \in 0..Cardinality(Workers)
      BY <1>1, <1>4, <2>1, IdleCount DEF BeginTask
    <3>2. AvailableIsIdle'
      BY <3>1 DEF AvailableIsIdle, Idle
    <3>3. QED
      BY <1>1, <1>4, <3>1, <3>2 DEF BeginTask, Goto, TypeOK, PcValues
  <2>3. \A x \in Workers : Busy(x)' <=> Busy(x)
    BY <1>1, <1>4 DEF BeginTask, Goto, TypeOK, Busy
  <2>4. Held' = Held /\ Queued' = Queued
    BY <1>4, <2>3 DEF BeginTask, Held, Queued
  <2>5. TaskOnce'
    BY <1>1, <1>4, <2>3, <2>4 DEF BeginTask, TaskOnce
  <2>6. HoldersHaveTasks' /\ ShutdownOrder'
    BY <1>1, <1>4 DEF BeginTask, Goto, TypeOK, HoldersHaveTasks, ShutdownOrder,
                      AllLeft
  <2>7. QED
    BY <2>2, <2>5, <2>6 DEF Inv
<1>5. ASSUME NEW w \in Workers, EndTask(w) PROVE Inv'
  <2>1. TypeOK' /\ TaskOnce' /\ HoldersHaveTasks'
    BY <1>5, EndStep
  <2>2. {x \in Workers : pc[x] \notin {"running", "ran"}}'
          = {x \in Workers : pc[x] \notin {"running", "ran"}}
    BY <1>1, <1>5 DEF EndTask, Goto, TypeOK
  <2>3. AvailableIsIdle'
    BY <1>1, <1>5, <2>2 DEF EndTask, AvailableIsIdle
  <2>4. ShutdownOrder'
    BY <1>1, <1>5 DEF EndTask, Goto, TypeOK, ShutdownOrder, AllLeft
  <2>5. QED
    BY <2>1, <2>3, <2>4 DEF Inv
<1>6. ASSUME NEW w \in Workers, BecomeAvailable(w) PROVE Inv'
  <2>1. Idle' = Idle \cup {w} /\ w \notin Idle
    BY <1>1, <1>6 DEF BecomeAvailable, Goto, TypeOK, Idle
  <2>2. AvailableIsIdle' /\ TypeOK'
    <3>1. /\ m_AvailableThreadCount' = Cardinality(Idle')
          /\ m_AvailableThreadCount' \in 0..Cardinality(Workers)
      BY <1>1, <1>6, <2>1, IdleCount DEF BecomeAvailable
    <3>2. AvailableIsIdle'
      BY <3>1 DEF AvailableIsIdle, Idle
    <3>3. QED
      BY <1>1, <1>6, <3>1, <3>2 DEF BecomeAvailable, Goto, TypeOK, PcValues
  <2>3. \A x \in Workers : Busy(x)' <=> Busy(x)
    BY <1>1, <1>6 DEF BecomeAvailable, Goto, TypeOK, Busy
  <2>4. Held' = Held /\ Queued' = Queued
    BY <1>6, <2>3 DEF BecomeAvailable, Held, Queued
  <2>5. TaskOnce'
    BY <1>1, <1>6, <2>3, <2>4 DEF BecomeAvailable, TaskOnce
  <2>6. HoldersHaveTasks' /\ ShutdownOrder'
    BY <1>1, <1>6 DEF BecomeAvailable, Goto, TypeOK, HoldersHaveTasks,
                      ShutdownOrder, AllLeft
  <2>7. QED
    BY <2>2, <2>5, <2>6 DEF Inv
<1>7. ASSUME NEW t \in Tasks,
             AddTask(t) \/ \E w \in Workers : AddTaskFromTask(w, t)
      PROVE Inv'
  <2>1. /\ PushAndNotify(t)
        /\ UNCHANGED <<m_IsDestory, m_AvailableThreadCount,
                       task, finished, dtor>>
    BY <1>7 DEF AddTask, AddTaskFromTask
  <2>2. QED
    BY <2>1, PushStep DEF Inv
<1>8. ASSUME SetDestroyFlag \/ NotifyToLeave \/ JoinAll PROVE Inv'
  <2>1. /\ UNCHANGED <<m_TaskQueue, m_AvailableThreadCount, task, finished,
                       tooLate>>
        /\ pc' \in [Workers -> PcValues]
        /\ \A w \in Workers :
              /\ pc'[w] = pc[w] \/ {pc[w], pc'[w]} \cap
                                   {"popped", "running", "ran"} = {}
              /\ pc'[w] = "exited" <=> pc[w] = "exited"
        /\ m_IsDestory' \in BOOLEAN
        /\ dtor' \in {"none", "flagged", "notified", "joined"}
    BY <1>1, <1>8 DEF SetDestroyFlag, NotifyToLeave, JoinAll, Woken,
                      TypeOK, PcValues
  <2>2. /\ TypeOK' /\ TaskOnce' /\ AvailableIsIdle' /\ HoldersHaveTasks'
        /\ Queued' = Queued
    BY <2>1, QuietStep
  <2>3. AllLeft' <=> AllLeft
    BY <2>1 DEF AllLeft
  <2>4. ShutdownOrder'
    BY <1>1, <1>8, <2>1, <2>2, <2>3
       DEF SetDestroyFlag, NotifyToLeave, JoinAll, AllLeft, ShutdownOrder
  <2>5. QED
    BY <2>2, <2>4 DEF Inv
<1>9. CASE UNCHANGED vars
  <2>1. /\ TypeOK' /\ TaskOnce' /\ AvailableIsIdle' /\ HoldersHaveTasks'
        /\ Queued' = Queued
    BY <1>1, <1>9, QuietStep DEF vars, TypeOK
  <2>2. ShutdownOrder'
    BY <1>1, <1>9, <2>1 DEF vars, ShutdownOrder, AllLeft
  <2>3. QED
    BY <2>1, <2>2 DEF Inv
<1>10. QED
  BY <1>2, <1>3, <1>4, <1>5, <1>6, <1>7, <1>8, <1>9 DEF Next, Work, Destroy

THEOREM Invariance == SafeSpec => []Inv
<1>1. QED
  BY InitInv, NextInv, PTL DEF SafeSpec

\* Every variable keeps its type, the counter of idle threads its range.
THEOREM TypeCorrect == SafeSpec => []TypeOK
<1>1. Inv => TypeOK
  BY DEF Inv
<1>2. QED
  BY <1>1, Invariance, PTL

\* No closure given to AddTask is lost, run twice or held by two threads.
THEOREM RunOnce == SafeSpec => []TaskOnce
<1>1. Inv => TaskOnce
  BY DEF Inv
<1>2. QED
  BY <1>1, Invariance, PTL

\* The counter Monitor reads is the number of threads outside task().
THEOREM CounterExact == SafeSpec => []AvailableIsIdle
<1>1. Inv => AvailableIsIdle
  BY DEF Inv
<1>2. QED
  BY <1>1, Invariance, PTL

\* When ~ThreadPool has joined its threads, every task has run that was added
\* before the last of them left, also by another thread during the shutdown.
THEOREM NothingLeftBehind == SafeSpec => []JoinedMeansDrained
<1>1. Inv => JoinedMeansDrained
  <2> SUFFICES ASSUME Inv, dtor = "joined"
               PROVE  Submitted \ tooLate = finished
    BY DEF JoinedMeansDrained
  <2>1. AllLeft /\ Queued = tooLate
    BY DEF Inv, ShutdownOrder
  <2>2. Held = {}
    BY <2>1 DEF AllLeft, Held, Busy
  <2>3. Queued \cap finished = {}
    BY DEF Inv, TaskOnce
  <2>4. QED
    BY <2>1, <2>2, <2>3 DEF Submitted
<1>2. QED
  BY <1>1, Invariance, PTL

-----------------------------------------------------------------------------
(* The pool implements TaskPool *)

\* Every step of the pool adds a task, starts the oldest one, ends a started
\* one, is the last thread's leaving, or is invisible to the callers of AddTask.
THEOREM Refinement == SafeSpec => Pool!SafeSpec
<1>1. Init => Pool!Init
  BY WorkersAssumption DEF Init, Pool!Init, Held, Busy, AllLeft, ToRun
<1>2. Inv /\ [Next]_vars => [Pool!Next]_Pool!vars
  <2> SUFFICES ASSUME Inv, [Next]_vars
               PROVE  \/ Pool!Next
                      \/ /\ UNCHANGED <<m_TaskQueue, Held, finished, tooLate>>
                         /\ AllLeft' <=> AllLeft
    <3>1. (AllLeft' <=> AllLeft) => AllLeft' = AllLeft
      BY DEF AllLeft
    <3>2. QED
      BY <3>1 DEF Pool!vars, ToRun
  <2>1. TypeOK /\ ShutdownOrder
    BY DEF Inv
  <2>2. ASSUME NEW w \in Workers, TakeTask(w) PROVE Pool!Next
    <3>1. Held' = Held \cup {Head(m_TaskQueue)}
      BY <2>2, TakeStep
    <3>2. ~AllLeft /\ ~AllLeft'
      BY <2>1, <2>2 DEF TakeTask, Goto, TypeOK, AllLeft
    <3>a. AllLeft' = AllLeft
      BY <3>2 DEF AllLeft
    <3>3. Pool!StartOldest
      BY <2>2, <3>1, <3>2, <3>a DEF TakeTask, ToRun, Pool!StartOldest
    <3>4. QED
      BY <3>3 DEF Pool!Next
  <2>3. ASSUME NEW w \in Workers, EndTask(w) PROVE Pool!Next
    <3>1. task[w] \in Tasks /\ task[w] \in Held /\ Held' = Held \ {task[w]}
      BY <2>3, EndStep
    <3>2. ~AllLeft /\ ~AllLeft'
      BY <2>1, <2>3 DEF EndTask, Goto, TypeOK, AllLeft
    <3>a. AllLeft' = AllLeft
      BY <3>2 DEF AllLeft
    <3>3. Pool!End(task[w])
      BY <2>3, <3>1, <3>2, <3>a DEF EndTask, ToRun, Pool!End
    <3>4. QED
      BY <3>1, <3>3 DEF Pool!Next
  <2>4. ASSUME NEW t \in Tasks,
               AddTask(t) \/ \E w \in Workers : AddTaskFromTask(w, t)
        PROVE  Pool!Next
    <3>1. /\ PushAndNotify(t)
          /\ UNCHANGED <<m_IsDestory, m_AvailableThreadCount,
                         task, finished, dtor>>
      BY <2>4 DEF AddTask, AddTaskFromTask
    <3>2. Held' = Held /\ (AllLeft' <=> AllLeft)
      BY <3>1, PushStep
    <3>3. Pool!IsNew(t)
      BY <2>1, <3>1 DEF PushAndNotify, Submitted, Queued, ToRun, ShutdownOrder,
                        Pool!IsNew, Pool!Waiting
    <3>4. CASE AllLeft
      <4>1. Pool!AddTooLate(t)
        BY <3>1, <3>2, <3>3, <3>4 DEF PushAndNotify, ToRun, Pool!AddTooLate
      <4>2. QED
        BY <4>1 DEF Pool!Next
    <3>5. CASE ~AllLeft
      <4>1. Pool!Add(t)
        BY <3>1, <3>2, <3>3, <3>5 DEF PushAndNotify, ToRun, Pool!Add
      <4>2. QED
        BY <4>1 DEF Pool!Next
    <3>6. QED
      BY <3>4, <3>5
  <2>5. ASSUME \/ \E w \in Workers :
                    \/ Leave(w) \/ TestFails(w) \/ FallAsleep(w)
                    \/ SpuriousWakeup(w) \/ BeginTask(w) \/ BecomeAvailable(w)
               \/ SetDestroyFlag \/ NotifyToLeave \/ JoinAll
               \/ UNCHANGED vars
        PROVE  UNCHANGED <<m_TaskQueue, Held, finished, tooLate>>
    <3>1. UNCHANGED <<m_TaskQueue, task, finished, tooLate>>
      BY <2>5 DEF Leave, TestFails, FallAsleep, SpuriousWakeup, BeginTask,
                  BecomeAvailable, SetDestroyFlag, NotifyToLeave, JoinAll, vars
    <3>2. \A w \in Workers : Busy(w)' <=> Busy(w)
      BY <2>1, <2>5 DEF Leave, TestFails, FallAsleep, SpuriousWakeup,
                        BeginTask, BecomeAvailable, SetDestroyFlag,
                        NotifyToLeave, JoinAll, Woken, Goto, vars, TypeOK, Busy
    <3>3. QED
      BY <3>1, <3>2 DEF Held
  <2>6. ASSUME \/ \E w \in Workers :
                    \/ TestFails(w) \/ FallAsleep(w) \/ SpuriousWakeup(w)
                    \/ BeginTask(w) \/ BecomeAvailable(w)
               \/ SetDestroyFlag \/ NotifyToLeave \/ JoinAll
               \/ UNCHANGED vars
        PROVE  AllLeft' <=> AllLeft
    <3>1. \A w \in Workers : pc'[w] = "exited" <=> pc[w] = "exited"
      BY <2>1, <2>6 DEF TestFails, FallAsleep, SpuriousWakeup, BeginTask,
                        BecomeAvailable, SetDestroyFlag, NotifyToLeave,
                        JoinAll, Woken, Goto, vars, TypeOK
    <3>2. QED
      BY <3>1 DEF AllLeft
  <2>7. ASSUME NEW w \in Workers, Leave(w)
        PROVE  Pool!Next \/ (AllLeft' <=> AllLeft)
    <3>1. ~AllLeft /\ m_TaskQueue = <<>>
      BY <2>7 DEF Leave, AllLeft
    <3>2. ASSUME AllLeft' PROVE Pool!Next
      <4>1. \A x \in Workers : ~Busy(x)'
        BY <3>2 DEF AllLeft, Busy
      <4>2. Held' = {}
        BY <4>1 DEF Held
      <4>3. UNCHANGED <<m_TaskQueue, Held, finished, tooLate>>
        BY <2>5, <2>7
      <4>4. Pool!Close
        BY <3>1, <3>2, <4>2, <4>3 DEF ToRun, Pool!Close
      <4>5. QED
        BY <4>4 DEF Pool!Next
    <3>3. QED
      BY <3>1, <3>2
  <2>8. QED
    BY <2>2, <2>3, <2>4, <2>5, <2>6, <2>7 DEF Next, Work, Destroy
<1>3. QED
  BY <1>1, <1>2, Invariance, PTL DEF SafeSpec, Pool!SafeSpec

=============================================================================
