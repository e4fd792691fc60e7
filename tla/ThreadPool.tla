----------------------------- MODULE ThreadPool -----------------------------
(***************************************************************************)
(* The server's ThreadPool (ThreadPool.cpp): m_Count threads run Work(),   *)
(* take closures from m_TaskQueue under m_Mutex and sleep on               *)
(* m_ConditionVariable when there is nothing to do.  The destructor sets   *)
(* m_IsDestory without taking m_Mutex, notifies everybody and joins.       *)
(*                                                                         *)
(* A step is what happens under one holding of m_Mutex, or one access that *)
(* needs no lock.  The wait of line 37 is two steps, because the flag can  *)
(* change between the test of the predicate and the moment the thread      *)
(* sleeps.  A data race on m_IsDestory (a plain bool) is read as the value *)
(* it has at that moment.                                                  *)
(***************************************************************************)
EXTENDS Integers, Sequences, FiniteSets

CONSTANTS
    Workers,        \* the threads of m_ThreadVector
    Tasks,          \* every closure that may be given to AddTask, once each
    NoTask          \* the empty std::function

ASSUME WorkersAssumption == Workers # {} /\ IsFiniteSet(Workers)
ASSUME NoTaskAssumption == NoTask \notin Tasks

VARIABLES
    m_TaskQueue,            \* closures not yet taken, oldest first
    m_IsDestory,
    m_AvailableThreadCount,
    pc,                     \* where each thread is in Work()
    task,                   \* the local variable task of each thread
    finished,               \* closures whose call has returned
    tooLate,                \* closures added when every thread had left Work()
    dtor                    \* how far ~ThreadPool has come

vars == <<m_TaskQueue, m_IsDestory, m_AvailableThreadCount,
          pc, task, finished, tooLate, dtor>>

\* "lock"    about to take m_Mutex at the head of the loop, or woken
\* "tested"  holds m_Mutex, has found the predicate false, not yet asleep
\* "asleep"  inside m_ConditionVariable.wait
\* "popped"  owns a task, m_AvailableThreadCount not yet decremented
\* "running" inside task()
\* "ran"     task() has returned, m_AvailableThreadCount not yet restored
\* "exited"  Work() has returned
PcValues == {"lock", "tested", "asleep", "popped", "running", "ran", "exited"}

Busy(w) == pc[w] \in {"popped", "running"}

Queued == {m_TaskQueue[i] : i \in DOMAIN m_TaskQueue}
Held == {task[w] : w \in {x \in Workers : Busy(x)}}
Submitted == Queued \cup Held \cup finished

AllLeft == \A w \in Workers : pc[w] = "exited"

\* m_Mutex is held across steps only by a thread that is about to sleep.
MutexFree == \A w \in Workers : pc[w] # "tested"

-----------------------------------------------------------------------------

Init ==
    /\ m_TaskQueue = <<>>
    /\ m_IsDestory = FALSE
    /\ m_AvailableThreadCount = Cardinality(Workers)
    /\ pc = [w \in Workers |-> "lock"]
    /\ task = [w \in Workers |-> NoTask]
    /\ finished = {}
    /\ tooLate = {}
    /\ dtor = "none"

Goto(w, where) == pc' = [pc EXCEPT ![w] = where]

\* m_ConditionVariable.notify_all(): whoever sleeps must take the lock again.
Woken == [w \in Workers |-> IF pc[w] = "asleep" THEN "lock" ELSE pc[w]]

-----------------------------------------------------------------------------
(* Work() *)

\* Mutant: the front is copied out and m_TaskQueue.pop() forgotten.
TakeTaskWithoutPop(w) ==
    /\ pc[w] = "lock" /\ MutexFree
    /\ m_TaskQueue # <<>>
    /\ task' = [task EXCEPT ![w] = Head(m_TaskQueue)]
    /\ Goto(w, "popped")
    /\ UNCHANGED <<m_TaskQueue, m_IsDestory, m_AvailableThreadCount,
                   finished, tooLate, dtor>>

\* The predicate holds because there is a task: it is moved out and popped.
TakeTask(w) ==
    /\ pc[w] = "lock" /\ MutexFree
    /\ m_TaskQueue # <<>>
    /\ task' = [task EXCEPT ![w] = Head(m_TaskQueue)]
    /\ m_TaskQueue' = Tail(m_TaskQueue)
    /\ Goto(w, "popped")
    /\ UNCHANGED <<m_IsDestory, m_AvailableThreadCount,
                   finished, tooLate, dtor>>

\* Mutant: the flag alone ends the thread, whatever is still queued.
LeaveAtOnce(w) ==
    /\ pc[w] = "lock" /\ MutexFree
    /\ m_IsDestory
    /\ Goto(w, "exited")
    /\ UNCHANGED <<m_TaskQueue, m_IsDestory, m_AvailableThreadCount,
                   task, finished, tooLate, dtor>>

\* The predicate holds because of m_IsDestory, and nothing is left to run.
Leave(w) ==
    /\ pc[w] = "lock" /\ MutexFree
    /\ m_TaskQueue = <<>>
    /\ m_IsDestory
    /\ Goto(w, "exited")
    /\ UNCHANGED <<m_TaskQueue, m_IsDestory, m_AvailableThreadCount,
                   task, finished, tooLate, dtor>>

\* The predicate is false; the thread still holds m_Mutex.
TestFails(w) ==
    /\ pc[w] = "lock" /\ MutexFree
    /\ m_TaskQueue = <<>>
    /\ ~m_IsDestory
    /\ Goto(w, "tested")
    /\ UNCHANGED <<m_TaskQueue, m_IsDestory, m_AvailableThreadCount,
                   task, finished, tooLate, dtor>>

\* wait() releases m_Mutex and sleeps in one step.
FallAsleep(w) ==
    /\ pc[w] = "tested"
    /\ Goto(w, "asleep")
    /\ UNCHANGED <<m_TaskQueue, m_IsDestory, m_AvailableThreadCount,
                   task, finished, tooLate, dtor>>

\* A condition variable may wake without a notification.
SpuriousWakeup(w) ==
    /\ pc[w] = "asleep"
    /\ Goto(w, "lock")
    /\ UNCHANGED <<m_TaskQueue, m_IsDestory, m_AvailableThreadCount,
                   task, finished, tooLate, dtor>>

BeginTask(w) ==
    /\ pc[w] = "popped"
    /\ m_AvailableThreadCount' = m_AvailableThreadCount - 1
    /\ Goto(w, "running")
    /\ UNCHANGED <<m_TaskQueue, m_IsDestory, task, finished, tooLate, dtor>>

EndTask(w) ==
    /\ pc[w] = "running"
    /\ finished' = finished \cup {task[w]}
    /\ Goto(w, "ran")
    /\ UNCHANGED <<m_TaskQueue, m_IsDestory, m_AvailableThreadCount,
                   task, tooLate, dtor>>

\* Mutant: m_AvailableThreadCount is not given back.
StayUnavailable(w) ==
    /\ pc[w] = "ran"
    /\ Goto(w, "lock")
    /\ UNCHANGED <<m_TaskQueue, m_IsDestory, m_AvailableThreadCount,
                   task, finished, tooLate, dtor>>

BecomeAvailable(w) ==
    /\ pc[w] = "ran"
    /\ m_AvailableThreadCount' = m_AvailableThreadCount + 1
    /\ Goto(w, "lock")
    /\ UNCHANGED <<m_TaskQueue, m_IsDestory, task, finished, tooLate, dtor>>

-----------------------------------------------------------------------------
(* AddTask() *)

\* Mutant: the task is pushed and nobody is notified.
PushQuietly(t) ==
    /\ MutexFree
    /\ t \notin Submitted
    /\ m_TaskQueue' = Append(m_TaskQueue, t)
    /\ tooLate' = IF AllLeft THEN tooLate \cup {t} ELSE tooLate
    /\ UNCHANGED pc

\* Every closure is a new one: the same call is never added twice.
PushAndNotify(t) ==
    /\ MutexFree
    /\ t \notin Submitted
    /\ m_TaskQueue' = Append(m_TaskQueue, t)
    /\ tooLate' = IF AllLeft THEN tooLate \cup {t} ELSE tooLate
    /\ pc' = Woken

\* Another thread adds a task.  It may do so while the pool is being
\* destroyed: SocketControl's threads give requests to DataHandler until
\* ~DataHandler has returned (MainControl.cpp:65).  After that the pool is no
\* more, and a call is what MainControl calls Dangling.
AddTask(t) ==
    /\ dtor # "joined"
    /\ PushAndNotify(t)
    /\ UNCHANGED <<m_IsDestory, m_AvailableThreadCount, task, finished, dtor>>

\* A running task adds a task (SocketControl's event loop and handlers do),
\* also while the pool is being destroyed.
AddTaskFromTask(w, t) ==
    /\ pc[w] = "running"
    /\ PushAndNotify(t)
    /\ UNCHANGED <<m_IsDestory, m_AvailableThreadCount, task, finished, dtor>>

-----------------------------------------------------------------------------
(* ~ThreadPool() *)

SetDestroyFlag ==
    /\ dtor = "none"
    /\ m_IsDestory' = TRUE
    /\ dtor' = "flagged"
    /\ UNCHANGED <<m_TaskQueue, m_AvailableThreadCount,
                   pc, task, finished, tooLate>>

\* Mutant: notify_one() instead of notify_all().
NotifyOneToLeave ==
    /\ dtor = "flagged"
    /\ pc' = IF \E w \in Workers : pc[w] = "asleep"
             THEN [pc EXCEPT ![CHOOSE w \in Workers : pc[w] = "asleep"]
                                = "lock"]
             ELSE pc
    /\ dtor' = "notified"
    /\ UNCHANGED <<m_TaskQueue, m_IsDestory, m_AvailableThreadCount,
                   task, finished, tooLate>>

NotifyToLeave ==
    /\ dtor = "flagged"
    /\ pc' = Woken
    /\ dtor' = "notified"
    /\ UNCHANGED <<m_TaskQueue, m_IsDestory, m_AvailableThreadCount,
                   task, finished, tooLate>>

JoinAll ==
    /\ dtor = "notified"
    /\ \A w \in Workers : pc[w] = "exited"
    /\ dtor' = "joined"
    /\ UNCHANGED <<m_TaskQueue, m_IsDestory, m_AvailableThreadCount,
                   pc, task, finished, tooLate>>

-----------------------------------------------------------------------------

\* What a thread does by itself, once it is scheduled.
Work(w) ==
    \/ TakeTask(w) \/ Leave(w)
    \/ TestFails(w) \/ FallAsleep(w)
    \/ BeginTask(w) \/ BecomeAvailable(w)

Destroy == NotifyToLeave \/ JoinAll

Next ==
    \/ \E w \in Workers :
          \/ Work(w) \/ EndTask(w) \/ SpuriousWakeup(w)
          \/ \E t \in Tasks : AddTaskFromTask(w, t)
    \/ \E t \in Tasks : AddTask(t)
    \/ SetDestroyFlag \/ Destroy

SafeSpec == Init /\ [][Next]_vars

\* The scheduler runs a thread that stays able to run, and a task returns.
\* Nobody has to add a task, to destroy the pool, or to wake unasked.
Spec ==
    /\ SafeSpec
    /\ \A w \in Workers : WF_vars(Work(w)) /\ WF_vars(EndTask(w))
    /\ WF_vars(Destroy)

-----------------------------------------------------------------------------

TypeOK ==
    /\ m_TaskQueue \in Seq(Tasks)
    /\ m_IsDestory \in BOOLEAN
    /\ m_AvailableThreadCount \in 0..Cardinality(Workers)
    /\ pc \in [Workers -> PcValues]
    /\ task \in [Workers -> Tasks \cup {NoTask}]
    /\ finished \subseteq Tasks
    /\ tooLate \subseteq Tasks
    /\ dtor \in {"none", "flagged", "notified", "joined"}

\* A closure given to AddTask is in one place only, so it is run once: it is
\* in the queue once, or one thread owns it, or it has finished (Work 46-50).
TaskOnce ==
    /\ \A i, j \in DOMAIN m_TaskQueue :
          m_TaskQueue[i] = m_TaskQueue[j] => i = j
    /\ \A w, x \in Workers :
          Busy(w) /\ Busy(x) /\ task[w] = task[x] => w = x
    /\ Queued \cap Held = {}
    /\ (Queued \cup Held) \cap finished = {}

\* Whoever has popped a task still has it when it calls it (47-50).
HoldersHaveTasks ==
    \A w \in Workers : pc[w] \in {"popped", "running", "ran"} => task[w] \in Tasks

\* The last thread to leave Work() leaves an empty queue (38-45), and what
\* comes into the queue afterwards stays there.
ShutdownOrder ==
    /\ m_IsDestory <=> dtor # "none"
    /\ \A w \in Workers : pc[w] = "exited" => m_IsDestory
    /\ IF AllLeft THEN Queued = tooLate ELSE tooLate = {}
    /\ dtor = "joined" => AllLeft

\* When the destructor has joined the threads (18-27), every task has been
\* run that was added while even one thread had not left Work(), by whomever
\* and however late in the shutdown.  A task that another thread adds when the
\* last one has left is never run: nothing in AddTask looks at m_IsDestory.
JoinedMeansDrained ==
    dtor = "joined" => Submitted \ tooLate = finished

\* The number Monitor prints (GetAvailableThreadCount) is, at every moment,
\* the number of threads that are not between lines 49 and 51.
AvailableIsIdle ==
    m_AvailableThreadCount =
        Cardinality({w \in Workers : pc[w] \notin {"running", "ran"}})

\* The pool, threads, lock and wakeups included, is the abstract pool: what
\* was added first is started first, and everything added is run and ends,
\* unless it is added when the last thread has left.
ToRun == IF AllLeft THEN <<>> ELSE m_TaskQueue
Pool == INSTANCE TaskPool WITH
            waiting <- ToRun,
            started <- Held, ended <- finished,
            closed <- AllLeft, stranded <- tooLate
ImplementsTaskPool == Pool!Spec

\* The destructor returns if at some moment between line 20 (m_IsDestory)
\* and line 21 (notify_all) no thread sits between its test of the predicate
\* and its sleep.  A thread that sits there during both lines misses the
\* notification, because line 20 does not take m_Mutex.
DestructorReturns == (dtor = "flagged" /\ MutexFree) ~> (dtor = "joined")

=============================================================================
