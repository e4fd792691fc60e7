---------------------------- MODULE MainControl -----------------------------
(***************************************************************************)
(* The server as a whole: MainControl makes a SocketControl and a          *)
(* DataHandler, wires them by callbacks, watches both from the monitor     *)
(* thread and, when main() returns, deletes DataHandler before             *)
(* SocketControl although the threads of either call the other one.        *)
(*                                                                         *)
(* The two thread pools are those of ThreadPool: a thread takes the oldest *)
(* task, leaves when the pool is being destroyed and its queue is empty,   *)
(* and else sleeps, in two steps, because the flag of the pool is set      *)
(* without its mutex and a thread may miss the notification that follows.  *)
(* What the connections do is left to SocketControl; here an event is a    *)
(* request that has arrived.                                               *)
(*                                                                         *)
(* A step that uses what has been deleted is undefined.  It is not taken,  *)
(* and Dangling says that a thread has come that far.                      *)
(***************************************************************************)
EXTENDS Integers, Sequences, FiniteSets, SequencesExt

CONSTANTS
    DataThreads,    \* of DataHandler's pool
    SocketThreads,  \* of SocketControl's pool
    Junk,           \* what the memory of a counter holds before it is set
    MaxRequests     \* bound: requests that arrive

ASSUME ThreadsAssumption ==
    /\ IsFiniteSet(DataThreads) /\ DataThreads # {}
    /\ IsFiniteSet(SocketThreads) /\ SocketThreads # {}
ASSUME BoundAssumption == MaxRequests \in Nat /\ Junk \in Nat

VARIABLES
    main,           \* where main() and ~MainControl are
    monitor,        \* where MonitorWork is
    arrived,        \* requests that clients have sent, numbered
    requests,       \* the queue of DataHandler's pool
    dataAt, request,    \* place and request of each of its threads
    handled,        \* requests whose task has returned
    tasks,          \* the queue of SocketControl's pool
    socketAt, carried,  \* place of each of its threads, request it has read
    m_RecvPackageCount, \* requests counted since the last clear
    cleared,        \* has the counter been set to 0?
    printed         \* sum of what the monitor has read from then on

mainVars == <<main, monitor>>
dataVars == <<requests, dataAt, request, handled>>
socketVars == <<tasks, socketAt, carried, arrived>>
countVars == <<m_RecvPackageCount, cleared, printed>>
vars == <<mainVars, dataVars, socketVars, countVars>>

-----------------------------------------------------------------------------
\* main() goes through these places in this order.
Place == [serves |-> 0, joinsMonitor |-> 1, notifiesHandler |-> 2,
          joinsHandler |-> 3, deletesClients |-> 4, deletesEPoll |-> 5,
          endsSockets |-> 6, notifiesSockets |-> 7, joinsSockets |-> 8,
          gone |-> 9]
Before(place) == Place[main] < Place[place]

\* m_IsDestory of MainControl, of SocketControl and of the two pools.
m_IsDestory == ~Before("joinsMonitor")
SocketControlEnds == ~Before("deletesClients")
DataPoolEnds == ~Before("notifiesHandler")
SocketPoolEnds == ~Before("notifiesSockets")

\* What has not been deleted, and a SocketControl whose destructor has not
\* begun.
HandlerAlive == Before("deletesClients")
SocketControlWhole == Before("deletesClients")
ClientsAlive == Before("deletesEPoll")
EPollAlive == Before("endsSockets")

\* A thread that is about to sleep holds the mutex of its pool.
Waiting == {"tested", "asleep"}
DataMutexFree == \A d \in DataThreads : dataAt[d] # "tested"
SocketMutexFree == \A s \in SocketThreads : socketAt[s] # "tested"

\* notify_all() of a pool whose threads are at these places.
Woken(at) == [t \in DOMAIN at |-> IF at[t] = "asleep" THEN "idle" ELSE at[t]]

Init ==
    /\ main = "serves"
    /\ monitor = "looks"
    /\ arrived = 0
    /\ requests = <<>>
    /\ dataAt = [d \in DataThreads |-> "idle"]
    /\ request = [d \in DataThreads |-> 0]
    /\ handled = {}
    /\ tasks \in {<<"epoll">>, <<>>}     \* none when SocketControl::Init has failed
    /\ socketAt = [s \in SocketThreads |-> "idle"]
    /\ carried = [s \in SocketThreads |-> 0]
    /\ m_RecvPackageCount \in {0, Junk}
    /\ cleared = FALSE
    /\ printed = 0

-----------------------------------------------------------------------------
(* SocketControl's threads *)

SocketThreadGoes(s, from, to) ==
    /\ socketAt[s] = from
    /\ socketAt' = [socketAt EXCEPT ![s] = to]
    /\ UNCHANGED <<mainVars, dataVars, tasks, carried, arrived, countVars>>

TakeTask(s) ==
    /\ socketAt[s] = "idle" /\ SocketMutexFree
    /\ tasks # <<>>
    /\ socketAt' = [socketAt EXCEPT ![s] = Head(tasks)]
    /\ tasks' = Tail(tasks)
    /\ UNCHANGED <<mainVars, dataVars, carried, arrived, countVars>>

SocketThreadLeaves(s) ==
    /\ SocketMutexFree
    /\ tasks = <<>> /\ SocketPoolEnds
    /\ SocketThreadGoes(s, "idle", "left")

SocketThreadTests(s) ==
    /\ SocketMutexFree
    /\ tasks = <<>> /\ ~SocketPoolEnds
    /\ SocketThreadGoes(s, "idle", "tested")

SocketThreadSleeps(s) == SocketThreadGoes(s, "tested", "asleep")

\* Unasked, as a condition variable may.
SocketThreadWakes(s) == SocketThreadGoes(s, "asleep", "idle")

\* AddTask of SocketControl's pool.
AddSocketTask(task) ==
    /\ SocketMutexFree
    /\ tasks' = Append(tasks, task)
    /\ socketAt' = Woken(socketAt)

\* The head of the loop in EpollWork.
EpollWork(s) ==
    SocketThreadGoes(s, "epoll", IF SocketControlEnds THEN "idle" ELSE "waits")

\* epoll_wait returns after CONFIG_EPOLL_TIMEOUT...
EpollTimesOut(s) ==
    /\ EPollAlive
    /\ SocketThreadGoes(s, "waits", "epoll")

\* ... or with a request, for which it adds a task to the pool it runs in.
EpollReturns(s) ==
    /\ socketAt[s] = "waits" /\ ClientsAlive
    /\ SocketMutexFree
    /\ arrived < MaxRequests
    /\ arrived' = arrived + 1
    /\ tasks' = Append(tasks, "read")
    /\ socketAt' = [Woken(socketAt) EXCEPT ![s] = "epoll"]
    /\ UNCHANGED <<mainVars, dataVars, carried, countVars>>

\* Recv() on the ClientSocket; which of the requests that have arrived it
\* finds depends on the connection.
Recv(s) ==
    /\ socketAt[s] = "read" /\ ClientsAlive
    /\ \E r \in 1..arrived :
          /\ r \notin handled \cup Range(requests)
                        \cup Range(carried) \cup Range(request)
          /\ carried' = [carried EXCEPT ![s] = r]
    /\ socketAt' = [socketAt EXCEPT ![s] = "delivers"]
    /\ UNCHANGED <<mainVars, dataVars, tasks, arrived, countVars>>

\* m_ReadPackageCallback is DataHandler::AddData: AddTask of its pool.
AddData(s) ==
    /\ socketAt[s] = "delivers" /\ HandlerAlive
    /\ DataMutexFree
    /\ requests' = Append(requests, carried[s])
    /\ dataAt' = Woken(dataAt)
    /\ carried' = [carried EXCEPT ![s] = 0]
    /\ socketAt' = [socketAt EXCEPT ![s] = "counts"]
    /\ UNCHANGED <<mainVars, request, handled, tasks, arrived, countVars>>

Count(s) ==
    /\ socketAt[s] = "counts"
    /\ m_RecvPackageCount' = m_RecvPackageCount + 1
    /\ socketAt' = [socketAt EXCEPT ![s] = "idle"]
    /\ UNCHANGED <<mainVars, dataVars, tasks, carried, arrived, cleared, printed>>

\* The task of SendPackage looks its connection up; it finds none when all
\* of them have been deleted.
Write(s) == SocketThreadGoes(s, "write", "idle")

-----------------------------------------------------------------------------
(* DataHandler's threads *)

DataThreadGoes(d, from, to) ==
    /\ dataAt[d] = from
    /\ dataAt' = [dataAt EXCEPT ![d] = to]
    /\ UNCHANGED <<mainVars, requests, request, handled, socketVars, countVars>>

ThreadWork(d) ==
    /\ dataAt[d] = "idle" /\ DataMutexFree
    /\ requests # <<>>
    /\ request' = [request EXCEPT ![d] = Head(requests)]
    /\ requests' = Tail(requests)
    /\ dataAt' = [dataAt EXCEPT ![d] = "answers"]
    /\ UNCHANGED <<mainVars, handled, socketVars, countVars>>

\* Mutant: the thread leaves when it is told to, whatever is in the queue.
DataThreadLeavesAtOnce(d) ==
    /\ DataMutexFree
    /\ DataPoolEnds
    /\ DataThreadGoes(d, "idle", "left")

DataThreadLeaves(d) ==
    /\ DataMutexFree
    /\ requests = <<>> /\ DataPoolEnds
    /\ DataThreadGoes(d, "idle", "left")

DataThreadTests(d) ==
    /\ DataMutexFree
    /\ requests = <<>> /\ ~DataPoolEnds
    /\ DataThreadGoes(d, "idle", "tested")

DataThreadSleeps(d) == DataThreadGoes(d, "tested", "asleep")

DataThreadWakes(d) == DataThreadGoes(d, "asleep", "idle")

\* m_SendPackageCallback is SocketControl::SendPackage: a task, or none when
\* the connection has gone (or the request has no answer).
SendPackage(d) ==
    /\ dataAt[d] = "answers"
    /\ AddSocketTask("write") \/ UNCHANGED <<tasks, socketAt>>
    /\ handled' = handled \cup {request[d]}
    /\ request' = [request EXCEPT ![d] = 0]
    /\ dataAt' = [dataAt EXCEPT ![d] = "idle"]
    /\ UNCHANGED <<mainVars, requests, carried, arrived, countVars>>

-----------------------------------------------------------------------------
(* MonitorWork *)

MonitorLoops ==
    /\ monitor = "looks"
    /\ monitor' = IF m_IsDestory THEN "left" ELSE "readsHandler"
    /\ UNCHANGED <<main, dataVars, socketVars, countVars>>

ReadHandler ==
    /\ monitor = "readsHandler"
    /\ monitor' = "readsSockets"
    /\ UNCHANGED <<main, dataVars, socketVars, countVars>>

ReadSockets ==
    /\ monitor = "readsSockets"
    /\ monitor' = "clears"
    /\ printed' = IF cleared THEN printed + m_RecvPackageCount ELSE printed
    /\ UNCHANGED <<main, dataVars, socketVars, m_RecvPackageCount, cleared>>

\* Mutant: the counter is set to 0 the first time only.
ClearOnce ==
    /\ monitor = "clears"
    /\ monitor' = "looks"
    /\ m_RecvPackageCount' = IF cleared THEN m_RecvPackageCount ELSE 0
    /\ cleared' = TRUE
    /\ UNCHANGED <<main, dataVars, socketVars, printed>>

\* ClearSendRecvCount, the first time ever that the counter is given a value;
\* then the line is printed and the thread sleeps.
Clear ==
    /\ monitor = "clears"
    /\ monitor' = "looks"
    /\ m_RecvPackageCount' = 0
    /\ cleared' = TRUE
    /\ UNCHANGED <<main, dataVars, socketVars, printed>>

MonitorWork == MonitorLoops \/ ReadHandler \/ ReadSockets \/ Clear

-----------------------------------------------------------------------------
(* main() and ~MainControl *)

Goes(from, to) ==
    /\ main = from /\ main' = to
    /\ UNCHANGED <<monitor, requests, request, handled, tasks, carried, arrived,
                   countVars>>

ThreadsStay == UNCHANGED <<dataAt, socketAt>>

\* main() returns after a key.
Quit == Goes("serves", "joinsMonitor") /\ ThreadsStay

\* ... and ~DataHandler tells its pool to end, without the pool's mutex.
JoinMonitor ==
    /\ monitor = "left"
    /\ Goes("joinsMonitor", "notifiesHandler") /\ ThreadsStay

\* Mutant: the destructor notifies nobody.
NotifyNobody == Goes("notifiesHandler", "joinsHandler") /\ ThreadsStay

NotifyHandler ==
    /\ Goes("notifiesHandler", "joinsHandler")
    /\ dataAt' = Woken(dataAt)
    /\ UNCHANGED socketAt

\* Mutant: DataHandler goes, its threads stay.
JoinHandlerNot == Goes("joinsHandler", "deletesClients") /\ ThreadsStay

\* DataHandler is gone, and ~SocketControl sets m_IsDestory.
JoinHandler ==
    /\ \A d \in DataThreads : dataAt[d] = "left"
    /\ Goes("joinsHandler", "deletesClients") /\ ThreadsStay

\* Every ClientSocket, under m_ClientFdMutex.
DeleteClients == Goes("deletesClients", "deletesEPoll") /\ ThreadsStay

DeleteEPoll == Goes("deletesEPoll", "endsSockets") /\ ThreadsStay

\* ServerSocket is deleted, and the pool is told to end.
EndSockets == Goes("endsSockets", "notifiesSockets") /\ ThreadsStay

NotifySockets ==
    /\ Goes("notifiesSockets", "joinsSockets")
    /\ socketAt' = Woken(socketAt)
    /\ UNCHANGED dataAt

JoinSockets ==
    /\ \A s \in SocketThreads : socketAt[s] = "left"
    /\ Goes("joinsSockets", "gone") /\ ThreadsStay

-----------------------------------------------------------------------------
SocketThread(s) ==
    \/ TakeTask(s) \/ SocketThreadLeaves(s)
    \/ SocketThreadTests(s) \/ SocketThreadSleeps(s)
    \/ EpollWork(s) \/ EpollTimesOut(s) \/ EpollReturns(s)
    \/ Recv(s) \/ AddData(s) \/ Count(s) \/ Write(s)

DataThread(d) ==
    \/ ThreadWork(d) \/ SendPackage(d) \/ DataThreadLeaves(d)
    \/ DataThreadTests(d) \/ DataThreadSleeps(d)

Destroy ==
    \/ JoinMonitor \/ NotifyHandler \/ JoinHandler
    \/ DeleteClients \/ DeleteEPoll \/ EndSockets
    \/ NotifySockets \/ JoinSockets

Next ==
    \/ \E s \in SocketThreads : SocketThread(s) \/ SocketThreadWakes(s)
    \/ \E d \in DataThreads : DataThread(d) \/ DataThreadWakes(d)
    \/ MonitorWork
    \/ Quit \/ Destroy

\* Threads that can run do run, and epoll_wait returns after its timeout.
\* Nobody has to send a request, to wake unasked or to end the server.
Spec ==
    /\ Init /\ [][Next]_vars
    /\ \A s \in SocketThreads : WF_vars(SocketThread(s))
    /\ \A d \in DataThreads : WF_vars(DataThread(d))
    /\ WF_vars(MonitorWork)
    /\ WF_vars(Destroy)

-----------------------------------------------------------------------------
TypeOK ==
    /\ main \in DOMAIN Place
    /\ monitor \in {"looks", "readsHandler", "readsSockets", "clears", "left"}
    /\ arrived \in 0..MaxRequests
    /\ requests \in Seq(1..arrived)
    /\ dataAt \in [DataThreads -> {"idle", "answers", "left"} \cup Waiting]
    /\ request \in [DataThreads -> 0..arrived]
    /\ handled \subseteq 1..arrived
    /\ tasks \in Seq({"epoll", "read", "write"})
    /\ socketAt \in [SocketThreads -> {"idle", "epoll", "waits", "read",
                                       "delivers", "counts", "write", "left"}
                                          \cup Waiting]
    /\ carried \in [SocketThreads -> 0..arrived]
    /\ cleared \in BOOLEAN
    /\ m_RecvPackageCount \in IF cleared THEN 0..arrived ELSE Nat
    /\ printed \in 0..arrived

\* A thread's next step would use what has been deleted.
Dangling ==
    \E s \in SocketThreads :
        \/ socketAt[s] = "waits" /\ ~EPollAlive
        \/ socketAt[s] = "read" /\ ~ClientsAlive
        \/ socketAt[s] = "delivers" /\ ~HandlerAlive

\* The order of ~MainControl (56-70) is safe on one side: whatever the
\* monitor reads is there, and an answer is never given to a SocketControl
\* whose destructor has begun.
CalleesAlive ==
    /\ monitor = "readsHandler" => HandlerAlive
    /\ monitor \in {"readsSockets", "clears"} => SocketControlWhole
    /\ \A d \in DataThreads : dataAt[d] = "answers" => SocketControlWhole

\* A request that DataHandler is given while one of its threads has not left
\* is handled, also when the server is told to end right then, and even if
\* that thread has missed the notification that the pool ends.
RequestsHandled ==
    \A r \in 1..MaxRequests :
        (r \in Range(requests) /\ \E d \in DataThreads : dataAt[d] # "left")
            ~> r \in handled

\* A pool has notified its threads for the last time, and one of them is still
\* about to sleep: it tested the predicate before the flag was set and was not
\* asleep when the notification came (ThreadPool.cpp:20-21 without m_Mutex, 37).
NotificationMissed ==
    \/ main = "joinsHandler" /\ ~DataMutexFree
    \/ main = "joinsSockets" /\ ~SocketMutexFree

\* ~MainControl returns, whatever is under way, unless a thread of one of the
\* pools misses the notification, for which the join then waits, or a thread
\* of SocketControl comes to use what has been deleted.
ShutdownEnds ==
    (main = "joinsMonitor") ~> (main = "gone" \/ NotificationMissed \/ Dangling)

=============================================================================
