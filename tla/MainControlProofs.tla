------------------------- MODULE MainControlProofs --------------------------
(***************************************************************************)
(* The safe side of ~MainControl, for any number of threads and requests:  *)
(* the monitor and the threads of DataHandler never use what has been      *)
(* deleted; and the monitor prints no more requests than have arrived.     *)
(***************************************************************************)
EXTENDS MainControl, FiniteSetTheorems, SequenceTheorems, TLAPS

\* The order in which the threads end: the monitor before main() goes on to
\* DataHandler, DataHandler's threads before it goes on to SocketControl.
\* CalleesAlive is not inductive without it: what keeps a thread from taking
\* up work while its callee goes is that it has left.
WithHandler == {"serves", "joinsMonitor", "notifiesHandler", "joinsHandler"}

ThreadsLeaveFirst ==
    /\ main \notin {"serves", "joinsMonitor"} => monitor = "left"
    /\ main \notin WithHandler => \A d \in DataThreads : dataAt[d] = "left"

DataPlaces == {"idle", "answers", "left"} \cup Waiting
SocketPlaces == {"idle", "epoll", "waits", "read", "delivers", "counts", "write",
                 "left"} \cup Waiting

Inv ==
    /\ main \in DOMAIN Place
    /\ monitor \in {"looks", "readsHandler", "readsSockets", "clears", "left"}
    /\ dataAt \in [DataThreads -> DataPlaces]
    /\ ThreadsLeaveFirst

\* What Before says of the place of main().
LEMMA PlaceOrder ==
    ASSUME main \in WithHandler
    PROVE  Before("deletesClients")
  BY DEF WithHandler, Before, Place

\* A notification moves nobody but those that sleep.
LEMMA WakeData ==
    ASSUME dataAt \in [DataThreads -> DataPlaces]
    PROVE  /\ Woken(dataAt) \in [DataThreads -> DataPlaces]
           /\ \A d \in DataThreads :
                 /\ Woken(dataAt)[d] = "left" <=> dataAt[d] = "left"
                 /\ Woken(dataAt)[d] = "answers" <=> dataAt[d] = "answers"
  BY DEF Woken, DataPlaces

LEMMA WakeSockets ==
    ASSUME socketAt \in [SocketThreads -> SocketPlaces]
    PROVE  /\ Woken(socketAt) \in [SocketThreads -> SocketPlaces]
           /\ \A t \in SocketThreads : \A p \in {"delivers", "counts"} :
                 Woken(socketAt)[t] = p <=> socketAt[t] = p
  BY DEF Woken, SocketPlaces

LEMMA InitInv == Init => Inv
  BY DEF Init, Inv, ThreadsLeaveFirst, WithHandler, DataPlaces, Place

LEMMA NextInv == Inv /\ [Next]_vars => Inv'
<1> SUFFICES ASSUME Inv, [Next]_vars PROVE Inv'
  OBVIOUS
<1> USE DEF Inv, ThreadsLeaveFirst
<1>1. /\ Woken(dataAt) \in [DataThreads -> DataPlaces]
      /\ \A d \in DataThreads : dataAt[d] = "left" => Woken(dataAt)[d] = "left"
  BY WakeData
\* A thread of SocketControl changes neither main() nor the monitor, and the
\* places of DataHandler's threads only by waking them.
<1>2. ASSUME NEW s \in SocketThreads, SocketThread(s) \/ SocketThreadWakes(s)
      PROVE Inv'
  <2>1. UNCHANGED <<main, monitor>> /\ dataAt' \in {dataAt, Woken(dataAt)}
    BY <1>2 DEF SocketThread, TakeTask, SocketThreadLeaves, SocketThreadTests,
                SocketThreadSleeps, SocketThreadWakes, SocketThreadGoes,
                EpollWork, EpollTimesOut, EpollReturns, Recv, AddData, Count,
                Write, mainVars, dataVars
  <2>2. QED
    BY <1>1, <2>1
<1>3. ASSUME NEW d \in DataThreads, DataThread(d) \/ DataThreadWakes(d)
      PROVE Inv'
  <2>1. CASE ThreadWork(d)
    BY <2>1 DEF ThreadWork, mainVars, DataPlaces
  <2>2. CASE SendPackage(d)
    BY <2>2 DEF SendPackage, mainVars, DataPlaces
  <2>3. CASE \/ DataThreadLeaves(d) \/ DataThreadTests(d)
             \/ DataThreadSleeps(d) \/ DataThreadWakes(d)
    <3>1. PICK q \in DataPlaces : dataAt' = [dataAt EXCEPT ![d] = q]
      BY <2>3 DEF DataThreadLeaves, DataThreadTests, DataThreadSleeps,
                  DataThreadWakes, DataThreadGoes, DataPlaces, Waiting
    <3>2. dataAt[d] # "left" /\ UNCHANGED <<main, monitor>>
      BY <2>3 DEF DataThreadLeaves, DataThreadTests, DataThreadSleeps,
                  DataThreadWakes, DataThreadGoes, mainVars
    <3>3. QED
      BY <3>1, <3>2
  <2>4. QED
    BY <1>3, <2>1, <2>2, <2>3 DEF DataThread
<1>4. CASE MonitorWork
  BY <1>4 DEF MonitorWork, MonitorLoops, ReadHandler, ReadSockets, Clear,
              m_IsDestory, Before, Place, dataVars
<1>5. CASE Quit \/ Destroy
  <2>1. monitor' = monitor /\ main' \in DOMAIN Place
    BY <1>5 DEF Quit, Destroy, JoinMonitor, NotifyHandler, JoinHandler,
                DeleteClients, DeleteEPoll, EndSockets, NotifySockets,
                JoinSockets, Goes, Place
  <2>2. dataAt' \in {dataAt, Woken(dataAt)}
    BY <1>5 DEF Quit, Destroy, JoinMonitor, NotifyHandler, JoinHandler,
                DeleteClients, DeleteEPoll, EndSockets, NotifySockets,
                JoinSockets, ThreadsStay
  <2>3. main' \notin {"serves", "joinsMonitor"} => monitor = "left"
    BY <1>5 DEF Quit, Destroy, JoinMonitor, NotifyHandler, JoinHandler,
                DeleteClients, DeleteEPoll, EndSockets, NotifySockets,
                JoinSockets, Goes
  <2>4. main' \notin WithHandler => \A d \in DataThreads : dataAt[d] = "left"
    BY <1>5 DEF Quit, Destroy, JoinMonitor, NotifyHandler, JoinHandler,
                DeleteClients, DeleteEPoll, EndSockets, NotifySockets,
                JoinSockets, Goes, WithHandler
  <2>5. QED
    BY <1>1, <2>1, <2>2, <2>3, <2>4
<1>6. CASE UNCHANGED vars
  BY <1>6 DEF vars, mainVars, dataVars
<1>7. QED
  BY <1>2, <1>3, <1>4, <1>5, <1>6 DEF Next

\* The invariant gives the property: whoever is about to call has not left,
\* so main() has not come to the deletion.
LEMMA InvCallees == Inv => CalleesAlive
<1> SUFFICES ASSUME Inv PROVE CalleesAlive
  OBVIOUS
<1>1. ASSUME main \in WithHandler PROVE HandlerAlive /\ SocketControlWhole
  BY <1>1, PlaceOrder DEF HandlerAlive, SocketControlWhole
<1>2. monitor # "left" => main \in WithHandler
  BY DEF Inv, ThreadsLeaveFirst, WithHandler
<1>3. ASSUME NEW d \in DataThreads, dataAt[d] = "answers"
      PROVE  main \in WithHandler
  BY <1>3 DEF Inv, ThreadsLeaveFirst
<1>4. QED
  BY <1>1, <1>2, <1>3 DEF CalleesAlive

-----------------------------------------------------------------------------
\* However many threads the pools have and whatever is under way when main()
\* returns, the monitor reads objects that are there, and a thread of
\* DataHandler gives its answer to a SocketControl that is there
\* (MainControl.cpp 56-70).
THEOREM CallsAreSafe == Spec => []CalleesAlive
<1>1. Spec => Init /\ [][Next]_vars
  BY PTL DEF Spec
<1>2. QED
  BY <1>1, InitInv, NextInv, InvCallees, PTL

-----------------------------------------------------------------------------
(* What the monitor prints *)

\* Requests that have been handed to DataHandler, and the threads that have
\* handed one over and not counted it yet.
Delivered == handled \cup Range(requests) \cup (Range(request) \ {0})
Counting == {s \in SocketThreads : socketAt[s] = "counts"}

\* TypeOK with numbers not bounded.
Types ==
    /\ arrived \in 0..MaxRequests
    /\ requests \in Seq(1..arrived)
    /\ request \in [DataThreads -> 0..arrived]
    /\ handled \subseteq 1..arrived
    /\ tasks \in Seq({"epoll", "read", "write"})
    /\ socketAt \in [SocketThreads -> SocketPlaces]
    /\ carried \in [SocketThreads -> 0..arrived]
    /\ cleared \in BOOLEAN
    /\ m_RecvPackageCount \in Nat
    /\ printed \in Nat

\* A request that a thread carries is nobody else's and has not been handed
\* over, so handing it over makes one more.
Carries ==
    /\ \A s \in SocketThreads : socketAt[s] = "delivers" <=> carried[s] # 0
    /\ \A s \in SocketThreads : carried[s] # 0 => carried[s] \notin Delivered
    /\ \A s, t \in SocketThreads : carried[s] # 0 /\ carried[s] = carried[t] => s = t
    /\ \A d \in DataThreads : dataAt[d] = "answers" <=> request[d] # 0

\* Between reading the counter and clearing it, what has been printed is in
\* the counter as well; at every other time the two together are what has
\* been counted and not been lost.
Counts ==
    /\ printed + Cardinality(Counting) <= Cardinality(Delivered)
    /\ cleared => m_RecvPackageCount + Cardinality(Counting) <= Cardinality(Delivered)
    /\ cleared /\ monitor # "clears" =>
          printed + m_RecvPackageCount + Cardinality(Counting) <= Cardinality(Delivered)
    /\ ~cleared => printed = 0

CountInv == Inv /\ Types /\ Carries /\ Counts

\* No more is handed over than has arrived.
LEMMA Numbers ==
    ASSUME Types
    PROVE  /\ Delivered \subseteq 1..arrived /\ IsFiniteSet(Delivered)
           /\ Cardinality(Delivered) \in Nat /\ Cardinality(Delivered) <= arrived
           /\ IsFiniteSet(Counting) /\ Cardinality(Counting) \in Nat
<1>1. arrived \in Nat
  BY BoundAssumption DEF Types
<1>2. Delivered \subseteq 1..arrived
  <2>1. \A i \in DOMAIN requests : requests[i] \in 1..arrived
    BY DEF Types
  <2>2. Range(requests) \subseteq 1..arrived
    BY <2>1 DEF Range
  <2>3. Range(request) \ {0} \subseteq 1..arrived
    BY <1>1 DEF Types, Range
  <2>4. handled \subseteq 1..arrived
    BY DEF Types
  <2>5. QED
    BY <2>2, <2>3, <2>4 DEF Delivered
<1>3. IsFiniteSet(1..arrived) /\ Cardinality(1..arrived) = arrived
  BY <1>1, FS_Interval
<1>4. IsFiniteSet(Delivered) /\ Cardinality(Delivered) <= arrived
  BY <1>2, <1>3, FS_Subset
<1>5. IsFiniteSet(Counting)
  BY ThreadsAssumption, FS_Subset DEF Counting
<1>6. QED
  BY <1>2, <1>4, <1>5, FS_CardinalityType

\* The invariant gives the types with their bounds.
LEMMA InvTypes == CountInv => TypeOK
<1> SUFFICES ASSUME CountInv PROVE TypeOK
  OBVIOUS
<1>2. arrived \in Nat
  BY BoundAssumption DEF CountInv, Types
<1>3. printed \in 0..arrived
  BY <1>2, Numbers DEF CountInv, Counts, Types
<1>4. cleared => m_RecvPackageCount \in 0..arrived
  BY <1>2, Numbers DEF CountInv, Counts, Types
<1>5. QED
  BY <1>3, <1>4 DEF TypeOK, CountInv, Inv, Types, DataPlaces, SocketPlaces

LEMMA InitCounts == Init => Types /\ Carries /\ Counts
<1> SUFFICES ASSUME Init PROVE Types /\ Carries /\ Counts
  OBVIOUS
<1>1. Types
  <2>1. <<>> \in Seq(1..0) /\ <<>> \in Seq({"epoll", "read", "write"})
        /\ <<"epoll">> \in Seq({"epoll", "read", "write"})
    OBVIOUS
  <2>2. 0 \in 0..0 /\ 0 \in 0..MaxRequests
    BY BoundAssumption
  <2>3. requests \in Seq(1..arrived) /\ tasks \in Seq({"epoll", "read", "write"})
    BY <2>1 DEF Init
  <2>4. m_RecvPackageCount \in Nat
    BY BoundAssumption DEF Init
  <2>5. QED
    BY <2>2, <2>3, <2>4 DEF Init, Types, SocketPlaces
<1>2. Carries
  BY DEF Init, Carries
<1>3. Counting = {} /\ Cardinality(Counting) = 0
  BY FS_EmptySet DEF Init, Counting
<1>4. Counts
  BY <1>1, <1>3, Numbers DEF Init, Counts
<1>5. QED
  BY <1>1, <1>2, <1>4

\* Steps that hand nothing over and count nothing.
LEMMA NothingCounted ==
    ASSUME Carries, Counts, Delivered' = Delivered, UNCHANGED countVars,
           Counting' = Counting,
           monitor' = "clears" <=> monitor = "clears"
    PROVE  Counts'
  BY DEF Counts, countVars


\* A queue has what it had and what is appended; what it has is its head and
\* the rest.
LEMMA Ranges ==
    ASSUME NEW S, NEW q \in Seq(S)
    PROVE  /\ \A e \in S : Range(Append(q, e)) = Range(q) \cup {e}
           /\ q # <<>> => Range(q) = {Head(q)} \cup Range(Tail(q))
<1>1. ASSUME NEW e \in S PROVE Range(Append(q, e)) = Range(q) \cup {e}
  <2> DEFINE r == Append(q, e)
  <2>1. /\ Len(q) \in Nat /\ DOMAIN q = 1..Len(q) /\ DOMAIN r = 1..(Len(q) + 1)
        /\ \A i \in 1..Len(q) : r[i] = q[i]
        /\ r[Len(q) + 1] = e
    OBVIOUS
  <2>2. \A i \in DOMAIN r : r[i] \in Range(q) \cup {e}
    BY <2>1 DEF Range
  <2>3. \A i \in DOMAIN q : i \in DOMAIN r /\ r[i] = q[i]
    BY <2>1
  <2>4. Len(q) + 1 \in DOMAIN r
    BY <2>1
  <2>5. QED
    BY <2>1, <2>2, <2>3, <2>4 DEF Range
<1>2. ASSUME q # <<>> PROVE Range(q) = {Head(q)} \cup Range(Tail(q))
  <2> DEFINE r == Tail(q)
  <2>1. /\ Len(q) \in Nat \ {0} /\ DOMAIN q = 1..Len(q) /\ Head(q) = q[1]
        /\ DOMAIN r = 1..(Len(q) - 1)
        /\ \A i \in 1..(Len(q) - 1) : r[i] = q[i + 1]
    BY <1>2
  <2>2. \A i \in DOMAIN r : i + 1 \in DOMAIN q /\ r[i] = q[i + 1]
    BY <2>1
  <2>3. \A i \in DOMAIN q : i = 1 \/ (i - 1 \in DOMAIN r /\ r[i - 1] = q[i])
    BY <2>1
  <2>4. 1 \in DOMAIN q
    BY <2>1
  <2>5. QED
    BY <2>1, <2>2, <2>3, <2>4 DEF Range
<1>3. QED
  BY <1>1, <1>2

\* A sequence over a set is one over a larger set.
LEMMA WiderSeq ==
    ASSUME NEW S, NEW T, S \subseteq T, NEW q \in Seq(S)
    PROVE  q \in Seq(T)
<1>1. Len(q) \in Nat /\ q \in [1..Len(q) -> S]
  OBVIOUS
<1>2. q \in [1..Len(q) -> T]
  BY <1>1
<1>3. QED
  BY <1>1, <1>2

\* A thread of SocketControl that takes a task, sleeps, ends, waits or writes.
LEMMA QuietSocketStep ==
    ASSUME CountInv, NEW s \in SocketThreads,
           \/ TakeTask(s) \/ SocketThreadLeaves(s) \/ SocketThreadTests(s)
           \/ SocketThreadSleeps(s) \/ SocketThreadWakes(s) \/ EpollWork(s)
           \/ EpollTimesOut(s) \/ EpollReturns(s) \/ Write(s)
    PROVE  Types' /\ Carries' /\ Counts'
<1> DEFINE Quiet == SocketPlaces \ {"delivers", "counts"}
<1>a. /\ Woken(socketAt) \in [SocketThreads -> SocketPlaces]
      /\ \A t \in SocketThreads : \A p \in {"delivers", "counts"} :
            Woken(socketAt)[t] = p <=> socketAt[t] = p
  BY WakeSockets DEF CountInv, Types
<1>1. /\ UNCHANGED <<main, monitor, requests, dataAt, request, handled, carried, countVars>>
      /\ socketAt[s] \notin {"delivers", "counts"}
      /\ \E p \in Quiet :
            socketAt' \in {[socketAt EXCEPT ![s] = p], [Woken(socketAt) EXCEPT ![s] = p]}
  <2>1. CASE TakeTask(s)
    <3>1. tasks # <<>> /\ tasks \in Seq({"epoll", "read", "write"})
      BY <2>1 DEF TakeTask, CountInv, Types
    <3>2. Head(tasks) \in {"epoll", "read", "write"}
      BY <3>1
    <3>3. Head(tasks) \in Quiet
      BY <3>2 DEF SocketPlaces
    <3>4. QED
      BY <2>1, <3>3 DEF TakeTask, mainVars, dataVars
  <2>2. CASE EpollReturns(s)
    <3>1. "epoll" \in Quiet
      BY DEF SocketPlaces
    <3>2. QED
      BY <2>2, <3>1 DEF EpollReturns, mainVars, dataVars
  <2>3. CASE ~TakeTask(s) /\ ~EpollReturns(s)
    <3>1. {"idle", "epoll", "waits", "tested", "asleep", "left"} \subseteq Quiet
      BY DEF SocketPlaces, Waiting
    <3>2. PICK from \in {"idle", "tested", "asleep", "epoll", "waits", "write"},
               to \in {"idle", "epoll", "waits", "tested", "asleep", "left"} :
                 SocketThreadGoes(s, from, to)
      BY <2>3 DEF SocketThreadLeaves, SocketThreadTests, SocketThreadSleeps,
                  SocketThreadWakes, EpollWork, EpollTimesOut, Write
    <3>3. QED
      BY <3>1, <3>2 DEF SocketThreadGoes, mainVars, dataVars
  <2>4. QED
    BY <2>1, <2>2, <2>3
<1>b. /\ socketAt' \in [SocketThreads -> SocketPlaces]
      /\ \A t \in SocketThreads : \A p \in {"delivers", "counts"} :
            socketAt'[t] = p <=> socketAt[t] = p
  <2>1. PICK p \in Quiet :
            socketAt' \in {[socketAt EXCEPT ![s] = p], [Woken(socketAt) EXCEPT ![s] = p]}
    BY <1>1
  <2>2. socketAt \in [SocketThreads -> SocketPlaces]
    BY DEF CountInv, Types
  <2>3. QED
    BY <1>1, <1>a, <2>1, <2>2
<1>2. /\ arrived \in Nat /\ arrived' \in Nat /\ arrived' \in 0..MaxRequests
      /\ arrived <= arrived'
  BY BoundAssumption DEF CountInv, Types, TakeTask, SocketThreadLeaves,
         SocketThreadTests, SocketThreadSleeps, SocketThreadWakes, EpollWork,
         EpollTimesOut, EpollReturns, Write, SocketThreadGoes
<1>3. tasks' \in Seq({"epoll", "read", "write"})
  <2>1. tasks' \in {tasks, Append(tasks, "read")} \/ (tasks # <<>> /\ tasks' = Tail(tasks))
    BY DEF TakeTask, SocketThreadLeaves, SocketThreadTests, SocketThreadSleeps,
           SocketThreadWakes, EpollWork, EpollTimesOut, EpollReturns, Write,
           SocketThreadGoes
  <2>2. tasks \in Seq({"epoll", "read", "write"})
    BY DEF CountInv, Types
  <2>3. QED
    BY <2>1, <2>2
<1>4. requests' \in Seq(1..arrived')
  <2>1. requests \in Seq(1..arrived)
    BY DEF CountInv, Types
  <2>2. 1..arrived \subseteq 1..arrived'
    BY <1>2
  <2>3. requests \in Seq(1..arrived')
    BY <2>1, <2>2, WiderSeq
  <2>4. QED
    BY <1>1, <2>3
<1>5. Types'
  <2>1. request' \in [DataThreads -> 0..arrived'] /\ carried' \in [SocketThreads -> 0..arrived']
    <3>1. 0..arrived \subseteq 0..arrived'
      BY <1>2
    <3>2. QED
      BY <1>1, <3>1 DEF CountInv, Types
  <2>2. handled' \subseteq 1..arrived'
    BY <1>1, <1>2 DEF CountInv, Types
  <2>3. socketAt' \in [SocketThreads -> SocketPlaces]
    BY <1>b
  <2>4. cleared' \in BOOLEAN /\ m_RecvPackageCount' \in Nat /\ printed' \in Nat
    BY <1>1 DEF CountInv, Types, countVars
  <2>5. QED
    BY <1>2, <1>3, <1>4, <2>1, <2>2, <2>3, <2>4 DEF Types
<1>6. Delivered' = Delivered /\ Counting' = Counting
  BY <1>1, <1>b DEF CountInv, Types, Delivered, Counting
<1>7. Carries'
  BY <1>1, <1>b, <1>6 DEF CountInv, Types, Carries
<1>8. QED
  BY <1>1, <1>5, <1>6, <1>7, NothingCounted DEF CountInv

\* Recv: the request is one that nobody has.
LEMMA RecvStep ==
    ASSUME CountInv, NEW s \in SocketThreads, Recv(s)
    PROVE  Types' /\ Carries' /\ Counts'
<1>1. PICK r \in 1..arrived :
         /\ r \notin handled \cup Range(requests) \cup Range(carried) \cup Range(request)
         /\ carried' = [carried EXCEPT ![s] = r]
  BY DEF Recv
<1>2. /\ socketAt[s] = "read" /\ socketAt' = [socketAt EXCEPT ![s] = "delivers"]
      /\ UNCHANGED <<main, monitor, requests, dataAt, request, handled, tasks, arrived, countVars>>
  BY DEF Recv, mainVars, dataVars
<1>3. arrived \in Nat /\ r # 0 /\ r \in 0..arrived
  BY <1>1, BoundAssumption DEF CountInv, Types
<1>4. Types'
  BY <1>1, <1>2, <1>3 DEF CountInv, Types, SocketPlaces, countVars
<1>5. Delivered' = Delivered /\ Counting' = Counting
  BY <1>2 DEF CountInv, Types, Delivered, Counting
<1>6. r \notin Delivered /\ \A t \in SocketThreads : carried[t] # r
  BY <1>1 DEF Delivered, CountInv, Types, Range
<1>7. Carries'
  BY <1>1, <1>2, <1>3, <1>5, <1>6 DEF CountInv, Types, Carries
<1>8. QED
  BY <1>2, <1>4, <1>5, <1>7, NothingCounted DEF CountInv

\* AddData: one more is handed over, and one more thread has not counted.
LEMMA AddDataStep ==
    ASSUME CountInv, NEW s \in SocketThreads, AddData(s)
    PROVE  Types' /\ Carries' /\ Counts'
<1> DEFINE r == carried[s]
<1>1. /\ socketAt[s] = "delivers" /\ socketAt' = [socketAt EXCEPT ![s] = "counts"]
      /\ requests' = Append(requests, r) /\ carried' = [carried EXCEPT ![s] = 0]
      /\ dataAt' = Woken(dataAt)
      /\ UNCHANGED <<main, monitor, request, handled, tasks, arrived, countVars>>
  BY DEF AddData, mainVars
<1>2. r \in 1..arrived /\ r # 0 /\ r \notin Delivered
  BY <1>1, BoundAssumption DEF CountInv, Types, Carries
<1>3. requests' \in Seq(1..arrived')
  <2>1. requests \in Seq(1..arrived)
    BY DEF CountInv, Types
  <2>2. Append(requests, r) \in Seq(1..arrived)
    BY <1>2, <2>1
  <2>3. QED
    BY <1>1, <2>2
<1>4. arrived \in Nat
  BY BoundAssumption DEF CountInv, Types
<1>5. Types'
  BY <1>1, <1>3, <1>4 DEF CountInv, Types, SocketPlaces, countVars
<1>6. Delivered' = Delivered \cup {r}
  <2>1. Range(requests') = Range(requests) \cup {r}
    <3>1. requests \in Seq(1..arrived)
      BY DEF CountInv, Types
    <3>2. Range(Append(requests, r)) = Range(requests) \cup {r}
      <4> DEFINE S == 1..arrived
      <4>1. requests \in Seq(S) /\ r \in S
        BY <1>2, <3>1
      <4> HIDE DEF S, r
      <4>2. QED
        BY <4>1, Ranges
    <3>3. QED
      BY <1>1, <3>2
  <2>2. QED
    BY <1>1, <2>1 DEF Delivered
<1>7. Counting' = Counting \cup {s} /\ s \notin Counting
  BY <1>1 DEF CountInv, Types, Counting
<1>8. /\ Cardinality(Delivered') = Cardinality(Delivered) + 1
      /\ Cardinality(Counting') = Cardinality(Counting) + 1
  BY <1>2, <1>6, <1>7, Numbers, FS_AddElement DEF CountInv
<1>9. Carries'
  <2>1. \A d \in DataThreads : dataAt'[d] = "answers" <=> dataAt[d] = "answers"
    BY <1>1, WakeData DEF CountInv, Inv
  <2>2. QED
    BY <1>1, <1>2, <1>6, <2>1 DEF CountInv, Types, Carries
<1>10. Counts'
  <2>1. /\ Cardinality(Delivered) \in Nat /\ Cardinality(Counting) \in Nat
        /\ m_RecvPackageCount \in Nat /\ printed \in Nat
    BY Numbers DEF CountInv, Types
  <2>2. UNCHANGED <<cleared, printed, m_RecvPackageCount, monitor>>
    BY <1>1 DEF countVars
  <2> HIDE DEF r
  <2>3. QED
    BY <1>8, <2>1, <2>2 DEF CountInv, Counts
<1>11. QED
  BY <1>5, <1>9, <1>10

\* Count: what the thread had not counted is in the counter.
LEMMA CountStep ==
    ASSUME CountInv, NEW s \in SocketThreads, Count(s)
    PROVE  Types' /\ Carries' /\ Counts'
<1>1. /\ socketAt[s] = "counts" /\ socketAt' = [socketAt EXCEPT ![s] = "idle"]
      /\ m_RecvPackageCount' = m_RecvPackageCount + 1
      /\ UNCHANGED <<main, monitor, requests, dataAt, request, handled, tasks, carried,
                     arrived, cleared, printed>>
  BY DEF Count, mainVars, dataVars
<1>2. Types'
  BY <1>1 DEF CountInv, Types, SocketPlaces
<1>3. Delivered' = Delivered /\ Counting' = Counting \ {s} /\ s \in Counting
  BY <1>1 DEF CountInv, Types, Delivered, Counting
<1>4. Cardinality(Counting') = Cardinality(Counting) - 1
  BY <1>3, Numbers, FS_RemoveElement DEF CountInv
<1>5. Carries'
  BY <1>1, <1>3 DEF CountInv, Types, Carries
<1>6. Counts'
  <2>1. /\ Cardinality(Delivered) \in Nat /\ Cardinality(Counting) \in Nat
        /\ m_RecvPackageCount \in Nat /\ printed \in Nat
    BY Numbers DEF CountInv, Types
  <2>2. Cardinality(Delivered') = Cardinality(Delivered)
    BY <1>3
  <2>3. QED
    BY <1>1, <1>4, <2>1, <2>2 DEF CountInv, Counts
<1>7. QED
  BY <1>2, <1>5, <1>6

\* DataHandler's threads: a request goes from the queue to a thread and from
\* it to those handled, so it stays handed over.
LEMMA DataStep ==
    ASSUME CountInv, NEW d \in DataThreads, DataThread(d) \/ DataThreadWakes(d)
    PROVE  Types' /\ Carries' /\ Counts'
<1>1. /\ UNCHANGED <<main, monitor, carried, arrived, countVars>>
      /\ socketAt' \in {socketAt, Woken(socketAt)}
  BY DEF DataThread, ThreadWork, SendPackage, AddSocketTask, DataThreadLeaves,
         DataThreadTests, DataThreadSleeps, DataThreadWakes, DataThreadGoes,
         mainVars, socketVars
<1>b. /\ socketAt' \in [SocketThreads -> SocketPlaces]
      /\ \A t \in SocketThreads : \A p \in {"delivers", "counts"} :
            socketAt'[t] = p <=> socketAt[t] = p
  BY <1>1, WakeSockets DEF CountInv, Types
<1>2. arrived \in Nat /\ Counting' = Counting
  BY <1>b, BoundAssumption DEF CountInv, Types, Counting
<1>3. requests \in Seq(1..arrived) /\ tasks \in Seq({"epoll", "read", "write"})
  BY DEF CountInv, Types
<1>4. Types' /\ Delivered' = Delivered
      /\ \A e \in DataThreads : dataAt'[e] = "answers" <=> request'[e] # 0
  <2>1. CASE ThreadWork(d)
    <3>1. /\ dataAt[d] = "idle" /\ dataAt' = [dataAt EXCEPT ![d] = "answers"]
          /\ requests # <<>> /\ requests' = Tail(requests)
          /\ request' = [request EXCEPT ![d] = Head(requests)]
          /\ UNCHANGED <<handled, tasks, socketAt>>
      BY <2>1 DEF ThreadWork, socketVars
    <3>2. Head(requests) \in 1..arrived /\ Tail(requests) \in Seq(1..arrived)
      <4> DEFINE S == 1..arrived
      <4>1. requests \in Seq(S) /\ requests # <<>>
        BY <1>3, <3>1
      <4> HIDE DEF S
      <4>2. Head(requests) \in S /\ Tail(requests) \in Seq(S)
        BY <4>1
      <4>3. QED
        BY <4>2 DEF S
    <3>3. request[d] = 0
      BY <3>1 DEF CountInv, Carries
    <3>4. Types'
      BY <1>1, <1>2, <3>1, <3>2 DEF CountInv, Types, countVars
    <3>5. Range(request') \ {0} = (Range(request) \ {0}) \cup {Head(requests)}
      BY <1>2, <3>1, <3>2, <3>3 DEF Range, CountInv, Types
    <3>6. Range(requests) = {Head(requests)} \cup Range(requests')
      BY <1>3, <3>1, Ranges
    <3>7. Delivered' = Delivered
      BY <3>1, <3>5, <3>6 DEF Delivered
    <3>8. QED
      BY <1>2, <3>1, <3>2, <3>4, <3>7 DEF CountInv, Types, Inv, Carries
  <2>2. CASE SendPackage(d)
    <3>1. /\ dataAt[d] = "answers" /\ dataAt' = [dataAt EXCEPT ![d] = "idle"]
          /\ handled' = handled \cup {request[d]}
          /\ request' = [request EXCEPT ![d] = 0]
          /\ tasks' \in {tasks, Append(tasks, "write")}
          /\ requests' = requests
      BY <2>2 DEF SendPackage, AddSocketTask
    <3>2. request[d] \in 1..arrived
      BY <1>2, <3>1 DEF CountInv, Carries, Types
    <3>3. tasks' \in Seq({"epoll", "read", "write"})
      <4> DEFINE S == {"epoll", "read", "write"}
      <4>1. tasks \in Seq(S) /\ "write" \in S
        BY <1>3
      <4> HIDE DEF S
      <4>2. Append(tasks, "write") \in Seq(S)
        BY <4>1
      <4>3. tasks' \in Seq(S)
        BY <3>1, <4>1, <4>2
      <4>4. QED
        BY <4>3 DEF S
    <3>4. Types'
      <4>1. request' \in [DataThreads -> 0..arrived'] /\ handled' \subseteq 1..arrived'
        <5>1. 0 \in 0..arrived /\ request \in [DataThreads -> 0..arrived] /\ handled \subseteq 1..arrived
          BY <1>2 DEF CountInv, Types
        <5>2. request' \in [DataThreads -> 0..arrived]
          BY <3>1, <5>1
        <5>3. handled' \subseteq 1..arrived
          BY <3>1, <3>2, <5>1
        <5>4. QED
          BY <1>1, <5>2, <5>3
      <4>2. requests' \in Seq(1..arrived')
        BY <1>1, <1>3, <3>1
      <4>3. /\ arrived' \in 0..MaxRequests /\ cleared' \in BOOLEAN
            /\ m_RecvPackageCount' \in Nat /\ printed' \in Nat
        BY <1>1 DEF CountInv, Types, countVars
      <4>4. /\ carried' \in [SocketThreads -> 0..arrived']
            /\ socketAt' \in [SocketThreads -> SocketPlaces]
        BY <1>1, <1>b DEF CountInv, Types
      <4>5. QED
        BY <3>3, <4>1, <4>2, <4>3, <4>4 DEF Types
    <3>5. (Range(request) \ {0}) = (Range(request') \ {0}) \cup {request[d]}
          \/ (Range(request) \ {0}) = Range(request') \ {0}
      BY <1>2, <3>1, <3>2 DEF Range, CountInv, Types
    <3>6. request[d] \in Range(request) \ {0}
      BY <1>2, <3>2 DEF Range, CountInv, Types
    <3>7. Delivered' = Delivered
      BY <3>1, <3>5, <3>6 DEF Delivered
    <3>8. QED
      BY <3>1, <3>4, <3>7 DEF CountInv, Types, Inv, Carries
  <2>3. CASE \/ DataThreadLeaves(d) \/ DataThreadTests(d)
             \/ DataThreadSleeps(d) \/ DataThreadWakes(d)
    <3>1. /\ dataAt[d] # "answers"
          /\ \E q \in {"left", "tested", "asleep", "idle"} :
                dataAt' = [dataAt EXCEPT ![d] = q]
          /\ UNCHANGED <<requests, request, handled, tasks, socketAt>>
      BY <2>3 DEF DataThreadLeaves, DataThreadTests, DataThreadSleeps,
                  DataThreadWakes, DataThreadGoes, socketVars
    <3>2. QED
      BY <1>1, <3>1 DEF CountInv, Types, Inv, Carries, Delivered, countVars
  <2>4. QED
    BY <2>1, <2>2, <2>3 DEF DataThread
<1>5. Carries'
  BY <1>1, <1>b, <1>4 DEF CountInv, Carries
<1>6. QED
  BY <1>1, <1>2, <1>4, <1>5, NothingCounted DEF CountInv

\* The monitor: what it clears is what it has printed, or less than came
\* after.
LEMMA MonitorStep ==
    ASSUME CountInv, MonitorWork
    PROVE  Types' /\ Carries' /\ Counts'
<1>1. UNCHANGED <<main, requests, dataAt, request, handled, tasks, socketAt, carried, arrived>>
  BY DEF MonitorWork, MonitorLoops, ReadHandler, ReadSockets, Clear, dataVars, socketVars
<1>2. Delivered' = Delivered /\ Counting' = Counting
  BY <1>1 DEF Delivered, Counting
<1>3. Carries'
  BY <1>1, <1>2 DEF CountInv, Carries
<1>4. Types' /\ Counts'
  <2>1. CASE MonitorLoops \/ ReadHandler
    <3>1. UNCHANGED countVars /\ monitor # "clears" /\ monitor' # "clears"
      BY <2>1 DEF MonitorLoops, ReadHandler, countVars
    <3>2. QED
      BY <1>1, <1>2, <3>1 DEF CountInv, Types, Counts, countVars
  <2>2. CASE ReadSockets
    <3>1. /\ monitor = "readsSockets" /\ monitor' = "clears"
          /\ printed' = IF cleared THEN printed + m_RecvPackageCount ELSE printed
          /\ UNCHANGED <<m_RecvPackageCount, cleared>>
      BY <2>2 DEF ReadSockets
    <3>2. QED
      BY <1>1, <1>2, <3>1, Numbers DEF CountInv, Types, Counts
  <2>3. CASE Clear
    <3>1. /\ monitor = "clears" /\ monitor' = "looks" /\ m_RecvPackageCount' = 0
          /\ cleared' = TRUE /\ UNCHANGED printed
      BY <2>3 DEF Clear
    <3>2. QED
      BY <1>1, <1>2, <3>1, Numbers DEF CountInv, Types, Counts
  <2>4. QED
    BY <2>1, <2>2, <2>3 DEF MonitorWork
<1>5. QED
  BY <1>3, <1>4

LEMMA NextCounts == CountInv /\ [Next]_vars => Types' /\ Carries' /\ Counts'
<1> SUFFICES ASSUME CountInv, [Next]_vars PROVE Types' /\ Carries' /\ Counts'
  OBVIOUS
<1>1. ASSUME NEW s \in SocketThreads, SocketThread(s) \/ SocketThreadWakes(s)
      PROVE  Types' /\ Carries' /\ Counts'
  BY <1>1, QuietSocketStep, RecvStep, AddDataStep, CountStep DEF SocketThread
<1>2. ASSUME NEW d \in DataThreads, DataThread(d) \/ DataThreadWakes(d)
      PROVE  Types' /\ Carries' /\ Counts'
  BY <1>2, DataStep
<1>3. CASE MonitorWork
  BY <1>3, MonitorStep
<1>4. CASE Quit \/ Destroy \/ UNCHANGED vars
  <2>1. /\ UNCHANGED <<monitor, requests, request, handled, tasks, carried, arrived,
                       countVars>>
        /\ socketAt' \in {socketAt, Woken(socketAt)}
        /\ dataAt' \in {dataAt, Woken(dataAt)}
    BY <1>4 DEF Quit, Destroy, JoinMonitor, NotifyHandler, JoinHandler,
                DeleteClients, DeleteEPoll, EndSockets, NotifySockets, JoinSockets,
                Goes, ThreadsStay, vars, mainVars, dataVars, socketVars
  <2>2. /\ socketAt' \in [SocketThreads -> SocketPlaces]
        /\ \A t \in SocketThreads : \A p \in {"delivers", "counts"} :
              socketAt'[t] = p <=> socketAt[t] = p
    BY <2>1, WakeSockets DEF CountInv, Types
  <2>3. \A d \in DataThreads : dataAt'[d] = "answers" <=> dataAt[d] = "answers"
    BY <2>1, WakeData DEF CountInv, Inv
  <2>4. Delivered' = Delivered /\ Counting' = Counting
    BY <2>1, <2>2 DEF Delivered, Counting
  <2>5. Types'
    BY <2>1, <2>2 DEF CountInv, Types, countVars
  <2>6. Carries'
    BY <2>1, <2>2, <2>3, <2>4 DEF CountInv, Carries
  <2>7. Counts'
    BY <2>1, <2>4 DEF CountInv, Counts, countVars
  <2>8. QED
    BY <2>5, <2>6, <2>7
<1>5. QED
  BY <1>1, <1>2, <1>3, <1>4 DEF Next

\* The sum of what the monitor prints is at most the number of requests that
\* have arrived, although it reads and clears the counter in two steps while
\* threads count (MainControl.cpp 104-125, SocketControl.cpp 131-152): an
\* increment in between is lost, none is printed twice.
THEOREM TypeCorrect == Spec => []TypeOK
<1>1. Spec => Init /\ [][Next]_vars
  BY PTL DEF Spec
<1>2. Init => CountInv
  BY InitInv, InitCounts DEF CountInv
<1>3. CountInv /\ [Next]_vars => CountInv'
  BY NextInv, NextCounts DEF CountInv
<1>4. QED
  BY <1>1, <1>2, <1>3, InvTypes, PTL

=============================================================================
