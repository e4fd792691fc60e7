------------------------- MODULE SocketControlProofs ------------------------
(***************************************************************************)
(* Theorems about SocketControl for any number of threads, connections,    *)
(* descriptors, packages and calls.  The invariant comes in layers: which  *)
(* pointers a thread, a task or the map can hold (Pointers); what epoll    *)
(* has registered for whom (Registered); who has the right to read         *)
(* (SingleReader); who owns an object, in the map under its own descriptor *)
(* or with the one worker that deletes it (Owners); who will read from it  *)
(* and who will write what it has left (NeverUnattended, NoLostWrite); and *)
(* that, while nothing is sent, nobody uses what another has deleted.      *)
(* Each layer is inductive given the ones before it.                       *)
(***************************************************************************)
EXTENDS SocketControl, SequenceTheorems, FiniteSetTheorems, TLAPS

RealTasks == Tasks \ {NoTask}

\* The map leads to objects.
KnownMap ==
    /\ m_ClientFdMap \in [Fds -> Conns \cup {Nobody}]
    /\ \A f \in Fds : m_ClientFdMap[f] \in Conns => obj[m_ClientFdMap[f]] # "none"

\* What a thread can hold.  A task that names a connection by its descriptor
\* (write) was made for one that had a descriptor.
Pointers ==
    /\ obj \in [Conns -> {"none", "live", "freed"}]
    /\ cfd \in [Conns -> Fds \cup {NoFd}]
    /\ \A c \in Conns : obj[c] # "none" => cfd[c] \in Fds
    /\ KnownMap
    /\ heard \subseteq {c \in Conns : obj[c] # "none"}
    /\ queue \in Seq(RealTasks)
    /\ \A i \in DOMAIN queue :
          queue[i].conn \in Conns => obj[queue[i].conn] # "none"
    /\ at \in [Workers -> Places]
    /\ job \in [Workers -> Tasks]
    /\ cs \in [Workers -> Conns \cup {Nobody}]
    /\ \A w \in Workers :
          /\ at[w] \in UsesSocket => cs[w] \in Conns
          /\ cs[w] \in Conns => obj[cs[w]] # "none"
          /\ at[w] = "lookup" => job[w].conn \in Conns /\ obj[job[w].conn] # "none"
          /\ at[w] = "idle" => cs[w] = Nobody
    /\ \A s \in Senders : sender[s] # NotSending =>
          /\ sender[s].conn \in Conns /\ obj[sender[s].conn] # "none"
          /\ sender[s].cs \in Conns
    /\ sender \in [Senders -> [conn : Conns \cup {Nobody}, cs : Conns \cup {Nobody}]]

\* A connection in the backlog has been made by its peer and not accepted:
\* accept() makes an object that nothing knows of.
Backlog ==
    /\ net \in [Conns -> {"absent", "open", "fin", "rst"}]
    /\ backlog \in Seq(Conns)
    /\ \A i \in DOMAIN backlog : obj[backlog[i]] = "none" /\ net[backlog[i]] # "absent"
    /\ \A i, j \in DOMAIN backlog : backlog[i] = backlog[j] => i = j
    /\ \A c \in Conns : obj[c] # "none" => net[c] # "absent"

\* What epoll watches a descriptor for is what its ClientSocket has asked for.
\* Descriptors of objects that exist differ, and a free one is not watched, so
\* accept() gets one for which ADD succeeds.
Registered ==
    /\ m_CfdIsRead \in [Conns -> BOOLEAN]
    /\ m_CfdIsWrite \in [Conns -> BOOLEAN]
    /\ reg \in [Handles -> [ptr : Conns \cup {Listen, Nobody},
                            in : BOOLEAN, out : BOOLEAN]]
    /\ \A c, d \in Conns : Live(c) /\ Live(d) /\ cfd[c] = cfd[d] => c = d
    /\ \A f \in FreeFds : reg[f] = Off
    /\ \A c \in Conns : obj[c] = "none" => ~m_CfdIsRead[c] /\ ~m_CfdIsWrite[c]
    /\ RegMatchesFlags

\* epoll_wait reports an object once, and only one that exists or has existed.
Events ==
    /\ ready \subseteq Handles
    /\ reg[Listen] \in {Off, Entry(Listen, FALSE, TRUE)}
    /\ \A d, e \in batch : d.ptr = e.ptr => d = e
    /\ \A e \in batch : e.ptr \in Conns => obj[e.ptr] # "none"

-----------------------------------------------------------------------------
(* Queues *)

\* What Append adds, by place.
LEMMA AppendFacts ==
    ASSUME NEW S, NEW q \in Seq(S), NEW e \in S
    PROVE  /\ Append(q, e) \in Seq(S)
           /\ DOMAIN Append(q, e) = DOMAIN q \cup {Len(q) + 1}
           /\ Len(q) + 1 \notin DOMAIN q
           /\ \A i \in DOMAIN q : Append(q, e)[i] = q[i]
           /\ Append(q, e)[Len(q) + 1] = e
  OBVIOUS

\* What Tail leaves, by place.
LEMMA TailFacts ==
    ASSUME NEW S, NEW q \in Seq(S), q # <<>>
    PROVE  /\ Head(q) \in S /\ 1 \in DOMAIN q /\ Head(q) = q[1]
           /\ Tail(q) \in Seq(S)
           /\ \A i \in DOMAIN Tail(q) :
                 i + 1 \in DOMAIN q /\ i + 1 # 1 /\ Tail(q)[i] = q[i + 1]
           /\ \A i \in DOMAIN q : i # 1 => i - 1 \in DOMAIN Tail(q)
                                           /\ Tail(q)[i - 1] = q[i]
           /\ DOMAIN Tail(q) \subseteq Nat
  OBVIOUS

-----------------------------------------------------------------------------
(* Pointers *)

LEMMA InitPointers == Init => Pointers
  BY ConnsAssumption, FdsAssumption
  DEF Init, Pointers, KnownMap, Places, UsesSocket, Tasks, NoTask, NotSending, Task

\* A worker goes to a place with a task and a connection that fit together.
LEMMA WorkerMoves ==
    ASSUME Pointers, NEW w \in Workers,
           NEW p \in Places, NEW j \in Tasks, NEW k \in Conns \cup {Nobody},
           at' = [at EXCEPT ![w] = p],
           job' = [job EXCEPT ![w] = j],
           cs' = [cs EXCEPT ![w] = k],
           p \in UsesSocket => k \in Conns,
           p = "idle" => k = Nobody,
           k \in Conns => obj[k] # "none",
           p = "lookup" => j.conn \in Conns /\ obj[j.conn] # "none",
           queue' \in Seq(RealTasks),
           \A i \in DOMAIN queue' :
              queue'[i].conn \in Conns => obj[queue'[i].conn] # "none",
           KnownMap',
           UNCHANGED <<obj, cfd, heard, sender>>
    PROVE  Pointers'
  BY DEF Pointers

\* Tasks are made for connections that had an object.
LEMMA TaskPushed ==
    ASSUME Pointers, NEW t \in RealTasks,
           t.conn \in Conns => obj[t.conn] # "none",
           queue' = Append(queue, t),
           UNCHANGED <<obj, cfd, m_ClientFdMap, heard, workerVars>>,
           \/ UNCHANGED sender
           \/ \E s \in Senders : sender' = [sender EXCEPT ![s] = NotSending]
    PROVE  Pointers'
<1>1. /\ queue' \in Seq(RealTasks)
      /\ \A i \in DOMAIN queue' :
            queue'[i].conn \in Conns => obj[queue'[i].conn] # "none"
  BY AppendFacts DEF Pointers
<1>2. /\ \A s \in Senders : sender'[s] # NotSending => sender'[s] = sender[s]
      /\ sender' \in [Senders -> [conn : Conns \cup {Nobody}, cs : Conns \cup {Nobody}]]
  <2>1. NotSending \in [conn : Conns \cup {Nobody}, cs : Conns \cup {Nobody}]
    BY DEF NotSending
  <2>2. ASSUME NEW s \in Senders, sender' = [sender EXCEPT ![s] = NotSending]
        PROVE  <1>2!1 /\ <1>2!2
    BY <2>1, <2>2 DEF Pointers
  <2>3. CASE UNCHANGED sender
    BY <2>3 DEF Pointers
  <2>4. QED
    BY <2>2, <2>3
<1>3. QED
  BY <1>1, <1>2 DEF Pointers, KnownMap, workerVars

\* Peers and epoll_wait change no pointer of the program.
LEMMA OutsidePointers ==
    ASSUME Pointers,
           UNCHANGED <<obj, cfd, m_ClientFdMap, heard, queue, workerVars, sender>>
    PROVE  Pointers'
  BY DEF Pointers, KnownMap, workerVars

\* A worker's step that only goes somewhere else with what it has.
Walk(w, p) ==
    /\ at' = [at EXCEPT ![w] = p]
    /\ UNCHANGED <<job, cs>>

LEMMA WalkPointers ==
    ASSUME Pointers, NEW w \in Workers, NEW p \in Places \ {"idle", "lookup"},
           Walk(w, p),
           p \in UsesSocket => cs[w] \in Conns,
           KnownMap',
           UNCHANGED <<obj, cfd, heard, queue, sender>>
    PROVE  Pointers'
  BY WorkerMoves DEF Pointers, Walk

LEMMA FinishPointers ==
    ASSUME Pointers, NEW w \in Workers, Finish(w),
           KnownMap',
           UNCHANGED <<obj, cfd, heard, queue, sender>>
    PROVE  Pointers'
<1>1. "idle" \in Places \ UsesSocket /\ NoTask \in Tasks
  BY DEF Places, UsesSocket, Tasks
<1>2. QED
  BY <1>1, WorkerMoves, ConnsAssumption DEF Pointers, Finish, Goto

LEMMA TakeTaskPointers ==
    ASSUME Pointers, NEW w \in Workers, TakeTask(w) PROVE Pointers'
<1> DEFINE t == Head(queue)
<1>1. /\ t \in RealTasks
      /\ t.conn \in Conns => obj[t.conn] # "none"
      /\ queue' \in Seq(RealTasks)
      /\ \A i \in DOMAIN queue' :
            queue'[i].conn \in Conns => obj[queue'[i].conn] # "none"
  <2>1. queue \in Seq(RealTasks) /\ queue # <<>> /\ queue' = Tail(queue)
    BY DEF Pointers, TakeTask
  <2>2. QED
    BY <2>1, TailFacts DEF Pointers
<1>2. /\ t \in Tasks
      /\ \/ t.kind = "accept"
         \/ t.kind \in {"recv", "flush", "write"} /\ t.conn \in Conns
  BY <1>1 DEF RealTasks, Tasks, NoTask, Task
<1>3. /\ FirstPlace["accept"] = "accept" /\ FirstPlace["recv"] = "recv"
      /\ FirstPlace["flush"] = "send" /\ FirstPlace["write"] = "lookup"
  BY DEF FirstPlace
<1>4. PICK k \in Conns \cup {Nobody} :
         /\ cs' = [cs EXCEPT ![w] = k]
         /\ k = IF t.kind \in {"recv", "flush"} THEN t.conn ELSE Nobody
  BY <1>2 DEF TakeTask
<1>5. PICK p \in {"accept", "recv", "send", "lookup"} :
         at' = [at EXCEPT ![w] = p] /\ p = FirstPlace[t.kind]
  BY <1>2, <1>3 DEF TakeTask, Goto
<1>6. /\ p \in Places /\ p # "idle"
      /\ p \in UsesSocket => k \in Conns
      /\ k \in Conns => obj[k] # "none"
      /\ p = "lookup" => t.conn \in Conns /\ obj[t.conn] # "none"
  BY <1>1, <1>2, <1>3, <1>4, <1>5, ConnsAssumption DEF Places, UsesSocket
<1>7. /\ job' = [job EXCEPT ![w] = t]
      /\ UNCHANGED <<obj, cfd, m_ClientFdMap, heard, sender>>
  BY DEF TakeTask, objVars, mapVars, senderVars
<1> HIDE DEF t
<1>8. KnownMap'
  BY <1>7 DEF Pointers, KnownMap
<1>9. QED
  BY <1>1, <1>2, <1>4, <1>5, <1>6, <1>7, <1>8, WorkerMoves

LEMMA AcceptPointers ==
    ASSUME Pointers, Backlog, NEW w \in Workers, Accept(w) PROVE Pointers'
<1> DEFINE c == Head(backlog)
<1>1. c \in Conns /\ obj[c] = "none"
  BY TailFacts DEF Accept, Backlog
<1>2. PICK f \in FreeFds :
         /\ obj' = [obj EXCEPT ![c] = "live"] /\ cfd' = [cfd EXCEPT ![c] = f]
         /\ cs' = [cs EXCEPT ![w] = c] /\ at' = [at EXCEPT ![w] = "announce"]
         /\ m_ClientFdMap' = IF m_ClientFdMap[f] = Nobody
                             THEN [m_ClientFdMap EXCEPT ![f] = c] ELSE m_ClientFdMap
         /\ UNCHANGED <<heard, queue, job, sender>>
  BY DEF Accept, NewClientSocket, Goto, senderVars
<1>3. f \in Fds
  BY DEF FreeFds
<1>4. "announce" \in Places
  BY DEF Places, UsesSocket
<1> HIDE DEF c
<1>5. m_ClientFdMap' \in [Fds -> Conns \cup {Nobody}]
  BY <1>1, <1>2, <1>3 DEF Pointers, KnownMap
<1>6. /\ obj' \in [Conns -> {"none", "live", "freed"}]
      /\ cfd' \in [Conns -> Fds \cup {NoFd}]
      /\ \A d \in Conns : obj[d] # "none" => obj'[d] # "none"
      /\ \A d \in Conns : obj'[d] # "none" => cfd'[d] \in Fds
      /\ obj'[c] = "live"
  BY <1>1, <1>2, <1>3 DEF Pointers
<1>7. KnownMap'
  BY <1>1, <1>2, <1>3, <1>5, <1>6 DEF Pointers, KnownMap
<1>8. QED
  BY <1>1, <1>2, <1>4, <1>6, <1>7 DEF Pointers

LEMMA DeletePointers ==
    ASSUME Pointers, NEW w \in Workers, Delete(w) PROVE Pointers'
<1>1. /\ "idle" \in Places \ UsesSocket /\ NoTask \in Tasks
  BY DEF Places, UsesSocket, Tasks
<1>2. /\ obj' \in [Conns -> {"none", "live", "freed"}]
      /\ \A c \in Conns : obj'[c] # "none" <=> obj[c] # "none"
  BY DEF Pointers, Delete, Alive
<1>3. QED
  BY <1>1, <1>2, ConnsAssumption
  DEF Pointers, KnownMap, Delete, Finish, Goto, mapVars, senderVars

\* What an epoll_ctl call of a ClientSocket leaves alone does not matter here:
\* none of the five touches a pointer of the program.
LEMMA NextPointers == Pointers /\ Backlog /\ [Next]_vars => Pointers'
<1> SUFFICES ASSUME Pointers, Backlog, [Next]_vars PROVE Pointers'
  OBVIOUS
<1> USE DEF objVars, mapVars, senderVars, workerVars
<1>1. CASE Peers
  BY <1>1, OutsidePointers
  DEF Peers, PeerConnects, PeerSends, PeerReads, PeerLeaves
<1>2. CASE EpollThread
  <2>1. CASE EpollWait
    BY <2>1, OutsidePointers DEF EpollWait
  <2>2. ASSUME NEW e \in batch, EventListen(e) PROVE Pointers'
    <3>1. Task("accept", Nobody) \in RealTasks /\ Task("accept", Nobody).conn = Nobody
      BY DEF RealTasks, Tasks, Task, NoTask
    <3>2. QED
      BY <2>2, <3>1, TaskPushed, ConnsAssumption DEF EventListen
  <2>3. ASSUME NEW e \in batch, EventRead(e) PROVE Pointers'
    <3>1. Task("recv", e.ptr) \in RealTasks /\ Task("recv", e.ptr).conn = e.ptr
      BY <2>3 DEF RealTasks, Tasks, Task, NoTask, EventRead
    <3>2. QED
      BY <2>3, <3>1, TaskPushed DEF EventRead
  <2>4. ASSUME NEW e \in batch, EventWrite(e) PROVE Pointers'
    <3>1. Task("flush", e.ptr) \in RealTasks /\ Task("flush", e.ptr).conn = e.ptr
      BY <2>4 DEF RealTasks, Tasks, Task, NoTask, EventWrite
    <3>2. QED
      BY <2>4, <3>1, TaskPushed DEF EventWrite
  <2>5. QED
    BY <1>2, <2>1, <2>2, <2>3, <2>4 DEF EpollThread
<1>3. ASSUME NEW w \in Workers, Worker(w) PROVE Pointers'
  <2>1. UNCHANGED <<obj, m_ClientFdMap>> => KnownMap'
    BY DEF Pointers, KnownMap
  <2>2. CASE TakeTask(w) \/ Accept(w) \/ Delete(w)
    BY <2>2, TakeTaskPointers, AcceptPointers, DeletePointers
  <2>3. CASE AcceptNone(w) \/ Announce(w) \/ RecvClose(w) \/ RecvNone(w)
             \/ SendFails(w) \/ Unwatch(w) \/ Farewell(w)
    <3>1. \E p \in {"relisten", "watch", "erase", "rewatch", "farewell", "delete"} :
             Walk(w, p) /\ (p # "relisten" => at[w] \in UsesSocket)
      BY <2>3 DEF Walk, Goto, UsesSocket, AcceptNone, Announce, RecvClose,
                  RecvNone, SendFails, Unwatch, Farewell
    <3>2. UNCHANGED <<obj, cfd, m_ClientFdMap, heard, queue, sender>>
      BY <2>3 DEF AcceptNone, Announce, RecvClose, RecvNone, SendFails,
                  Unwatch, Farewell
    <3>3. /\ {"relisten", "watch", "erase", "rewatch", "farewell", "delete"}
                \subseteq Places \ {"idle", "lookup"}
          /\ "relisten" \notin UsesSocket
          /\ at[w] \in UsesSocket => cs[w] \in Conns
      BY DEF Places, UsesSocket, Pointers
    <3>4. QED
      BY <2>1, <3>1, <3>2, <3>3, WalkPointers
  <2>4. CASE Relisten(w) \/ Rewatch(w) \/ Rewrite(w)
    <3>1. Finish(w) /\ UNCHANGED <<obj, cfd, m_ClientFdMap, heard, queue, sender>>
      BY <2>4 DEF Relisten, Rewatch, Rewrite
    <3>2. QED
      BY <2>1, <3>1, FinishPointers
  <2>5. CASE Watch(w)
    <3>1. /\ at' = [at EXCEPT ![w] = "accept"]
          /\ job' = [job EXCEPT ![w] = job[w]]
          /\ cs' = [cs EXCEPT ![w] = Nobody]
          /\ UNCHANGED <<obj, cfd, m_ClientFdMap, heard, queue, sender>>
      BY <2>5 DEF Watch, Goto, Pointers
    <3>2. "accept" \in Places \ UsesSocket
      BY DEF Places, UsesSocket
    <3>3. QED
      BY <2>1, <3>1, <3>2, WorkerMoves, ConnsAssumption DEF Pointers
  <2>6. CASE RecvData(w)
    <3>1. cs[w] \in Conns /\ obj[cs[w]] # "none"
      BY <2>6 DEF RecvData, UsesSocket, Pointers
    <3>2. QED
      BY <2>6, <3>1 DEF RecvData, Pointers, KnownMap
  <2>7. CASE Send(w) \/ Tell(w)
    <3>1. UNCHANGED <<obj, cfd, m_ClientFdMap, heard, queue, sender>>
      BY <2>7 DEF Send, Tell
    <3>2. Walk(w, "tell") \/ Walk(w, "rewrite") \/ Finish(w)
      BY <2>7 DEF Send, Tell, SendReturns, Walk, Goto
    <3>3. cs[w] \in Conns /\ {"tell", "rewrite"} \subseteq Places \ {"idle", "lookup"}
      BY <2>7 DEF Send, Tell, Pointers, UsesSocket, Places
    <3>4. QED
      BY <2>1, <3>1, <3>2, <3>3, FinishPointers, WalkPointers
  <2>8. CASE AppendPackage(w)
    <3>1. UNCHANGED <<obj, cfd, m_ClientFdMap, heard, queue, sender>>
      BY <2>8 DEF AppendPackage
    <3>2. Walk(w, "send") \/ Finish(w)
      BY <2>8 DEF AppendPackage, Walk, Goto
    <3>3. cs[w] \in Conns /\ "send" \in Places \ {"idle", "lookup"}
      BY <2>8 DEF AppendPackage, Pointers, UsesSocket, Places
    <3>4. QED
      BY <2>1, <3>1, <3>2, <3>3, FinishPointers, WalkPointers
  <2>9. CASE Erase(w)
    <3>1. UNCHANGED <<obj, cfd, heard, queue, sender>>
      BY <2>9 DEF Erase
    <3>2. Walk(w, "unwatch") \/ Finish(w)
      BY <2>9 DEF Erase, Walk, Goto
    <3>3. cs[w] \in Conns /\ "unwatch" \in Places \ {"idle", "lookup"}
      BY <2>9 DEF Erase, Pointers, UsesSocket, Places
    <3>4. KnownMap'
      BY <2>9, ConnsAssumption DEF Erase, Pointers, KnownMap
    <3>5. QED
      BY <3>1, <3>2, <3>3, <3>4, FinishPointers, WalkPointers
  <2>10. CASE Lookup(w)
    <3> DEFINE c == m_ClientFdMap[cfd[job[w].conn]]
    <3>1. job[w].conn \in Conns /\ cfd[job[w].conn] \in Fds
      BY <2>10 DEF Lookup, Pointers
    <3>2. c \in Conns \cup {Nobody} /\ (c \in Conns => obj[c] # "none")
      BY <3>1 DEF Pointers, KnownMap
    <3>3. UNCHANGED <<obj, cfd, m_ClientFdMap, heard, queue, sender>>
      BY <2>10 DEF Lookup
    <3>4. CASE c = Nobody
      BY <2>1, <2>10, <3>3, <3>4, FinishPointers DEF Lookup
    <3>5. CASE c # Nobody
      <4>1. /\ at' = [at EXCEPT ![w] = "append"]
            /\ job' = [job EXCEPT ![w] = job[w]]
            /\ cs' = [cs EXCEPT ![w] = c]
        BY <2>10, <3>5 DEF Lookup, Goto, Pointers
      <4>2. "append" \in Places \ {"idle", "lookup"}
        BY DEF Places, UsesSocket
      <4>3. QED
        BY <2>1, <3>2, <3>3, <3>5, <4>1, <4>2, WorkerMoves DEF Pointers
    <3>6. QED
      BY <3>4, <3>5
  <2>11. QED
    BY <1>3, <2>2, <2>3, <2>4, <2>5, <2>6, <2>7, <2>8, <2>9, <2>10 DEF Worker
<1>4. ASSUME NEW s \in Senders, Handler(s) PROVE Pointers'
  <2>1. CASE SubmitPackage(s)
    <3> DEFINE t == Task("write", sender[s].conn)
    <3>1. t \in RealTasks /\ obj[t.conn] # "none"
      BY <2>1 DEF SubmitPackage, RealTasks, Tasks, Task, NoTask, Pointers
    <3>2. CASE queue' = Append(queue, t)
      BY <2>1, <3>1, <3>2, TaskPushed DEF SubmitPackage
    <3>3. CASE queue' = queue
      BY <2>1, <3>3 DEF SubmitPackage, Pointers, KnownMap, NotSending
    <3>4. QED
      BY <2>1, <3>2, <3>3 DEF SubmitPackage
  <2>2. ASSUME NEW c \in Conns, SendPackage(s, c) PROVE Pointers'
    <3> DEFINE d == m_ClientFdMap[cfd[c]]
               e == IF d = Nobody THEN NotSending ELSE [conn |-> c, cs |-> d]
    <3>1. obj[c] # "none" /\ d \in Conns \cup {Nobody}
      BY <2>2 DEF SendPackage, Pointers, KnownMap
    <3>2. /\ e \in [conn : Conns \cup {Nobody}, cs : Conns \cup {Nobody}]
          /\ e # NotSending => e.conn = c /\ e.cs \in Conns
      BY <3>1 DEF NotSending
    <3>3. /\ sender' = [sender EXCEPT ![s] = e]
          /\ UNCHANGED <<obj, cfd, m_ClientFdMap, heard, queue, at, job, cs>>
      BY <2>2 DEF SendPackage
    <3> HIDE DEF e
    <3>4. QED
      BY <3>1, <3>2, <3>3 DEF Pointers, KnownMap
  <2>3. QED
    BY <1>4, <2>1, <2>2 DEF Handler
<1>5. CASE UNCHANGED vars
  BY <1>5, OutsidePointers DEF vars
<1>6. QED
  BY <1>1, <1>2, <1>3, <1>4, <1>5 DEF Next

-----------------------------------------------------------------------------
(* Backlog *)

LEMMA InitBacklog == Init => Backlog
  BY DEF Init, Backlog

\* What a step does to the objects: none, or one is made or deleted.
LEMMA ObjectsStep ==
    ASSUME Pointers, Backlog, [Next]_vars
    PROVE  \/ UNCHANGED obj
           \/ \E w \in Workers : Accept(w) \/ Delete(w)
<1> USE DEF objVars
<1>1. CASE Peers
  BY <1>1 DEF Peers, PeerConnects, PeerSends, PeerReads, PeerLeaves
<1>2. CASE EpollThread
  BY <1>2 DEF EpollThread, EpollWait, EventListen, EventRead, EventWrite
<1>3. ASSUME NEW w \in Workers, Worker(w), ~Accept(w), ~Delete(w)
      PROVE  UNCHANGED obj
  BY <1>3 DEF Worker, TakeTask, AcceptNone, Announce, Watch, Relisten, RecvData,
       RecvClose, RecvNone, Rewatch, Send, SendFails, Tell, Rewrite, Lookup,
       AppendPackage, Erase, Unwatch, Farewell
<1>4. ASSUME NEW s \in Senders, Handler(s) PROVE UNCHANGED obj
  BY <1>4 DEF Handler, SendPackage, SubmitPackage
<1>5. CASE UNCHANGED vars
  BY <1>5 DEF vars
<1>6. QED
  BY <1>1, <1>2, <1>3, <1>4, <1>5 DEF Next

LEMMA BacklogStep ==
    ASSUME [Next]_vars
    PROVE  \/ UNCHANGED <<net, backlog>>
           \/ \E c \in Conns : PeerConnects(c) \/ PeerLeaves(c)
           \/ \E w \in Workers : Accept(w)
<1> USE DEF peerVars
<1>1. CASE Peers
  BY <1>1 DEF Peers, PeerSends, PeerReads
<1>2. CASE EpollThread
  BY <1>2 DEF EpollThread, EpollWait, EventListen, EventRead, EventWrite
<1>3. ASSUME NEW w \in Workers, Worker(w), ~Accept(w)
      PROVE  UNCHANGED <<net, backlog>>
  BY <1>3 DEF Worker, TakeTask, AcceptNone, Announce, Watch, Relisten, RecvData,
       RecvClose, RecvNone, Rewatch, Send, SendFails, Tell, Rewrite, Lookup,
       AppendPackage, Erase, Unwatch, Farewell, Delete
<1>4. ASSUME NEW s \in Senders, Handler(s) PROVE UNCHANGED <<net, backlog>>
  BY <1>4 DEF Handler, SendPackage, SubmitPackage
<1>5. CASE UNCHANGED vars
  BY <1>5 DEF vars
<1>6. QED
  BY <1>1, <1>2, <1>3, <1>4, <1>5 DEF Next

LEMMA NextBacklog == Pointers /\ Backlog /\ [Next]_vars => Backlog'
<1> SUFFICES ASSUME Pointers, Backlog, [Next]_vars PROVE Backlog'
  OBVIOUS
<1>1. ASSUME NEW w \in Workers, Accept(w) PROVE Backlog'
  <2> DEFINE c == Head(backlog)
  <2>1. /\ c \in Conns /\ 1 \in DOMAIN backlog /\ c = backlog[1]
        /\ backlog' \in Seq(Conns) /\ DOMAIN backlog' \subseteq Nat
        /\ \A i \in DOMAIN backlog' :
              i + 1 \in DOMAIN backlog /\ i + 1 # 1 /\ backlog'[i] = backlog[i + 1]
    BY <1>1, TailFacts DEF Accept, Backlog
  <2>2. obj' = [obj EXCEPT ![c] = "live"] /\ UNCHANGED net
    BY <1>1 DEF Accept, NewClientSocket
  <2>3. \A i \in DOMAIN backlog' : backlog'[i] # c /\ obj'[backlog'[i]] = "none"
    BY <2>1, <2>2 DEF Backlog, Pointers
  <2>4. \A i, j \in DOMAIN backlog' : backlog'[i] = backlog'[j] => i = j
    <3>1. \A i, j \in DOMAIN backlog' : backlog'[i] = backlog'[j] => i + 1 = j + 1
      BY <2>1 DEF Backlog
    <3>2. QED
      BY <2>1, <3>1
  <2>5. QED
    BY <2>1, <2>2, <2>3, <2>4 DEF Backlog, Pointers
<1>2. ASSUME NEW w \in Workers, Delete(w) PROVE Backlog'
  <2>1. cs[w] \in Conns /\ obj[cs[w]] = "live"
    BY <1>2 DEF Delete, Alive, Pointers, UsesSocket
  <2>2. obj' = [obj EXCEPT ![cs[w]] = "freed"] /\ UNCHANGED <<net, backlog>>
    BY <1>2 DEF Delete, peerVars
  <2>3. QED
    BY <2>1, <2>2 DEF Backlog, Pointers
<1>3. ASSUME NEW c \in Conns, PeerConnects(c) PROVE Backlog'
  <2>1. /\ backlog' \in Seq(Conns)
        /\ DOMAIN backlog' = DOMAIN backlog \cup {Len(backlog) + 1}
        /\ \A i \in DOMAIN backlog : backlog'[i] = backlog[i]
        /\ backlog'[Len(backlog) + 1] = c
    BY <1>3, AppendFacts DEF PeerConnects, Backlog
  <2>2. obj[c] = "none" /\ \A i \in DOMAIN backlog : backlog[i] # c
    BY <1>3 DEF PeerConnects, Backlog, Pointers
  <2>3. net' = [net EXCEPT ![c] = "open"] /\ UNCHANGED obj
    BY <1>3 DEF PeerConnects, objVars
  <2>4. \A i, j \in DOMAIN backlog' : backlog'[i] = backlog'[j] => i = j
    BY <2>1, <2>2 DEF Backlog
  <2>5. QED
    BY <2>1, <2>2, <2>3, <2>4 DEF Backlog
<1>4. ASSUME NEW c \in Conns, PeerLeaves(c) PROVE Backlog'
  BY <1>4 DEF PeerLeaves, objVars, Backlog
<1>5. CASE UNCHANGED <<net, backlog, obj>>
  BY <1>5 DEF Backlog
<1>6. QED
  BY <1>1, <1>2, <1>3, <1>4, <1>5, ObjectsStep, BacklogStep

-----------------------------------------------------------------------------
(* Registered *)

LEMMA InitRegistered == Init => Registered
<1> SUFFICES ASSUME Init PROVE Registered
  OBVIOUS
<1>1. /\ \A c \in Conns : obj[c] = "none" /\ ~m_CfdIsRead[c] /\ ~m_CfdIsWrite[c]
      /\ m_CfdIsRead \in [Conns -> BOOLEAN]
      /\ m_CfdIsWrite \in [Conns -> BOOLEAN]
  BY DEF Init
<1>2. /\ reg \in [Handles -> [ptr : Conns \cup {Listen, Nobody},
                              in : BOOLEAN, out : BOOLEAN]]
      /\ \A f \in Fds : reg[f] = Off
  BY HandlesAssumption DEF Init, Off, Entry
<1>3. QED
  BY <1>1, <1>2 DEF Registered, RegMatchesFlags, Live, FreeFds

\* What the five functions that call epoll_ctl for a ClientSocket have in
\* common: afterwards the registration is what the flags say.
Ctl(c) ==
    /\ m_CfdIsRead' \in [Conns -> BOOLEAN]
    /\ m_CfdIsWrite' \in [Conns -> BOOLEAN]
    /\ \A d \in Conns \ {c} :
          m_CfdIsRead'[d] = m_CfdIsRead[d] /\ m_CfdIsWrite'[d] = m_CfdIsWrite[d]
    /\ reg' = [reg EXCEPT ![cfd[c]] =
                  IF m_CfdIsRead'[c] \/ m_CfdIsWrite'[c]
                  THEN Entry(c, m_CfdIsWrite'[c], m_CfdIsRead'[c]) ELSE Off]

\* An entry of c is not the entry of nobody, so MOD finds it.
LEMMA EntryIsOn ==
    ASSUME NEW c \in Conns, NEW out \in BOOLEAN, NEW in \in BOOLEAN
    PROVE  Entry(c, out, in) # Off
  BY ConnsAssumption DEF Entry, Off

LEMMA CtlAddRead ==
    ASSUME Pointers, Registered, NEW c \in Conns, Live(c),
           EPollAddClientRead(c), UNCHANGED m_CfdIsWrite
    PROVE  Ctl(c)
<1>1. cfd[c] \in Handles
  BY HandlesAssumption DEF Pointers, Live
<1>2. reg[cfd[c]] = IF m_CfdIsRead[c] \/ m_CfdIsWrite[c]
                    THEN Entry(c, m_CfdIsWrite[c], m_CfdIsRead[c]) ELSE Off
  BY DEF Registered, RegMatchesFlags
<1>3. CASE m_CfdIsRead[c] = TRUE
  BY <1>1, <1>2, <1>3 DEF EPollAddClientRead, epollVars, Ctl, Registered
<1>4. CASE m_CfdIsRead[c] = FALSE /\ m_CfdIsWrite[c] = TRUE
  <2>1. reg[cfd[c]] # Off
    BY <1>2, <1>4, EntryIsOn
  <2>2. /\ m_CfdIsRead' = [m_CfdIsRead EXCEPT ![c] = TRUE]
        /\ reg' = [reg EXCEPT ![cfd[c]] = Entry(c, TRUE, TRUE)]
    BY <1>4, <2>1 DEF EPollAddClientRead, ChangeClient, Change, Set
  <2>3. QED
    BY <1>4, <2>2 DEF Ctl, Registered
<1>5. CASE m_CfdIsRead[c] = FALSE /\ m_CfdIsWrite[c] = FALSE
  <2>1. /\ m_CfdIsRead' = [m_CfdIsRead EXCEPT ![c] = TRUE]
        /\ reg' = [reg EXCEPT ![cfd[c]] = Entry(c, FALSE, TRUE)]
    BY <1>2, <1>5 DEF EPollAddClientRead, AddClient, Add, Set
  <2>2. QED
    BY <1>5, <2>1 DEF Ctl, Registered
<1>6. QED
  BY <1>3, <1>4, <1>5 DEF Registered

LEMMA CtlAddWrite ==
    ASSUME Pointers, Registered, NEW c \in Conns, Live(c),
           EPollAddClientWrite(c), UNCHANGED m_CfdIsRead
    PROVE  Ctl(c)
<1>1. cfd[c] \in Handles
  BY HandlesAssumption DEF Pointers, Live
<1>2. reg[cfd[c]] = IF m_CfdIsRead[c] \/ m_CfdIsWrite[c]
                    THEN Entry(c, m_CfdIsWrite[c], m_CfdIsRead[c]) ELSE Off
  BY DEF Registered, RegMatchesFlags
<1>3. CASE m_CfdIsWrite[c] = TRUE
  BY <1>1, <1>2, <1>3 DEF EPollAddClientWrite, epollVars, Ctl, Registered
<1>4. CASE m_CfdIsWrite[c] = FALSE /\ m_CfdIsRead[c] = TRUE
  <2>1. reg[cfd[c]] # Off
    BY <1>2, <1>4, EntryIsOn
  <2>2. /\ m_CfdIsWrite' = [m_CfdIsWrite EXCEPT ![c] = TRUE]
        /\ reg' = [reg EXCEPT ![cfd[c]] = Entry(c, TRUE, TRUE)]
    BY <1>4, <2>1 DEF EPollAddClientWrite, ChangeClient, Change, Set
  <2>3. QED
    BY <1>4, <2>2 DEF Ctl, Registered
<1>5. CASE m_CfdIsWrite[c] = FALSE /\ m_CfdIsRead[c] = FALSE
  <2>1. /\ m_CfdIsWrite' = [m_CfdIsWrite EXCEPT ![c] = TRUE]
        /\ reg' = [reg EXCEPT ![cfd[c]] = Entry(c, TRUE, FALSE)]
    BY <1>2, <1>5 DEF EPollAddClientWrite, AddClient, Add, Set
  <2>2. QED
    BY <1>5, <2>1 DEF Ctl, Registered
<1>6. QED
  BY <1>3, <1>4, <1>5 DEF Registered

LEMMA CtlDelRead ==
    ASSUME Pointers, Registered, NEW c \in Conns, Live(c),
           EPollDelClientRead(c), UNCHANGED m_CfdIsWrite
    PROVE  Ctl(c)
<1>1. cfd[c] \in Handles
  BY HandlesAssumption DEF Pointers, Live
<1>2. reg[cfd[c]] = IF m_CfdIsRead[c] \/ m_CfdIsWrite[c]
                    THEN Entry(c, m_CfdIsWrite[c], m_CfdIsRead[c]) ELSE Off
  BY DEF Registered, RegMatchesFlags
<1>3. CASE m_CfdIsRead[c] = FALSE
  BY <1>1, <1>2, <1>3 DEF EPollDelClientRead, epollVars, Ctl, Registered
<1>4. CASE m_CfdIsRead[c] = TRUE /\ m_CfdIsWrite[c] = TRUE
  <2>1. reg[cfd[c]] # Off
    BY <1>2, <1>4, EntryIsOn
  <2>2. /\ m_CfdIsRead' = [m_CfdIsRead EXCEPT ![c] = FALSE]
        /\ reg' = [reg EXCEPT ![cfd[c]] = Entry(c, TRUE, FALSE)]
    BY <1>4, <2>1 DEF EPollDelClientRead, ChangeClient, Change, Set
  <2>3. QED
    BY <1>4, <2>2 DEF Ctl, Registered
<1>5. CASE m_CfdIsRead[c] = TRUE /\ m_CfdIsWrite[c] = FALSE
  <2>1. /\ m_CfdIsRead' = [m_CfdIsRead EXCEPT ![c] = FALSE]
        /\ reg' = [reg EXCEPT ![cfd[c]] = Off]
    BY <1>5 DEF EPollDelClientRead, Remove
  <2>2. QED
    BY <1>5, <2>1 DEF Ctl, Registered
<1>6. QED
  BY <1>3, <1>4, <1>5 DEF Registered

LEMMA CtlDelWrite ==
    ASSUME Pointers, Registered, NEW c \in Conns, Live(c),
           EPollDelClientWrite(c), UNCHANGED m_CfdIsRead
    PROVE  Ctl(c)
<1>1. cfd[c] \in Handles
  BY HandlesAssumption DEF Pointers, Live
<1>2. reg[cfd[c]] = IF m_CfdIsRead[c] \/ m_CfdIsWrite[c]
                    THEN Entry(c, m_CfdIsWrite[c], m_CfdIsRead[c]) ELSE Off
  BY DEF Registered, RegMatchesFlags
<1>3. CASE m_CfdIsWrite[c] = FALSE
  BY <1>1, <1>2, <1>3 DEF EPollDelClientWrite, epollVars, Ctl, Registered
<1>4. CASE m_CfdIsWrite[c] = TRUE /\ m_CfdIsRead[c] = TRUE
  <2>1. reg[cfd[c]] # Off
    BY <1>2, <1>4, EntryIsOn
  <2>2. /\ m_CfdIsWrite' = [m_CfdIsWrite EXCEPT ![c] = FALSE]
        /\ reg' = [reg EXCEPT ![cfd[c]] = Entry(c, FALSE, TRUE)]
    BY <1>4, <2>1 DEF EPollDelClientWrite, ChangeClient, Change, Set
  <2>3. QED
    BY <1>4, <2>2 DEF Ctl, Registered
<1>5. CASE m_CfdIsWrite[c] = TRUE /\ m_CfdIsRead[c] = FALSE
  <2>1. /\ m_CfdIsWrite' = [m_CfdIsWrite EXCEPT ![c] = FALSE]
        /\ reg' = [reg EXCEPT ![cfd[c]] = Off]
    BY <1>5 DEF EPollDelClientWrite, Remove
  <2>2. QED
    BY <1>5, <2>1 DEF Ctl, Registered
<1>6. QED
  BY <1>3, <1>4, <1>5 DEF Registered

LEMMA CtlDel ==
    ASSUME Registered, NEW c \in Conns, EPollDelClient(c)
    PROVE  Ctl(c)
<1>1. /\ m_CfdIsRead' = [m_CfdIsRead EXCEPT ![c] = FALSE]
      /\ m_CfdIsWrite' = [m_CfdIsWrite EXCEPT ![c] = FALSE]
      /\ reg' = [reg EXCEPT ![cfd[c]] = Off]
  BY DEF EPollDelClient, Remove
<1>2. QED
  BY <1>1 DEF Ctl, Registered

\* The registrations of the clients stay as they are.
ClientsKept ==
    /\ reg' \in [Handles -> [ptr : Conns \cup {Listen, Nobody},
                             in : BOOLEAN, out : BOOLEAN]]
    /\ \A f \in Fds : reg'[f] = reg[f]
    /\ UNCHANGED <<m_CfdIsRead, m_CfdIsWrite>>

\* What a step does to the registrations: nothing to those of clients, or it
\* is a call for one object that exists, or an object is made or deleted.
LEMMA RegisteredStep ==
    ASSUME Pointers, Registered, [Next]_vars
    PROVE  \/ UNCHANGED <<obj, cfd>> /\ ClientsKept
           \/ UNCHANGED <<obj, cfd>> /\ \E c \in Conns : Live(c) /\ Ctl(c)
           \/ \E w \in Workers : Accept(w) \/ Delete(w)
<1> USE DEF objVars, epollVars
<1>1. UNCHANGED <<reg, m_CfdIsRead, m_CfdIsWrite>> => ClientsKept
  BY DEF ClientsKept, Registered
<1>2. CASE Peers
  BY <1>1, <1>2 DEF Peers, PeerConnects, PeerSends, PeerReads, PeerLeaves
<1>3. CASE EpollThread
  <2>1. CASE EpollWait
    BY <1>1, <2>1 DEF EpollWait
  <2>2. ASSUME NEW e \in batch, EventListen(e)
        PROVE  UNCHANGED <<obj, cfd>> /\ ClientsKept
    <3>1. /\ reg' = [reg EXCEPT ![Listen] = Off]
          /\ UNCHANGED <<obj, cfd, m_CfdIsRead, m_CfdIsWrite>>
      BY <2>2 DEF EventListen, Remove
    <3>2. Off \in [ptr : Conns \cup {Listen, Nobody}, in : BOOLEAN, out : BOOLEAN]
      BY DEF Off
    <3>3. QED
      BY <3>1, <3>2, HandlesAssumption DEF ClientsKept, Registered
  <2>3. ASSUME NEW e \in batch, EventRead(e) \/ EventWrite(e)
        PROVE  UNCHANGED <<obj, cfd>> /\ \E c \in Conns : Live(c) /\ Ctl(c)
    <3>1. /\ e.ptr \in Conns /\ Live(e.ptr) /\ UNCHANGED <<obj, cfd>>
          /\ \/ EPollDelClientRead(e.ptr) /\ UNCHANGED m_CfdIsWrite
             \/ EPollDelClientWrite(e.ptr) /\ UNCHANGED m_CfdIsRead
      BY <2>3 DEF EventRead, EventWrite, Live
    <3>2. QED
      BY <3>1, CtlDelRead, CtlDelWrite
  <2>4. QED
    BY <1>3, <2>1, <2>2, <2>3 DEF EpollThread
<1>4. ASSUME NEW w \in Workers, Worker(w), ~Accept(w), ~Delete(w)
      PROVE  \/ UNCHANGED <<obj, cfd>> /\ ClientsKept
             \/ UNCHANGED <<obj, cfd>> /\ \E c \in Conns : Live(c) /\ Ctl(c)
  <2>1. at[w] \in UsesSocket => cs[w] \in Conns
    BY DEF Pointers
  <2>2. CASE Watch(w) \/ Rewatch(w) \/ Tell(w) \/ Rewrite(w) \/ Unwatch(w)
    <3>1. /\ cs[w] \in Conns /\ Live(cs[w]) /\ UNCHANGED <<obj, cfd>>
          /\ \/ EPollAddClientRead(cs[w]) /\ UNCHANGED m_CfdIsWrite
             \/ EPollAddClientWrite(cs[w]) /\ UNCHANGED m_CfdIsRead
             \/ EPollDelClientWrite(cs[w]) /\ UNCHANGED m_CfdIsRead
             \/ EPollDelClient(cs[w])
      BY <2>1, <2>2 DEF Watch, Rewatch, Tell, Rewrite, Unwatch, Alive, Live, UsesSocket
    <3>2. QED
      BY <3>1, CtlAddRead, CtlAddWrite, CtlDelWrite, CtlDel
  <2>3. CASE Relisten(w)
    <3>1. /\ reg' = [reg EXCEPT ![Listen] = Entry(Listen, FALSE, TRUE)] \/ reg' = reg
          /\ UNCHANGED <<obj, cfd, m_CfdIsRead, m_CfdIsWrite>>
      BY <2>3 DEF Relisten, Add, Set
    <3>2. Entry(Listen, FALSE, TRUE) \in
             [ptr : Conns \cup {Listen, Nobody}, in : BOOLEAN, out : BOOLEAN]
      BY DEF Entry
    <3>3. QED
      BY <3>1, <3>2, HandlesAssumption DEF ClientsKept, Registered
  <2>4. CASE ~(\/ Watch(w) \/ Rewatch(w) \/ Tell(w) \/ Rewrite(w) \/ Unwatch(w)
               \/ Relisten(w))
    BY <1>1, <1>4, <2>4 DEF Worker, TakeTask, AcceptNone, Announce, RecvData,
       RecvClose, RecvNone, Send, SendFails, Lookup, AppendPackage, Erase, Farewell
  <2>5. QED
    BY <2>2, <2>3, <2>4
<1>5. ASSUME NEW s \in Senders, Handler(s)
      PROVE  UNCHANGED <<obj, cfd>> /\ ClientsKept
  BY <1>1, <1>5 DEF Handler, SendPackage, SubmitPackage
<1>6. CASE UNCHANGED vars
  BY <1>1, <1>6 DEF vars
<1>7. QED
  BY <1>2, <1>3, <1>4, <1>5, <1>6 DEF Next

LEMMA NextRegistered ==
    Pointers /\ Backlog /\ Registered /\ [Next]_vars => Registered'
<1> SUFFICES ASSUME Pointers, Backlog, Registered, [Next]_vars PROVE Registered'
  OBVIOUS
<1>1. Off \in [ptr : Conns \cup {Listen, Nobody}, in : BOOLEAN, out : BOOLEAN]
  BY DEF Off
<1>2. CASE UNCHANGED <<obj, cfd>> /\ ClientsKept
  <2>1. \A c \in Conns : Live(c) => reg'[cfd[c]] = reg[cfd[c]]
    BY <1>2 DEF ClientsKept, Pointers, Live
  <2>2. FreeFds' = FreeFds /\ FreeFds \subseteq Fds
    BY <1>2 DEF FreeFds
  <2>3. QED
    BY <1>2, <2>1, <2>2 DEF Registered, RegMatchesFlags, ClientsKept, Live
<1>3. ASSUME NEW c \in Conns, Live(c), Ctl(c), UNCHANGED <<obj, cfd>>
      PROVE  Registered'
  <2> DEFINE entry(d) == IF m_CfdIsRead[d] \/ m_CfdIsWrite[d]
                         THEN Entry(d, m_CfdIsWrite[d], m_CfdIsRead[d]) ELSE Off
  <2>1. cfd[c] \in Handles /\ cfd[c] \in Fds
    BY <1>3, HandlesAssumption DEF Pointers, Live
  <2>2. entry(c)' \in [ptr : Conns \cup {Listen, Nobody}, in : BOOLEAN, out : BOOLEAN]
    <3>1. m_CfdIsRead'[c] \in BOOLEAN /\ m_CfdIsWrite'[c] \in BOOLEAN
      BY <1>3 DEF Ctl
    <3>2. QED
      BY <1>1, <3>1 DEF Entry
  <2>3. reg' = [reg EXCEPT ![cfd[c]] = entry(c)']
    BY <1>3 DEF Ctl
  <2>4. /\ reg' \in [Handles -> [ptr : Conns \cup {Listen, Nobody},
                                 in : BOOLEAN, out : BOOLEAN]]
        /\ reg'[cfd[c]] = entry(c)'
        /\ \A f \in Fds : f # cfd[c] => reg'[f] = reg[f]
    <3> HIDE DEF entry
    <3>1. QED
      BY <2>1, <2>2, <2>3, HandlesAssumption DEF Registered
  <2>5. ASSUME NEW d \in Conns, Live(d)' PROVE reg'[cfd'[d]] = entry(d)'
    <3>1. CASE d = c
      BY <1>3, <2>4, <3>1
    <3>2. CASE d # c
      <4>1. cfd[d] # cfd[c] /\ cfd[d] \in Fds /\ Live(d)
        BY <1>3, <2>5, <3>2 DEF Registered, Pointers, Live
      <4>2. reg[cfd[d]] = entry(d) /\ entry(d)' = entry(d)
        BY <1>3, <3>2, <4>1 DEF Registered, RegMatchesFlags, Ctl
      <4>3. QED
        BY <1>3, <2>4, <4>1, <4>2
    <3>3. QED
      BY <3>1, <3>2
  <2>6. RegMatchesFlags'
    BY <2>5 DEF RegMatchesFlags
  <2>7. \A f \in FreeFds' : reg'[f] = Off
    <3>1. FreeFds' = FreeFds /\ cfd[c] \notin FreeFds /\ FreeFds \subseteq Fds
      BY <1>3 DEF FreeFds, Live
    <3>2. QED
      BY <2>4, <3>1 DEF Registered
  <2>8. \A d \in Conns : obj'[d] = "none" => ~m_CfdIsRead'[d] /\ ~m_CfdIsWrite'[d]
    BY <1>3 DEF Registered, Ctl, Live
  <2>9. QED
    BY <1>3, <2>4, <2>6, <2>7, <2>8 DEF Registered, Ctl, Live
<1>4. ASSUME NEW w \in Workers, Accept(w) PROVE Registered'
  <2> DEFINE c == Head(backlog)
  <2>1. c \in Conns /\ obj[c] = "none"
    BY <1>4, TailFacts DEF Accept, Backlog
  <2>2. PICK f \in FreeFds :
           /\ obj' = [obj EXCEPT ![c] = "live"] /\ cfd' = [cfd EXCEPT ![c] = f]
           /\ UNCHANGED <<m_CfdIsRead, m_CfdIsWrite, reg>>
    BY <1>4 DEF Accept, NewClientSocket, epollVars
  <2> HIDE DEF c
  <2>3. /\ \A d \in Conns \ {c} : obj'[d] = obj[d] /\ cfd'[d] = cfd[d]
        /\ obj'[c] = "live" /\ cfd'[c] = f
    BY <2>1, <2>2 DEF Pointers
  <2>4. \A d \in Conns \ {c} : Live(d) => cfd[d] # f
    BY <2>2 DEF FreeFds, Live
  <2>5. FreeFds' \subseteq FreeFds
    BY <2>1, <2>3 DEF FreeFds
  <2>6. reg[f] = Off /\ ~m_CfdIsRead[c] /\ ~m_CfdIsWrite[c]
    BY <2>1, <2>2 DEF Registered
  <2>7. RegMatchesFlags'
    BY <2>1, <2>2, <2>3, <2>6 DEF Registered, RegMatchesFlags, Live
  <2>8. QED
    BY <2>1, <2>2, <2>3, <2>4, <2>5, <2>7 DEF Registered, Live
<1>5. ASSUME NEW w \in Workers, Delete(w) PROVE Registered'
  <2> DEFINE c == cs[w]
  <2>1. c \in Conns /\ Live(c) /\ cfd[c] \in Fds
    BY <1>5 DEF Delete, Alive, Live, Pointers, UsesSocket
  <2>2. /\ obj' = [obj EXCEPT ![c] = "freed"] /\ reg' = [reg EXCEPT ![cfd[c]] = Off]
        /\ UNCHANGED <<cfd, m_CfdIsRead, m_CfdIsWrite>>
    BY <1>5 DEF Delete, Remove
  <2> HIDE DEF c
  <2>3. /\ reg' \in [Handles -> [ptr : Conns \cup {Listen, Nobody},
                                 in : BOOLEAN, out : BOOLEAN]]
        /\ reg'[cfd[c]] = Off
        /\ \A f \in Fds : f # cfd[c] => reg'[f] = reg[f]
    BY <1>1, <2>1, <2>2, HandlesAssumption DEF Registered
  <2>4. /\ \A d \in Conns \ {c} : obj'[d] = obj[d]
        /\ obj'[c] = "freed"
    BY <2>1, <2>2 DEF Pointers
  <2>5. FreeFds' \subseteq FreeFds \cup {cfd[c]} /\ FreeFds \subseteq Fds
    BY <2>1, <2>2, <2>4 DEF FreeFds
  <2>6. \A d \in Conns : Live(d)' => d # c /\ Live(d) /\ cfd[d] # cfd[c] /\ cfd[d] \in Fds
    BY <2>1, <2>4 DEF Live, Registered, Pointers
  <2>7. RegMatchesFlags'
    BY <2>2, <2>3, <2>6 DEF Registered, RegMatchesFlags
  <2>8. \A f \in FreeFds' : reg'[f] = Off
    BY <2>3, <2>5 DEF Registered
  <2>9. \A d \in Conns : obj'[d] = "none" => obj[d] = "none"
    BY <2>4
  <2>10. QED
    BY <2>2, <2>3, <2>6, <2>7, <2>8, <2>9 DEF Registered
<1>6. QED
  BY <1>2, <1>3, <1>4, <1>5, RegisteredStep

-----------------------------------------------------------------------------
(* Events *)

LEMMA InitEvents == Init => Events
  BY HandlesAssumption DEF Init, Events

\* A descriptor that is registered has one owner, whose flags it follows.
LEMMA RegisteredOwner ==
    ASSUME Registered, Events, NEW h \in Handles, reg[h] # Off
    PROVE  \/ h = Listen /\ reg[h] = Entry(Listen, FALSE, TRUE)
           \/ \E c \in Conns :
                /\ Live(c) /\ cfd[c] = h
                /\ reg[h] = Entry(c, m_CfdIsWrite[c], m_CfdIsRead[c])
<1>1. CASE h = Listen
  BY <1>1 DEF Events
<1>2. CASE h \in Fds
  <2>1. PICK c \in Conns : Live(c) /\ cfd[c] = h
    BY <1>2 DEF Registered, FreeFds, Live
  <2>2. QED
    BY <2>1 DEF Registered, RegMatchesFlags
<1>3. QED
  BY <1>1, <1>2, HandlesAssumption

\* What epoll_wait reports comes from a registration, and asks no more than
\* is registered.
LEMMA ReportedFacts ==
    ASSUME Registered, Events, NEW readable, NEW writable
    PROVE  /\ \A e \in Reported(readable, writable) :
                 \/ e.ptr = Listen
                 \/ e.ptr \in Conns /\ Live(e.ptr) /\ (e.isRead => m_CfdIsRead[e.ptr])
           /\ \A d, e \in Reported(readable, writable) : d.ptr = e.ptr => d = e
<1> DEFINE report(h) == [ptr |-> reg[h].ptr,
                         isRead |-> reg[h].in /\ h \in readable,
                         isWrite |-> reg[h].out /\ h \in writable]
<1>1. ASSUME NEW e \in Reported(readable, writable)
      PROVE  \E h \in Handles : reg[h] # Off /\ e = report(h)
  <2>1. PICK h \in ready : (reg[h].in \/ reg[h].out) /\ e = report(h)
    BY DEF Reported
  <2>2. h \in Handles /\ reg[h] # Off
    BY <2>1 DEF Events, Off
  <2>3. QED
    BY <2>1, <2>2
<1>2. \A h \in Handles : /\ report(h).ptr = reg[h].ptr
                         /\ report(h).isRead => reg[h].in
  <2> SUFFICES ASSUME NEW h \in Handles
               PROVE  /\ report(h).ptr = reg[h].ptr
                      /\ report(h).isRead => reg[h].in
    OBVIOUS
  <2>1. report(h).ptr = reg[h].ptr
    BY Zenon
  <2>2. report(h).isRead => reg[h].in
    BY Zenon
  <2>3. QED
    BY <2>1, <2>2
<1> HIDE DEF report
<1>3. ASSUME NEW h \in Handles, reg[h] # Off
      PROVE  \/ h = Listen /\ reg[h].ptr = Listen
             \/ \E c \in Conns : /\ Live(c) /\ cfd[c] = h
                                 /\ reg[h].ptr = c /\ (reg[h].in => m_CfdIsRead[c])
  <2>1. CASE h = Listen /\ reg[h] = Entry(Listen, FALSE, TRUE)
    BY <2>1 DEF Entry
  <2>2. ASSUME NEW c \in Conns, Live(c), cfd[c] = h,
               reg[h] = Entry(c, m_CfdIsWrite[c], m_CfdIsRead[c])
        PROVE  reg[h].ptr = c /\ (reg[h].in => m_CfdIsRead[c])
    <3>1. reg[h].ptr = c
      BY <2>2 DEF Entry
    <3>2. reg[h].in = m_CfdIsRead[c]
      BY <2>2 DEF Entry
    <3>3. QED
      BY <3>1, <3>2
  <2>3. QED
    BY <1>3, <2>1, <2>2, RegisteredOwner
<1>4. \A g, h \in Handles :
         reg[g] # Off /\ reg[h] # Off /\ reg[g].ptr = reg[h].ptr => g = h
  BY <1>3, ConnsAssumption
<1>5. QED
  BY <1>1, <1>2, <1>3, <1>4

\* The kernel's list grows by the listening descriptor or one of an object.
LEMMA ReadyStep ==
    ASSUME Pointers, [Next]_vars
    PROVE  ready' \subseteq ready \cup {Listen} \cup {cfd[c] : c \in {d \in Conns : Live(d)}}
<1> DEFINE G == ready \cup {Listen} \cup {cfd[c] : c \in {d \in Conns : Live(d)}}
<1> USE DEF epollVars
<1>1. CASE Peers
  BY <1>1 DEF Peers, PeerConnects, PeerSends, PeerReads, PeerLeaves, Wake, Live
<1>2. \A c \in Conns : Live(c) /\ (\/ EPollAddClientRead(c) \/ EPollAddClientWrite(c)
                                   \/ EPollDelClientRead(c) \/ EPollDelClientWrite(c)
                                   \/ EPollDelClient(c)) => ready' \subseteq G
  BY DEF EPollAddClientRead, EPollAddClientWrite, EPollDelClientRead,
         EPollDelClientWrite, EPollDelClient, AddClient, ChangeClient,
         Add, Change, Set, Remove
<1>3. CASE EpollThread
  <2>1. CASE EpollWait
    BY <2>1 DEF EpollWait
  <2>2. ASSUME NEW e \in batch, EventListen(e) \/ EventRead(e) \/ EventWrite(e)
        PROVE  ready' \subseteq G
    BY <1>2, <2>2 DEF EventListen, EventRead, EventWrite, Remove, Live
  <2>3. QED
    BY <1>3, <2>1, <2>2 DEF EpollThread
<1>4. ASSUME NEW w \in Workers, Worker(w) PROVE ready' \subseteq G
  <2>1. at[w] \in UsesSocket => cs[w] \in Conns
    BY DEF Pointers
  <2>2. CASE Watch(w) \/ Rewatch(w) \/ Tell(w) \/ Rewrite(w) \/ Unwatch(w)
    BY <1>2, <2>1, <2>2 DEF Watch, Rewatch, Tell, Rewrite, Unwatch, Alive, Live,
       UsesSocket
  <2>3. CASE Relisten(w) \/ Delete(w)
    BY <2>3 DEF Relisten, Delete, Add, Set, Remove
  <2>4. CASE ~(\/ Watch(w) \/ Rewatch(w) \/ Tell(w) \/ Rewrite(w) \/ Unwatch(w)
               \/ Relisten(w) \/ Delete(w))
    BY <1>4, <2>4 DEF Worker, TakeTask, Accept, AcceptNone, Announce, RecvData,
       RecvClose, RecvNone, Send, SendFails, Lookup, AppendPackage, Erase, Farewell
  <2>5. QED
    BY <2>2, <2>3, <2>4
<1>5. ASSUME NEW s \in Senders, Handler(s) PROVE ready' \subseteq G
  BY <1>5 DEF Handler, SendPackage, SubmitPackage
<1>6. CASE UNCHANGED vars
  BY <1>6 DEF vars
<1>7. QED
  BY <1>1, <1>3, <1>4, <1>5, <1>6 DEF Next

\* The listening descriptor's entry is changed by the listener alone.
LEMMA ListenerStep ==
    ASSUME Pointers, Registered, Events, [Next]_vars
    PROVE  \/ reg'[Listen] = reg[Listen]
           \/ reg'[Listen] = Off /\ \E e \in batch : EventListen(e)
           \/ /\ reg'[Listen] = IF reg[Listen] = Off THEN Entry(Listen, FALSE, TRUE)
                                                    ELSE reg[Listen]
              /\ \E w \in Workers : Relisten(w)
<1> USE HandlesAssumption DEF epollVars
<1>1. ASSUME NEW c \in Conns, Live(c), Ctl(c) PROVE reg'[Listen] = reg[Listen]
  <2>1. cfd[c] # Listen
    BY <1>1 DEF Pointers, Live
  <2>2. QED
    BY <1>1, <2>1 DEF Ctl, Registered
<1>2. CASE Peers
  BY <1>2 DEF Peers, PeerConnects, PeerSends, PeerReads, PeerLeaves
<1>3. CASE EpollThread
  <2>1. CASE EpollWait
    BY <2>1 DEF EpollWait
  <2>2. ASSUME NEW e \in batch, EventListen(e) PROVE reg'[Listen] = Off
    BY <2>2 DEF EventListen, Remove, Registered
  <2>3. ASSUME NEW e \in batch, EventRead(e) \/ EventWrite(e)
        PROVE  reg'[Listen] = reg[Listen]
    BY <1>1, <2>3, CtlDelRead, CtlDelWrite DEF EventRead, EventWrite, Live
  <2>4. QED
    BY <1>3, <2>1, <2>2, <2>3 DEF EpollThread
<1>4. ASSUME NEW w \in Workers, Worker(w)
      PROVE  \/ reg'[Listen] = reg[Listen]
             \/ /\ reg'[Listen] = IF reg[Listen] = Off THEN Entry(Listen, FALSE, TRUE)
                                                      ELSE reg[Listen]
                /\ Relisten(w)
  <2>1. at[w] \in UsesSocket => cs[w] \in Conns
    BY DEF Pointers
  <2>2. CASE Watch(w) \/ Rewatch(w) \/ Tell(w) \/ Rewrite(w) \/ Unwatch(w)
    <3>1. cs[w] \in Conns /\ Live(cs[w]) /\ Ctl(cs[w])
      BY <2>1, <2>2, CtlAddRead, CtlAddWrite, CtlDelWrite, CtlDel
      DEF Watch, Rewatch, Tell, Rewrite, Unwatch, Alive, Live, UsesSocket
    <3>2. QED
      BY <1>1, <3>1
  <2>3. CASE Relisten(w)
    BY <2>3 DEF Relisten, Add, Set, Registered
  <2>4. CASE Delete(w)
    <3>1. cfd[cs[w]] # Listen /\ reg' = [reg EXCEPT ![cfd[cs[w]]] = Off]
      BY <2>1, <2>4 DEF Delete, Remove, Alive, UsesSocket, Pointers
    <3>2. QED
      BY <3>1 DEF Registered
  <2>5. CASE ~(\/ Watch(w) \/ Rewatch(w) \/ Tell(w) \/ Rewrite(w) \/ Unwatch(w)
               \/ Relisten(w) \/ Delete(w))
    BY <1>4, <2>5 DEF Worker, TakeTask, Accept, AcceptNone, Announce, RecvData,
       RecvClose, RecvNone, Send, SendFails, Lookup, AppendPackage, Erase, Farewell
  <2>6. QED
    BY <2>2, <2>3, <2>4, <2>5
<1>5. ASSUME NEW s \in Senders, Handler(s) PROVE reg'[Listen] = reg[Listen]
  BY <1>5 DEF Handler, SendPackage, SubmitPackage
<1>6. CASE UNCHANGED vars
  BY <1>6 DEF vars
<1>7. QED
  BY <1>2, <1>3, <1>4, <1>5, <1>6 DEF Next

\* Only epoll_wait adds events, and it does when all have been handled.
LEMMA BatchStep ==
    ASSUME [Next]_vars
    PROVE  EpollWait \/ batch' \subseteq batch
<1>1. CASE Peers
  BY <1>1 DEF Peers, PeerConnects, PeerSends, PeerReads, PeerLeaves
<1>2. CASE EpollThread
  BY <1>2 DEF EpollThread, EventListen, EventRead, EventWrite
<1>3. ASSUME NEW w \in Workers, Worker(w) PROVE batch' = batch
  BY <1>3 DEF Worker, TakeTask, Accept, AcceptNone, Announce, Watch, Relisten,
       RecvData, RecvClose, RecvNone, Rewatch, Send, SendFails, Tell, Rewrite, Lookup,
       AppendPackage, Erase, Unwatch, Farewell, Delete
<1>4. ASSUME NEW s \in Senders, Handler(s) PROVE batch' = batch
  BY <1>4 DEF Handler, SendPackage, SubmitPackage
<1>5. CASE UNCHANGED vars
  BY <1>5 DEF vars
<1>6. QED
  BY <1>1, <1>2, <1>3, <1>4, <1>5 DEF Next

LEMMA NextEvents ==
    Pointers /\ Backlog /\ Registered /\ Events /\ [Next]_vars => Events'
<1> SUFFICES ASSUME Pointers, Backlog, Registered, Events, [Next]_vars PROVE Events'
  OBVIOUS
<1>1. ready' \subseteq Handles
  BY ReadyStep, HandlesAssumption DEF Events, Pointers, Live
<1>2. reg'[Listen] \in {Off, Entry(Listen, FALSE, TRUE)}
  BY ListenerStep DEF Events, Off, Entry
<1>3. \A c \in Conns : obj[c] # "none" => obj'[c] # "none"
  <2>1. ASSUME NEW w \in Workers, Accept(w) PROVE <1>3
    <3>1. Head(backlog) \in Conns /\ obj' = [obj EXCEPT ![Head(backlog)] = "live"]
      BY <2>1, TailFacts DEF Accept, NewClientSocket, Backlog
    <3>2. QED
      BY <3>1 DEF Pointers
  <2>2. ASSUME NEW w \in Workers, Delete(w) PROVE <1>3
    BY <2>2 DEF Delete, Pointers
  <2>3. QED
    BY <2>1, <2>2, ObjectsStep
<1>4. CASE batch' \subseteq batch
  BY <1>1, <1>2, <1>3, <1>4 DEF Events
<1>5. CASE EpollWait
  <2>1. batch' = Reported(ReadableFds, WritableFds) /\ UNCHANGED obj
    BY <1>5 DEF EpollWait, objVars
  <2>2. /\ \A d, e \in batch' : d.ptr = e.ptr => d = e
        /\ \A e \in batch' : e.ptr \in Conns => obj'[e.ptr] # "none"
    BY <2>1, ReportedFacts, ConnsAssumption DEF Live
  <2>3. QED
    BY <1>1, <1>2, <2>2 DEF Events
<1>6. QED
  BY <1>4, <1>5, BatchStep

-----------------------------------------------------------------------------
(* The theorem about registrations *)

Inv == Pointers /\ Backlog /\ Registered /\ Events

LEMMA InitInv == Init => Inv
  BY InitPointers, InitBacklog, InitRegistered, InitEvents DEF Inv

LEMMA NextInv == Inv /\ [Next]_vars => Inv'
  BY NextPointers, NextBacklog, NextRegistered, NextEvents DEF Inv

\* The four layers together are inductive: pointers lead to objects, accept()
\* makes an object nobody knows, registrations agree with the flags, and epoll
\* reports what exists (SocketControl.cpp 102-223 and 293-371).
THEOREM Invariance == SafeSpec => []Inv
  BY InitInv, NextInv, PTL DEF SafeSpec

\* For any number of threads and connections, and with descriptors reused at
\* once: what epoll watches a descriptor for is what its ClientSocket's two
\* flags say, so every ADD finds the descriptor unregistered and every MOD
\* finds it registered (SocketControl.cpp 293-371).
THEOREM FlagsTrue == SafeSpec => []RegMatchesFlags
<1>1. Inv => RegMatchesFlags
  BY DEF Inv, Registered
<1>2. QED
  BY <1>1, Invariance, PTL

-----------------------------------------------------------------------------
(* The right to read from a connection: epoll, a queued task and a worker  *)
(* hand it to each other, and nobody else ever has it.                     *)

Closing == {"erase", "unwatch", "farewell", "delete"}

\* The places a task leads to.  A worker that comes to erase from a write must
\* not pass for the reader.
JobFits ==
    \A w \in Workers :
        \/ job[w].kind = "none" /\ at[w] = "idle"
        \/ job[w].kind = "accept" /\ at[w] \in {"accept", "announce", "watch", "relisten"}
        \/ job[w].kind = "recv" /\ at[w] \in {"recv", "rewatch"} \cup Closing
        \/ job[w].kind = "flush" /\ at[w] \in {"send", "tell", "rewrite"} \cup Closing
        \/ job[w].kind = "write" /\ at[w] \in {"lookup", "append", "send", "tell"} \cup Closing

\* A step of a worker changes what that worker has, and nobody else's.
LEMMA OnlyItself ==
    ASSUME Pointers, NEW w \in Workers, Worker(w)
    PROVE  \A v \in Workers \ {w} : at'[v] = at[v] /\ job'[v] = job[v] /\ cs'[v] = cs[v]
  BY DEF Pointers, Worker, TakeTask, Accept, AcceptNone, Announce, Watch, Relisten,
       RecvData, RecvClose, RecvNone, Rewatch, Send, SendFails, Tell, Rewrite, Lookup,
       AppendPackage, Erase, Unwatch, Farewell, Delete, Goto, Finish, SendReturns,
       workerVars

LEMMA OthersKeepWorkers ==
    ASSUME [Next]_vars
    PROVE  UNCHANGED workerVars \/ \E w \in Workers : Worker(w)
<1>1. CASE Peers
  BY <1>1 DEF Peers, PeerConnects, PeerSends, PeerReads, PeerLeaves
<1>2. CASE EpollThread
  BY <1>2 DEF EpollThread, EpollWait, EventListen, EventRead, EventWrite
<1>3. ASSUME NEW s \in Senders, Handler(s) PROVE UNCHANGED workerVars
  BY <1>3 DEF Handler, SendPackage, SubmitPackage
<1>4. CASE UNCHANGED vars
  BY <1>4 DEF vars
<1>5. QED
  BY <1>1, <1>2, <1>3, <1>4 DEF Next

\* The task a worker takes leads to its first place.
LEMMA TakenFits ==
    ASSUME Pointers, NEW w \in Workers, TakeTask(w)
    PROVE  /\ Head(queue) \in RealTasks
           /\ job'[w] = Head(queue)
           /\ \/ job'[w].kind = "accept" /\ at'[w] = "accept" /\ cs'[w] = Nobody
              \/ job'[w].kind = "recv" /\ at'[w] = "recv" /\ cs'[w] = job'[w].conn
              \/ job'[w].kind = "flush" /\ at'[w] = "send" /\ cs'[w] = job'[w].conn
              \/ job'[w].kind = "write" /\ at'[w] = "lookup" /\ cs'[w] = Nobody
<1> DEFINE t == Head(queue)
<1>1. t \in RealTasks
  BY TailFacts DEF TakeTask, Pointers
<1>2. t.kind \in {"accept", "recv", "flush", "write"}
  BY <1>1 DEF RealTasks, Tasks, NoTask, Task
<1>3. /\ FirstPlace["accept"] = "accept" /\ FirstPlace["recv"] = "recv"
      /\ FirstPlace["flush"] = "send" /\ FirstPlace["write"] = "lookup"
  BY DEF FirstPlace
<1>4. /\ job'[w] = t /\ at'[w] = FirstPlace[t.kind]
      /\ cs'[w] = IF t.kind \in {"recv", "flush"} THEN t.conn ELSE Nobody
  BY DEF TakeTask, Goto, Pointers
<1> HIDE DEF t
<1>5. QED
  BY <1>1, <1>2, <1>3, <1>4 DEF t

LEMMA InitJobFits == Init => JobFits
  BY DEF Init, JobFits, NoTask, Task

LEMMA NextJobFits == Pointers /\ JobFits /\ [Next]_vars => JobFits'
<1> SUFFICES ASSUME Pointers, JobFits, [Next]_vars PROVE JobFits'
  OBVIOUS
<1> USE DEF JobFits
<1>1. CASE UNCHANGED workerVars
  BY <1>1 DEF workerVars
<1>2. ASSUME NEW w \in Workers, Worker(w) PROVE JobFits'
  <2>1. NoTask.kind = "none"
    BY DEF NoTask, Task
  <2>2. ASSUME \/ job'[w].kind = "none" /\ at'[w] = "idle"
               \/ job'[w].kind = "accept"
                  /\ at'[w] \in {"accept", "announce", "watch", "relisten"}
               \/ job'[w].kind = "recv" /\ at'[w] \in {"recv", "rewatch"} \cup Closing
               \/ job'[w].kind = "flush"
                  /\ at'[w] \in {"send", "tell", "rewrite"} \cup Closing
               \/ job'[w].kind = "write"
                  /\ at'[w] \in {"lookup", "append", "send", "tell"} \cup Closing
        PROVE  JobFits'
    BY <1>2, <2>2, OnlyItself
  <2>3. CASE TakeTask(w)
    BY <2>2, <2>3, TakenFits
  <2>4. CASE Accept(w) \/ AcceptNone(w) \/ Announce(w) \/ Watch(w)
    <3>1. /\ at[w] \in {"accept", "announce", "watch"} /\ job'[w] = job[w]
          /\ at'[w] \in {"announce", "relisten", "watch", "accept"}
      BY <2>4 DEF Accept, AcceptNone, Announce, Watch, Goto, Pointers
    <3>2. job[w].kind = "accept"
      BY <3>1 DEF Closing
    <3>3. QED
      BY <2>2, <3>1, <3>2
  <2>5. CASE RecvData(w) \/ RecvClose(w) \/ RecvNone(w)
    <3>1. at[w] = "recv" /\ job'[w] = job[w] /\ at'[w] \in {"recv", "erase", "rewatch"}
      BY <2>5 DEF RecvData, RecvClose, RecvNone, Goto, Pointers, workerVars
    <3>2. QED
      BY <2>2, <3>1 DEF Closing
  <2>6. CASE Relisten(w) \/ Rewatch(w) \/ Rewrite(w) \/ Delete(w)
    <3>1. Finish(w)
      BY <2>6 DEF Relisten, Rewatch, Rewrite, Delete
    <3>2. job'[w].kind = "none" /\ at'[w] = "idle"
      BY <2>1, <3>1 DEF Finish, Goto, Pointers
    <3>3. QED
      BY <2>2, <3>2
  <2>7. CASE Send(w) \/ SendFails(w) \/ Tell(w)
    <3>1. /\ at[w] \in {"send", "tell"}
          /\ \/ job'[w] = job[w] /\ at'[w] \in {"tell", "erase"}
             \/ job'[w] = job[w] /\ at'[w] = "rewrite" /\ job[w].kind = "flush"
             \/ job'[w] = NoTask /\ at'[w] = "idle"
      BY <2>7 DEF Send, SendFails, Tell, SendReturns, Finish, Goto, Pointers
    <3>2. QED
      BY <2>1, <2>2, <3>1 DEF Closing
  <2>8. CASE Lookup(w) \/ AppendPackage(w)
    <3>1. /\ at[w] \in {"lookup", "append"}
          /\ \/ job'[w] = job[w] /\ at'[w] \in {"append", "send"}
             \/ job'[w] = NoTask /\ at'[w] = "idle"
      BY <2>8 DEF Lookup, AppendPackage, Finish, Goto, Pointers
    <3>2. QED
      BY <2>1, <2>2, <3>1 DEF Closing
  <2>9. CASE Erase(w) \/ Unwatch(w) \/ Farewell(w)
    <3>1. /\ at[w] \in Closing
          /\ \/ job'[w] = job[w] /\ at'[w] \in Closing
             \/ job'[w] = NoTask /\ at'[w] = "idle"
      BY <2>9 DEF Erase, Unwatch, Farewell, Finish, Goto, Pointers, Closing
    <3>2. QED
      BY <2>1, <2>2, <3>1 DEF Closing
  <2>10. QED
    BY <1>2, <2>3, <2>4, <2>5, <2>6, <2>7, <2>8, <2>9 DEF Worker
<1>3. QED
  BY <1>1, <1>2, OthersKeepWorkers

-----------------------------------------------------------------------------
(* The places of one task in the queue *)

\* Where a task is queued.
QueuedAt(u) == {i \in DOMAIN queue : queue[i] = u}

LEMMA AppendedTask ==
    ASSUME Pointers, NEW t \in RealTasks, queue' = Append(queue, t), NEW u
    PROVE  /\ t # u => QueuedAt(u)' = QueuedAt(u)
           /\ t = u /\ QueuedAt(u) = {} => QueuedAt(u)' # {} /\ OnlyOne(QueuedAt(u)')
<1>1. /\ DOMAIN queue' = DOMAIN queue \cup {Len(queue) + 1}
      /\ Len(queue) + 1 \notin DOMAIN queue
      /\ \A i \in DOMAIN queue : queue'[i] = queue[i]
      /\ queue'[Len(queue) + 1] = t
  BY AppendFacts DEF Pointers
<1>2. QED
  BY <1>1 DEF QueuedAt, OnlyOne

LEMMA TakenTask ==
    ASSUME Pointers, queue # <<>>, queue' = Tail(queue), NEW u, OnlyOne(QueuedAt(u))
    PROVE  /\ OnlyOne(QueuedAt(u)')
           /\ Head(queue) # u => (QueuedAt(u)' = {} <=> QueuedAt(u) = {})
           /\ Head(queue) = u => QueuedAt(u) # {} /\ QueuedAt(u)' = {}
<1>1. /\ 1 \in DOMAIN queue /\ Head(queue) = queue[1]
      /\ \A i \in DOMAIN queue' :
            i + 1 \in DOMAIN queue /\ i + 1 # 1 /\ queue'[i] = queue[i + 1]
      /\ \A i \in DOMAIN queue : i # 1 => i - 1 \in DOMAIN queue' /\ queue'[i - 1] = queue[i]
      /\ DOMAIN queue' \subseteq Nat
  BY TailFacts DEF Pointers
<1>2. OnlyOne(QueuedAt(u)')
  <2>1. ASSUME NEW i \in QueuedAt(u)', NEW j \in QueuedAt(u)' PROVE i = j
    <3>1. i + 1 \in QueuedAt(u) /\ j + 1 \in QueuedAt(u) /\ i \in Nat /\ j \in Nat
      BY <1>1, <2>1 DEF QueuedAt
    <3>2. i + 1 = j + 1
      BY <3>1 DEF OnlyOne
    <3>3. QED
      BY <3>1, <3>2
  <2>2. QED
    BY <2>1 DEF OnlyOne
<1>3. \A i \in QueuedAt(u)' : i + 1 \in QueuedAt(u) /\ i + 1 # 1
  BY <1>1 DEF QueuedAt
<1>4. \A i \in QueuedAt(u) : i # 1 => i - 1 \in QueuedAt(u)'
  BY <1>1 DEF QueuedAt
<1>5. 1 \in QueuedAt(u) <=> Head(queue) = u
  BY <1>1 DEF QueuedAt
<1>6. QED
  BY <1>2, <1>3, <1>4, <1>5 DEF OnlyOne

\* The recv tasks of c are the places of one task.
LEMMA RecvIsQueuedAt ==
    ASSUME NEW c
    PROVE  /\ RecvQueued(c) = QueuedAt(Task("recv", c))
           /\ RecvQueued(c)' = QueuedAt(Task("recv", c))'
  BY DEF RecvQueued, QueuedAt

-----------------------------------------------------------------------------
(* The five things a step can do to the right to read from c *)

\* It stays where it is.
Kept(c) ==
    /\ Watched(c)' <=> Watched(c)
    /\ OnlyOne(RecvQueued(c)')
    /\ RecvQueued(c)' = {} <=> RecvQueued(c) = {}
    /\ Readers(c)' = Readers(c)

\* Epoll's thread takes it from epoll and queues it.
Queued(c) ==
    /\ Watched(c) /\ ~Watched(c)'
    /\ RecvQueued(c) = {} => RecvQueued(c)' # {} /\ OnlyOne(RecvQueued(c)')
    /\ Readers(c)' = Readers(c)

\* A worker takes it from the queue.
Taken(c) ==
    /\ Watched(c)' <=> Watched(c)
    /\ RecvQueued(c) # {} /\ RecvQueued(c)' = {}
    /\ \E w \in Workers : Readers(c)' = Readers(c) \cup {w}

\* A worker gives it to epoll.
GivenBack(c) ==
    /\ Watched(c)'
    /\ RecvQueued(c)' = RecvQueued(c)
    /\ \E w \in Readers(c) : Readers(c)' = Readers(c) \ {w}

\* A worker that closes c drops it.
Dropped(c) ==
    /\ Watched(c)' => Watched(c)
    /\ RecvQueued(c)' = RecvQueued(c)
    /\ Readers(c)' \subseteq Readers(c)
    /\ \E w \in Workers :
          /\ cs[w] = c
          /\ \/ at[w] = "unwatch"
             \/ at[w] = "erase" /\ m_ClientFdMap'[cfd[c]] = Nobody

\* Who is a reader depends on what the worker has.
IsReader(w, c) ==
    /\ cs[w] = c
    /\ \/ at[w] \in {"announce", "watch", "recv", "rewatch"}
       \/ at[w] = "erase" /\ job[w].kind = "recv"

LEMMA ReadersAfter ==
    ASSUME Pointers, NEW w \in Workers, Worker(w), NEW c \in Conns
    PROVE  /\ IsReader(w, c)' /\ IsReader(w, c) => Readers(c)' = Readers(c)
           /\ ~IsReader(w, c)' /\ ~IsReader(w, c) => Readers(c)' = Readers(c)
           /\ IsReader(w, c)' => Readers(c)' = Readers(c) \cup {w}
           /\ ~IsReader(w, c)' => Readers(c)' = Readers(c) \ {w}
           /\ IsReader(w, c) <=> w \in Readers(c)
<1>1. \A v \in Workers \ {w} : IsReader(v, c)' <=> IsReader(v, c)
  BY OnlyItself DEF IsReader
<1>2. /\ Readers(c) = {v \in Workers : IsReader(v, c)}
      /\ Readers(c)' = {v \in Workers : IsReader(v, c)'}
  BY DEF Readers, IsReader
<1>3. QED
  BY <1>1, <1>2

\* Flags, events and tasks of c unchanged: what a worker's step means is what
\* it means for that worker.
LEMMA QuietKept ==
    ASSUME NEW c \in Conns, OnlyOne(RecvQueued(c)),
           m_CfdIsRead'[c] = m_CfdIsRead[c],
           UNCHANGED <<batch, queue>>,
           Readers(c)' = Readers(c)
    PROVE  Kept(c)
  BY DEF Kept, Watched, RecvQueued

\* Whatever a worker does that is none of the steps below, c's reader keeps
\* its right.
LEMMA WorkerKept ==
    ASSUME Pointers, JobFits, NEW w \in Workers, Worker(w),
           NEW c \in Conns, OnlyOne(RecvQueued(c)),
           \/ AcceptNone(w) \/ Announce(w) \/ Relisten(w)
           \/ RecvData(w) \/ RecvClose(w) \/ RecvNone(w)
           \/ Send(w) \/ SendFails(w) \/ Tell(w) \/ Rewrite(w)
           \/ Lookup(w) \/ AppendPackage(w) \/ Farewell(w) \/ Delete(w)
    PROVE  Kept(c)
<1>1. UNCHANGED <<m_CfdIsRead, batch, queue>>
  BY DEF AcceptNone, Announce, Relisten, RecvData, RecvClose, RecvNone, Send,
         SendFails, Tell, Rewrite, Lookup, AppendPackage, Farewell, Delete, objVars
<1>2. IsReader(w, c)' <=> IsReader(w, c)
  <2>1. CASE AcceptNone(w) \/ Relisten(w)
    BY <2>1 DEF AcceptNone, Relisten, IsReader, Goto, Finish, Pointers
  <2>2. CASE Announce(w)
    BY <2>2 DEF Announce, IsReader, Goto, Pointers
  <2>3. CASE RecvData(w)
    BY <2>3 DEF RecvData, IsReader, workerVars
  <2>4. CASE RecvClose(w)
    <3>1. job[w].kind = "recv"
      BY <2>4 DEF RecvClose, JobFits, Closing
    <3>2. QED
      BY <2>4, <3>1 DEF RecvClose, IsReader, Goto, Pointers
  <2>5. CASE RecvNone(w)
    BY <2>5 DEF RecvNone, IsReader, Goto, Pointers
  <2>6. CASE Send(w) \/ Tell(w) \/ Rewrite(w)
    <3>1. at[w] \in {"send", "tell", "rewrite"} /\ at'[w] \in {"tell", "rewrite", "idle"}
      BY <2>6 DEF Send, Tell, Rewrite, SendReturns, Goto, Finish, Pointers
    <3>2. QED
      BY <3>1 DEF IsReader
  <2>7. CASE SendFails(w)
    <3>1. job[w].kind # "recv"
      BY <2>7 DEF SendFails, JobFits, Closing
    <3>2. QED
      BY <2>7, <3>1 DEF SendFails, IsReader, Goto, Pointers
  <2>8. CASE Lookup(w) \/ AppendPackage(w)
    <3>1. at[w] \in {"lookup", "append"} /\ at'[w] \in {"append", "send", "idle"}
      BY <2>8 DEF Lookup, AppendPackage, Goto, Finish, Pointers
    <3>2. QED
      BY <3>1 DEF IsReader
  <2>9. CASE Farewell(w) \/ Delete(w)
    <3>1. at[w] \in {"farewell", "delete"} /\ at'[w] \in {"delete", "idle"}
      BY <2>9 DEF Farewell, Delete, Goto, Finish, Pointers
    <3>2. QED
      BY <3>1 DEF IsReader
  <2>10. QED
    BY <2>1, <2>2, <2>3, <2>4, <2>5, <2>6, <2>7, <2>8, <2>9
<1>3. QED
  BY <1>1, <1>2, ReadersAfter, QuietKept

\* A step once c has an object does one of the five.
LEMMA RightMoves ==
    ASSUME Inv, JobFits, [Next]_vars,
           NEW c \in Conns, obj[c] # "none", OnlyOne(RecvQueued(c))
    PROVE  Kept(c) \/ Queued(c) \/ Taken(c) \/ GivenBack(c) \/ Dropped(c)
<1> USE DEF Inv
<1> DEFINE Goal == Kept(c) \/ Queued(c) \/ Taken(c) \/ GivenBack(c) \/ Dropped(c)
<1>1. ASSUME UNCHANGED workerVars PROVE Readers(c)' = Readers(c)
  BY <1>1 DEF workerVars, Readers
<1>2. CASE Peers \/ UNCHANGED vars
  <2>1. UNCHANGED <<m_CfdIsRead, batch, queue, workerVars>>
    BY <1>2 DEF Peers, PeerConnects, PeerSends, PeerReads, PeerLeaves, vars, objVars
  <2>2. QED
    BY <1>1, <2>1, QuietKept
<1>3. CASE EpollThread
  <2>1. Readers(c)' = Readers(c)
    BY <1>1, <1>3 DEF EpollThread, EpollWait, EventListen, EventRead, EventWrite
  <2>2. CASE EpollWait
    <3>1. /\ batch = {} /\ batch' = Reported(ReadableFds, WritableFds)
          /\ UNCHANGED <<m_CfdIsRead, queue>>
      BY <2>2 DEF EpollWait, objVars
    <3>2. \A e \in batch' : e.ptr = c /\ e.isRead => m_CfdIsRead[c]
      BY <3>1, ReportedFacts, ConnsAssumption
    <3>3. Watched(c)' <=> Watched(c)
      BY <3>1, <3>2 DEF Watched
    <3>4. RecvQueued(c)' = RecvQueued(c)
      BY <3>1 DEF RecvQueued
    <3>5. QED
      BY <2>1, <3>3, <3>4 DEF Kept
  <2>3. ASSUME NEW e \in batch, EventListen(e) PROVE Kept(c)
    <3>1. Task("accept", Nobody) \in RealTasks /\ Task("accept", Nobody) # Task("recv", c)
      BY DEF RealTasks, Tasks, Task, NoTask
    <3>2. /\ queue' = Append(queue, Task("accept", Nobody))
          /\ batch' = batch \ {e} /\ e.ptr # c /\ UNCHANGED m_CfdIsRead
      BY <2>3, ConnsAssumption DEF EventListen, objVars
    <3>3. RecvQueued(c)' = RecvQueued(c)
      BY <3>1, <3>2, AppendedTask, RecvIsQueuedAt
    <3>4. Watched(c)' <=> Watched(c)
      BY <3>2 DEF Watched
    <3>5. QED
      BY <2>1, <3>3, <3>4 DEF Kept
  <2>4. ASSUME NEW e \in batch, EventRead(e) PROVE Kept(c) \/ Queued(c)
    <3> DEFINE t == Task("recv", e.ptr)
    <3>1. /\ e.ptr \in Conns /\ e.isRead /\ queue' = Append(queue, t)
          /\ batch' = batch \ {e} /\ EPollDelClientRead(e.ptr)
      BY <2>4 DEF EventRead
    <3>2. t \in RealTasks /\ (t = Task("recv", c) <=> e.ptr = c)
      BY <3>1 DEF RealTasks, Tasks, Task, NoTask
    <3>3. \A d \in Conns : m_CfdIsRead'[d] = IF d = e.ptr THEN FALSE ELSE m_CfdIsRead[d]
      <4>1. m_CfdIsRead \in [Conns -> BOOLEAN]
        BY DEF Registered
      <4>2. \/ m_CfdIsRead' = m_CfdIsRead /\ ~m_CfdIsRead[e.ptr]
            \/ m_CfdIsRead' = [m_CfdIsRead EXCEPT ![e.ptr] = FALSE]
        BY <3>1 DEF EPollDelClientRead
      <4> HIDE DEF t
      <4>3. QED
        BY <4>1, <4>2
    <3> HIDE DEF t
    <3>4. CASE e.ptr = c
      <4>1. Watched(c)
        BY <3>1, <3>4 DEF Watched
      <4>2. ~Watched(c)'
        BY <3>1, <3>3, <3>4 DEF Watched, Events
      <4>3. RecvQueued(c) = {} => RecvQueued(c)' # {} /\ OnlyOne(RecvQueued(c)')
        BY <3>1, <3>2, <3>4, AppendedTask, RecvIsQueuedAt
      <4>4. QED
        BY <2>1, <4>1, <4>2, <4>3 DEF Queued
    <3>5. CASE e.ptr # c
      <4>1. RecvQueued(c)' = RecvQueued(c)
        BY <3>1, <3>2, <3>5, AppendedTask, RecvIsQueuedAt
      <4>2. Watched(c)' <=> Watched(c)
        BY <3>1, <3>3, <3>5 DEF Watched
      <4>3. QED
        BY <2>1, <4>1, <4>2 DEF Kept
    <3>6. QED
      BY <3>4, <3>5
  <2>5. ASSUME NEW e \in batch, EventWrite(e) PROVE Kept(c)
    <3>1. Task("flush", e.ptr) \in RealTasks /\ Task("flush", e.ptr) # Task("recv", c)
      BY <2>5 DEF RealTasks, Tasks, Task, NoTask, EventWrite
    <3>2. /\ queue' = Append(queue, Task("flush", e.ptr))
          /\ batch' = batch \ {e} /\ ~e.isRead /\ UNCHANGED m_CfdIsRead
      BY <2>5 DEF EventWrite
    <3>3. RecvQueued(c)' = RecvQueued(c)
      BY <3>1, <3>2, AppendedTask, RecvIsQueuedAt
    <3>4. Watched(c)' <=> Watched(c)
      BY <3>2 DEF Watched
    <3>5. QED
      BY <2>1, <3>3, <3>4 DEF Kept
  <2>6. QED
    BY <1>3, <2>2, <2>3, <2>4, <2>5 DEF EpollThread
<1>4. ASSUME NEW s \in Senders, Handler(s) PROVE Kept(c)
  <2>1. UNCHANGED <<m_CfdIsRead, batch, workerVars>>
    BY <1>4 DEF Handler, SendPackage, SubmitPackage, objVars
  <2>2. RecvQueued(c)' = RecvQueued(c)
    <3>1. CASE UNCHANGED queue
      BY <3>1 DEF RecvQueued
    <3>2. CASE SubmitPackage(s) /\ queue' = Append(queue, Task("write", sender[s].conn))
      <4>1. /\ Task("write", sender[s].conn) \in RealTasks
            /\ Task("write", sender[s].conn) # Task("recv", c)
        BY <3>2 DEF SubmitPackage, RealTasks, Tasks, Task, NoTask, Pointers
      <4>2. QED
        BY <3>2, <4>1, AppendedTask, RecvIsQueuedAt
    <3>3. QED
      BY <1>4, <3>1, <3>2 DEF Handler, SendPackage, SubmitPackage
  <2>3. QED
    BY <1>1, <2>1, <2>2 DEF Kept, Watched
<1>5. ASSUME NEW w \in Workers, Worker(w) PROVE Goal
  <2>1. CASE TakeTask(w)
    <3>1. /\ queue # <<>> /\ queue' = Tail(queue) /\ at[w] = "idle"
          /\ UNCHANGED <<m_CfdIsRead, batch>>
      BY <2>1 DEF TakeTask, objVars
    <3>2. Watched(c)' <=> Watched(c)
      BY <3>1 DEF Watched
    <3>3. ~IsReader(w, c)
      BY <3>1 DEF IsReader
    <3>4. CASE Head(queue) = Task("recv", c)
      <4>1. IsReader(w, c)'
        <5>1. Head(queue).kind = "recv" /\ Head(queue).conn = c
          BY <3>4 DEF Task
        <5>2. at'[w] = "recv" /\ cs'[w] = c
          BY <2>1, <5>1, TakenFits
        <5>3. QED
          BY <5>2 DEF IsReader
      <4>2. QED
        BY <1>5, <3>1, <3>2, <3>4, <4>1, TakenTask, RecvIsQueuedAt, ReadersAfter DEF Taken
    <3>5. CASE Head(queue) # Task("recv", c)
      <4>1. ~(cs'[w] = c /\ at'[w] = "recv")
        <5>1. Head(queue).kind = "recv" /\ Head(queue).conn = c
                  => Head(queue) = Task("recv", c)
          BY <2>1, TakenFits DEF RealTasks, Tasks, Task, NoTask
        <5>2. QED
          BY <2>1, <3>5, <5>1, TakenFits
      <4>2. ~IsReader(w, c)'
        BY <2>1, <4>1, TakenFits DEF IsReader
      <4>3. QED
        BY <1>5, <3>1, <3>2, <3>3, <3>5, <4>2, TakenTask, RecvIsQueuedAt, ReadersAfter DEF Kept
    <3>6. QED
      BY <3>4, <3>5
  <2>2. CASE Accept(w)
    <3>1. /\ at[w] = "accept" /\ cs'[w] = Head(backlog)
          /\ UNCHANGED <<m_CfdIsRead, batch, queue>>
      BY <2>2 DEF Accept, Pointers
    <3>2. Head(backlog) # c
      BY <2>2, TailFacts DEF Accept, Backlog
    <3>3. ~IsReader(w, c) /\ ~IsReader(w, c)'
      BY <3>1, <3>2 DEF IsReader
    <3>4. QED
      BY <1>5, <3>1, <3>3, ReadersAfter, QuietKept
  <2>3. CASE Watch(w) \/ Rewatch(w)
    <3>1. /\ at[w] \in {"watch", "rewatch"} /\ at'[w] \in {"accept", "idle"}
          /\ EPollAddClientRead(cs[w]) /\ cs[w] \in Conns
          /\ UNCHANGED <<batch, queue>>
      BY <2>3 DEF Watch, Rewatch, Goto, Finish, Pointers, UsesSocket
    <3>2. \A d \in Conns : m_CfdIsRead'[d] = IF d = cs[w] THEN TRUE ELSE m_CfdIsRead[d]
      BY <3>1 DEF EPollAddClientRead, Registered
    <3>3. ~IsReader(w, c)'
      BY <3>1 DEF IsReader
    <3>4. CASE cs[w] = c
      <4>1. w \in Readers(c) /\ Readers(c)' = Readers(c) \ {w}
        BY <1>5, <3>1, <3>3, <3>4, ReadersAfter DEF IsReader
      <4>2. Watched(c)' /\ RecvQueued(c)' = RecvQueued(c)
        BY <3>1, <3>2, <3>4 DEF Watched, RecvQueued
      <4>3. QED
        BY <4>1, <4>2 DEF GivenBack
    <3>5. CASE cs[w] # c
      <4>1. ~IsReader(w, c) /\ m_CfdIsRead'[c] = m_CfdIsRead[c]
        BY <3>2, <3>5 DEF IsReader
      <4>2. QED
        BY <1>5, <3>1, <3>3, <4>1, ReadersAfter, QuietKept
    <3>6. QED
      BY <3>4, <3>5
  <2>4. CASE Erase(w)
    <3>1. /\ at[w] = "erase" /\ cs[w] \in Conns /\ at'[w] \in {"idle", "unwatch"}
          /\ cfd[cs[w]] \in Fds
          /\ UNCHANGED <<m_CfdIsRead, batch, queue>>
      BY <2>4 DEF Erase, Goto, Finish, Pointers, UsesSocket, objVars, Alive
    <3>2. ~IsReader(w, c)'
      BY <3>1 DEF IsReader
    <3>3. CASE cs[w] = c
      <4>1. m_ClientFdMap'[cfd[c]] = Nobody
        BY <2>4, <3>1, <3>3 DEF Erase, Pointers, KnownMap
      <4>2. Watched(c)' <=> Watched(c)
        BY <3>1 DEF Watched
      <4>3. RecvQueued(c)' = RecvQueued(c)
        BY <3>1 DEF RecvQueued
      <4>4. Readers(c)' \subseteq Readers(c)
        BY <1>5, <3>2, ReadersAfter
      <4>5. QED
        BY <3>1, <3>3, <4>1, <4>2, <4>3, <4>4 DEF Dropped
    <3>4. CASE cs[w] # c
      <4>1. ~IsReader(w, c)
        BY <3>4 DEF IsReader
      <4>2. QED
        BY <1>5, <3>1, <3>2, <4>1, ReadersAfter, QuietKept
    <3>5. QED
      BY <3>3, <3>4
  <2>5. CASE Unwatch(w)
    <3>1. /\ at[w] = "unwatch" /\ cs[w] \in Conns /\ at'[w] = "farewell"
          /\ EPollDelClient(cs[w])
          /\ UNCHANGED <<batch, queue>>
      BY <2>5 DEF Unwatch, Goto, Pointers, UsesSocket
    <3>2. \A d \in Conns : m_CfdIsRead'[d] = IF d = cs[w] THEN FALSE ELSE m_CfdIsRead[d]
      BY <3>1 DEF EPollDelClient, Registered
    <3>3. ~IsReader(w, c) /\ ~IsReader(w, c)'
      BY <3>1 DEF IsReader
    <3>4. CASE cs[w] = c
      <4>1. (Watched(c)' => Watched(c)) /\ RecvQueued(c)' = RecvQueued(c)
        BY <3>1, <3>2, <3>4 DEF Watched, RecvQueued
      <4>2. Readers(c)' = Readers(c)
        BY <1>5, <3>3, ReadersAfter
      <4>3. QED
        BY <3>1, <3>4, <4>1, <4>2 DEF Dropped
    <3>5. CASE cs[w] # c
      <4>1. m_CfdIsRead'[c] = m_CfdIsRead[c]
        BY <3>2, <3>5
      <4>2. QED
        BY <1>5, <3>1, <3>3, <4>1, ReadersAfter, QuietKept
    <3>6. QED
      BY <3>4, <3>5
  <2>6. QED
    BY <1>5, <2>1, <2>2, <2>3, <2>4, <2>5, WorkerKept DEF Worker
<1>6. QED
  BY <1>2, <1>3, <1>4, <1>5 DEF Next

-----------------------------------------------------------------------------
(* One reader *)

\* A new connection's only reader is the worker that accepted it.
LEMMA NewConnection ==
    ASSUME Inv, [Next]_vars, NEW c \in Conns, ~Live(c), Live(c)'
    PROVE  \E w \in Workers :
              /\ Accept(w) /\ c = Head(backlog)
              /\ ~Watched(c)' /\ RecvQueued(c)' = {} /\ Readers(c)' = {w}
<1> USE DEF Inv
<1>1. PICK w \in Workers : Accept(w) /\ c = Head(backlog)
  <2>1. ~ UNCHANGED obj
    BY DEF Live
  <2>2. ASSUME NEW w \in Workers, Delete(w) PROVE FALSE
    BY <2>2 DEF Delete, Live, Pointers
  <2>3. PICK w \in Workers : Accept(w)
    BY <2>1, <2>2, ObjectsStep
  <2>4. Head(backlog) \in Conns /\ obj' = [obj EXCEPT ![Head(backlog)] = "live"]
    BY <2>3, TailFacts DEF Accept, NewClientSocket, Backlog
  <2>5. c = Head(backlog)
    BY <2>4 DEF Live, Pointers
  <2>6. QED
    BY <2>3, <2>5
<1>2. obj[c] = "none"
  BY <1>1, TailFacts DEF Accept, Backlog
<1>3. /\ at'[w] = "announce" /\ cs'[w] = c
      /\ UNCHANGED <<m_CfdIsRead, batch, queue>>
  BY <1>1 DEF Accept, Goto, Pointers
<1>4. ~Watched(c)'
  BY <1>2, <1>3 DEF Watched, Registered, Events
<1>5. RecvQueued(c)' = {}
  <2>1. Task("recv", c).conn = c
    BY DEF Task
  <2>2. QED
    BY <1>2, <1>3, <2>1 DEF RecvQueued, Pointers
<1>6. Readers(c)' = {w}
  <2>1. Readers(c) = {}
    BY <1>2 DEF Readers, Pointers
  <2>2. Worker(w) /\ IsReader(w, c)'
    BY <1>1, <1>3 DEF Worker, IsReader
  <2>3. QED
    BY <2>1, <2>2, ReadersAfter
<1>7. QED
  BY <1>1, <1>4, <1>5, <1>6

LEMMA NextSingleReader ==
    Inv /\ JobFits /\ SingleReader /\ [Next]_vars => SingleReader'
<1> SUFFICES ASSUME Inv, JobFits, SingleReader, [Next]_vars,
                    NEW c \in Conns, Live(c)'
             PROVE  /\ OnlyOne(RecvQueued(c)') /\ OnlyOne(Readers(c)')
                    /\ RecvQueued(c)' = {} \/ Readers(c)' = {}
                    /\ Watched(c)' => RecvQueued(c)' = {} /\ Readers(c)' = {}
  BY DEF SingleReader, OnlyOne
<1>1. CASE Live(c)
  <2>1. /\ OnlyOne(RecvQueued(c)) /\ OnlyOne(Readers(c))
        /\ RecvQueued(c) = {} \/ Readers(c) = {}
        /\ Watched(c) => RecvQueued(c) = {} /\ Readers(c) = {}
    BY <1>1 DEF SingleReader
  <2>2. CASE Kept(c)
    BY <2>1, <2>2 DEF Kept
  <2>3. CASE Queued(c)
    BY <2>1, <2>3 DEF Queued
  <2>4. CASE Taken(c)
    BY <2>1, <2>4 DEF Taken, OnlyOne
  <2>5. CASE GivenBack(c)
    <3>1. Readers(c)' = {}
      BY <2>1, <2>5 DEF GivenBack, OnlyOne
    <3>2. QED
      BY <2>1, <2>5, <3>1 DEF GivenBack, OnlyOne
  <2>6. CASE Dropped(c)
    BY <2>1, <2>6 DEF Dropped, OnlyOne
  <2>7. QED
    BY <1>1, <2>1, <2>2, <2>3, <2>4, <2>5, <2>6, RightMoves DEF Live
<1>2. CASE ~Live(c)
  BY <1>2, NewConnection DEF OnlyOne
<1>3. QED
  BY <1>1, <1>2

ReaderInv == Inv /\ JobFits /\ SingleReader

LEMMA InitReaderInv == Init => ReaderInv
<1>1. Init => SingleReader
  BY DEF Init, SingleReader, Live
<1>2. QED
  BY <1>1, InitInv, InitJobFits DEF ReaderInv

LEMMA NextReaderInv == ReaderInv /\ [Next]_vars => ReaderInv'
<1>1. Inv => Pointers
  BY DEF Inv
<1>2. QED
  BY <1>1, NextInv, NextJobFits, NextSingleReader DEF ReaderInv

\* For any number of threads, connections and packages: from the moment a
\* connection is accepted until it is deleted, at most one of the three holds:
\* epoll watches it or has reported it, or one recv task is queued, or one
\* worker is at it.  So its packages are cut out of m_ReadBuf by one thread at
\* a time, in order (SocketControl.cpp 172-223).
THEOREM OneReader == SafeSpec => []SingleReader
<1>1. SafeSpec => []ReaderInv
  BY InitReaderInv, NextReaderInv, PTL DEF SafeSpec
<1>2. ReaderInv => SingleReader
  BY DEF ReaderInv
<1>3. QED
  BY <1>1, <1>2, PTL

-----------------------------------------------------------------------------
(* Owners *)

\* The parts of OneOwner that speak of the map.
Owners ==
    /\ \A c \in Conns : Live(c) =>
          /\ OnlyOne(Closers(c))
          /\ Mapped(c) <=> Closers(c) = {}
    /\ \A f \in Fds : m_ClientFdMap[f] # Nobody =>
          Live(m_ClientFdMap[f]) /\ cfd[m_ClientFdMap[f]] = f

IsCloser(w, c) == cs[w] = c /\ at[w] \in {"unwatch", "farewell", "delete"}

LEMMA ClosersAfter ==
    ASSUME Pointers, NEW w \in Workers, Worker(w), NEW c \in Conns
    PROVE  /\ (IsCloser(w, c)' <=> IsCloser(w, c)) => Closers(c)' = Closers(c)
           /\ IsCloser(w, c)' => Closers(c)' = Closers(c) \cup {w}
           /\ ~IsCloser(w, c)' => Closers(c)' = Closers(c) \ {w}
           /\ IsCloser(w, c) <=> w \in Closers(c)
<1>1. \A v \in Workers \ {w} : IsCloser(v, c)' <=> IsCloser(v, c)
  BY OnlyItself DEF IsCloser
<1>2. /\ Closers(c) = {v \in Workers : IsCloser(v, c)}
      /\ Closers(c)' = {v \in Workers : IsCloser(v, c)'}
  BY DEF Closers, IsCloser
<1>3. QED
  BY <1>1, <1>2

\* Only three kinds of steps touch the map, the objects, or who closes them.
LEMMA OwnersStep ==
    ASSUME Pointers, JobFits, [Next]_vars
    PROVE  \/ /\ UNCHANGED <<obj, cfd, m_ClientFdMap>>
              /\ \A c \in Conns : Closers(c)' = Closers(c)
           \/ \E w \in Workers : Accept(w) \/ Erase(w) \/ Delete(w)
<1> USE DEF objVars, mapVars
<1>1. ASSUME UNCHANGED workerVars PROVE \A c \in Conns : Closers(c)' = Closers(c)
  BY <1>1 DEF workerVars, Closers
<1>2. CASE Peers \/ EpollThread \/ (\E s \in Senders : Handler(s)) \/ UNCHANGED vars
  <2>1. UNCHANGED <<obj, cfd, m_ClientFdMap, workerVars>>
    BY <1>2 DEF Peers, PeerConnects, PeerSends, PeerReads, PeerLeaves, EpollThread,
       EpollWait, EventListen, EventRead, EventWrite, Handler, SendPackage,
       SubmitPackage, vars
  <2>2. QED
    BY <1>1, <2>1
<1>3. ASSUME NEW w \in Workers, Worker(w), ~Accept(w), ~Erase(w), ~Delete(w)
      PROVE  /\ UNCHANGED <<obj, cfd, m_ClientFdMap>>
             /\ \A c \in Conns : Closers(c)' = Closers(c)
  <2>1. UNCHANGED <<obj, cfd, m_ClientFdMap>>
    BY <1>3 DEF Worker, TakeTask, AcceptNone, Announce, Watch, Relisten, RecvData,
       RecvClose, RecvNone, Rewatch, Send, SendFails, Tell, Rewrite, Lookup,
       AppendPackage, Unwatch, Farewell
  <2>2. CASE Unwatch(w) \/ Farewell(w)
    <3>1. /\ at[w] \in {"unwatch", "farewell"} /\ at'[w] \in {"farewell", "delete"}
          /\ cs'[w] = cs[w]
      BY <2>2 DEF Unwatch, Farewell, Goto, Pointers
    <3>2. \A c \in Conns : IsCloser(w, c)' <=> IsCloser(w, c)
      BY <3>1 DEF IsCloser
    <3>3. QED
      BY <1>3, <2>1, <3>2, ClosersAfter
  <2>3. CASE ~Unwatch(w) /\ ~Farewell(w)
    <3>1. at[w] \notin {"unwatch", "farewell", "delete"}
      BY <1>3, <2>3 DEF Worker, TakeTask, AcceptNone, Announce, Watch, Relisten, RecvData,
         RecvClose, RecvNone, Rewatch, Send, SendFails, Tell, Rewrite, Lookup, AppendPackage
    <3>2. at'[w] \notin {"unwatch", "farewell", "delete"}
      <4>1. CASE TakeTask(w)
        BY <4>1, TakenFits
      <4>2. CASE ~TakeTask(w)
        BY <1>3, <2>3, <4>2 DEF Worker, AcceptNone, Announce, Watch, Relisten, RecvData,
           RecvClose, RecvNone, Rewatch, Send, SendFails, Tell, Rewrite, Lookup,
           AppendPackage, Goto, Finish, SendReturns, Pointers, workerVars
      <4>3. QED
        BY <4>1, <4>2
    <3>3. QED
      BY <1>3, <2>1, <3>1, <3>2, ClosersAfter DEF IsCloser
  <2>4. QED
    BY <2>1, <2>2, <2>3
<1>4. QED
  BY <1>2, <1>3 DEF Next

LEMMA InitOwners == Init => Owners
  BY DEF Init, Owners, Live

LEMMA NextOwners == Inv /\ JobFits /\ Owners /\ [Next]_vars => Owners'
<1> SUFFICES ASSUME Inv, JobFits, Owners, [Next]_vars PROVE Owners'
  OBVIOUS
<1> USE DEF Inv
<1>1. CASE /\ UNCHANGED <<obj, cfd, m_ClientFdMap>>
           /\ \A c \in Conns : Closers(c)' = Closers(c)
  BY <1>1 DEF Owners, Mapped, Live
<1>2. ASSUME NEW w \in Workers, Accept(w) PROVE Owners'
  <2> DEFINE d == Head(backlog)
  <2>1. d \in Conns /\ obj[d] = "none"
    BY <1>2, TailFacts DEF Accept, Backlog
  <2>2. PICK f \in FreeFds :
           /\ obj' = [obj EXCEPT ![d] = "live"] /\ cfd' = [cfd EXCEPT ![d] = f]
           /\ m_ClientFdMap' = IF m_ClientFdMap[f] = Nobody
                               THEN [m_ClientFdMap EXCEPT ![f] = d] ELSE m_ClientFdMap
           /\ at[w] = "accept" /\ at'[w] = "announce" /\ cs'[w] = d
    BY <1>2 DEF Accept, NewClientSocket, Goto, Pointers
  <2> HIDE DEF d
  <2>3. f \in Fds /\ \A c \in Conns : Live(c) => cfd[c] # f
    BY DEF FreeFds, Live
  <2>4. m_ClientFdMap[f] = Nobody
    BY <2>3 DEF Owners, Pointers, KnownMap
  <2>5. /\ m_ClientFdMap'[f] = d
        /\ \A g \in Fds : g # f => m_ClientFdMap'[g] = m_ClientFdMap[g]
        /\ obj'[d] = "live" /\ cfd'[d] = f
        /\ \A c \in Conns \ {d} : obj'[c] = obj[c] /\ cfd'[c] = cfd[c]
    BY <2>1, <2>2, <2>3, <2>4 DEF Pointers, KnownMap
  <2>6. \A c \in Conns : Closers(c)' = Closers(c)
    <3>1. \A c \in Conns : ~IsCloser(w, c) /\ ~IsCloser(w, c)'
      BY <2>2 DEF IsCloser
    <3>2. QED
      BY <1>2, <3>1, ClosersAfter DEF Worker
  <2>7. Closers(d) = {}
    BY <2>1 DEF Closers, Pointers
  <2>8. ASSUME NEW c \in Conns, Live(c)'
        PROVE  OnlyOne(Closers(c)') /\ (Mapped(c)' <=> Closers(c)' = {})
    <3>1. CASE c = d
      BY <2>5, <2>6, <2>7, <2>8, <3>1 DEF Mapped, OnlyOne
    <3>2. CASE c # d
      <4>1. Live(c) /\ cfd'[c] = cfd[c] /\ cfd[c] \in Fds /\ cfd[c] # f
        BY <2>3, <2>5, <2>8, <3>2 DEF Live, Pointers
      <4>2. Mapped(c)' <=> Mapped(c)
        BY <2>5, <2>8, <4>1 DEF Mapped
      <4>3. QED
        BY <2>6, <4>1, <4>2 DEF Owners
    <3>3. QED
      BY <3>1, <3>2
  <2>9. ASSUME NEW g \in Fds, m_ClientFdMap'[g] # Nobody
        PROVE  Live(m_ClientFdMap[g])' /\ cfd'[m_ClientFdMap'[g]] = g
    <3>1. CASE g = f
      BY <2>5, <3>1 DEF Live
    <3>2. CASE g # f
      <4>1. /\ m_ClientFdMap'[g] = m_ClientFdMap[g] /\ m_ClientFdMap[g] \in Conns
            /\ Live(m_ClientFdMap[g]) /\ cfd[m_ClientFdMap[g]] = g
        BY <2>5, <2>9, <3>2 DEF Owners, Pointers, KnownMap
      <4>2. m_ClientFdMap[g] # d
        BY <2>1, <4>1 DEF Live
      <4>3. QED
        BY <2>5, <4>1, <4>2 DEF Live
    <3>3. QED
      BY <3>1, <3>2
  <2>10. QED
    BY <2>8, <2>9 DEF Owners
<1>3. ASSUME NEW w \in Workers, Erase(w) PROVE Owners'
  <2>0. PICK d \in Conns : d = cs[w]
    BY <1>3 DEF Erase, Pointers, UsesSocket
  <2>1. Live(d) /\ cfd[d] \in Fds /\ at[w] = "erase"
    BY <1>3, <2>0 DEF Erase, Alive, Live, Pointers
  <2>2. UNCHANGED <<obj, cfd>>
    BY <1>3 DEF Erase, objVars
  <2>3. CASE m_ClientFdMap[cfd[d]] = Nobody
    <3>1. m_ClientFdMap' = m_ClientFdMap /\ at'[w] = "idle"
      BY <1>3, <2>0, <2>3 DEF Erase, Finish, Goto, Pointers
    <3>2. \A c \in Conns : Closers(c)' = Closers(c)
      BY <1>3, <2>1, <3>1, ClosersAfter DEF Worker, IsCloser
    <3>3. QED
      BY <2>2, <3>1, <3>2, <1>1
  <2>4. CASE m_ClientFdMap[cfd[d]] # Nobody
    <3>1. /\ m_ClientFdMap' = [m_ClientFdMap EXCEPT ![cfd[d]] = Nobody]
          /\ at'[w] = "unwatch" /\ cs'[w] = d
      BY <1>3, <2>0, <2>4 DEF Erase, Goto, Pointers
    <3>2. Mapped(d)
      <4>1. /\ m_ClientFdMap[cfd[d]] \in Conns /\ Live(m_ClientFdMap[cfd[d]])
            /\ cfd[m_ClientFdMap[cfd[d]]] = cfd[d]
        BY <2>1, <2>4 DEF Owners, Pointers, KnownMap
      <4>2. QED
        BY <2>1, <4>1 DEF Registered, Mapped
    <3>3. /\ m_ClientFdMap'[cfd[d]] = Nobody
          /\ \A g \in Fds : g # cfd[d] => m_ClientFdMap'[g] = m_ClientFdMap[g]
      BY <2>1, <3>1 DEF Pointers, KnownMap
    <3>4. Closers(d)' = {w}
      <4>1. Closers(d) = {}
        BY <2>1, <3>2 DEF Owners
      <4>2. QED
        BY <1>3, <2>1, <3>1, <4>1, ClosersAfter DEF Worker, IsCloser
    <3>5. \A c \in Conns \ {d} : Closers(c)' = Closers(c)
      <4>1. \A c \in Conns \ {d} : ~IsCloser(w, c) /\ ~IsCloser(w, c)'
        BY <2>1, <3>1 DEF IsCloser
      <4>2. QED
        BY <1>3, <4>1, ClosersAfter DEF Worker
    <3>6. ASSUME NEW c \in Conns, Live(c)'
          PROVE  OnlyOne(Closers(c)') /\ (Mapped(c)' <=> Closers(c)' = {})
      <4>1. CASE c = d
        BY <2>1, <2>2, <3>3, <3>4, <4>1, ConnsAssumption DEF Mapped, OnlyOne
      <4>2. CASE c # d
        <5>1. Live(c) /\ cfd[c] # cfd[d] /\ cfd[c] \in Fds
          BY <2>1, <2>2, <3>6, <4>2 DEF Live, Registered, Pointers
        <5>2. Mapped(c)' <=> Mapped(c)
          BY <2>2, <3>3, <3>6, <5>1 DEF Mapped
        <5>3. QED
          BY <3>5, <4>2, <5>1, <5>2 DEF Owners
      <4>3. QED
        BY <4>1, <4>2
    <3>7. \A f \in Fds : m_ClientFdMap'[f] # Nobody =>
             Live(m_ClientFdMap[f])' /\ cfd'[m_ClientFdMap'[f]] = f
      BY <2>2, <3>3 DEF Owners, Live
    <3>8. QED
      BY <3>6, <3>7 DEF Owners
  <2>5. QED
    BY <2>3, <2>4
<1>4. ASSUME NEW w \in Workers, Delete(w) PROVE Owners'
  <2> DEFINE d == cs[w]
  <2>1. d \in Conns /\ Live(d) /\ at[w] = "delete"
    BY <1>4 DEF Delete, Alive, Live, Pointers, UsesSocket
  <2>2. /\ obj' = [obj EXCEPT ![d] = "freed"] /\ at'[w] = "idle"
        /\ UNCHANGED <<cfd, m_ClientFdMap>>
    BY <1>4 DEF Delete, Finish, Goto, Pointers, mapVars
  <2> HIDE DEF d
  <2>3. /\ \A c \in Conns \ {d} : obj'[c] = obj[c]
        /\ obj'[d] = "freed"
    BY <2>1, <2>2 DEF Pointers
  <2>4. \A f \in Fds : m_ClientFdMap[f] # d
    <3>1. ~Mapped(d)
      BY <2>1 DEF Owners, Closers, d
    <3>2. QED
      BY <2>1, <3>1, ConnsAssumption DEF Owners, Mapped
  <2>5. \A c \in Conns \ {d} : Closers(c)' = Closers(c)
    <3>1. \A c \in Conns \ {d} : ~IsCloser(w, c) /\ ~IsCloser(w, c)'
      BY <2>1, <2>2 DEF IsCloser, d
    <3>2. QED
      BY <1>4, <3>1, ClosersAfter DEF Worker
  <2>6. ASSUME NEW c \in Conns, Live(c)'
        PROVE  c # d /\ Live(c) /\ (Mapped(c)' <=> Mapped(c)) /\ Closers(c)' = Closers(c)
    BY <2>2, <2>3, <2>5, <2>6 DEF Live, Mapped
  <2>7. ASSUME NEW f \in Fds, m_ClientFdMap'[f] # Nobody
        PROVE  Live(m_ClientFdMap[f])' /\ cfd'[m_ClientFdMap'[f]] = f
    BY <2>2, <2>3, <2>4, <2>7 DEF Owners, Live, Pointers, KnownMap
  <2>8. QED
    BY <2>6, <2>7 DEF Owners
<1>5. QED
  BY <1>1, <1>2, <1>3, <1>4, OwnersStep

-----------------------------------------------------------------------------
(* The counter *)

MapEntries == {f \in Fds : m_ClientFdMap[f] # Nobody}
Announcing == {w \in Workers : at[w] = "announce"}
Leaving == {w \in Workers : at[w] \in {"unwatch", "farewell"}}

Counted == /\ m_ClientSocketCount \in Int
           /\ m_ClientSocketCount
                 = Cardinality(MapEntries) - Cardinality(Announcing) + Cardinality(Leaving)

LEMMA CountedIsCountExact == Counted => CountExact
<1>1. {w \in Workers : at[w] \in {"announce"}} = Announcing
  BY DEF Announcing
<1>2. QED
  BY <1>1 DEF Counted, CountExact, MapEntries, Leaving

LEMMA SetsAreFinite ==
    /\ IsFiniteSet(MapEntries) /\ Cardinality(MapEntries) \in Nat
    /\ IsFiniteSet(Announcing) /\ Cardinality(Announcing) \in Nat
    /\ IsFiniteSet(Leaving) /\ Cardinality(Leaving) \in Nat
<1>1. MapEntries \subseteq Fds /\ Announcing \subseteq Workers /\ Leaving \subseteq Workers
  BY DEF MapEntries, Announcing, Leaving
<1>2. QED
  BY <1>1, FiniteAssumption, FS_Subset, FS_CardinalityType

\* What one worker's step does to the two sets of workers.
LEMMA CountersAfter ==
    ASSUME Pointers, NEW w \in Workers, Worker(w)
    PROVE  /\ Announcing' = IF at'[w] = "announce" THEN Announcing \cup {w}
                                                  ELSE Announcing \ {w}
           /\ Leaving' = IF at'[w] \in {"unwatch", "farewell"} THEN Leaving \cup {w}
                                                              ELSE Leaving \ {w}
           /\ w \in Announcing <=> at[w] = "announce"
           /\ w \in Leaving <=> at[w] \in {"unwatch", "farewell"}
  BY OnlyItself DEF Announcing, Leaving

LEMMA CountStep ==
    ASSUME Pointers, JobFits, [Next]_vars
    PROVE  \/ UNCHANGED <<m_ClientSocketCount, MapEntries, Announcing, Leaving>>
           \/ \E w \in Workers : Accept(w) \/ Announce(w) \/ Erase(w) \/ Farewell(w)
<1> USE DEF mapVars
<1>1. CASE Peers \/ EpollThread \/ (\E s \in Senders : Handler(s)) \/ UNCHANGED vars
  <2>1. UNCHANGED <<m_ClientSocketCount, m_ClientFdMap, workerVars>>
    BY <1>1 DEF Peers, PeerConnects, PeerSends, PeerReads, PeerLeaves, EpollThread,
       EpollWait, EventListen, EventRead, EventWrite, Handler, SendPackage,
       SubmitPackage, vars
  <2>2. QED
    BY <2>1 DEF MapEntries, Announcing, Leaving, workerVars
<1>2. ASSUME NEW w \in Workers, Worker(w),
             ~Accept(w), ~Announce(w), ~Erase(w), ~Farewell(w)
      PROVE  UNCHANGED <<m_ClientSocketCount, MapEntries, Announcing, Leaving>>
  <2>1. UNCHANGED <<m_ClientSocketCount, m_ClientFdMap>>
    BY <1>2 DEF Worker, TakeTask, AcceptNone, Watch, Relisten, RecvData, RecvClose,
       RecvNone, Rewatch, Send, SendFails, Tell, Rewrite, Lookup, AppendPackage,
       Unwatch, Delete
  <2>2. /\ at[w] # "announce" /\ at'[w] # "announce"
        /\ at[w] \in {"unwatch", "farewell"} <=> at'[w] \in {"unwatch", "farewell"}
    <3>1. CASE TakeTask(w)
      BY <3>1, TakenFits DEF TakeTask
    <3>2. CASE ~TakeTask(w)
      BY <1>2, <3>2 DEF Worker, AcceptNone, Watch, Relisten, RecvData, RecvClose,
         RecvNone, Rewatch, Send, SendFails, Tell, Rewrite, Lookup, AppendPackage,
         Unwatch, Delete, Goto, Finish, SendReturns, Pointers, workerVars
    <3>3. QED
      BY <3>1, <3>2
  <2>3. Announcing' = Announcing /\ Leaving' = Leaving
    BY <1>2, <2>2, CountersAfter
  <2>4. QED
    BY <2>1, <2>3 DEF MapEntries
<1>3. QED
  BY <1>1, <1>2 DEF Next

LEMMA InitCounted == Init => Counted
<1> SUFFICES ASSUME Init PROVE Counted
  OBVIOUS
<1>1. MapEntries = {} /\ Announcing = {} /\ Leaving = {} /\ m_ClientSocketCount = 0
  BY DEF Init, MapEntries, Announcing, Leaving
<1>2. QED
  BY <1>1, FS_EmptySet DEF Counted

LEMMA NextCounted == Inv /\ JobFits /\ Owners /\ Counted /\ [Next]_vars => Counted'
<1> SUFFICES ASSUME Inv, JobFits, Owners, Counted, [Next]_vars PROVE Counted'
  OBVIOUS
<1> USE SetsAreFinite DEF Inv
<1>1. CASE UNCHANGED <<m_ClientSocketCount, MapEntries, Announcing, Leaving>>
  BY <1>1 DEF Counted
<1>2. ASSUME NEW w \in Workers, Accept(w) PROVE Counted'
  <2>1. PICK f \in FreeFds :
           /\ m_ClientFdMap' = IF m_ClientFdMap[f] = Nobody
                               THEN [m_ClientFdMap EXCEPT ![f] = Head(backlog)]
                               ELSE m_ClientFdMap
           /\ at[w] = "accept" /\ at'[w] = "announce"
           /\ UNCHANGED m_ClientSocketCount
    BY <1>2 DEF Accept, Goto, Pointers
  <2>2. f \in Fds /\ m_ClientFdMap[f] = Nobody
    BY DEF FreeFds, Live, Owners, Pointers, KnownMap
  <2>3. Head(backlog) # Nobody
    BY <1>2, TailFacts, ConnsAssumption DEF Accept, Backlog
  <2>4. MapEntries' = MapEntries \cup {f} /\ f \notin MapEntries
    BY <2>1, <2>2, <2>3 DEF MapEntries, Pointers, KnownMap
  <2>5. Announcing' = Announcing \cup {w} /\ w \notin Announcing /\ Leaving' = Leaving
    BY <1>2, <2>1, CountersAfter DEF Worker
  <2>6. /\ Cardinality(MapEntries') = Cardinality(MapEntries) + 1
        /\ Cardinality(Announcing') = Cardinality(Announcing) + 1
    BY <2>4, <2>5, FS_AddElement
  <2>7. QED
    BY <2>1, <2>5, <2>6 DEF Counted
<1>3. ASSUME NEW w \in Workers, Announce(w) PROVE Counted'
  <2>1. /\ at[w] = "announce" /\ at'[w] = "watch"
        /\ m_ClientSocketCount' = m_ClientSocketCount + 1 /\ UNCHANGED m_ClientFdMap
    BY <1>3 DEF Announce, Goto, Pointers
  <2>2. /\ Announcing' = Announcing \ {w} /\ w \in Announcing /\ Leaving' = Leaving
        /\ MapEntries' = MapEntries
    BY <1>3, <2>1, CountersAfter DEF Worker, MapEntries
  <2>3. Cardinality(Announcing') = Cardinality(Announcing) - 1
    BY <2>2, FS_RemoveElement
  <2>4. QED
    BY <2>1, <2>2, <2>3 DEF Counted
<1>4. ASSUME NEW w \in Workers, Farewell(w) PROVE Counted'
  <2>1. /\ at[w] = "farewell" /\ at'[w] = "delete"
        /\ m_ClientSocketCount' = m_ClientSocketCount - 1 /\ UNCHANGED m_ClientFdMap
    BY <1>4 DEF Farewell, Goto, Pointers
  <2>2. /\ Leaving' = Leaving \ {w} /\ w \in Leaving /\ Announcing' = Announcing
        /\ MapEntries' = MapEntries
    BY <1>4, <2>1, CountersAfter DEF Worker, MapEntries
  <2>3. Cardinality(Leaving') = Cardinality(Leaving) - 1
    BY <2>2, FS_RemoveElement
  <2>4. QED
    BY <2>1, <2>2, <2>3 DEF Counted
<1>5. ASSUME NEW w \in Workers, Erase(w) PROVE Counted'
  <2>1. /\ at[w] = "erase" /\ cs[w] \in Conns /\ cfd[cs[w]] \in Fds
        /\ UNCHANGED m_ClientSocketCount
    BY <1>5 DEF Erase, Alive, Pointers, UsesSocket
  <2>2. PICK f \in Fds : f = cfd[cs[w]]
    BY <2>1
  <2>3. CASE m_ClientFdMap[f] = Nobody
    <3>1. UNCHANGED m_ClientFdMap /\ at'[w] = "idle"
      BY <1>5, <2>2, <2>3 DEF Erase, Finish, Goto, Pointers
    <3>2. MapEntries' = MapEntries /\ Announcing' = Announcing /\ Leaving' = Leaving
      BY <1>5, <2>1, <3>1, CountersAfter DEF Worker, MapEntries
    <3>3. QED
      BY <2>1, <3>2 DEF Counted
  <2>4. CASE m_ClientFdMap[f] # Nobody
    <3>1. /\ m_ClientFdMap' = [m_ClientFdMap EXCEPT ![f] = Nobody]
          /\ at'[w] = "unwatch"
      BY <1>5, <2>2, <2>4 DEF Erase, Goto, Pointers
    <3>2. MapEntries' = MapEntries \ {f} /\ f \in MapEntries
      BY <2>4, <3>1 DEF MapEntries, Pointers, KnownMap
    <3>3. Leaving' = Leaving \cup {w} /\ w \notin Leaving /\ Announcing' = Announcing
      BY <1>5, <2>1, <3>1, CountersAfter DEF Worker
    <3>4. /\ Cardinality(MapEntries') = Cardinality(MapEntries) - 1
          /\ Cardinality(Leaving') = Cardinality(Leaving) + 1
      BY <3>2, <3>3, FS_AddElement, FS_RemoveElement
    <3>5. QED
      BY <2>1, <3>3, <3>4 DEF Counted
  <2>5. QED
    BY <2>3, <2>4
<1>6. QED
  BY <1>1, <1>2, <1>3, <1>4, <1>5, CountStep

-----------------------------------------------------------------------------
(* The theorem about owners *)

OwnerInv == ReaderInv /\ Owners /\ Counted

LEMMA InitOwnerInv == Init => OwnerInv
  BY InitReaderInv, InitOwners, InitCounted DEF OwnerInv

LEMMA NextOwnerInv == OwnerInv /\ [Next]_vars => OwnerInv'
<1>1. ReaderInv => Inv /\ JobFits
  BY DEF ReaderInv
<1>2. QED
  BY <1>1, NextReaderInv, NextOwners, NextCounted DEF OwnerInv

\* For any number of threads, connections and packages: an object that exists
\* is in the map under its own descriptor, or exactly one worker is deleting
\* it; the map leads to no deleted object; m_ClientSocketCount is the size of
\* the map but for the workers between the two (SocketControl.cpp 172-184 and
\* 248-267).
THEOREM OwnedOnce == SafeSpec => []OneOwner
<1>1. OwnerInv => OneOwner
  BY CountedIsCountExact DEF OwnerInv, Owners, OneOwner
<1>2. SafeSpec => []OwnerInv
  BY InitOwnerInv, NextOwnerInv, PTL DEF SafeSpec
<1>3. QED
  BY <1>1, <1>2, PTL

-----------------------------------------------------------------------------
(* Somebody will read *)

Attended ==
    \A c \in Conns : Mapped(c) =>
        Watched(c) \/ RecvQueued(c) # {} \/ Readers(c) # {}

\* An object that exists gets into the map only when it is made.
LEMMA MappedBefore ==
    ASSUME Inv, JobFits, [Next]_vars, NEW c \in Conns, Live(c), Mapped(c)'
    PROVE  Mapped(c) /\ cfd'[c] = cfd[c] /\ m_ClientFdMap'[cfd[c]] = c
<1> USE DEF Inv
<1>1. cfd[c] \in Fds
  BY DEF Live, Pointers
<1>2. CASE UNCHANGED <<obj, cfd, m_ClientFdMap>>
  BY <1>2 DEF Mapped, Live
<1>3. ASSUME NEW w \in Workers, Accept(w)
      PROVE  Mapped(c) /\ cfd'[c] = cfd[c] /\ m_ClientFdMap'[cfd[c]] = c
  <2>1. Head(backlog) \in Conns /\ Head(backlog) # c
    BY <1>3, TailFacts DEF Accept, Backlog, Live
  <2>2. PICK f \in FreeFds :
           /\ cfd' = [cfd EXCEPT ![Head(backlog)] = f]
           /\ m_ClientFdMap' = IF m_ClientFdMap[f] = Nobody
                               THEN [m_ClientFdMap EXCEPT ![f] = Head(backlog)]
                               ELSE m_ClientFdMap
    BY <1>3 DEF Accept, NewClientSocket
  <2>3. f # cfd[c]
    BY DEF FreeFds, Live
  <2>4. cfd'[c] = cfd[c] /\ m_ClientFdMap'[cfd[c]] = m_ClientFdMap[cfd[c]]
    BY <1>1, <2>1, <2>2, <2>3 DEF Pointers, KnownMap
  <2>5. QED
    BY <2>4 DEF Mapped
<1>4. ASSUME NEW w \in Workers, Erase(w)
      PROVE  Mapped(c) /\ cfd'[c] = cfd[c] /\ m_ClientFdMap'[cfd[c]] = c
  <2>1. /\ UNCHANGED cfd
        /\ m_ClientFdMap'[cfd[c]] \in {m_ClientFdMap[cfd[c]], Nobody}
    BY <1>1, <1>4 DEF Erase, objVars, Pointers, KnownMap
  <2>2. QED
    BY <2>1, ConnsAssumption DEF Mapped
<1>5. ASSUME NEW w \in Workers, Delete(w)
      PROVE  Mapped(c) /\ cfd'[c] = cfd[c] /\ m_ClientFdMap'[cfd[c]] = c
  BY <1>5 DEF Delete, mapVars, Mapped
<1>6. QED
  BY <1>2, <1>3, <1>4, <1>5, OwnersStep

LEMMA NextAttended == OwnerInv /\ Attended /\ [Next]_vars => Attended'
<1> SUFFICES ASSUME OwnerInv, Attended, [Next]_vars, NEW c \in Conns, Mapped(c)'
             PROVE  Watched(c)' \/ RecvQueued(c)' # {} \/ Readers(c)' # {}
  BY DEF Attended
<1> USE DEF OwnerInv, ReaderInv
<1>1. Live(c)'
  BY DEF Mapped
<1>2. CASE Live(c)
  <2>1. Mapped(c) /\ cfd'[c] = cfd[c] /\ m_ClientFdMap'[cfd[c]] = c
    BY <1>2, MappedBefore
  <2>2. /\ Watched(c) \/ RecvQueued(c) # {} \/ Readers(c) # {}
        /\ Closers(c) = {}
        /\ OnlyOne(RecvQueued(c))
        /\ Watched(c) => RecvQueued(c) = {}
    BY <1>2, <2>1 DEF Attended, Owners, SingleReader
  <2>3. CASE Kept(c)
    BY <2>2, <2>3 DEF Kept
  <2>4. CASE Queued(c)
    BY <2>2, <2>4 DEF Queued
  <2>5. CASE Taken(c)
    BY <2>5 DEF Taken
  <2>6. CASE GivenBack(c)
    BY <2>6 DEF GivenBack
  <2>7. ~Dropped(c)
    BY <2>1, <2>2, ConnsAssumption DEF Dropped, Closers
  <2>8. QED
    BY <1>2, <2>2, <2>3, <2>4, <2>5, <2>6, <2>7, RightMoves DEF Live
<1>3. CASE ~Live(c)
  BY <1>1, <1>3, NewConnection
<1>4. QED
  BY <1>2, <1>3

-----------------------------------------------------------------------------
(* The listening descriptor *)

AcceptTask == Task("accept", Nobody)
Accepting == {w \in Workers : job[w].kind = "accept"}

Listening ==
    /\ OnlyOne(QueuedAt(AcceptTask)) /\ OnlyOne(Accepting)
    /\ QueuedAt(AcceptTask) = {} \/ Accepting = {}
    /\ reg[Listen] = Off <=> QueuedAt(AcceptTask) # {} \/ Accepting # {}
    /\ \A e \in batch : e.ptr = Listen => reg[Listen] # Off

LEMMA ListeningIsArmed == Pointers /\ Listening => ListenerArmed
<1> SUFFICES ASSUME Pointers, Listening PROVE ListenerArmed
  OBVIOUS
<1>1. \A i \in DOMAIN queue : queue[i] \in RealTasks
  BY DEF Pointers
<1>2. \A t \in RealTasks : t.kind = "accept" <=> t = AcceptTask
  BY DEF RealTasks, Tasks, Task, NoTask, AcceptTask
<1>3. {i \in DOMAIN queue : queue[i].kind = "accept"} = QueuedAt(AcceptTask)
  BY <1>1, <1>2 DEF QueuedAt
<1>4. QED
  BY <1>3 DEF ListenerArmed, Listening, Accepting

LEMMA EntryOfListen == Entry(Listen, FALSE, TRUE) # Off
  BY ConnsAssumption DEF Entry, Off

\* A step that is neither the event nor the end of an accept task, nor takes
\* a task, leaves the listener's right where it is.
LEMMA ListenerKept ==
    ASSUME Inv, Listening,
           reg'[Listen] = reg[Listen],
           batch' \subseteq batch,
           QueuedAt(AcceptTask)' = QueuedAt(AcceptTask),
           Accepting' = Accepting
    PROVE  Listening'
  BY DEF Listening, OnlyOne

LEMMA InitListening == Init => Listening
<1> SUFFICES ASSUME Init PROVE Listening
  OBVIOUS
<1>1. reg[Listen] # Off
  BY HandlesAssumption, EntryOfListen DEF Init
<1>2. QueuedAt(AcceptTask) = {} /\ Accepting = {} /\ batch = {}
  BY DEF Init, QueuedAt, Accepting, NoTask, Task
<1>3. QED
  BY <1>1, <1>2 DEF Listening, OnlyOne

LEMMA NextListening == ReaderInv /\ Listening /\ [Next]_vars => Listening'
<1> SUFFICES ASSUME ReaderInv, Listening, [Next]_vars PROVE Listening'
  OBVIOUS
<1> USE DEF ReaderInv, Inv
<1>1. AcceptTask \in RealTasks
  BY DEF AcceptTask, RealTasks, Tasks, Task, NoTask
<1>2. ASSUME UNCHANGED workerVars PROVE Accepting' = Accepting
  BY <1>2 DEF workerVars, Accepting
<1>3. ASSUME UNCHANGED queue PROVE QueuedAt(AcceptTask)' = QueuedAt(AcceptTask)
  BY <1>3 DEF QueuedAt
<1>4. CASE Peers \/ UNCHANGED vars
  <2>1. UNCHANGED <<reg, batch, queue, workerVars>>
    BY <1>4 DEF Peers, PeerConnects, PeerSends, PeerReads, PeerLeaves, vars, epollVars
  <2>2. QED
    BY <1>2, <1>3, <2>1, ListenerKept
<1>5. CASE EpollWait
  <2>1. /\ batch' = Reported(ReadableFds, WritableFds)
        /\ UNCHANGED <<reg, queue, workerVars>>
    BY <1>5 DEF EpollWait
  <2>2. ASSUME NEW e \in batch', e.ptr = Listen PROVE reg[Listen] # Off
    <3>1. PICK h \in ready : (reg[h].in \/ reg[h].out) /\ reg[h].ptr = Listen
      BY <2>1, <2>2 DEF Reported
    <3>2. h \in Handles /\ reg[h] # Off
      BY <3>1 DEF Events, Off
    <3>3. h = Listen
      <4>1. ASSUME NEW c \in Conns, reg[h] = Entry(c, m_CfdIsWrite[c], m_CfdIsRead[c])
            PROVE  FALSE
        BY <3>1, <4>1, ConnsAssumption DEF Entry
      <4>2. QED
        BY <3>2, <4>1, RegisteredOwner
    <3>4. QED
      BY <3>2, <3>3
  <2>3. QED
    BY <1>2, <1>3, <2>1, <2>2 DEF Listening, OnlyOne
<1>6. ASSUME NEW e \in batch, EventListen(e) PROVE Listening'
  <2>1. /\ e.ptr = Listen /\ reg' = [reg EXCEPT ![Listen] = Off]
        /\ queue' = Append(queue, AcceptTask) /\ batch' = batch \ {e}
        /\ UNCHANGED workerVars
    BY <1>6 DEF EventListen, Remove, AcceptTask
  <2>2. QueuedAt(AcceptTask) = {} /\ Accepting = {}
    BY <2>1 DEF Listening
  <2>3. QueuedAt(AcceptTask)' # {} /\ OnlyOne(QueuedAt(AcceptTask)')
    BY <1>1, <2>1, <2>2, AppendedTask
  <2>4. reg'[Listen] = Off /\ \A d \in batch' : d.ptr # Listen
    BY <2>1, HandlesAssumption DEF Registered, Events
  <2>5. QED
    BY <1>2, <2>1, <2>2, <2>3, <2>4 DEF Listening, OnlyOne
<1>7. ASSUME NEW e \in batch, EventRead(e) \/ EventWrite(e) PROVE Listening'
  <2>1. /\ e.ptr \in Conns /\ Live(e.ptr) /\ batch' = batch \ {e} /\ UNCHANGED workerVars
        /\ \/ EPollDelClientRead(e.ptr) /\ UNCHANGED m_CfdIsWrite
           \/ EPollDelClientWrite(e.ptr) /\ UNCHANGED m_CfdIsRead
    BY <1>7 DEF EventRead, EventWrite, Live
  <2>2. reg'[Listen] = reg[Listen]
    <3>1. Ctl(e.ptr) /\ cfd[e.ptr] # Listen
      BY <2>1, CtlDelRead, CtlDelWrite, HandlesAssumption DEF Pointers, Live
    <3>2. QED
      BY <3>1, HandlesAssumption DEF Ctl, Registered
  <2>3. PICK t \in RealTasks : t # AcceptTask /\ queue' = Append(queue, t)
    BY <1>7 DEF EventRead, EventWrite, RealTasks, Tasks, Task, NoTask, AcceptTask
  <2>4. QueuedAt(AcceptTask)' = QueuedAt(AcceptTask)
    BY <2>3, AppendedTask
  <2>5. QED
    BY <1>2, <2>1, <2>2, <2>4, ListenerKept
<1>8. ASSUME NEW s \in Senders, Handler(s) PROVE Listening'
  <2>1. UNCHANGED <<reg, batch, workerVars>>
    BY <1>8 DEF Handler, SendPackage, SubmitPackage, epollVars
  <2>2. QueuedAt(AcceptTask)' = QueuedAt(AcceptTask)
    <3>1. CASE SubmitPackage(s) /\ queue' = Append(queue, Task("write", sender[s].conn))
      <4>1. /\ Task("write", sender[s].conn) \in RealTasks
            /\ Task("write", sender[s].conn) # AcceptTask
        BY <3>1 DEF SubmitPackage, RealTasks, Tasks, Task, NoTask, AcceptTask, Pointers
      <4>2. QED
        BY <3>1, <4>1, AppendedTask
    <3>2. QED
      BY <1>3, <1>8, <3>1 DEF Handler, SendPackage, SubmitPackage
  <2>3. QED
    BY <1>2, <2>1, <2>2, ListenerKept
<1>9. ASSUME NEW w \in Workers, Worker(w) PROVE Listening'
  <2>1. /\ job'[w].kind = "accept" => Accepting' = Accepting \cup {w}
        /\ job'[w].kind # "accept" => Accepting' = Accepting \ {w}
        /\ w \in Accepting <=> job[w].kind = "accept"
    BY <1>9, OnlyItself DEF Accepting
  <2>2. NoTask.kind = "none"
    BY DEF NoTask, Task
  <2>3. CASE TakeTask(w)
    <3>1. /\ queue # <<>> /\ queue' = Tail(queue) /\ at[w] = "idle"
          /\ UNCHANGED <<reg, batch>>
      BY <2>3 DEF TakeTask, epollVars
    <3>2. job[w].kind = "none" /\ job'[w] = Head(queue) /\ Head(queue) \in RealTasks
      BY <2>3, <3>1, TakenFits DEF JobFits, Closing
    <3>3. Head(queue).kind = "accept" <=> Head(queue) = AcceptTask
      BY <3>2 DEF RealTasks, Tasks, Task, NoTask, AcceptTask
    <3>4. CASE Head(queue) = AcceptTask
      <4>1. QueuedAt(AcceptTask) # {} /\ QueuedAt(AcceptTask)' = {}
        BY <3>1, <3>4, TakenTask DEF Listening
      <4>2. Accepting = {} /\ Accepting' = {w}
        BY <2>1, <3>2, <3>3, <3>4, <4>1 DEF Listening
      <4>3. QED
        BY <3>1, <4>1, <4>2 DEF Listening, OnlyOne
    <3>5. CASE Head(queue) # AcceptTask
      <4>1. /\ QueuedAt(AcceptTask)' = {} <=> QueuedAt(AcceptTask) = {}
            /\ OnlyOne(QueuedAt(AcceptTask)')
        BY <3>1, <3>5, TakenTask DEF Listening
      <4>2. Accepting' = Accepting
        BY <2>1, <3>2, <3>3, <3>5
      <4>3. QED
        BY <3>1, <4>1, <4>2 DEF Listening, OnlyOne
    <3>6. QED
      BY <3>4, <3>5
  <2>4. CASE ~TakeTask(w)
    <3>1. UNCHANGED <<batch, queue>>
      BY <1>9, <2>4 DEF Worker, Accept, AcceptNone, Announce, Watch, Relisten, RecvData,
         RecvClose, RecvNone, Rewatch, Send, SendFails, Tell, Rewrite, Lookup,
         AppendPackage, Erase, Unwatch, Farewell, Delete
    <3>2. CASE Relisten(w)
      <4>1. job[w].kind = "accept" /\ job'[w].kind = "none"
        BY <2>2, <3>2 DEF Relisten, Finish, JobFits, Closing, Pointers
      <4>2. Accepting' = {} /\ QueuedAt(AcceptTask) = {} /\ reg[Listen] = Off
        BY <2>1, <4>1 DEF Listening, OnlyOne
      <4>3. reg'[Listen] # Off
        BY <3>2, <4>2, HandlesAssumption, EntryOfListen DEF Relisten, Add, Set, Registered
      <4>4. QED
        BY <1>3, <3>1, <4>2, <4>3 DEF Listening, OnlyOne
    <3>3. CASE ~Relisten(w)
      <4>1. job'[w].kind = "accept" <=> job[w].kind = "accept"
        <5>1. \/ job'[w] = job[w]
              \/ /\ job'[w] = NoTask
                 /\ at[w] \notin {"accept", "announce", "watch", "relisten"}
          BY <1>9, <2>4, <3>3 DEF Worker, Accept, AcceptNone, Announce, Watch, RecvData,
             RecvClose, RecvNone, Rewatch, Send, SendFails, Tell, Rewrite, Lookup,
             AppendPackage, Erase, Unwatch, Farewell, Delete, Finish, SendReturns,
             Pointers, workerVars
        <5>2. QED
          BY <2>2, <5>1 DEF JobFits, Closing
      <4>2. Accepting' = Accepting
        BY <2>1, <4>1
      <4>3. reg'[Listen] = reg[Listen]
        <5>1. at[w] \in UsesSocket => cs[w] \in Conns
          BY DEF Pointers
        <5>2. CASE Watch(w) \/ Rewatch(w) \/ Tell(w) \/ Rewrite(w) \/ Unwatch(w)
          <6>1. cs[w] \in Conns /\ Live(cs[w]) /\ Ctl(cs[w])
            BY <5>1, <5>2, CtlAddRead, CtlAddWrite, CtlDelWrite, CtlDel
            DEF Watch, Rewatch, Tell, Rewrite, Unwatch, Alive, Live, UsesSocket
          <6>2. cfd[cs[w]] # Listen
            BY <6>1, HandlesAssumption DEF Pointers, Live
          <6>3. QED
            BY <6>1, <6>2, HandlesAssumption DEF Ctl, Registered
        <5>3. CASE Delete(w)
          <6>1. cfd[cs[w]] # Listen /\ reg' = [reg EXCEPT ![cfd[cs[w]]] = Off]
            BY <5>1, <5>3, HandlesAssumption
            DEF Delete, Remove, Alive, UsesSocket, Pointers
          <6>2. QED
            BY <6>1, HandlesAssumption DEF Registered
        <5>4. CASE ~(\/ Watch(w) \/ Rewatch(w) \/ Tell(w) \/ Rewrite(w) \/ Unwatch(w)
                     \/ Delete(w))
          BY <1>9, <2>4, <3>3, <5>4 DEF Worker, Accept, AcceptNone, Announce, RecvData,
             RecvClose, RecvNone, Send, SendFails, Lookup, AppendPackage, Erase,
             Farewell, epollVars
        <5>5. QED
          BY <5>2, <5>3, <5>4
      <4>4. QED
        BY <1>3, <3>1, <4>2, <4>3, ListenerKept
    <3>4. QED
      BY <3>2, <3>3
  <2>5. QED
    BY <2>3, <2>4
<1>10. QED
  BY <1>4, <1>5, <1>6, <1>7, <1>8, <1>9 DEF Next, EpollThread

-----------------------------------------------------------------------------
\* For any number of threads and connections: a connection in the map is
\* watched or reported by epoll, queued, or with a worker, and the listening
\* descriptor is watched or one accept task will watch it again
\* (SocketControl.cpp 172-223 and 248-267).
THEOREM Attention == SafeSpec => []NeverUnattended
<1> DEFINE I == OwnerInv /\ Attended /\ Listening
<1>1. Init => I
  <2>1. Init => Attended
    BY DEF Init, Attended, Mapped, Live
  <2>2. QED
    BY <2>1, InitOwnerInv, InitListening
<1>2. I /\ [Next]_vars => I'
  <2>1. OwnerInv => ReaderInv
    BY DEF OwnerInv
  <2>2. QED
    BY <2>1, NextOwnerInv, NextAttended, NextListening
<1>3. I => NeverUnattended
  BY ListeningIsArmed DEF OwnerInv, ReaderInv, Inv, Attended, NeverUnattended
<1>4. SafeSpec => []I
  BY <1>1, <1>2, PTL DEF SafeSpec
<1>5. QED
  BY <1>3, <1>4, PTL

-----------------------------------------------------------------------------
(* Somebody will write *)

\* Buffers and windows; a new object has nothing to write; a worker that tells
\* epoll that nothing is left (it holds m_MutexWrite) tells the truth.
Buffers ==
    /\ room \in [Conns -> 0..Window]
    /\ wbuf \in [Conns -> 0..WriteBufMax]
    /\ m_IsWriteing \in [Conns -> BOOLEAN]
    /\ \A c \in Conns : obj[c] = "none" => wbuf[c] = 0 /\ ~m_IsWriteing[c]
    /\ \A w \in Workers : at[w] = "tell" /\ ~m_IsWriteing[cs[w]] => wbuf[cs[w]] = 0

\* A worker that will set the write interest of c, or close c: not the one
\* that is at Send() from Write(), which relies on m_IsWriteing.
IsCarrier(w, c) ==
    /\ cs[w] = c
    /\ \/ at[w] \in {"tell", "rewrite", "erase"}
       \/ at[w] = "send" /\ job[w].kind = "flush"

Carried(c) ==
    m_CfdIsWrite[c] \/ FlushQueued(c) \/ \E w \in Workers : IsCarrier(w, c)

Sends(w, c) == at[w] = "send" /\ cs[w] = c

SomebodyWrites ==
    \A c \in Conns : Mapped(c) =>
        /\ m_IsWriteing[c] => Carried(c)
        /\ wbuf[c] > 0 => Carried(c) \/ \E w \in Workers : Sends(w, c)

\* What one call of Send() comes to.
LEMMA SendOutcome ==
    ASSUME Pointers, Buffers, NEW w \in Workers, NEW c \in Conns, cs[w] = c, Send(w)
    PROVE  /\ room' \in [Conns -> 0..Window]
           /\ wbuf' \in [Conns -> 0..WriteBufMax]
           /\ m_IsWriteing' \in [Conns -> BOOLEAN]
           /\ \A d \in Conns \ {c} :
                 wbuf'[d] = wbuf[d] /\ m_IsWriteing'[d] = m_IsWriteing[d]
           /\ \/ /\ at'[w] = "tell" /\ cs'[w] = c
                 /\ ~m_IsWriteing'[c] => wbuf'[c] = 0
              \/ /\ \/ at'[w] = "rewrite" /\ cs'[w] = c /\ job[w].kind = "flush"
                    \/ at'[w] = "idle" /\ job[w].kind # "flush"
                 /\ m_IsWriteing'[c] = m_IsWriteing[c]
                 /\ wbuf'[c] > 0 => m_IsWriteing[c]
<1> DEFINE n == Sendable(c)
           hasData == n < wbuf[c]
<1>1. /\ room' = [room EXCEPT ![c] = @ - n]
      /\ wbuf' = [wbuf EXCEPT ![c] = @ - n]
      /\ IF m_IsWriteing[c] # hasData
         THEN /\ m_IsWriteing' = [m_IsWriteing EXCEPT ![c] = hasData]
              /\ Goto(w, "tell")
              /\ UNCHANGED <<job, cs>>
         ELSE UNCHANGED m_IsWriteing /\ SendReturns(w)
  BY DEF Send
<1>2. /\ room \in [Conns -> 0..Window] /\ wbuf \in [Conns -> 0..WriteBufMax]
      /\ m_IsWriteing \in [Conns -> BOOLEAN]
      /\ Window \in Nat /\ WriteBufMax \in Nat
  BY BoundsAssumption DEF Buffers
<1>3. n \in Nat /\ n <= wbuf[c] /\ n <= room[c]
  BY <1>2 DEF Sendable
<1>4. hasData \in BOOLEAN
  OBVIOUS
<1> HIDE DEF n
<1>5. room' \in [Conns -> 0..Window] /\ wbuf' \in [Conns -> 0..WriteBufMax]
  BY <1>1, <1>2, <1>3
<1>6. /\ \A d \in Conns \ {c} : wbuf'[d] = wbuf[d]
      /\ wbuf'[c] > 0 <=> hasData
      /\ ~hasData => wbuf'[c] = 0
  <2>1. wbuf'[c] = wbuf[c] - n /\ \A d \in Conns \ {c} : wbuf'[d] = wbuf[d]
    BY <1>1, <1>2
  <2>2. QED
    BY <1>2, <1>3, <2>1
<1> HIDE DEF hasData
<1>7. CASE m_IsWriteing[c] # hasData
  <2>1. m_IsWriteing' = [m_IsWriteing EXCEPT ![c] = hasData]
    BY <1>1, <1>7, Zenon
  <2>2. m_IsWriteing' \in [Conns -> BOOLEAN]
    BY <1>2, <1>4, <2>1, Zenon
  <2>3. m_IsWriteing'[c] = hasData
    BY <1>2, <2>1, Zenon
  <2>4. \A d \in Conns \ {c} : m_IsWriteing'[d] = m_IsWriteing[d]
    BY <1>2, <2>1, Zenon
  <2>5. at'[w] = "tell" /\ cs'[w] = c
    <3>1. Goto(w, "tell") /\ UNCHANGED cs
      BY <1>1, <1>7, Zenon
    <3>2. QED
      BY <3>1 DEF Goto, Pointers
  <2>6. QED
    BY <1>5, <1>6, <2>2, <2>3, <2>4, <2>5
<1>8. CASE m_IsWriteing[c] = hasData
  <2>1. UNCHANGED m_IsWriteing /\ SendReturns(w)
    BY <1>1, <1>8, Zenon
  <2>2. \/ at'[w] = "rewrite" /\ cs'[w] = c /\ job[w].kind = "flush"
        \/ at'[w] = "idle" /\ job[w].kind # "flush"
    BY <2>1 DEF SendReturns, Finish, Goto, Pointers
  <2>3. QED
    BY <1>2, <1>5, <1>6, <1>8, <2>1, <2>2
<1>9. QED
  BY <1>7, <1>8

\* The package is in the buffer and its worker about to send, or it is dropped.
LEMMA AppendOutcome ==
    ASSUME Pointers, Buffers, NEW w \in Workers, NEW c \in Conns, cs[w] = c,
           AppendPackage(w)
    PROVE  /\ wbuf' \in [Conns -> 0..WriteBufMax]
           /\ UNCHANGED <<room, m_IsWriteing>>
           /\ \A d \in Conns \ {c} : wbuf'[d] = wbuf[d]
           /\ \/ at'[w] = "send" /\ cs'[w] = c
              \/ at'[w] = "idle" /\ wbuf'[c] = wbuf[c]
<1>1. CASE wbuf[c] < WriteBufMax
  <2>1. wbuf' = [wbuf EXCEPT ![c] = @ + 1] /\ Goto(w, "send") /\ UNCHANGED cs
    BY <1>1 DEF AppendPackage
  <2>2. wbuf \in [Conns -> 0..WriteBufMax] /\ WriteBufMax \in Nat
    BY BoundsAssumption DEF Buffers
  <2>3. wbuf' \in [Conns -> 0..WriteBufMax] /\ \A d \in Conns \ {c} : wbuf'[d] = wbuf[d]
    BY <1>1, <2>1, <2>2
  <2>4. at'[w] = "send" /\ cs'[w] = c
    BY <2>1 DEF Goto, Pointers
  <2>5. QED
    BY <2>3, <2>4 DEF AppendPackage, peerVars
<1>2. CASE ~(wbuf[c] < WriteBufMax)
  BY <1>2 DEF AppendPackage, peerVars, Finish, Goto, Pointers, Buffers
<1>3. QED
  BY <1>1, <1>2

\* Only Write() and Send() touch the buffer and m_IsWriteing.
LEMMA BuffersStep ==
    ASSUME [Next]_vars
    PROVE  \/ UNCHANGED <<wbuf, m_IsWriteing>>
           \/ \E w \in Workers : Send(w) \/ AppendPackage(w)
<1> USE DEF objVars
<1>1. CASE Peers \/ EpollThread \/ (\E s \in Senders : Handler(s)) \/ UNCHANGED vars
  BY <1>1 DEF Peers, PeerConnects, PeerSends, PeerReads, PeerLeaves, EpollThread,
     EpollWait, EventListen, EventRead, EventWrite, Handler, SendPackage,
     SubmitPackage, vars
<1>2. ASSUME NEW w \in Workers, Worker(w), ~Send(w), ~AppendPackage(w)
      PROVE  UNCHANGED <<wbuf, m_IsWriteing>>
  BY <1>2 DEF Worker, TakeTask, Accept, AcceptNone, Announce, Watch, Relisten, RecvData,
     RecvClose, RecvNone, Rewatch, SendFails, Tell, Rewrite, Lookup, Erase, Unwatch,
     Farewell, Delete
<1>3. QED
  BY <1>1, <1>2 DEF Next

LEMMA InitBuffers == Init => Buffers
  BY BoundsAssumption DEF Init, Buffers

LEMMA NextBuffers == Inv /\ Buffers /\ [Next]_vars => Buffers'
<1> SUFFICES ASSUME Inv, Buffers, [Next]_vars PROVE Buffers'
  OBVIOUS
<1> USE DEF Inv
<1>1. room' \in [Conns -> 0..Window]
  <2>1. ASSUME NEW c \in Conns, PeerReads(c) PROVE room' \in [Conns -> 0..Window]
    BY <2>1, BoundsAssumption DEF PeerReads, Buffers
  <2>2. ASSUME NEW w \in Workers, Send(w) PROVE room' \in [Conns -> 0..Window]
    BY <2>2, SendOutcome DEF Send, Pointers, UsesSocket
  <2>3. CASE Peers /\ ~\E c \in Conns : PeerReads(c)
    BY <2>3 DEF Peers, PeerConnects, PeerSends, PeerLeaves, Buffers
  <2>4. CASE EpollThread \/ (\E s \in Senders : Handler(s)) \/ UNCHANGED vars
    BY <2>4 DEF EpollThread, EpollWait, EventListen, EventRead, EventWrite, Handler,
       SendPackage, SubmitPackage, vars, peerVars, Buffers
  <2>5. ASSUME NEW w \in Workers, Worker(w), ~Send(w) PROVE UNCHANGED room
    BY <2>5 DEF Worker, TakeTask, Accept, AcceptNone, Announce, Watch, Relisten,
       RecvData, RecvClose, RecvNone, Rewatch, SendFails, Tell, Rewrite, Lookup,
       AppendPackage, Erase, Unwatch, Farewell, Delete, peerVars
  <2>6. QED
    BY <2>1, <2>2, <2>3, <2>4, <2>5 DEF Next, Peers, Buffers
<1>2. \A c \in Conns : obj'[c] = "none" => obj[c] = "none"
  <2>1. ASSUME NEW w \in Workers, Accept(w) PROVE \A c \in Conns : obj'[c] = "none" => obj[c] = "none"
    BY <2>1 DEF Accept, NewClientSocket, Pointers
  <2>2. ASSUME NEW w \in Workers, Delete(w) PROVE \A c \in Conns : obj'[c] = "none" => obj[c] = "none"
    BY <2>2 DEF Delete, Pointers
  <2>3. QED
    BY <2>1, <2>2, ObjectsStep
<1>3. ASSUME NEW w \in Workers, Send(w) PROVE Buffers'
  <2>1. PICK c \in Conns : c = cs[w]
    BY <1>3 DEF Send, Pointers, UsesSocket
  <2>2. obj[c] = "live" /\ \A v \in Workers : ~(at[v] = "tell" /\ cs[v] = c)
    BY <1>3, <2>1 DEF Send, Alive, MutexWriteFree
  <2>3. \A v \in Workers \ {w} : at'[v] = at[v] /\ cs'[v] = cs[v]
    BY <1>3, OnlyItself DEF Worker
  <2>4. wbuf' \in [Conns -> 0..WriteBufMax] /\ m_IsWriteing' \in [Conns -> BOOLEAN]
    BY <1>3, <2>1, SendOutcome
  <2>5. \A d \in Conns \ {c} : wbuf'[d] = wbuf[d] /\ m_IsWriteing'[d] = m_IsWriteing[d]
    BY <1>3, <2>1, SendOutcome
  <2>6. at'[w] = "tell" => cs'[w] = c /\ (~m_IsWriteing'[c] => wbuf'[c] = 0)
    BY <1>3, <2>1, SendOutcome
  <2>7. \A d \in Conns : obj'[d] = "none" => wbuf'[d] = 0 /\ ~m_IsWriteing'[d]
    BY <1>2, <2>2, <2>5 DEF Buffers
  <2>8. ASSUME NEW v \in Workers, at'[v] = "tell", ~m_IsWriteing'[cs'[v]]
        PROVE  wbuf'[cs'[v]] = 0
    <3>1. CASE v = w
      BY <2>6, <2>8, <3>1
    <3>2. CASE v # w
      <4>1. at[v] = "tell" /\ cs'[v] = cs[v] /\ cs[v] \in Conns \ {c}
        BY <2>2, <2>3, <2>8, <3>2 DEF Pointers, UsesSocket
      <4>2. QED
        BY <2>5, <2>8, <4>1 DEF Buffers
    <3>3. QED
      BY <3>1, <3>2
  <2>9. QED
    BY <1>1, <2>4, <2>7, <2>8 DEF Buffers
<1>4. ASSUME NEW w \in Workers, AppendPackage(w) PROVE Buffers'
  <2>1. PICK c \in Conns : c = cs[w]
    BY <1>4 DEF AppendPackage, Pointers, UsesSocket
  <2>2. obj[c] = "live" /\ \A v \in Workers : ~(at[v] = "tell" /\ cs[v] = c)
    BY <1>4, <2>1 DEF AppendPackage, Alive, MutexWriteFree
  <2>3. \A v \in Workers \ {w} : at'[v] = at[v] /\ cs'[v] = cs[v]
    BY <1>4, OnlyItself DEF Worker
  <2>4. /\ wbuf' \in [Conns -> 0..WriteBufMax] /\ m_IsWriteing' = m_IsWriteing
        /\ \A d \in Conns \ {c} : wbuf'[d] = wbuf[d]
        /\ at'[w] # "tell"
    BY <1>4, <2>1, AppendOutcome
  <2>5. \A d \in Conns : obj'[d] = "none" => wbuf'[d] = 0 /\ ~m_IsWriteing'[d]
    BY <1>2, <2>2, <2>4 DEF Buffers
  <2>6. ASSUME NEW v \in Workers, at'[v] = "tell", ~m_IsWriteing'[cs'[v]]
        PROVE  wbuf'[cs'[v]] = 0
    <3>1. v # w /\ at[v] = "tell" /\ cs'[v] = cs[v] /\ cs[v] \in Conns \ {c}
      BY <2>2, <2>3, <2>4, <2>6 DEF Pointers, UsesSocket
    <3>2. QED
      BY <2>4, <2>6, <3>1 DEF Buffers
  <2>7. QED
    BY <1>1, <2>4, <2>5, <2>6 DEF Buffers
<1>5. ASSUME UNCHANGED <<wbuf, m_IsWriteing>>, ~\E w \in Workers : Send(w)
      PROVE  Buffers'
  <2>1. \A v \in Workers : at'[v] = "tell" => at[v] = "tell" /\ cs'[v] = cs[v]
    <3>1. CASE UNCHANGED workerVars
      BY <3>1 DEF workerVars
    <3>2. ASSUME NEW w \in Workers, Worker(w), ~Send(w)
          PROVE  \A v \in Workers : at'[v] = "tell" => at[v] = "tell" /\ cs'[v] = cs[v]
      <4>1. at'[w] # "tell"
        <5>1. CASE TakeTask(w)
          BY <5>1, TakenFits
        <5>2. CASE RecvData(w)
          BY <5>2 DEF RecvData, workerVars
        <5>3. CASE ~TakeTask(w) /\ ~RecvData(w)
          BY <3>2, <5>3 DEF Worker, Accept, AcceptNone, Announce, Watch, Relisten,
             RecvClose, RecvNone, Rewatch, SendFails, Tell, Rewrite, Lookup,
             AppendPackage, Erase, Unwatch, Farewell, Delete, Goto, Finish,
             SendReturns, Pointers
        <5>4. QED
          BY <5>1, <5>2, <5>3
      <4>2. QED
        BY <3>2, <4>1, OnlyItself
    <3>3. QED
      BY <1>5, <3>1, <3>2, OthersKeepWorkers
  <2>2. QED
    BY <1>1, <1>2, <1>5, <2>1 DEF Buffers
<1>6. QED
  BY <1>3, <1>4, <1>5, BuffersStep

\* A worker's task and connection are its own; the queue loses its head only.
LEMMA FlushStays ==
    ASSUME Pointers, JobFits, [Next]_vars, NEW c \in Conns, FlushQueued(c)
    PROVE  \/ FlushQueued(c)'
           \/ \E w \in Workers : IsCarrier(w, c)'
<1> DEFINE t == Task("flush", c)
<1>1. PICK i \in DOMAIN queue : queue[i] = t
  BY DEF FlushQueued
<1> HIDE DEF t
<1>2. ASSUME NEW u \in RealTasks, queue' = Append(queue, u) PROVE FlushQueued(c)'
  BY <1>1, <1>2, AppendFacts DEF FlushQueued, Pointers, t
<1>3. CASE UNCHANGED queue
  BY <1>3 DEF FlushQueued
<1>4. ASSUME NEW w \in Workers, TakeTask(w)
      PROVE  FlushQueued(c)' \/ IsCarrier(w, c)'
  <2>1. /\ queue # <<>> /\ queue' = Tail(queue)
        /\ Head(queue) = queue[1]
        /\ i # 1 => i - 1 \in DOMAIN queue' /\ queue'[i - 1] = t
    BY <1>1, <1>4, TailFacts DEF TakeTask, Pointers
  <2>2. CASE i = 1
    <3>1. Head(queue).kind = "flush" /\ Head(queue).conn = c
      BY <1>1, <2>1, <2>2 DEF t, Task
    <3>2. QED
      BY <1>4, <3>1, TakenFits DEF IsCarrier
  <2>3. CASE i # 1
    BY <2>1, <2>3 DEF FlushQueued, t
  <2>4. QED
    BY <2>2, <2>3
<1>5. ASSUME NEW e \in batch, EventListen(e) \/ EventRead(e) \/ EventWrite(e)
      PROVE  \E u \in RealTasks : queue' = Append(queue, u)
  BY <1>5 DEF EventListen, EventRead, EventWrite, RealTasks, Tasks, Task, NoTask
<1>6. ASSUME NEW s \in Senders, SubmitPackage(s)
      PROVE  UNCHANGED queue \/ \E u \in RealTasks : queue' = Append(queue, u)
  BY <1>6 DEF SubmitPackage, Pointers, RealTasks, Tasks, Task, NoTask
<1>7. \/ UNCHANGED queue
      \/ \E e \in batch : EventListen(e) \/ EventRead(e) \/ EventWrite(e)
      \/ \E s \in Senders : SubmitPackage(s)
      \/ \E w \in Workers : TakeTask(w)
  <2>1. ASSUME NEW w \in Workers, Worker(w), ~TakeTask(w) PROVE UNCHANGED queue
    BY <2>1 DEF Worker, Accept, AcceptNone, Announce, Watch, Relisten, RecvData,
       RecvClose, RecvNone, Rewatch, Send, SendFails, Tell, Rewrite, Lookup,
       AppendPackage, Erase, Unwatch, Farewell, Delete
  <2>2. CASE Peers \/ EpollWait \/ UNCHANGED vars
    BY <2>2 DEF Peers, PeerConnects, PeerSends, PeerReads, PeerLeaves, EpollWait, vars
  <2>3. ASSUME NEW s \in Senders, Handler(s) PROVE UNCHANGED queue \/ SubmitPackage(s)
    BY <2>3 DEF Handler, SendPackage
  <2>4. QED
    BY <2>1, <2>2, <2>3 DEF Next, EpollThread
<1>8. QED
  BY <1>2, <1>3, <1>4, <1>5, <1>6, <1>7

\* The write interest goes with an event, with a close, or when a worker tells
\* that nothing is left.
LEMMA InterestStays ==
    ASSUME Inv, [Next]_vars, NEW c \in Conns, m_CfdIsWrite[c]
    PROVE  \/ m_CfdIsWrite'[c]
           \/ FlushQueued(c)'
           \/ \E w \in Workers : Unwatch(w) /\ cs[w] = c
           \/ \E w \in Workers : Tell(w) /\ cs[w] = c /\ ~m_IsWriteing[c]
<1> USE DEF Inv, objVars
<1>1. CASE UNCHANGED m_CfdIsWrite
  BY <1>1
<1>2. ASSUME NEW e \in batch, EventWrite(e) PROVE m_CfdIsWrite'[c] \/ FlushQueued(c)'
  <2>1. /\ e.ptr \in Conns /\ queue' = Append(queue, Task("flush", e.ptr))
        /\ EPollDelClientWrite(e.ptr)
    BY <1>2 DEF EventWrite
  <2>2. CASE e.ptr = c
    <3>1. Task("flush", c) \in RealTasks
      BY DEF RealTasks, Tasks, Task, NoTask
    <3>2. QED
      BY <2>1, <2>2, <3>1, AppendFacts DEF FlushQueued, Pointers
  <2>3. CASE e.ptr # c
    BY <2>1, <2>3 DEF EPollDelClientWrite, Registered
  <2>4. QED
    BY <2>2, <2>3
<1>3. ASSUME NEW w \in Workers, Unwatch(w), cs[w] # c PROVE m_CfdIsWrite'[c]
  BY <1>3 DEF Unwatch, EPollDelClient, Registered
<1>4. ASSUME NEW w \in Workers, Tell(w), cs[w] # c \/ m_IsWriteing[c]
      PROVE  m_CfdIsWrite'[c]
  <2>1. cs[w] \in Conns
    BY <1>4 DEF Tell, Pointers, UsesSocket
  <2>2. CASE m_IsWriteing[cs[w]]
    BY <1>4, <2>1, <2>2 DEF Tell, EPollAddClientWrite, Registered
  <2>3. CASE ~m_IsWriteing[cs[w]]
    BY <1>4, <2>1, <2>3 DEF Tell, EPollDelClientWrite, Registered
  <2>4. QED
    BY <2>2, <2>3
<1>5. ASSUME NEW w \in Workers, Rewrite(w) PROVE m_CfdIsWrite'[c]
  <2>1. cs[w] \in Conns
    BY <1>5 DEF Rewrite, Pointers, UsesSocket
  <2>2. QED
    BY <1>5, <2>1 DEF Rewrite, EPollAddClientWrite, Registered
<1>6. \/ UNCHANGED m_CfdIsWrite
      \/ \E e \in batch : EventWrite(e)
      \/ \E w \in Workers : Unwatch(w) \/ Tell(w) \/ Rewrite(w)
  <2>1. ASSUME NEW w \in Workers, Worker(w), ~Unwatch(w), ~Tell(w), ~Rewrite(w)
        PROVE  UNCHANGED m_CfdIsWrite
    BY <2>1 DEF Worker, TakeTask, Accept, AcceptNone, Announce, Watch, Relisten,
       RecvData, RecvClose, RecvNone, Rewatch, Send, SendFails, Lookup,
       AppendPackage, Erase, Farewell, Delete
  <2>2. CASE Peers \/ EpollWait \/ (\E s \in Senders : Handler(s)) \/ UNCHANGED vars
    BY <2>2 DEF Peers, PeerConnects, PeerSends, PeerReads, PeerLeaves, EpollWait,
       Handler, SendPackage, SubmitPackage, vars
  <2>3. ASSUME NEW e \in batch, EventListen(e) \/ EventRead(e)
        PROVE  UNCHANGED m_CfdIsWrite
    BY <2>3 DEF EventListen, EventRead
  <2>4. QED
    BY <2>1, <2>2, <2>3 DEF Next, EpollThread
<1>7. QED
  BY <1>1, <1>2, <1>3, <1>4, <1>5, <1>6

\* A worker that is to set the write interest sets it, closes, or tells that
\* nothing is left.
LEMMA CarrierStays ==
    ASSUME Inv, Buffers, [Next]_vars, NEW c \in Conns, NEW w \in Workers, IsCarrier(w, c)
    PROVE  \/ m_CfdIsWrite'[c]
           \/ IsCarrier(w, c)'
           \/ Erase(w)
           \/ Tell(w) /\ ~m_IsWriteing[c]
<1> USE DEF Inv
<1>1. CASE UNCHANGED workerVars
  BY <1>1 DEF workerVars, IsCarrier
<1>2. ASSUME NEW v \in Workers \ {w}, Worker(v) PROVE IsCarrier(w, c)'
  BY <1>2, OnlyItself DEF IsCarrier
<1>3. CASE Worker(w)
  <2>1. cs[w] = c /\ at[w] \in {"send", "tell", "rewrite", "erase"}
    BY DEF IsCarrier
  <2>2. Send(w) \/ SendFails(w) \/ Tell(w) \/ Rewrite(w) \/ Erase(w)
    BY <1>3, <2>1 DEF Worker, TakeTask, Accept, AcceptNone, Announce, Watch, Relisten,
       RecvData, RecvClose, RecvNone, Rewatch, Lookup, AppendPackage, Unwatch,
       Farewell, Delete
  <2>3. CASE Send(w)
    <3>1. job[w].kind = "flush"
      BY <2>3 DEF Send, IsCarrier
    <3>2. QED
      BY <2>1, <2>3, <3>1, SendOutcome DEF IsCarrier
  <2>4. CASE SendFails(w)
    BY <2>1, <2>4 DEF SendFails, Goto, Pointers, IsCarrier
  <2>5. CASE Tell(w) /\ m_IsWriteing[c]
    BY <2>1, <2>5 DEF Tell, EPollAddClientWrite, Registered
  <2>6. CASE Rewrite(w)
    BY <2>1, <2>6 DEF Rewrite, EPollAddClientWrite, Registered
  <2>7. QED
    BY <2>2, <2>3, <2>4, <2>5, <2>6
<1>4. QED
  BY <1>1, <1>2, <1>3, OthersKeepWorkers

LEMMA CarriedStays ==
    ASSUME OwnerInv, Buffers, [Next]_vars, NEW c \in Conns,
           Live(c), Mapped(c)', Carried(c),
           ~\E w \in Workers : Tell(w) /\ cs[w] = c /\ ~m_IsWriteing[c]
    PROVE  Carried(c)'
<1> USE DEF OwnerInv, ReaderInv, Inv
<1>1. Mapped(c) /\ cfd'[c] = cfd[c] /\ m_ClientFdMap'[cfd[c]] = c
  BY MappedBefore
<1>2. ASSUME NEW w \in Workers, Unwatch(w), cs[w] = c PROVE FALSE
  BY <1>1, <1>2 DEF Owners, Closers, Unwatch
<1>3. ASSUME NEW w \in Workers, Erase(w), cs[w] = c PROVE FALSE
  <2>1. cfd[c] \in Fds
    BY DEF Live, Pointers
  <2>2. m_ClientFdMap'[cfd[c]] = Nobody
    BY <1>3, <2>1 DEF Erase, Pointers, KnownMap
  <2>3. QED
    BY <1>1, <2>2, ConnsAssumption
<1>4. CASE m_CfdIsWrite[c]
  BY <1>2, <1>4, InterestStays DEF Carried
<1>5. CASE FlushQueued(c)
  BY <1>5, FlushStays DEF Carried
<1>6. ASSUME NEW w \in Workers, IsCarrier(w, c) PROVE Carried(c)'
  <2>1. cs[w] = c
    BY <1>6 DEF IsCarrier
  <2>2. QED
    BY <1>3, <1>6, <2>1, CarrierStays DEF Carried
<1>7. QED
  BY <1>4, <1>5, <1>6 DEF Carried

LEMMA NextWrites ==
    OwnerInv /\ Buffers /\ SomebodyWrites /\ [Next]_vars => SomebodyWrites'
<1> SUFFICES ASSUME OwnerInv, Buffers, SomebodyWrites, [Next]_vars,
                    NEW c \in Conns, Mapped(c)'
             PROVE  /\ m_IsWriteing'[c] => Carried(c)'
                    /\ wbuf'[c] > 0 => Carried(c)' \/ \E w \in Workers : Sends(w, c)'
  BY DEF SomebodyWrites
<1> USE DEF OwnerInv, ReaderInv, Inv
<1>1. CASE ~Live(c)
  <2>1. PICK w \in Workers : Accept(w) /\ c = Head(backlog)
    BY <1>1, NewConnection DEF Mapped
  <2>2. obj[c] = "none" /\ UNCHANGED <<wbuf, m_IsWriteing>>
    BY <2>1, TailFacts DEF Accept, Backlog
  <2>3. QED
    BY <2>2 DEF Buffers
<1>2. CASE Live(c)
  <2>1. /\ m_IsWriteing[c] => Carried(c)
        /\ wbuf[c] > 0 => Carried(c) \/ \E w \in Workers : Sends(w, c)
    BY <1>2, MappedBefore DEF SomebodyWrites
  <2>2. ASSUME NEW w \in Workers, Send(w), cs[w] = c
        PROVE  /\ m_IsWriteing'[c] => Carried(c)'
               /\ wbuf'[c] > 0 => Carried(c)'
    <3>1. ASSUME NEW v \in Workers, Tell(v), cs[v] = c PROVE FALSE
      BY <2>2, <3>1 DEF Send, MutexWriteFree, Tell
    <3>2. m_IsWriteing[c] => Carried(c)'
      BY <1>2, <2>1, <3>1, CarriedStays
    <3>3. CASE at'[w] = "tell" /\ cs'[w] = c
      BY <3>3 DEF Carried, IsCarrier
    <3>4. CASE m_IsWriteing'[c] = m_IsWriteing[c] /\ (wbuf'[c] > 0 => m_IsWriteing[c])
      BY <3>2, <3>4
    <3>5. QED
      BY <2>2, <3>3, <3>4, SendOutcome
  <2>3. ASSUME NEW w \in Workers, AppendPackage(w), cs[w] = c, at'[w] = "send", cs'[w] = c
        PROVE  /\ m_IsWriteing'[c] => Carried(c)'
               /\ wbuf'[c] > 0 => Carried(c)' \/ \E v \in Workers : Sends(v, c)'
    <3>1. ASSUME NEW v \in Workers, Tell(v), cs[v] = c PROVE FALSE
      BY <2>3, <3>1 DEF AppendPackage, MutexWriteFree, Tell
    <3>2. m_IsWriteing' = m_IsWriteing /\ Sends(w, c)'
      BY <2>3 DEF AppendPackage, Sends
    <3>3. QED
      BY <1>2, <2>1, <3>1, <3>2, CarriedStays
  <2>4. ASSUME wbuf'[c] = wbuf[c], m_IsWriteing'[c] = m_IsWriteing[c],
               ~\E w \in Workers : Send(w) /\ cs[w] = c
        PROVE  /\ m_IsWriteing'[c] => Carried(c)'
               /\ wbuf'[c] > 0 => Carried(c)' \/ \E v \in Workers : Sends(v, c)'
    <3>1. ASSUME m_IsWriteing'[c] PROVE Carried(c)'
      BY <1>2, <2>1, <2>4, <3>1, CarriedStays
    <3>2. ASSUME wbuf'[c] > 0, Carried(c) PROVE Carried(c)'
      <4>1. ASSUME NEW w \in Workers, Tell(w), cs[w] = c, ~m_IsWriteing[c] PROVE FALSE
        <5>1. wbuf[c] = 0
          BY <4>1 DEF Tell, Buffers
        <5>2. QED
          BY <2>4, <3>2, <5>1
      <4>2. QED
        BY <1>2, <3>2, <4>1, CarriedStays
    <3>3. ASSUME NEW v \in Workers, Sends(v, c) PROVE Carried(c)' \/ Sends(v, c)'
      <4>1. CASE UNCHANGED workerVars
        BY <3>3, <4>1 DEF workerVars, Sends
      <4>2. ASSUME NEW w \in Workers \ {v}, Worker(w) PROVE Sends(v, c)'
        BY <3>3, <4>2, OnlyItself DEF Sends
      <4>3. CASE Worker(v)
        <5>1. SendFails(v)
          BY <2>4, <3>3, <4>3 DEF Sends, Worker, TakeTask, Accept, AcceptNone,
             Announce, Watch, Relisten, RecvData, RecvClose, RecvNone, Rewatch, Tell,
             Rewrite, Lookup, AppendPackage, Erase, Unwatch, Farewell, Delete
        <5>2. IsCarrier(v, c)'
          BY <3>3, <5>1 DEF SendFails, Goto, Pointers, Sends, IsCarrier
        <5>3. QED
          BY <5>2 DEF Carried
      <4>4. QED
        BY <4>1, <4>2, <4>3, OthersKeepWorkers
    <3>4. QED
      BY <2>1, <2>4, <3>1, <3>2, <3>3
  <2>5. CASE UNCHANGED <<wbuf, m_IsWriteing>>
    BY <2>2, <2>4, <2>5
  <2>6. ASSUME NEW w \in Workers, Send(w), cs[w] # c
        PROVE  /\ wbuf'[c] = wbuf[c] /\ m_IsWriteing'[c] = m_IsWriteing[c]
               /\ ~\E v \in Workers : Send(v) /\ cs[v] = c
    <3>1. cs[w] \in Conns /\ at[w] = "send"
      BY <2>6 DEF Send, Pointers, UsesSocket
    <3>2. wbuf'[c] = wbuf[c] /\ m_IsWriteing'[c] = m_IsWriteing[c]
      BY <2>6, <3>1, SendOutcome
    <3>3. ASSUME NEW v \in Workers, Send(v), cs[v] = c PROVE FALSE
      <4>1. at'[w] # "send" /\ at'[v] # "send" /\ at[v] = "send"
        BY <2>6, <3>1, <3>3, SendOutcome DEF Send
      <4>2. at'[v] = at[v]
        BY <2>6, <3>3, OnlyItself DEF Worker
      <4>3. QED
        BY <4>1, <4>2
    <3>4. QED
      BY <3>2, <3>3
  <2>7. ASSUME NEW w \in Workers, AppendPackage(w), ~(cs[w] = c /\ at'[w] = "send")
        PROVE  wbuf'[c] = wbuf[c] /\ m_IsWriteing'[c] = m_IsWriteing[c]
    BY <2>7, AppendOutcome DEF AppendPackage, Pointers, UsesSocket
  <2>8. QED
    BY <2>2, <2>3, <2>4, <2>5, <2>6, <2>7, AppendOutcome, BuffersStep
<1>3. QED
  BY <1>1, <1>2

WriterInv == OwnerInv /\ Buffers /\ SomebodyWrites

LEMMA InitWriterInv == Init => WriterInv
<1>1. Init => SomebodyWrites
  BY DEF Init, SomebodyWrites, Mapped, Live
<1>2. QED
  BY <1>1, InitOwnerInv, InitBuffers DEF WriterInv

LEMMA NextWriterInv == WriterInv /\ [Next]_vars => WriterInv'
<1>1. OwnerInv => Inv
  BY DEF OwnerInv, ReaderInv
<1>2. QED
  BY <1>1, NextOwnerInv, NextBuffers, NextWrites DEF WriterInv

\* For any number of threads, connections and packages: what Write() has taken
\* into the buffer of a connection in the map is watched for, queued to be
\* sent, or with a worker that is about to send, to tell epoll or to close
\* (SocketControl.cpp 208-247, ClientSocket.cpp 140-213).
THEOREM NothingForgotten == SafeSpec => []NoLostWrite
<1>1. WriterInv => NoLostWrite
  <2> SUFFICES ASSUME WriterInv, NEW c \in Conns, Mapped(c), wbuf[c] > 0
               PROVE  m_CfdIsWrite[c] \/ FlushQueued(c) \/ Flushers(c) # {}
    BY DEF NoLostWrite
  <2>1. Carried(c) \/ \E w \in Workers : Sends(w, c)
    BY DEF WriterInv, SomebodyWrites
  <2>2. \A w \in Workers : IsCarrier(w, c) \/ Sends(w, c) => w \in Flushers(c)
    BY DEF IsCarrier, Sends, Flushers
  <2>3. QED
    BY <2>1, <2>2 DEF Carried
<1>2. SafeSpec => []WriterInv
  BY InitWriterInv, NextWriterInv, PTL DEF SafeSpec
<1>3. QED
  BY <1>1, <1>2, PTL

-----------------------------------------------------------------------------
(* Types of what no other layer speaks of *)

Amounts ==
    /\ said \in [Conns -> 0..MaxData]
    /\ rx \in [Conns -> BOOLEAN]
    /\ online \subseteq Fds
    /\ batch \subseteq [ptr : Conns \cup {Listen, Nobody},
                        isRead : BOOLEAN, isWrite : BOOLEAN]
    /\ sends \in 0..MaxSends

LEMMA InitAmounts == Init => Amounts
  BY BoundsAssumption DEF Init, Amounts

LEMMA NextAmounts == Inv /\ Amounts /\ [Next]_vars => Amounts'
<1> SUFFICES ASSUME Inv, Amounts, [Next]_vars PROVE Amounts'
  OBVIOUS
<1> USE DEF Inv, Amounts
<1>1. CASE Peers \/ UNCHANGED vars
  <2>1. UNCHANGED <<online, batch, sends>>
    BY <1>1 DEF Peers, PeerConnects, PeerSends, PeerReads, PeerLeaves, vars, mapVars,
       senderVars
  <2>2. ASSUME NEW c \in Conns, PeerSends(c)
        PROVE  said' \in [Conns -> 0..MaxData] /\ rx' \in [Conns -> BOOLEAN]
    <3>1. said' \in [Conns -> 0..MaxData]
      BY <2>2, BoundsAssumption DEF PeerSends
    <3>2. rx' \in [Conns -> BOOLEAN]
      BY <2>2 DEF PeerSends
    <3>3. QED
      BY <3>1, <3>2
  <2>3. (\E c \in Conns : PeerSends(c)) \/ UNCHANGED <<said, rx>>
    BY <1>1 DEF Peers, PeerConnects, PeerReads, PeerLeaves, vars, peerVars
  <2>4. QED
    BY <2>1, <2>2, <2>3
<1>2. CASE EpollThread
  <2>1. UNCHANGED <<said, rx, online, sends>>
    BY <1>2 DEF EpollThread, EpollWait, EventListen, EventRead, EventWrite, peerVars,
       mapVars, senderVars
  <2>2. CASE EpollWait
    <3>1. batch' = Reported(ReadableFds, WritableFds)
      BY <2>2 DEF EpollWait
    <3>2. \A h \in ready : reg[h].ptr \in Conns \cup {Listen, Nobody}
      BY DEF Events, Registered
    <3>3. ASSUME NEW h \in ready, NEW r, NEW wr
          PROVE  [ptr |-> reg[h].ptr, isRead |-> reg[h].in /\ h \in r,
                  isWrite |-> reg[h].out /\ h \in wr]
                    \in [ptr : Conns \cup {Listen, Nobody},
                         isRead : BOOLEAN, isWrite : BOOLEAN]
      <4>1. reg[h].ptr \in Conns \cup {Listen, Nobody}
        BY <3>2
      <4>2. (reg[h].in /\ h \in r) \in BOOLEAN /\ (reg[h].out /\ h \in wr) \in BOOLEAN
        OBVIOUS
      <4>3. QED
        BY <4>1, <4>2, Zenon
    <3>4. batch' \subseteq [ptr : Conns \cup {Listen, Nobody},
                            isRead : BOOLEAN, isWrite : BOOLEAN]
      <4>1. ASSUME NEW e \in batch'
            PROVE  e \in [ptr : Conns \cup {Listen, Nobody},
                          isRead : BOOLEAN, isWrite : BOOLEAN]
        <5>1. PICK h \in ready :
                 e = [ptr |-> reg[h].ptr,
                      isRead |-> reg[h].in /\ h \in ReadableFds,
                      isWrite |-> reg[h].out /\ h \in WritableFds]
          BY <3>1 DEF Reported
        <5>2. QED
          BY <3>3, <5>1, Zenon
      <4>2. QED
        BY <4>1
    <3>5. QED
      BY <2>1, <3>4
  <2>3. CASE batch' \subseteq batch
    BY <2>1, <2>3
  <2>4. QED
    BY <1>2, <2>2, <2>3 DEF EpollThread, EventListen, EventRead, EventWrite
<1>3. ASSUME NEW s \in Senders, Handler(s) PROVE Amounts'
  BY <1>3, BoundsAssumption DEF Handler, SendPackage, SubmitPackage, peerVars, mapVars
<1>4. ASSUME NEW w \in Workers, Worker(w) PROVE Amounts'
  <2>1. UNCHANGED <<said, batch, sends>>
    BY <1>4 DEF Worker, TakeTask, Accept, AcceptNone, Announce, Watch, Relisten, RecvData,
       RecvClose, RecvNone, Rewatch, Send, SendFails, Tell, Rewrite, Lookup,
       AppendPackage, Erase, Unwatch, Farewell, Delete, peerVars, senderVars
  <2>2. rx' \in [Conns -> BOOLEAN]
    <3>1. CASE RecvData(w)
      BY <3>1 DEF RecvData
    <3>2. CASE ~RecvData(w)
      BY <1>4, <3>2 DEF Worker, TakeTask, Accept, AcceptNone, Announce, Watch, Relisten,
         RecvClose, RecvNone, Rewatch, Send, SendFails, Tell, Rewrite, Lookup,
         AppendPackage, Erase, Unwatch, Farewell, Delete, peerVars
    <3>3. QED
      BY <3>1, <3>2
  <2>3. online' \subseteq Fds
    <3>1. CASE Announce(w)
      BY <3>1 DEF Announce, Alive, Pointers, UsesSocket
    <3>2. CASE ~Announce(w)
      BY <1>4, <3>2 DEF Worker, TakeTask, Accept, AcceptNone, Watch, Relisten, RecvData,
         RecvClose, RecvNone, Rewatch, Send, SendFails, Tell, Rewrite, Lookup,
         AppendPackage, Erase, Unwatch, Farewell, Delete, mapVars
    <3>3. QED
      BY <3>1, <3>2
  <2>4. QED
    BY <2>1, <2>2, <2>3
<1>5. QED
  BY <1>1, <1>2, <1>3, <1>4 DEF Next

\* Every variable keeps its type, for any values of the constants.
THEOREM TypeCorrect == SafeSpec => []TypeOK
<1>1. WriterInv /\ Amounts => TypeOK
  <2> SUFFICES ASSUME WriterInv, Amounts PROVE TypeOK
    OBVIOUS
  <2> USE DEF WriterInv, OwnerInv, ReaderInv, Inv
  <2>1. queue \in Seq(Tasks) /\ heard \subseteq Conns
    BY DEF Pointers, RealTasks
  <2>2. QED
    BY <2>1 DEF TypeOK, Pointers, KnownMap, Backlog, Registered, Events, Counted,
       Buffers, Amounts
<1>2. SafeSpec => []WriterInv
  BY InitWriterInv, NextWriterInv, PTL DEF SafeSpec
<1>3. WriterInv /\ Amounts /\ [Next]_vars => Amounts'
  BY NextAmounts DEF WriterInv, OwnerInv, ReaderInv
<1>4. QED
  BY <1>1, <1>2, <1>3, InitAmounts, PTL DEF SafeSpec

-----------------------------------------------------------------------------
(* While nothing is sent *)

\* Nobody is in SendPackage, nothing writes, and epoll watches for nothing but
\* reading.
ReadOnly ==
    /\ \A s \in Senders : sender[s] = NotSending
    /\ \A i \in DOMAIN queue : queue[i].kind \in {"accept", "recv"}
    /\ \A w \in Workers : job[w].kind \in {"none", "accept", "recv"}
    /\ \A c \in Conns : ~m_CfdIsWrite[c]
    /\ \A e \in batch : e.ptr \in Conns => e.isRead /\ ~e.isWrite

\* Once a worker has taken c out of the map, nobody else has c, nor will.
Gone(c) == obj[c] = "freed" \/ Closers(c) # {}
LeftAlone ==
    \A c \in Conns :
        /\ Gone(c) => ~Watched(c) /\ RecvQueued(c) = {} /\ Readers(c) = {}
        /\ obj[c] = "freed" => Closers(c) = {}

\* Without a write task, a worker is at none of these places.
LEMMA ReadOnlyPlaces ==
    ASSUME JobFits, ReadOnly, NEW w \in Workers
    PROVE  /\ at[w] \notin {"send", "tell", "rewrite", "lookup", "append"}
           /\ at[w] = "erase" => job[w].kind = "recv"
  BY DEF JobFits, ReadOnly, Closing

LEMMA NextReadOnly ==
    ASSUME Inv, JobFits, ReadOnly, [Next]_vars, sends \in Nat, sends' = sends
    PROVE  ReadOnly'
<1> USE DEF Inv
<1>1. CASE Peers \/ UNCHANGED vars
  <2>1. UNCHANGED <<sender, queue, job, m_CfdIsWrite, batch>>
    BY <1>1 DEF Peers, PeerConnects, PeerSends, PeerReads, PeerLeaves, vars, senderVars,
       workerVars, objVars
  <2>2. QED
    BY <2>1 DEF ReadOnly
<1>2. CASE EpollWait
  <2>1. /\ batch' = Reported(ReadableFds, WritableFds)
        /\ UNCHANGED <<sender, queue, job, m_CfdIsWrite>>
    BY <1>2 DEF EpollWait, senderVars, workerVars, objVars
  <2>2. ASSUME NEW e \in batch', e.ptr \in Conns PROVE e.isRead /\ ~e.isWrite
    <3>1. PICK h \in ready :
             /\ \/ reg[h].in /\ h \in ReadableFds
                \/ reg[h].out /\ h \in WritableFds
             /\ e = [ptr |-> reg[h].ptr,
                     isRead |-> reg[h].in /\ h \in ReadableFds,
                     isWrite |-> reg[h].out /\ h \in WritableFds]
      BY <2>1 DEF Reported
    <3>2. ~reg[h].out
      <4>1. h \in Handles /\ reg[h] # Off
        BY <3>1 DEF Events, Off
      <4>2. CASE reg[h] = Entry(Listen, FALSE, TRUE)
        BY <4>2 DEF Entry
      <4>3. ASSUME NEW c \in Conns, reg[h] = Entry(c, m_CfdIsWrite[c], m_CfdIsRead[c])
            PROVE  ~reg[h].out
        <5>1. reg[h].out = m_CfdIsWrite[c]
          BY <4>3 DEF Entry
        <5>2. QED
          BY <5>1 DEF ReadOnly
      <4>4. QED
        BY <4>1, <4>2, <4>3, RegisteredOwner
    <3>3. reg[h].in /\ h \in ReadableFds
      BY <3>1, <3>2
    <3>4. e.isRead = (reg[h].in /\ h \in ReadableFds)
      BY <3>1, Zenon
    <3>5. e.isWrite = (reg[h].out /\ h \in WritableFds)
      BY <3>1, Zenon
    <3>6. QED
      BY <3>2, <3>3, <3>4, <3>5
  <2>3. QED
    BY <2>1, <2>2 DEF ReadOnly
<1>3. ASSUME NEW e \in batch, EventListen(e) \/ EventRead(e) \/ EventWrite(e)
      PROVE  ReadOnly'
  <2>1. ~EventWrite(e)
    BY DEF EventWrite, ReadOnly
  <2>2. PICK u \in RealTasks : u.kind \in {"accept", "recv"} /\ queue' = Append(queue, u)
    BY <1>3, <2>1 DEF EventListen, EventRead, RealTasks, Tasks, Task, NoTask
  <2>3. \A i \in DOMAIN queue' : queue'[i].kind \in {"accept", "recv"}
    BY <2>2, AppendFacts DEF Pointers, ReadOnly
  <2>4. batch' \subseteq batch /\ UNCHANGED <<sender, job, m_CfdIsWrite>>
    BY <1>3, <2>1 DEF EventListen, EventRead, senderVars, workerVars, objVars
  <2>5. QED
    BY <2>3, <2>4 DEF ReadOnly
<1>4. ASSUME NEW s \in Senders, Handler(s) PROVE FALSE
  BY <1>4 DEF Handler, SubmitPackage, SendPackage, ReadOnly
<1>5. ASSUME NEW w \in Workers, Worker(w) PROVE ReadOnly'
  <2>1. UNCHANGED <<sender, batch>>
    BY <1>5 DEF Worker, TakeTask, Accept, AcceptNone, Announce, Watch, Relisten, RecvData,
       RecvClose, RecvNone, Rewatch, Send, SendFails, Tell, Rewrite, Lookup,
       AppendPackage, Erase, Unwatch, Farewell, Delete, senderVars
  <2>2. ~(Send(w) \/ SendFails(w) \/ Tell(w) \/ Rewrite(w) \/ Lookup(w) \/ AppendPackage(w))
    BY ReadOnlyPlaces DEF Send, SendFails, Tell, Rewrite, Lookup, AppendPackage
  <2>3. \A c \in Conns : ~m_CfdIsWrite'[c]
    <3>1. CASE Unwatch(w)
      BY <3>1 DEF Unwatch, EPollDelClient, Registered, ReadOnly
    <3>2. CASE ~Unwatch(w)
      BY <1>5, <2>2, <3>2 DEF Worker, TakeTask, Accept, AcceptNone, Announce, Watch,
         Relisten, RecvData, RecvClose, RecvNone, Rewatch, Erase, Farewell, Delete,
         objVars, ReadOnly
    <3>3. QED
      BY <3>1, <3>2
  <2>4. /\ \A i \in DOMAIN queue' : queue'[i].kind \in {"accept", "recv"}
        /\ job'[w].kind \in {"none", "accept", "recv"}
    <3>1. CASE TakeTask(w)
      <4>1. queue # <<>> /\ queue' = Tail(queue)
        BY <3>1 DEF TakeTask
      <4>2. /\ Head(queue) = queue[1] /\ 1 \in DOMAIN queue
            /\ \A i \in DOMAIN queue' : i + 1 \in DOMAIN queue /\ queue'[i] = queue[i + 1]
        BY <4>1, TailFacts DEF Pointers
      <4>3. QED
        BY <3>1, <4>2, TakenFits DEF ReadOnly
    <3>2. CASE ~TakeTask(w)
      <4>1. UNCHANGED queue /\ job'[w] \in {job[w], NoTask}
        BY <1>5, <2>2, <3>2 DEF Worker, Accept, AcceptNone, Announce, Watch, Relisten,
           RecvData, RecvClose, RecvNone, Rewatch, Erase, Unwatch, Farewell, Delete,
           Finish, Pointers, workerVars
      <4>2. NoTask.kind = "none"
        BY DEF NoTask, Task
      <4>3. QED
        BY <4>1, <4>2 DEF ReadOnly
    <3>3. QED
      BY <3>1, <3>2
  <2>5. QED
    BY <1>5, <2>1, <2>3, <2>4, OnlyItself DEF ReadOnly
<1>6. QED
  BY <1>1, <1>2, <1>3, <1>4, <1>5 DEF Next, EpollThread

LEMMA NextLeftAlone ==
    ASSUME OwnerInv, ReadOnly, LeftAlone, [Next]_vars
    PROVE  LeftAlone'
<1> USE DEF OwnerInv, ReaderInv, Inv
<1> SUFFICES ASSUME NEW c \in Conns
             PROVE  /\ Gone(c)' => /\ ~Watched(c)' /\ RecvQueued(c)' = {}
                                   /\ Readers(c)' = {}
                    /\ obj'[c] = "freed" => Closers(c)' = {}
  BY DEF LeftAlone
<1>1. CASE obj[c] # "none" /\ Gone(c)
  <2>1. ~Watched(c) /\ RecvQueued(c) = {} /\ Readers(c) = {}
    BY <1>1 DEF LeftAlone
  <2>2. OnlyOne(RecvQueued(c))
    BY <2>1 DEF OnlyOne
  <2>3. ~Queued(c) /\ ~Taken(c) /\ ~GivenBack(c)
    BY <2>1 DEF Queued, Taken, GivenBack
  <2>4. ~Watched(c)' /\ RecvQueued(c)' = {} /\ Readers(c)' = {}
    BY <1>1, <2>1, <2>2, <2>3, RightMoves DEF Kept, Dropped
  <2>5. ASSUME obj'[c] = "freed" PROVE Closers(c)' = {}
    <3>1. CASE obj[c] = "freed"
      <4>1. Closers(c) = {}
        BY <3>1 DEF LeftAlone
      <4>2. ASSUME NEW w \in Workers, Accept(w) \/ Erase(w) \/ Delete(w)
            PROVE  Closers(c)' = {}
        <5>1. w \notin Closers(c) /\ (cs'[w] = c => at'[w] \notin {"unwatch", "farewell", "delete"})
          BY <3>1, <4>1, <4>2 DEF Accept, Erase, Delete, Alive, Goto, Finish, Pointers
        <5>2. ~IsCloser(w, c)'
          BY <5>1 DEF IsCloser
        <5>3. QED
          BY <4>1, <4>2, <5>2, ClosersAfter DEF Worker
      <4>3. QED
        BY <4>1, <4>2, OwnersStep
    <3>2. CASE obj[c] = "live"
      <4>1. PICK w \in Workers : Delete(w) /\ cs[w] = c
        <5>1. ASSUME NEW w \in Workers, Accept(w) PROVE obj'[c] # "freed"
          BY <3>2, <5>1 DEF Accept, NewClientSocket, Pointers
        <5>2. ASSUME NEW w \in Workers, Delete(w), cs[w] # c PROVE obj'[c] = obj[c]
          BY <5>2 DEF Delete, Pointers
        <5>3. QED
          BY <2>5, <3>2, <5>1, <5>2, ObjectsStep
      <4>2. w \in Closers(c) /\ OnlyOne(Closers(c))
        BY <3>2, <4>1 DEF Delete, Closers, Owners, Live
      <4>3. ~IsCloser(w, c)'
        BY <4>1 DEF Delete, Finish, Goto, Pointers, IsCloser
      <4>4. Closers(c)' = Closers(c) \ {w}
        BY <4>1, <4>3, ClosersAfter DEF Worker
      <4>5. QED
        BY <4>2, <4>4 DEF OnlyOne
    <3>3. QED
      BY <1>1, <3>1, <3>2 DEF Pointers
  <2>6. QED
    BY <2>4, <2>5
<1>2. CASE obj[c] = "live" /\ ~Gone(c)
  <2>1. Closers(c) = {}
    BY <1>2 DEF Gone
  <2>2. ASSUME Gone(c)'
        PROVE  \E w \in Workers : Erase(w) /\ cs[w] = c /\ at'[w] = "unwatch"
    <3>1. ASSUME NEW w \in Workers, Accept(w) PROVE FALSE
      <4>1. obj'[c] = "live"
        BY <1>2, <3>1 DEF Accept, NewClientSocket, Pointers
      <4>2. ~IsCloser(w, c)'
        BY <3>1 DEF Accept, Goto, Pointers, IsCloser
      <4>3. Closers(c)' = {}
        BY <2>1, <3>1, <4>2, ClosersAfter DEF Worker
      <4>4. QED
        BY <2>2, <4>1, <4>3 DEF Gone
    <3>2. ASSUME NEW w \in Workers, Delete(w) PROVE FALSE
      <4>1. cs[w] # c
        BY <2>1, <3>2 DEF Delete, Closers
      <4>2. obj'[c] = "live"
        BY <1>2, <3>2, <4>1 DEF Delete, Pointers
      <4>3. ~IsCloser(w, c)'
        BY <3>2 DEF Delete, Finish, Goto, Pointers, IsCloser
      <4>4. Closers(c)' = {}
        BY <2>1, <3>2, <4>3, ClosersAfter DEF Worker
      <4>5. QED
        BY <2>2, <4>2, <4>4 DEF Gone
    <3>3. PICK w \in Workers : Erase(w)
      BY <1>2, <2>1, <2>2, <3>1, <3>2, OwnersStep DEF Gone
    <3>4. obj'[c] = "live"
      BY <1>2, <3>3 DEF Erase, objVars
    <3>5. IsCloser(w, c)'
      BY <2>1, <2>2, <3>3, <3>4, ClosersAfter DEF Gone, Worker
    <3>6. QED
      BY <3>3, <3>5 DEF Erase, Finish, Goto, Pointers, IsCloser
  <2>3. ASSUME NEW w \in Workers, Erase(w), cs[w] = c, at'[w] = "unwatch"
        PROVE  ~Watched(c)' /\ RecvQueued(c)' = {} /\ Readers(c)' = {}
    <3>1. w \in Readers(c)
      BY <2>3, ReadOnlyPlaces DEF Erase, Readers
    <3>2. Readers(c) = {w} /\ RecvQueued(c) = {} /\ ~Watched(c)
      BY <1>2, <3>1 DEF SingleReader, Live, OnlyOne
    <3>3. ~IsReader(w, c)'
      BY <2>3 DEF IsReader
    <3>4. Readers(c)' = {}
      BY <2>3, <3>2, <3>3, ReadersAfter DEF Worker
    <3>5. UNCHANGED <<m_CfdIsRead, batch, queue>>
      BY <2>3 DEF Erase, objVars
    <3>6. QED
      BY <3>2, <3>4, <3>5 DEF Watched, RecvQueued
  <2>4. obj'[c] # "freed"
    <3>1. ASSUME obj'[c] = "freed" PROVE FALSE
      <4>1. PICK w \in Workers : Erase(w)
        BY <2>2, <3>1 DEF Gone
      <4>2. QED
        BY <1>2, <3>1, <4>1 DEF Erase, objVars
    <3>2. QED
      BY <3>1
  <2>5. QED
    BY <2>2, <2>3, <2>4
<1>3. CASE obj[c] = "none"
  <2>1. Closers(c) = {} /\ obj'[c] # "freed" /\ Closers(c)' = {}
    <3>1. Closers(c) = {}
      BY <1>3 DEF Closers, Pointers
    <3>2. ASSUME NEW w \in Workers, Accept(w) PROVE obj'[c] # "freed" /\ Closers(c)' = {}
      <4>1. obj'[c] # "freed"
        BY <1>3, <3>2 DEF Accept, NewClientSocket, Pointers
      <4>2. ~IsCloser(w, c)'
        BY <3>2 DEF Accept, Goto, Pointers, IsCloser
      <4>3. QED
        BY <3>1, <3>2, <4>1, <4>2, ClosersAfter DEF Worker
    <3>3. ASSUME NEW w \in Workers, Erase(w) \/ Delete(w)
          PROVE  obj'[c] # "freed" /\ Closers(c)' = {}
      <4>1. cs[w] # c /\ cs'[w] # c
        BY <1>3, <3>3, ConnsAssumption DEF Erase, Delete, Alive, Finish, Pointers
      <4>2. obj'[c] # "freed"
        BY <1>3, <3>3, <4>1 DEF Erase, Delete, Pointers, objVars
      <4>3. ~IsCloser(w, c)'
        BY <4>1 DEF IsCloser
      <4>4. QED
        BY <3>1, <3>3, <4>2, <4>3, ClosersAfter DEF Worker
    <3>4. QED
      BY <1>3, <3>1, <3>2, <3>3, OwnersStep
  <2>2. QED
    BY <2>1 DEF Gone
<1>4. obj[c] \in {"none", "live", "freed"} /\ (obj[c] = "freed" => Gone(c))
  BY DEF Pointers, Gone
<1>5. QED
  BY <1>1, <1>2, <1>3, <1>4

\* What is known of a server that nobody has used to send.
Quiet == OwnerInv /\ Amounts /\ (sends = 0 => ReadOnly /\ LeftAlone)

LEMMA InitQuiet == Init => Quiet
<1>1. Init => ReadOnly
  BY DEF Init, ReadOnly, NoTask, Task
<1>2. Init => LeftAlone
  BY DEF Init, LeftAlone, Gone, Closers
<1>3. QED
  BY <1>1, <1>2, InitOwnerInv, InitAmounts DEF Quiet

LEMMA SendsGrow ==
    ASSUME Amounts, [Next]_vars, sends' = 0
    PROVE  sends = 0
<1>1. \/ UNCHANGED sends
      \/ \E s \in Senders, c \in Conns : SendPackage(s, c)
  <2>1. Peers \/ EpollThread => UNCHANGED sends
    BY DEF Peers, PeerConnects, PeerSends, PeerReads, PeerLeaves, EpollThread,
       EpollWait, EventListen, EventRead, EventWrite, senderVars
  <2>2. ASSUME NEW w \in Workers, Worker(w) PROVE UNCHANGED sends
    <3>1. CASE TakeTask(w) \/ Accept(w) \/ AcceptNone(w) \/ Announce(w) \/ Watch(w)
               \/ Relisten(w) \/ RecvData(w) \/ RecvClose(w) \/ RecvNone(w) \/ Rewatch(w)
      BY <3>1 DEF TakeTask, Accept, AcceptNone, Announce, Watch, Relisten, RecvData,
         RecvClose, RecvNone, Rewatch, senderVars
    <3>2. CASE Send(w) \/ SendFails(w) \/ Tell(w) \/ Rewrite(w) \/ Lookup(w)
               \/ AppendPackage(w)
      BY <3>2 DEF Send, SendFails, Tell, Rewrite, Lookup, AppendPackage, senderVars
    <3>3. CASE Erase(w) \/ Unwatch(w) \/ Farewell(w) \/ Delete(w)
      BY <3>3 DEF Erase, Unwatch, Farewell, Delete, senderVars
    <3>4. QED
      BY <2>2, <3>1, <3>2, <3>3 DEF Worker
  <2>3. ASSUME NEW s \in Senders, Handler(s)
        PROVE  UNCHANGED sends \/ \E c \in Conns : SendPackage(s, c)
    BY <2>3 DEF Handler, SubmitPackage
  <2>4. QED
    BY <2>1, <2>2, <2>3 DEF Next, vars, senderVars
<1>2. sends \in Nat
  BY BoundsAssumption DEF Amounts
<1>3. QED
  BY <1>1, <1>2 DEF SendPackage

LEMMA NextQuiet == Quiet /\ [Next]_vars => Quiet'
<1> SUFFICES ASSUME Quiet, [Next]_vars PROVE Quiet'
  OBVIOUS
<1>1. OwnerInv' /\ Amounts' /\ Inv /\ JobFits /\ sends \in Nat
  BY NextOwnerInv, NextAmounts, BoundsAssumption DEF Quiet, OwnerInv, ReaderInv, Amounts
<1>2. sends' = 0 => sends = 0 /\ sends' = sends
  BY SendsGrow DEF Quiet
<1>3. QED
  BY <1>1, <1>2, NextReadOnly, NextLeftAlone DEF Quiet

\* While SendPackage has not been called, reading and closing alone never use
\* a ClientSocket that has been deleted: who closes one had the right to read
\* from it, and that right is single (SocketControl.cpp 172-267).
THEOREM ReadingAloneIsSafe == SafeSpec => []NoUseAfterFree
<1>1. Quiet => NoUseAfterFree
  <2> SUFFICES ASSUME Quiet, sends = 0, Dangling PROVE FALSE
    BY DEF NoUseAfterFree
  <2> USE DEF Quiet, OwnerInv, ReaderInv, Inv
  <2>1. ReadOnly /\ LeftAlone
    OBVIOUS
  <2>2. ASSUME NEW w \in Workers, at[w] \in UsesSocket, obj[cs[w]] = "freed" PROVE FALSE
    <3>1. cs[w] \in Conns
      BY <2>2 DEF Pointers
    <3>2. Readers(cs[w]) = {} /\ Closers(cs[w]) = {}
      BY <2>1, <2>2, <3>1 DEF LeftAlone, Gone
    <3>3. w \in Readers(cs[w]) \cup Closers(cs[w])
      BY <2>1, <2>2, ReadOnlyPlaces DEF UsesSocket, Readers, Closers
    <3>4. QED
      BY <3>2, <3>3
  <2>3. ASSUME NEW e \in batch, e.ptr \in Conns, obj[e.ptr] = "freed" PROVE FALSE
    BY <2>1, <2>3 DEF ReadOnly, LeftAlone, Gone, Watched
  <2>4. QED
    BY <2>1, <2>2, <2>3 DEF Dangling, ReadOnly
<1>2. SafeSpec => []Quiet
  BY InitQuiet, NextQuiet, PTL DEF SafeSpec
<1>3. QED
  BY <1>1, <1>2, PTL

\* DataHandler has been told of d, and not yet of its end.
Meeting(w, d) == cs[w] = d /\ at[w] \in {"announce", "delete"}
Greeted(d) == Live(d) /\ ~\E w \in Workers : Meeting(w, d)
KnownOnline == online = {cfd[c] : c \in {d \in Conns : Greeted(d)}}

\* Four kinds of steps touch what DataHandler knows, or whom it should know.
LEMMA GreetedStep ==
    ASSUME Pointers, JobFits, [Next]_vars
    PROVE  \/ /\ UNCHANGED <<obj, cfd, online>>
              /\ \A d \in Conns : Greeted(d)' <=> Greeted(d)
           \/ \E w \in Workers : Accept(w) \/ Announce(w) \/ Farewell(w) \/ Delete(w)
<1> USE DEF objVars, mapVars
<1>1. CASE Peers \/ EpollThread \/ (\E s \in Senders : Handler(s)) \/ UNCHANGED vars
  <2>1. UNCHANGED <<obj, cfd, online, workerVars>>
    BY <1>1 DEF Peers, PeerConnects, PeerSends, PeerReads, PeerLeaves, EpollThread,
       EpollWait, EventListen, EventRead, EventWrite, Handler, SendPackage,
       SubmitPackage, vars
  <2>2. QED
    BY <2>1 DEF workerVars, Greeted, Meeting, Live
<1>2. ASSUME NEW w \in Workers, Worker(w),
             ~Accept(w), ~Announce(w), ~Farewell(w), ~Delete(w)
      PROVE  /\ UNCHANGED <<obj, cfd, online>>
             /\ \A d \in Conns : Greeted(d)' <=> Greeted(d)
  <2>1. UNCHANGED <<obj, cfd, online>>
    BY <1>2 DEF Worker, TakeTask, AcceptNone, Watch, Relisten, RecvData, RecvClose,
       RecvNone, Rewatch, Send, SendFails, Tell, Rewrite, Lookup, AppendPackage, Erase,
       Unwatch
  <2>2. at[w] \notin {"announce", "delete"} /\ at'[w] \notin {"announce", "delete"}
    <3>1. CASE TakeTask(w)
      BY <3>1, TakenFits DEF TakeTask
    <3>2. CASE ~TakeTask(w)
      BY <1>2, <3>2 DEF Worker, AcceptNone, Watch, Relisten, RecvData, RecvClose,
         RecvNone, Rewatch, Send, SendFails, Tell, Rewrite, Lookup, AppendPackage, Erase,
         Unwatch, Goto, Finish, SendReturns, Pointers, workerVars
    <3>3. QED
      BY <3>1, <3>2
  <2>3. \A v \in Workers, d \in Conns : Meeting(v, d)' <=> Meeting(v, d)
    BY <1>2, <2>2, OnlyItself DEF Meeting
  <2>4. QED
    BY <2>1, <2>3 DEF Greeted, Live
<1>3. QED
  BY <1>1, <1>2 DEF Next

LEMMA NextKnownOnline ==
    ASSUME OwnerInv, LeftAlone, KnownOnline, [Next]_vars
    PROVE  KnownOnline'
<1> USE DEF OwnerInv, ReaderInv, Inv
<1>1. CASE /\ UNCHANGED <<obj, cfd, online>>
           /\ \A d \in Conns : Greeted(d)' <=> Greeted(d)
  BY <1>1 DEF KnownOnline
<1>2. ASSUME NEW w \in Workers, Announce(w) PROVE KnownOnline'
  <2>1. PICK c \in Conns : c = cs[w] /\ Live(c)
    BY <1>2 DEF Announce, Alive, Live, Pointers, UsesSocket
  <2>2. /\ at[w] = "announce" /\ at'[w] = "watch" /\ cs'[w] = c
        /\ online' = online \cup {cfd[c]} /\ UNCHANGED <<obj, cfd>>
    BY <1>2, <2>1 DEF Announce, Goto, Pointers, objVars
  <2>3. \A v \in Workers \ {w} : at'[v] = at[v] /\ cs'[v] = cs[v]
    BY <1>2, OnlyItself DEF Worker
  <2>4. Greeted(c)'
    <3>1. w \in Readers(c)
      BY <2>1, <2>2 DEF Readers
    <3>2. Closers(c) = {} /\ OnlyOne(Readers(c))
      BY <2>1, <3>1 DEF LeftAlone, Gone, SingleReader
    <3>3. ASSUME NEW v \in Workers, Meeting(v, c)' PROVE FALSE
      <4>1. v # w /\ cs[v] = c /\ at[v] \in {"announce", "delete"}
        BY <2>2, <2>3, <3>3 DEF Meeting
      <4>2. at[v] # "delete"
        BY <3>2, <4>1 DEF Closers
      <4>3. v \in Readers(c)
        BY <4>1, <4>2 DEF Readers
      <4>4. QED
        BY <3>1, <3>2, <4>1, <4>3 DEF OnlyOne
    <3>4. QED
      BY <2>1, <2>2, <3>3 DEF Greeted, Live
  <2>5. \A d \in Conns \ {c} : Greeted(d)' <=> Greeted(d)
    BY <2>1, <2>2, <2>3 DEF Greeted, Meeting, Live
  <2>6. ~Greeted(c)
    BY <2>1, <2>2 DEF Greeted, Meeting
  <2>7. QED
    BY <2>2, <2>4, <2>5, <2>6 DEF KnownOnline
<1>3. ASSUME NEW w \in Workers, Farewell(w) PROVE KnownOnline'
  <2>1. PICK c \in Conns : c = cs[w] /\ Live(c)
    BY <1>3 DEF Farewell, Alive, Live, Pointers, UsesSocket
  <2>2. /\ at[w] = "farewell" /\ at'[w] = "delete" /\ cs'[w] = c
        /\ online' = online \ {cfd[c]} /\ UNCHANGED <<obj, cfd>>
    BY <1>3, <2>1 DEF Farewell, Goto, Pointers, objVars
  <2>3. \A v \in Workers \ {w} : at'[v] = at[v] /\ cs'[v] = cs[v]
    BY <1>3, OnlyItself DEF Worker
  <2>4. ~Greeted(c)'
    BY <2>2 DEF Greeted, Meeting
  <2>5. \A d \in Conns \ {c} : Greeted(d)' <=> Greeted(d)
    BY <2>1, <2>2, <2>3 DEF Greeted, Meeting, Live
  <2>6. \A d \in Conns \ {c} : Greeted(d) => cfd[d] # cfd[c]
    BY <2>1 DEF Greeted, Registered
  <2>7. QED
    BY <2>2, <2>4, <2>5, <2>6 DEF KnownOnline
<1>4. ASSUME NEW w \in Workers, Accept(w) PROVE KnownOnline'
  <2>1. PICK c \in Conns : c = Head(backlog) /\ obj[c] = "none"
    BY <1>4, TailFacts DEF Accept, Backlog
  <2>2. PICK f \in FreeFds :
           /\ obj' = [obj EXCEPT ![c] = "live"] /\ cfd' = [cfd EXCEPT ![c] = f]
           /\ at[w] = "accept" /\ at'[w] = "announce" /\ cs'[w] = c
           /\ UNCHANGED online
    BY <1>4, <2>1 DEF Accept, NewClientSocket, Goto, Pointers
  <2>3. \A v \in Workers \ {w} : at'[v] = at[v] /\ cs'[v] = cs[v]
    BY <1>4, OnlyItself DEF Worker
  <2>4. ~Greeted(c) /\ ~Greeted(c)'
    BY <2>1, <2>2 DEF Greeted, Meeting, Live
  <2>5. \A d \in Conns \ {c} : obj'[d] = obj[d] /\ cfd'[d] = cfd[d]
    BY <2>1, <2>2 DEF Pointers
  <2>6. \A d \in Conns \ {c} : Greeted(d)' <=> Greeted(d)
    BY <2>2, <2>3, <2>5 DEF Greeted, Meeting, Live
  <2>7. QED
    BY <2>2, <2>4, <2>5, <2>6 DEF KnownOnline
<1>5. ASSUME NEW w \in Workers, Delete(w) PROVE KnownOnline'
  <2>1. PICK c \in Conns : c = cs[w]
    BY <1>5 DEF Delete, Pointers, UsesSocket
  <2>2. /\ obj' = [obj EXCEPT ![c] = "freed"] /\ UNCHANGED <<cfd, online>>
        /\ at[w] = "delete" /\ at'[w] = "idle"
    BY <1>5, <2>1 DEF Delete, Finish, Goto, Pointers, mapVars
  <2>3. \A v \in Workers \ {w} : at'[v] = at[v] /\ cs'[v] = cs[v]
    BY <1>5, OnlyItself DEF Worker
  <2>4. ~Greeted(c) /\ ~Greeted(c)'
    BY <2>1, <2>2 DEF Greeted, Meeting, Live, Pointers
  <2>5. \A d \in Conns \ {c} : obj'[d] = obj[d]
    BY <2>1, <2>2 DEF Pointers
  <2>6. \A d \in Conns \ {c} : Greeted(d)' <=> Greeted(d)
    BY <2>1, <2>2, <2>3, <2>5 DEF Greeted, Meeting, Live
  <2>7. QED
    BY <2>2, <2>4, <2>6 DEF KnownOnline
<1>6. QED
  BY <1>1, <1>2, <1>3, <1>4, <1>5, GreetedStep

\* While SendPackage has not been called, DataHandler knows exactly the
\* descriptors of the connections that were announced and not yet taken leave
\* of, reused ones included (SocketControl.cpp 172-184 and 248-267).
THEOREM DataHandlerKnows == SafeSpec => []OnlineExact
<1> DEFINE I == Quiet /\ (sends = 0 => KnownOnline)
<1>1. Init => I
  <2>1. Init => KnownOnline
    BY DEF Init, KnownOnline, Greeted, Live
  <2>2. QED
    BY <2>1, InitQuiet
<1>2. I /\ [Next]_vars => I'
  <2> SUFFICES ASSUME Quiet, sends = 0 => KnownOnline, [Next]_vars
               PROVE  Quiet' /\ (sends' = 0 => KnownOnline')
    OBVIOUS
  <2>1. Quiet'
    BY NextQuiet
  <2>2. ASSUME sends' = 0 PROVE KnownOnline'
    <3>1. sends = 0
      BY <2>2, SendsGrow DEF Quiet
    <3>2. QED
      BY <3>1, NextKnownOnline DEF Quiet
  <2>3. QED
    BY <2>1, <2>2
<1>3. I => OnlineExact
  BY DEF KnownOnline, OnlineExact, Greeted, Meeting
<1>4. SafeSpec => []I
  BY <1>1, <1>2, PTL DEF SafeSpec
<1>5. QED
  BY <1>3, <1>4, PTL

=============================================================================
