--------------------------- MODULE SocketControl ----------------------------
(***************************************************************************)
(* The server's connections: SocketControl.cpp with the ClientSocket,      *)
(* ServerSocket and EPoll objects it drives, on its ThreadPool.            *)
(*                                                                         *)
(* The epoll thread turns events into tasks; the other threads of the pool *)
(* accept, receive, write and close; the threads of DataHandler call       *)
(* SendPackage.  A step is what happens under one lock (m_ClientFdMutex,   *)
(* m_EPollMutex, m_MutexWrite), one system call, or one unlocked access.   *)
(*                                                                         *)
(* Connections stand for ClientSocket objects: an object is never          *)
(* allocated twice, a descriptor is reused as soon as it is closed.  Bytes *)
(* are left out: what a peer sends is "data" or "no data", what the server *)
(* sends is counted in packages.                                           *)
(*                                                                         *)
(* A step that touches a deleted ClientSocket is undefined.  Such a step   *)
(* is not taken (Alive is part of its guard): what is left are all the     *)
(* behaviours up to the point where something undefined happens.  Dangling *)
(* says that a thread has arrived at that point.                           *)
(***************************************************************************)
EXTENDS Integers, Sequences, FiniteSets, EPoll

CONSTANTS
    Conns,          \* connections that peers may make, one object each
    Fds,            \* descriptors the process may have for clients
    Listen,         \* m_pServerSocket, and its descriptor
    NoFd,
    Workers,        \* threads of m_pThreadPool, without the epoll thread
    Senders,        \* threads of DataHandler
    WriteBufMax,    \* packages that fit into m_WriteBuf
    Window,         \* packages the kernel and the peer hold unread
    Talkers,        \* bound: the peers that ever send data
    MaxData,        \* bound: how often such a peer sends data
    MaxSends        \* bound: calls of SendPackage

ASSUME FdsAssumption == Fds \subseteq Nat /\ NoFd \notin Fds
ASSUME HandlesAssumption == Handles = Fds \cup {Listen} /\ Listen \notin Fds
ASSUME FiniteAssumption == IsFiniteSet(Fds) /\ IsFiniteSet(Workers)
ASSUME ConnsAssumption == Listen \notin Conns /\ Nobody \notin Conns \cup {Listen}
ASSUME BoundsAssumption ==
    /\ Talkers \subseteq Conns
    /\ WriteBufMax \in Nat /\ Window \in Nat
    /\ MaxData \in Nat /\ MaxSends \in Nat

VARIABLES
    (* kernel and peer, per connection *)
    net,            \* "absent", "open", "fin" (peer closed), "rst" (aborted)
    said,           \* how often the peer has sent data
    rx,             \* is there data that recv() would return?
    room,           \* packages send() would still take
    backlog,        \* connections the kernel has and accept() has not
    (* ClientSocket objects *)
    obj,            \* "none", "live" or "freed"
    cfd,            \* m_ClientInfo.cfd
    m_CfdIsRead,
    m_CfdIsWrite,
    m_IsWriteing,
    wbuf,           \* packages in m_WriteBuf
    (* SocketControl *)
    m_ClientFdMap,
    m_ClientSocketCount,
    online,         \* descriptors announced to DataHandler as open
    heard,          \* connections from which DataHandler has a package
    (* threads *)
    batch,          \* events epoll_wait returned, not handled yet
    queue,          \* m_TaskQueue of the pool
    at, job, cs,    \* per worker: place in the code, task, ClientSocket*
    sender,         \* per DataHandler thread: SendPackage in progress
    sends           \* calls of SendPackage so far

peerVars == <<net, said, rx, room, backlog>>
objVars == <<obj, cfd, m_CfdIsRead, m_CfdIsWrite, m_IsWriteing, wbuf>>
mapVars == <<m_ClientFdMap, m_ClientSocketCount, online, heard>>
workerVars == <<at, job, cs>>
senderVars == <<sender, sends>>
vars == <<peerVars, objVars, mapVars, epollVars,
          batch, queue, workerVars, senderVars>>

-----------------------------------------------------------------------------
(* Data *)

Task(kind, c) == [kind |-> kind, conn |-> c]
NoTask == Task("none", Nobody)
Tasks == {NoTask, Task("accept", Nobody)}
         \cup {Task(kind, c) : kind \in {"recv", "flush", "write"}, c \in Conns}

\* Where a worker is.  In these places it uses the ClientSocket cs[w].
UsesSocket == {"announce", "watch", "recv", "rewatch", "append", "send",
               "tell", "rewrite", "erase", "unwatch", "farewell", "delete"}
Places == UsesSocket \cup {"idle", "accept", "relisten", "lookup"}

NotSending == [conn |-> Nobody, cs |-> Nobody]

FreeFds == {f \in Fds : \A c \in Conns : obj[c] = "live" => cfd[c] # f}

\* What the kernel would say of a connection now.
Readable(c) == rx[c] \/ net[c] \in {"fin", "rst"}
Writable(c) == room[c] > 0 \/ net[c] = "rst"

\* m_MutexWrite of c is held across two steps only while Send() calls back.
MutexWriteFree(c) == \A w \in Workers : ~(at[w] = "tell" /\ cs[w] = c)

Init ==
    /\ net = [c \in Conns |-> "absent"]
    /\ said = [c \in Conns |-> 0]
    /\ rx = [c \in Conns |-> FALSE]
    /\ room = [c \in Conns |-> Window]
    /\ backlog = <<>>
    /\ obj = [c \in Conns |-> "none"]
    /\ cfd = [c \in Conns |-> NoFd]
    /\ m_CfdIsRead = [c \in Conns |-> FALSE]
    /\ m_CfdIsWrite = [c \in Conns |-> FALSE]
    /\ m_IsWriteing = [c \in Conns |-> FALSE]
    /\ wbuf = [c \in Conns |-> 0]
    /\ m_ClientFdMap = [f \in Fds |-> Nobody]
    /\ m_ClientSocketCount = 0
    /\ online = {}
    /\ heard = {}
    /\ reg = [[h \in Handles |-> Off] EXCEPT ![Listen] = Entry(Listen, FALSE, TRUE)]
    /\ ready = {}
    /\ batch = {}
    /\ queue = <<>>
    /\ at = [w \in Workers |-> "idle"]
    /\ job = [w \in Workers |-> NoTask]
    /\ cs = [w \in Workers |-> Nobody]
    /\ sender = [s \in Senders |-> NotSending]
    /\ sends = 0
-----------------------------------------------------------------------------
(* The kernel and the peers *)

\* The socket of c became ready: epoll hears of it if c is registered.
Wake(c, interested) ==
    ready' = IF obj[c] = "live" /\ reg[cfd[c]] # Off /\ interested
             THEN ready \cup {cfd[c]} ELSE ready

PeerConnects(c) ==
    /\ net[c] = "absent"
    /\ net' = [net EXCEPT ![c] = "open"]
    /\ backlog' = Append(backlog, c)
    /\ ready' = IF reg[Listen] # Off THEN ready \cup {Listen} ELSE ready
    /\ UNCHANGED <<said, rx, room, objVars, mapVars, reg,
                   batch, queue, workerVars, senderVars>>

PeerSends(c) ==
    /\ c \in Talkers
    /\ net[c] = "open"
    /\ said[c] < MaxData
    /\ said' = [said EXCEPT ![c] = @ + 1]
    /\ rx' = [rx EXCEPT ![c] = TRUE]
    /\ Wake(c, reg[cfd[c]].in)
    /\ UNCHANGED <<net, room, backlog, objVars, mapVars, reg,
                   batch, queue, workerVars, senderVars>>

PeerReads(c) ==
    /\ net[c] = "open"
    /\ room[c] < Window
    /\ room' = [room EXCEPT ![c] = Window]
    /\ Wake(c, room[c] = 0 /\ reg[cfd[c]].out)
    /\ UNCHANGED <<net, said, rx, backlog, objVars, mapVars, reg,
                   batch, queue, workerVars, senderVars>>

PeerLeaves(c) ==
    /\ \/ net[c] = "open" /\ net' = [net EXCEPT ![c] = "fin"]
       \/ net[c] \in {"open", "fin"} /\ net' = [net EXCEPT ![c] = "rst"]
    /\ Wake(c, TRUE)
    /\ UNCHANGED <<said, rx, room, backlog, objVars, mapVars, reg,
                   batch, queue, workerVars, senderVars>>

-----------------------------------------------------------------------------
(* Registering a ClientSocket with epoll, under m_EPollMutex *)

\* Register c anew, or change its entry.
AddClient(c, isWrite, isRead) ==
    Add(cfd[c], Entry(c, isWrite, isRead),
        (isRead /\ Readable(c)) \/ (isWrite /\ Writable(c)))
ChangeClient(c, isWrite, isRead) ==
    Change(cfd[c], Entry(c, isWrite, isRead),
           (isRead /\ Readable(c)) \/ (isWrite /\ Writable(c)))

EPollAddClientRead(c) ==
    IF m_CfdIsRead[c] THEN UNCHANGED <<m_CfdIsRead, epollVars>>
    ELSE /\ m_CfdIsRead' = [m_CfdIsRead EXCEPT ![c] = TRUE]
         /\ IF m_CfdIsWrite[c] THEN ChangeClient(c, TRUE, TRUE)
                               ELSE AddClient(c, FALSE, TRUE)

\* Mutant: epoll_ctl is always asked to add, also when c is watched for reading.
EPollAddClientWriteAnew(c) ==
    IF m_CfdIsWrite[c] THEN UNCHANGED <<m_CfdIsWrite, epollVars>>
    ELSE /\ m_CfdIsWrite' = [m_CfdIsWrite EXCEPT ![c] = TRUE]
         /\ AddClient(c, TRUE, m_CfdIsRead[c])

EPollAddClientWrite(c) ==
    IF m_CfdIsWrite[c] THEN UNCHANGED <<m_CfdIsWrite, epollVars>>
    ELSE /\ m_CfdIsWrite' = [m_CfdIsWrite EXCEPT ![c] = TRUE]
         /\ IF m_CfdIsRead[c] THEN ChangeClient(c, TRUE, TRUE)
                              ELSE AddClient(c, TRUE, FALSE)

EPollDelClientRead(c) ==
    IF ~m_CfdIsRead[c] THEN UNCHANGED <<m_CfdIsRead, epollVars>>
    ELSE /\ m_CfdIsRead' = [m_CfdIsRead EXCEPT ![c] = FALSE]
         /\ IF m_CfdIsWrite[c] THEN ChangeClient(c, TRUE, FALSE)
                               ELSE Remove(cfd[c])

EPollDelClientWrite(c) ==
    IF ~m_CfdIsWrite[c] THEN UNCHANGED <<m_CfdIsWrite, epollVars>>
    ELSE /\ m_CfdIsWrite' = [m_CfdIsWrite EXCEPT ![c] = FALSE]
         /\ IF m_CfdIsRead[c] THEN ChangeClient(c, FALSE, TRUE)
                              ELSE Remove(cfd[c])

EPollDelClient(c) ==
    /\ m_CfdIsRead' = [m_CfdIsRead EXCEPT ![c] = FALSE]
    /\ m_CfdIsWrite' = [m_CfdIsWrite EXCEPT ![c] = FALSE]
    /\ Remove(cfd[c])

-----------------------------------------------------------------------------
(* The epoll thread: EpollWork, EPoll::Wait, Epoll4EventCallback.           *)
(* Withdrawing the interest and adding the task are one step: workers only  *)
(* look at the head of the queue, DataHandler's pushes do not look at       *)
(* registrations, so no other step could tell them apart.                   *)

ReadableFds == {h \in Handles : \/ h = Listen /\ backlog # <<>>
                                \/ reg[h].ptr \in Conns /\ Readable(reg[h].ptr)}
WritableFds == {h \in Handles : reg[h].ptr \in Conns /\ Writable(reg[h].ptr)}

EpollWait ==
    /\ batch = {} /\ ready # {}
    /\ batch' = Reported(ReadableFds, WritableFds)
    /\ ready' = {}
    /\ UNCHANGED <<peerVars, objVars, mapVars, reg,
                   queue, workerVars, senderVars>>

\* A new connection: the listener is taken out of epoll until accept is done.
EventListen(e) ==
    /\ e.ptr = Listen
    /\ Remove(Listen)
    /\ queue' = Append(queue, Task("accept", Nobody))
    /\ batch' = batch \ {e}
    /\ UNCHANGED <<peerVars, objVars, mapVars, workerVars, senderVars>>

\* Mutant: the read interest is not withdrawn before the task is queued.
EventReadStillWatched(e) ==
    /\ e.ptr \in Conns /\ obj[e.ptr] = "live"
    /\ e.isRead
    /\ queue' = Append(queue, Task("recv", e.ptr))
    /\ batch' = batch \ {e}
    /\ UNCHANGED <<peerVars, objVars, mapVars, epollVars, workerVars, senderVars>>

EventRead(e) ==
    /\ e.ptr \in Conns /\ obj[e.ptr] = "live"
    /\ e.isRead
    /\ EPollDelClientRead(e.ptr)
    /\ queue' = Append(queue, Task("recv", e.ptr))
    /\ batch' = batch \ {e}
    /\ UNCHANGED <<peerVars, obj, cfd, m_CfdIsWrite, m_IsWriteing, wbuf,
                   mapVars, workerVars, senderVars>>

\* A write event that comes with a read event is not handled.
EventWrite(e) ==
    /\ e.ptr \in Conns /\ obj[e.ptr] = "live"
    /\ ~e.isRead /\ e.isWrite
    /\ EPollDelClientWrite(e.ptr)
    /\ queue' = Append(queue, Task("flush", e.ptr))
    /\ batch' = batch \ {e}
    /\ UNCHANGED <<peerVars, obj, cfd, m_CfdIsRead, m_IsWriteing, wbuf,
                   mapVars, workerVars, senderVars>>

-----------------------------------------------------------------------------
(* The workers *)

Goto(w, place) == at' = [at EXCEPT ![w] = place]

\* A worker that ends its task forgets it; the other workers are not touched.
Finish(w) ==
    /\ Goto(w, "idle")
    /\ job' = [job EXCEPT ![w] = NoTask]
    /\ cs' = [cs EXCEPT ![w] = Nobody]

Alive(w) == obj[cs[w]] = "live"

FirstPlace == [accept |-> "accept", recv |-> "recv",
               flush |-> "send", write |-> "lookup"]

TakeTask(w) ==
    /\ at[w] = "idle"
    /\ queue # <<>>
    /\ LET t == Head(queue) IN
         /\ job' = [job EXCEPT ![w] = t]
         /\ Goto(w, FirstPlace[t.kind])
         /\ cs' = [cs EXCEPT ![w] = IF t.kind \in {"recv", "flush"}
                                    THEN t.conn ELSE Nobody]
    /\ queue' = Tail(queue)
    /\ UNCHANGED <<peerVars, objVars, mapVars, epollVars,
                   batch, senderVars>>

(* ServerSocket::Accept and Server4ClientConnectCallback *)

NewClientSocket(c, f) ==
    /\ obj' = [obj EXCEPT ![c] = "live"]
    /\ cfd' = [cfd EXCEPT ![c] = f]

\* The kernel gives the lowest free descriptor; map.insert keeps an old entry.
Accept(w) ==
    /\ at[w] = "accept"
    /\ backlog # <<>>
    /\ \E f \in FreeFds :
         /\ \A g \in FreeFds : f <= g
         /\ LET c == Head(backlog) IN
              /\ NewClientSocket(c, f)
              /\ cs' = [cs EXCEPT ![w] = c]
              /\ m_ClientFdMap' = IF m_ClientFdMap[f] = Nobody
                                  THEN [m_ClientFdMap EXCEPT ![f] = c]
                                  ELSE m_ClientFdMap
    /\ backlog' = Tail(backlog)
    /\ Goto(w, "announce")
    /\ UNCHANGED <<net, said, rx, room,
                   m_CfdIsRead, m_CfdIsWrite, m_IsWriteing, wbuf,
                   m_ClientSocketCount, online, heard,
                   epollVars, batch, queue, job, senderVars>>

\* Mutant: the task ends without listening again.
AcceptNoneGivesUp(w) ==
    /\ at[w] = "accept"
    /\ backlog = <<>> \/ FreeFds = {}
    /\ Finish(w)
    /\ UNCHANGED <<peerVars, objVars, mapVars, epollVars,
                   batch, queue, senderVars>>

\* EAGAIN, or no descriptor is left: the loop ends either way.
AcceptNone(w) ==
    /\ at[w] = "accept"
    /\ backlog = <<>> \/ FreeFds = {}
    /\ Goto(w, "relisten")
    /\ UNCHANGED <<peerVars, objVars, mapVars, epollVars,
                   batch, queue, job, cs, senderVars>>

Announce(w) ==
    /\ at[w] = "announce" /\ Alive(w)
    /\ m_ClientSocketCount' = m_ClientSocketCount + 1
    /\ online' = online \cup {cfd[cs[w]]}
    /\ Goto(w, "watch")
    /\ UNCHANGED <<peerVars, objVars, m_ClientFdMap, heard, epollVars,
                   batch, queue, job, cs, senderVars>>

Watch(w) ==
    /\ at[w] = "watch" /\ Alive(w)
    /\ EPollAddClientRead(cs[w])
    /\ Goto(w, "accept")
    /\ cs' = [cs EXCEPT ![w] = Nobody]
    /\ UNCHANGED <<peerVars, obj, cfd, m_CfdIsWrite, m_IsWriteing, wbuf,
                   mapVars, batch, queue, job, senderVars>>

Relisten(w) ==
    /\ at[w] = "relisten"
    /\ Add(Listen, Entry(Listen, FALSE, TRUE), backlog # <<>>)
    /\ Finish(w)
    /\ UNCHANGED <<peerVars, objVars, mapVars, batch, queue, senderVars>>

(* ClientSocket::Recv and its task *)

RecvData(w) ==
    /\ at[w] = "recv" /\ Alive(w)
    /\ rx[cs[w]]
    /\ rx' = [rx EXCEPT ![cs[w]] = FALSE]
    /\ heard' = heard \cup {cs[w]}
    /\ UNCHANGED <<net, said, room, backlog, objVars,
                   m_ClientFdMap, m_ClientSocketCount, online, epollVars,
                   batch, queue, workerVars, senderVars>>

\* recv() returns 0 or an error: the peer is gone, or it sent a package that
\* has filled m_ReadBuf without being complete.
RecvClose(w) ==
    /\ at[w] = "recv" /\ Alive(w)
    /\ rx[cs[w]] \/ net[cs[w]] \in {"fin", "rst"}
    /\ Goto(w, "erase")
    /\ UNCHANGED <<peerVars, objVars, mapVars, epollVars,
                   batch, queue, job, cs, senderVars>>

\* EAGAIN.
RecvNone(w) ==
    /\ at[w] = "recv" /\ Alive(w)
    /\ ~Readable(cs[w])
    /\ Goto(w, "rewatch")
    /\ UNCHANGED <<peerVars, objVars, mapVars, epollVars,
                   batch, queue, job, cs, senderVars>>

\* Mutant: the read interest does not come back after EAGAIN.
RewatchForgotten(w) ==
    /\ at[w] = "rewatch" /\ Alive(w)
    /\ Finish(w)
    /\ UNCHANGED <<peerVars, objVars, mapVars, epollVars,
                   batch, queue, senderVars>>

Rewatch(w) ==
    /\ at[w] = "rewatch" /\ Alive(w)
    /\ EPollAddClientRead(cs[w])
    /\ Finish(w)
    /\ UNCHANGED <<peerVars, obj, cfd, m_CfdIsWrite, m_IsWriteing, wbuf,
                   mapVars, batch, queue, senderVars>>
(* ClientSocket::Send and its task *)

\* Where Send() returns to when it has not failed.
SendReturns(w) ==
    IF job[w].kind = "flush" THEN Goto(w, "rewrite") /\ UNCHANGED <<job, cs>>
                             ELSE Finish(w)

\* How many packages send() takes before it answers EAGAIN.
Sendable(c) == IF wbuf[c] < room[c] THEN wbuf[c] ELSE room[c]

\* send() until m_WriteBuf is empty or the kernel takes no more.
Send(w) ==
    /\ at[w] = "send" /\ Alive(w) /\ MutexWriteFree(cs[w])
    /\ net[cs[w]] # "rst" \/ wbuf[cs[w]] = 0
    /\ LET n == Sendable(cs[w])
           hasData == n < wbuf[cs[w]]
       IN
         /\ room' = [room EXCEPT ![cs[w]] = @ - n]
         /\ wbuf' = [wbuf EXCEPT ![cs[w]] = @ - n]
         /\ IF m_IsWriteing[cs[w]] # hasData
            THEN /\ m_IsWriteing' = [m_IsWriteing EXCEPT ![cs[w]] = hasData]
                 /\ Goto(w, "tell")
                 /\ UNCHANGED <<job, cs>>
            ELSE UNCHANGED m_IsWriteing /\ SendReturns(w)
    /\ UNCHANGED <<net, said, rx, backlog, obj, cfd,
                   m_CfdIsRead, m_CfdIsWrite, mapVars, epollVars,
                   batch, queue, senderVars>>

\* send() fails: the peer has aborted the connection.
SendFails(w) ==
    /\ at[w] = "send" /\ Alive(w) /\ MutexWriteFree(cs[w])
    /\ net[cs[w]] = "rst" /\ wbuf[cs[w]] > 0
    /\ Goto(w, "erase")
    /\ UNCHANGED <<peerVars, objVars, mapVars, epollVars,
                   batch, queue, job, cs, senderVars>>

\* Mutant: Send() does not call m_WriteDataCallback.
TellNobody(w) ==
    /\ at[w] = "tell" /\ Alive(w)
    /\ SendReturns(w)
    /\ UNCHANGED <<peerVars, objVars, mapVars, epollVars,
                   batch, queue, senderVars>>

\* Client4WriteCallback, called with m_MutexWrite held.
Tell(w) ==
    /\ at[w] = "tell" /\ Alive(w)
    /\ IF m_IsWriteing[cs[w]] THEN EPollAddClientWrite(cs[w])
                              ELSE EPollDelClientWrite(cs[w])
    /\ SendReturns(w)
    /\ UNCHANGED <<peerVars, obj, cfd, m_CfdIsRead, m_IsWriteing, wbuf,
                   mapVars, batch, queue, senderVars>>

\* Mutant: the write interest does not come back when data is left.
RewriteForgotten(w) ==
    /\ at[w] = "rewrite" /\ Alive(w)
    /\ Finish(w)
    /\ UNCHANGED <<peerVars, objVars, mapVars, epollVars,
                   batch, queue, senderVars>>

\* The task of a write event registers the interest again in any case.
Rewrite(w) ==
    /\ at[w] = "rewrite" /\ Alive(w)
    /\ EPollAddClientWrite(cs[w])
    /\ Finish(w)
    /\ UNCHANGED <<peerVars, obj, cfd, m_CfdIsRead, m_IsWriteing, wbuf,
                   mapVars, batch, queue, senderVars>>

(* The task of SendPackage, and ClientSocket::Write *)

Lookup(w) ==
    /\ at[w] = "lookup"
    /\ LET c == m_ClientFdMap[cfd[job[w].conn]] IN
       IF c = Nobody
       THEN Finish(w)
       ELSE /\ cs' = [cs EXCEPT ![w] = c]
            /\ Goto(w, "append")
            /\ UNCHANGED job
    /\ UNCHANGED <<peerVars, objVars, mapVars, epollVars,
                   batch, queue, senderVars>>

\* Mutant: Write() relies on the room that SendPackage has seen.
AppendUnchecked(w) ==
    /\ at[w] = "append" /\ Alive(w) /\ MutexWriteFree(cs[w])
    /\ wbuf' = [wbuf EXCEPT ![cs[w]] = @ + 1]
    /\ Goto(w, "send")
    /\ UNCHANGED <<peerVars, obj, cfd, m_CfdIsRead, m_CfdIsWrite, m_IsWriteing,
                   mapVars, epollVars, batch, queue, job, cs, senderVars>>

\* Without room in m_WriteBuf, Write returns 0 and the package is gone.
AppendPackage(w) ==
    /\ at[w] = "append" /\ Alive(w) /\ MutexWriteFree(cs[w])
    /\ IF wbuf[cs[w]] < WriteBufMax
       THEN /\ wbuf' = [wbuf EXCEPT ![cs[w]] = @ + 1]
            /\ Goto(w, "send")
            /\ UNCHANGED <<job, cs>>
       ELSE Finish(w) /\ UNCHANGED wbuf
    /\ UNCHANGED <<peerVars, obj, cfd, m_CfdIsRead, m_CfdIsWrite, m_IsWriteing,
                   mapVars, epollVars, batch, queue, senderVars>>

(* ClientSocketCloseAndDelete *)

\* Mutant: the result of map.erase is not looked at.
EraseUnchecked(w) ==
    /\ at[w] = "erase" /\ Alive(w)
    /\ m_ClientFdMap' = [m_ClientFdMap EXCEPT ![cfd[cs[w]]] = Nobody]
    /\ Goto(w, "unwatch")
    /\ UNCHANGED <<peerVars, objVars, m_ClientSocketCount, online, heard,
                   epollVars, batch, queue, job, cs, senderVars>>

Erase(w) ==
    /\ at[w] = "erase" /\ Alive(w)
    /\ IF m_ClientFdMap[cfd[cs[w]]] = Nobody
       THEN Finish(w) /\ UNCHANGED m_ClientFdMap
       ELSE /\ m_ClientFdMap' = [m_ClientFdMap EXCEPT ![cfd[cs[w]]] = Nobody]
            /\ Goto(w, "unwatch")
            /\ UNCHANGED <<job, cs>>
    /\ UNCHANGED <<peerVars, objVars, m_ClientSocketCount, online, heard,
                   epollVars, batch, queue, senderVars>>

Unwatch(w) ==
    /\ at[w] = "unwatch" /\ Alive(w)
    /\ EPollDelClient(cs[w])
    /\ Goto(w, "farewell")
    /\ UNCHANGED <<peerVars, obj, cfd, m_IsWriteing, wbuf,
                   mapVars, batch, queue, job, cs, senderVars>>

\* Mutant: nobody is told that the connection is closed.
FarewellSilent(w) ==
    /\ at[w] = "farewell" /\ Alive(w)
    /\ m_ClientSocketCount' = m_ClientSocketCount - 1
    /\ Goto(w, "delete")
    /\ UNCHANGED <<peerVars, objVars, m_ClientFdMap, online, heard, epollVars,
                   batch, queue, job, cs, senderVars>>

Farewell(w) ==
    /\ at[w] = "farewell" /\ Alive(w)
    /\ m_ClientSocketCount' = m_ClientSocketCount - 1
    /\ online' = online \ {cfd[cs[w]]}
    /\ Goto(w, "delete")
    /\ UNCHANGED <<peerVars, objVars, m_ClientFdMap, heard, epollVars,
                   batch, queue, job, cs, senderVars>>

\* ~ClientSocket closes the descriptor, which also takes it out of epoll.
Delete(w) ==
    /\ at[w] = "delete" /\ Alive(w)
    /\ obj' = [obj EXCEPT ![cs[w]] = "freed"]
    /\ Remove(cfd[cs[w]])
    /\ Finish(w)
    /\ UNCHANGED <<peerVars, cfd, m_CfdIsRead, m_CfdIsWrite, m_IsWriteing, wbuf,
                   mapVars, batch, queue, senderVars>>

-----------------------------------------------------------------------------
(* DataHandler's threads: SendPackage(cfd), with a descriptor that came     *)
(* with a package of c, however long ago.                                   *)

SendPackage(s, c) ==
    /\ sender[s] = NotSending
    /\ c \in heard
    /\ sends < MaxSends
    /\ sends' = sends + 1
    /\ LET d == m_ClientFdMap[cfd[c]] IN
       sender' = [sender EXCEPT ![s] = IF d = Nobody THEN NotSending
                                       ELSE [conn |-> c, cs |-> d]]
    /\ UNCHANGED <<peerVars, objVars, mapVars, epollVars,
                   batch, queue, workerVars>>

\* The room is looked at without m_MutexWrite, long before the package is
\* appended.
SubmitPackage(s) ==
    /\ sender[s] # NotSending /\ obj[sender[s].cs] = "live"
    /\ queue' = IF wbuf[sender[s].cs] < WriteBufMax
                THEN Append(queue, Task("write", sender[s].conn))
                ELSE queue
    /\ sender' = [sender EXCEPT ![s] = NotSending]
    /\ UNCHANGED <<peerVars, objVars, mapVars, epollVars,
                   batch, workerVars, sends>>

-----------------------------------------------------------------------------
Peers == \E c \in Conns :
    PeerConnects(c) \/ PeerSends(c) \/ PeerReads(c) \/ PeerLeaves(c)

EpollThread ==
    \/ EpollWait
    \/ \E e \in batch : EventListen(e) \/ EventRead(e) \/ EventWrite(e)

Worker(w) ==
    \/ TakeTask(w)
    \/ Accept(w) \/ AcceptNone(w) \/ Announce(w) \/ Watch(w) \/ Relisten(w)
    \/ RecvData(w) \/ RecvClose(w) \/ RecvNone(w) \/ Rewatch(w)
    \/ Send(w) \/ SendFails(w) \/ Tell(w) \/ Rewrite(w)
    \/ Lookup(w) \/ AppendPackage(w)
    \/ Erase(w) \/ Unwatch(w) \/ Farewell(w) \/ Delete(w)

Handler(s) == SubmitPackage(s) \/ \E c \in Conns : SendPackage(s, c)

Next ==
    \/ Peers
    \/ EpollThread
    \/ \E w \in Workers : Worker(w)
    \/ \E s \in Senders : Handler(s)

SafeSpec == Init /\ [][Next]_vars

\* Every thread that stays able to take a step takes it; the kernel reports
\* what is ready; a peer that is still there reads what was sent to it.
\* Nobody has to connect, to send or to leave.
Fairness ==
    /\ WF_vars(EpollThread)
    /\ \A w \in Workers : WF_vars(Worker(w))
    /\ \A s \in Senders : WF_vars(SubmitPackage(s))
    /\ \A c \in Conns : WF_vars(PeerReads(c))

Spec == SafeSpec /\ Fairness

-----------------------------------------------------------------------------
(* Safety *)

TypeOK ==
    /\ net \in [Conns -> {"absent", "open", "fin", "rst"}]
    /\ said \in [Conns -> 0..MaxData]
    /\ rx \in [Conns -> BOOLEAN]
    /\ room \in [Conns -> 0..Window]
    /\ backlog \in Seq(Conns)
    /\ obj \in [Conns -> {"none", "live", "freed"}]
    /\ cfd \in [Conns -> Fds \cup {NoFd}]
    /\ m_CfdIsRead \in [Conns -> BOOLEAN]
    /\ m_CfdIsWrite \in [Conns -> BOOLEAN]
    /\ m_IsWriteing \in [Conns -> BOOLEAN]
    /\ wbuf \in [Conns -> 0..WriteBufMax]
    /\ m_ClientFdMap \in [Fds -> Conns \cup {Nobody}]
    /\ m_ClientSocketCount \in Int
    /\ online \subseteq Fds
    /\ heard \subseteq Conns
    /\ reg \in [Handles -> [ptr : Conns \cup {Listen, Nobody},
                            in : BOOLEAN, out : BOOLEAN]]
    /\ ready \subseteq Handles
    /\ batch \subseteq [ptr : Conns \cup {Listen, Nobody},
                        isRead : BOOLEAN, isWrite : BOOLEAN]
    /\ queue \in Seq(Tasks)
    /\ at \in [Workers -> Places]
    /\ job \in [Workers -> Tasks]
    /\ cs \in [Workers -> Conns \cup {Nobody}]
    /\ sender \in [Senders -> [conn : Conns \cup {Nobody},
                               cs : Conns \cup {Nobody}]]
    /\ sends \in 0..MaxSends

Live(c) == obj[c] = "live"
Mapped(c) == Live(c) /\ m_ClientFdMap[cfd[c]] = c

OnlyOne(S) == \A x, y \in S : x = y

\* A thread's next step uses a ClientSocket that has been deleted.
Dangling ==
    \/ \E w \in Workers : at[w] \in UsesSocket /\ obj[cs[w]] = "freed"
    \/ \E s \in Senders : sender[s] # NotSending /\ obj[sender[s].cs] = "freed"
    \/ \E e \in batch : e.ptr \in Conns /\ obj[e.ptr] = "freed"

\* The places where the right to read from c can be: epoll watches it or has
\* reported it, a task is queued, or a worker is at it (one that accepts c
\* has not handed it to epoll yet, one that got SOCKET_CLOSE will close c).
Watched(c) == m_CfdIsRead[c] \/ \E e \in batch : e.ptr = c /\ e.isRead
RecvQueued(c) == {i \in DOMAIN queue : queue[i] = Task("recv", c)}
Readers(c) ==
    {w \in Workers :
        /\ cs[w] = c
        /\ \/ at[w] \in {"announce", "watch", "recv", "rewatch"}
           \/ at[w] = "erase" /\ job[w].kind = "recv"}

\* The events of a connection are handled by one thread at a time, so its
\* packages are cut out of m_ReadBuf and given to DataHandler in order: the
\* interest is withdrawn before the task is queued and comes back when the
\* task is done (Epoll4EventCallback 210-223).
SingleReader ==
    \A c \in Conns : Live(c) =>
        /\ OnlyOne(RecvQueued(c)) /\ OnlyOne(Readers(c))
        /\ RecvQueued(c) = {} \/ Readers(c) = {}
        /\ Watched(c) => RecvQueued(c) = {} /\ Readers(c) = {}

\* The listening descriptor is watched, or one accept task will watch it
\* again; never both, never neither (196-206).
ListenerArmed ==
    LET queued == {i \in DOMAIN queue : queue[i].kind = "accept"}
        running == {w \in Workers : job[w].kind = "accept"}
    IN  /\ OnlyOne(queued) /\ OnlyOne(running)
        /\ queued = {} \/ running = {}
        /\ reg[Listen] = Off <=> queued # {} \/ running # {}

\* A connection in the map is never left without somebody who will read from
\* it or close it: the right to read is handed on at every step.  Nor is the
\* listening descriptor.
NeverUnattended ==
    /\ ListenerArmed
    /\ \A c \in Conns : Mapped(c) =>
          Watched(c) \/ RecvQueued(c) # {} \/ Readers(c) # {}

\* The flags a ClientSocket keeps say exactly what epoll watches its
\* descriptor for, so no epoll_ctl fails: an ADD never finds the descriptor
\* registered, a MOD never finds it missing (293-371).
RegMatchesFlags ==
    \A c \in Conns : Live(c) =>
        reg[cfd[c]] = IF m_CfdIsRead[c] \/ m_CfdIsWrite[c]
                      THEN Entry(c, m_CfdIsWrite[c], m_CfdIsRead[c]) ELSE Off

Closers(c) == {w \in Workers : /\ cs[w] = c
                               /\ at[w] \in {"unwatch", "farewell", "delete"}}

\* m_ClientSocketCount is the size of the map but for the workers that are
\* between the map and the counter (180-183, 254-261).
CountExact ==
    LET between(places) == Cardinality({w \in Workers : at[w] \in places})
    IN  m_ClientSocketCount
            = Cardinality({f \in Fds : m_ClientFdMap[f] # Nobody})
              - between({"announce"}) + between({"unwatch", "farewell"})

\* A ClientSocket is in the map under its own descriptor, or one worker is
\* about to delete it: it is neither leaked nor deleted twice, and the map
\* never leads to a deleted object (ClientSocketCloseAndDelete 249-267).  The
\* number of clients that Monitor prints agrees with the map.
OneOwner ==
    /\ CountExact
    /\ \A c \in Conns : Live(c) =>
          /\ OnlyOne(Closers(c))
          /\ Mapped(c) <=> Closers(c) = {}
    /\ \A f \in Fds : m_ClientFdMap[f] # Nobody =>
          Live(m_ClientFdMap[f]) /\ cfd[m_ClientFdMap[f]] = f

\* Who will call Send() for c, or is past it and not done.
Flushers(c) == {w \in Workers : /\ cs[w] = c
                                /\ at[w] \in {"send", "tell", "rewrite", "erase"}}
FlushQueued(c) == \E i \in DOMAIN queue : queue[i] = Task("flush", c)

\* What Write() has taken into m_WriteBuf is not forgotten there: epoll tells
\* when the socket takes more, or somebody is about to send.
NoLostWrite ==
    \A c \in Conns : Mapped(c) /\ wbuf[c] > 0 =>
        m_CfdIsWrite[c] \/ FlushQueued(c) \/ Flushers(c) # {}

\* While nothing has been sent, no thread ever uses a ClientSocket
\* that another one has deleted: reading and closing alone are safe.
NoUseAfterFree == sends = 0 => ~Dangling

\* While nothing has been sent, DataHandler knows exactly the descriptors of the
\* connections that were announced and not yet taken leave of, also when a
\* descriptor is reused.
OnlineExact == sends = 0 =>
    online = {cfd[c] : c \in {d \in Conns :
                 Live(d) /\ ~\E w \in Workers : /\ cs[w] = d
                                                /\ at[w] \in {"announce", "delete"}}}

-----------------------------------------------------------------------------
(* Liveness.  A thread about to use a deleted object has no next step, so   *)
(* every promise ends there.                                                *)

\* Data that has arrived is received, and a connection whose peer is gone is
\* closed and deleted, although events are edge triggered and may fire while
\* nobody is registered.
ReadServed ==
    \A c \in Conns : (Live(c) /\ Readable(c))
                        ~> (~Readable(c) \/ ~Live(c) \/ Dangling)

\* What Write() has accepted leaves m_WriteBuf.
WriteServed ==
    \A c \in Conns : (Live(c) /\ wbuf[c] > 0)
                        ~> (wbuf[c] = 0 \/ ~Live(c) \/ Dangling)

\* A peer that connects is accepted as soon as a descriptor is free.
ConnectServed ==
    \A c \in Conns : (net[c] # "absent" /\ obj[c] = "none" /\ FreeFds # {})
                        ~> (obj[c] # "none" \/ FreeFds = {} \/ Dangling)

=============================================================================
