---------------------------- MODULE ClientSelect ----------------------------
(***************************************************************************)
(* The connections of a client: Select, SocketControl and ClientSocket of  *)
(* the SDK, as SocketMessageSdkInterface uses them.                        *)
(*                                                                         *)
(* Two threads: the program that uses the SDK calls ConnectServer and      *)
(* SendPackage; the thread of Select reads, writes what is left over,      *)
(* removes, and calls back, and a callback may call SendPackage too.       *)
(*                                                                         *)
(* m_ClientSocketMap is not locked.  Each of its operations (count, at,    *)
(* erase, insert) is a step of its own, a torn one is not modelled.  An    *)
(* iterator whose element is gone, at() for an element that is gone, and a *)
(* ClientSocket that has been deleted are: the step that would use them is *)
(* not taken, and Dangling says that a thread has come that far.           *)
(*                                                                         *)
(* Conns are ClientSocket objects, each with its peer; shared pointers are *)
(* the map's and those the threads hold.  Data is "some" or "none" on its  *)
(* way in, a number of packages on its way out.                            *)
(***************************************************************************)
EXTENDS Integers, Sequences, FiniteSets

CONSTANTS
    Conns,          \* connections the program may make, one object each
    Fds,            \* descriptors the process may have for them
    Nobody,         \* nullptr, end() of the map
    WriteBufMax,    \* packages that fit into m_WriteBuf
    Window,         \* packages the kernel and the peer hold unread
    MaxData,        \* bound: how often a peer sends data
    MaxSends        \* bound: calls of SendPackage

ASSUME FdsAssumption == Fds \subseteq Nat
ASSUME NobodyAssumption == Nobody \notin Conns
ASSUME BoundsAssumption ==
    /\ WriteBufMax \in Nat \ {0} /\ Window \in Nat \ {0}
    /\ MaxData \in Nat /\ MaxSends \in Nat

VARIABLES
    (* kernel and peer, per connection *)
    net,            \* "absent", "open", "fin" (peer closed), "rst" (broken)
    said,           \* how often the peer has sent data
    rx,             \* is there data that recv() would return?
    room,           \* packages send() would still take
    (* ClientSocket objects *)
    cfd,            \* 0 before Connect
    m_CfdIsWrite,
    m_IsWriteing,
    wbuf,           \* packages in m_WriteBuf
    (* Select *)
    m_ClientSocketMap,
    told,           \* how often m_SocketCloseCallback was called, per object
    met,            \* history: objects that both threads had, each for
                    \* itself, looked up in Remove before either erased
    (* the thread of Select *)
    work,           \* its place in Work(); "none" before Start
    watchR, watchW, \* connections whose descriptors select() gets
    readSet, writeSet,  \* what select() returned
    begin,          \* the iterator
    closeSocket,
    (* SendPackage and Remove, per thread *)
    does, fd, sp,   \* place, parameter, shared pointer held
    sends,          \* calls of SendPackage so far
    sdk             \* "used", "closing", "ending" (m_IsDestory) or "deleted"

peerVars == <<net, said, rx, room>>
objVars == <<cfd, m_CfdIsWrite, m_IsWriteing, wbuf>>
mapVars == <<m_ClientSocketMap, told, met>>
setVars == <<watchR, watchW, readSet, writeSet>>
workVars == <<work, setVars, begin, closeSocket>>
callVars == <<does, fd, sp, sends, sdk>>
vars == <<peerVars, objVars, mapVars, workVars, callVars>>

-----------------------------------------------------------------------------
Threads == {"app", "select"}

Mapped(c) == cfd[c] \in Fds /\ m_ClientSocketMap[cfd[c]] = c

\* An object lives as long as the map or a thread has a shared pointer to it.
Live(c) == Mapped(c) \/ \E t \in Threads : sp[t] = c
FreeFds == {f \in Fds : \A c \in Conns : Live(c) => cfd[c] # f}

Readable(c) == rx[c] \/ net[c] \in {"fin", "rst"}
Writable(c) == room[c] > 0 \/ net[c] = "rst"

\* The element of the map at the lowest descriptor of F, or end().
FirstOf(F) ==
    LET G == {f \in F : m_ClientSocketMap[f] # Nobody} IN
    IF G = {} THEN Nobody
    ELSE m_ClientSocketMap[CHOOSE f \in G : \A g \in G : f <= g]

Init ==
    /\ net = [c \in Conns |-> "absent"]
    /\ said = [c \in Conns |-> 0]
    /\ rx = [c \in Conns |-> FALSE]
    /\ room = [c \in Conns |-> Window]
    /\ cfd = [c \in Conns |-> 0]
    /\ m_CfdIsWrite = [c \in Conns |-> FALSE]
    /\ m_IsWriteing = [c \in Conns |-> FALSE]
    /\ wbuf = [c \in Conns |-> 0]
    /\ m_ClientSocketMap = [f \in Fds |-> Nobody]
    /\ told = [c \in Conns |-> 0]
    /\ met = {}
    /\ work = "none"
    /\ watchR = {} /\ watchW = {}
    /\ readSet = {} /\ writeSet = {}
    /\ begin = Nobody
    /\ closeSocket = <<>>
    /\ does = [t \in Threads |-> "nothing"]
    /\ fd = [t \in Threads |-> 0]
    /\ sp = [t \in Threads |-> Nobody]
    /\ sends = 0
    /\ sdk = "used"

-----------------------------------------------------------------------------
(* The servers *)

PeerSends(c) ==
    /\ net[c] = "open"
    /\ said[c] < MaxData
    /\ said' = [said EXCEPT ![c] = @ + 1]
    /\ rx' = [rx EXCEPT ![c] = TRUE]
    /\ UNCHANGED <<net, room, objVars, mapVars, workVars, callVars>>

PeerReads(c) ==
    /\ net[c] = "open"
    /\ room[c] < Window
    /\ room' = [room EXCEPT ![c] = Window]
    /\ UNCHANGED <<net, said, rx, objVars, mapVars, workVars, callVars>>

PeerLeaves(c) ==
    /\ \/ net[c] = "open" /\ net' = [net EXCEPT ![c] = "fin"]
       \/ net[c] \in {"open", "fin"} /\ net' = [net EXCEPT ![c] = "rst"]
    /\ UNCHANGED <<said, rx, room, objVars, mapVars, workVars, callVars>>

-----------------------------------------------------------------------------
(* ConnectServerSocket, on the program's thread *)

\* Connect, Add and Start.  A refused connection counts as made: Connect
\* only asks whether the socket can be written.  (One that times out leaves
\* nothing behind.)
Connect(c) ==
    /\ sdk = "used" /\ does["app"] = "nothing"
    /\ net[c] = "absent"
    /\ \E answer \in {"open", "rst"} : net' = [net EXCEPT ![c] = answer]
    /\ \E f \in FreeFds :
         /\ \A g \in FreeFds : f <= g
         /\ cfd' = [cfd EXCEPT ![c] = f]
         /\ m_ClientSocketMap' = [m_ClientSocketMap EXCEPT ![f] = c]
         /\ fd' = [fd EXCEPT !["app"] = f]
    /\ work' = IF work = "none" THEN "collect" ELSE work
    /\ does' = [does EXCEPT !["app"] = "connected"]
    /\ UNCHANGED <<said, rx, room, m_CfdIsWrite, m_IsWriteing, wbuf, told, met,
                   setVars, begin, closeSocket, sp, sends, sdk>>

\* cs->GetFd(), although the map alone has a shared pointer to cs.
ConnectReturns ==
    /\ does["app"] = "connected"
    /\ \E c \in Conns : cfd[c] = fd["app"] /\ Live(c)
    /\ does' = [does EXCEPT !["app"] = "nothing"]
    /\ fd' = [fd EXCEPT !["app"] = 0]
    /\ UNCHANGED <<peerVars, objVars, mapVars, workVars, sp, sends, sdk>>

-----------------------------------------------------------------------------
(* SendPackage, on either thread *)

Return(t) ==
    /\ does' = [does EXCEPT ![t] = "nothing"]
    /\ fd' = [fd EXCEPT ![t] = 0]
    /\ sp' = [sp EXCEPT ![t] = Nobody]

\* With the descriptor of c, which the program has from ConnectServer or the
\* callback that is running was called with.  GetClientSocket counts ...
SendPackage(t, c) ==
    /\ sdk = "used" /\ does[t] = "nothing"
    /\ \/ t = "app" /\ net[c] # "absent"
       \/ t = "select" /\ work = "callback" /\ begin = c
    /\ sends < MaxSends
    /\ sends' = sends + 1
    /\ IF m_ClientSocketMap[cfd[c]] = Nobody
       THEN UNCHANGED <<does, fd>>
       ELSE /\ does' = [does EXCEPT ![t] = "get"]
            /\ fd' = [fd EXCEPT ![t] = cfd[c]]
    /\ UNCHANGED <<peerVars, objVars, mapVars, workVars, sp, sdk>>

\* ... and takes the element, which may be another one by then; without room
\* for the package SendPackage returns.
GetClientSocket(t) ==
    LET d == m_ClientSocketMap[fd[t]] IN
    /\ does[t] = "get"
    /\ d # Nobody
    /\ IF wbuf[d] = WriteBufMax
       THEN Return(t)
       ELSE /\ does' = [does EXCEPT ![t] = "append"]
            /\ sp' = [sp EXCEPT ![t] = d]
            /\ UNCHANGED fd
    /\ UNCHANGED <<peerVars, objVars, mapVars, workVars, sends, sdk>>

\* Write() gives m_MutexWrite back before it calls Send().
AppendPackage(t) ==
    /\ does[t] = "append"
    /\ IF wbuf[sp[t]] < WriteBufMax
       THEN /\ wbuf' = [wbuf EXCEPT ![sp[t]] = @ + 1]
            /\ does' = [does EXCEPT ![t] = "send"]
            /\ UNCHANGED <<fd, sp>>
       ELSE Return(t) /\ UNCHANGED wbuf
    /\ UNCHANGED <<peerVars, cfd, m_CfdIsWrite, m_IsWriteing, mapVars,
                   workVars, sends, sdk>>

Failing(c) == net[c] = "rst" /\ wbuf[c] > 0
Sendable(c) == IF wbuf[c] < room[c] THEN wbuf[c] ELSE room[c]

\* Mutant: the callback is called only when everything has been sent.
SendTellsEnd(c) ==
    LET n == Sendable(c)
        hasData == n < wbuf[c]
    IN  /\ ~Failing(c)
        /\ room' = [room EXCEPT ![c] = @ - n]
        /\ wbuf' = [wbuf EXCEPT ![c] = @ - n]
        /\ m_IsWriteing' = [m_IsWriteing EXCEPT ![c] = hasData]
        /\ m_CfdIsWrite' = IF hasData THEN m_CfdIsWrite
                           ELSE [m_CfdIsWrite EXCEPT ![c] = FALSE]
        /\ UNCHANGED <<net, said, rx, cfd>>

\* send() until m_WriteBuf is empty or the kernel takes no more; then the
\* callback of ConnectServerSocket, if the answer is not the one of last time.
Send(c) ==
    LET n == Sendable(c)
        hasData == n < wbuf[c]
    IN  /\ ~Failing(c)
        /\ room' = [room EXCEPT ![c] = @ - n]
        /\ wbuf' = [wbuf EXCEPT ![c] = @ - n]
        /\ m_IsWriteing' = [m_IsWriteing EXCEPT ![c] = hasData]
        /\ m_CfdIsWrite' = IF m_IsWriteing[c] # hasData
                           THEN [m_CfdIsWrite EXCEPT ![c] = hasData] ELSE m_CfdIsWrite
        /\ UNCHANGED <<net, said, rx, cfd>>

SendNow(t) ==
    /\ does[t] = "send"
    /\ Send(sp[t])
    /\ Return(t)
    /\ UNCHANGED <<mapVars, workVars, sends, sdk>>

SendFails(t) ==
    /\ does[t] = "send"
    /\ Failing(sp[t])
    /\ does' = [does EXCEPT ![t] = "remove"]
    /\ UNCHANGED <<peerVars, objVars, mapVars, workVars, fd, sp, sends, sdk>>

(* Select::Remove, called with fd[t] *)

Other(t) == IF t = "app" THEN "select" ELSE "app"

\* count()
Remove(t) ==
    /\ does[t] = "remove"
    /\ IF m_ClientSocketMap[fd[t]] = Nobody
       THEN Return(t)
       ELSE /\ does' = [does EXCEPT ![t] = "at"]
            /\ UNCHANGED <<fd, sp>>
    /\ UNCHANGED <<peerVars, objVars, mapVars, workVars, sends, sdk>>

\* at(), which finds what is there now.
LookUp(t) ==
    LET c == m_ClientSocketMap[fd[t]] IN
    /\ does[t] = "at"
    /\ c # Nobody
    /\ sp' = [sp EXCEPT ![t] = c]
    /\ met' = IF does[Other(t)] = "erase" /\ sp[Other(t)] = c THEN met \cup {c} ELSE met
    /\ does' = [does EXCEPT ![t] = "erase"]
    /\ UNCHANGED <<peerVars, objVars, m_ClientSocketMap, told, workVars, fd, sends, sdk>>

\* Mutant: the element is looked up, and not erased.
EraseNothing(t) ==
    /\ does[t] = "erase"
    /\ does' = [does EXCEPT ![t] = "tell"]
    /\ UNCHANGED <<peerVars, objVars, mapVars, workVars, fd, sp, sends, sdk>>

\* erase(), of the element if it is still there.
Erase(t) ==
    /\ does[t] = "erase"
    /\ m_ClientSocketMap' = [m_ClientSocketMap EXCEPT ![fd[t]] = Nobody]
    /\ does' = [does EXCEPT ![t] = "tell"]
    /\ UNCHANGED <<peerVars, objVars, told, met, workVars, fd, sp, sends, sdk>>

\* m_SocketCloseCallback; then the last shared pointer goes.
Tell(t) ==
    /\ does[t] = "tell" /\ sdk = "used"
    /\ told' = [told EXCEPT ![sp[t]] = @ + 1]
    /\ Return(t)
    /\ UNCHANGED <<peerVars, objVars, m_ClientSocketMap, met, workVars, sends, sdk>>

-----------------------------------------------------------------------------
(* Select::Work *)

Idle == does["select"] = "nothing"

m_IsDestory == sdk \in {"ending", "deleted"}

\* Mutant: the loop does not look at m_IsDestory.
EnterForEver ==
    /\ work = "collect"
    /\ work' = "fill"
    /\ UNCHANGED <<peerVars, objVars, mapVars, setVars, begin, closeSocket,
                   callVars>>

\* The loop condition, which is not looked at again before select() returns.
Enter ==
    /\ work = "collect" /\ ~m_IsDestory
    /\ work' = "fill"
    /\ UNCHANGED <<peerVars, objVars, mapVars, setVars, begin, closeSocket,
                   callVars>>

LeaveWork ==
    /\ work = "collect" /\ m_IsDestory
    /\ work' = "left"
    /\ UNCHANGED <<peerVars, objVars, mapVars, setVars, begin, closeSocket,
                   callVars>>

FillSets ==
    /\ work = "fill"
    /\ watchR' = {c \in Conns : Mapped(c)}
    /\ watchW' = {c \in Conns : Mapped(c) /\ m_CfdIsWrite[c]}
    /\ work' = "call"
    /\ UNCHANGED <<peerVars, objVars, mapVars, readSet, writeSet, begin,
                   closeSocket, callVars>>

\* Whose the descriptors of these connections are now.
Holding(C) == {c \in Conns : Live(c) /\ \E d \in C : cfd[d] = cfd[c]}

\* select(), without a time limit: m_Timeout is -1 by then.
Watch ==
    /\ work = "call"
    /\ \A d \in watchR : \E c \in Conns : Live(c) /\ cfd[c] = cfd[d]
    /\ watchR' = Holding(watchR) /\ watchW' = Holding(watchW)
    /\ work' = "blocked"
    /\ UNCHANGED <<peerVars, objVars, mapVars, readSet, writeSet, begin,
                   closeSocket, callVars>>

\* EBADF: SendPackage has removed a connection since the sets were filled.
WatchFails ==
    /\ work = "call"
    /\ \E d \in watchR : \A c \in Conns : Live(c) => cfd[c] # cfd[d]
    /\ watchR' = {} /\ watchW' = {}
    /\ work' = "collect"
    /\ UNCHANGED <<peerVars, objVars, mapVars, readSet, writeSet, begin,
                   closeSocket, callVars>>

\* Where the loop body goes for the element c of the map.
ReadPlace(c, R, W) ==
    IF c = Nobody THEN "close"
    ELSE IF cfd[c] \in R THEN "recv" ELSE IF cfd[c] \in W THEN "send" ELSE "next"

SelectReturns ==
    /\ work = "blocked"
    /\ readSet' = {cfd[c] : c \in {d \in watchR : Live(d) /\ Readable(d)}}
    /\ writeSet' = {cfd[c] : c \in {d \in watchW : Live(d) /\ Writable(d)}}
    /\ readSet' \cup writeSet' # {}
    /\ watchR' = {} /\ watchW' = {}
    /\ begin' = FirstOf(Fds)
    /\ work' = ReadPlace(begin', readSet', writeSet')
    /\ UNCHANGED <<peerVars, objVars, mapVars, closeSocket, callVars>>

AfterRecv == IF cfd[begin] \in writeSet THEN "send" ELSE "next"

\* recv() returns data, and the callback is called for its packages.
RecvData ==
    /\ work = "recv" /\ Live(begin)
    /\ rx[begin] /\ net[begin] # "rst"
    /\ rx' = [rx EXCEPT ![begin] = FALSE]
    /\ work' = "callback"
    /\ UNCHANGED <<net, said, room, objVars, mapVars, setVars, begin,
                   closeSocket, callVars>>

CallbackReturns ==
    /\ work = "callback" /\ Idle /\ Live(begin) /\ sdk = "used"
    /\ work' = "recv"
    /\ UNCHANGED <<peerVars, objVars, mapVars, setVars, begin, closeSocket,
                   callVars>>

\* Mutant: EAGAIN is taken for an error.
RecvNoneCloses ==
    /\ work = "recv" /\ Mapped(begin)
    /\ ~Readable(begin)
    /\ closeSocket' = Append(closeSocket, cfd[begin])
    /\ work' = AfterRecv
    /\ UNCHANGED <<peerVars, objVars, mapVars, setVars, begin, callVars>>

\* EAGAIN.
RecvNone ==
    /\ work = "recv" /\ Mapped(begin)
    /\ ~Readable(begin)
    /\ work' = AfterRecv
    /\ UNCHANGED <<peerVars, objVars, mapVars, setVars, begin, closeSocket,
                   callVars>>

\* Mutant: the end of the connection is not remembered.
RecvCloseForgotten ==
    /\ work = "recv" /\ Mapped(begin)
    /\ net[begin] = "rst" \/ (net[begin] = "fin" /\ ~rx[begin])
    /\ work' = AfterRecv
    /\ UNCHANGED <<peerVars, objVars, mapVars, setVars, begin, closeSocket,
                   callVars>>

\* The server has closed the connection, or an error.
RecvClose ==
    /\ work = "recv" /\ Mapped(begin)
    /\ net[begin] = "rst" \/ (net[begin] = "fin" /\ ~rx[begin])
    /\ closeSocket' = Append(closeSocket, cfd[begin])
    /\ work' = AfterRecv
    /\ UNCHANGED <<peerVars, objVars, mapVars, setVars, begin, callVars>>

SendRest ==
    /\ work = "send" /\ Mapped(begin)
    /\ Send(begin)
    /\ work' = "next"
    /\ UNCHANGED <<mapVars, setVars, begin, closeSocket, callVars>>

SendRestFails ==
    /\ work = "send" /\ Mapped(begin)
    /\ Failing(begin)
    /\ closeSocket' = Append(closeSocket, cfd[begin])
    /\ work' = "next"
    /\ UNCHANGED <<peerVars, objVars, mapVars, setVars, begin, callVars>>

NextSocket ==
    /\ work = "next" /\ Mapped(begin)
    /\ begin' = FirstOf({f \in Fds : f > cfd[begin]})
    /\ work' = ReadPlace(begin', readSet, writeSet)
    /\ UNCHANGED <<peerVars, objVars, mapVars, setVars, closeSocket, callVars>>

CloseNext ==
    /\ work = "close" /\ Idle /\ closeSocket # <<>>
    /\ closeSocket' = Tail(closeSocket)
    /\ fd' = [fd EXCEPT !["select"] = Head(closeSocket)]
    /\ does' = [does EXCEPT !["select"] = "remove"]
    /\ UNCHANGED <<peerVars, objVars, mapVars, work, setVars, begin, sp, sends,
                   sdk>>

AllClosed ==
    /\ work = "close" /\ Idle /\ closeSocket = <<>>
    /\ work' = "collect"
    /\ readSet' = {} /\ writeSet' = {}
    /\ UNCHANGED <<peerVars, objVars, mapVars, watchR, watchW, begin,
                   closeSocket, callVars>>

-----------------------------------------------------------------------------
(* ~SocketMessageSdk, on the program's thread: not from a callback *)

\* The object leaves s_ManageMap, so that a callback finds a null pointer
\* there, and SocketControl's two callbacks are destroyed before m_Select,
\* which calls them.
DeleteSdk ==
    /\ sdk = "used" /\ does["app"] = "nothing"
    /\ sdk' = "closing"
    /\ UNCHANGED <<peerVars, objVars, mapVars, workVars, does, fd, sp, sends>>

\* ~Select: nothing wakes a thread that waits in select().
SetDestroyFlag ==
    /\ sdk = "closing"
    /\ sdk' = "ending"
    /\ UNCHANGED <<peerVars, objVars, mapVars, workVars, does, fd, sp, sends>>

\* The thread, if there is one, is joined; then the map goes, with the last
\* pointers to its sockets.  Nobody is told.
JoinWork ==
    /\ sdk = "ending" /\ work \in {"none", "left"}
    /\ sdk' = "deleted"
    /\ m_ClientSocketMap' = [f \in Fds |-> Nobody]
    /\ UNCHANGED <<peerVars, objVars, told, met, workVars, does, fd, sp, sends>>

-----------------------------------------------------------------------------
Servers == \E c \in Conns : PeerSends(c) \/ PeerReads(c) \/ PeerLeaves(c)

Call(t) ==
    \/ GetClientSocket(t) \/ AppendPackage(t) \/ SendNow(t) \/ SendFails(t)
    \/ Remove(t) \/ LookUp(t) \/ Erase(t) \/ Tell(t)

Work ==
    \/ Enter \/ LeaveWork \/ FillSets \/ Watch \/ WatchFails \/ SelectReturns
    \/ RecvData \/ CallbackReturns \/ RecvNone \/ RecvClose
    \/ SendRest \/ SendRestFails \/ NextSocket
    \/ CloseNext \/ AllClosed

Delete == SetDestroyFlag \/ JoinWork

Next ==
    \/ Servers
    \/ \E c \in Conns : Connect(c)
    \/ ConnectReturns
    \/ \E t \in Threads, c \in Conns : SendPackage(t, c)
    \/ \E t \in Threads : Call(t)
    \/ Work
    \/ DeleteSdk \/ Delete

SafeSpec == Init /\ [][Next]_vars

\* A thread that is inside the SDK goes on.  Nobody has to connect, to send,
\* to read, to leave or to delete the SDK.
Fairness ==
    /\ WF_vars(Work)
    /\ WF_vars(ConnectReturns) /\ WF_vars(Delete)
    /\ \A t \in Threads : WF_vars(Call(t))

Spec == SafeSpec /\ Fairness

-----------------------------------------------------------------------------
TypeOK ==
    /\ net \in [Conns -> {"absent", "open", "fin", "rst"}]
    /\ said \in [Conns -> 0..MaxData]
    /\ rx \in [Conns -> BOOLEAN]
    /\ room \in [Conns -> 0..Window]
    /\ cfd \in [Conns -> Fds \cup {0}]
    /\ m_CfdIsWrite \in [Conns -> BOOLEAN]
    /\ m_IsWriteing \in [Conns -> BOOLEAN]
    /\ wbuf \in [Conns -> 0..WriteBufMax]
    /\ m_ClientSocketMap \in [Fds -> Conns \cup {Nobody}]
    /\ told \in [Conns -> Nat]
    /\ met \subseteq Conns
    /\ work \in {"none", "collect", "fill", "call", "blocked", "recv", "callback",
                 "send", "next", "close", "left"}
    /\ watchR \subseteq Conns /\ watchW \subseteq Conns
    /\ readSet \subseteq Fds /\ writeSet \subseteq Fds
    /\ begin \in Conns \cup {Nobody}
    /\ closeSocket \in Seq(Fds)
    /\ does \in [Threads -> {"nothing", "connected", "get", "append", "send",
                             "remove", "at", "erase", "tell"}]
    /\ fd \in [Threads -> Fds \cup {0}]
    /\ sp \in [Threads -> Conns \cup {Nobody}]
    /\ sends \in 0..MaxSends
    /\ sdk \in {"used", "closing", "ending", "deleted"}

\* A thread's next step would use an object, or an element of the map, that
\* is gone (at() throws, and nobody catches), or it is in a callback or about to call one that is destroyed.
Dangling ==
    \/ work = "callback" /\ ~Live(begin)
    \/ work \in {"recv", "send", "next"} /\ ~Mapped(begin)
    \/ /\ does["app"] = "connected"
       /\ \A c \in Conns : cfd[c] = fd["app"] => ~Live(c)
    \/ \E t \in Threads : does[t] \in {"get", "at"} /\ m_ClientSocketMap[fd[t]] = Nobody
    \/ sdk # "used" /\ (work = "callback" \/ does["select"] = "tell")

\* What Write() has taken and send() has not is remembered by m_CfdIsWrite,
\* or a thread is on its way to send(), or the connection is broken: the two
\* flags cannot disagree although two threads append and send (224-286), and
\* the variables keep their types.
NoLostWrite ==
    /\ TypeOK
    /\ \A c \in Conns : Mapped(c) /\ wbuf[c] > 0 =>
          \/ m_CfdIsWrite[c]
          \/ \E t \in Threads : does[t] = "send" /\ sp[t] = c
          \/ net[c] = "rst"

\* Is t past at() in Remove for c, and has still to call the callback?
Owes(t, c) == IF does[t] \in {"erase", "tell"} /\ sp[t] = c THEN 1 ELSE 0

\* Nothing locks Remove (30-42), and both threads call it, the program's when
\* send() fails.  However they meet, and however often a descriptor is in
\* closeSocket, an object that leaves the map is told once for each thread
\* that has looked it up before it was erased: twice if both did (met), else
\* once, never not at all.  With none only when the SDK is deleted.
ToldOnce ==
    \A c \in Conns :
        told[c] = IF \/ Mapped(c)
                     \/ net[c] = "absent"
                     \/ sdk = "deleted" /\ told[c] = 0
                  THEN 0
                  ELSE (IF c \in met THEN 2 ELSE 1) - Owes("app", c) - Owes("select", c)

\* A server has ended the connection, or it has broken.
Ended(c) == net[c] \in {"fin", "rst"}

\* A connection that has not ended is removed, and its end told, only when its
\* descriptor was another's before, which broke and was told while packages
\* were sent: a descriptor in closeSocket (124-145) may have been removed by
\* SendPackage, or be in there twice, and be used again by then.  Never
\* otherwise, so never by what Recv, Send and the loop do for themselves.
OnlyBrokenRemoved ==
    \A c \in Conns : told[c] > 0 =>
        \/ Ended(c)
        \/ /\ sends > 0
           /\ \E d \in Conns \ {c} : cfd[d] = cfd[c] /\ net[d] = "rst" /\ told[d] > 0

\* What arrives on a connection that select() waits for is read, and the end
\* of such a connection is told.
WatchedIsServed ==
    \A c \in Conns :
        (work = "blocked" /\ c \in watchR /\ Readable(c))
            ~> (~Readable(c) \/ told[c] > 0 \/ Dangling)

\* ~Select returns when the thread has still to come to its test of
\* m_IsDestory (73) as this is set (15-23): it leaves there.  Between the test
\* and the end of select() it waits, or is going to, for a server to say
\* something, for ever if none does.
DestructorReturns ==
    (sdk = "ending" /\ work \notin {"fill", "call", "blocked"})
        ~> (sdk = "deleted" \/ Dangling)

-----------------------------------------------------------------------------
(* What a comment says and the code does not keep *)

\* "can connect to several servers" (SocketControl.h:13 of the SDK): what
\* arrives on any connection is read, and its end is told.
EveryServerIsServed ==
    \A c \in Conns :
        (Mapped(c) /\ Readable(c))
            ~> (~Readable(c) \/ told[c] > 0 \/ sdk # "used" \/ Dangling)

=============================================================================
