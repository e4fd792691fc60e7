---------------------------- MODULE DataHandler -----------------------------
(***************************************************************************)
(* The chat service: DataHandler.cpp on its thread pool, with MySqlPool    *)
(* and the DB* classes, between the connections of SocketControl and the   *)
(* clients of the SDK (SocketMessageSdkInterface.cpp, used as Main.cpp of  *)
(* the client uses it).                                                    *)
(*                                                                         *)
(* What the other modules establish is used here: a pool starts its tasks  *)
(* in the order in which they were added (ThreadPool), a connection's      *)
(* requests are added in the order in which they were sent and before its  *)
(* close is noticed (SocketControl), a package arrives whole and in the    *)
(* order of Write() (PackageStream).  Packages that find a buffer full are *)
(* PackageStream's matter.                                                 *)
(***************************************************************************)
EXTENDS Integers, Sequences, FiniteSets, SequencesExt

CONSTANTS
    Clients,        \* connections of client programs, one SDK object each
    Cfds,           \* descriptors for clients, positive numbers
    Users,          \* UserId of the table User
    Groups,         \* GroupId of the table Group
    GroupUser,      \* the table GroupUser: the members of each group
    Threads,        \* of DataHandler's pool
    MySqls,         \* the connections MySqlPool is made with
    SocketThreads,  \* threads of SocketControl's pool that may write at once
    Limit,          \* messages in a list for a client that has none
    DbFails,        \* may an INSERT fail?
    Relogin,        \* may a user log in on more than one connection?
    Mistyped,       \* may a password be wrong?
    Addressed,      \* bound: receivers that messages are sent to
    MaxLogins,      \* bound: calls of SendLogin
    MaxMsgs,        \* bound: calls of SendDataMsg
    MaxLeaves       \* bound: connections that are closed

ASSUME UsersAssumption == Users \subseteq Nat \ {0} /\ Users \cap Groups = {}
ASSUME AddressedAssumption == Addressed \subseteq Users \cup Groups
ASSUME CfdsAssumption == Cfds \subseteq Nat \ {0}
ASSUME GroupUserAssumption == GroupUser \in [Groups -> SUBSET Users]
ASSUME ThreadsAssumption == IsFiniteSet(Threads) /\ IsFiniteSet(MySqls)
ASSUME SizesAssumption ==
    /\ SocketThreads \in Nat \ {0} /\ Limit \in Nat
    /\ MaxLogins \in Nat /\ MaxMsgs \in Nat /\ MaxLeaves \in Nat
    /\ {DbFails, Relogin, Mistyped} \subseteq BOOLEAN

VARIABLES
    (* clients *)
    m_SelfUserId,   \* 0 before the login
    has,            \* messages the client has been given
    wants,          \* users whose messages it has asked for, the requests on
                    \* their way
    listed,         \* users whose list of messages it has got
    logins,         \* <<client, user>>: a call of SendLogin, at most one each
    calls,          \* of SendDataMsg
    (* SocketControl *)
    sock,           \* "new", "open", "left" (unmapped, not announced), "gone"
    cfd,
    out,            \* write tasks that are queued or executing, oldest first
    (* DataHandler *)
    queue,          \* m_TaskQueue of its pool
    m_OnlineUserMap,\* cfd of a user, 0 without entry
    m_MySqlVector,
    at, req, mySql, msg, list, to, relay,   \* local variables, per thread
    (* data base *)
    table           \* Msg: the rows, in the order of MsgId

clientVars == <<m_SelfUserId, has, wants, listed, logins, calls>>
sockVars == <<sock, cfd>>
localVars == <<at, req, mySql, msg, list, to, relay>>
vars == <<clientVars, sockVars, out, queue, m_OnlineUserMap, m_MySqlVector,
          localVars, table>>

-----------------------------------------------------------------------------
(* Data *)

NoMsg == [id |-> 0, sender |-> 0, receiver |-> 0]
NoRelay == [user |-> 0, cfd |-> 0]
NoRequest == [kind |-> "none", cfd |-> 0, user |-> 0, receiver |-> 0, right |-> FALSE]

Login(f, u, right) ==
    [NoRequest EXCEPT !.kind = "login", !.cfd = f, !.user = u, !.right = right]
GetDataMsgList(f, u) == [NoRequest EXCEPT !.kind = "list", !.cfd = f, !.user = u]
DataMsg(f, u, r) ==
    [NoRequest EXCEPT !.kind = "msg", !.cfd = f, !.user = u, !.receiver = r]

Package(kind, user, msgs) == [kind |-> kind, user |-> user, msgs |-> msgs]

Owner(f) == {c \in Clients : sock[c] = "open" /\ cfd[c] = f}
FreeCfds == {f \in Cfds : \A c \in Clients : sock[c] \in {"open", "left"} => cfd[c] # f}

\* Who is to get a message.
Receivers(r) == IF r \in Groups THEN GroupUser[r] ELSE {r}

Init ==
    /\ m_SelfUserId = [c \in Clients |-> 0]
    /\ has = [c \in Clients |-> {}]
    /\ wants = [c \in Clients |-> <<>>]
    /\ listed = [c \in Clients |-> {}]
    /\ logins = {}
    /\ calls = 0
    /\ sock = [c \in Clients |-> "new"]
    /\ cfd = [c \in Clients |-> 0]
    /\ out = <<>>
    /\ queue = <<>>
    /\ m_OnlineUserMap = [u \in Users |-> 0]
    /\ m_MySqlVector \in SetToSeqs(MySqls)
    /\ at = [t \in Threads |-> "idle"]
    /\ req = [t \in Threads |-> NoRequest]
    /\ mySql = [t \in Threads |-> {}]
    /\ msg = [t \in Threads |-> NoMsg]
    /\ list = [t \in Threads |-> {}]
    /\ to = [t \in Threads |-> {}]
    /\ relay = [t \in Threads |-> NoRelay]
    /\ table = <<>>

-----------------------------------------------------------------------------
(* Clients and their connections *)

Connect(c) ==
    /\ sock[c] = "new"
    /\ \E f \in FreeCfds : cfd' = [cfd EXCEPT ![c] = f]
    /\ sock' = [sock EXCEPT ![c] = "open"]
    /\ UNCHANGED <<clientVars, out, queue, m_OnlineUserMap, m_MySqlVector,
                   localVars, table>>

AddData(request) == queue' = Append(queue, request)

SendLogin(c, u, right) ==
    /\ sock[c] = "open"
    /\ Cardinality(logins) < MaxLogins /\ <<c, u>> \notin logins
    /\ right \/ Mistyped
    /\ Relogin \/ \A login \in logins : login[2] # u
    /\ logins' = logins \cup {<<c, u>>}
    /\ AddData(Login(cfd[c], u, right))
    /\ UNCHANGED <<m_SelfUserId, has, wants, listed, calls, sockVars,
                   out, m_OnlineUserMap, m_MySqlVector, localVars, table>>

SendDataMsg(c, r) ==
    /\ sock[c] = "open"
    /\ m_SelfUserId[c] # 0
    /\ calls < MaxMsgs
    /\ calls' = calls + 1
    /\ AddData(DataMsg(cfd[c], m_SelfUserId[c], r))
    /\ UNCHANGED <<m_SelfUserId, has, wants, listed, logins, sockVars,
                   out, m_OnlineUserMap, m_MySqlVector, localVars, table>>

\* A request that Main.cpp sends when it gets the group list arrives.
SendGetDataMsgList(c) ==
    /\ sock[c] = "open"
    /\ wants[c] # <<>>
    /\ wants' = [wants EXCEPT ![c] = Tail(@)]
    /\ AddData(GetDataMsgList(cfd[c], Head(wants[c])))
    /\ UNCHANGED <<m_SelfUserId, has, listed, logins, calls, sockVars,
                   out, m_OnlineUserMap, m_MySqlVector, localVars, table>>

\* The callbacks of the SDK and of Main.cpp, which calls SendGetDataMsgList
\* when the group list comes: it asks for the user of the last login reply, and
\* refuses before there was one.
Asked(c, p) ==
    IF p.kind = "groups" /\ m_SelfUserId[c] # 0 THEN <<m_SelfUserId[c]>> ELSE <<>>
Read(c, p) ==
    /\ m_SelfUserId' = IF p.kind = "login" /\ p.user # -1
                       THEN [m_SelfUserId EXCEPT ![c] = p.user] ELSE m_SelfUserId
    /\ has' = [has EXCEPT ![c] = @ \cup p.msgs]
    /\ listed' = IF p.kind = "list" THEN [listed EXCEPT ![c] = @ \cup {p.user}] ELSE listed
    /\ wants' = [wants EXCEPT ![c] = @ \o Asked(c, p)]
    /\ UNCHANGED <<logins, calls>>

\* ClientSocketCloseAndDelete: the connection leaves the map of descriptors,
\* then DataHandler is told, then the descriptor is closed.
Leave(c) ==
    /\ sock[c] = "open"
    /\ Cardinality({d \in Clients : sock[d] \in {"left", "gone"}}) < MaxLeaves
    /\ sock' = [sock EXCEPT ![c] = "left"]
    /\ UNCHANGED <<clientVars, cfd, out, queue,
                   m_OnlineUserMap, m_MySqlVector, localVars, table>>

\* The first entry with the descriptor is erased: the map is ordered by user.
UsersAt(f) == {u \in Users : m_OnlineUserMap[u] = f}
ClientSocketState(c) ==
    /\ sock[c] = "left"
    /\ sock' = [sock EXCEPT ![c] = "gone"]
    /\ m_OnlineUserMap' =
          [u \in Users |-> IF u \in UsersAt(cfd[c]) /\ \A v \in UsersAt(cfd[c]) : u <= v
                           THEN 0 ELSE m_OnlineUserMap[u]]
    /\ UNCHANGED <<clientVars, cfd, out, queue, m_MySqlVector, localVars, table>>

\* SocketControl::SendPackage looks the descriptor up and queues a task.
SendPackage(f, package) ==
    out' = IF Owner(f) = {} THEN out ELSE Append(out, [cfd |-> f, package |-> package])

\* The task looks the descriptor up again and writes, the client reads.  The
\* tasks that execute are the oldest ones, as many as there are threads; any
\* of them may be the next to write.  (The time a package takes to be read is
\* left out: the requests it leads to take their time.)
WritePackage(i) ==
    /\ i \in DOMAIN out /\ i <= SocketThreads
    /\ out' = RemoveAt(out, i)
    /\ IF Owner(out[i].cfd) = {} THEN UNCHANGED clientVars
       ELSE \E c \in Owner(out[i].cfd) : Read(c, out[i].package)
    /\ UNCHANGED <<sockVars, queue, m_OnlineUserMap, m_MySqlVector, localVars, table>>

-----------------------------------------------------------------------------
(* The threads of DataHandler *)

Goto(t, place) == at' = [at EXCEPT ![t] = place]

\* ThreadWork; what is too short, has a wrong DataSize or an unknown DataType
\* is dropped before anything is done, and is left out here.
ThreadWork(t) ==
    /\ at[t] = "idle"
    /\ queue # <<>>
    /\ req' = [req EXCEPT ![t] = Head(queue)]
    /\ queue' = Tail(queue)
    /\ Goto(t, "pop")
    /\ UNCHANGED <<clientVars, sockVars, out, m_OnlineUserMap, m_MySqlVector,
                   mySql, msg, list, to, relay, table>>

FirstPlace == [login |-> "authenticate", list |-> "select", msg |-> "save"]

\* Waits while the vector is empty.
Pop(t) ==
    /\ at[t] = "pop"
    /\ m_MySqlVector # <<>>
    /\ mySql' = [mySql EXCEPT ![t] = {Last(m_MySqlVector)}]
    /\ m_MySqlVector' = Front(m_MySqlVector)
    /\ Goto(t, FirstPlace[req[t].kind])
    /\ UNCHANGED <<clientVars, sockVars, out, queue, m_OnlineUserMap,
                   req, msg, list, to, relay, table>>

\* A message gives its MySql back before it is relayed.
Push(t) ==
    /\ at[t] = "push"
    /\ m_MySqlVector' = m_MySqlVector \o SetToSeq(mySql[t])
    /\ mySql' = [mySql EXCEPT ![t] = {}]
    /\ IF req[t].kind = "msg"
       THEN Goto(t, "lookup") /\ UNCHANGED req
       ELSE Goto(t, "idle") /\ req' = [req EXCEPT ![t] = NoRequest]
    /\ UNCHANGED <<clientVars, sockVars, out, queue, m_OnlineUserMap,
                   msg, list, to, relay, table>>

(* DataHandlerC2SLogin *)

\* The UserId that goes with the name and the password.
DBUserLogin(request) == IF request.right THEN request.user ELSE -1

\* Mutant: the early return of a failed login forgets Push.
AuthenticateLeaks(t) ==
    /\ at[t] = "authenticate"
    /\ SendPackage(req[t].cfd, Package("login", DBUserLogin(req[t]), {}))
    /\ IF req[t].right THEN Goto(t, "open") /\ UNCHANGED req
       ELSE Goto(t, "idle") /\ req' = [req EXCEPT ![t] = NoRequest]
    /\ UNCHANGED <<clientVars, sockVars, queue, m_OnlineUserMap, m_MySqlVector,
                   mySql, msg, list, to, relay, table>>

\* The tables User and GroupUser do not change, so a query and the package
\* made of its result are one step.
Authenticate(t) ==
    /\ at[t] = "authenticate"
    /\ SendPackage(req[t].cfd, Package("login", DBUserLogin(req[t]), {}))
    /\ Goto(t, IF req[t].right THEN "open" ELSE "push")
    /\ UNCHANGED <<clientVars, sockVars, queue, m_OnlineUserMap, m_MySqlVector,
                   req, mySql, msg, list, to, relay, table>>

\* map::insert keeps an entry that is there.
ClientOpen(t) ==
    /\ at[t] = "open"
    /\ m_OnlineUserMap' = [m_OnlineUserMap EXCEPT ![req[t].user] =
                              IF @ = 0 THEN req[t].cfd ELSE @]
    /\ Goto(t, "users")
    /\ UNCHANGED <<clientVars, sockVars, out, queue, m_MySqlVector,
                   req, mySql, msg, list, to, relay, table>>

SendUserList(t) ==
    /\ at[t] = "users"
    /\ SendPackage(req[t].cfd, Package("users", 0, {}))
    /\ Goto(t, "groups")
    /\ UNCHANGED <<clientVars, sockVars, queue, m_OnlineUserMap, m_MySqlVector,
                   req, mySql, msg, list, to, relay, table>>

SendGroupList(t) ==
    /\ at[t] = "groups"
    /\ SendPackage(req[t].cfd, Package("groups", 0, {}))
    /\ Goto(t, "push")
    /\ UNCHANGED <<clientVars, sockVars, queue, m_OnlineUserMap, m_MySqlVector,
                   req, mySql, msg, list, to, relay, table>>

(* DataHandlerC2SGetDataMsgList *)

\* Mutant: the query leaves out what was sent to a group.
RowsWithoutGroups(u) == {i \in DOMAIN table : table[i].receiver = u}

Rows(u) == {i \in DOMAIN table : u \in Receivers(table[i].receiver)}

\* Up to the first Limit of them: the client asks with LastMsgId 0.
FirstRows(u) == {i \in Rows(u) : Cardinality({j \in Rows(u) : j < i}) < Limit}

Select(t) ==
    /\ at[t] = "select"
    /\ list' = [list EXCEPT ![t] = {table[i] : i \in FirstRows(req[t].user)}]
    /\ Goto(t, "answer")
    /\ UNCHANGED <<clientVars, sockVars, out, queue, m_OnlineUserMap,
                   m_MySqlVector, req, mySql, msg, to, relay, table>>

\* The package does not say whose list it is; the model remembers it.
SendDataMsgList(t) ==
    /\ at[t] = "answer"
    /\ SendPackage(req[t].cfd, Package("list", req[t].user, list[t]))
    /\ list' = [list EXCEPT ![t] = {}]
    /\ Goto(t, "push")
    /\ UNCHANGED <<clientVars, sockVars, queue, m_OnlineUserMap,
                   m_MySqlVector, req, mySql, msg, to, relay, table>>

(* DataHandlerC2SDataMsg *)

\* SaveMsgData; a message that is not saved has MsgId 0 and is relayed too.
Save(t) ==
    /\ at[t] = "save"
    /\ \E saved \in {TRUE} \cup {~DbFails} :
       LET m == [id |-> IF saved THEN Len(table) + 1 ELSE 0,
                 sender |-> req[t].user, receiver |-> req[t].receiver]
       IN  /\ msg' = [msg EXCEPT ![t] = m]
           /\ table' = IF saved THEN Append(table, m) ELSE table
    /\ to' = [to EXCEPT ![t] = Receivers(req[t].receiver)]
    /\ Goto(t, "push")
    /\ UNCHANGED <<clientVars, sockVars, out, queue, m_OnlineUserMap,
                   m_MySqlVector, req, mySql, list, relay>>

\* Mutant: the result of UserId2Cfd is not looked at.
LookupUnchecked(t) ==
    /\ at[t] = "lookup"
    /\ \E u \in to[t] :
       /\ to' = [to EXCEPT ![t] = @ \ {u}]
       /\ IF u = req[t].user
          THEN UNCHANGED <<at, relay>>
          ELSE /\ relay' = [relay EXCEPT ![t] = [user |-> u, cfd |-> m_OnlineUserMap[u]]]
               /\ Goto(t, "relay")
    /\ UNCHANGED <<clientVars, sockVars, out, queue, m_OnlineUserMap,
                   m_MySqlVector, req, mySql, msg, list, table>>

\* The next receiver; the order is that of the rows of a query without ORDER.
Lookup(t) ==
    /\ at[t] = "lookup"
    /\ \E u \in to[t] :
       /\ to' = [to EXCEPT ![t] = @ \ {u}]
       /\ IF u = req[t].user \/ m_OnlineUserMap[u] = 0
          THEN UNCHANGED <<at, relay>>
          ELSE /\ relay' = [relay EXCEPT ![t] = [user |-> u, cfd |-> m_OnlineUserMap[u]]]
               /\ Goto(t, "relay")
    /\ UNCHANGED <<clientVars, sockVars, out, queue, m_OnlineUserMap,
                   m_MySqlVector, req, mySql, msg, list, table>>

Relay(t) ==
    /\ at[t] = "relay"
    /\ SendPackage(relay[t].cfd, Package("msg", 0, {msg[t]}))
    /\ relay' = [relay EXCEPT ![t] = NoRelay]
    /\ Goto(t, "lookup")
    /\ UNCHANGED <<clientVars, sockVars, queue, m_OnlineUserMap,
                   m_MySqlVector, req, mySql, msg, list, to, table>>

AllRelayed(t) ==
    /\ at[t] = "lookup"
    /\ to[t] = {}
    /\ req' = [req EXCEPT ![t] = NoRequest]
    /\ msg' = [msg EXCEPT ![t] = NoMsg]
    /\ Goto(t, "idle")
    /\ UNCHANGED <<clientVars, sockVars, out, queue, m_OnlineUserMap,
                   m_MySqlVector, mySql, list, to, relay, table>>

-----------------------------------------------------------------------------
ClientStep(c) ==
    \/ Connect(c) \/ Leave(c) \/ ClientSocketState(c) \/ SendGetDataMsgList(c)
    \/ \E u \in Users, right \in BOOLEAN : SendLogin(c, u, right)
    \/ \E r \in Addressed : SendDataMsg(c, r)

Handler(t) ==
    \/ ThreadWork(t) \/ Pop(t) \/ Push(t)
    \/ Authenticate(t) \/ ClientOpen(t) \/ SendUserList(t) \/ SendGroupList(t)
    \/ Select(t) \/ SendDataMsgList(t)
    \/ Save(t) \/ Lookup(t) \/ Relay(t) \/ AllRelayed(t)

Next ==
    \/ \E c \in Clients : ClientStep(c)
    \/ \E i \in 1..SocketThreads : WritePackage(i)
    \/ \E t \in Threads : Handler(t)

SafeSpec == Init /\ [][Next]_vars

-----------------------------------------------------------------------------
Places == {"idle", "pop", "push", "authenticate", "open", "users", "groups",
           "select", "answer", "save", "lookup", "relay"}
Requests == [kind : {"none", "login", "list", "msg"}, cfd : Cfds \cup {0},
             user : Users \cup {0}, receiver : Users \cup Groups \cup {0},
             right : BOOLEAN]
Msgs == [id : Nat, sender : Users \cup {0}, receiver : Users \cup Groups \cup {0}]
IsPackage(p) ==
    /\ p.kind \in {"login", "users", "groups", "list", "msg"}
    /\ p.user \in Users \cup {0, -1}
    /\ p.msgs \subseteq Msgs

TypeOK ==
    /\ m_SelfUserId \in [Clients -> Users \cup {0}]
    /\ \A c \in Clients : has[c] \subseteq Msgs
    /\ calls \in 0..MaxMsgs
    /\ wants \in [Clients -> Seq(Users)]
    /\ listed \in [Clients -> SUBSET (Users \cup {0})]
    /\ logins \subseteq Clients \X Users /\ Cardinality(logins) <= MaxLogins
    /\ sock \in [Clients -> {"new", "open", "left", "gone"}]
    /\ cfd \in [Clients -> Cfds \cup {0}]
    /\ \A i \in DOMAIN out : out[i].cfd \in Cfds /\ IsPackage(out[i].package)
    /\ queue \in Seq(Requests)
    /\ m_OnlineUserMap \in [Users -> Cfds \cup {0}]
    /\ m_MySqlVector \in Seq(MySqls)
    /\ at \in [Threads -> Places]
    /\ req \in [Threads -> Requests]
    /\ mySql \in [Threads -> SUBSET MySqls]
    /\ msg \in [Threads -> Msgs]
    /\ \A t \in Threads : list[t] \subseteq Msgs
    /\ to \in [Threads -> SUBSET Users]
    /\ \A t \in Threads : IF at[t] = "relay"
                         THEN relay[t] \in [user : Users, cfd : Cfds] ELSE relay[t] = NoRelay
    /\ table \in Seq(Msgs) /\ Len(table) <= MaxMsgs

\* Every MySql is in the vector or with one thread, once, and the thread has
\* it exactly from Pop to Push; so with as many MySqls as threads (Config.h
\* line 11 has one more) no thread ever waits for one.
PoolExact ==
    /\ IsInjective(m_MySqlVector)
    /\ \A t \in Threads :
          /\ mySql[t] \cap Range(m_MySqlVector) = {}
          /\ Cardinality(mySql[t]) =
                IF at[t] \in {"idle", "pop", "lookup", "relay"} THEN 0 ELSE 1
          /\ \A s \in Threads \ {t} : mySql[s] \cap mySql[t] = {}
    /\ MySqls = Range(m_MySqlVector) \cup UNION {mySql[t] : t \in Threads}
    /\ Cardinality(MySqls) >= Cardinality(Threads) =>
          \A t \in Threads : at[t] = "pop" => m_MySqlVector # <<>>

\* Nothing is under way: every request has arrived and is handled, every
\* package is written.
Quiet ==
    /\ queue = <<>> /\ out = <<>>
    /\ \A t \in Threads : at[t] = "idle"
    /\ \A c \in Clients : sock[c] = "open" => wants[c] = <<>>

\* A client that has logged in and got its user's list has every message that was
\* saved for its user by others, from the list or as it was sent: there is no
\* gap between the query of the list and the entry in m_OnlineUserMap, when
\* the client asks after the group list and a user logs in on one connection
\* only.  (Beyond Limit rows the list is cut off.  A client that was given the
\* descriptor of another one may have got the login reply meant for that one,
\* and think that it is logged in.  A client that gets the group list before the
\* login reply never asks for its list.)
NoMessageMissed ==
    Quiet /\ ~Relogin /\ Len(table) <= Limit =>
        \A c \in Clients :
            sock[c] = "open" /\ m_SelfUserId[c] \in listed[c]
            /\ <<c, m_SelfUserId[c]>> \in logins =>
                \A i \in DOMAIN table :
                    m_SelfUserId[c] \in Receivers(table[i].receiver) \ {table[i].sender}
                        => table[i] \in has[c]

-----------------------------------------------------------------------------
(* What a comment says and the code does not keep *)

\* "converts a user id into the cfd of the client the user is at"
\* (DataHandler.h:68): the connection with that descriptor is one on which
\* the user has logged in.
MapNamesUser ==
    \A u \in Users : \A c \in Owner(m_OnlineUserMap[u]) :
        <<c, u>> \in logins

=============================================================================
