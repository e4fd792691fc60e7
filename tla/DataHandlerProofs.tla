------------------------- MODULE DataHandlerProofs --------------------------
(***************************************************************************)
(* Theorems about the chat service for any number of threads, clients,     *)
(* users, groups and connections.  First the pool of MySql connections:    *)
(* none is lost or shared, whatever way a request takes through its        *)
(* handler, and no thread waits for one when there are as many as threads. *)
(* Then the types, with the count that bounds the table.  Then, while a    *)
(* user is on one connection only, where what there is of the user can be  *)
(* (OnlyAt), that a login is under way once (OneReply), and that every row *)
(* for the user is with the client, on its way to it, or in a list that is *)
(* still to be put together: no message is missed.                         *)
(***************************************************************************)
EXTENDS DataHandler, FiniteSetTheorems, SequenceTheorems, TLAPS

Kinds == {"login", "list", "msg"}

\* The places where a thread has no MySql.
WithoutMySql == {"idle", "pop", "lookup", "relay"}

\* A thread has one MySql or none, as its place says.  (Cardinality speaks of
\* finite sets; this says that the set is one.)
HasOneOrNone ==
    \A t \in Threads :
        IF at[t] \in WithoutMySql THEN mySql[t] = {}
                                  ELSE \E q \in MySqls : mySql[t] = {q}

\* Every MySql is in the vector or with a thread, and there once.
Disjoint ==
    /\ IsInjective(m_MySqlVector)
    /\ \A t \in Threads : mySql[t] \cap Range(m_MySqlVector) = {}
    /\ \A s, t \in Threads : s # t => mySql[s] \cap mySql[t] = {}
    /\ \A q \in MySqls : q \in Range(m_MySqlVector) \/ \E t \in Threads : q \in mySql[t]

\* What a thread works on is a request, so Pop leads into its handler; a
\* request that is nothing would lead nowhere with a MySql in hand.
KnownRequests ==
    /\ queue \in Seq(Range(queue))
    /\ \A r \in Range(queue) : r.kind \in Kinds
    /\ \A t \in Threads : at[t] # "idle" => req[t].kind \in Kinds

Types ==
    /\ at \in [Threads -> Places]
    /\ req = [t \in Threads |-> req[t]]
    /\ mySql \in [Threads -> SUBSET MySqls]
    /\ m_MySqlVector \in Seq(MySqls)

Inv == Types /\ KnownRequests /\ HasOneOrNone /\ Disjoint

-----------------------------------------------------------------------------
(* Sequences *)

\* A queue that gets a request holds what it held and the request.
LEMMA AppendFacts ==
    ASSUME NEW q, q \in Seq(Range(q)), NEW e
    PROVE  /\ Append(q, e) \in Seq(Range(Append(q, e)))
           /\ Range(Append(q, e)) = Range(q) \cup {e}
<1> DEFINE r == Append(q, e)
           S == Range(q) \cup {e}
<1>1. q \in Seq(S)
  <2>1. Len(q) \in Nat /\ q \in [1..Len(q) -> S]
    OBVIOUS
  <2>2. QED
    BY <2>1
<1>2. /\ Len(q) \in Nat /\ DOMAIN q = 1..Len(q)
      /\ r \in Seq(S) /\ Len(r) = Len(q) + 1 /\ DOMAIN r = 1..(Len(q) + 1)
      /\ \A i \in 1..Len(q) : r[i] = q[i]
      /\ r[Len(q) + 1] = e
  BY <1>1
<1>3. Range(r) = S
  <2>1. \A i \in DOMAIN r : r[i] \in S
    BY <1>2 DEF Range
  <2>2. \A i \in DOMAIN q : i \in DOMAIN r /\ r[i] = q[i]
    BY <1>2
  <2>3. Len(q) + 1 \in DOMAIN r
    BY <1>2
  <2>4. QED
    BY <1>2, <2>1, <2>2, <2>3 DEF Range
<1>4. QED
  BY <1>2, <1>3

\* A queue without its head holds nothing new.
LEMMA TailFacts ==
    ASSUME NEW q, q \in Seq(Range(q)), q # <<>>
    PROVE  /\ Head(q) \in Range(q)
           /\ Tail(q) \in Seq(Range(Tail(q)))
           /\ Range(Tail(q)) \subseteq Range(q)
<1> DEFINE r == Tail(q)
<1>1. /\ Len(q) \in Nat \ {0} /\ DOMAIN q = 1..Len(q) /\ Head(q) = q[1]
      /\ DOMAIN r = 1..(Len(q) - 1) /\ Len(r) = Len(q) - 1
      /\ \A i \in 1..(Len(q) - 1) : r[i] = q[i + 1]
  OBVIOUS
<1>2. Head(q) \in Range(q)
  BY <1>1 DEF Range
<1>3. \A i \in DOMAIN r : r[i] \in Range(q)
  <2>1. \A i \in DOMAIN r : i + 1 \in DOMAIN q /\ r[i] = q[i + 1]
    BY <1>1
  <2>2. QED
    BY <2>1 DEF Range
<1>4. r \in Seq(Range(r))
  <2>1. r \in Seq(Range(q))
    OBVIOUS
  <2>2. QED
    BY <2>1, SeqOfRange
<1>5. QED
  BY <1>2, <1>3, <1>4 DEF Range

\* Pop_back() takes exactly the last element out of a vector without
\* repetitions.
LEMMA PopBackFacts ==
    ASSUME NEW S, NEW v \in Seq(S), v # <<>>, IsInjective(v)
    PROVE  /\ Last(v) \in S
           /\ Front(v) \in Seq(S)
           /\ IsInjective(Front(v))
           /\ Range(v) = Range(Front(v)) \cup {Last(v)}
           /\ Last(v) \notin Range(Front(v))
<1> DEFINE n == Len(v)
           u == Front(v)
<1>1. n \in Nat \ {0} /\ DOMAIN v = 1..n
  OBVIOUS
<1>2. Last(v) = v[n] /\ u = SubSeq(v, 1, n - 1)
  BY DEF Last, Front
<1>3. /\ u \in Seq(S) /\ Len(u) = n - 1
      /\ \A i \in 1..(n - 1) : u[i] = v[i]
  BY <1>1, <1>2
<1>4. DOMAIN u = 1..(n - 1)
  BY <1>1, <1>3
<1>5. \A i \in DOMAIN u : i \in DOMAIN v /\ i # n /\ u[i] = v[i]
  BY <1>1, <1>3, <1>4
<1>6. \A i \in DOMAIN v : i = n \/ i \in DOMAIN u
  BY <1>1, <1>4
<1>7. n \in DOMAIN v
  BY <1>1
<1>8. Range(v) = Range(u) \cup {v[n]}
  BY <1>5, <1>6, <1>7 DEF Range
<1>9. v[n] \notin Range(u)
  BY <1>5, <1>7 DEF Range, IsInjective
<1>10. IsInjective(u)
  BY <1>5 DEF IsInjective
<1>11. QED
  BY <1>1, <1>2, <1>3, <1>8, <1>9, <1>10

\* push_back() adds one element, and no repetition if the element is new.
LEMMA PushBackFacts ==
    ASSUME NEW S, NEW v \in Seq(S), NEW e \in S, e \notin Range(v), IsInjective(v)
    PROVE  /\ v \o SetToSeq({e}) \in Seq(S)
           /\ IsInjective(v \o SetToSeq({e}))
           /\ Range(v \o SetToSeq({e})) = Range(v) \cup {e}
<1> DEFINE n == Len(v)
           w == v \o <<e>>
<1>1. SetToSeq({e}) = <<e>>
  <2>1. Cardinality({e}) = 1
    BY FS_Singleton
  <2>2. <<e>> \in [1..1 -> {e}] /\ IsInjective(<<e>>)
    BY DEF IsInjective
  <2>3. \A f \in [1..1 -> {e}] : f = <<e>>
    OBVIOUS
  <2>4. QED
    BY <2>1, <2>2, <2>3 DEF SetToSeq
<1>2. /\ n \in Nat /\ DOMAIN v = 1..n
      /\ w \in Seq(S) /\ DOMAIN w = 1..(n + 1)
      /\ \A i \in 1..n : w[i] = v[i]
      /\ w[n + 1] = e
  OBVIOUS
<1>3. \A i \in DOMAIN v : i \in DOMAIN w /\ w[i] = v[i]
  BY <1>2
<1>4. \A i \in DOMAIN w : i = n + 1 \/ (i \in DOMAIN v /\ w[i] = v[i])
  BY <1>2
<1>5. n + 1 \in DOMAIN w /\ w[n + 1] = e
  BY <1>2
<1>6. Range(w) = Range(v) \cup {e}
  BY <1>3, <1>4, <1>5 DEF Range
<1>7. \A i \in DOMAIN v : v[i] # e
  BY DEF Range
<1>8. IsInjective(w)
  <2>1. SUFFICES ASSUME NEW i \in DOMAIN w, NEW j \in DOMAIN w, w[i] = w[j]
                 PROVE  i = j
    BY DEF IsInjective
  <2>2. QED
    BY <1>4, <1>5, <1>7, <2>1 DEF IsInjective
<1>9. QED
  BY <1>1, <1>2, <1>6, <1>8
-----------------------------------------------------------------------------
(* Steps *)

LEMMA InitInv == Init => Inv
<1> SUFFICES ASSUME Init PROVE Inv
  OBVIOUS
<1> DEFINE n == Cardinality(MySqls)
<1>1. n \in Nat /\ Cardinality(1..n) = n /\ IsFiniteSet(1..n)
  <2>1. n \in Nat
    BY ThreadsAssumption, FS_CardinalityType
  <2>2. QED
    BY <2>1, FS_Interval
<1>2. m_MySqlVector \in Injection(1..n, MySqls)
  <2>1. m_MySqlVector \in [1..n -> MySqls]
    BY DEF Init, SetToSeqs
  <2>2. IsInjective(m_MySqlVector)
    BY <2>1 DEF Init, SetToSeqs, IsInjective
  <2>3. QED
    BY <2>1, <2>2 DEF Injection
<1>3. m_MySqlVector \in Surjection(1..n, MySqls)
  BY <1>1, <1>2, ThreadsAssumption, FS_Injection
<1>4. Range(m_MySqlVector) = MySqls
  BY <1>2, <1>3 DEF Range, Injection, Surjection
<1>5. m_MySqlVector \in Seq(MySqls) /\ IsInjective(m_MySqlVector)
  BY <1>1, <1>2 DEF Injection
<1>6. Types
  BY <1>5 DEF Init, Types, Places
<1>7. KnownRequests
  BY DEF Init, KnownRequests, Range
<1>8. HasOneOrNone
  BY DEF Init, HasOneOrNone, WithoutMySql
<1>9. Disjoint
  BY <1>4, <1>5 DEF Init, Disjoint
<1>10. QED
  BY <1>6, <1>7, <1>8, <1>9 DEF Inv

\* A step of a client or of a write task at most adds a request to the queue.
LEMMA RequestStep ==
    ASSUME Inv, UNCHANGED <<m_MySqlVector, at, req, mySql>>,
           \/ UNCHANGED queue
           \/ \E r : queue' = Append(queue, r) /\ r.kind \in Kinds
    PROVE  Inv'
<1>1. Types' /\ HasOneOrNone' /\ Disjoint'
  BY DEF Inv, Types, HasOneOrNone, Disjoint
<1>2. KnownRequests'
  <2>1. CASE UNCHANGED queue
    BY <2>1 DEF Inv, KnownRequests
  <2>2. ASSUME NEW r, queue' = Append(queue, r), r.kind \in Kinds
        PROVE  KnownRequests'
    <3>1. queue' \in Seq(Range(queue')) /\ Range(queue') = Range(queue) \cup {r}
      BY <2>2, AppendFacts DEF Inv, KnownRequests
    <3>2. QED
      BY <3>1, <2>2 DEF Inv, KnownRequests
  <2>3. QED
    BY <2>1, <2>2
<1>3. QED
  BY <1>1, <1>2 DEF Inv

\* A thread that stays on its way with its MySql, or without one.
LEMMA OnTheWay ==
    ASSUME Inv, NEW t \in Threads, NEW place \in Places,
           UNCHANGED <<queue, m_MySqlVector, mySql>>,
           at' = [at EXCEPT ![t] = place],
           place \in WithoutMySql <=> at[t] \in WithoutMySql,
           \/ UNCHANGED req /\ at[t] # "idle"
           \/ place = "idle" /\ \E r : req' = [req EXCEPT ![t] = r]
    PROVE  Inv'
<1>1. Types'
  BY DEF Inv, Types
<1>2. KnownRequests'
  BY DEF Inv, Types, KnownRequests
<1>3. HasOneOrNone'
  BY DEF Inv, Types, HasOneOrNone
<1>4. Disjoint'
  BY DEF Inv, Disjoint
<1>5. QED
  BY <1>1, <1>2, <1>3, <1>4 DEF Inv

LEMMA ThreadWorkStep ==
    ASSUME Inv, NEW t \in Threads, ThreadWork(t) PROVE Inv'
<1>1. /\ Head(queue) \in Range(queue)
      /\ Tail(queue) \in Seq(Range(Tail(queue)))
      /\ Range(Tail(queue)) \subseteq Range(queue)
  BY TailFacts DEF Inv, KnownRequests, ThreadWork
<1>2. Types'
  BY DEF Inv, Types, ThreadWork, Goto, Places
<1>3. KnownRequests'
  BY <1>1 DEF Inv, Types, KnownRequests, ThreadWork, Goto
<1>4. HasOneOrNone'
  BY DEF Inv, Types, HasOneOrNone, ThreadWork, Goto, WithoutMySql
<1>5. Disjoint'
  BY DEF Inv, Disjoint, ThreadWork
<1>6. QED
  BY <1>2, <1>3, <1>4, <1>5 DEF Inv

LEMMA PopStep ==
    ASSUME Inv, NEW t \in Threads, Pop(t) PROVE Inv'
<1> DEFINE q == Last(m_MySqlVector)
<1>1. /\ q \in MySqls
      /\ m_MySqlVector' \in Seq(MySqls)
      /\ IsInjective(m_MySqlVector')
      /\ Range(m_MySqlVector) = Range(m_MySqlVector') \cup {q}
      /\ q \notin Range(m_MySqlVector')
  BY PopBackFacts DEF Inv, Types, Disjoint, Pop
<1>2. at' \in [Threads -> Places] /\ at'[t] \notin WithoutMySql
  <2>1. req[t].kind \in Kinds
    BY DEF Inv, KnownRequests, Pop
  <2>2. FirstPlace[req[t].kind] \in {"authenticate", "select", "save"}
    BY <2>1 DEF FirstPlace, Kinds
  <2>3. QED
    BY <2>2 DEF Inv, Types, Pop, Goto, Places, WithoutMySql
<1>3. mySql[t] = {} /\ mySql' = [mySql EXCEPT ![t] = {q}]
  BY DEF Inv, HasOneOrNone, WithoutMySql, Pop
<1>4. Types'
  <2>1. UNCHANGED req
    BY DEF Pop
  <2>2. QED
    BY <1>1, <1>2, <1>3, <2>1 DEF Inv, Types
<1>5. KnownRequests'
  BY DEF Inv, Types, KnownRequests, Pop, Goto
<1>6. HasOneOrNone'
  BY <1>1, <1>2, <1>3 DEF Inv, Types, HasOneOrNone, Pop, Goto
<1>7. Disjoint'
  <2>1. \A s \in Threads : mySql'[s] = IF s = t THEN {q} ELSE mySql[s]
    BY <1>3 DEF Inv, Types
  <2>2. \A s \in Threads : q \notin mySql[s]
    BY <1>1 DEF Inv, Disjoint
  <2>3. \A s \in Threads : mySql'[s] \cap Range(m_MySqlVector') = {}
    BY <1>1, <2>1 DEF Inv, Disjoint
  <2>4. \A r, s \in Threads : r # s => mySql'[r] \cap mySql'[s] = {}
    BY <2>1, <2>2 DEF Inv, Disjoint
  <2>5. \A p \in MySqls : p \in Range(m_MySqlVector') \/ \E s \in Threads : p \in mySql'[s]
    <3>1. \A s \in Threads : mySql[s] \subseteq mySql'[s]
      BY <1>3, <2>1
    <3>2. q \in mySql'[t]
      BY <2>1
    <3>3. QED
      BY <1>1, <3>1, <3>2 DEF Inv, Disjoint
  <2>6. QED
    BY <1>1, <2>3, <2>4, <2>5 DEF Inv, Disjoint
<1>8. QED
  BY <1>4, <1>5, <1>6, <1>7 DEF Inv

LEMMA PushStep ==
    ASSUME Inv, NEW t \in Threads, Push(t) PROVE Inv'
<1>1. PICK q \in MySqls : mySql[t] = {q}
  BY DEF Inv, HasOneOrNone, WithoutMySql, Push
<1>2. q \notin Range(m_MySqlVector)
  BY <1>1 DEF Inv, Disjoint
<1>3. /\ m_MySqlVector' \in Seq(MySqls)
      /\ IsInjective(m_MySqlVector')
      /\ Range(m_MySqlVector') = Range(m_MySqlVector) \cup {q}
  <2>1. m_MySqlVector' = m_MySqlVector \o SetToSeq({q})
    BY <1>1 DEF Push
  <2>2. m_MySqlVector \in Seq(MySqls) /\ IsInjective(m_MySqlVector)
    BY DEF Inv, Types, Disjoint
  <2>3. /\ m_MySqlVector \o SetToSeq({q}) \in Seq(MySqls)
        /\ IsInjective(m_MySqlVector \o SetToSeq({q}))
        /\ Range(m_MySqlVector \o SetToSeq({q})) = Range(m_MySqlVector) \cup {q}
    BY <1>2, <2>2, PushBackFacts
  <2>4. QED
    BY <2>1, <2>3
<1>4. at' \in [Threads -> Places] /\ at'[t] \in WithoutMySql
      /\ \A s \in Threads \ {t} : at'[s] = at[s]
  BY DEF Inv, Types, Push, Goto, Places, WithoutMySql
<1>5. \A s \in Threads : mySql'[s] = IF s = t THEN {} ELSE mySql[s]
  BY DEF Inv, Types, Push
<1>6. Types'
  BY <1>3, <1>4 DEF Inv, Types, Push
<1>7. KnownRequests'
  <2>1. \A s \in Threads : at'[s] # "idle" => at[s] # "idle" /\ req'[s] = req[s]
    BY DEF Inv, Types, Push, Goto
  <2>2. QED
    BY <2>1 DEF Inv, KnownRequests, Push
<1>8. HasOneOrNone'
  BY <1>4, <1>5 DEF Inv, HasOneOrNone
<1>9. Disjoint'
  <2>1. \A s \in Threads : mySql'[s] \cap Range(m_MySqlVector') = {}
    BY <1>1, <1>3, <1>5 DEF Inv, Disjoint
  <2>2. \A r, s \in Threads : r # s => mySql'[r] \cap mySql'[s] = {}
    BY <1>5 DEF Inv, Disjoint
  <2>3. \A p \in MySqls : p \in Range(m_MySqlVector') \/ \E s \in Threads : p \in mySql'[s]
    <3>1. \A s \in Threads : mySql[s] \subseteq mySql'[s] \cup {q}
      BY <1>1, <1>5
    <3>2. QED
      BY <1>3, <3>1 DEF Inv, Disjoint
  <2>4. QED
    BY <1>3, <2>1, <2>2, <2>3 DEF Inv, Disjoint
<1>10. QED
  BY <1>6, <1>7, <1>8, <1>9 DEF Inv

LEMMA ClientsAndPackages ==
    ASSUME Inv,
           \/ \E c \in Clients : ClientStep(c)
           \/ \E i \in 1..SocketThreads : WritePackage(i)
    PROVE  Inv'
<1>1. ASSUME NEW i \in 1..SocketThreads, WritePackage(i) PROVE Inv'
  BY <1>1, RequestStep DEF WritePackage, localVars
<1>2. ASSUME NEW c \in Clients, ClientStep(c) PROVE Inv'
  <2>1. CASE Connect(c)
    BY <2>1, RequestStep DEF Connect, localVars
  <2>2. CASE Leave(c)
    BY <2>2, RequestStep DEF Leave, localVars
  <2>3. CASE ClientSocketState(c)
    BY <2>3, RequestStep DEF ClientSocketState, localVars
  <2>4. CASE SendGetDataMsgList(c)
    <3>1. GetDataMsgList(cfd[c], Head(wants[c])).kind \in Kinds
      BY DEF GetDataMsgList, NoRequest, Kinds
    <3>2. QED
      BY <2>4, <3>1, RequestStep DEF SendGetDataMsgList, AddData, localVars
  <2>5. ASSUME NEW u \in Users, NEW right \in BOOLEAN, SendLogin(c, u, right)
        PROVE  Inv'
    <3>1. Login(cfd[c], u, right).kind \in Kinds
      BY DEF Login, NoRequest, Kinds
    <3>2. QED
      BY <2>5, <3>1, RequestStep DEF SendLogin, AddData, localVars
  <2>6. ASSUME NEW r \in Addressed, SendDataMsg(c, r)
        PROVE  Inv'
    <3>1. DataMsg(cfd[c], m_SelfUserId[c], r).kind \in Kinds
      BY DEF DataMsg, NoRequest, Kinds
    <3>2. QED
      BY <2>6, <3>1, RequestStep DEF SendDataMsg, AddData, localVars
  <2>7. QED
    BY <1>2, <2>1, <2>2, <2>3, <2>4, <2>5, <2>6 DEF ClientStep
<1>3. QED
  BY <1>1, <1>2

LEMMA HandlerStep ==
    ASSUME Inv, NEW t \in Threads, Handler(t) PROVE Inv'
<1> USE DEF Goto, Places, WithoutMySql
<1>1. CASE ThreadWork(t)
  BY <1>1, ThreadWorkStep
<1>2. CASE Pop(t)
  BY <1>2, PopStep
<1>3. CASE Push(t)
  BY <1>3, PushStep
<1>4. CASE Authenticate(t)
  <2>1. PICK place \in {"open", "push"} : at' = [at EXCEPT ![t] = place]
    BY <1>4 DEF Authenticate
  <2>2. QED
    BY <1>4, <2>1, OnTheWay DEF Authenticate
<1>5. CASE ClientOpen(t)
  BY <1>5, OnTheWay DEF ClientOpen
<1>6. CASE SendUserList(t)
  BY <1>6, OnTheWay DEF SendUserList
<1>7. CASE SendGroupList(t)
  BY <1>7, OnTheWay DEF SendGroupList
<1>8. CASE Select(t)
  BY <1>8, OnTheWay DEF Select
<1>9. CASE SendDataMsgList(t)
  BY <1>9, OnTheWay DEF SendDataMsgList
<1>10. CASE Save(t)
  BY <1>10, OnTheWay DEF Save
\* Lookup may leave the thread where it is.
<1>11. CASE Lookup(t)
  <2>1. at' = [at EXCEPT ![t] = "relay"] \/ at' = [at EXCEPT ![t] = "lookup"]
    <3>1. at = [at EXCEPT ![t] = "lookup"]
      BY <1>11 DEF Lookup, Inv, Types
    <3>2. QED
      BY <1>11, <3>1 DEF Lookup
  <2>2. at[t] = "lookup" /\ UNCHANGED <<queue, m_MySqlVector, mySql, req>>
    BY <1>11 DEF Lookup
  <2>3. QED
    BY <2>1, <2>2, OnTheWay
<1>12. CASE Relay(t)
  BY <1>12, OnTheWay DEF Relay
<1>13. CASE AllRelayed(t)
  BY <1>13, OnTheWay DEF AllRelayed
<1>14. QED
  BY <1>1, <1>2, <1>3, <1>4, <1>5, <1>6, <1>7, <1>8, <1>9, <1>10, <1>11,
     <1>12, <1>13 DEF Handler

LEMMA NextInv == Inv /\ [Next]_vars => Inv'
<1>1. ASSUME Inv, Next PROVE Inv'
  BY <1>1, ClientsAndPackages, HandlerStep DEF Next
<1>2. ASSUME Inv, UNCHANGED vars PROVE Inv'
  BY <1>2, RequestStep DEF vars, localVars
<1>3. QED
  BY <1>1, <1>2

-----------------------------------------------------------------------------
(* The property *)

\* A thread that waits for a MySql while the vector is empty would need more
\* threads than there are to hold them all.
LEMMA NobodyWaits ==
    ASSUME Inv, Cardinality(MySqls) >= Cardinality(Threads),
           NEW t \in Threads, at[t] = "pop"
    PROVE  m_MySqlVector # <<>>
<1> SUFFICES ASSUME m_MySqlVector = <<>> PROVE FALSE
  OBVIOUS
<1> DEFINE Others == Threads \ {t}
           holder == [q \in MySqls |-> CHOOSE s \in Threads : q \in mySql[s]]
<1>1. Range(m_MySqlVector) = {}
  BY DEF Range
<1>2. \A q \in MySqls : \E s \in Threads : q \in mySql[s]
  BY <1>1 DEF Inv, Disjoint
<1>3. \A q \in MySqls : holder[q] \in Threads /\ q \in mySql[holder[q]]
  BY <1>2
<1>4. mySql[t] = {}
  BY DEF Inv, HasOneOrNone, WithoutMySql
<1>5. \A s \in Threads, p, q \in MySqls : p \in mySql[s] /\ q \in mySql[s] => p = q
  BY DEF Inv, HasOneOrNone
<1>6. holder \in Injection(MySqls, Others)
  <2>1. holder \in [MySqls -> Others]
    BY <1>3, <1>4
  <2>2. \A p, q \in MySqls : holder[p] = holder[q] => p = q
    BY <1>3, <1>5
  <2>3. QED
    BY <2>1, <2>2 DEF Injection, IsInjective
<1>7. IsFiniteSet(Others) /\ Cardinality(Others) = Cardinality(Threads) - 1
  BY ThreadsAssumption, FS_RemoveElement
<1>8. Cardinality(MySqls) <= Cardinality(Others)
  BY <1>6, <1>7, FS_Injection
<1>9. Cardinality(MySqls) \in Nat /\ Cardinality(Threads) \in Nat
  BY ThreadsAssumption, FS_CardinalityType
<1>10. QED
  BY <1>7, <1>8, <1>9

LEMMA InvPoolExact == Inv => PoolExact
<1> SUFFICES ASSUME Inv PROVE PoolExact
  OBVIOUS
<1>1. \A t \in Threads : Cardinality(mySql[t]) =
                              IF at[t] \in WithoutMySql THEN 0 ELSE 1
  BY FS_EmptySet, FS_Singleton DEF Inv, HasOneOrNone
<1>2. MySqls = Range(m_MySqlVector) \cup UNION {mySql[t] : t \in Threads}
  <2>1. Range(m_MySqlVector) \subseteq MySqls
    BY RangeOfSeq DEF Inv, Types
  <2>2. \A t \in Threads : mySql[t] \subseteq MySqls
    BY DEF Inv, Types
  <2>3. QED
    BY <2>1, <2>2 DEF Inv, Disjoint
<1>3. \A t \in Threads : mySql[t] \cap Range(m_MySqlVector) = {}
  BY DEF Inv, Disjoint
<1>4. \A t \in Threads : \A s \in Threads \ {t} : mySql[s] \cap mySql[t] = {}
  BY DEF Inv, Disjoint
<1>5. IsInjective(m_MySqlVector)
  BY DEF Inv, Disjoint
<1>6. Cardinality(MySqls) >= Cardinality(Threads) =>
          \A t \in Threads : at[t] = "pop" => m_MySqlVector # <<>>
  BY NobodyWaits
<1>7. QED
  BY <1>1, <1>2, <1>3, <1>4, <1>5, <1>6 DEF PoolExact, WithoutMySql

-----------------------------------------------------------------------------
\* Every MySql is in the vector or with exactly one thread, which has it from
\* Pop to Push and nowhere else, on every path of the three handlers, the
\* failed login included; with as many of them as threads none ever waits
\* (MySqlPool.cpp, DataHandler.cpp 156-290).
THEOREM PoolKept == SafeSpec => []PoolExact
<1>1. SafeSpec => []Inv
  BY InitInv, NextInv, PTL DEF SafeSpec
<1>2. QED
  BY <1>1, InvPoolExact, PTL

-----------------------------------------------------------------------------
(* Types: what is queued can be handled, what is written can be read       *)

GoodRequests ==
    {r \in Requests : r.kind \in Kinds /\ (r.kind = "msg" => r.receiver \in Users \cup Groups)}

Packages ==
    {p \in [kind : {"login", "users", "groups", "list", "msg"},
            user : Users \cup {0, -1}, msgs : SUBSET Msgs] : p.kind = "list" => p.user # -1}

WriteTasks == [cfd : Cfds, package : Packages]

ClientTypes ==
    /\ m_SelfUserId \in [Clients -> Users \cup {0}]
    /\ has \in [Clients -> SUBSET Msgs]
    /\ wants \in [Clients -> Seq(Users)]
    /\ listed \in [Clients -> SUBSET (Users \cup {0})]
    /\ logins \subseteq Clients \X Users /\ IsFiniteSet(logins)
    /\ Cardinality(logins) <= MaxLogins
    /\ calls \in 0..MaxMsgs

\* Two connections do not have the same descriptor before it is closed.
ConnTypes ==
    /\ sock \in [Clients -> {"new", "open", "left", "gone"}]
    /\ cfd \in [Clients -> Cfds \cup {0}]
    /\ \A c \in Clients : sock[c] \in {"open", "left"} => cfd[c] \in Cfds
    /\ \A c, d \in Clients :
          /\ sock[c] \in {"open", "left"} /\ sock[d] \in {"open", "left"}
          /\ cfd[c] = cfd[d]
          => c = d

\* Where a thread is says what it works on.
ThreadTypes(t) ==
    /\ at[t] # "idle" => req[t] \in GoodRequests
    /\ at[t] \in {"authenticate", "open", "users", "groups"} => req[t].kind = "login"
    /\ at[t] \in {"select", "answer"} => req[t].kind = "list"
    /\ at[t] \in {"save", "lookup", "relay"} => req[t].kind = "msg"
    /\ IF at[t] = "relay" THEN relay[t] \in [user : Users, cfd : Cfds]
                          ELSE relay[t] = NoRelay
    /\ at[t] \in {"push", "lookup", "relay"} /\ req[t].kind = "msg" =>
          msg[t].sender = req[t].user

LocalTypes ==
    /\ at \in [Threads -> Places]
    /\ req \in [Threads -> Requests]
    /\ msg \in [Threads -> Msgs]
    /\ list \in [Threads -> SUBSET Msgs]
    /\ to \in [Threads -> SUBSET Users]
    /\ relay \in [Threads -> [user : Users \cup {0}, cfd : Cfds \cup {0}]]
    /\ \A t \in Threads : ThreadTypes(t)

SharedTypes ==
    /\ out \in Seq(WriteTasks)
    /\ queue \in Seq(GoodRequests)
    /\ m_OnlineUserMap \in [Users -> Cfds \cup {0}]
    /\ table \in Seq(Msgs)

Typed == ClientTypes /\ ConnTypes /\ LocalTypes /\ SharedTypes

LEMMA InitTyped == Init => Typed
<1> SUFFICES ASSUME Init PROVE Typed
  OBVIOUS
<1>1. NoMsg \in Msgs /\ NoRequest \in Requests /\ NoRelay \in [user : Users \cup {0}, cfd : Cfds \cup {0}]
  BY DEF NoMsg, Msgs, NoRequest, Requests, NoRelay
<1>2. ClientTypes
  BY SizesAssumption, FS_EmptySet DEF Init, ClientTypes
<1>3. ConnTypes
  BY DEF Init, ConnTypes
<1>4. LocalTypes
  BY <1>1 DEF Init, LocalTypes, ThreadTypes, Places
<1>5. SharedTypes
  BY DEF Init, SharedTypes
<1>6. QED
  BY <1>2, <1>3, <1>4, <1>5 DEF Typed

\* SendPackage queues a task for a descriptor that somebody has, or nothing.
LEMMA SendTyped ==
    ASSUME Typed, NEW f, NEW p \in Packages, SendPackage(f, p)
    PROVE  /\ out' \in Seq(WriteTasks)
           /\ \/ out' = out /\ Owner(f) = {}
              \/ out' = Append(out, [cfd |-> f, package |-> p]) /\ Owner(f) # {}
<1>1. CASE Owner(f) = {}
  BY <1>1 DEF SendPackage, Typed, SharedTypes
<1>2. CASE Owner(f) # {}
  <2>1. f \in Cfds
    BY <1>2 DEF Owner, Typed, ConnTypes
  <2>2. [cfd |-> f, package |-> p] \in WriteTasks
    BY <2>1 DEF WriteTasks
  <2>3. out' = Append(out, [cfd |-> f, package |-> p]) /\ out \in Seq(WriteTasks)
    BY <1>2 DEF SendPackage, Typed, SharedTypes
  <2>4. QED
    BY <1>2, <2>2, <2>3
<1>3. QED
  BY <1>1, <1>2

\* What a thread sends is a package.
LEMMA PackagesSent ==
    ASSUME Typed, NEW t \in Threads
    PROVE  /\ at[t] = "authenticate" =>
                 Package("login", DBUserLogin(req[t]), {}) \in Packages
           /\ Package("users", 0, {}) \in Packages
           /\ Package("groups", 0, {}) \in Packages
           /\ Package("list", req[t].user, list[t]) \in Packages
           /\ Package("msg", 0, {msg[t]}) \in Packages
<1>1. req[t].user \in Users \cup {0} /\ list[t] \subseteq Msgs /\ msg[t] \in Msgs
  BY DEF Typed, LocalTypes, Requests
<1>2. -1 \notin Users \cup {0}
  BY UsersAssumption
<1>3. DBUserLogin(req[t]) \in Users \cup {0, -1}
  BY <1>1 DEF DBUserLogin
<1>4. QED
  BY <1>1, <1>2, <1>3 DEF Packages, Package

\* A queue without the task at a place that is not its first.
LEMMA RemoveFacts ==
    ASSUME NEW S, NEW q \in Seq(S), NEW i \in DOMAIN q
    PROVE  /\ RemoveAt(q, i) \in Seq(S)
           /\ q[i] \in S
           /\ Len(q) \in Nat \ {0} /\ DOMAIN q = 1..Len(q)
           /\ DOMAIN RemoveAt(q, i) = 1..(Len(q) - 1)
           /\ \A j \in 1..(Len(q) - 1) :
                 RemoveAt(q, i)[j] = q[IF j < i THEN j ELSE j + 1]
<1> DEFINE a == SubSeq(q, 1, i - 1)
           b == SubSeq(q, i + 1, Len(q))
           n == Len(q)
<1>1. n \in Nat /\ DOMAIN q = 1..n /\ i \in 1..n /\ q[i] \in S
  OBVIOUS
<1>2. /\ a \in Seq(S) /\ Len(a) = i - 1
      /\ \A j \in 1..(i - 1) : a[j] = q[j]
  BY <1>1
<1>3. /\ b \in Seq(S) /\ Len(b) = n - i
      /\ \A j \in 1..(n - i) : b[j] = q[i + j]
  BY <1>1
<1> HIDE DEF a, b
<1>4. /\ a \o b \in Seq(S) /\ Len(a \o b) = n - 1
      /\ \A j \in 1..(n - 1) : (a \o b)[j] = IF j <= i - 1 THEN a[j] ELSE b[j - (i - 1)]
  <2>1. /\ a \o b \in Seq(S)
        /\ Len(a \o b) = Len(a) + Len(b)
        /\ \A j \in 1..(Len(a) + Len(b)) : (a \o b)[j] =
              IF j <= Len(a) THEN a[j] ELSE b[j - Len(a)]
    BY <1>2, <1>3, ConcatProperties
  <2>2. Len(a) = i - 1 /\ Len(a) + Len(b) = n - 1
    BY <1>1, <1>2, <1>3
  <2>3. QED
    BY <2>1, <2>2
<1>5. RemoveAt(q, i) = a \o b
  BY DEF RemoveAt, a, b
<1>6. ASSUME NEW j \in 1..(n - 1)
      PROVE  (a \o b)[j] = q[IF j < i THEN j ELSE j + 1]
  <2>1. CASE j < i
    BY <1>1, <1>2, <1>4, <2>1
  <2>2. CASE ~(j < i)
    <3>1. j - (i - 1) \in 1..(n - i) /\ i + (j - (i - 1)) = j + 1
      BY <1>1, <2>2
    <3>2. QED
      BY <1>1, <1>3, <1>4, <2>2, <3>1
  <2>3. QED
    BY <2>1, <2>2
<1>7. DOMAIN (a \o b) = 1..(n - 1)
  BY <1>4, LenProperties
<1>8. Len(q) \in Nat \ {0} /\ DOMAIN q = 1..Len(q)
  BY <1>1
<1>9. QED
  BY <1>1, <1>4, <1>5, <1>6, <1>7, <1>8

LEMMA RemoveRange ==
    ASSUME NEW S, NEW q \in Seq(S), NEW i \in DOMAIN q
    PROVE  /\ RemoveAt(q, i) \in Seq(S) /\ q[i] \in S
           /\ Range(q) = Range(RemoveAt(q, i)) \cup {q[i]}
<1> DEFINE n == Len(q)
           r == RemoveAt(q, i)
<1>1. /\ r \in Seq(S) /\ q[i] \in S /\ n \in Nat \ {0} /\ DOMAIN q = 1..n
      /\ DOMAIN r = 1..(n - 1)
      /\ \A j \in 1..(n - 1) : r[j] = q[IF j < i THEN j ELSE j + 1]
  BY RemoveFacts
<1> HIDE DEF r
<1>2. \A j \in DOMAIN r : \E k \in DOMAIN q : r[j] = q[k]
  <2>1. ASSUME NEW j \in 1..(n - 1) PROVE (IF j < i THEN j ELSE j + 1) \in 1..n
    BY <1>1, <2>1
  <2>2. QED
    BY <1>1, <2>1
<1>3. ASSUME NEW k \in DOMAIN q, k # i PROVE \E j \in DOMAIN r : r[j] = q[k]
  <2>1. CASE k < i
    BY <1>1, <2>1
  <2>2. CASE ~(k < i)
    <3>1. k - 1 \in 1..(n - 1) /\ ~(k - 1 < i) /\ (k - 1) + 1 = k
      BY <1>1, <1>3, <2>2
    <3>2. QED
      BY <1>1, <3>1
  <2>3. QED
    BY <2>1, <2>2
<1>4. Range(q) = Range(r) \cup {q[i]}
  BY <1>2, <1>3 DEF Range
<1>5. QED
  BY <1>1, <1>4 DEF r

LEMMA AppendRange ==
    ASSUME NEW S, NEW q \in Seq(S), NEW e
    PROVE  Range(Append(q, e)) = Range(q) \cup {e}
  BY AppendFacts, SeqOfRange

LEMMA TailRange ==
    ASSUME NEW S, NEW q \in Seq(S), q # <<>>
    PROVE  /\ Head(q) \in S /\ Tail(q) \in Seq(S)
           /\ Range(q) = Range(Tail(q)) \cup {Head(q)}
<1>1. /\ Len(q) \in Nat \ {0} /\ DOMAIN q = 1..Len(q) /\ Head(q) = q[1] /\ q[1] \in S
      /\ Tail(q) \in Seq(S) /\ DOMAIN Tail(q) = 1..(Len(q) - 1)
      /\ \A i \in 1..(Len(q) - 1) : Tail(q)[i] = q[i + 1]
  OBVIOUS
<1>2. \A k \in DOMAIN q \ {1} : k - 1 \in DOMAIN Tail(q) /\ Tail(q)[k - 1] = q[k]
  BY <1>1
<1>3. \A i \in DOMAIN Tail(q) : i + 1 \in DOMAIN q /\ Tail(q)[i] = q[i + 1]
  BY <1>1
<1>4. 1 \in DOMAIN q
  BY <1>1
<1>5. Range(q) = Range(Tail(q)) \cup {q[1]}
  <2>1. \A k \in DOMAIN q : k = 1 \/ q[k] \in Range(Tail(q))
    BY <1>2 DEF Range
  <2>2. \A i \in DOMAIN Tail(q) : Tail(q)[i] \in Range(q)
    BY <1>3 DEF Range
  <2>3. QED
    BY <1>4, <2>1, <2>2 DEF Range
<1>6. QED
  BY <1>1, <1>5

-----------------------------------------------------------------------------
(* Types: steps of clients and of write tasks *)

LEMMA RequestsMade ==
    ASSUME NEW f \in Cfds \cup {0}, NEW u \in Users \cup {0}
    PROVE  /\ \A right \in BOOLEAN : Login(f, u, right) \in GoodRequests
           /\ GetDataMsgList(f, u) \in GoodRequests
           /\ \A r \in Addressed : DataMsg(f, u, r) \in GoodRequests
  BY AddressedAssumption
     DEF Login, GetDataMsgList, DataMsg, NoRequest, GoodRequests, Requests, Kinds

LEMMA AddTyped ==
    ASSUME Typed, NEW r \in GoodRequests, AddData(r)
    PROVE  queue' \in Seq(GoodRequests)
  BY AppendProperties DEF Typed, SharedTypes, AddData

\* A client that has got the group list asks for the user it thinks it is.
LEMMA AskedTyped ==
    ASSUME Typed, NEW c \in Clients, NEW p, Read(c, p)
    PROVE  /\ wants' \in [Clients -> Seq(Users)]
           /\ \A d \in Clients \ {c} : wants'[d] = wants[d]
           /\ Range(wants'[c]) = Range(wants[c]) \cup
                 (IF p.kind = "groups" /\ m_SelfUserId[c] # 0 THEN {m_SelfUserId[c]} ELSE {})
<1>1. wants[c] \in Seq(Users) /\ m_SelfUserId[c] \in Users \cup {0}
  BY DEF Typed, ClientTypes
<1>2. wants' = [wants EXCEPT ![c] = wants[c] \o Asked(c, p)]
  BY DEF Read
<1>3. CASE p.kind = "groups" /\ m_SelfUserId[c] # 0
  <2>1. wants[c] \o Asked(c, p) = Append(wants[c], m_SelfUserId[c])
    BY <1>1, <1>3 DEF Asked
  <2>2. wants' = [wants EXCEPT ![c] = Append(wants[c], m_SelfUserId[c])]
    BY <1>2, <2>1
  <2>3. Append(wants[c], m_SelfUserId[c]) \in Seq(Users)
    BY <1>1, <1>3
  <2>4. Range(Append(wants[c], m_SelfUserId[c])) = Range(wants[c]) \cup {m_SelfUserId[c]}
    BY <1>1, AppendRange
  <2>5. QED
    BY <1>3, <2>2, <2>3, <2>4 DEF Typed, ClientTypes
<1>4. CASE ~(p.kind = "groups" /\ m_SelfUserId[c] # 0)
  <2>1. wants[c] \o Asked(c, p) = wants[c]
    BY <1>1, <1>4, ConcatEmptySeq DEF Asked
  <2>2. wants' = wants
    BY <1>2, <2>1 DEF Typed, ClientTypes
  <2>3. QED
    BY <1>4, <2>2 DEF Typed, ClientTypes
<1>5. QED
  BY <1>3, <1>4

\* A request that arrives is the oldest of those on their way.
LEMMA ArrivedTyped ==
    ASSUME Typed, NEW c \in Clients, SendGetDataMsgList(c)
    PROVE  /\ Head(wants[c]) \in Users
           /\ GetDataMsgList(cfd[c], Head(wants[c])) \in GoodRequests
           /\ wants' \in [Clients -> Seq(Users)]
           /\ \A d \in Clients \ {c} : wants'[d] = wants[d]
           /\ Range(wants[c]) = Range(wants'[c]) \cup {Head(wants[c])}
<1>1. wants[c] \in Seq(Users) /\ wants[c] # <<>> /\ cfd[c] \in Cfds \cup {0}
  BY DEF Typed, ClientTypes, ConnTypes, SendGetDataMsgList
<1>2. wants' = [wants EXCEPT ![c] = Tail(wants[c])]
  BY DEF SendGetDataMsgList
<1>3. /\ Head(wants[c]) \in Users /\ Tail(wants[c]) \in Seq(Users)
      /\ Range(wants[c]) = Range(Tail(wants[c])) \cup {Head(wants[c])}
  BY <1>1, TailRange
<1>4. QED
  BY <1>1, <1>2, <1>3, RequestsMade DEF Typed, ClientTypes

\* What a client has got is kept.
LEMMA ReadGives ==
    ASSUME Typed, NEW c \in Clients, NEW p, Read(c, p), NEW d \in Clients
    PROVE  /\ has[d] \subseteq has'[d]
           /\ listed'[d] = IF d = c /\ p.kind = "list" THEN listed[d] \cup {p.user} ELSE listed[d]
<1>1. /\ has' = [has EXCEPT ![c] = @ \cup p.msgs]
      /\ listed' = IF p.kind = "list" THEN [listed EXCEPT ![c] = @ \cup {p.user}] ELSE listed
  BY DEF Read
<1>2. QED
  BY <1>1 DEF Typed, ClientTypes

LEMMA ReadTyped ==
    ASSUME Typed, NEW c \in Clients, NEW p \in Packages, Read(c, p)
    PROVE  ClientTypes'
<1>1. p.user \in Users \cup {0, -1} /\ p.msgs \subseteq Msgs /\ (p.kind = "list" => p.user # -1)
  BY DEF Packages
<1>2. m_SelfUserId' \in [Clients -> Users \cup {0}]
  BY <1>1 DEF Read, Typed, ClientTypes
<1>3. has' \in [Clients -> SUBSET Msgs]
  BY <1>1 DEF Read, Typed, ClientTypes
<1>4. wants' \in [Clients -> Seq(Users)]
  BY AskedTyped
<1>5. listed' \in [Clients -> SUBSET (Users \cup {0})]
  BY <1>1 DEF Read, Typed, ClientTypes
<1>6. QED
  BY <1>2, <1>3, <1>4, <1>5 DEF Read, Typed, ClientTypes

LEMMA LocalsKept ==
    ASSUME Typed, UNCHANGED localVars PROVE LocalTypes'
  BY DEF Typed, LocalTypes, ThreadTypes, localVars

LEMMA WriteTyped ==
    ASSUME Typed, NEW i, WritePackage(i) PROVE Typed'
<1>1. out \in Seq(WriteTasks) /\ i \in DOMAIN out
  BY DEF Typed, SharedTypes, WritePackage
<1>2. out' \in Seq(WriteTasks) /\ out[i] \in WriteTasks
  BY <1>1, RemoveFacts DEF WritePackage
<1>3. ClientTypes'
  <2>1. CASE UNCHANGED clientVars
    BY <2>1 DEF Typed, ClientTypes, clientVars
  <2>2. CASE \E c \in Owner(out[i].cfd) : Read(c, out[i].package)
    BY <1>2, <2>2, ReadTyped DEF Owner, WriteTasks
  <2>3. QED
    BY <2>1, <2>2 DEF WritePackage
<1>4. ConnTypes' /\ SharedTypes'
  BY <1>2 DEF Typed, ConnTypes, SharedTypes, WritePackage, sockVars
<1>5. LocalTypes'
  BY LocalsKept DEF WritePackage
<1>6. QED
  BY <1>3, <1>4, <1>5 DEF Typed

LEMMA ClientStepTyped ==
    ASSUME Typed, NEW c \in Clients, ClientStep(c) PROVE Typed'
<1>1. CASE Connect(c)
  <2>1. ConnTypes'
    <3>1. PICK f \in FreeCfds : cfd' = [cfd EXCEPT ![c] = f]
      BY <1>1 DEF Connect
    <3>2. f \in Cfds /\ \A d \in Clients : sock[d] \in {"open", "left"} => cfd[d] # f
      BY <3>1 DEF FreeCfds
    <3>3. sock' = [sock EXCEPT ![c] = "open"]
      BY <1>1 DEF Connect
    <3>4. \A d \in Clients : sock'[d] = (IF d = c THEN "open" ELSE sock[d])
                             /\ cfd'[d] = (IF d = c THEN f ELSE cfd[d])
      BY <3>1, <3>3 DEF Typed, ConnTypes
    <3>5. QED
      BY <3>1, <3>2, <3>3, <3>4 DEF Typed, ConnTypes
  <2>2. ClientTypes' /\ SharedTypes' /\ LocalTypes'
    BY <1>1, LocalsKept DEF Connect, Typed, ClientTypes, clientVars, SharedTypes
  <2>3. QED
    BY <2>1, <2>2 DEF Typed
<1>2. CASE Leave(c)
  <2>1. ConnTypes'
    BY <1>2 DEF Leave, Typed, ConnTypes
  <2>2. ClientTypes' /\ SharedTypes' /\ LocalTypes'
    BY <1>2, LocalsKept DEF Leave, Typed, ClientTypes, clientVars, SharedTypes
  <2>3. QED
    BY <2>1, <2>2 DEF Typed
<1>3. CASE ClientSocketState(c)
  <2>1. ConnTypes'
    BY <1>3 DEF ClientSocketState, Typed, ConnTypes
  <2>2. m_OnlineUserMap' \in [Users -> Cfds \cup {0}]
    BY <1>3 DEF ClientSocketState, Typed, SharedTypes
  <2>3. ClientTypes' /\ SharedTypes' /\ LocalTypes'
    BY <1>3, <2>2, LocalsKept DEF ClientSocketState, Typed, ClientTypes, clientVars, SharedTypes
  <2>4. QED
    BY <2>1, <2>3 DEF Typed
<1>4. CASE SendGetDataMsgList(c)
  <2>1. GetDataMsgList(cfd[c], Head(wants[c])) \in GoodRequests
        /\ wants' \in [Clients -> Seq(Users)]
    BY <1>4, ArrivedTyped
  <2>2. queue' \in Seq(GoodRequests)
    BY <1>4, <2>1, AddTyped DEF SendGetDataMsgList
  <2>3. ConnTypes' /\ SharedTypes' /\ LocalTypes'
    BY <1>4, <2>2, LocalsKept
       DEF SendGetDataMsgList, Typed, ConnTypes, sockVars, SharedTypes
  <2>4. ClientTypes'
    BY <1>4, <2>1 DEF SendGetDataMsgList, Typed, ClientTypes
  <2>5. QED
    BY <2>3, <2>4 DEF Typed
<1>5. ASSUME NEW u \in Users, NEW right \in BOOLEAN, SendLogin(c, u, right)
      PROVE  Typed'
  <2>1. cfd[c] \in Cfds \cup {0} /\ u \in Users \cup {0}
    BY DEF Typed, ConnTypes
  <2>2. queue' \in Seq(GoodRequests)
    BY <1>5, <2>1, RequestsMade, AddTyped DEF SendLogin
  <2>3. ConnTypes' /\ SharedTypes' /\ LocalTypes'
    BY <1>5, <2>2, LocalsKept DEF SendLogin, Typed, ConnTypes, sockVars, SharedTypes
  <2>4. logins' \subseteq Clients \X Users
        /\ IsFiniteSet(logins') /\ Cardinality(logins') <= MaxLogins
    <3>1. /\ logins' = logins \cup {<<c, u>>} /\ <<c, u>> \notin logins
          /\ Cardinality(logins) < MaxLogins /\ IsFiniteSet(logins)
          /\ logins \subseteq Clients \X Users
      BY <1>5 DEF SendLogin, Typed, ClientTypes
    <3>2. Cardinality(logins') = Cardinality(logins) + 1 /\ IsFiniteSet(logins')
      BY <3>1, FS_AddElement
    <3>3. Cardinality(logins) \in Nat /\ MaxLogins \in Nat
      BY <3>1, FS_CardinalityType, SizesAssumption
    <3>4. QED
      BY <3>1, <3>2, <3>3
  <2>5. ClientTypes'
    BY <1>5, <2>4 DEF SendLogin, Typed, ClientTypes
  <2>6. QED
    BY <2>3, <2>5 DEF Typed
<1>6. ASSUME NEW r \in Addressed, SendDataMsg(c, r)
      PROVE  Typed'
  <2>1. cfd[c] \in Cfds \cup {0} /\ m_SelfUserId[c] \in Users \cup {0}
    BY DEF Typed, ConnTypes, ClientTypes
  <2>2. queue' \in Seq(GoodRequests)
    BY <1>6, <2>1, RequestsMade, AddTyped DEF SendDataMsg
  <2>3. ConnTypes' /\ SharedTypes' /\ LocalTypes'
    BY <1>6, <2>2, LocalsKept DEF SendDataMsg, Typed, ConnTypes, sockVars, SharedTypes
  <2>4. calls' \in 0..MaxMsgs
    BY <1>6, SizesAssumption DEF SendDataMsg, Typed, ClientTypes
  <2>5. ClientTypes'
    BY <1>6, <2>4 DEF SendDataMsg, Typed, ClientTypes
  <2>6. QED
    BY <2>3, <2>5 DEF Typed
<1>7. QED
  BY <1>1, <1>2, <1>3, <1>4, <1>5, <1>6 DEF ClientStep

-----------------------------------------------------------------------------
(* Types: steps of the handlers *)

\* A step of thread t leaves the other threads' local variables alone.
Alone(t) ==
    \A s \in Threads \ {t} :
        /\ at'[s] = at[s] /\ req'[s] = req[s] /\ msg'[s] = msg[s]
        /\ list'[s] = list[s] /\ to'[s] = to[s] /\ relay'[s] = relay[s]

LEMMA HandlerAlone ==
    ASSUME Typed, NEW t \in Threads, Handler(t) PROVE Alone(t)
<1> USE DEF Typed, LocalTypes, Alone, Goto
<1>1. CASE ThreadWork(t)
  BY <1>1 DEF ThreadWork
<1>2. CASE Pop(t)
  BY <1>2 DEF Pop
<1>3. CASE Push(t)
  BY <1>3 DEF Push
<1>4. CASE Authenticate(t)
  BY <1>4 DEF Authenticate
<1>5. CASE ClientOpen(t)
  BY <1>5 DEF ClientOpen
<1>6. CASE SendUserList(t)
  BY <1>6 DEF SendUserList
<1>7. CASE SendGroupList(t)
  BY <1>7 DEF SendGroupList
<1>8. CASE Select(t)
  BY <1>8 DEF Select
<1>9. CASE SendDataMsgList(t)
  BY <1>9 DEF SendDataMsgList
<1>10. CASE Save(t)
  BY <1>10 DEF Save
<1>11. CASE Lookup(t)
  BY <1>11 DEF Lookup
<1>12. CASE Relay(t)
  BY <1>12 DEF Relay
<1>13. CASE AllRelayed(t)
  BY <1>13 DEF AllRelayed
<1>14. QED
  BY <1>1, <1>2, <1>3, <1>4, <1>5, <1>6, <1>7, <1>8, <1>9, <1>10, <1>11,
     <1>12, <1>13 DEF Handler

LocalFunctions ==
    /\ at \in [Threads -> Places]
    /\ req \in [Threads -> Requests]
    /\ msg \in [Threads -> Msgs]
    /\ list \in [Threads -> SUBSET Msgs]
    /\ to \in [Threads -> SUBSET Users]
    /\ relay \in [Threads -> [user : Users \cup {0}, cfd : Cfds \cup {0}]]

LEMMA LocalStep ==
    ASSUME Typed, NEW t \in Threads, Handler(t), LocalFunctions', ThreadTypes(t)'
    PROVE  LocalTypes'
<1>1. \A s \in Threads \ {t} : ThreadTypes(s)'
  BY HandlerAlone DEF Alone, Typed, LocalTypes, ThreadTypes
<1>2. QED
  BY <1>1 DEF LocalTypes, LocalFunctions

LEMMA Nothings ==
    /\ NoMsg \in Msgs /\ NoRequest \in Requests
    /\ NoRelay \in [user : Users \cup {0}, cfd : Cfds \cup {0}]
  BY DEF NoMsg, Msgs, NoRequest, Requests, NoRelay

\* Save makes one row of the request, and its number is the next one.
LEMMA SavedRow ==
    ASSUME NEW t, Save(t)
    PROVE  \E id \in {Len(table) + 1, 0} :
              /\ msg' = [msg EXCEPT ![t] =
                    [id |-> id, sender |-> req[t].user, receiver |-> req[t].receiver]]
              /\ \/ table' = table
                 \/ table' = Append(table,
                       [id |-> id, sender |-> req[t].user, receiver |-> req[t].receiver])
<1> DEFINE m(saved) == [id |-> IF saved THEN Len(table) + 1 ELSE 0,
                        sender |-> req[t].user, receiver |-> req[t].receiver]
<1>1. PICK saved \in {TRUE} \cup {~DbFails} :
         /\ msg' = [msg EXCEPT ![t] = m(saved)]
         /\ table' = IF saved THEN Append(table, m(saved)) ELSE table
  BY DEF Save
<1>2. CASE saved
  <2>1. m(saved) = [id |-> Len(table) + 1, sender |-> req[t].user, receiver |-> req[t].receiver]
    BY <1>2
  <2>2. QED
    BY <1>1, <1>2, <2>1
<1>3. CASE ~saved
  <2>1. m(saved) = [id |-> 0, sender |-> req[t].user, receiver |-> req[t].receiver]
    BY <1>3
  <2>2. QED
    BY <1>1, <1>3, <2>1
<1>4. QED
  BY <1>2, <1>3

\* What a step of a thread does to its own variables.
LEMMA LocalsTyped ==
    ASSUME Typed, NEW t \in Threads, Handler(t) PROVE LocalTypes'
<1> USE DEF Goto, Places
<1> SUFFICES LocalFunctions' /\ ThreadTypes(t)'
  BY LocalStep
<1>0. /\ LocalFunctions /\ ThreadTypes(t)
      /\ NoMsg \in Msgs /\ NoRequest \in Requests
      /\ NoRelay \in [user : Users \cup {0}, cfd : Cfds \cup {0}]
  BY Nothings DEF Typed, LocalTypes, LocalFunctions
<1>1. CASE ThreadWork(t)
  <2>1. Head(queue) \in GoodRequests
    BY <1>1, TailRange DEF ThreadWork, Typed, SharedTypes
  <2>2. Head(queue) \in Requests
    BY <2>1 DEF GoodRequests
  <2>3. LocalFunctions'
    BY <1>0, <1>1, <2>2 DEF ThreadWork, LocalFunctions
  <2>4. ThreadTypes(t)'
    BY <1>0, <1>1, <2>1 DEF ThreadWork, LocalFunctions, ThreadTypes
  <2>5. QED
    BY <2>3, <2>4
<1>2. CASE Pop(t)
  <2>1. req[t].kind \in Kinds
    BY <1>0, <1>2 DEF Pop, ThreadTypes, GoodRequests
  <2>2. PICK place : place = FirstPlace[req[t].kind]
    OBVIOUS
  <2>3. place = IF req[t].kind = "login" THEN "authenticate"
                ELSE IF req[t].kind = "list" THEN "select" ELSE "save"
    BY <2>1, <2>2 DEF FirstPlace, Kinds
  <2>4. at' = [at EXCEPT ![t] = place]
    BY <1>2, <2>2 DEF Pop
  <2>5. LocalFunctions'
    BY <1>0, <1>2, <2>3, <2>4 DEF Pop, LocalFunctions
  <2>6. ThreadTypes(t)'
    BY <1>0, <1>2, <2>1, <2>3, <2>4 DEF Pop, LocalFunctions, ThreadTypes, Kinds
  <2>7. QED
    BY <2>5, <2>6
<1>3. CASE Push(t)
  <2>1. LocalFunctions'
    BY <1>0, <1>3 DEF Push, LocalFunctions
  <2>2. ThreadTypes(t)'
    BY <1>0, <1>3 DEF Push, LocalFunctions, ThreadTypes
  <2>3. QED
    BY <2>1, <2>2
<1>4. CASE Authenticate(t)
  <2>1. LocalFunctions'
    BY <1>0, <1>4 DEF Authenticate, LocalFunctions
  <2>2. ThreadTypes(t)'
    BY <1>0, <1>4 DEF Authenticate, LocalFunctions, ThreadTypes
  <2>3. QED
    BY <2>1, <2>2
<1>5. CASE ClientOpen(t)
  BY <1>0, <1>5 DEF ClientOpen, LocalFunctions, ThreadTypes
<1>6. CASE SendUserList(t)
  BY <1>0, <1>6 DEF SendUserList, LocalFunctions, ThreadTypes
<1>7. CASE SendGroupList(t)
  BY <1>0, <1>7 DEF SendGroupList, LocalFunctions, ThreadTypes
<1>8. CASE Select(t)
  <2>1. {table[i] : i \in FirstRows(req[t].user)} \subseteq Msgs
    <3>1. \A i \in DOMAIN table : table[i] \in Msgs
      BY DEF Typed, SharedTypes
    <3>2. QED
      BY <3>1 DEF FirstRows, Rows
  <2>2. LocalFunctions'
    BY <1>0, <1>8, <2>1 DEF Select, LocalFunctions
  <2>3. ThreadTypes(t)'
    BY <1>0, <1>8 DEF Select, LocalFunctions, ThreadTypes
  <2>4. QED
    BY <2>2, <2>3
<1>9. CASE SendDataMsgList(t)
  <2>1. LocalFunctions'
    BY <1>0, <1>9 DEF SendDataMsgList, LocalFunctions
  <2>2. ThreadTypes(t)'
    BY <1>0, <1>9 DEF SendDataMsgList, LocalFunctions, ThreadTypes
  <2>3. QED
    BY <2>1, <2>2
<1>10. CASE Save(t)
  <2>1. /\ req[t].user \in Users \cup {0}
        /\ req[t].receiver \in Users \cup Groups
    BY <1>0, <1>10 DEF Save, ThreadTypes, GoodRequests, Requests
  <2>2. Receivers(req[t].receiver) \subseteq Users
    BY <2>1, GroupUserAssumption DEF Receivers
  <2>3. Len(table) \in Nat
    BY DEF Typed, SharedTypes
  <2>4. PICK id \in {Len(table) + 1, 0} : msg' = [msg EXCEPT ![t] =
                 [id |-> id, sender |-> req[t].user, receiver |-> req[t].receiver]]
    BY <1>10, SavedRow
  <2>5. [id |-> id, sender |-> req[t].user, receiver |-> req[t].receiver] \in Msgs
    BY <2>1, <2>3 DEF Msgs
  <2>6. msg' \in [Threads -> Msgs] /\ msg'[t].sender = req[t].user
    BY <1>0, <2>4, <2>5 DEF LocalFunctions
  <2>7. LocalFunctions'
    BY <1>0, <1>10, <2>2, <2>6 DEF Save, LocalFunctions
  <2>8. ThreadTypes(t)'
    BY <1>0, <1>10, <2>6 DEF Save, LocalFunctions, ThreadTypes
  <2>9. QED
    BY <2>7, <2>8
<1>11. CASE Lookup(t)
  <2>1. PICK u \in to[t] :
          /\ to' = [to EXCEPT ![t] = @ \ {u}]
          /\ IF u = req[t].user \/ m_OnlineUserMap[u] = 0
             THEN UNCHANGED <<at, relay>>
             ELSE /\ relay' = [relay EXCEPT ![t] = [user |-> u, cfd |-> m_OnlineUserMap[u]]]
                  /\ at' = [at EXCEPT ![t] = "relay"]
    BY <1>11 DEF Lookup
  <2>2. u \in Users /\ m_OnlineUserMap[u] \in Cfds \cup {0} /\ to[t] \subseteq Users
    BY <1>0 DEF LocalFunctions, Typed, SharedTypes
  <2>3. LocalFunctions'
    <3>1. to' \in [Threads -> SUBSET Users]
      BY <1>0, <2>1, <2>2 DEF LocalFunctions
    <3>2. relay' \in [Threads -> [user : Users \cup {0}, cfd : Cfds \cup {0}]]
      BY <1>0, <2>1, <2>2 DEF LocalFunctions
    <3>3. at' \in [Threads -> {"idle", "pop", "push", "authenticate", "open", "users",
                    "groups", "select", "answer", "save", "lookup", "relay"}]
      BY <1>0, <2>1 DEF LocalFunctions
    <3>4. QED
      BY <1>0, <1>11, <3>1, <3>2, <3>3 DEF Lookup, LocalFunctions
  <2>4. ThreadTypes(t)'
    <3>1. CASE u = req[t].user \/ m_OnlineUserMap[u] = 0
      BY <1>0, <1>11, <2>1, <3>1 DEF Lookup, LocalFunctions, ThreadTypes
    <3>2. CASE ~(u = req[t].user \/ m_OnlineUserMap[u] = 0)
      <4>1. at'[t] = "relay" /\ relay'[t] = [user |-> u, cfd |-> m_OnlineUserMap[u]]
            /\ m_OnlineUserMap[u] \in Cfds
        BY <1>0, <2>1, <2>2, <3>2 DEF LocalFunctions
      <4>2. QED
        BY <1>0, <1>11, <2>2, <4>1 DEF Lookup, LocalFunctions, ThreadTypes
    <3>3. QED
      BY <3>1, <3>2
  <2>5. QED
    BY <2>3, <2>4
<1>12. CASE Relay(t)
  <2>1. LocalFunctions'
    BY <1>0, <1>12 DEF Relay, LocalFunctions
  <2>2. ThreadTypes(t)'
    BY <1>0, <1>12 DEF Relay, LocalFunctions, ThreadTypes
  <2>3. QED
    BY <2>1, <2>2
<1>13. CASE AllRelayed(t)
  <2>1. LocalFunctions'
    BY <1>0, <1>13 DEF AllRelayed, LocalFunctions
  <2>2. ThreadTypes(t)'
    BY <1>0, <1>13 DEF AllRelayed, LocalFunctions, ThreadTypes
  <2>3. QED
    BY <2>1, <2>2
<1>14. QED
  BY <1>1, <1>2, <1>3, <1>4, <1>5, <1>6, <1>7, <1>8, <1>9, <1>10, <1>11,
     <1>12, <1>13 DEF Handler

\* What it does to what it shares with others.
LEMMA HandlerTyped ==
    ASSUME Typed, NEW t \in Threads, Handler(t) PROVE Typed'
<1>0. /\ out \in Seq(WriteTasks) /\ queue \in Seq(GoodRequests)
      /\ m_OnlineUserMap \in [Users -> Cfds \cup {0}] /\ table \in Seq(Msgs)
  BY DEF Typed, SharedTypes
<1>1. UNCHANGED <<clientVars, sockVars>>
  BY DEF Handler, ThreadWork, Pop, Push, Authenticate, ClientOpen, SendUserList,
         SendGroupList, Select, SendDataMsgList, Save, Lookup, Relay, AllRelayed
<1>2. ClientTypes' /\ ConnTypes'
  BY <1>1 DEF Typed, ClientTypes, clientVars, ConnTypes, sockVars
<1>3. SharedTypes'
  <2>1. CASE ThreadWork(t)
    BY <1>0, <2>1, TailRange DEF ThreadWork, SharedTypes
  <2>2. CASE Pop(t) \/ Push(t) \/ Select(t) \/ Lookup(t) \/ AllRelayed(t)
    BY <1>0, <2>2 DEF Pop, Push, Select, Lookup, AllRelayed, SharedTypes
  <2>3. CASE Authenticate(t)
    BY <1>0, <2>3, SendTyped, PackagesSent DEF Authenticate, SharedTypes
  <2>4. CASE ClientOpen(t)
    <3>1. req[t].cfd \in Cfds \cup {0}
      BY DEF Typed, LocalTypes, Requests
    <3>2. QED
      BY <1>0, <2>4, <3>1 DEF ClientOpen, SharedTypes
  <2>5. CASE SendUserList(t)
    BY <1>0, <2>5, SendTyped, PackagesSent DEF SendUserList, SharedTypes
  <2>6. CASE SendGroupList(t)
    BY <1>0, <2>6, SendTyped, PackagesSent DEF SendGroupList, SharedTypes
  <2>7. CASE SendDataMsgList(t)
    BY <1>0, <2>7, SendTyped, PackagesSent DEF SendDataMsgList, SharedTypes
  <2>8. CASE Save(t)
    <3>1. \A m \in Msgs : Append(table, m) \in Seq(Msgs)
      BY <1>0, AppendProperties
    <3>2. req[t] \in GoodRequests
      BY <2>8 DEF Save, Typed, LocalTypes, ThreadTypes
    <3>3. \A id \in Nat :
            [id |-> id, sender |-> req[t].user, receiver |-> req[t].receiver] \in Msgs
      BY <3>2 DEF Msgs, GoodRequests, Requests
    <3>4. Len(table) \in Nat
      BY <1>0
    <3>5. table' \in Seq(Msgs)
      <4>1. PICK id \in {Len(table) + 1, 0} :
              \/ table' = table
              \/ table' = Append(table,
                    [id |-> id, sender |-> req[t].user, receiver |-> req[t].receiver])
        BY <2>8, SavedRow
      <4>2. id \in Nat
        BY <3>4
      <4>3. QED
        BY <1>0, <3>1, <3>3, <4>1, <4>2
    <3>6. QED
      BY <1>0, <2>8, <3>5 DEF Save, SharedTypes
  <2>9. CASE Relay(t)
    BY <1>0, <2>9, SendTyped, PackagesSent DEF Relay, SharedTypes
  <2>10. QED
    BY <2>1, <2>2, <2>3, <2>4, <2>5, <2>6, <2>7, <2>8, <2>9 DEF Handler
<1>4. QED
  BY <1>2, <1>3, LocalsTyped DEF Typed

LEMMA NextTyped == Typed /\ [Next]_vars => Typed'
<1>1. ASSUME Typed, Next PROVE Typed'
  BY <1>1, ClientStepTyped, WriteTyped, HandlerTyped DEF Next
<1>2. ASSUME Typed, UNCHANGED vars PROVE Typed'
  <2>1. ClientTypes' /\ ConnTypes'
    BY <1>2 DEF vars, clientVars, sockVars, Typed, ClientTypes, ConnTypes
  <2>2. SharedTypes'
    BY <1>2 DEF vars, Typed, SharedTypes
  <2>3. QED
    BY <1>2, <2>1, <2>2, LocalsKept DEF vars, Typed
<1>3. QED
  BY <1>1, <1>2

-----------------------------------------------------------------------------
(* No more rows than calls: the messages that are queued or being saved    *)

IsMsg(r) == r.kind = "msg"
MsgsIn(q) == {i \in DOMAIN q : IsMsg(q[i])}
Saving == {t \in Threads : at[t] \in {"pop", "save"} /\ IsMsg(req[t])}

\* Each message sent is a request in the queue, a thread that is to save it,
\* a row, or lost to a failing data base.
Counted == Cardinality(MsgsIn(queue)) + Cardinality(Saving) + Len(table) <= calls

\* Requests of a queue are finitely many.
LEMMA MsgsFinite ==
    ASSUME NEW S, NEW q \in Seq(S)
    PROVE  IsFiniteSet(MsgsIn(q)) /\ Cardinality(MsgsIn(q)) \in Nat
<1>1. DOMAIN q = 1..Len(q) /\ Len(q) \in Int /\ 1 \in Int
  OBVIOUS
<1>2. IsFiniteSet(DOMAIN q)
  BY <1>1, FS_Interval
<1>3. MsgsIn(q) \in SUBSET DOMAIN q
  BY DEF MsgsIn
<1>4. QED
  BY <1>2, <1>3, FS_Subset, FS_CardinalityType

LEMMA MsgsAppended ==
    ASSUME NEW S, NEW q \in Seq(S), NEW e \in S
    PROVE  Cardinality(MsgsIn(Append(q, e))) <=
              Cardinality(MsgsIn(q)) + (IF IsMsg(e) THEN 1 ELSE 0)
<1> DEFINE n == Len(q) + 1
           new == MsgsIn(q) \cup {n}
<1>1. /\ Append(q, e) \in Seq(S) /\ Len(Append(q, e)) = n /\ Len(q) \in Nat
      /\ \A i \in 1..Len(q) : Append(q, e)[i] = q[i]
      /\ Append(q, e)[n] = e /\ DOMAIN q = 1..Len(q)
  BY AppendProperties
<1>2. DOMAIN Append(q, e) = 1..n
  BY <1>1, LenProperties
<1>3. \A i \in 1..n : i = n \/ i \in 1..Len(q)
  BY <1>1
<1>4. IsFiniteSet(MsgsIn(q)) /\ Cardinality(MsgsIn(q)) \in Nat
  BY MsgsFinite
<1>5. CASE IsMsg(e)
  <2>1. MsgsIn(Append(q, e)) \in SUBSET new
    BY <1>1, <1>2, <1>3 DEF MsgsIn
  <2>2. IsFiniteSet(new) /\ Cardinality(new) <= Cardinality(MsgsIn(q)) + 1
        /\ Cardinality(new) \in Nat
    <3>1. IsFiniteSet(new) /\ Cardinality(new) =
             IF n \in MsgsIn(q) THEN Cardinality(MsgsIn(q)) ELSE Cardinality(MsgsIn(q)) + 1
      BY <1>4, FS_AddElement
    <3>2. QED
      BY <1>4, <3>1, FS_CardinalityType
  <2>3. Cardinality(MsgsIn(Append(q, e))) <= Cardinality(new)
        /\ Cardinality(MsgsIn(Append(q, e))) \in Nat
    BY <2>1, <2>2, FS_Subset, FS_CardinalityType
  <2>4. QED
    BY <1>4, <1>5, <2>2, <2>3
<1>6. CASE ~IsMsg(e)
  <2>1. MsgsIn(Append(q, e)) \in SUBSET MsgsIn(q)
    BY <1>1, <1>2, <1>3, <1>6 DEF MsgsIn
  <2>2. Cardinality(MsgsIn(Append(q, e))) <= Cardinality(MsgsIn(q))
        /\ Cardinality(MsgsIn(Append(q, e))) \in Nat
    BY <1>4, <2>1, FS_Subset, FS_CardinalityType
  <2>3. QED
    BY <1>4, <1>6, <2>2
<1>7. QED
  BY <1>5, <1>6

\* What is behind the head moves up by one place.
LEMMA MsgsOfTail ==
    ASSUME NEW S, NEW q \in Seq(S), q # <<>>
    PROVE  Cardinality(MsgsIn(Tail(q))) + (IF IsMsg(Head(q)) THEN 1 ELSE 0)
              <= Cardinality(MsgsIn(q))
<1> DEFINE rest == MsgsIn(q) \ {1}
           f == [i \in MsgsIn(Tail(q)) |-> i + 1]
<1>1. /\ Len(q) \in Nat \ {0} /\ DOMAIN q = 1..Len(q) /\ Head(q) = q[1]
      /\ Tail(q) \in Seq(S) /\ DOMAIN Tail(q) = 1..(Len(q) - 1)
      /\ \A i \in 1..(Len(q) - 1) : Tail(q)[i] = q[i + 1]
  OBVIOUS
<1>2. /\ IsFiniteSet(MsgsIn(q)) /\ Cardinality(MsgsIn(q)) \in Nat
      /\ IsFiniteSet(MsgsIn(Tail(q))) /\ Cardinality(MsgsIn(Tail(q))) \in Nat
  BY <1>1, MsgsFinite
<1>3. f \in Injection(MsgsIn(Tail(q)), rest)
  <2>1. \A i \in MsgsIn(Tail(q)) : i \in Nat /\ i + 1 \in rest
    BY <1>1 DEF MsgsIn
  <2>2. f \in [MsgsIn(Tail(q)) -> rest]
    BY <2>1
  <2>3. \A i, j \in MsgsIn(Tail(q)) : f[i] = f[j] => i = j
    BY <2>1
  <2>4. QED
    BY <2>2, <2>3 DEF Injection, IsInjective
<1>4. IsFiniteSet(rest)
      /\ Cardinality(rest) = IF 1 \in MsgsIn(q) THEN Cardinality(MsgsIn(q)) - 1
                                                ELSE Cardinality(MsgsIn(q))
  BY <1>2, FS_RemoveElement
<1>5. 1 \in MsgsIn(q) <=> IsMsg(Head(q))
  BY <1>1 DEF MsgsIn
<1>6. Cardinality(MsgsIn(Tail(q))) <= Cardinality(rest)
  BY <1>3, <1>4, FS_Injection
<1>7. QED
  BY <1>2, <1>4, <1>5, <1>6

LEMMA CountTypes ==
    ASSUME Typed
    PROVE  /\ IsFiniteSet(Saving) /\ Cardinality(Saving) \in Nat
           /\ Cardinality(MsgsIn(queue)) \in Nat
           /\ Len(table) \in Nat /\ calls \in Nat
<1>1. Saving \in SUBSET Threads
  BY DEF Saving
<1>2. IsFiniteSet(Saving) /\ Cardinality(Saving) \in Nat
  BY <1>1, ThreadsAssumption, FS_Subset, FS_CardinalityType
<1>3. Cardinality(MsgsIn(queue)) \in Nat
  BY MsgsFinite DEF Typed, SharedTypes
<1>4. QED
  BY <1>2, <1>3, SizesAssumption DEF Typed, SharedTypes, ClientTypes

LEMMA InitCounted == Init => Counted
<1> SUFFICES ASSUME Init PROVE Counted
  OBVIOUS
<1>1. MsgsIn(queue) = {} /\ Saving = {} /\ Len(table) = 0 /\ calls = 0
  BY DEF Init, MsgsIn, Saving
<1>2. QED
  BY <1>1, FS_EmptySet DEF Counted

\* Fewer threads save, and nothing is added to the queue or to the table.
LEMMA CountedFewer ==
    ASSUME Typed, Typed', Counted, Saving' \subseteq Saving,
           UNCHANGED <<queue, table, calls>>
    PROVE  Counted'
<1>1. Cardinality(Saving') <= Cardinality(Saving)
  BY CountTypes, FS_Subset
<1>2. Cardinality(Saving') \in Nat
  BY CountTypes, FS_Subset, FS_CardinalityType
<1>3. MsgsIn(queue') = MsgsIn(queue) /\ Len(table') = Len(table) /\ calls' = calls
  OBVIOUS
<1>4. QED
  BY <1>1, <1>2, <1>3, CountTypes DEF Counted

\* A request that is no message, or one more call.
LEMMA CountedAdd ==
    ASSUME Typed, Counted, NEW r \in GoodRequests, AddData(r),
           UNCHANGED <<table, localVars>>,
           calls' = IF IsMsg(r) THEN calls + 1 ELSE calls
    PROVE  Counted'
<1>1. Saving' = Saving
  BY DEF Saving, localVars
<1>2. Cardinality(MsgsIn(queue')) <=
         Cardinality(MsgsIn(queue)) + (IF IsMsg(r) THEN 1 ELSE 0)
  BY MsgsAppended DEF AddData, Typed, SharedTypes
<1>3. queue' \in Seq(GoodRequests)
  BY AddTyped
<1>4. Cardinality(MsgsIn(queue')) \in Nat
  BY <1>3, MsgsFinite
<1>5. Len(table') = Len(table)
  OBVIOUS
<1>6. QED
  BY <1>1, <1>2, <1>4, <1>5, CountTypes DEF Counted

LEMMA ClientStepCounted ==
    ASSUME Typed, Typed', Counted, NEW c \in Clients, ClientStep(c) PROVE Counted'
<1>0. cfd[c] \in Cfds \cup {0} /\ m_SelfUserId[c] \in Users \cup {0}
  BY DEF Typed, ConnTypes, ClientTypes
<1>1. CASE Connect(c) \/ Leave(c) \/ ClientSocketState(c)
  BY <1>1, CountedFewer
     DEF Connect, Leave, ClientSocketState, Saving, localVars, clientVars
<1>2. CASE SendGetDataMsgList(c)
  <2>1. PICK r : r = GetDataMsgList(cfd[c], Head(wants[c]))
    OBVIOUS
  <2>2. r \in GoodRequests /\ ~IsMsg(r)
    BY <1>2, <2>1, ArrivedTyped DEF GetDataMsgList, NoRequest, IsMsg
  <2>3. QED
    BY <1>2, <2>1, <2>2, CountedAdd DEF SendGetDataMsgList
<1>3. ASSUME NEW u \in Users, NEW right \in BOOLEAN, SendLogin(c, u, right)
      PROVE  Counted'
  <2>1. PICK r : r = Login(cfd[c], u, right)
    OBVIOUS
  <2>2. r \in GoodRequests /\ ~IsMsg(r)
    BY <1>0, <2>1, RequestsMade DEF Login, NoRequest, IsMsg
  <2>3. QED
    BY <1>3, <2>1, <2>2, CountedAdd DEF SendLogin
<1>4. ASSUME NEW a \in Addressed, SendDataMsg(c, a)
      PROVE  Counted'
  <2>1. PICK r : r = DataMsg(cfd[c], m_SelfUserId[c], a)
    OBVIOUS
  <2>2. r \in GoodRequests /\ IsMsg(r)
    BY <1>0, <2>1, RequestsMade DEF DataMsg, NoRequest, IsMsg
  <2>3. QED
    BY <1>4, <2>1, <2>2, CountedAdd DEF SendDataMsg
<1>5. QED
  BY <1>1, <1>2, <1>3, <1>4 DEF ClientStep

LEMMA HandlerCounted ==
    ASSUME Typed, Typed', Counted, NEW t \in Threads, Handler(t) PROVE Counted'
<1>0. /\ Alone(t) /\ at \in [Threads -> Places] /\ req \in [Threads -> Requests]
      /\ queue \in Seq(GoodRequests) /\ table \in Seq(Msgs)
  BY HandlerAlone DEF Typed, LocalTypes, SharedTypes
<1>1. CASE ThreadWork(t)
  <2>1. /\ queue' = Tail(queue) /\ queue # <<>> /\ at[t] = "idle"
        /\ req'[t] = Head(queue) /\ at'[t] = "pop" /\ UNCHANGED <<table, calls>>
    BY <1>0, <1>1 DEF ThreadWork, Goto, clientVars
  <2>2. t \notin Saving
    BY <2>1 DEF Saving
  <2>3. Saving' \subseteq IF IsMsg(Head(queue)) THEN Saving \cup {t} ELSE Saving
    BY <1>0, <2>1 DEF Saving, Alone
  <2>4. Cardinality(MsgsIn(queue')) + (IF IsMsg(Head(queue)) THEN 1 ELSE 0)
           <= Cardinality(MsgsIn(queue))
    BY <1>0, <2>1, MsgsOfTail
  <2>5. /\ IsFiniteSet(Saving \cup {t})
        /\ Cardinality(Saving \cup {t}) = Cardinality(Saving) + 1
    BY <2>2, CountTypes, FS_AddElement
  <2>6. Cardinality(Saving') <=
           Cardinality(Saving) + (IF IsMsg(Head(queue)) THEN 1 ELSE 0)
        /\ Cardinality(Saving') \in Nat
    <3>1. CASE IsMsg(Head(queue))
      BY <2>3, <2>5, <3>1, FS_Subset, FS_CardinalityType
    <3>2. CASE ~IsMsg(Head(queue))
      <4>1. Saving' \in SUBSET Saving
        BY <2>3, <3>2
      <4>2. Cardinality(Saving') <= Cardinality(Saving) /\ Cardinality(Saving') \in Nat
        BY <4>1, CountTypes, FS_Subset, FS_CardinalityType
      <4>3. QED
        BY <3>2, <4>2, CountTypes
    <3>3. QED
      BY <3>1, <3>2
  <2>7. Cardinality(MsgsIn(queue')) \in Nat
    BY <1>0, <2>1, TailRange, MsgsFinite
  <2>8. Len(table') = Len(table) /\ calls' = calls
    BY <2>1
  <2>9. QED
    BY <2>4, <2>6, <2>7, <2>8, CountTypes DEF Counted
<1>2. CASE Save(t)
  <2>1. /\ UNCHANGED <<queue, calls>> /\ at[t] = "save" /\ at'[t] = "push"
    BY <1>0, <1>2 DEF Save, Goto, clientVars
  <2>2. t \in Saving
    BY <2>1 DEF Saving, Typed, LocalTypes, ThreadTypes, IsMsg
  <2>3. Saving' \in SUBSET (Saving \ {t})
    BY <1>0, <2>1 DEF Saving, Alone
  <2>4. IsFiniteSet(Saving \ {t}) /\ Cardinality(Saving \ {t}) = Cardinality(Saving) - 1
    BY <2>2, CountTypes, FS_RemoveElement
  <2>5. Cardinality(Saving') <= Cardinality(Saving) - 1 /\ Cardinality(Saving') \in Nat
    BY <2>3, <2>4, FS_Subset, FS_CardinalityType
  <2>6. Len(table') <= Len(table) + 1 /\ Len(table') \in Nat
    <3>1. \A m : Len(Append(table, m)) = Len(table) + 1
      BY <1>0
    <3>2. table' = table \/ \E m : table' = Append(table, m)
      BY <1>2, SavedRow
    <3>3. QED
      BY <3>1, <3>2, CountTypes
  <2>7. Cardinality(MsgsIn(queue')) = Cardinality(MsgsIn(queue)) /\ calls' = calls
    BY <2>1
  <2>8. QED
    BY <2>5, <2>6, <2>7, CountTypes DEF Counted
<1>3. CASE Pop(t)
  <2>1. at[t] = "pop" /\ UNCHANGED <<queue, table, calls, req>>
    BY <1>3 DEF Pop, clientVars
  <2>2. Saving' \subseteq Saving
    BY <1>0, <2>1 DEF Saving, Alone
  <2>3. QED
    BY <2>1, <2>2, CountedFewer
<1>4. CASE ~(ThreadWork(t) \/ Save(t) \/ Pop(t))
  <2>1. /\ at'[t] \notin {"pop", "save"}
        /\ UNCHANGED <<queue, table, calls>>
    BY <1>0, <1>4 DEF Handler, Push, Authenticate, ClientOpen, SendUserList, SendGroupList,
        Select, SendDataMsgList, Lookup, Relay, AllRelayed, Goto, clientVars
  <2>2. Saving' \subseteq Saving
    BY <1>0, <2>1 DEF Saving, Alone
  <2>3. QED
    BY <2>1, <2>2, CountedFewer
<1>5. QED
  BY <1>1, <1>2, <1>3, <1>4

LEMMA NextCounted == Typed /\ Counted /\ [Next]_vars => Counted'
<1> SUFFICES ASSUME Typed, Counted, [Next]_vars PROVE Counted'
  OBVIOUS
<1>0. Typed'
  BY NextTyped
<1>1. ASSUME NEW i, WritePackage(i) PROVE Counted'
  <2>1. UNCHANGED <<queue, table, calls, localVars>>
    BY <1>1 DEF WritePackage, clientVars, Read
  <2>2. Saving' = Saving
    BY <2>1 DEF Saving, localVars
  <2>3. QED
    BY <1>0, <2>1, <2>2, CountedFewer
<1>2. CASE UNCHANGED vars
  <2>1. UNCHANGED <<queue, table, calls>> /\ Saving' = Saving
    BY <1>2 DEF vars, clientVars, localVars, Saving
  <2>2. QED
    BY <1>0, <2>1, CountedFewer
<1>3. QED
  BY <1>0, <1>1, <1>2, ClientStepCounted, HandlerCounted DEF Next

-----------------------------------------------------------------------------
LEMMA TypedTypeOK == Typed /\ Counted /\ Types => TypeOK
<1> SUFFICES ASSUME Typed, Counted, Types PROVE TypeOK
  OBVIOUS
<1>1. Len(table) <= MaxMsgs
  BY CountTypes, SizesAssumption DEF Counted, Typed, ClientTypes
<1>2. \A i \in DOMAIN out : out[i].cfd \in Cfds /\ IsPackage(out[i].package)
  <2>1. \A i \in DOMAIN out : out[i] \in WriteTasks
    BY DEF Typed, SharedTypes
  <2>2. QED
    BY <2>1 DEF WriteTasks, Packages, IsPackage
<1>3. queue \in Seq(Requests)
  <2>1. GoodRequests \subseteq Requests
    BY DEF GoodRequests
  <2>2. QED
    BY <2>1, SeqMonotonic DEF Typed, SharedTypes
<1>4. /\ \A c \in Clients : has[c] \subseteq Msgs
      /\ \A t \in Threads : list[t] \subseteq Msgs
  BY DEF Typed, ClientTypes, LocalTypes
<1>5. \A t \in Threads : IF at[t] = "relay"
             THEN relay[t] \in [user : Users, cfd : Cfds] ELSE relay[t] = NoRelay
  BY DEF Typed, LocalTypes, ThreadTypes
<1>6. QED
  BY <1>1, <1>2, <1>3, <1>4, <1>5
     DEF TypeOK, Typed, ClientTypes, ConnTypes, LocalTypes, SharedTypes, Types

\* Every request in the queue can be handled, every thread has what its place
\* needs, a message goes to the descriptor of somebody who is online, and there
\* are no more rows than calls of SendDataMsg (DataHandler.cpp 29-290).
THEOREM TypesKept == SafeSpec => []TypeOK
<1>1. SafeSpec => []Inv
  BY InitInv, NextInv, PTL DEF SafeSpec
<1>2. SafeSpec => []Typed
  BY InitTyped, NextTyped, PTL DEF SafeSpec
<1>3. SafeSpec => []Counted
  BY <1>2, InitCounted, NextCounted, PTL DEF SafeSpec
<1>4. Inv => Types
  BY DEF Inv
<1>5. QED
  BY <1>1, <1>2, <1>3, <1>4, TypedTypeOK, PTL

-----------------------------------------------------------------------------
(* A user on one connection only: what there is of a user is at one place  *)

\* A request for user u, or what was written of it.
Asks(r, u) == r.kind \in {"login", "list"} /\ r.user = u

\* The client knows nothing of user u.
NotAt(c, u) == m_SelfUserId[c] # u /\ u \notin listed[c] /\ u \notin Range(wants[c])

\* What there is of user u is on the connections P with the descriptors G.
OnlyAt(u, P, G) ==
    /\ \A c \in Clients \ P : NotAt(c, u)
    /\ \A r \in Range(queue) : Asks(r, u) => r.cfd \in G
    /\ \A t \in Threads : at[t] # "idle" /\ Asks(req[t], u) => req[t].cfd \in G
    /\ \A o \in Range(out) : Asks(o.package, u) => o.cfd \in G
    /\ m_OnlineUserMap[u] \in G \cup {0}

\* No connection logs user u in with this step.
NoLoginOf(u) == \A c \in Clients : <<c, u>> \in logins' => <<c, u>> \in logins

\* SendPackage adds one task at most, and one when somebody has the descriptor.
LEMMA SentRange ==
    ASSUME Typed, NEW f, NEW p \in Packages, SendPackage(f, p)
    PROVE  \/ Owner(f) = {} /\ out' = out
           \/ Owner(f) # {} /\ Range(out') = Range(out) \cup {[cfd |-> f, package |-> p]}
<1>1. CASE Owner(f) = {}
  BY <1>1, SendTyped
<1>2. CASE Owner(f) # {}
  BY <1>2, SendTyped, AppendRange DEF Typed, SharedTypes
<1>3. QED
  BY <1>1, <1>2

LEMMA OwnerIs ==
    ASSUME Typed, NEW c \in Clients, sock[c] = "open"
    PROVE  Owner(cfd[c]) = {c} /\ cfd[c] \in Cfds /\ cfd[c] # 0
<1>1. cfd[c] \in Cfds
  BY DEF Typed, ConnTypes
<1>2. Owner(cfd[c]) = {c}
  BY DEF Typed, ConnTypes, Owner
<1>3. QED
  BY <1>1, <1>2, CfdsAssumption

LEMMA QueueRange ==
    ASSUME Typed, NEW r \in GoodRequests, AddData(r)
    PROVE  Range(queue') = Range(queue) \cup {r}
  BY AppendRange DEF Typed, SharedTypes, AddData

LEMMA TakenRange ==
    ASSUME Typed, NEW t \in Threads, ThreadWork(t)
    PROVE  /\ Range(queue) = Range(queue') \cup {Head(queue)}
           /\ Head(queue) \in GoodRequests
           /\ at'[t] = "pop" /\ req'[t] = Head(queue) /\ at[t] = "idle"
  BY TailRange DEF ThreadWork, Typed, SharedTypes, LocalTypes, Goto

LEMMA WrittenRange ==
    ASSUME Typed, NEW i, WritePackage(i)
    PROVE  /\ Range(out) = Range(out') \cup {out[i]}
           /\ out[i] \in WriteTasks /\ out[i] \in Range(out)
  BY RemoveRange DEF WritePackage, Typed, SharedTypes

\* A connection reads what is written to its descriptor.
LEMMA WrittenTo ==
    ASSUME Typed, NEW i, WritePackage(i)
    PROVE  \/ Owner(out[i].cfd) = {} /\ UNCHANGED clientVars
           \/ \E c \in Clients : /\ sock[c] = "open" /\ cfd[c] = out[i].cfd
                                 /\ Read(c, out[i].package)
  BY DEF WritePackage, Owner

LEMMA OnlyAtClientStep ==
    ASSUME Typed, NEW u \in Users, NEW P, NEW G, OnlyAt(u, P, G), NoLoginOf(u),
           \A d \in Clients \cap P : cfd[d] \in G,
           NEW c \in Clients, ClientStep(c)
    PROVE  OnlyAt(u, P, G)'
<1>0. cfd[c] \in Cfds \cup {0} /\ m_SelfUserId[c] \in Users \cup {0}
  BY DEF Typed, ConnTypes, ClientTypes
<1>1. CASE Connect(c) \/ Leave(c)
  BY <1>1 DEF Connect, Leave, OnlyAt, NotAt, clientVars, localVars
<1>2. CASE ClientSocketState(c)
  <2>1. m_OnlineUserMap'[u] \in G \cup {0}
    BY <1>2 DEF ClientSocketState, OnlyAt, NotAt
  <2>2. QED
    BY <1>2, <2>1 DEF ClientSocketState, OnlyAt, NotAt, clientVars, localVars
<1>3. ASSUME NEW r \in GoodRequests, AddData(r), Asks(r, u) => r.cfd \in G,
             UNCHANGED <<m_SelfUserId, listed, out, m_OnlineUserMap, localVars>>,
             \A d \in Clients : Range(wants'[d]) \subseteq Range(wants[d])
      PROVE  OnlyAt(u, P, G)'
  <2>1. \A q \in Range(queue') : q \in Range(queue) \/ q = r
    BY <1>3, QueueRange
  <2>2. QED
    BY <1>3, <2>1 DEF OnlyAt, NotAt, localVars
<1>4. CASE SendGetDataMsgList(c)
  <2>1. PICK r : r = GetDataMsgList(cfd[c], Head(wants[c]))
    OBVIOUS
  <2>2. r \in GoodRequests /\ r.cfd = cfd[c] /\ r.user = Head(wants[c])
    BY <1>4, <2>1, ArrivedTyped DEF GetDataMsgList, NoRequest
  <2>3. Head(wants[c]) \in Range(wants[c])
        /\ \A d \in Clients : Range(wants'[d]) \subseteq Range(wants[d])
    BY <1>4, ArrivedTyped
  <2>4. Asks(r, u) => r.cfd \in G
    BY <2>2, <2>3 DEF Asks, OnlyAt, NotAt
  <2>5. QED
    BY <1>3, <1>4, <2>1, <2>2, <2>3, <2>4 DEF SendGetDataMsgList
<1>5. ASSUME NEW v \in Users, NEW right \in BOOLEAN, SendLogin(c, v, right)
      PROVE  OnlyAt(u, P, G)'
  <2>1. PICK r : r = Login(cfd[c], v, right)
    OBVIOUS
  <2>2. r \in GoodRequests /\ r.user = v
    BY <1>0, <2>1, RequestsMade DEF Login, NoRequest
  <2>3. v # u
    BY <1>5 DEF SendLogin, NoLoginOf
  <2>4. QED
    BY <1>3, <1>5, <2>1, <2>2, <2>3 DEF SendLogin, Asks
<1>6. ASSUME NEW a \in Addressed, SendDataMsg(c, a)
      PROVE  OnlyAt(u, P, G)'
  <2>1. PICK r : r = DataMsg(cfd[c], m_SelfUserId[c], a)
    OBVIOUS
  <2>2. r \in GoodRequests /\ r.kind = "msg"
    BY <1>0, <2>1, RequestsMade DEF DataMsg, NoRequest
  <2>3. QED
    BY <1>3, <1>6, <2>1, <2>2 DEF SendDataMsg, Asks
<1>7. QED
  BY <1>1, <1>2, <1>4, <1>5, <1>6 DEF ClientStep

LEMMA OnlyAtWrite ==
    ASSUME Typed, NEW u \in Users, NEW P, NEW G, OnlyAt(u, P, G),
           \A d \in Clients : sock[d] = "open" /\ cfd[d] \in G => d \in P,
           NEW i, WritePackage(i)
    PROVE  OnlyAt(u, P, G)'
<1>1. UNCHANGED <<queue, m_OnlineUserMap, localVars>>
  BY DEF WritePackage
<1>2. Range(out') \subseteq Range(out) /\ out[i] \in Range(out) /\ out[i] \in WriteTasks
  BY WrittenRange
<1>3. \A c \in Clients \ P : NotAt(c, u)'
  <2>1. CASE UNCHANGED clientVars
    BY <2>1 DEF clientVars, OnlyAt, NotAt
  <2>2. ASSUME NEW d \in Clients, sock[d] = "open", cfd[d] = out[i].cfd,
               Read(d, out[i].package)
        PROVE  \A c \in Clients \ P : NotAt(c, u)'
    <3>1. Asks(out[i].package, u) => d \in P
      BY <1>2, <2>2 DEF OnlyAt, NotAt
    <3>2. \A c \in Clients \ {d} : /\ m_SelfUserId'[c] = m_SelfUserId[c]
                                  /\ listed'[c] = listed[c] /\ wants'[c] = wants[c]
      BY <2>2, AskedTyped DEF Read, Typed, ClientTypes
    <3>3. d \notin P => NotAt(d, u)'
      <4>1. SUFFICES ASSUME d \notin P, ~Asks(out[i].package, u)
                     PROVE  NotAt(d, u)'
        BY <3>1
      <4>2. NotAt(d, u)
        BY <4>1 DEF OnlyAt, NotAt
      <4>3. m_SelfUserId'[d] # u /\ u \notin listed'[d]
        BY <2>2, <4>1, <4>2 DEF Read, Asks, NotAt, Typed, ClientTypes
      <4>4. u \notin Range(wants'[d])
        BY <2>2, <4>2, AskedTyped DEF NotAt
      <4>5. QED
        BY <4>3, <4>4 DEF NotAt
    <3>4. QED
      BY <3>2, <3>3 DEF OnlyAt, NotAt
  <2>3. QED
    BY <2>1, <2>2, WrittenTo
<1>4. QED
  BY <1>1, <1>2, <1>3 DEF OnlyAt, NotAt, localVars

LEMMA OnlyAtHandler ==
    ASSUME Typed, NEW u \in Users, NEW P, NEW G, OnlyAt(u, P, G),
           NEW t \in Threads, Handler(t)
    PROVE  OnlyAt(u, P, G)'
<1>0. /\ Alone(t) /\ at \in [Threads -> Places] /\ req \in [Threads -> Requests]
      /\ UNCHANGED <<m_SelfUserId, listed, wants>>
  <2>1. UNCHANGED clientVars
    BY DEF Handler, ThreadWork, Pop, Push, Authenticate, ClientOpen, SendUserList,
           SendGroupList, Select, SendDataMsgList, Save, Lookup, Relay, AllRelayed
  <2>2. QED
    BY <2>1, HandlerAlone DEF Typed, LocalTypes, clientVars
\* The request in hand is the one there was, or the head of the queue.
<1>1. ASSUME at[t] # "idle", at'[t] # "idle" => req'[t] = req[t],
             UNCHANGED queue,
             \A o \in Range(out') : o \in Range(out) \/ (Asks(o.package, u) => o.cfd \in G),
             m_OnlineUserMap'[u] \in G \cup {0}
      PROVE  OnlyAt(u, P, G)'
  <2>1. \A s \in Threads : at'[s] # "idle" /\ Asks(req'[s], u) => req'[s].cfd \in G
    BY <1>0, <1>1 DEF Alone, OnlyAt, NotAt
  <2>2. QED
    BY <1>0, <1>1, <2>1 DEF OnlyAt, NotAt
<1>2. CASE ThreadWork(t)
  <2>1. /\ Range(queue) = Range(queue') \cup {Head(queue)}
        /\ req'[t] = Head(queue) /\ UNCHANGED <<out, m_OnlineUserMap>>
    BY <1>2, TakenRange DEF ThreadWork
  <2>2. \A s \in Threads : at'[s] # "idle" /\ Asks(req'[s], u) => req'[s].cfd \in G
    BY <1>0, <2>1 DEF Alone, OnlyAt, NotAt
  <2>3. QED
    BY <1>0, <2>1, <2>2 DEF OnlyAt, NotAt
<1>3. CASE Pop(t) \/ Push(t) \/ Select(t) \/ Save(t) \/ Lookup(t) \/ AllRelayed(t)
  <2>1. /\ at[t] # "idle" /\ (at'[t] # "idle" => req'[t] = req[t])
        /\ UNCHANGED <<queue, out, m_OnlineUserMap>>
    BY <1>0, <1>3 DEF Pop, Push, Select, Save, Lookup, AllRelayed, Goto
  <2>2. QED
    BY <1>1, <2>1 DEF OnlyAt, NotAt
<1>4. CASE Authenticate(t)
  <2>1. PICK p : p = Package("login", DBUserLogin(req[t]), {})
    OBVIOUS
  <2>2. p \in Packages /\ SendPackage(req[t].cfd, p)
    BY <1>4, <2>1, PackagesSent DEF Authenticate
  <2>3. Asks(p, u) => req[t].cfd \in G
    <3>1. req[t].kind = "login" /\ at[t] # "idle" /\ u # -1
      BY <1>4, UsersAssumption DEF Authenticate, Typed, LocalTypes, ThreadTypes
    <3>2. QED
      BY <2>1, <3>1 DEF Asks, Package, DBUserLogin, OnlyAt, NotAt
  <2>4. \A o \in Range(out') : o \in Range(out) \/ (Asks(o.package, u) => o.cfd \in G)
    BY <2>2, <2>3, SentRange
  <2>5. at[t] # "idle" /\ UNCHANGED <<queue, m_OnlineUserMap, req>>
    BY <1>4 DEF Authenticate
  <2>6. QED
    BY <1>1, <2>4, <2>5 DEF OnlyAt, NotAt
<1>5. CASE ClientOpen(t)
  <2>1. at[t] = "open" /\ UNCHANGED <<queue, out, req>>
    BY <1>5 DEF ClientOpen
  <2>2. req[t].user = u => req[t].cfd \in G
    BY <2>1 DEF OnlyAt, NotAt, Asks, Typed, LocalTypes, ThreadTypes
  <2>3. m_OnlineUserMap'[u] \in G \cup {0}
    BY <1>5, <2>2 DEF ClientOpen, OnlyAt, NotAt, Typed, SharedTypes
  <2>4. QED
    BY <1>1, <2>1, <2>3
<1>6. ASSUME NEW f, NEW p \in Packages, p.kind \notin {"login", "list"}, SendPackage(f, p),
             at[t] # "idle", UNCHANGED <<queue, m_OnlineUserMap, req>>
      PROVE  OnlyAt(u, P, G)'
  <2>1. \A o \in Range(out') : o \in Range(out) \/ ~Asks(o.package, u)
    BY <1>6, SentRange DEF Asks
  <2>2. QED
    BY <1>1, <1>6, <2>1 DEF OnlyAt, NotAt
<1>7. CASE SendUserList(t)
  BY <1>6, <1>7, PackagesSent DEF SendUserList, Package
<1>8. CASE SendGroupList(t)
  BY <1>6, <1>8, PackagesSent DEF SendGroupList, Package
<1>9. CASE Relay(t)
  BY <1>6, <1>9, PackagesSent DEF Relay, Package
<1>10. CASE SendDataMsgList(t)
  <2>1. PICK p : p = Package("list", req[t].user, list[t])
    OBVIOUS
  <2>2. p \in Packages /\ SendPackage(req[t].cfd, p)
    BY <1>10, <2>1, PackagesSent DEF SendDataMsgList
  <2>3. Asks(p, u) => req[t].cfd \in G
    <3>1. req[t].kind = "list" /\ at[t] # "idle"
      BY <1>10 DEF SendDataMsgList, Typed, LocalTypes, ThreadTypes
    <3>2. QED
      BY <2>1, <3>1 DEF Asks, Package, OnlyAt, NotAt
  <2>4. \A o \in Range(out') : o \in Range(out) \/ (Asks(o.package, u) => o.cfd \in G)
    BY <2>2, <2>3, SentRange
  <2>5. at[t] # "idle" /\ UNCHANGED <<queue, m_OnlineUserMap, req>>
    BY <1>10 DEF SendDataMsgList
  <2>6. QED
    BY <1>1, <2>4, <2>5 DEF OnlyAt, NotAt
<1>11. QED
  BY <1>2, <1>3, <1>4, <1>5, <1>7, <1>8, <1>9, <1>10 DEF Handler

LEMMA OnlyAtStep ==
    ASSUME Typed, NEW u \in Users, NEW P, NEW G, OnlyAt(u, P, G), NoLoginOf(u),
           \A d \in Clients \cap P : cfd[d] \in G,
           \A d \in Clients : sock[d] = "open" /\ cfd[d] \in G => d \in P,
           [Next]_vars
    PROVE  OnlyAt(u, P, G)'
<1>1. CASE UNCHANGED vars
  BY <1>1 DEF vars, clientVars, localVars, OnlyAt, NotAt
<1>2. QED
  BY <1>1, OnlyAtClientStep, OnlyAtWrite, OnlyAtHandler DEF Next

-----------------------------------------------------------------------------
(* A user's login is under way once: as a request, with a thread, or as a  *)
(* reply                                                                   *)

LoginRequests(u) == {r \in GoodRequests : r.kind = "login" /\ r.user = u /\ r.right}
LoginReplies(u) == {o \in WriteTasks : o.package.kind = "login" /\ o.package.user = u}

LoginAsked(u) == \E r \in Range(queue) : r \in LoginRequests(u)
LoginThread(t, u) == at[t] \in {"pop", "authenticate"} /\ req[t] \in LoginRequests(u)
LoginReplied(u) == \E o \in Range(out) : o \in LoginReplies(u)

ReplyComing(u) ==
    LoginAsked(u) \/ (\E t \in Threads : LoginThread(t, u)) \/ LoginReplied(u)

\* Of the set S there is one element in the sequence, at one place.
Once(q, S) == \A i, j \in DOMAIN q : q[i] \in S /\ q[j] \in S => i = j
None(q, S) == \A e \in Range(q) : e \notin S

OneReply(u) ==
    /\ Once(queue, LoginRequests(u))
    /\ Once(out, LoginReplies(u))
    /\ \A s, t \in Threads : LoginThread(s, u) /\ LoginThread(t, u) => s = t
    /\ LoginAsked(u) => ~LoginReplied(u) /\ \A t \in Threads : ~LoginThread(t, u)
    /\ \A t \in Threads : LoginThread(t, u) => ~LoginReplied(u)

LEMMA OnceAppended ==
    ASSUME NEW S, NEW T, NEW q \in Seq(T), NEW e \in T, Once(q, S),
           e \in S => None(q, S)
    PROVE  Once(Append(q, e), S)
<1>1. /\ Append(q, e) \in Seq(T) /\ Len(q) \in Nat /\ Len(Append(q, e)) = Len(q) + 1
      /\ \A i \in 1..Len(q) : Append(q, e)[i] = q[i]
      /\ Append(q, e)[Len(q) + 1] = e /\ DOMAIN q = 1..Len(q)
  BY AppendProperties
<1>2. DOMAIN Append(q, e) = 1..(Len(q) + 1)
  BY <1>1, LenProperties
<1>3. \A i \in DOMAIN Append(q, e) :
          (i \in DOMAIN q /\ Append(q, e)[i] = q[i]) \/ (i = Len(q) + 1 /\ Append(q, e)[i] = e)
  BY <1>1, <1>2
<1>4. \A i \in DOMAIN q : q[i] \in Range(q)
  BY DEF Range
<1>5. QED
  BY <1>3, <1>4 DEF Once, None

LEMMA OnceTail ==
    ASSUME NEW S, NEW T, NEW q \in Seq(T), q # <<>>, Once(q, S)
    PROVE  Once(Tail(q), S) /\ (Head(q) \in S => None(Tail(q), S))
<1>1. /\ Len(q) \in Nat \ {0} /\ DOMAIN q = 1..Len(q) /\ Head(q) = q[1]
      /\ DOMAIN Tail(q) = 1..(Len(q) - 1)
      /\ \A i \in 1..(Len(q) - 1) : Tail(q)[i] = q[i + 1]
  OBVIOUS
<1>2. \A i \in DOMAIN Tail(q) :
          /\ i \in Nat /\ i + 1 \in DOMAIN q /\ i + 1 # 1 /\ Tail(q)[i] = q[i + 1]
  BY <1>1
<1>3. Once(Tail(q), S)
  <2>1. SUFFICES ASSUME NEW i \in DOMAIN Tail(q), NEW j \in DOMAIN Tail(q),
                        Tail(q)[i] \in S, Tail(q)[j] \in S
                 PROVE  i = j
    BY DEF Once
  <2>2. i + 1 = j + 1
    BY <1>2, <2>1 DEF Once
  <2>3. QED
    BY <1>2, <2>2
<1>4. ASSUME Head(q) \in S, NEW i \in DOMAIN Tail(q) PROVE Tail(q)[i] \notin S
  BY <1>1, <1>2, <1>4 DEF Once
<1>5. QED
  BY <1>3, <1>4 DEF None, Range

LEMMA OnceRemoved ==
    ASSUME NEW S, NEW T, NEW q \in Seq(T), NEW k \in DOMAIN q, Once(q, S)
    PROVE  Once(RemoveAt(q, k), S) /\ (q[k] \in S => None(RemoveAt(q, k), S))
<1> DEFINE r == RemoveAt(q, k)
           from(i) == IF i < k THEN i ELSE i + 1
<1>1. /\ Len(q) \in Nat \ {0} /\ DOMAIN q = 1..Len(q)
      /\ DOMAIN r = 1..(Len(q) - 1)
      /\ \A i \in 1..(Len(q) - 1) : r[i] = q[from(i)]
  BY RemoveFacts
<1>2. \A i \in DOMAIN r : i \in Nat /\ from(i) \in DOMAIN q /\ from(i) # k /\ r[i] = q[from(i)]
  BY <1>1
<1> HIDE DEF r
<1>3. Once(r, S)
  <2>1. SUFFICES ASSUME NEW i \in DOMAIN r, NEW j \in DOMAIN r, r[i] \in S, r[j] \in S
                 PROVE  i = j
    BY DEF Once
  <2>2. from(i) = from(j)
    BY <1>2, <2>1 DEF Once
  <2>3. i \in Nat /\ j \in Nat /\ k \in Nat
    BY <1>1, <1>2
  <2>4. QED
    BY <2>2, <2>3
<1>4. ASSUME q[k] \in S, NEW i \in DOMAIN r PROVE r[i] \notin S
  BY <1>1, <1>2, <1>4 DEF Once
<1>5. QED
  BY <1>3, <1>4 DEF None, Range, r

\* Nothing of the login of a user who is on no connection.
LEMMA NowhereNoReply ==
    ASSUME NEW u \in Users, OnlyAt(u, {}, {}) PROVE ~ReplyComing(u)
<1>1. \A r \in Range(queue) : r \notin LoginRequests(u)
  BY DEF OnlyAt, LoginRequests, Asks
<1>2. \A t \in Threads : ~LoginThread(t, u)
  BY DEF OnlyAt, LoginRequests, Asks, LoginThread
<1>3. \A o \in Range(out) : o \notin LoginReplies(u)
  BY DEF OnlyAt, LoginReplies, Asks
<1>4. QED
  BY <1>1, <1>2, <1>3 DEF ReplyComing, LoginAsked, LoginReplied

\* A request that asks for no login of u leaves what is under way as it is.
LEMMA OneReplyAdd ==
    ASSUME Typed, NEW u \in Users, OneReply(u), NEW r \in GoodRequests, AddData(r),
           UNCHANGED <<out, localVars>>, r \in LoginRequests(u) => ~ReplyComing(u)
    PROVE  /\ OneReply(u)'
           /\ r \notin LoginRequests(u) /\ ReplyComing(u)' => ReplyComing(u)
<1>1. /\ queue' = Append(queue, r) /\ queue \in Seq(GoodRequests)
      /\ Range(queue') = Range(queue) \cup {r}
  BY QueueRange DEF AddData, Typed, SharedTypes
<1>2. UNCHANGED <<out, at, req>>
  BY DEF localVars
<1>3. r \in LoginRequests(u) => None(queue, LoginRequests(u))
  BY DEF ReplyComing, LoginAsked, None
<1>4. Once(queue', LoginRequests(u))
  BY <1>1, <1>3, OnceAppended DEF OneReply
<1>5. \A t \in Threads : LoginThread(t, u)' <=> LoginThread(t, u)
  BY <1>2 DEF LoginThread, LoginRequests, GoodRequests
<1>6. LoginReplied(u)' <=> LoginReplied(u)
  BY <1>2 DEF LoginReplied, LoginReplies, WriteTasks
<1>7. LoginAsked(u)' => LoginAsked(u) \/ r \in LoginRequests(u)
  BY <1>1 DEF LoginAsked, LoginRequests
<1>8. Once(out', LoginReplies(u))
  BY <1>2 DEF OneReply
<1>9. OneReply(u)'
  BY <1>4, <1>5, <1>6, <1>7, <1>8 DEF OneReply, ReplyComing, LoginReplies, LoginRequests
<1>10. QED
  BY <1>5, <1>6, <1>7, <1>9 DEF ReplyComing

LEMMA OneReplyClientStep ==
    ASSUME Typed, NEW u \in Users, OneReply(u), ~NoLoginOf(u) => ~ReplyComing(u),
           NEW c \in Clients, ClientStep(c)
    PROVE  /\ OneReply(u)'
           /\ NoLoginOf(u) /\ ReplyComing(u)' => ReplyComing(u)
<1>0. cfd[c] \in Cfds \cup {0} /\ m_SelfUserId[c] \in Users \cup {0}
  BY DEF Typed, ConnTypes, ClientTypes
<1>1. CASE Connect(c) \/ Leave(c) \/ ClientSocketState(c)
  <2>1. UNCHANGED <<queue, out, at, req>>
    BY <1>1 DEF Connect, Leave, ClientSocketState, localVars
  <2>2. QED
    BY <2>1 DEF OneReply, ReplyComing, LoginAsked, LoginThread, LoginReplied,
                LoginRequests, LoginReplies, Once
<1>2. CASE SendGetDataMsgList(c)
  <2>1. PICK r : r = GetDataMsgList(cfd[c], Head(wants[c]))
    OBVIOUS
  <2>2. r \in GoodRequests /\ r \notin LoginRequests(u)
    BY <1>2, <2>1, ArrivedTyped DEF GetDataMsgList, NoRequest, LoginRequests
  <2>3. QED
    BY <1>2, <2>1, <2>2, OneReplyAdd DEF SendGetDataMsgList
<1>3. ASSUME NEW v \in Users, NEW right \in BOOLEAN, SendLogin(c, v, right)
      PROVE  /\ OneReply(u)'
             /\ NoLoginOf(u) /\ ReplyComing(u)' => ReplyComing(u)
  <2>1. PICK r : r = Login(cfd[c], v, right)
    OBVIOUS
  <2>2. r \in GoodRequests /\ (r \in LoginRequests(u) => v = u)
    BY <1>0, <2>1, RequestsMade DEF Login, NoRequest, LoginRequests
  <2>3. v = u => ~NoLoginOf(u)
    BY <1>3 DEF SendLogin, NoLoginOf
  <2>4. QED
    BY <1>3, <2>1, <2>2, <2>3, OneReplyAdd DEF SendLogin
<1>4. ASSUME NEW a \in Addressed, SendDataMsg(c, a)
      PROVE  /\ OneReply(u)'
             /\ NoLoginOf(u) /\ ReplyComing(u)' => ReplyComing(u)
  <2>1. PICK r : r = DataMsg(cfd[c], m_SelfUserId[c], a)
    OBVIOUS
  <2>2. r \in GoodRequests /\ r \notin LoginRequests(u)
    BY <1>0, <2>1, RequestsMade DEF DataMsg, NoRequest, LoginRequests
  <2>3. QED
    BY <1>4, <2>1, <2>2, OneReplyAdd DEF SendDataMsg
<1>5. QED
  BY <1>1, <1>2, <1>3, <1>4 DEF ClientStep

LEMMA OneReplyWrite ==
    ASSUME Typed, NEW u \in Users, OneReply(u), NEW i, WritePackage(i)
    PROVE  /\ OneReply(u)'
           /\ ReplyComing(u)' => ReplyComing(u)
           /\ out[i] \in LoginReplies(u) => ReplyComing(u) /\ ~ReplyComing(u)'
<1>1. /\ UNCHANGED <<queue, at, req>> /\ i \in DOMAIN out /\ out' = RemoveAt(out, i)
      /\ out \in Seq(WriteTasks)
  BY DEF WritePackage, localVars, Typed, SharedTypes
<1>2. Range(out) = Range(out') \cup {out[i]}
  BY WrittenRange
<1>3. Once(out', LoginReplies(u)) /\ (out[i] \in LoginReplies(u) => None(out', LoginReplies(u)))
  BY <1>1, OnceRemoved DEF OneReply
<1>4. /\ \A t \in Threads : LoginThread(t, u)' <=> LoginThread(t, u)
      /\ LoginAsked(u)' <=> LoginAsked(u)
      /\ LoginReplied(u)' => LoginReplied(u)
  BY <1>1, <1>2 DEF LoginThread, LoginAsked, LoginReplied, LoginRequests, LoginReplies
<1>5. OneReply(u)'
  <2>1. Once(queue', LoginRequests(u))
    BY <1>1 DEF OneReply
  <2>2. QED
    BY <1>3, <1>4, <2>1 DEF OneReply, LoginRequests, LoginReplies
<1>6. out[i] \in LoginReplies(u) => ReplyComing(u) /\ ~ReplyComing(u)'
  <2>1. SUFFICES ASSUME out[i] \in LoginReplies(u) PROVE ReplyComing(u) /\ ~ReplyComing(u)'
    OBVIOUS
  <2>2. LoginReplied(u)
    BY <1>2, <2>1 DEF LoginReplied
  <2>3. ~LoginReplied(u)'
    BY <1>3, <2>1 DEF LoginReplied, None, LoginReplies
  <2>4. ~LoginAsked(u) /\ \A t \in Threads : ~LoginThread(t, u)
    BY <2>2 DEF OneReply
  <2>5. QED
    BY <1>4, <2>2, <2>3, <2>4 DEF ReplyComing
<1>7. QED
  BY <1>4, <1>5, <1>6 DEF ReplyComing

LEMMA OneReplyHandler ==
    ASSUME Typed, NEW u \in Users, OneReply(u), NEW t \in Threads, Handler(t)
    PROVE  /\ OneReply(u)'
           /\ ReplyComing(u)' => ReplyComing(u)
<1>0. /\ Alone(t) /\ at \in [Threads -> Places] /\ req \in [Threads -> Requests]
      /\ out \in Seq(WriteTasks) /\ queue \in Seq(GoodRequests)
  BY HandlerAlone DEF Typed, LocalTypes, SharedTypes
<1>1. \A s \in Threads \ {t} : LoginThread(s, u)' <=> LoginThread(s, u)
  BY <1>0 DEF Alone, LoginThread, LoginRequests
<1>2. CASE ThreadWork(t)
  <2>1. /\ Range(queue) = Range(queue') \cup {Head(queue)}
        /\ req'[t] = Head(queue) /\ at'[t] = "pop" /\ at[t] = "idle"
        /\ UNCHANGED out /\ queue' = Tail(queue) /\ queue # <<>>
    BY <1>2, TakenRange DEF ThreadWork
  <2>2. Once(queue', LoginRequests(u))
        /\ (Head(queue) \in LoginRequests(u) => None(queue', LoginRequests(u)))
    BY <1>0, <2>1, OnceTail DEF OneReply
  <2>3. LoginThread(t, u)' <=> Head(queue) \in LoginRequests(u)
    BY <2>1 DEF LoginThread, LoginRequests
  <2>4. LoginAsked(u) <=> LoginAsked(u)' \/ LoginThread(t, u)'
    BY <2>1, <2>3 DEF LoginAsked, LoginRequests
  <2>5. LoginThread(t, u)' => ~LoginAsked(u)'
    BY <2>2, <2>3 DEF LoginAsked, None, LoginRequests
  <2>6. /\ LoginReplied(u)' <=> LoginReplied(u)
        /\ Once(out', LoginReplies(u))
        /\ ~LoginThread(t, u)
    BY <2>1 DEF LoginReplied, OneReply, LoginThread, LoginReplies
  <2>7. OneReply(u)'
    <3>1. \A r, s \in Threads : LoginThread(r, u)' /\ LoginThread(s, u)' => r = s
      BY <1>1, <2>4 DEF OneReply
    <3>2. LoginAsked(u)' => ~LoginReplied(u)' /\ \A s \in Threads : ~LoginThread(s, u)'
      BY <1>1, <2>4, <2>5, <2>6 DEF OneReply
    <3>3. \A s \in Threads : LoginThread(s, u)' => ~LoginReplied(u)'
      BY <1>1, <2>4, <2>6 DEF OneReply
    <3>4. QED
      BY <2>2, <2>6, <3>1, <3>2, <3>3 DEF OneReply, LoginRequests, LoginReplies
  <2>8. QED
    BY <1>1, <2>4, <2>6, <2>7 DEF ReplyComing
\* Every other step keeps the queue, and its thread's login is over or was before.
<1>3. ASSUME UNCHANGED queue, LoginThread(t, u)' => LoginThread(t, u),
             Once(out', LoginReplies(u)),
             \/ LoginReplied(u)' => LoginReplied(u)
             \/ LoginThread(t, u) /\ ~LoginThread(t, u)'
      PROVE  /\ OneReply(u)'
             /\ ReplyComing(u)' => ReplyComing(u)
  <2>1. LoginAsked(u)' <=> LoginAsked(u)
    BY <1>3 DEF LoginAsked, LoginRequests
  <2>2. \A s \in Threads : LoginThread(s, u)' => LoginThread(s, u)
    BY <1>1, <1>3
  <2>3. Once(queue', LoginRequests(u))
    BY <1>3 DEF OneReply
  <2>4. CASE LoginReplied(u)' => LoginReplied(u)
    BY <1>3, <2>1, <2>2, <2>3, <2>4 DEF OneReply, ReplyComing, LoginRequests, LoginReplies
  <2>5. CASE LoginThread(t, u) /\ ~LoginThread(t, u)'
    <3>1. \A s \in Threads : ~LoginThread(s, u)'
      BY <2>2, <2>5 DEF OneReply
    <3>2. ~LoginAsked(u)'
      BY <2>1, <2>5 DEF OneReply
    <3>3. QED
      BY <1>3, <2>3, <2>5, <3>1, <3>2 DEF OneReply, ReplyComing, LoginRequests, LoginReplies
  <2>6. QED
    BY <1>3, <2>4, <2>5
<1>4. CASE Authenticate(t)
  <2>1. PICK p : p = Package("login", DBUserLogin(req[t]), {})
    OBVIOUS
  <2>2. p \in Packages /\ SendPackage(req[t].cfd, p)
    BY <1>4, <2>1, PackagesSent DEF Authenticate
  <2>3. /\ at[t] = "authenticate" /\ req[t] \in GoodRequests /\ req[t].kind = "login"
        /\ at'[t] \in {"open", "push"} /\ UNCHANGED <<queue, req>> /\ u # -1
    BY <1>0, <1>4, UsersAssumption DEF Authenticate, Goto, Typed, LocalTypes, ThreadTypes
  <2>4. ~LoginThread(t, u)'
    BY <2>3 DEF LoginThread
  <2>5. PICK o : o = [cfd |-> req[t].cfd, package |-> p]
    OBVIOUS
  <2>6. CASE out' = out
    <3>1. LoginReplied(u)' <=> LoginReplied(u)
      BY <2>6 DEF LoginReplied, LoginReplies
    <3>2. Once(out', LoginReplies(u))
      BY <2>6 DEF OneReply
    <3>3. QED
      BY <1>3, <2>3, <2>4, <3>1, <3>2
  <2>7. CASE out' = Append(out, o) /\ Owner(req[t].cfd) # {}
    <3>1. req[t].cfd \in Cfds
      BY <2>7 DEF Owner, Typed, ConnTypes
    <3>2. o \in WriteTasks
      BY <2>2, <2>5, <3>1 DEF WriteTasks
    <3>3. Range(out') = Range(out) \cup {o}
      BY <1>0, <2>7, AppendRange
    <3>4. o \in LoginReplies(u) => LoginThread(t, u)
      BY <2>1, <2>3, <2>5 DEF LoginReplies, Package, DBUserLogin, LoginThread, LoginRequests
    <3>5. LoginReplied(u)' => LoginReplied(u) \/ o \in LoginReplies(u)
      BY <3>3 DEF LoginReplied, LoginReplies
    <3>6. o \in LoginReplies(u) => None(out, LoginReplies(u))
      BY <3>4 DEF OneReply, None, LoginReplied
    <3>7. Once(out', LoginReplies(u))
      BY <1>0, <2>7, <3>2, <3>6, OnceAppended DEF OneReply
    <3>8. QED
      BY <1>3, <2>3, <2>4, <3>4, <3>5, <3>7
  <2>8. QED
    BY <2>2, <2>5, <2>6, <2>7, SendTyped
<1>5. ASSUME NEW f, NEW p \in Packages, p.kind # "login", SendPackage(f, p),
             at'[t] \notin {"pop", "authenticate"}, UNCHANGED queue
      PROVE  /\ OneReply(u)'
             /\ ReplyComing(u)' => ReplyComing(u)
  <2>1. PICK o : o = [cfd |-> f, package |-> p]
    OBVIOUS
  <2>2. o \notin LoginReplies(u)
    BY <1>5, <2>1 DEF LoginReplies
  <2>3. ~LoginThread(t, u)'
    BY <1>5 DEF LoginThread
  <2>4. LoginReplied(u)' => LoginReplied(u)
    BY <1>5, <2>1, <2>2, SentRange DEF LoginReplied, LoginReplies
  <2>5. Once(out', LoginReplies(u))
    <3>1. CASE out' = out
      BY <3>1 DEF OneReply
    <3>2. CASE out' = Append(out, o) /\ Owner(f) # {}
      <4>1. f \in Cfds
        BY <3>2 DEF Owner, Typed, ConnTypes
      <4>2. o \in WriteTasks
        BY <1>5, <2>1, <4>1 DEF WriteTasks
      <4>3. QED
        BY <1>0, <2>2, <3>2, <4>2, OnceAppended DEF OneReply
    <3>3. QED
      BY <1>5, <2>1, <3>1, <3>2, SendTyped
  <2>6. QED
    BY <1>3, <1>5, <2>3, <2>4, <2>5
<1>6. CASE SendUserList(t)
  BY <1>0, <1>5, <1>6, PackagesSent DEF SendUserList, Package, Goto
<1>7. CASE SendGroupList(t)
  BY <1>0, <1>5, <1>7, PackagesSent DEF SendGroupList, Package, Goto
<1>8. CASE Relay(t)
  BY <1>0, <1>5, <1>8, PackagesSent DEF Relay, Package, Goto
<1>9. CASE SendDataMsgList(t)
  BY <1>0, <1>5, <1>9, PackagesSent DEF SendDataMsgList, Package, Goto
<1>10. CASE Pop(t) \/ Push(t) \/ ClientOpen(t) \/ Select(t) \/ Save(t) \/ Lookup(t) \/ AllRelayed(t)
  <2>1. UNCHANGED <<queue, out>>
    BY <1>10 DEF Pop, Push, ClientOpen, Select, Save, Lookup, AllRelayed
  <2>2. LoginThread(t, u)' => LoginThread(t, u)
    <3>1. CASE Pop(t)
      BY <1>0, <3>1 DEF Pop, LoginThread, LoginRequests
    <3>2. CASE ~Pop(t)
      BY <1>0, <1>10, <3>2 DEF Push, ClientOpen, Select, Save, Lookup, AllRelayed, Goto, LoginThread
    <3>3. QED
      BY <3>1, <3>2
  <2>3. LoginReplied(u)' <=> LoginReplied(u)
    BY <2>1 DEF LoginReplied, LoginReplies
  <2>4. Once(out', LoginReplies(u))
    BY <2>1 DEF OneReply
  <2>5. QED
    BY <1>3, <2>1, <2>2, <2>3, <2>4
<1>11. QED
  BY <1>2, <1>4, <1>6, <1>7, <1>8, <1>9, <1>10 DEF Handler

LEMMA OneReplyStep ==
    ASSUME Typed, NEW u \in Users, OneReply(u), ~NoLoginOf(u) => ~ReplyComing(u), [Next]_vars
    PROVE  /\ OneReply(u)'
           /\ NoLoginOf(u) /\ ReplyComing(u)' => ReplyComing(u)
<1>1. CASE UNCHANGED vars
  <2>1. UNCHANGED <<queue, out, at, req>>
    BY <1>1 DEF vars, localVars
  <2>2. QED
    BY <2>1 DEF OneReply, ReplyComing, LoginAsked, LoginThread, LoginReplied,
                LoginRequests, LoginReplies, Once
<1>2. QED
  BY <1>1, OneReplyClientStep, OneReplyWrite, OneReplyHandler DEF Next

-----------------------------------------------------------------------------
(* The entry in m_OnlineUserMap is made before the login reply is read, and *)
(* no list is asked for before that                                        *)

OpenThread(t, u) == at[t] = "open" /\ req[t].user = u
Opened(u) == m_OnlineUserMap[u] # 0 \/ \E t \in Threads : OpenThread(t, u)

AskedList(r, u) == r.kind = "list" /\ r.user = u
NoListYet(c, u) ==
    /\ u \notin listed[c] /\ u \notin Range(wants[c])
    /\ \A r \in Range(queue) : ~AskedList(r, u)
    /\ \A t \in Threads : at[t] # "idle" => ~AskedList(req[t], u)
    /\ \A o \in Range(out) : ~AskedList(o.package, u)

\* User u is on connection c and nowhere else.
There(c, u) == sock[c] = "open" /\ OnlyAt(u, {c}, {cfd[c]})

\* What a client knows changes when it reads, and not otherwise.
LEMMA Unread ==
    ASSUME [Next]_vars, \A i \in 1..SocketThreads : ~WritePackage(i)
    PROVE  UNCHANGED <<m_SelfUserId, has, listed>>
<1>1. CASE UNCHANGED vars
  BY <1>1 DEF vars, clientVars
<1>2. ASSUME NEW c \in Clients, ClientStep(c) PROVE UNCHANGED <<m_SelfUserId, has, listed>>
  BY <1>2 DEF ClientStep, Connect, Leave, ClientSocketState, SendGetDataMsgList, SendLogin,
              SendDataMsg, clientVars
<1>3. ASSUME NEW t \in Threads, Handler(t) PROVE UNCHANGED <<m_SelfUserId, has, listed>>
  BY <1>3 DEF Handler, ThreadWork, Pop, Push, Authenticate, ClientOpen, SendUserList,
     SendGroupList, Select, SendDataMsgList, Save, Lookup, Relay, AllRelayed, clientVars
<1>4. QED
  BY <1>1, <1>2, <1>3 DEF Next

\* A client learns who it is from the reply to a login.
LEMMA LearnsSelf ==
    ASSUME Typed, NEW c \in Clients, NEW u \in Users, m_SelfUserId[c] # u,
           m_SelfUserId'[c] = u, [Next]_vars
    PROVE  \E i \in 1..SocketThreads :
              WritePackage(i) /\ out[i] \in LoginReplies(u) /\ Read(c, out[i].package)
<1>1. PICK i \in 1..SocketThreads : WritePackage(i)
  BY Unread
<1>2. out[i] \in WriteTasks
  BY <1>1, WrittenRange
<1>3. ~UNCHANGED clientVars
  BY DEF clientVars
<1>4. PICK d \in Clients : Read(d, out[i].package)
  BY <1>1, <1>3, WrittenTo
<1>5. d = c /\ out[i].package.kind = "login" /\ out[i].package.user = u
  BY <1>4 DEF Read, Typed, ClientTypes
<1>6. QED
  BY <1>1, <1>2, <1>4, <1>5 DEF LoginReplies

LEMMA OpenedStep ==
    ASSUME Typed, NEW c \in Clients, NEW u \in Users, There(c, u), Opened(u), [Next]_vars
    PROVE  Opened(u)'
<1>1. m_OnlineUserMap[u] \in {cfd[c], 0} /\ cfd[c] # 0
  BY OwnerIs DEF There, OnlyAt
<1>2. CASE UNCHANGED vars
  BY <1>2 DEF vars, localVars, Opened, OpenThread
<1>3. ASSUME NEW i, WritePackage(i) PROVE Opened(u)'
  BY <1>3 DEF WritePackage, localVars, Opened, OpenThread
<1>4. ASSUME NEW d \in Clients, ClientStep(d) PROVE Opened(u)'
  <2>1. UNCHANGED <<at, req>>
    BY <1>4 DEF ClientStep, Connect, Leave, ClientSocketState, SendGetDataMsgList,
                SendLogin, SendDataMsg, localVars
  <2>2. CASE ClientSocketState(d)
    <3>1. m_OnlineUserMap[u] # 0 => m_OnlineUserMap[u] # cfd[d]
      BY <1>1, <2>2 DEF ClientSocketState, There, Typed, ConnTypes
    <3>2. m_OnlineUserMap[u] # 0 => m_OnlineUserMap'[u] = m_OnlineUserMap[u]
      BY <2>2, <3>1 DEF ClientSocketState, UsersAt
    <3>3. QED
      BY <2>1, <3>2 DEF Opened, OpenThread
  <2>3. CASE ~ClientSocketState(d)
    <3>1. UNCHANGED m_OnlineUserMap
      BY <1>4, <2>3 DEF ClientStep, Connect, Leave, SendGetDataMsgList, SendLogin, SendDataMsg
    <3>2. QED
      BY <2>1, <3>1 DEF Opened, OpenThread
  <2>4. QED
    BY <2>2, <2>3
<1>5. ASSUME NEW t \in Threads, Handler(t) PROVE Opened(u)'
  <2>1. CASE ClientOpen(t)
    <3>1. \A s \in Threads \ {t} : OpenThread(s, u)' <=> OpenThread(s, u)
      BY <1>5, HandlerAlone DEF Alone, OpenThread
    <3>2. OpenThread(t, u) => req[t].cfd = cfd[c]
      BY DEF OpenThread, There, OnlyAt, Asks, Typed, LocalTypes, ThreadTypes
    <3>3. m_OnlineUserMap'[u] =
             IF req[t].user = u /\ m_OnlineUserMap[u] = 0 THEN req[t].cfd ELSE m_OnlineUserMap[u]
      BY <2>1 DEF ClientOpen, Typed, SharedTypes
    <3>4. at[t] = "open"
      BY <2>1 DEF ClientOpen
    <3>5. QED
      BY <1>1, <3>1, <3>2, <3>3, <3>4 DEF Opened, OpenThread
  <2>2. CASE ~ClientOpen(t)
    <3>1. UNCHANGED m_OnlineUserMap /\ at[t] # "open"
      BY <1>5, <2>2 DEF Handler, ThreadWork, Pop, Push, Authenticate, SendUserList,
         SendGroupList, Select, SendDataMsgList, Save, Lookup, Relay, AllRelayed
    <3>2. \A s \in Threads : OpenThread(s, u) => OpenThread(s, u)'
      BY <1>5, <3>1, HandlerAlone DEF Alone, OpenThread
    <3>3. QED
      BY <3>1, <3>2 DEF Opened
  <2>3. QED
    BY <2>1, <2>2
<1>6. QED
  BY <1>2, <1>3, <1>4, <1>5 DEF Next

\* The thread that sends the reply goes on to ClientOpen.
LEMMA RepliedStep ==
    ASSUME Typed, NEW u \in Users, LoginReplied(u)', ~LoginReplied(u), [Next]_vars
    PROVE  Opened(u)'
<1>1. PICK o \in Range(out') : o \in LoginReplies(u) /\ o \notin Range(out)
  BY DEF LoginReplied, LoginReplies
<1>2. ~UNCHANGED out
  BY <1>1
<1>3. \A i : ~WritePackage(i)
  BY <1>1, WrittenRange
<1>4. \A c : ~ClientStep(c)
  BY <1>2 DEF ClientStep, Connect, Leave, ClientSocketState, SendGetDataMsgList,
              SendLogin, SendDataMsg
<1>5. PICK t \in Threads : Handler(t)
  BY <1>2, <1>3, <1>4 DEF Next, vars
<1>6. ASSUME NEW f, NEW p \in Packages, SendPackage(f, p)
      PROVE  p.kind = "login" /\ p.user = u
  BY <1>1, <1>6, SentRange DEF LoginReplies
<1>7. ~SendUserList(t)
  BY <1>6, PackagesSent DEF SendUserList, Package
<1>8. ~SendGroupList(t)
  BY <1>6, PackagesSent DEF SendGroupList, Package
<1>9. ~SendDataMsgList(t)
  BY <1>6, PackagesSent DEF SendDataMsgList, Package
<1>10. ~Relay(t)
  BY <1>6, PackagesSent DEF Relay, Package
<1>11. Authenticate(t)
  BY <1>2, <1>5, <1>7, <1>8, <1>9, <1>10
     DEF Handler, ThreadWork, Pop, Push, ClientOpen, Select, Save, Lookup, AllRelayed
<1>12. DBUserLogin(req[t]) = u
  BY <1>6, <1>11, PackagesSent DEF Authenticate, Package
<1>13. req[t].right /\ req[t].user = u
  BY <1>12, UsersAssumption DEF DBUserLogin
<1>14. OpenThread(t, u)'
  BY <1>11, <1>13 DEF Authenticate, Goto, OpenThread, Typed, LocalTypes
<1>15. QED
  BY <1>14 DEF Opened

\* The client that is told it is u may ask for u's list, and nobody else.
LEMMA NoListYetStep ==
    ASSUME Typed, NEW c \in Clients, NEW u \in Users, There(c, u), NoListYet(c, u), [Next]_vars
    PROVE  NoListYet(c, u)' \/ (m_SelfUserId[c] = u /\ u \in Range(wants'[c]))
<1>1. CASE UNCHANGED vars
  BY <1>1 DEF vars, clientVars, localVars, NoListYet
<1>2. ASSUME NEW d \in Clients, ClientStep(d) PROVE NoListYet(c, u)'
  <2>0. cfd[d] \in Cfds \cup {0} /\ m_SelfUserId[d] \in Users \cup {0}
    BY DEF Typed, ConnTypes, ClientTypes
  <2>1. CASE Connect(d) \/ Leave(d) \/ ClientSocketState(d)
    BY <2>1 DEF Connect, Leave, ClientSocketState, clientVars, localVars, NoListYet
  <2>2. ASSUME NEW r \in GoodRequests, AddData(r), ~AskedList(r, u),
               UNCHANGED <<listed, out, localVars>>,
               Range(wants'[c]) \subseteq Range(wants[c])
        PROVE  NoListYet(c, u)'
    BY <2>2, QueueRange DEF NoListYet, localVars
  <2>3. CASE SendGetDataMsgList(d)
    <3>1. PICK r : r = GetDataMsgList(cfd[d], Head(wants[d]))
      OBVIOUS
    <3>2. r \in GoodRequests /\ r.user = Head(wants[d])
      BY <2>3, <3>1, ArrivedTyped DEF GetDataMsgList, NoRequest
    <3>3. Head(wants[d]) \in Range(wants[d]) /\ Range(wants'[c]) \subseteq Range(wants[c])
      BY <2>3, ArrivedTyped
    <3>4. u \notin Range(wants[d])
      BY DEF There, OnlyAt, NotAt, NoListYet
    <3>5. QED
      BY <2>2, <2>3, <3>1, <3>2, <3>3, <3>4 DEF SendGetDataMsgList, AskedList
  <2>4. ASSUME NEW v \in Users, NEW right \in BOOLEAN, SendLogin(d, v, right)
        PROVE  NoListYet(c, u)'
    <3>1. PICK r : r = Login(cfd[d], v, right)
      OBVIOUS
    <3>2. r \in GoodRequests /\ r.kind = "login"
      BY <2>0, <3>1, RequestsMade DEF Login, NoRequest
    <3>3. QED
      BY <2>2, <2>4, <3>1, <3>2 DEF SendLogin, AskedList
  <2>5. ASSUME NEW a \in Addressed, SendDataMsg(d, a)
        PROVE  NoListYet(c, u)'
    <3>1. PICK r : r = DataMsg(cfd[d], m_SelfUserId[d], a)
      OBVIOUS
    <3>2. r \in GoodRequests /\ r.kind = "msg"
      BY <2>0, <3>1, RequestsMade DEF DataMsg, NoRequest
    <3>3. QED
      BY <2>2, <2>5, <3>1, <3>2 DEF SendDataMsg, AskedList
  <2>6. QED
    BY <1>2, <2>1, <2>3, <2>4, <2>5 DEF ClientStep
<1>3. ASSUME NEW i, WritePackage(i)
      PROVE  NoListYet(c, u)' \/ (m_SelfUserId[c] = u /\ u \in Range(wants'[c]))
  <2>1. /\ UNCHANGED <<queue, localVars>> /\ Range(out') \subseteq Range(out)
        /\ ~AskedList(out[i].package, u)
    BY <1>3, WrittenRange DEF WritePackage, NoListYet
  <2>2. u \notin listed'[c]
    <3>1. ASSUME NEW d \in Clients, NEW q, Read(d, q), ~AskedList(q, u)
          PROVE  u \notin listed'[c]
      <4>1. u \notin listed[c] /\ ~(q.kind = "list" /\ q.user = u)
        BY <3>1 DEF AskedList, NoListYet
      <4>2. listed'[c] = IF c = d /\ q.kind = "list" THEN listed[c] \cup {q.user} ELSE listed[c]
        BY <3>1, ReadGives
      <4>3. QED
        BY <4>1, <4>2
    <3>2. QED
      BY <1>3, <2>1, <3>1, WrittenTo DEF clientVars, NoListYet
  <2>3. u \notin Range(wants'[c]) \/ m_SelfUserId[c] = u
    <3>1. ASSUME NEW d \in Clients, NEW q, Read(d, q)
          PROVE  u \notin Range(wants'[c]) \/ m_SelfUserId[c] = u
      BY <3>1, AskedTyped DEF NoListYet
    <3>2. QED
      BY <1>3, <3>1, WrittenTo DEF clientVars, NoListYet
  <2>4. QED
    BY <2>1, <2>2, <2>3 DEF NoListYet, localVars
<1>4. ASSUME NEW t \in Threads, Handler(t) PROVE NoListYet(c, u)'
  <2>0. /\ Alone(t) /\ at \in [Threads -> Places] /\ req \in [Threads -> Requests]
        /\ UNCHANGED <<listed, wants>>
    <3>1. UNCHANGED clientVars
      BY <1>4 DEF Handler, ThreadWork, Pop, Push, Authenticate, ClientOpen, SendUserList,
             SendGroupList, Select, SendDataMsgList, Save, Lookup, Relay, AllRelayed
    <3>2. QED
      BY <1>4, <3>1, HandlerAlone DEF Typed, LocalTypes, clientVars
  <2>1. ASSUME \A r \in Range(queue') : r \in Range(queue),
               at'[t] # "idle" => ~AskedList(req'[t], u),
               \A o \in Range(out') : o \in Range(out) \/ ~AskedList(o.package, u)
        PROVE  NoListYet(c, u)'
    BY <2>0, <2>1 DEF Alone, NoListYet
  <2>2. CASE ThreadWork(t)
    <3>1. Head(queue) \in Range(queue) /\ Range(queue') \subseteq Range(queue)
          /\ req'[t] = Head(queue) /\ UNCHANGED out
      BY <2>2, TakenRange DEF ThreadWork
    <3>2. QED
      BY <2>1, <3>1 DEF NoListYet
  <2>3. CASE ~ThreadWork(t)
    <3>1. UNCHANGED queue /\ at[t] # "idle" /\ (at'[t] # "idle" => req'[t] = req[t])
      BY <1>4, <2>0, <2>3 DEF Handler, Pop, Push, Authenticate, ClientOpen, SendUserList,
         SendGroupList, Select, SendDataMsgList, Save, Lookup, Relay, AllRelayed, Goto
    <3>2. at'[t] # "idle" => ~AskedList(req'[t], u)
      BY <3>1 DEF NoListYet
    <3>3. \A f, p : p \in Packages /\ ~AskedList(p, u) /\ SendPackage(f, p) =>
             \A o \in Range(out') : o \in Range(out) \/ ~AskedList(o.package, u)
      BY SentRange
    <3>4. \A o \in Range(out') : o \in Range(out) \/ ~AskedList(o.package, u)
      <4>1. CASE Authenticate(t)
        BY <3>3, <4>1, PackagesSent DEF Authenticate, Package, AskedList
      <4>2. CASE SendUserList(t)
        BY <3>3, <4>2, PackagesSent DEF SendUserList, Package, AskedList
      <4>3. CASE SendGroupList(t)
        BY <3>3, <4>3, PackagesSent DEF SendGroupList, Package, AskedList
      <4>4. CASE Relay(t)
        BY <3>3, <4>4, PackagesSent DEF Relay, Package, AskedList
      <4>5. CASE SendDataMsgList(t)
        <5>1. req[t].kind = "list" /\ at[t] # "idle"
          BY <4>5 DEF SendDataMsgList, Typed, LocalTypes, ThreadTypes
        <5>2. req[t].user # u
          BY <5>1 DEF NoListYet, AskedList
        <5>3. QED
          BY <3>3, <4>5, <5>2, PackagesSent DEF SendDataMsgList, Package, AskedList
      <4>6. CASE Pop(t) \/ Push(t) \/ ClientOpen(t) \/ Select(t) \/ Save(t) \/ Lookup(t)
                 \/ AllRelayed(t)
        BY <4>6 DEF Pop, Push, ClientOpen, Select, Save, Lookup, AllRelayed
      <4>7. QED
        BY <1>4, <2>3, <4>1, <4>2, <4>3, <4>4, <4>5, <4>6 DEF Handler
    <3>5. QED
      BY <2>1, <3>1, <3>2, <3>4
  <2>4. QED
    BY <2>2, <2>3
<1>5. QED
  BY <1>1, <1>2, <1>3, <1>4 DEF Next

-----------------------------------------------------------------------------
(* A row is on its way to the user's client, or the list that has it is    *)

IsFor(m, u) == u \in Receivers(m.receiver) \ {m.sender}

Written(m, c) == \E o \in Range(out) : o.cfd = cfd[c] /\ m \in o.package.msgs
Relays(t, m, c, u) ==
    /\ at[t] \in {"push", "lookup", "relay"} /\ req[t].kind = "msg" /\ msg[t] = m
    /\ \/ u \in to[t]
       \/ at[t] = "relay" /\ relay[t] = [user |-> u, cfd |-> cfd[c]]
Answers(t, m, c) == at[t] = "answer" /\ req[t].cfd = cfd[c] /\ m \in list[t]

OnItsWay(m, c, u) ==
    \/ m \in has[c]
    \/ Written(m, c)
    \/ \E t \in Threads : Relays(t, m, c, u)
    \/ \E t \in Threads : Answers(t, m, c)

AllOnTheWay(c, u) == \A m \in Range(table) : IsFor(m, u) => OnItsWay(m, c, u)

Welcomes(t, u) == at[t] \in {"users", "groups"} /\ req[t].user = u
GroupsWritten(c) == \E o \in Range(out) : o.package.kind = "groups" /\ o.cfd = cfd[c]
Selects(t, u) == at[t] \in {"pop", "select"} /\ AskedList(req[t], u)

\* The list is still to be put together, or to be asked for.
ListComing(c, u) ==
    \/ m_OnlineUserMap[u] = 0
    \/ \E t \in Threads : Welcomes(t, u)
    \/ GroupsWritten(c)
    \/ u \in Range(wants[c])
    \/ NoListYet(c, u)
    \/ \E r \in Range(queue) : AskedList(r, u)
    \/ \E t \in Threads : Selects(t, u)

\* A list of no more than Limit rows has all of them.
LEMMA AllRows ==
    ASSUME Typed, NEW u \in Users, Len(table) <= Limit
    PROVE  FirstRows(u) = Rows(u)
<1>1. SUFFICES ASSUME NEW i \in Rows(u)
               PROVE  Cardinality({j \in Rows(u) : j < i}) < Limit
  BY DEF FirstRows
<1>2. Len(table) \in Nat /\ DOMAIN table = 1..Len(table)
  BY DEF Typed, SharedTypes
<1>3. i \in 1..Len(table) /\ {j \in Rows(u) : j < i} \in SUBSET (1..(i - 1))
  BY <1>2 DEF Rows
<1>4. IsFiniteSet(1..(i - 1)) /\ Cardinality(1..(i - 1)) = i - 1
  <2>1. 1 \in Int /\ i - 1 \in Int /\ ~(1 > i)
    BY <1>2, <1>3
  <2>2. IsFiniteSet(1..(i - 1))
        /\ Cardinality(1..(i - 1)) = IF 1 > i - 1 THEN 0 ELSE (i - 1) - 1 + 1
    BY <2>1, FS_Interval
  <2>3. QED
    BY <1>2, <1>3, <2>2
<1>5. Cardinality({j \in Rows(u) : j < i}) <= i - 1
      /\ Cardinality({j \in Rows(u) : j < i}) \in Nat
  BY <1>3, <1>4, FS_Subset, FS_CardinalityType
<1>6. QED
  BY <1>2, <1>3, <1>5, SizesAssumption

\* The threads only add write tasks.
LEMMA OutKept ==
    ASSUME Typed, NEW t \in Threads, Handler(t) PROVE Range(out) \subseteq Range(out')
<1>1. \A f, p : p \in Packages /\ SendPackage(f, p) => Range(out) \subseteq Range(out')
  BY SentRange
<1>2. CASE Authenticate(t)
  BY <1>1, <1>2, PackagesSent DEF Authenticate
<1>3. CASE SendUserList(t)
  BY <1>1, <1>3, PackagesSent DEF SendUserList
<1>4. CASE SendGroupList(t)
  BY <1>1, <1>4, PackagesSent DEF SendGroupList
<1>5. CASE SendDataMsgList(t)
  BY <1>1, <1>5, PackagesSent DEF SendDataMsgList
<1>6. CASE Relay(t)
  BY <1>1, <1>6, PackagesSent DEF Relay
<1>7. CASE ThreadWork(t) \/ Pop(t) \/ Push(t) \/ ClientOpen(t) \/ Select(t) \/ Save(t)
           \/ Lookup(t) \/ AllRelayed(t)
  BY <1>7 DEF ThreadWork, Pop, Push, ClientOpen, Select, Save, Lookup, AllRelayed
<1>8. QED
  BY <1>2, <1>3, <1>4, <1>5, <1>6, <1>7 DEF Handler

\* A descriptor stays with its connection.
LEMMA CfdKept ==
    ASSUME Typed, NEW c \in Clients, sock[c] = "open", [Next]_vars PROVE cfd'[c] = cfd[c]
<1>1. ASSUME NEW d \in Clients, ClientStep(d) PROVE cfd'[c] = cfd[c]
  BY <1>1 DEF ClientStep, Connect, Leave, ClientSocketState, SendGetDataMsgList, SendLogin,
              SendDataMsg, sockVars, Typed, ConnTypes
<1>2. ASSUME NEW i, WritePackage(i) PROVE cfd'[c] = cfd[c]
  BY <1>2 DEF WritePackage, sockVars
<1>3. ASSUME NEW t \in Threads, Handler(t) PROVE cfd'[c] = cfd[c]
  BY <1>3 DEF Handler, ThreadWork, Pop, Push, Authenticate, ClientOpen, SendUserList,
     SendGroupList, Select, SendDataMsgList, Save, Lookup, Relay, AllRelayed, sockVars
<1>4. QED
  BY <1>1, <1>2, <1>3 DEF Next, vars, sockVars

\* A task of the connection is read by it, or stays.
LEMMA WriteReads ==
    ASSUME Typed, NEW c \in Clients, sock[c] = "open", NEW i, WritePackage(i),
           NEW o \in Range(out), o.cfd = cfd[c]
    PROVE  o \in Range(out') \/ (o = out[i] /\ Read(c, o.package))
<1>1. o \in Range(out') \/ o = out[i]
  BY WrittenRange
<1>2. ASSUME o = out[i] PROVE Read(c, o.package)
  <2>1. Owner(cfd[c]) = {c}
    BY OwnerIs
  <2>2. QED
    BY <1>2, <2>1 DEF WritePackage
<1>3. QED
  BY <1>1, <1>2

LEMMA RelayStep ==
    ASSUME Typed, NEW c \in Clients, NEW u \in Users, There(c, u), NEW m, IsFor(m, u),
           m_OnlineUserMap[u] # 0, NEW t \in Threads, Relays(t, m, c, u), Handler(t),
           cfd'[c] = cfd[c]
    PROVE  Relays(t, m, c, u)' \/ Written(m, c)'
<1>0. /\ at \in [Threads -> Places] /\ req \in [Threads -> Requests]
      /\ to \in [Threads -> SUBSET Users] /\ msg \in [Threads -> Msgs]
      /\ relay \in [Threads -> [user : Users \cup {0}, cfd : Cfds \cup {0}]]
  BY DEF Typed, LocalTypes
<1>1. CASE Push(t)
  BY <1>0, <1>1 DEF Push, Goto, Relays
<1>2. CASE Lookup(t)
  <2>1. PICK v \in to[t] :
          /\ to' = [to EXCEPT ![t] = @ \ {v}]
          /\ IF v = req[t].user \/ m_OnlineUserMap[v] = 0
             THEN UNCHANGED <<at, relay>>
             ELSE /\ relay' = [relay EXCEPT ![t] = [user |-> v, cfd |-> m_OnlineUserMap[v]]]
                  /\ at' = [at EXCEPT ![t] = "relay"]
    BY <1>2 DEF Lookup, Goto
  <2>2. at[t] = "lookup" /\ u \in to[t] /\ UNCHANGED <<req, msg>>
    BY <1>2 DEF Lookup, Relays
  <2>3. CASE v # u
    <3>1. u \in to'[t]
      BY <1>0, <2>1, <2>2, <2>3
    <3>2. at'[t] \in {"lookup", "relay"}
      BY <1>0, <2>1, <2>2
    <3>3. QED
      BY <2>2, <3>1, <3>2 DEF Relays
  <2>4. CASE v = u
    <3>1. m.sender = req[t].user
      BY <2>2 DEF Relays, Typed, LocalTypes, ThreadTypes
    <3>2. u # req[t].user
      BY <3>1 DEF IsFor
    <3>3. m_OnlineUserMap[u] = cfd[c]
      BY DEF There, OnlyAt
    <3>4. at'[t] = "relay" /\ relay'[t] = [user |-> u, cfd |-> cfd[c]]
      BY <1>0, <2>1, <2>4, <3>2, <3>3
    <3>5. QED
      BY <2>2, <3>4 DEF Relays
  <2>5. QED
    BY <2>3, <2>4
<1>3. CASE Relay(t)
  <2>1. CASE u \in to[t]
    BY <1>0, <1>3, <2>1 DEF Relay, Goto, Relays
  <2>2. CASE relay[t] = [user |-> u, cfd |-> cfd[c]]
    <3>1. PICK p : p = Package("msg", 0, {msg[t]})
      OBVIOUS
    <3>2. p \in Packages /\ SendPackage(cfd[c], p)
      BY <1>3, <2>2, <3>1, PackagesSent DEF Relay
    <3>3. Owner(cfd[c]) # {}
      BY OwnerIs DEF There
    <3>4. [cfd |-> cfd[c], package |-> p] \in Range(out')
      BY <3>2, <3>3, SentRange
    <3>5. m \in p.msgs
      BY <3>1 DEF Relays, Package
    <3>6. QED
      BY <3>4, <3>5 DEF Written
  <2>3. QED
    BY <2>1, <2>2 DEF Relays
<1>4. CASE AllRelayed(t)
  BY <1>4 DEF AllRelayed, Relays
<1>5. QED
  BY <1>1, <1>2, <1>3, <1>4 DEF Relays, Handler, ThreadWork, Pop, Authenticate, ClientOpen,
     SendUserList, SendGroupList, Select, SendDataMsgList, Save

LEMMA AnswerStep ==
    ASSUME Typed, NEW c \in Clients, sock[c] = "open", NEW m,
           NEW t \in Threads, Answers(t, m, c), Handler(t), cfd'[c] = cfd[c]
    PROVE  Written(m, c)'
<1>1. SendDataMsgList(t)
  BY DEF Answers, Handler, ThreadWork, Pop, Push, Authenticate, ClientOpen,
     SendUserList, SendGroupList, Select, Save, Lookup, Relay, AllRelayed
<1>2. PICK p : p = Package("list", req[t].user, list[t])
  OBVIOUS
<1>3. p \in Packages /\ SendPackage(cfd[c], p)
  BY <1>1, <1>2, PackagesSent DEF SendDataMsgList, Answers
<1>4. Owner(cfd[c]) # {}
  BY OwnerIs
<1>5. [cfd |-> cfd[c], package |-> p] \in Range(out')
  BY <1>3, <1>4, SentRange
<1>6. m \in p.msgs
  BY <1>2 DEF Answers, Package
<1>7. QED
  BY <1>5, <1>6 DEF Written

LEMMA OnItsWayStep ==
    ASSUME Typed, NEW c \in Clients, NEW u \in Users, There(c, u), NEW m, IsFor(m, u),
           m_OnlineUserMap[u] # 0, OnItsWay(m, c, u), [Next]_vars
    PROVE  OnItsWay(m, c, u)'
<1>0. sock[c] = "open" /\ cfd'[c] = cfd[c]
  BY CfdKept DEF There
<1>1. ASSUME UNCHANGED <<has, out, localVars>> PROVE OnItsWay(m, c, u)'
  BY <1>0, <1>1 DEF OnItsWay, Written, Relays, Answers, localVars
<1>2. CASE UNCHANGED vars
  BY <1>1, <1>2 DEF vars, clientVars
<1>3. ASSUME NEW d \in Clients, ClientStep(d) PROVE OnItsWay(m, c, u)'
  BY <1>1, <1>3 DEF ClientStep, Connect, Leave, ClientSocketState, SendGetDataMsgList,
                    SendLogin, SendDataMsg, clientVars
<1>4. ASSUME NEW i, WritePackage(i) PROVE OnItsWay(m, c, u)'
  <2>1. \A t \in Threads : /\ Relays(t, m, c, u)' <=> Relays(t, m, c, u)
                           /\ Answers(t, m, c)' <=> Answers(t, m, c)
    BY <1>0, <1>4 DEF WritePackage, localVars, Relays, Answers
  <2>2. has[c] \subseteq has'[c]
    BY <1>4, WrittenTo, ReadGives DEF clientVars
  <2>3. ASSUME NEW o \in Range(out), o.cfd = cfd[c], m \in o.package.msgs
        PROVE  m \in has'[c] \/ Written(m, c)'
    <3>1. CASE o \in Range(out')
      BY <1>0, <2>3, <3>1 DEF Written
    <3>2. CASE Read(c, o.package)
      BY <2>3, <3>2 DEF Read, Typed, ClientTypes
    <3>3. QED
      BY <1>0, <1>4, <2>3, <3>1, <3>2, WriteReads
  <2>4. QED
    BY <2>1, <2>2, <2>3 DEF OnItsWay, Written
<1>5. ASSUME NEW t \in Threads, Handler(t) PROVE OnItsWay(m, c, u)'
  <2>1. UNCHANGED has
    BY <1>5 DEF Handler, ThreadWork, Pop, Push, Authenticate, ClientOpen, SendUserList,
       SendGroupList, Select, SendDataMsgList, Save, Lookup, Relay, AllRelayed, clientVars
  <2>2. Written(m, c) => Written(m, c)'
    BY <1>0, <1>5, OutKept DEF Written
  <2>3. \A s \in Threads \ {t} : /\ Relays(s, m, c, u)' <=> Relays(s, m, c, u)
                                 /\ Answers(s, m, c)' <=> Answers(s, m, c)
    BY <1>0, <1>5, HandlerAlone DEF Alone, Relays, Answers
  <2>4. Relays(t, m, c, u) => Relays(t, m, c, u)' \/ Written(m, c)'
    BY <1>0, <1>5, RelayStep
  <2>5. Answers(t, m, c) => Written(m, c)'
    BY <1>0, <1>5, AnswerStep
  <2>6. QED
    BY <2>1, <2>2, <2>3, <2>4, <2>5 DEF OnItsWay
<1>6. QED
  BY <1>2, <1>3, <1>4, <1>5 DEF Next

\* A row that is new is with the thread that has saved it.
LEMMA NewRow ==
    ASSUME Typed, NEW c \in Clients, NEW u \in Users, NEW m \in Range(table'),
           m \notin Range(table), IsFor(m, u), [Next]_vars
    PROVE  OnItsWay(m, c, u)'
<1>1. ~UNCHANGED table
  OBVIOUS
<1>2. PICK t \in Threads : Save(t)
  BY <1>1 DEF Next, vars, ClientStep, Connect, Leave, ClientSocketState, SendGetDataMsgList,
     SendLogin, SendDataMsg, WritePackage, Handler, ThreadWork, Pop, Push, Authenticate,
     ClientOpen, SendUserList, SendGroupList, Select, SendDataMsgList, Lookup, Relay, AllRelayed
<1>3. PICK id \in {Len(table) + 1, 0} :
         /\ msg' = [msg EXCEPT ![t] =
               [id |-> id, sender |-> req[t].user, receiver |-> req[t].receiver]]
         /\ \/ table' = table
            \/ table' = Append(table,
                  [id |-> id, sender |-> req[t].user, receiver |-> req[t].receiver])
  BY <1>2, SavedRow
<1>4. PICK row : row = [id |-> id, sender |-> req[t].user, receiver |-> req[t].receiver]
  OBVIOUS
<1>5. Range(table') = Range(table) \cup {row}
  <2>1. table' = Append(table, row)
    BY <1>1, <1>3, <1>4
  <2>2. QED
    BY <2>1, AppendRange DEF Typed, SharedTypes
<1>6. m = row
  BY <1>5
<1>7. msg'[t] = m /\ u \in to'[t] /\ at'[t] = "push" /\ req'[t].kind = "msg"
  <2>1. msg'[t] = m
    BY <1>3, <1>4, <1>6 DEF Typed, LocalTypes
  <2>2. m.receiver = req[t].receiver
    BY <1>4, <1>6
  <2>3. u \in to'[t]
    BY <1>2, <2>2 DEF Save, IsFor, Typed, LocalTypes
  <2>4. at'[t] = "push" /\ req'[t].kind = "msg"
    BY <1>2 DEF Save, Goto, Typed, LocalTypes, ThreadTypes
  <2>5. QED
    BY <2>1, <2>3, <2>4
<1>8. Relays(t, m, c, u)'
  BY <1>7 DEF Relays
<1>9. QED
  BY <1>8 DEF OnItsWay

LEMMA LocalsKeptOutside ==
    ASSUME [Next]_vars, \A t \in Threads : ~Handler(t)
    PROVE  UNCHANGED <<at, req, msg, list, to, relay>>
<1>1. ASSUME NEW c, ClientStep(c) PROVE UNCHANGED localVars
  BY <1>1 DEF ClientStep, Connect, Leave, ClientSocketState, SendGetDataMsgList, SendLogin,
              SendDataMsg
<1>2. ASSUME NEW i, WritePackage(i) PROVE UNCHANGED localVars
  BY <1>2 DEF WritePackage
<1>3. QED
  BY <1>1, <1>2 DEF Next, vars, localVars

LEMMA EntryComing ==
    ASSUME Typed, NEW u \in Users, m_OnlineUserMap[u] = 0, [Next]_vars
    PROVE  m_OnlineUserMap'[u] = 0 \/ \E t \in Threads : Welcomes(t, u)'
<1>1. CASE \E c \in Clients : ClientSocketState(c)
  BY <1>1 DEF ClientSocketState
<1>2. ASSUME NEW t \in Threads, ClientOpen(t)
      PROVE  m_OnlineUserMap'[u] = 0 \/ Welcomes(t, u)'
  <2>1. req[t].user # u => m_OnlineUserMap'[u] = 0
    BY <1>2 DEF ClientOpen, Typed, SharedTypes
  <2>2. at'[t] = "users" /\ req'[t] = req[t]
    BY <1>2 DEF ClientOpen, Goto, Typed, LocalTypes
  <2>3. QED
    BY <2>1, <2>2 DEF Welcomes
<1>3. CASE UNCHANGED m_OnlineUserMap
  BY <1>3
<1>4. QED
  BY <1>1, <1>2, <1>3 DEF Next, vars, ClientStep, Connect, Leave, SendGetDataMsgList,
     SendLogin, SendDataMsg, WritePackage, Handler, ThreadWork, Pop, Push, Authenticate,
     SendUserList, SendGroupList, Select, SendDataMsgList, Save, Lookup, Relay, AllRelayed

LEMMA WelcomeStep ==
    ASSUME Typed, NEW c \in Clients, NEW u \in Users, There(c, u), cfd'[c] = cfd[c],
           NEW t \in Threads, Welcomes(t, u), [Next]_vars
    PROVE  Welcomes(t, u)' \/ GroupsWritten(c)'
<1>1. CASE \A s \in Threads : ~Handler(s)
  BY <1>1, LocalsKeptOutside DEF Welcomes
<1>2. ASSUME NEW s \in Threads \ {t}, Handler(s) PROVE Welcomes(t, u)'
  BY <1>2, HandlerAlone DEF Alone, Welcomes
<1>3. ASSUME Handler(t) PROVE Welcomes(t, u)' \/ GroupsWritten(c)'
  <2>1. CASE SendUserList(t)
    BY <2>1 DEF SendUserList, Goto, Welcomes, Typed, LocalTypes
  <2>2. CASE SendGroupList(t)
    <3>1. req[t].cfd = cfd[c]
      BY DEF Welcomes, There, OnlyAt, Asks, Typed, LocalTypes, ThreadTypes
    <3>2. PICK p : p = Package("groups", 0, {})
      OBVIOUS
    <3>3. p \in Packages /\ SendPackage(cfd[c], p)
      BY <2>2, <3>1, <3>2, PackagesSent DEF SendGroupList
    <3>4. Owner(cfd[c]) # {}
      BY OwnerIs DEF There
    <3>5. [cfd |-> cfd[c], package |-> p] \in Range(out') /\ p.kind = "groups"
      BY <3>2, <3>3, <3>4, SentRange DEF Package
    <3>6. QED
      BY <3>5 DEF GroupsWritten
  <2>3. QED
    BY <1>3, <2>1, <2>2 DEF Welcomes, Handler, ThreadWork, Pop, Push, Authenticate,
       ClientOpen, Select, SendDataMsgList, Save, Lookup, Relay, AllRelayed
<1>4. QED
  BY <1>1, <1>2, <1>3

LEMMA GroupsStep ==
    ASSUME Typed, NEW c \in Clients, sock[c] = "open", cfd'[c] = cfd[c],
           m_SelfUserId[c] # 0, GroupsWritten(c), [Next]_vars
    PROVE  GroupsWritten(c)' \/ m_SelfUserId[c] \in Range(wants'[c])
<1>1. PICK o \in Range(out) : o.package.kind = "groups" /\ o.cfd = cfd[c]
  BY DEF GroupsWritten
<1>2. ASSUME NEW i, WritePackage(i)
      PROVE  o \in Range(out') \/ m_SelfUserId[c] \in Range(wants'[c])
  <2>1. ASSUME Read(c, o.package) PROVE m_SelfUserId[c] \in Range(wants'[c])
    BY <1>1, <2>1, AskedTyped
  <2>2. QED
    BY <1>1, <1>2, <2>1, WriteReads
<1>3. ASSUME NEW t \in Threads, Handler(t) PROVE o \in Range(out')
  BY <1>3, OutKept
<1>4. ASSUME NEW d, ClientStep(d) PROVE UNCHANGED out
  BY <1>4 DEF ClientStep, Connect, Leave, ClientSocketState, SendGetDataMsgList, SendLogin,
              SendDataMsg
<1>5. QED
  BY <1>1, <1>2, <1>3, <1>4 DEF Next, vars, GroupsWritten

\* The oldest request arrives as the client has made it.
LEMMA AskStep ==
    ASSUME Typed, NEW c \in Clients, SendGetDataMsgList(c)
    PROVE  \E r \in Range(queue') : AskedList(r, Head(wants[c]))
<1>1. PICK r : r = GetDataMsgList(cfd[c], Head(wants[c]))
  OBVIOUS
<1>2. r \in GoodRequests /\ AddData(r)
  BY <1>1, ArrivedTyped DEF SendGetDataMsgList
<1>3. AskedList(r, Head(wants[c]))
  BY <1>1 DEF GetDataMsgList, NoRequest, AskedList
<1>4. QED
  BY <1>2, <1>3, QueueRange

LEMMA WantsStep ==
    ASSUME Typed, NEW c \in Clients, NEW u \in Users, u \in Range(wants[c]), [Next]_vars
    PROVE  u \in Range(wants'[c]) \/ \E r \in Range(queue') : AskedList(r, u)
<1>1. CASE SendGetDataMsgList(c)
  <2>1. u \in Range(wants'[c]) \/ u = Head(wants[c])
    BY <1>1, ArrivedTyped
  <2>2. QED
    BY <1>1, <2>1, AskStep
<1>2. ASSUME NEW d \in Clients, d # c, SendGetDataMsgList(d) PROVE u \in Range(wants'[c])
  BY <1>2, ArrivedTyped
<1>3. ASSUME NEW i, WritePackage(i) PROVE u \in Range(wants'[c])
  <2>1. ASSUME NEW d \in Clients, NEW p, Read(d, p) PROVE u \in Range(wants'[c])
    BY <2>1, AskedTyped
  <2>2. QED
    BY <1>3, <2>1, WrittenTo DEF clientVars
<1>4. CASE UNCHANGED wants
  BY <1>4
<1>5. QED
  BY <1>1, <1>2, <1>3, <1>4 DEF Next, vars, clientVars, ClientStep, Connect, Leave,
     ClientSocketState, SendLogin, SendDataMsg, Handler, ThreadWork, Pop, Push, Authenticate,
     ClientOpen, SendUserList, SendGroupList, Select, SendDataMsgList, Save, Lookup, Relay,
     AllRelayed

LEMMA QueuedStep ==
    ASSUME Typed, NEW u \in Users, NEW r \in Range(queue), AskedList(r, u), [Next]_vars
    PROVE  r \in Range(queue') \/ \E t \in Threads : Selects(t, u)'
<1>1. ASSUME NEW t \in Threads, ThreadWork(t) PROVE r \in Range(queue') \/ Selects(t, u)'
  BY <1>1, TakenRange DEF Selects
<1>2. ASSUME NEW q \in GoodRequests, AddData(q) PROVE r \in Range(queue')
  BY <1>2, QueueRange
<1>3. ASSUME NEW c \in Clients, ClientStep(c) PROVE r \in Range(queue')
  <2>0. cfd[c] \in Cfds \cup {0} /\ m_SelfUserId[c] \in Users \cup {0}
    BY DEF Typed, ConnTypes, ClientTypes
  <2>1. CASE SendGetDataMsgList(c)
    BY <1>2, <2>1, ArrivedTyped DEF SendGetDataMsgList
  <2>2. ASSUME NEW v \in Users, NEW right \in BOOLEAN, SendLogin(c, v, right)
        PROVE  r \in Range(queue')
    BY <1>2, <2>0, <2>2, RequestsMade DEF SendLogin
  <2>3. ASSUME NEW a \in Addressed, SendDataMsg(c, a) PROVE r \in Range(queue')
    BY <1>2, <2>0, <2>3, RequestsMade DEF SendDataMsg
  <2>4. QED
    BY <1>3, <2>1, <2>2, <2>3 DEF ClientStep, Connect, Leave, ClientSocketState
<1>4. QED
  BY <1>1, <1>3 DEF Next, vars, WritePackage, Handler, Pop, Push, Authenticate, ClientOpen,
     SendUserList, SendGroupList, Select, SendDataMsgList, Save, Lookup, Relay, AllRelayed

\* The query takes every row there is; what is saved later finds the entry in
\* m_OnlineUserMap, or the list is still coming.
LEMMA SelectStep ==
    ASSUME Typed, NEW c \in Clients, NEW u \in Users, There(c, u), cfd'[c] = cfd[c],
           Len(table) <= Limit, NEW t \in Threads, Selects(t, u), [Next]_vars
    PROVE  Selects(t, u)' \/ AllOnTheWay(c, u)'
<1>1. CASE \A s \in Threads : ~Handler(s)
  BY <1>1, LocalsKeptOutside DEF Selects
<1>2. ASSUME NEW s \in Threads \ {t}, Handler(s) PROVE Selects(t, u)'
  BY <1>2, HandlerAlone DEF Alone, Selects
<1>3. CASE Pop(t)
  <2>1. FirstPlace[req[t].kind] = "select"
    BY DEF Selects, AskedList, FirstPlace
  <2>2. at'[t] = "select" /\ req'[t] = req[t]
    BY <1>3, <2>1 DEF Pop, Goto, Typed, LocalTypes
  <2>3. QED
    BY <2>2 DEF Selects
<1>4. CASE Select(t)
  <2>1. req[t].cfd = cfd[c] /\ req[t].user = u
    BY DEF Selects, AskedList, There, OnlyAt, Asks
  <2>2. /\ list'[t] = {table[i] : i \in FirstRows(u)} /\ at'[t] = "answer"
        /\ req'[t] = req[t] /\ UNCHANGED table
    BY <1>4, <2>1 DEF Select, Goto, Typed, LocalTypes
  <2>3. ASSUME NEW m \in Range(table), IsFor(m, u) PROVE m \in list'[t]
    <3>1. PICK i \in DOMAIN table : table[i] = m
      BY DEF Range
    <3>2. i \in Rows(u)
      BY <2>3, <3>1 DEF IsFor, Rows
    <3>3. QED
      BY <2>2, <3>1, <3>2, AllRows
  <2>4. \A m \in Range(table') : IsFor(m, u) => Answers(t, m, c)'
    BY <2>1, <2>2, <2>3 DEF Answers
  <2>5. QED
    BY <2>4 DEF AllOnTheWay, OnItsWay
<1>5. ASSUME Handler(t) PROVE Pop(t) \/ Select(t)
  <2>1. at[t] \in {"pop", "select"}
    BY DEF Selects
  <2>2. QED
    BY <1>5, <2>1 DEF Handler, ThreadWork, Push, Authenticate, ClientOpen, SendUserList,
       SendGroupList, SendDataMsgList, Save, Lookup, Relay, AllRelayed
<1>6. QED
  BY <1>1, <1>2, <1>3, <1>4, <1>5

LEMMA ListComingStep ==
    ASSUME Typed, NEW c \in Clients, NEW u \in Users, There(c, u), m_SelfUserId[c] = u,
           Len(table) <= Limit, ListComing(c, u), [Next]_vars
    PROVE  ListComing(c, u)' \/ AllOnTheWay(c, u)'
<1>0. sock[c] = "open" /\ cfd'[c] = cfd[c] /\ m_SelfUserId[c] # 0
  BY CfdKept, UsersAssumption DEF There
<1>1. CASE m_OnlineUserMap[u] = 0
  BY <1>1, EntryComing DEF ListComing
<1>2. CASE \E t \in Threads : Welcomes(t, u)
  BY <1>0, <1>2, WelcomeStep DEF ListComing
<1>3. CASE GroupsWritten(c)
  BY <1>0, <1>3, GroupsStep DEF ListComing
<1>4. CASE u \in Range(wants[c])
  BY <1>4, WantsStep DEF ListComing
<1>5. CASE NoListYet(c, u)
  BY <1>5, NoListYetStep DEF ListComing
<1>6. CASE \E r \in Range(queue) : AskedList(r, u)
  BY <1>6, QueuedStep DEF ListComing, AskedList
<1>7. CASE \E t \in Threads : Selects(t, u)
  BY <1>0, <1>7, SelectStep DEF ListComing
<1>8. QED
  BY <1>1, <1>2, <1>3, <1>4, <1>5, <1>6, <1>7 DEF ListComing

-----------------------------------------------------------------------------
(* The invariant of a user on one connection *)

\* What holds of a client that is connected and has asked to log user u in.
Pair(c, u) ==
    /\ OnlyAt(u, {c}, {cfd[c]})
    /\ m_SelfUserId[c] = u \/ LoginReplied(u) => Opened(u)
    /\ ReplyComing(u) => m_SelfUserId[c] # u /\ NoListYet(c, u)
    /\ m_SelfUserId[c] = u /\ Len(table) <= Limit => ListComing(c, u) \/ AllOnTheWay(c, u)

NotLoggedIn(u) == \A c \in Clients : <<c, u>> \notin logins

OneConnection ==
    /\ \A u \in Users : OneReply(u)
    /\ \A u \in Users : NotLoggedIn(u) => OnlyAt(u, {}, {})
    /\ \A c \in Clients, u \in Users : sock[c] = "open" /\ <<c, u>> \in logins => Pair(c, u)
    /\ \A c, d \in Clients, u \in Users : <<c, u>> \in logins /\ <<d, u>> \in logins => c = d
    /\ \A c \in Clients, u \in Users : <<c, u>> \in logins => sock[c] # "new"

LEMMA InitOneConnection == Init => OneConnection
<1> SUFFICES ASSUME Init PROVE OneConnection
  OBVIOUS
<1>1. Range(queue) = {} /\ Range(out) = {}
  BY DEF Init, Range
<1>2. \A t \in Threads, u \in Users : ~LoginThread(t, u)
  BY DEF Init, LoginThread
<1>3. ASSUME NEW u \in Users PROVE OneReply(u)
  <2>1. Once(queue, LoginRequests(u)) /\ Once(out, LoginReplies(u))
    BY DEF Init, Once
  <2>2. QED
    BY <1>1, <1>2, <2>1 DEF OneReply, LoginAsked, LoginReplied
<1>4. ASSUME NEW u \in Users PROVE OnlyAt(u, {}, {})
  <2>1. u # 0
    BY UsersAssumption
  <2>2. QED
    BY <1>1, <2>1 DEF Init, OnlyAt, NotAt, Range
<1>5. logins = {}
  BY DEF Init
<1>6. QED
  BY <1>3, <1>4, <1>5 DEF OneConnection

\* The first request to log a user in is all that there is of the user.
LEMMA PairBegins ==
    ASSUME Typed, NEW c \in Clients, NEW u \in Users, NEW right \in BOOLEAN,
           OnlyAt(u, {}, {}), SendLogin(c, u, right)
    PROVE  Pair(c, u)'
<1>1. PICK r : r = Login(cfd[c], u, right)
  OBVIOUS
<1>2. r.kind = "login" /\ r.cfd = cfd[c]
  BY <1>1 DEF Login, NoRequest
<1>3. r \in GoodRequests /\ AddData(r)
  BY <1>1, RequestsMade DEF SendLogin, Typed, ConnTypes
<1>4. Range(queue') = Range(queue) \cup {r}
  BY <1>3, QueueRange
<1>5. UNCHANGED <<m_SelfUserId, listed, wants, cfd, out, m_OnlineUserMap, at, req>>
  BY DEF SendLogin, sockVars, localVars
<1>6. OnlyAt(u, {c}, {cfd[c]})'
  BY <1>2, <1>4, <1>5 DEF OnlyAt, NotAt
<1>7. NotAt(c, u)
  BY DEF OnlyAt
<1>8. ~LoginReplied(u)
  BY NowhereNoReply DEF ReplyComing
<1>9. ~LoginReplied(u)'
  BY <1>5, <1>8 DEF LoginReplied, LoginReplies
<1>10. NoListYet(c, u)'
  BY <1>2, <1>4, <1>5, <1>7 DEF NoListYet, NotAt, AskedList, OnlyAt, Asks
<1>11. m_SelfUserId'[c] # u
  BY <1>5, <1>7 DEF NotAt
<1>12. QED
  BY <1>6, <1>9, <1>10, <1>11 DEF Pair

LEMMA TableGrows ==
    ASSUME Typed, [Next]_vars
    PROVE  /\ Range(table) \subseteq Range(table') /\ Len(table) <= Len(table')
           /\ Len(table) \in Nat /\ Len(table') \in Nat
<1>1. table \in Seq(Msgs) /\ table' \in Seq(Msgs)
  BY NextTyped DEF Typed, SharedTypes
<1>2. CASE UNCHANGED table
  BY <1>1, <1>2
<1>3. ASSUME NEW t \in Threads, Save(t)
      PROVE  Range(table) \subseteq Range(table') /\ Len(table) <= Len(table')
  <2>1. \A m : Range(Append(table, m)) = Range(table) \cup {m}
               /\ Len(Append(table, m)) = Len(table) + 1
    BY <1>1, AppendRange
  <2>2. CASE table' = table
    BY <1>2, <2>2
  <2>3. ASSUME NEW m, table' = Append(table, m)
        PROVE  Range(table) \subseteq Range(table') /\ Len(table) <= Len(table')
    <3>1. Range(table') = Range(table) \cup {m}
      BY <2>1, <2>3
    <3>2. Len(table') = Len(table) + 1 /\ Len(table) \in Nat
      BY <1>1, <2>1, <2>3
    <3>3. QED
      BY <3>1, <3>2
  <2>4. QED
    BY <1>3, <2>2, <2>3, SavedRow
<1>4. UNCHANGED table \/ \E t \in Threads : Save(t)
  BY DEF Next, vars, ClientStep, Connect, Leave, ClientSocketState, SendGetDataMsgList,
     SendLogin, SendDataMsg, WritePackage, Handler, ThreadWork, Pop, Push, Authenticate,
     ClientOpen, SendUserList, SendGroupList, Select, SendDataMsgList, Lookup, Relay, AllRelayed
<1>5. QED
  BY <1>1, <1>2, <1>3, <1>4

LEMMA PairStep ==
    ASSUME Typed, NEW c \in Clients, NEW u \in Users, sock[c] = "open", Pair(c, u),
           OneReply(u), NoLoginOf(u), [Next]_vars
    PROVE  Pair(c, u)'
<1>0. There(c, u) /\ cfd'[c] = cfd[c]
  BY CfdKept DEF There, Pair
<1>1. OnlyAt(u, {c}, {cfd[c]})'
  <2>1. PICK f : f = cfd[c]
    OBVIOUS
  <2>2. \A d \in Clients : sock[d] = "open" /\ cfd[d] \in {f} => d \in {c}
    BY <2>1 DEF Typed, ConnTypes
  <2>3. \A d \in Clients \cap {c} : cfd[d] \in {f}
    BY <2>1
  <2>4. OnlyAt(u, {c}, {f})
    BY <2>1 DEF Pair
  <2>5. OnlyAt(u, {c}, {f})'
    BY <2>2, <2>3, <2>4, OnlyAtStep
  <2>6. QED
    BY <1>0, <2>1, <2>5 DEF OnlyAt, NotAt
<1>2. ReplyComing(u)' => ReplyComing(u)
  BY OneReplyStep
<1>3. m_SelfUserId[c] # u /\ m_SelfUserId'[c] = u => LoginReplied(u) /\ ~ReplyComing(u)'
  <2>1. SUFFICES ASSUME m_SelfUserId[c] # u, m_SelfUserId'[c] = u
                 PROVE  LoginReplied(u) /\ ~ReplyComing(u)'
    OBVIOUS
  <2>2. PICK i \in 1..SocketThreads :
           WritePackage(i) /\ out[i] \in LoginReplies(u) /\ Read(c, out[i].package)
    BY <2>1, LearnsSelf
  <2>3. LoginReplied(u)
    BY <2>2, WrittenRange DEF LoginReplied
  <2>4. QED
    BY <2>2, <2>3, OneReplyWrite
<1>4. m_SelfUserId'[c] = u \/ LoginReplied(u)' => Opened(u)'
  <2>1. CASE m_SelfUserId[c] = u \/ LoginReplied(u)
    BY <1>0, <2>1, OpenedStep DEF Pair
  <2>2. CASE ~(m_SelfUserId[c] = u \/ LoginReplied(u))
    <3>1. m_SelfUserId'[c] # u
      BY <1>3, <2>2
    <3>2. LoginReplied(u)' => Opened(u)'
      BY <2>2, RepliedStep
    <3>3. QED
      BY <3>1, <3>2
  <2>3. QED
    BY <2>1, <2>2
<1>5. ReplyComing(u)' => m_SelfUserId'[c] # u /\ NoListYet(c, u)'
  <2>1. SUFFICES ASSUME ReplyComing(u)' PROVE m_SelfUserId'[c] # u /\ NoListYet(c, u)'
    OBVIOUS
  <2>2. m_SelfUserId[c] # u /\ NoListYet(c, u)
    BY <1>2, <2>1 DEF Pair
  <2>3. NoListYet(c, u)'
    BY <1>0, <2>2, NoListYetStep
  <2>4. QED
    BY <1>3, <2>1, <2>2, <2>3
<1>6. m_SelfUserId'[c] = u /\ Len(table') <= Limit => ListComing(c, u)' \/ AllOnTheWay(c, u)'
  <2>1. SUFFICES ASSUME m_SelfUserId'[c] = u, Len(table') <= Limit
                 PROVE  ListComing(c, u)' \/ AllOnTheWay(c, u)'
    OBVIOUS
  <2>2. CASE m_SelfUserId[c] # u
    <3>1. ReplyComing(u)
      BY <1>3, <2>1, <2>2 DEF ReplyComing
    <3>2. NoListYet(c, u)'
      BY <1>0, <2>2, <3>1, NoListYetStep DEF Pair
    <3>3. QED
      BY <3>2 DEF ListComing
  <2>3. CASE m_SelfUserId[c] = u
    <3>1. Range(table) \subseteq Range(table') /\ Len(table) <= Len(table')
          /\ Len(table) \in Nat /\ Len(table') \in Nat
      BY TableGrows
    <3>2. Len(table) <= Limit
      BY <2>1, <3>1, SizesAssumption
    <3>3. CASE ListComing(c, u)
      BY <1>0, <2>3, <3>2, <3>3, ListComingStep
    <3>4. CASE ~ListComing(c, u)
      <4>1. AllOnTheWay(c, u) /\ m_OnlineUserMap[u] # 0
        BY <2>3, <3>2, <3>4 DEF Pair, ListComing
      <4>2. ASSUME NEW m \in Range(table'), IsFor(m, u) PROVE OnItsWay(m, c, u)'
        <5>1. CASE m \in Range(table)
          BY <1>0, <4>1, <4>2, <5>1, OnItsWayStep DEF AllOnTheWay
        <5>2. CASE m \notin Range(table)
          BY <4>2, <5>2, NewRow
        <5>3. QED
          BY <5>1, <5>2
      <4>3. QED
        BY <4>2 DEF AllOnTheWay, IsFor
    <3>5. QED
      BY <3>3, <3>4
  <2>4. QED
    BY <2>2, <2>3
<1>7. QED
  BY <1>1, <1>4, <1>5, <1>6 DEF Pair

\* When a user may log in on one connection only, a login is the user's first.
LEMMA LogsInOnce ==
    ASSUME ~Relogin, [Next]_vars, NEW c \in Clients, NEW u \in Users,
           <<c, u>> \in logins', <<c, u>> \notin logins
    PROVE  /\ NotLoggedIn(u) /\ logins' = logins \cup {<<c, u>>}
           /\ \E right \in BOOLEAN : SendLogin(c, u, right)
<1>1. ~UNCHANGED logins
  OBVIOUS
<1>2. PICK d \in Clients, v \in Users, right \in BOOLEAN : SendLogin(d, v, right)
  BY <1>1 DEF Next, vars, clientVars, ClientStep, Connect, Leave, ClientSocketState,
     SendGetDataMsgList, SendDataMsg, WritePackage, Read, Handler, ThreadWork, Pop, Push,
     Authenticate, ClientOpen, SendUserList, SendGroupList, Select, SendDataMsgList, Save,
     Lookup, Relay, AllRelayed
<1>3. logins' = logins \cup {<<d, v>>} /\ \A login \in logins : login[2] # v
  BY <1>2 DEF SendLogin
<1>4. d = c /\ v = u
  BY <1>3
<1>5. NotLoggedIn(u)
  <2>1. ASSUME NEW e \in Clients, <<e, u>> \in logins PROVE FALSE
    BY <1>3, <1>4, <2>1
  <2>2. QED
    BY <2>1 DEF NotLoggedIn
<1>6. QED
  BY <1>2, <1>3, <1>4, <1>5

LEMMA SockStep ==
    ASSUME Typed, [Next]_vars, NEW c \in Clients
    PROVE  /\ sock'[c] = "open" => sock[c] \in {"new", "open"}
           /\ sock'[c] = "new" => sock[c] = "new"
           /\ \A u \in Users : <<c, u>> \in logins => <<c, u>> \in logins'
<1>1. ASSUME NEW d \in Clients, ClientStep(d)
      PROVE  /\ sock'[c] = "open" => sock[c] \in {"new", "open"}
             /\ sock'[c] = "new" => sock[c] = "new"
             /\ logins \subseteq logins'
  BY <1>1 DEF ClientStep, Connect, Leave, ClientSocketState, SendGetDataMsgList, SendLogin,
              SendDataMsg, clientVars, sockVars, Typed, ConnTypes
<1>2. ASSUME NEW i, WritePackage(i) PROVE UNCHANGED <<sock, logins>>
  BY <1>2 DEF WritePackage, Read, clientVars, sockVars
<1>3. ASSUME NEW t, Handler(t) PROVE UNCHANGED <<sock, logins>>
  BY <1>3 DEF Handler, ThreadWork, Pop, Push, Authenticate, ClientOpen, SendUserList,
     SendGroupList, Select, SendDataMsgList, Save, Lookup, Relay, AllRelayed, clientVars, sockVars
<1>4. CASE UNCHANGED vars
  BY <1>4 DEF vars, clientVars, sockVars
<1>5. QED
  BY <1>1, <1>2, <1>3, <1>4 DEF Next

LEMMA OneConnectionStep ==
    ASSUME ~Relogin, Typed, OneConnection, [Next]_vars
    PROVE  OneConnection'
\* Who logs in has nothing under way.
<1>1. ASSUME NEW u \in Users, ~NoLoginOf(u) PROVE NotLoggedIn(u)
  BY <1>1, LogsInOnce DEF NoLoginOf
<1>2. ASSUME NEW u \in Users PROVE OneReply(u)'
  <2>1. OneReply(u)
    BY DEF OneConnection
  <2>2. ~NoLoginOf(u) => ~ReplyComing(u)
    BY <1>1, NowhereNoReply DEF OneConnection
  <2>3. QED
    BY <2>1, <2>2, OneReplyStep
<1>3. ASSUME NEW u \in Users, NotLoggedIn(u)' PROVE OnlyAt(u, {}, {})'
  <2>1. NoLoginOf(u) /\ NotLoggedIn(u)
    BY <1>3, SockStep DEF NoLoginOf, NotLoggedIn
  <2>2. OnlyAt(u, {}, {})
    BY <2>1 DEF OneConnection
  <2>3. QED
    BY <2>1, <2>2, OnlyAtStep
<1>4. ASSUME NEW c \in Clients, NEW u \in Users, sock'[c] = "open", <<c, u>> \in logins'
      PROVE  Pair(c, u)'
  <2>1. CASE <<c, u>> \in logins
    <3>1. sock[c] = "open"
      BY <1>4, <2>1, SockStep DEF OneConnection
    <3>2. NoLoginOf(u)
      BY <1>1, <2>1 DEF NotLoggedIn
    <3>3. Pair(c, u) /\ OneReply(u)
      BY <2>1, <3>1 DEF OneConnection
    <3>4. QED
      BY <3>1, <3>2, <3>3, PairStep
  <2>2. CASE <<c, u>> \notin logins
    <3>1. NotLoggedIn(u) /\ \E right \in BOOLEAN : SendLogin(c, u, right)
      BY <1>4, <2>2, LogsInOnce
    <3>2. OnlyAt(u, {}, {})
      BY <3>1 DEF OneConnection
    <3>3. QED
      BY <3>1, <3>2, PairBegins
  <2>3. QED
    BY <2>1, <2>2
<1>5. ASSUME NEW c \in Clients, NEW d \in Clients, NEW u \in Users,
             <<c, u>> \in logins', <<d, u>> \in logins'
      PROVE  c = d
  <2>1. CASE <<c, u>> \in logins /\ <<d, u>> \in logins
    BY <2>1 DEF OneConnection
  <2>2. CASE <<c, u>> \notin logins
    <3>1. NotLoggedIn(u) /\ logins' = logins \cup {<<c, u>>}
      BY <1>5, <2>2, LogsInOnce
    <3>2. QED
      BY <1>5, <3>1 DEF NotLoggedIn
  <2>3. CASE <<d, u>> \notin logins
    <3>1. NotLoggedIn(u) /\ logins' = logins \cup {<<d, u>>}
      BY <1>5, <2>3, LogsInOnce
    <3>2. QED
      BY <1>5, <3>1 DEF NotLoggedIn
  <2>4. QED
    BY <2>1, <2>2, <2>3
<1>6. ASSUME NEW c \in Clients, NEW u \in Users, <<c, u>> \in logins' PROVE sock'[c] # "new"
  <2>1. CASE <<c, u>> \in logins
    BY <2>1, SockStep DEF OneConnection
  <2>2. CASE <<c, u>> \notin logins
    <3>1. \E right \in BOOLEAN : SendLogin(c, u, right)
      BY <1>6, <2>2, LogsInOnce
    <3>2. QED
      BY <3>1 DEF SendLogin, sockVars
  <2>3. QED
    BY <2>1, <2>2
<1>7. QED
  BY <1>2, <1>3, <1>4, <1>5, <1>6 DEF OneConnection

LEMMA QuietNothingMissed == Typed /\ (~Relogin => OneConnection) => NoMessageMissed
<1> SUFFICES ASSUME Typed, OneConnection, Quiet, ~Relogin, Len(table) <= Limit,
                    NEW c \in Clients, sock[c] = "open", m_SelfUserId[c] \in listed[c],
                    <<c, m_SelfUserId[c]>> \in logins,
                    NEW i \in DOMAIN table,
                    m_SelfUserId[c] \in Receivers(table[i].receiver) \ {table[i].sender}
             PROVE  table[i] \in has[c]
  BY DEF NoMessageMissed
<1>1. PICK u \in Users : u = m_SelfUserId[c]
  BY DEF Typed, ClientTypes
<1>2. Pair(c, u)
  BY <1>1 DEF OneConnection
<1>3. /\ Range(queue) = {} /\ Range(out) = {} /\ Range(wants[c]) = {}
      /\ \A t \in Threads : at[t] = "idle"
  BY DEF Quiet, Range
<1>4. m_OnlineUserMap[u] # 0
  BY <1>1, <1>2, <1>3 DEF Pair, Opened, OpenThread
<1>5. ~ListComing(c, u)
  BY <1>1, <1>3, <1>4 DEF ListComing, Welcomes, GroupsWritten, NoListYet, Selects
<1>6. table[i] \in Range(table) /\ IsFor(table[i], u)
  BY <1>1 DEF Range, IsFor
<1>7. OnItsWay(table[i], c, u)
  BY <1>1, <1>2, <1>5, <1>6 DEF Pair, AllOnTheWay
<1>8. QED
  BY <1>3, <1>7 DEF OnItsWay, Written, Relays, Answers

-----------------------------------------------------------------------------
\* A client that has logged in and got its user's list has every message that
\* was saved for its user by others, however the query of the list, the entry
\* in m_OnlineUserMap, the relays and the writes of any number of threads and
\* clients interleave (DataHandler.cpp 29-290, Main.cpp of the client).
THEOREM NothingMissed == SafeSpec => []NoMessageMissed
<1>1. SafeSpec => []Typed
  BY InitTyped, NextTyped, PTL DEF SafeSpec
<1>2. Init => (~Relogin => OneConnection)
  BY InitOneConnection
<1>3. Typed /\ (~Relogin => OneConnection) /\ [Next]_vars => (~Relogin => OneConnection)'
  <2>1. CASE Relogin
    BY <2>1
  <2>2. CASE ~Relogin
    BY <2>2, OneConnectionStep
  <2>3. QED
    BY <2>1, <2>2
<1>4. SafeSpec => [](~Relogin => OneConnection)
  BY <1>1, <1>2, <1>3, PTL DEF SafeSpec
<1>5. QED
  BY <1>1, <1>4, QuietNothingMissed, PTL

=============================================================================
