-------------------------- MODULE ClientSelectProofs --------------------------
(***************************************************************************)
(* The client's connections, for any number of connections, descriptors,   *)
(* packages and calls: what is left to send is remembered, whoever looked  *)
(* a connection up to remove it tells its end, and what may be removed.    *)
(***************************************************************************)
EXTENDS ClientSelect, WellFoundedInduction, TLAPS

\* Places of a thread in a call of the SDK; those with a descriptor, and those
\* with a shared pointer.
Calling == {"get", "append", "send", "remove", "at", "erase", "tell"}
Holders == {"append", "send", "erase", "tell"}
Places == Calling \cup {"nothing", "connected"}
USE DEF Calling, Holders, Places

Connected(c) == c \in Conns /\ net[c] # "absent"

\* The thread of Select is at an element of the map.
InLoop == work \in {"recv", "callback", "send", "next"}

\* Whatever names a connection names one that was made, and knows its
\* descriptor: the map, the sets of select(), the iterator, the parameters
\* and shared pointers of either thread.
Pointers ==
    /\ \A c \in Conns : net[c] # "absent" => cfd[c] \in Fds
    /\ \A f \in Fds : m_ClientSocketMap[f] # Nobody =>
          Connected(m_ClientSocketMap[f]) /\ cfd[m_ClientSocketMap[f]] = f
    /\ \A c \in watchR \cup watchW : cfd[c] \in Fds
    /\ InLoop => Connected(begin)
    /\ \A t \in Threads :
          /\ does[t] \in Calling => fd[t] \in Fds
          /\ does[t] \in Holders => Connected(sp[t])

\* The two memories of what is left to send are the same, although a lock
\* guards one of them only.
FlagsAgree == \A c \in Conns : m_IsWriteing[c] = m_CfdIsWrite[c]

\* NoLostWrite, of objects out of the map too.
Remembered ==
    \A c \in Conns : wbuf[c] > 0 =>
        \/ m_CfdIsWrite[c]
        \/ \E t \in Threads : does[t] = "send" /\ sp[t] = c
        \/ net[c] = "rst"

Inv == TypeOK /\ Pointers /\ FlagsAgree /\ Remembered

-----------------------------------------------------------------------------
(* The map *)

\* A set of descriptors that is not empty has a lowest one.
LEMMA Lowest ==
    ASSUME NEW G \in SUBSET Nat, G # {}
    PROVE  \E f \in G : \A g \in G : f <= g
<1>1. PICK f \in G : \A g \in G : ~ (<<g, f>> \in OpToRel(<, Nat))
  <2>1. IsWellFoundedOn(OpToRel(<, Nat), Nat)
    BY NatLessThanWellFounded
  <2>2. QED
    BY <2>1, WFMin
<1>2. \A g \in G : ~ (g < f)
  BY <1>1 DEF OpToRel
<1>3. QED
  BY <1>2

\* begin() and upper_bound(): an element of the map, the lowest one, or end().
LEMMA FirstOfFacts ==
    ASSUME NEW F \in SUBSET Fds, FirstOf(F) # Nobody
    PROVE  \E f \in F : m_ClientSocketMap[f] # Nobody /\ FirstOf(F) = m_ClientSocketMap[f]
<1> DEFINE G == {f \in F : m_ClientSocketMap[f] # Nobody}
<1>1. G # {} /\ G \in SUBSET Nat
  BY FdsAssumption DEF FirstOf
<1>2. \E f \in G : \A g \in G : f <= g
  BY <1>1, Lowest
<1>3. (CHOOSE f \in G : \A g \in G : f <= g) \in G
  BY <1>2
<1>4. QED
  BY <1>1, <1>3 DEF FirstOf

-----------------------------------------------------------------------------
(* The inductive step *)

\* What Send() does to the object: the flags agree again, and what it leaves
\* behind is remembered.
LEMMA SendFacts ==
    ASSUME Inv, NEW c \in Conns, Send(c)
    PROVE  /\ room' \in [Conns -> 0..Window]
           /\ wbuf' \in [Conns -> 0..WriteBufMax]
           /\ m_IsWriteing' \in [Conns -> BOOLEAN]
           /\ m_CfdIsWrite' \in [Conns -> BOOLEAN]
           /\ FlagsAgree'
           /\ wbuf'[c] > 0 => m_CfdIsWrite'[c] /\ wbuf[c] > 0
           /\ \A d \in Conns \ {c} :
                 wbuf'[d] = wbuf[d] /\ m_CfdIsWrite'[d] = m_CfdIsWrite[d]
           /\ UNCHANGED <<net, said, rx, cfd>>
<1> DEFINE n == Sendable(c)
           left == n < wbuf[c]
<1>1. /\ wbuf \in [Conns -> 0..WriteBufMax] /\ room \in [Conns -> 0..Window]
      /\ m_IsWriteing \in [Conns -> BOOLEAN] /\ m_CfdIsWrite \in [Conns -> BOOLEAN]
      /\ WriteBufMax \in Nat /\ Window \in Nat
  BY BoundsAssumption DEF Inv, TypeOK
<1>2. n \in Nat /\ n <= wbuf[c] /\ n <= room[c]
  BY <1>1 DEF Sendable
<1>3. /\ room' = [room EXCEPT ![c] = @ - n]
      /\ wbuf' = [wbuf EXCEPT ![c] = @ - n]
      /\ m_IsWriteing' = [m_IsWriteing EXCEPT ![c] = left]
      /\ m_CfdIsWrite' = IF m_IsWriteing[c] # left
                         THEN [m_CfdIsWrite EXCEPT ![c] = left] ELSE m_CfdIsWrite
      /\ UNCHANGED <<net, said, rx, cfd>>
  BY DEF Send
<1>4. left \in BOOLEAN
  OBVIOUS
<1>5. m_IsWriteing[c] = m_CfdIsWrite[c]
  BY DEF Inv, FlagsAgree
<1> HIDE DEF n, left
<1>6. room' \in [Conns -> 0..Window] /\ wbuf' \in [Conns -> 0..WriteBufMax]
  BY <1>1, <1>2, <1>3
<1>7. m_IsWriteing' \in [Conns -> BOOLEAN] /\ m_CfdIsWrite' \in [Conns -> BOOLEAN]
  BY <1>1, <1>3, <1>4, Zenon
<1>8. m_IsWriteing'[c] = left /\ m_CfdIsWrite'[c] = left
  BY <1>1, <1>3, <1>4, <1>5, Zenon
<1>9. \A d \in Conns \ {c} : /\ m_IsWriteing'[d] = m_IsWriteing[d]
                             /\ m_CfdIsWrite'[d] = m_CfdIsWrite[d]
  BY <1>1, <1>3, Zenon
<1>10. FlagsAgree'
  BY <1>8, <1>9, Zenon DEF Inv, FlagsAgree
<1>11. wbuf'[c] = wbuf[c] - n /\ \A d \in Conns \ {c} : wbuf'[d] = wbuf[d]
  BY <1>1, <1>3
<1>12. wbuf'[c] > 0 => left /\ wbuf[c] > 0
  BY <1>1, <1>2, <1>11 DEF left
<1>13. QED
  BY <1>3, <1>6, <1>7, <1>8, <1>9, <1>10, <1>11, <1>12

\* What servers do reaches an open connection, or breaks one.
LEMMA ServerStep ==
    ASSUME Inv, Servers
    PROVE  Inv'
<1> USE DEF objVars, mapVars, setVars, workVars, callVars
<1>1. PICK c \in Conns : PeerSends(c) \/ PeerReads(c) \/ PeerLeaves(c)
  BY DEF Servers
<1>2. UNCHANGED <<objVars, mapVars, workVars, callVars>>
  BY <1>1 DEF PeerSends, PeerReads, PeerLeaves
<1>3. \A d \in Conns : /\ net'[d] = "absent" <=> net[d] = "absent"
                       /\ net[d] = "rst" => net'[d] = "rst"
  BY <1>1 DEF PeerSends, PeerReads, PeerLeaves, Inv, TypeOK
<1>4. TypeOK'
  <2>1. net' \in [Conns -> {"absent", "open", "fin", "rst"}]
    BY <1>1 DEF PeerSends, PeerReads, PeerLeaves, Inv, TypeOK
  <2>2. said' \in [Conns -> 0..MaxData] /\ room' \in [Conns -> 0..Window]
    <3>1. /\ said \in [Conns -> 0..MaxData] /\ room \in [Conns -> 0..Window]
          /\ MaxData \in Nat /\ Window \in Nat
      BY BoundsAssumption DEF Inv, TypeOK
    <3>2. CASE PeerSends(c)
      BY <3>1, <3>2 DEF PeerSends
    <3>3. CASE PeerReads(c)
      BY <3>1, <3>3 DEF PeerReads
    <3>4. CASE PeerLeaves(c)
      BY <3>1, <3>4 DEF PeerLeaves
    <3>5. QED
      BY <1>1, <3>2, <3>3, <3>4
  <2>3. rx' \in [Conns -> BOOLEAN]
    BY <1>1, Zenon DEF PeerSends, PeerReads, PeerLeaves, Inv, TypeOK
  <2>4. QED
    BY <1>2, <2>1, <2>2, <2>3 DEF Inv, TypeOK
<1>5. Pointers'
  BY <1>2, <1>3 DEF Inv, Pointers, Connected, InLoop
<1>6. FlagsAgree'
  BY <1>2, Zenon DEF Inv, FlagsAgree
<1>7. Remembered'
  BY <1>2, <1>3 DEF Inv, Remembered
<1>8. QED
  BY <1>4, <1>5, <1>6, <1>7 DEF Inv

\* Connect: the descriptor is free, so no element of the map is lost.
LEMMA ConnectStep ==
    ASSUME Inv, NEW c \in Conns, Connect(c)
    PROVE  Inv'
<1>1. PICK f \in Fds :
         /\ cfd' = [cfd EXCEPT ![c] = f]
         /\ m_ClientSocketMap' = [m_ClientSocketMap EXCEPT ![f] = c]
         /\ fd' = [fd EXCEPT !["app"] = f]
  BY DEF Connect, FreeFds
<1>2. PICK answer \in {"open", "rst"} : net' = [net EXCEPT ![c] = answer]
  BY DEF Connect
<1>3. /\ net[c] = "absent" /\ does["app"] = "nothing"
      /\ work' = IF work = "none" THEN "collect" ELSE work
      /\ does' = [does EXCEPT !["app"] = "connected"]
      /\ UNCHANGED <<said, rx, room, m_CfdIsWrite, m_IsWriteing, wbuf, told, met,
                     setVars, begin, closeSocket, sp, sends, sdk>>
  BY DEF Connect
<1>4. TypeOK'
  BY <1>1, <1>2, <1>3 DEF Inv, TypeOK, setVars, Threads
<1>5. Pointers'
  <2>1. \A d \in Conns : /\ net'[d] = IF d = c THEN answer ELSE net[d]
                         /\ cfd'[d] = IF d = c THEN f ELSE cfd[d]
    BY <1>1, <1>2 DEF Inv, TypeOK
  <2>2. \A d : Connected(d) => Connected(d)' /\ cfd'[d] = cfd[d]
    BY <1>2, <1>3, <2>1 DEF Connected
  <2>3. Connected(c)' /\ cfd'[c] = f
    BY <1>2, <2>1 DEF Connected
  <2>4. \A d \in Conns : net'[d] # "absent" => cfd'[d] \in Fds
    BY <1>2, <1>3, <2>1 DEF Inv, Pointers
  <2>5. ASSUME NEW g \in Fds, m_ClientSocketMap'[g] # Nobody
        PROVE  Connected(m_ClientSocketMap[g])' /\ cfd'[m_ClientSocketMap'[g]] = g
    <3>1. CASE g = f
      BY <1>1, <2>3, <3>1 DEF Inv, TypeOK
    <3>2. CASE g # f
      <4>1. m_ClientSocketMap'[g] = m_ClientSocketMap[g]
        BY <1>1, <3>2 DEF Inv, TypeOK
      <4>2. QED
        BY <2>2, <2>5, <4>1 DEF Inv, Pointers, Connected
    <3>3. QED
      BY <3>1, <3>2
  <2>6. UNCHANGED <<watchR, watchW, begin, sp>>
        /\ (InLoop' => InLoop)
    BY <1>3 DEF setVars, InLoop
  <2>7. /\ \A d \in watchR' \cup watchW' : cfd'[d] \in Fds
        /\ InLoop' => Connected(begin)'
    BY <2>1, <2>2, <2>6 DEF Inv, TypeOK, Pointers, Connected
  <2>8. ASSUME NEW t \in Threads
        PROVE  /\ does'[t] \in Calling => fd'[t] \in Fds
               /\ does'[t] \in Holders => Connected(sp[t])'
    <3>1. fd'[t] = (IF t = "app" THEN f ELSE fd[t])
          /\ does'[t] = (IF t = "app" THEN "connected" ELSE does[t])
      BY <1>1, <1>3 DEF Inv, TypeOK, Threads
    <3>2. QED
      BY <2>2, <2>6, <3>1 DEF Inv, Pointers, Connected
  <2>9. QED
    BY <2>4, <2>5, <2>7, <2>8 DEF Pointers
<1>6. FlagsAgree'
  BY <1>3, Zenon DEF Inv, FlagsAgree
<1>7. Remembered'
  BY <1>2, <1>3 DEF Inv, TypeOK, Remembered, Threads
<1>8. QED
  BY <1>4, <1>5, <1>6, <1>7 DEF Inv

\* A step that leaves peers, objects and map alone, and whose caller's
\* variables name connections as before, is harmless.
LEMMA QuietStep ==
    ASSUME Inv, UNCHANGED <<peerVars, objVars, mapVars>>,
           TypeOK',
           \A c \in watchR' \cup watchW' : cfd[c] \in Fds,
           InLoop' => Connected(begin'),
           \A t \in Threads :
              /\ does'[t] \in Calling => fd'[t] \in Fds
              /\ does'[t] \in Holders => Connected(sp'[t]),
           \A t \in Threads : does[t] = "send" =>
              \/ does'[t] = "send" /\ sp'[t] = sp[t]
              \/ net[sp[t]] = "rst"
    PROVE  Inv'
<1> USE DEF peerVars, objVars, mapVars
<1>1. \A c : Connected(c)' <=> Connected(c)
  BY DEF Connected
<1>2. Pointers'
  BY <1>1 DEF Inv, Pointers
<1>3. FlagsAgree'
  BY Zenon DEF Inv, FlagsAgree
<1>4. Remembered'
  BY DEF Inv, Remembered
<1>5. QED
  BY <1>2, <1>3, <1>4 DEF Inv

LEMMA SendPackageStep ==
    ASSUME Inv, NEW t \in Threads, NEW c \in Conns, SendPackage(t, c)
    PROVE  Inv'
<1>1. /\ UNCHANGED <<peerVars, objVars, mapVars, workVars, sp, sdk>>
      /\ does[t] = "nothing"
  BY DEF SendPackage
<1>2. cfd[c] \in Fds
  <2>1. net[c] # "absent"
    BY DEF SendPackage, Inv, Pointers, InLoop, Connected
  <2>2. QED
    BY <2>1 DEF Inv, Pointers
<1>3. sends' \in 0..MaxSends
  BY BoundsAssumption DEF SendPackage, Inv, TypeOK
<1>4. \/ UNCHANGED <<does, fd>>
      \/ does' = [does EXCEPT ![t] = "get"] /\ fd' = [fd EXCEPT ![t] = cfd[c]]
  BY DEF SendPackage
<1>5. TypeOK'
  BY <1>1, <1>2, <1>3, <1>4 DEF Inv, TypeOK, peerVars, objVars, mapVars, workVars, setVars
<1>6. \A u \in Threads :
         /\ does'[u] \in Calling => fd'[u] \in Fds
         /\ does'[u] \in Holders => Connected(sp'[u])
         /\ does[u] = "send" => does'[u] = "send" /\ sp'[u] = sp[u]
  BY <1>1, <1>2, <1>4 DEF Inv, TypeOK, Pointers
<1>7. QED
  BY <1>1, <1>5, <1>6, QuietStep DEF Inv, Pointers, InLoop, workVars, setVars

\* Return() drops what the thread held, and touches no other thread.
LEMMA ReturnFacts ==
    ASSUME Inv, NEW t \in Threads, Return(t)
    PROVE  /\ does' \in [Threads -> Places]
           /\ fd' \in [Threads -> Fds \cup {0}]
           /\ sp' \in [Threads -> Conns \cup {Nobody}]
           /\ does'[t] = "nothing" /\ sp'[t] = Nobody
           /\ \A u \in Threads \ {t} :
                 does'[u] = does[u] /\ fd'[u] = fd[u] /\ sp'[u] = sp[u]
BY DEF Return, Inv, TypeOK

\* A thread that returns has left nothing that anybody relies on.
LEMMA ReturnStep ==
    ASSUME Inv, NEW t \in Threads, Return(t), does[t] # "send",
           UNCHANGED <<peerVars, objVars, mapVars, workVars, sends, sdk>>
    PROVE  Inv'
<1>1. TypeOK'
  BY ReturnFacts DEF Inv, TypeOK, peerVars, objVars, mapVars, workVars, setVars
<1>2. \A u \in Threads :
         /\ does'[u] \in Calling => fd'[u] \in Fds
         /\ does'[u] \in Holders => Connected(sp'[u])
         /\ does[u] = "send" => does'[u] = "send" /\ sp'[u] = sp[u]
  BY ReturnFacts DEF Inv, Pointers
<1>3. QED
  BY <1>1, <1>2, QuietStep DEF Inv, Pointers, InLoop, workVars, setVars

\* GetClientSocket() finds an element of the map, or the map has none.
LEMMA GetStep ==
    ASSUME Inv, NEW t \in Threads, GetClientSocket(t)
    PROVE  Inv'
<1> DEFINE d == m_ClientSocketMap[fd[t]]
<1>1. /\ does[t] = "get" /\ d # Nobody /\ fd[t] \in Fds
      /\ UNCHANGED <<peerVars, objVars, mapVars, workVars, sends, sdk>>
  BY DEF GetClientSocket, Inv, Pointers
<1>2. Connected(d)
  BY <1>1 DEF Inv, Pointers
<1> HIDE DEF d
<1>3. CASE Return(t)
  BY <1>1, <1>3, ReturnStep
<1>4. CASE /\ does' = [does EXCEPT ![t] = "append"]
           /\ sp' = [sp EXCEPT ![t] = d]
           /\ UNCHANGED fd
  <2>1. TypeOK'
    BY <1>1, <1>2, <1>4
       DEF Inv, TypeOK, Connected, peerVars, objVars, mapVars, workVars, setVars
  <2>2. \A u \in Threads :
           /\ does'[u] \in Calling => fd'[u] \in Fds
           /\ does'[u] \in Holders => Connected(sp'[u])
           /\ does[u] = "send" => does'[u] = "send" /\ sp'[u] = sp[u]
    BY <1>1, <1>2, <1>4 DEF Inv, TypeOK, Pointers
  <2>3. QED
    BY <1>1, <1>4, <2>1, <2>2, QuietStep DEF Inv, Pointers, InLoop, workVars, setVars
<1>5. QED
  BY <1>3, <1>4 DEF GetClientSocket, d

\* Write() appends and is on its way to send(), or finds no room and returns.
LEMMA AppendStep ==
    ASSUME Inv, NEW t \in Threads, AppendPackage(t)
    PROVE  Inv'
<1>1. /\ does[t] = "append"
      /\ UNCHANGED <<peerVars, cfd, m_CfdIsWrite, m_IsWriteing, mapVars,
                     workVars, sends, sdk>>
  BY DEF AppendPackage
<1>2. CASE Return(t) /\ UNCHANGED wbuf
  <2>1. TypeOK'
    BY <1>1, <1>2, ReturnFacts
       DEF Inv, TypeOK, peerVars, mapVars, workVars, setVars
  <2>2. \A u \in Threads :
           /\ does'[u] \in Calling => fd'[u] \in Fds
           /\ does'[u] \in Holders => Connected(sp'[u])
           /\ does[u] = "send" => does'[u] = "send" /\ sp'[u] = sp[u]
    BY <1>1, <1>2, ReturnFacts DEF Inv, Pointers
  <2>3. QED
    BY <1>1, <1>2, <2>1, <2>2, QuietStep
       DEF Inv, Pointers, InLoop, objVars, workVars, setVars
<1>3. CASE /\ wbuf[sp[t]] < WriteBufMax
           /\ wbuf' = [wbuf EXCEPT ![sp[t]] = @ + 1]
           /\ does' = [does EXCEPT ![t] = "send"]
           /\ UNCHANGED <<fd, sp>>
  <2>1. TypeOK'
    <3>1. wbuf' \in [Conns -> 0..WriteBufMax]
      <4>1. /\ wbuf \in [Conns -> 0..WriteBufMax] /\ sp[t] \in Conns
            /\ WriteBufMax \in Nat
        BY <1>1, BoundsAssumption DEF Inv, TypeOK, Pointers, Connected
      <4>2. QED
        BY <1>3, <4>1
    <3>2. does' \in [Threads -> Places]
      BY <1>3 DEF Inv, TypeOK
    <3>3. QED
      BY <1>1, <1>3, <3>1, <3>2
         DEF Inv, TypeOK, peerVars, mapVars, workVars, setVars
  <2>2. Pointers'
    BY <1>1, <1>3 DEF Inv, TypeOK, Pointers, Connected, InLoop,
                      peerVars, mapVars, workVars, setVars
  <2>3. FlagsAgree'
    BY <1>1, Zenon DEF Inv, FlagsAgree
  <2>4. Remembered'
    <3>1. \A c \in Conns : wbuf'[c] # wbuf[c] => sp'[t] = c /\ does'[t] = "send"
      BY <1>3 DEF Inv, TypeOK
    <3>2. \A u \in Threads : does[u] = "send" => does'[u] = "send" /\ sp'[u] = sp[u]
      BY <1>3 DEF Inv, TypeOK
    <3>3. QED
      BY <1>1, <3>1, <3>2 DEF Inv, Remembered, peerVars
  <2>5. QED
    BY <2>1, <2>2, <2>3, <2>4 DEF Inv
<1>4. QED
  BY <1>2, <1>3 DEF AppendPackage

LEMMA SendNowStep ==
    ASSUME Inv, NEW t \in Threads, SendNow(t)
    PROVE  Inv'
<1> DEFINE c == sp[t]
<1>1. does[t] = "send" /\ Send(c) /\ Return(t)
      /\ UNCHANGED <<mapVars, workVars, sends, sdk>>
  BY DEF SendNow
<1>2. c \in Conns
  BY <1>1 DEF Inv, Pointers, Connected
<1> HIDE DEF c
<1>3. TypeOK'
  <2>1. /\ room' \in [Conns -> 0..Window] /\ wbuf' \in [Conns -> 0..WriteBufMax]
        /\ m_IsWriteing' \in [Conns -> BOOLEAN] /\ m_CfdIsWrite' \in [Conns -> BOOLEAN]
        /\ UNCHANGED <<net, said, rx, cfd>>
    BY <1>1, <1>2, SendFacts
  <2>2. /\ does' \in [Threads -> Places] /\ fd' \in [Threads -> Fds \cup {0}]
        /\ sp' \in [Threads -> Conns \cup {Nobody}]
    BY <1>1, ReturnFacts
  <2>3. QED
    BY <1>1, <2>1, <2>2 DEF Inv, TypeOK, mapVars, workVars, setVars
<1>4. Pointers'
  BY <1>1, <1>2, ReturnFacts, SendFacts
     DEF Inv, Pointers, Connected, InLoop, mapVars, workVars, setVars
<1>5. Remembered'
  <2>1. /\ UNCHANGED net
        /\ wbuf'[c] > 0 => m_CfdIsWrite'[c]
        /\ \A d \in Conns \ {c} :
              wbuf'[d] = wbuf[d] /\ m_CfdIsWrite'[d] = m_CfdIsWrite[d]
    BY <1>1, <1>2, SendFacts
  <2>2. \A u \in Threads : sp[u] # c => does'[u] = does[u] /\ sp'[u] = sp[u]
    BY <1>1, ReturnFacts DEF c
  <2>3. QED
    BY <2>1, <2>2 DEF Inv, Remembered
<1>6. QED
  BY <1>1, <1>2, <1>3, <1>4, <1>5, SendFacts DEF Inv

LEMMA SendFailsStep ==
    ASSUME Inv, NEW t \in Threads, SendFails(t)
    PROVE  Inv'
<1>1. /\ does[t] = "send" /\ net[sp[t]] = "rst"
      /\ does' = [does EXCEPT ![t] = "remove"]
      /\ UNCHANGED <<peerVars, objVars, mapVars, workVars, fd, sp, sends, sdk>>
  BY DEF SendFails, Failing
<1>2. TypeOK'
  BY <1>1 DEF Inv, TypeOK, peerVars, objVars, mapVars, workVars, setVars
<1>3. \A u \in Threads :
         /\ does'[u] \in Calling => fd'[u] \in Fds
         /\ does'[u] \in Holders => Connected(sp'[u])
         /\ does[u] = "send" =>
               \/ does'[u] = "send" /\ sp'[u] = sp[u]
               \/ net[sp[u]] = "rst"
  BY <1>1 DEF Inv, TypeOK, Pointers
<1>4. QED
  BY <1>1, <1>2, <1>3, QuietStep DEF Inv, Pointers, InLoop, workVars, setVars

LEMMA RemoveStep ==
    ASSUME Inv, NEW t \in Threads, Remove(t)
    PROVE  Inv'
<1>1. /\ does[t] = "remove"
      /\ UNCHANGED <<peerVars, objVars, mapVars, workVars, sends, sdk>>
  BY DEF Remove
<1>2. CASE Return(t)
  BY <1>1, <1>2, ReturnStep
<1>3. CASE does' = [does EXCEPT ![t] = "at"] /\ UNCHANGED <<fd, sp>>
  <2>1. TypeOK'
    BY <1>1, <1>3 DEF Inv, TypeOK, peerVars, objVars, mapVars, workVars, setVars
  <2>2. \A u \in Threads :
           /\ does'[u] \in Calling => fd'[u] \in Fds
           /\ does'[u] \in Holders => Connected(sp'[u])
           /\ does[u] = "send" => does'[u] = "send" /\ sp'[u] = sp[u]
    BY <1>1, <1>3 DEF Inv, TypeOK, Pointers
  <2>3. QED
    BY <1>1, <1>3, <2>1, <2>2, QuietStep DEF Inv, Pointers, InLoop, workVars, setVars
<1>4. QED
  BY <1>2, <1>3 DEF Remove

LEMMA LookUpStep ==
    ASSUME Inv, NEW t \in Threads, LookUp(t)
    PROVE  Inv'
<1> DEFINE c == m_ClientSocketMap[fd[t]]
<1>1. /\ does[t] = "at" /\ c # Nobody /\ fd[t] \in Fds
      /\ does' = [does EXCEPT ![t] = "erase"] /\ sp' = [sp EXCEPT ![t] = c]
      /\ met' \in {met, met \cup {c}}
      /\ UNCHANGED <<peerVars, objVars, m_ClientSocketMap, told, workVars, fd, sends, sdk>>
  BY DEF LookUp, Inv, Pointers
<1>2. Connected(c)
  BY <1>1 DEF Inv, Pointers
<1> HIDE DEF c
<1>3. TypeOK'
  BY <1>1, <1>2 DEF Inv, TypeOK, Connected, peerVars, objVars, workVars, setVars
<1>4. Pointers'
  BY <1>1, <1>2 DEF Inv, TypeOK, Pointers, Connected, InLoop,
                   peerVars, objVars, workVars, setVars
<1>5. FlagsAgree'
  BY <1>1, Zenon DEF Inv, FlagsAgree, objVars
<1>6. Remembered'
  <2>1. \A u \in Threads : does[u] = "send" => does'[u] = "send" /\ sp'[u] = sp[u]
    BY <1>1 DEF Inv, TypeOK
  <2>2. QED
    BY <1>1, <2>1 DEF Inv, Remembered, peerVars, objVars
<1>7. QED
  BY <1>3, <1>4, <1>5, <1>6 DEF Inv

LEMMA EraseStep ==
    ASSUME Inv, NEW t \in Threads, Erase(t)
    PROVE  Inv'
<1>1. /\ does[t] = "erase" /\ fd[t] \in Fds
      /\ m_ClientSocketMap' = [m_ClientSocketMap EXCEPT ![fd[t]] = Nobody]
      /\ does' = [does EXCEPT ![t] = "tell"]
      /\ UNCHANGED <<peerVars, objVars, told, met, workVars, fd, sp, sends, sdk>>
  BY DEF Erase, Inv, Pointers
<1>2. TypeOK'
  BY <1>1 DEF Inv, TypeOK, peerVars, objVars, workVars, setVars
<1>3. Pointers'
  BY <1>1 DEF Inv, TypeOK, Pointers, Connected, InLoop,
             peerVars, objVars, workVars, setVars
<1>4. FlagsAgree'
  BY <1>1, Zenon DEF Inv, FlagsAgree, objVars
<1>5. Remembered'
  <2>1. \A u \in Threads : does[u] = "send" => does'[u] = "send" /\ sp'[u] = sp[u]
    BY <1>1 DEF Inv, TypeOK
  <2>2. QED
    BY <1>1, <2>1 DEF Inv, Remembered, peerVars, objVars
<1>6. QED
  BY <1>2, <1>3, <1>4, <1>5 DEF Inv

LEMMA TellStep ==
    ASSUME Inv, NEW t \in Threads, Tell(t)
    PROVE  Inv'
<1>1. /\ does[t] = "tell" /\ Return(t)
      /\ told' = [told EXCEPT ![sp[t]] = @ + 1]
      /\ UNCHANGED <<peerVars, objVars, m_ClientSocketMap, met, workVars, sends, sdk>>
  BY DEF Tell
<1>2. TypeOK'
  <2>1. told' \in [Conns -> Nat]
    <3>1. told \in [Conns -> Nat] /\ sp[t] \in Conns
      BY <1>1 DEF Inv, TypeOK, Pointers, Connected
    <3>2. QED
      BY <1>1, <3>1
  <2>2. QED
    BY <1>1, <2>1, ReturnFacts DEF Inv, TypeOK, peerVars, objVars, workVars, setVars
<1>3. Pointers'
  BY <1>1, ReturnFacts
     DEF Inv, Pointers, Connected, InLoop, peerVars, objVars, workVars, setVars
<1>4. FlagsAgree'
  BY <1>1, Zenon DEF Inv, FlagsAgree, objVars
<1>5. Remembered'
  BY <1>1, ReturnFacts DEF Inv, Remembered, peerVars, objVars
<1>6. QED
  BY <1>2, <1>3, <1>4, <1>5 DEF Inv

\* Wherever the loop goes next, it is at an element of the map or at its end.
LEMMA NextPlace ==
    ASSUME Inv, NEW F \in SUBSET Fds, NEW R, NEW W,
           begin' = FirstOf(F), work' = ReadPlace(begin', R, W)
    PROVE  /\ work' \in {"recv", "send", "next", "close"}
           /\ begin' \in Conns \cup {Nobody}
           /\ work' # "close" => Connected(begin')
           /\ work' # "close" => cfd[begin'] \in F
<1>1. begin' # Nobody => /\ Connected(begin') /\ cfd[begin'] \in F
  <2>1. ASSUME begin' # Nobody
        PROVE  \E f \in F : m_ClientSocketMap[f] # Nobody /\ begin' = m_ClientSocketMap[f]
    BY <2>1, FirstOfFacts
  <2>2. QED
    BY <2>1 DEF Inv, Pointers
<1>2. QED
  BY <1>1 DEF ReadPlace, Connected

\* The steps of Work() that move the thread, and no package.
LEMMA WorkStep ==
    ASSUME Inv,
           \/ Enter \/ LeaveWork \/ FillSets \/ Watch \/ WatchFails
           \/ SelectReturns \/ CallbackReturns \/ RecvNone
           \/ RecvClose \/ SendRestFails \/ NextSocket \/ CloseNext \/ AllClosed
    PROVE  Inv'
<1> USE DEF workVars, setVars, callVars
<1>1. UNCHANGED <<peerVars, objVars, mapVars, sends, sdk>>
  BY DEF Enter, LeaveWork, FillSets, Watch, WatchFails, SelectReturns, CallbackReturns,
         RecvNone, RecvClose, SendRestFails, NextSocket, CloseNext, AllClosed
<1>2. SUFFICES /\ /\ work' \in {"none", "collect", "fill", "call", "blocked", "recv", "callback",
                              "send", "next", "close", "left"}
                  /\ watchR' \subseteq Conns /\ watchW' \subseteq Conns
                  /\ readSet' \subseteq Fds /\ writeSet' \subseteq Fds
                  /\ begin' \in Conns \cup {Nobody}
                  /\ closeSocket' \in Seq(Fds)
                  /\ does' \in [Threads -> Places]
                  /\ fd' \in [Threads -> Fds \cup {0}]
                  /\ UNCHANGED sp
               /\ \A c \in watchR' \cup watchW' : cfd[c] \in Fds
               /\ InLoop' => Connected(begin')
               /\ \A t \in Threads :
                     /\ does'[t] \in Calling => fd'[t] \in Fds
                     /\ does'[t] \in Holders => does'[t] = does[t]
                     /\ does[t] = "send" => does'[t] = "send"
  <2>1. TypeOK'
    BY <1>1, <1>2 DEF Inv, TypeOK, peerVars, objVars, mapVars
  <2>2. \A t \in Threads :
           /\ does'[t] \in Holders => Connected(sp'[t])
           /\ does[t] = "send" => does'[t] = "send" /\ sp'[t] = sp[t]
    BY <1>2 DEF Inv, Pointers
  <2>3. QED
    BY <1>1, <1>2, <2>1, <2>2, QuietStep
<1>3. CASE Enter \/ FillSets \/ Watch \/ WatchFails
  <2>1. \A c \in Conns : Mapped(c) => cfd[c] \in Fds
    BY DEF Mapped
  <2>2. \A C \in SUBSET Conns : Holding(C) \subseteq Conns
           /\ ((\A d \in C : cfd[d] \in Fds) => \A c \in Holding(C) : cfd[c] \in Fds)
    BY DEF Holding
  <2>3. CASE Enter
    BY <1>3, <2>3 DEF Enter, Inv, TypeOK, Pointers, InLoop
  <2>4. CASE FillSets
    BY <2>1, <2>4 DEF FillSets, Inv, TypeOK, Pointers, InLoop
  <2>5. CASE Watch
    BY <2>2, <2>5 DEF Watch, Inv, TypeOK, Pointers, InLoop
  <2>6. CASE WatchFails
    BY <2>6 DEF WatchFails, Inv, TypeOK, Pointers, InLoop
  <2>7. QED
    BY <1>3, <2>3, <2>4, <2>5, <2>6
<1>4. CASE LeaveWork
  BY <1>4 DEF LeaveWork, Inv, TypeOK, Pointers, InLoop
<1>5. CASE SelectReturns
  <2>1. /\ work' \in {"recv", "send", "next", "close"}
        /\ begin' \in Conns \cup {Nobody}
        /\ work' # "close" => Connected(begin')
    BY <1>5, NextPlace DEF SelectReturns
  <2>2. readSet' \subseteq Fds /\ writeSet' \subseteq Fds
    BY <1>5 DEF SelectReturns, Inv, TypeOK, Pointers, Connected
  <2>3. QED
    BY <1>5, <2>1, <2>2 DEF SelectReturns, Inv, TypeOK, Pointers, InLoop
<1>6. CASE CallbackReturns
  BY <1>6 DEF CallbackReturns, Inv, TypeOK, Pointers, InLoop
<1>7. CASE RecvNone
  BY <1>7 DEF RecvNone, AfterRecv, Inv, TypeOK, Pointers, InLoop
<1>8. CASE RecvClose
  <2>1. cfd[begin] \in Fds
    BY <1>8 DEF RecvClose, Mapped
  <2>2. closeSocket' \in Seq(Fds)
    BY <1>8, <2>1 DEF RecvClose, Inv, TypeOK
  <2>3. QED
    BY <1>8, <2>2 DEF RecvClose, AfterRecv, Inv, TypeOK, Pointers, InLoop
<1>9. CASE SendRestFails
  <2>1. cfd[begin] \in Fds
    BY <1>9 DEF SendRestFails, Mapped
  <2>2. closeSocket' \in Seq(Fds)
    BY <1>9, <2>1 DEF SendRestFails, Inv, TypeOK
  <2>3. QED
    BY <1>9, <2>2 DEF SendRestFails, Inv, TypeOK, Pointers, InLoop
<1>10. CASE NextSocket
  <2>1. {f \in Fds : f > cfd[begin]} \in SUBSET Fds
    OBVIOUS
  <2>2. /\ work' \in {"recv", "send", "next", "close"}
        /\ begin' \in Conns \cup {Nobody}
        /\ work' # "close" => Connected(begin')
    BY <1>10, <2>1, NextPlace DEF NextSocket
  <2>3. QED
    BY <1>10, <2>2 DEF NextSocket, Inv, TypeOK, Pointers, InLoop
<1>11. CASE CloseNext
  <2>1. Head(closeSocket) \in Fds /\ Tail(closeSocket) \in Seq(Fds)
    BY <1>11 DEF CloseNext, Inv, TypeOK
  <2>2. QED
    BY <1>11, <2>1 DEF CloseNext, Idle, Inv, TypeOK, Pointers, InLoop, Threads
<1>12. CASE AllClosed
  BY <1>12 DEF AllClosed, Inv, TypeOK, Pointers, InLoop
<1>13. QED
  BY <1>3, <1>4, <1>5, <1>6, <1>7, <1>8, <1>9, <1>10, <1>11, <1>12

LEMMA RecvDataStep ==
    ASSUME Inv, RecvData
    PROVE  Inv'
<1> USE DEF objVars, mapVars, setVars, callVars
<1>1. /\ work = "recv" /\ work' = "callback"
      /\ rx' = [rx EXCEPT ![begin] = FALSE]
      /\ UNCHANGED <<net, said, room, objVars, mapVars, setVars, begin,
                     closeSocket, callVars>>
  BY DEF RecvData
<1>2. TypeOK'
  <2>1. rx' \in [Conns -> BOOLEAN]
    BY <1>1, Zenon DEF Inv, TypeOK
  <2>2. QED
    BY <1>1, <2>1 DEF Inv, TypeOK
<1>3. Pointers'
  BY <1>1 DEF Inv, Pointers, Connected, InLoop
<1>4. FlagsAgree'
  BY <1>1, Zenon DEF Inv, FlagsAgree
<1>5. Remembered'
  BY <1>1 DEF Inv, Remembered
<1>6. QED
  BY <1>2, <1>3, <1>4, <1>5 DEF Inv

LEMMA SendRestStep ==
    ASSUME Inv, SendRest
    PROVE  Inv'
<1> USE DEF mapVars, setVars, callVars
<1>1. /\ begin \in Conns /\ Send(begin)
      /\ work = "send" /\ work' = "next"
      /\ UNCHANGED <<mapVars, setVars, begin, closeSocket, callVars>>
  BY DEF SendRest, Inv, Pointers, InLoop, Connected
<1>2. TypeOK'
  BY <1>1, SendFacts DEF Inv, TypeOK
<1>3. Pointers'
  BY <1>1, SendFacts DEF Inv, Pointers, Connected, InLoop
<1>4. Remembered'
  <2>1. /\ UNCHANGED <<net, does, sp>>
        /\ wbuf'[begin] > 0 => m_CfdIsWrite'[begin]
        /\ \A d \in Conns \ {begin} :
              wbuf'[d] = wbuf[d] /\ m_CfdIsWrite'[d] = m_CfdIsWrite[d]
    BY <1>1, SendFacts
  <2>2. QED
    BY <2>1 DEF Inv, Remembered
<1>5. QED
  BY <1>1, <1>2, <1>3, <1>4, SendFacts DEF Inv

\* ConnectServerSocket returns, and the SDK is deleted: the map goes, with
\* nobody left who could send.
LEMMA ProgramStep ==
    ASSUME Inv, ConnectReturns \/ DeleteSdk \/ Delete
    PROVE  Inv'
<1> USE DEF peerVars, objVars, workVars, setVars
<1>1. CASE ConnectReturns
  <2>1. TypeOK'
    BY <1>1 DEF ConnectReturns, Inv, TypeOK, mapVars
  <2>2. QED
    BY <1>1, <2>1, QuietStep
       DEF ConnectReturns, Inv, TypeOK, Pointers, InLoop, Threads, mapVars
<1>2. CASE DeleteSdk \/ SetDestroyFlag
  <2>1. TypeOK'
    BY <1>2 DEF DeleteSdk, SetDestroyFlag, Inv, TypeOK, mapVars
  <2>2. QED
    BY <1>2, <2>1, QuietStep DEF DeleteSdk, SetDestroyFlag, Inv, Pointers, InLoop
<1>3. CASE JoinWork
  <2>1. TypeOK'
    BY <1>3 DEF JoinWork, Inv, TypeOK
  <2>2. Pointers'
    BY <1>3 DEF JoinWork, Inv, Pointers, Connected, InLoop
  <2>3. FlagsAgree'
    BY <1>3, Zenon DEF JoinWork, Inv, FlagsAgree
  <2>4. Remembered'
    BY <1>3 DEF JoinWork, Inv, Remembered
  <2>5. QED
    BY <2>1, <2>2, <2>3, <2>4 DEF Inv
<1>4. QED
  BY <1>1, <1>2, <1>3 DEF Delete

LEMMA InitInv == Init => Inv
<1> SUFFICES ASSUME Init PROVE Inv
  OBVIOUS
<1>1. TypeOK
  BY BoundsAssumption DEF Init, TypeOK, Threads
<1>2. Pointers
  BY DEF Init, Pointers, Connected, InLoop
<1>3. FlagsAgree
  BY Zenon DEF Init, FlagsAgree
<1>4. Remembered
  BY DEF Init, Remembered
<1>5. QED
  BY <1>1, <1>2, <1>3, <1>4 DEF Inv

LEMMA NextInv == Inv /\ [Next]_vars => Inv'
<1> SUFFICES ASSUME Inv, [Next]_vars PROVE Inv'
  OBVIOUS
<1>1. CASE Servers
  BY <1>1, ServerStep
<1>2. CASE \E c \in Conns : Connect(c)
  BY <1>2, ConnectStep
<1>3. CASE ConnectReturns \/ DeleteSdk \/ Delete
  BY <1>3, ProgramStep
<1>4. CASE \E t \in Threads, c \in Conns : SendPackage(t, c)
  BY <1>4, SendPackageStep
<1>5. CASE \E t \in Threads : Call(t)
  BY <1>5, GetStep, AppendStep, SendNowStep, SendFailsStep, RemoveStep, LookUpStep,
       EraseStep, TellStep DEF Call
<1>6. CASE Work
  BY <1>6, WorkStep, RecvDataStep, SendRestStep DEF Work
<1>7. CASE UNCHANGED vars
  <2> USE DEF vars, peerVars, objVars, mapVars, workVars, setVars, callVars
  <2>1. TypeOK'
    BY <1>7 DEF Inv, TypeOK
  <2>2. QED
    BY <1>7, <2>1, QuietStep DEF Inv, Pointers, InLoop
<1>8. QED
  BY <1>1, <1>2, <1>3, <1>4, <1>5, <1>6, <1>7 DEF Next

THEOREM Invariance == SafeSpec => []Inv
BY InitInv, NextInv, PTL DEF SafeSpec

\* What Write() has taken and send() has not is remembered, whichever thread
\* appended and whichever sends (SDK ClientSocket.cpp 223-286).
THEOREM NothingForgotten == SafeSpec => []NoLostWrite
<1>1. Inv => NoLostWrite
  BY DEF Inv, Remembered, NoLostWrite
<1>2. QED
  BY <1>1, Invariance, PTL

-----------------------------------------------------------------------------
(* What a thread holds *)

\* A shared pointer names what is, or was, at the thread's descriptor, and
\* nothing else is there as long as it is held: the descriptor is not free.
Held ==
    \A t \in Threads :
        /\ sp[t] # Nobody =>
              /\ Connected(sp[t]) /\ fd[t] = cfd[sp[t]]
              /\ m_ClientSocketMap[fd[t]] \in {Nobody, sp[t]}
        /\ does[t] \in {"nothing", "connected", "get"} => sp[t] = Nobody

-----------------------------------------------------------------------------
(* The end of a connection is told by everybody who looked it up *)

Removing(t) == does[t] \in {"erase", "tell"}

\* Who is about to tell has made sure that the connection is out of the map.
\* Two that are past at() for the same one have met, and a connection that is
\* still in the map can only have two that have not erased it yet.
Tellers ==
    /\ \A t \in Threads : does[t] = "tell" => ~Mapped(sp[t])
    /\ \A s, t \in Threads :
          Removing(s) /\ Removing(t) /\ s # t /\ sp[s] = sp[t] => sp[s] \in met
    /\ \A c \in met :
          /\ Connected(c)
          /\ Mapped(c) => \A t \in Threads : does[t] = "erase" /\ sp[t] = c

-----------------------------------------------------------------------------
(* Why a connection is removed *)

Spoken(d) == told[d] > 0 \/ \E t \in Threads : Removing(t) /\ sp[t] = d

\* Somebody sent, and one that was at f broke and was, or is being, told.
Spent(f) ==
    /\ sends > 0
    /\ \E d \in Conns : cfd[d] = f /\ net[d] = "rst" /\ Spoken(d)

\* Why f may be removed once, and once more.
Due(f) ==
    \/ Spent(f)
    \/ m_ClientSocketMap[f] # Nobody /\ Ended(m_ClientSocketMap[f])
DueAgain(f) ==
    \/ Spent(f)
    \/ /\ m_ClientSocketMap[f] # Nobody
       /\ sends > 0 /\ net[m_ClientSocketMap[f]] = "rst"

Allowed(c) ==
    \/ Ended(c)
    \/ /\ sends > 0
       /\ \E d \in Conns \ {c} : cfd[d] = cfd[c] /\ net[d] = "rst" /\ told[d] > 0

\* Does t call Remove because send() has failed?
Fails(t) == t = "app" \/ work = "callback"

Sent ==
    /\ \A c \in Conns : wbuf[c] > 0 => sends > 0
    /\ \A t \in Threads : does[t] \in {"get", "append", "send"} => sends > 0

\* The thread of Select is in a call in a callback and in Remove.
Place ==
    /\ does["app"] \in {"remove", "at"} => sp["app"] # Nobody
    /\ does["select"] # "nothing" => work \in {"callback", "close"}
    /\ does["select"] \in {"get", "append", "send"} => work = "callback"
    /\ does["select"] \in {"remove", "at"} => (sp["select"] # Nobody <=> work = "callback")

Removers ==
    /\ \A t \in Threads : Removing(t) => Allowed(sp[t])
    /\ \A t \in Threads :
          does[t] \in {"remove", "at", "erase"} /\ Fails(t) =>
              sends > 0 /\ net[sp[t]] = "rst"
    /\ does["select"] \in {"remove", "at"} /\ work = "close" => Due(fd["select"])

\* The descriptors in closeSocket go up, with the loop, and one that is there
\* twice is that of a connection that is broken.
Closing ==
    /\ work \notin {"recv", "callback", "send", "next", "close"} => closeSocket = <<>>
    /\ \A i \in DOMAIN closeSocket :
          /\ Due(closeSocket[i])
          /\ work \in {"recv", "callback"} => closeSocket[i] < cfd[begin]
          /\ work \in {"send", "next"} => closeSocket[i] <= cfd[begin]
          /\ does["select"] \in {"remove", "at", "erase"} /\ work = "close"
                /\ closeSocket[i] = fd["select"] => DueAgain(closeSocket[i])
          /\ \A j \in DOMAIN closeSocket :
                i # j /\ closeSocket[i] = closeSocket[j] => DueAgain(closeSocket[i])

Justified ==
    /\ \A c \in Conns : told[c] > 0 => Allowed(c)
    /\ Sent /\ Place /\ Removers /\ Closing

-----------------------------------------------------------------------------
(* The steps on what a thread holds *)

\* Steps that leave map, descriptors and pointers alone, and end no call
\* without dropping its pointer.
LEMMA HeldKept ==
    ASSUME Held, UNCHANGED <<cfd, m_ClientSocketMap, sp>>,
           \A c \in Conns : net'[c] = "absent" <=> net[c] = "absent",
           \A t \in Threads : sp[t] # Nobody => fd'[t] = fd[t],
           \A t \in Threads :
              does'[t] \in {"nothing", "connected", "get"} => sp[t] = Nobody
    PROVE  Held'
  BY DEF Held, Connected

LEMMA HeldReturned ==
    ASSUME Inv, Held, NEW t \in Threads, Return(t),
           UNCHANGED <<net, cfd, m_ClientSocketMap>>
    PROVE  Held'
  BY ReturnFacts DEF Held, Connected

LEMMA NextHeld == Inv /\ Held /\ [Next]_vars => Held'
<1> SUFFICES ASSUME Inv, Held, [Next]_vars PROVE Held'
  OBVIOUS
<1> USE DEF peerVars, objVars, mapVars, setVars, workVars, callVars
<1>1. ASSUME Servers PROVE Held'
  BY <1>1, HeldKept DEF Servers, PeerSends, PeerReads, PeerLeaves, Inv, TypeOK, Held
<1>2. ASSUME NEW c \in Conns, Connect(c) PROVE Held'
  <2>1. PICK f \in FreeFds :
           /\ cfd' = [cfd EXCEPT ![c] = f]
           /\ m_ClientSocketMap' = [m_ClientSocketMap EXCEPT ![f] = c]
           /\ fd' = [fd EXCEPT !["app"] = f]
    BY <1>2 DEF Connect
  <2>2. /\ net[c] = "absent" /\ does["app"] = "nothing"
        /\ \A d \in Conns \ {c} : net'[d] = net[d]
        /\ does' = [does EXCEPT !["app"] = "connected"]
        /\ UNCHANGED sp
    BY <1>2 DEF Connect, Inv, TypeOK
  <2>3. ASSUME NEW t \in Threads, sp[t] # Nobody
        PROVE  /\ Connected(sp[t])' /\ fd'[t] = cfd'[sp[t]]
               /\ m_ClientSocketMap'[fd'[t]] \in {Nobody, sp[t]}
    <3>1. Connected(sp[t]) /\ sp[t] \in Conns \ {c} /\ t # "app" /\ fd[t] = cfd[sp[t]]
      BY <2>2, <2>3 DEF Held, Connected
    <3>2. fd[t] # f /\ fd'[t] = fd[t]
      BY <2>1, <3>1 DEF FreeFds, Live, Inv, TypeOK
    <3>3. cfd'[sp[t]] = cfd[sp[t]] /\ net'[sp[t]] = net[sp[t]]
      BY <2>1, <2>2, <3>1 DEF Inv, TypeOK
    <3>4. fd[t] \in Fds
      BY <3>1 DEF Inv, Pointers, Connected
    <3>5. m_ClientSocketMap'[fd[t]] = m_ClientSocketMap[fd[t]]
      BY <2>1, <3>2, <3>4 DEF Inv, TypeOK
    <3>6. QED
      BY <2>2, <2>3, <3>1, <3>2, <3>3, <3>5 DEF Held, Connected
  <2>4. QED
    BY <2>2, <2>3 DEF Held, Inv, TypeOK
<1>3. ASSUME ConnectReturns \/ DeleteSdk \/ SetDestroyFlag PROVE Held'
  BY <1>3, HeldKept DEF ConnectReturns, DeleteSdk, SetDestroyFlag, Inv, TypeOK, Held, Threads
<1>4. ASSUME JoinWork PROVE Held'
  BY <1>4 DEF JoinWork, Held, Connected, Inv, Pointers
<1>5. ASSUME NEW t \in Threads, NEW c \in Conns, SendPackage(t, c) PROVE Held'
  BY <1>5, HeldKept DEF SendPackage, Inv, TypeOK, Held
<1>6. ASSUME NEW t \in Threads, GetClientSocket(t) \/ LookUp(t) PROVE Held'
  <2>1. CASE Return(t)
    BY <1>6, <2>1, HeldReturned DEF GetClientSocket, LookUp
  <2>2. CASE ~Return(t)
    <3> DEFINE d == m_ClientSocketMap[fd[t]]
    <3>1. /\ fd[t] \in Fds /\ d # Nobody
          /\ sp' = [sp EXCEPT ![t] = d]
          /\ does' = [does EXCEPT ![t] = IF does[t] = "get" THEN "append" ELSE "erase"]
          /\ UNCHANGED <<net, cfd, m_ClientSocketMap, fd>>
      BY <1>6, <2>2 DEF GetClientSocket, LookUp, Inv, Pointers
    <3>2. Connected(d) /\ cfd[d] = fd[t]
      BY <3>1 DEF Inv, Pointers
    <3> HIDE DEF d
    <3>3. m_ClientSocketMap[fd[t]] = d
      BY DEF d
    <3>4. /\ sp'[t] = d /\ does'[t] \in {"append", "erase"}
          /\ \A u \in Threads \ {t} : sp'[u] = sp[u] /\ does'[u] = does[u]
      BY <3>1 DEF Inv, TypeOK
    <3>5. QED
      BY <3>1, <3>2, <3>3, <3>4 DEF Held, Connected
  <2>3. QED
    BY <2>1, <2>2
<1>7. ASSUME NEW t \in Threads, AppendPackage(t) \/ SendNow(t) PROVE Held'
  <2>1. CASE Return(t)
    BY <1>7, <2>1, HeldReturned DEF AppendPackage, SendNow, Send
  <2>2. CASE ~Return(t)
    BY <1>7, <2>2, HeldKept DEF AppendPackage, SendNow, Inv, TypeOK, Held
  <2>3. QED
    BY <2>1, <2>2
<1>8. ASSUME NEW t \in Threads, SendFails(t) PROVE Held'
  BY <1>8, HeldKept DEF SendFails, Inv, TypeOK, Held
<1>9. ASSUME NEW t \in Threads, Remove(t) PROVE Held'
  <2>1. CASE Return(t)
    BY <1>9, <2>1, HeldReturned DEF Remove
  <2>2. CASE ~Return(t)
    BY <1>9, <2>2, HeldKept DEF Remove, Inv, TypeOK, Held
  <2>3. QED
    BY <2>1, <2>2
<1>10. ASSUME NEW t \in Threads, Erase(t) PROVE Held'
  <2>1. /\ does' = [does EXCEPT ![t] = "tell"]
        /\ \A f \in Fds : m_ClientSocketMap'[f] \in {Nobody, m_ClientSocketMap[f]}
        /\ UNCHANGED <<net, cfd, fd, sp>>
    BY <1>10 DEF Erase, Inv, TypeOK
  <2>2. \A u \in Threads : sp[u] # Nobody => fd[u] \in Fds
    BY DEF Held, Inv, Pointers, Connected
  <2>3. QED
    BY <2>1, <2>2 DEF Held, Connected, Inv, TypeOK
<1>11. ASSUME NEW t \in Threads, Tell(t) PROVE Held'
  BY <1>11, HeldReturned DEF Tell
<1>12. ASSUME Work PROVE Held'
  <2>1. CASE CloseNext
    BY <2>1, HeldKept DEF CloseNext, Idle, Inv, TypeOK, Held, Threads
  <2>2. CASE SendRest
    BY <2>2, HeldKept DEF SendRest, Send, Held
  <2>3. CASE ~CloseNext /\ ~SendRest
    BY <1>12, <2>3, HeldKept
       DEF Work, Enter, LeaveWork, FillSets, Watch, WatchFails, SelectReturns, RecvData,
           CallbackReturns, RecvNone, RecvClose, SendRestFails, NextSocket, AllClosed, Held
  <2>4. QED
    BY <2>1, <2>2, <2>3
<1>13. CASE UNCHANGED vars
  BY <1>13, HeldKept DEF vars, Held
<1>14. QED
  BY <1>1, <1>2, <1>3, <1>4, <1>5, <1>6, <1>7, <1>8, <1>9, <1>10, <1>11, <1>12, <1>13
     DEF Next, Call, Delete


-----------------------------------------------------------------------------
(* The steps on the map and on who tells *)

\* Steps that change no element of the map, and tell nobody.
LEMMA NothingTold ==
    ASSUME Tellers, ToldOnce, UNCHANGED <<cfd, m_ClientSocketMap, told, met>>,
           \A c \in Conns : net'[c] = "absent" <=> net[c] = "absent",
           sdk' = "deleted" <=> sdk = "deleted",
           \A t \in Threads : /\ Removing(t)' <=> Removing(t)
                              /\ Removing(t) => does'[t] = does[t] /\ sp'[t] = sp[t]
    PROVE  Tellers' /\ ToldOnce'
<1>1. \A c : Mapped(c)' <=> Mapped(c)
  BY DEF Mapped
<1>2. \A c : Connected(c)' <=> Connected(c)
  BY DEF Connected
<1>3. Tellers'
  <2>1. \A t \in Threads : does'[t] = "tell" => ~Mapped(sp[t])' /\ sp'[t] = sp[t]
    BY <1>1 DEF Tellers, Removing
  <2>2. ASSUME NEW c \in met PROVE Mapped(c) => \A t \in Threads : does'[t] = "erase" /\ sp'[t] = c
    BY DEF Tellers, Removing
  <2>3. QED
    BY <1>1, <1>2, <2>1, <2>2 DEF Tellers, Removing
<1>4. \A t \in Threads, c \in Conns : Owes(t, c)' = Owes(t, c)
  BY DEF Owes, Removing
<1>5. ToldOnce'
  BY <1>1, <1>4 DEF ToldOnce, Threads
<1>6. QED
  BY <1>3, <1>5

\* Who is past at() holds a connection that was made.
LEMMA RemovingFacts ==
    ASSUME Inv, Held, NEW t \in Threads, Removing(t)
    PROVE  /\ Connected(sp[t]) /\ sp[t] \in Conns /\ fd[t] = cfd[sp[t]] /\ fd[t] \in Fds
           /\ m_ClientSocketMap[fd[t]] \in {Nobody, sp[t]}
  BY NobodyAssumption DEF Inv, Pointers, Connected, Held, Removing

LEMMA ConnectTells ==
    ASSUME Inv, Held, Tellers, ToldOnce, NEW c \in Conns, Connect(c)
    PROVE  Tellers' /\ ToldOnce'
<1>1. PICK f \in FreeFds :
         /\ cfd' = [cfd EXCEPT ![c] = f]
         /\ m_ClientSocketMap' = [m_ClientSocketMap EXCEPT ![f] = c]
  BY DEF Connect
<1>2. /\ net[c] = "absent" /\ sdk = "used" /\ does["app"] = "nothing"
      /\ net'[c] # "absent" /\ \A d \in Conns \ {c} : net'[d] = net[d]
      /\ does' = [does EXCEPT !["app"] = "connected"]
      /\ UNCHANGED <<told, met, sp, sdk>>
  BY DEF Connect, Inv, TypeOK
<1>3. f \in Fds /\ \A d \in Conns : Mapped(d) => cfd[d] # f
  BY <1>1 DEF FreeFds, Live
<1>4. Mapped(c)' /\ \A d \in Conns \ {c} : Mapped(d)' <=> Mapped(d)
  BY <1>1, <1>2, <1>3 DEF Mapped, Inv, TypeOK, Pointers
<1>5. \A t \in Threads : /\ Removing(t)' <=> Removing(t)
                         /\ Removing(t) => does'[t] = does[t] /\ sp[t] \in Conns \ {c}
  BY <1>2, RemovingFacts DEF Removing, Inv, TypeOK, Connected
<1>6. \A d \in met : d \in Conns \ {c} /\ Connected(d)'
  BY <1>2 DEF Tellers, Connected
<1>7. Tellers'
  <2>1. ASSUME NEW t \in Threads, does'[t] = "tell" PROVE ~Mapped(sp[t])'
    <3>1. does[t] = "tell" /\ sp[t] \in Conns \ {c} /\ sp'[t] = sp[t]
      BY <1>2, <1>5, <2>1 DEF Removing
    <3>2. ~Mapped(sp[t])
      BY <3>1 DEF Tellers
    <3>3. PICK d \in Conns \ {c} : d = sp[t] /\ d = sp'[t]
      BY <3>1
    <3>4. ~Mapped(d)'
      BY <1>4, <3>2, <3>3
    <3>5. QED
      BY <3>3, <3>4
  <2>2. \A d \in met : Mapped(d)' => \A t \in Threads : does'[t] = "erase" /\ sp'[t] = d
    BY <1>2, <1>4, <1>5, <1>6 DEF Tellers, Removing
  <2>3. QED
    BY <1>2, <1>5, <1>6, <2>1, <2>2 DEF Tellers
<1>8. \A t \in Threads : /\ Owes(t, c)' = 0
                         /\ \A d \in Conns \ {c} : Owes(t, d)' = Owes(t, d)
  BY <1>2, <1>5 DEF Owes, Removing
<1>9. ToldOnce'
  BY <1>2, <1>4, <1>8 DEF ToldOnce, Threads
<1>10. QED
  BY <1>7, <1>9

\* at(): the connection is in the map, so that another thread that is past
\* at() for it has not erased it either, and the two have met.
LEMMA LookUpTells ==
    ASSUME Inv, Held, Tellers, ToldOnce, NEW t \in Threads, LookUp(t)
    PROVE  Tellers' /\ ToldOnce'
<1>1. PICK c \in Conns : c = m_ClientSocketMap[fd[t]] /\ Connected(c) /\ Mapped(c)
  <2>1. fd[t] \in Fds /\ m_ClientSocketMap[fd[t]] # Nobody
    BY DEF LookUp, Inv, Pointers
  <2>2. QED
    BY <2>1 DEF Inv, Pointers, Mapped, Connected
<1>2. /\ does[t] = "at" /\ does' = [does EXCEPT ![t] = "erase"]
      /\ sp' = [sp EXCEPT ![t] = c]
      /\ met' = IF does[Other(t)] = "erase" /\ sp[Other(t)] = c THEN met \cup {c} ELSE met
      /\ UNCHANGED <<net, cfd, m_ClientSocketMap, told, sdk>>
  BY <1>1 DEF LookUp, peerVars, objVars
<1>3. /\ Other(t) \in Threads \ {t} /\ Threads = {t, Other(t)}
      /\ does'[t] = "erase" /\ sp'[t] = c
      /\ does'[Other(t)] = does[Other(t)] /\ sp'[Other(t)] = sp[Other(t)]
  BY <1>2 DEF Other, Threads, Inv, TypeOK
<1>4. \A d : /\ Mapped(d)' <=> Mapped(d)
             /\ Connected(d)' <=> Connected(d)
  BY <1>2 DEF Mapped, Connected
<1>5. c \notin met
  BY <1>1, <1>2 DEF Tellers
<1>6. Tellers'
  <2>1. ASSUME NEW u \in Threads, does'[u] = "tell" PROVE ~Mapped(sp[u])'
    <3>1. u = Other(t) /\ does[u] = "tell" /\ sp'[u] = sp[u]
      BY <1>3, <2>1
    <3>2. PICK d : d = sp[u] /\ d = sp'[u]
      BY <3>1
    <3>3. ~Mapped(d)'
      BY <1>4, <3>1, <3>2 DEF Tellers
    <3>4. QED
      BY <3>2, <3>3
  <2>2. Removing(Other(t)) /\ sp[Other(t)] = c => does[Other(t)] = "erase" /\ c \in met'
    BY <1>1, <1>2, <1>3 DEF Tellers, Removing
  <2>3. \A r, u \in Threads :
           Removing(r)' /\ Removing(u)' /\ r # u /\ sp'[r] = sp'[u] => sp'[r] \in met'
    BY <1>3, <2>2 DEF Removing
  <2>4. ASSUME NEW d \in met'
        PROVE  /\ Connected(d)'
               /\ Mapped(d)' => \A u \in Threads : does'[u] = "erase" /\ sp'[u] = d
    <3>1. CASE d = c
      BY <1>1, <1>2, <1>3, <1>4, <1>5, <2>4, <3>1
    <3>2. CASE d # c
      BY <1>2, <1>4, <2>4, <3>2 DEF Tellers
    <3>3. QED
      BY <3>1, <3>2
  <2>5. QED
    BY <2>1, <2>3, <2>4 DEF Tellers
<1>7. ToldOnce'
  <2>1. ASSUME NEW d \in Conns \ {c}
        PROVE  /\ Owes("app", d)' = Owes("app", d) /\ Owes("select", d)' = Owes("select", d)
               /\ d \in met' <=> d \in met
    BY <1>2, <1>3 DEF Owes, Threads
  <2>2. told'[c] = 0
    BY <1>1, <1>2 DEF ToldOnce
  <2>3. ASSUME NEW d \in Conns \ {c}
        PROVE  told'[d] = IF \/ Mapped(d)'
                             \/ net'[d] = "absent"
                             \/ sdk' = "deleted" /\ told'[d] = 0
                          THEN 0
                          ELSE (IF d \in met' THEN 2 ELSE 1)
                               - Owes("app", d)' - Owes("select", d)'
    BY <1>2, <1>4, <2>1 DEF ToldOnce
  <2>4. QED
    BY <1>1, <1>4, <2>2, <2>3 DEF ToldOnce
<1>8. QED
  BY <1>6, <1>7

\* erase(): of the two that have met the first takes the connection out of the
\* map, for the second there is nothing left to erase.
LEMMA EraseTells ==
    ASSUME Inv, Held, Tellers, ToldOnce, NEW t \in Threads, Erase(t)
    PROVE  Tellers' /\ ToldOnce'
<1>1. PICK c \in Conns : /\ c = sp[t] /\ Connected(c) /\ cfd[c] = fd[t] /\ fd[t] \in Fds
                         /\ m_ClientSocketMap[fd[t]] \in {Nobody, c}
  BY RemovingFacts DEF Erase, Removing
<1>2. /\ does[t] = "erase" /\ does' = [does EXCEPT ![t] = "tell"]
      /\ m_ClientSocketMap' = [m_ClientSocketMap EXCEPT ![fd[t]] = Nobody]
      /\ UNCHANGED <<net, cfd, told, met, sp, sdk>>
  BY DEF Erase, peerVars, objVars
<1>3. ~Mapped(c)' /\ \A d \in Conns \ {c} : Mapped(d)' <=> Mapped(d)
  BY <1>1, <1>2, NobodyAssumption DEF Mapped, Connected, Inv, TypeOK
<1>4. /\ does'[t] = "tell" /\ \A u \in Threads \ {t} : does'[u] = does[u]
      /\ \A u \in Threads : Removing(u)' <=> Removing(u)
  BY <1>2 DEF Removing, Inv, TypeOK
<1>5. Tellers'
  <2>1. ASSUME NEW u \in Threads, does'[u] = "tell" PROVE ~Mapped(sp[u])'
    <3>1. CASE sp[u] = c
      <4>1. c = sp'[u]
        BY <1>2, <3>1
      <4>2. QED
        BY <1>3, <4>1
    <3>2. CASE sp[u] # c
      <4>1. u # t /\ does[u] = "tell"
        BY <1>1, <1>4, <2>1, <3>2
      <4>2. sp[u] \in Conns \ {c}
        BY <3>2, <4>1, RemovingFacts DEF Removing
      <4>3. PICK d \in Conns \ {c} : d = sp[u] /\ d = sp'[u]
        BY <1>2, <4>2
      <4>4. ~Mapped(d)'
        BY <1>3, <4>1, <4>3 DEF Tellers
      <4>5. QED
        BY <4>3, <4>4
    <3>3. QED
      BY <3>1, <3>2
  <2>2. ASSUME NEW d \in met
        PROVE  Connected(d)' /\ ~Mapped(d)'
    <3>1. Connected(d) /\ d \in Conns
      BY DEF Tellers, Connected
    <3>2. d # c => ~Mapped(d)
      BY <1>1 DEF Tellers
    <3>3. QED
      BY <1>2, <1>3, <3>1, <3>2 DEF Connected
  <2>3. QED
    BY <1>2, <1>4, <2>1, <2>2 DEF Tellers
<1>6. \A u \in Threads, d \in Conns : Owes(u, d)' = Owes(u, d)
  BY <1>2, <1>4 DEF Owes, Removing
<1>7. told'[c] = IF \/ net'[c] = "absent"
                    \/ sdk' = "deleted" /\ told'[c] = 0
                 THEN 0
                 ELSE (IF c \in met' THEN 2 ELSE 1) - Owes("app", c)' - Owes("select", c)'
  <2>1. CASE Mapped(c)
    <3>1. told[c] = 0
      BY <2>1 DEF ToldOnce
    <3>2. CASE c \in met
      <4>1. \A u \in Threads : Owes(u, c) = 1
        BY <2>1, <3>2 DEF Tellers, Owes
      <4>2. QED
        BY <1>2, <1>6, <3>1, <3>2, <4>1 DEF Threads
    <3>3. CASE c \notin met
      <4>1. \A u \in Threads : Owes(u, c) = IF u = t THEN 1 ELSE 0
        BY <1>1, <1>2, <3>3 DEF Tellers, Owes, Removing
      <4>2. QED
        BY <1>2, <1>6, <3>1, <3>3, <4>1 DEF Threads
    <3>4. QED
      BY <3>2, <3>3
  <2>2. CASE ~Mapped(c)
    BY <1>2, <1>6, <2>2 DEF ToldOnce, Threads
  <2>3. QED
    BY <2>1, <2>2
<1>8. ToldOnce'
  <2>1. ASSUME NEW d \in Conns \ {c}
        PROVE  told'[d] = IF \/ Mapped(d)'
                             \/ net'[d] = "absent"
                             \/ sdk' = "deleted" /\ told'[d] = 0
                          THEN 0
                          ELSE (IF d \in met' THEN 2 ELSE 1)
                               - Owes("app", d)' - Owes("select", d)'
    BY <1>2, <1>3, <1>6 DEF ToldOnce, Threads
  <2>2. QED
    BY <1>3, <1>7, <2>1 DEF ToldOnce
<1>9. QED
  BY <1>5, <1>8

LEMMA TellTells ==
    ASSUME Inv, Held, Tellers, ToldOnce, NEW t \in Threads, Tell(t)
    PROVE  Tellers' /\ ToldOnce'
<1>1. PICK c \in Conns : c = sp[t] /\ Connected(c) /\ ~Mapped(c)
  BY RemovingFacts DEF Tell, Removing, Tellers
<1>2. /\ does[t] = "tell" /\ sdk = "used" /\ Return(t)
      /\ told' = [told EXCEPT ![c] = @ + 1]
      /\ UNCHANGED <<net, cfd, m_ClientSocketMap, met, sdk>>
  BY <1>1 DEF Tell, peerVars, objVars
<1>3. \A d : /\ Mapped(d)' <=> Mapped(d)
             /\ Connected(d)' <=> Connected(d)
  BY <1>2 DEF Mapped, Connected
<1>4. /\ does'[t] = "nothing" /\ ~Removing(t)'
      /\ \A u \in Threads \ {t} : does'[u] = does[u] /\ sp'[u] = sp[u]
  BY <1>2, ReturnFacts DEF Removing
<1>5. Tellers'
  <2>1. \A u \in Threads : Removing(u)' => Removing(u) /\ sp'[u] = sp[u] /\ does'[u] = does[u]
    BY <1>4 DEF Removing
  <2>2. \A d \in met : ~Mapped(d)
    BY <1>2 DEF Tellers
  <2>3. QED
    BY <1>2, <1>3, <2>1, <2>2 DEF Tellers, Removing
<1>6. /\ told[c] \in Nat /\ told'[c] = told[c] + 1
      /\ \A d \in Conns \ {c} : told'[d] = told[d]
  BY <1>2 DEF Inv, TypeOK
<1>7. /\ Owes(t, c) = 1 /\ Owes(t, c)' = 0
      /\ \A u \in Threads, d \in Conns : u # t \/ d # c => Owes(u, d)' = Owes(u, d)
  BY <1>1, <1>2, <1>4 DEF Owes
<1>8. ASSUME NEW d \in Conns
      PROVE  told'[d] = IF \/ Mapped(d)'
                           \/ net'[d] = "absent"
                           \/ sdk' = "deleted" /\ told'[d] = 0
                        THEN 0
                        ELSE (IF d \in met' THEN 2 ELSE 1)
                             - Owes("app", d)' - Owes("select", d)'
  <2>1. /\ Owes("app", d) \in {0, 1} /\ Owes("select", d) \in {0, 1}
        /\ Owes("app", d)' \in {0, 1} /\ Owes("select", d)' \in {0, 1}
    BY DEF Owes
  <2>2. CASE d = c
    <3>1. told[c] = (IF c \in met THEN 2 ELSE 1) - Owes("app", c) - Owes("select", c)
      BY <1>1, <1>2 DEF ToldOnce, Connected
    <3>2. Owes("app", c)' + Owes("select", c)' + 1 = Owes("app", c) + Owes("select", c)
      BY <1>7, <2>1, <2>2 DEF Threads
    <3>3. ~Mapped(c)' /\ net'[c] # "absent" /\ sdk' = "used"
      BY <1>1, <1>2, <1>3 DEF Connected
    <3>4. QED
      BY <1>2, <1>6, <2>1, <2>2, <3>1, <3>2, <3>3
  <2>3. CASE d # c
    BY <1>2, <1>3, <1>6, <1>7, <2>3 DEF ToldOnce, Threads
  <2>4. QED
    BY <2>2, <2>3
<1>9. ToldOnce'
  BY <1>8 DEF ToldOnce
<1>10. QED
  BY <1>5, <1>9

\* Deleting the SDK takes every connection out of the map and tells none.
LEMMA JoinTells ==
    ASSUME Inv, Held, Tellers, ToldOnce, JoinWork
    PROVE  Tellers' /\ ToldOnce'
<1>1. /\ sdk' = "deleted" /\ sdk # "deleted"
      /\ m_ClientSocketMap' = [f \in Fds |-> Nobody]
      /\ UNCHANGED <<net, cfd, told, met, does, sp>>
  BY DEF JoinWork, peerVars, objVars
<1>2. \A c \in Conns : ~Mapped(c)'
  BY <1>1, NobodyAssumption DEF Mapped
<1>3. Tellers'
  <2>1. \A t \in Threads : does[t] = "tell" => sp[t] \in Conns
    BY RemovingFacts DEF Removing
  <2>2. \A d \in met : Connected(d)' /\ d \in Conns
    BY <1>1 DEF Tellers, Connected
  <2>3. QED
    BY <1>1, <1>2, <2>1, <2>2 DEF Tellers, Removing
<1>4. \A u \in Threads, d \in Conns : Owes(u, d)' = Owes(u, d)
  BY <1>1 DEF Owes
<1>5. ToldOnce'
  BY <1>1, <1>2, <1>4 DEF ToldOnce, Threads
<1>6. QED
  BY <1>3, <1>5

\* A call that goes on before at(), or returns, tells nobody.
LEMMA CallsTell ==
    ASSUME Inv, Tellers, ToldOnce, NEW t \in Threads,
           \/ GetClientSocket(t) \/ AppendPackage(t) \/ SendNow(t) \/ SendFails(t)
           \/ Remove(t)
    PROVE  Tellers' /\ ToldOnce'
<1>1. /\ ~Removing(t)
      /\ UNCHANGED <<net, cfd, m_ClientSocketMap, told, met, sdk>>
  BY DEF GetClientSocket, AppendPackage, SendNow, Send, SendFails, Remove, Removing,
         peerVars, objVars, mapVars
<1>2. ~Removing(t)' /\ \A u \in Threads \ {t} : does'[u] = does[u] /\ sp'[u] = sp[u]
  <2>1. CASE Return(t)
    BY <2>1, ReturnFacts DEF Removing
  <2>2. CASE ~Return(t)
    BY <2>2 DEF GetClientSocket, AppendPackage, SendNow, SendFails, Remove, Removing,
                Inv, TypeOK
  <2>3. QED
    BY <2>1, <2>2
<1>3. QED
  BY <1>1, <1>2, NothingTold DEF Removing

\* Every other step leaves the map and the tellers as they are.
LEMMA OthersTell ==
    ASSUME Inv, Tellers, ToldOnce,
           \/ Servers \/ Work \/ ConnectReturns \/ DeleteSdk \/ SetDestroyFlag
           \/ \E t \in Threads, c \in Conns : SendPackage(t, c)
           \/ UNCHANGED vars
    PROVE  Tellers' /\ ToldOnce'
<1> USE DEF peerVars, objVars, mapVars, setVars, workVars, callVars
<1>1. CASE Servers
  BY <1>1, NothingTold DEF Servers, PeerSends, PeerReads, PeerLeaves, Inv, TypeOK, Removing
<1>2. CASE Work
  <2>1. CASE RecvData \/ CloseNext
    BY <2>1, NothingTold DEF RecvData, CloseNext, Idle, Inv, TypeOK, Removing, Threads
  <2>2. CASE SendRest
    BY <2>2, NothingTold DEF SendRest, Send, Removing
  <2>3. CASE \/ Enter \/ LeaveWork \/ FillSets \/ Watch \/ WatchFails \/ SelectReturns
             \/ CallbackReturns \/ RecvNone \/ RecvClose \/ SendRestFails \/ NextSocket
             \/ AllClosed
    BY <2>3, NothingTold
       DEF Enter, LeaveWork, FillSets, Watch, WatchFails, SelectReturns, CallbackReturns,
           RecvNone, RecvClose, SendRestFails, NextSocket, AllClosed, Removing
  <2>4. QED
    BY <1>2, <2>1, <2>2, <2>3 DEF Work
<1>3. CASE ConnectReturns \/ DeleteSdk \/ SetDestroyFlag
  BY <1>3, NothingTold
     DEF ConnectReturns, DeleteSdk, SetDestroyFlag, Inv, TypeOK, Removing
<1>4. ASSUME NEW t \in Threads, NEW c \in Conns, SendPackage(t, c)
      PROVE  Tellers' /\ ToldOnce'
  BY <1>4, NothingTold DEF SendPackage, Inv, TypeOK, Removing
<1>5. CASE UNCHANGED vars
  BY <1>5, NothingTold DEF vars, Removing
<1>6. QED
  BY <1>1, <1>2, <1>3, <1>4, <1>5

LEMMA NextTells ==
    Inv /\ Held /\ Tellers /\ ToldOnce /\ [Next]_vars => Tellers' /\ ToldOnce'
<1> SUFFICES ASSUME Inv, Held, Tellers, ToldOnce, [Next]_vars PROVE Tellers' /\ ToldOnce'
  OBVIOUS
<1>1. CASE \E c \in Conns : Connect(c)
  BY <1>1, ConnectTells
<1>2. CASE \E t \in Threads : Call(t)
  BY <1>2, CallsTell, LookUpTells, EraseTells, TellTells DEF Call
<1>3. CASE Delete
  BY <1>3, OthersTell, JoinTells DEF Delete
<1>4. QED
  BY <1>1, <1>2, <1>3, OthersTell DEF Next

LEMMA InitTells == Init => Held /\ Tellers /\ ToldOnce
<1> SUFFICES ASSUME Init PROVE Held /\ Tellers /\ ToldOnce
  OBVIOUS
<1>1. Held /\ Tellers
  BY DEF Init, Held, Tellers, Removing
<1>2. ToldOnce
  BY DEF Init, ToldOnce
<1>3. QED
  BY <1>1, <1>2

LEMMA Telling == SafeSpec => [](Inv /\ Held /\ Tellers /\ ToldOnce)
  BY InitTells, Invariance, NextHeld, NextTells, PTL DEF SafeSpec

\* However the two threads meet in Remove(), and however often a descriptor is
\* in closeSocket, every one of them that finds a connection there before it is
\* erased tells its end, and somebody does (SDK Select.cpp 30-42, 142-145).
THEOREM EveryEndToldOnce == SafeSpec => []ToldOnce
  BY Telling, PTL


-----------------------------------------------------------------------------
(* What a step takes nothing away from *)

LEMMA SendPackageFacts ==
    ASSUME Inv, NEW t \in Threads, NEW c \in Conns, SendPackage(t, c)
    PROVE  /\ sends' > 0 /\ (t = "select" => work = "callback")
           /\ \/ UNCHANGED <<does, fd>>
              \/ does' = [does EXCEPT ![t] = "get"] /\ fd' = [fd EXCEPT ![t] = cfd[c]]
           /\ UNCHANGED <<peerVars, objVars, mapVars, workVars, sp, sdk>>
<1>1. sends \in Nat /\ sends' = sends + 1
  BY BoundsAssumption DEF SendPackage, Inv, TypeOK
<1>2. sends' > 0
  BY <1>1
<1>3. QED
  BY <1>2 DEF SendPackage, Threads

\* What was said of an end, and why, stays.
LEMMA Grows ==
    ASSUME Inv, [Next]_vars
    PROVE  /\ sends > 0 => sends' > 0
           /\ \A c \in Conns :
                 /\ told[c] > 0 => told'[c] > 0
                 /\ Ended(c) => Ended(c)'
                 /\ net[c] = "rst" => net'[c] = "rst"
                 /\ Connected(c) => Connected(c)' /\ cfd'[c] = cfd[c]
           /\ \A t \in Threads : Removing(t) =>
                 told'[sp[t]] > 0 \/ (Removing(t)' /\ sp'[t] = sp[t])
<1> DEFINE Kept == /\ UNCHANGED <<cfd, told>> /\ (sends > 0 => sends' > 0)
                   /\ \A c \in Conns : /\ net[c] = "fin" => net'[c] \in {"fin", "rst"}
                                       /\ net[c] = "rst" => net'[c] = "rst"
                                       /\ net[c] # "absent" => net'[c] # "absent"
                   /\ \A t \in Threads : Removing(t) => Removing(t)' /\ sp'[t] = sp[t]
<1> SUFFICES ASSUME ~Kept
    PROVE  /\ sends > 0 => sends' > 0
           /\ \A c \in Conns :
                 /\ told[c] > 0 => told'[c] > 0
                 /\ Ended(c) => Ended(c)'
                 /\ net[c] = "rst" => net'[c] = "rst"
                 /\ Connected(c) => Connected(c)' /\ cfd'[c] = cfd[c]
           /\ \A t \in Threads : Removing(t) =>
                 told'[sp[t]] > 0 \/ (Removing(t)' /\ sp'[t] = sp[t])
  BY DEF Ended, Connected
<1>1. ~Servers
  BY DEF Servers, PeerSends, PeerReads, PeerLeaves, Inv, TypeOK, Removing, callVars,
         objVars, mapVars
<1>2. ASSUME NEW c \in Conns, Connect(c)
      PROVE  /\ sends' = sends /\ told' = told
             /\ \A d \in Conns \ {c} : net'[d] = net[d] /\ cfd'[d] = cfd[d]
             /\ net[c] = "absent"
             /\ \A t \in Threads : Removing(t) => Removing(t)' /\ sp'[t] = sp[t]
  BY <1>2 DEF Connect, Inv, TypeOK, Removing
<1>3. ~(ConnectReturns \/ DeleteSdk \/ Delete)
  BY DEF ConnectReturns, DeleteSdk, Delete, SetDestroyFlag, JoinWork, Inv, TypeOK,
         Removing, peerVars, objVars, mapVars
<1>4. ASSUME NEW t \in Threads, NEW c \in Conns, SendPackage(t, c) PROVE FALSE
  <2>1. does[t] = "nothing"
    BY <1>4 DEF SendPackage
  <2>2. QED
    BY <1>4, <2>1, SendPackageFacts DEF Inv, TypeOK, Removing, peerVars, objVars, mapVars
<1>5. ASSUME NEW t \in Threads, Call(t), ~Tell(t) PROVE FALSE
  <2>1. UNCHANGED <<net, cfd, told, sends>>
    BY <1>5 DEF Call, GetClientSocket, AppendPackage, SendNow, Send, SendFails, Remove,
                LookUp, Erase, peerVars, objVars, mapVars
  <2>2. \A u \in Threads \ {t} : does'[u] = does[u] /\ sp'[u] = sp[u]
    <3>1. CASE Return(t)
      BY <3>1, ReturnFacts
    <3>2. CASE ~Return(t)
      BY <1>5, <3>2 DEF Call, GetClientSocket, AppendPackage, SendNow, SendFails, Remove,
                        LookUp, Erase, Inv, TypeOK
    <3>3. QED
      BY <3>1, <3>2
  <2>3. Removing(t) => does'[t] = "tell" /\ sp'[t] = sp[t]
    BY <1>5 DEF Call, GetClientSocket, AppendPackage, SendNow, SendFails, Remove,
                LookUp, Erase, Inv, TypeOK, Removing
  <2>4. QED
    BY <2>1, <2>2, <2>3 DEF Removing
<1>6. ASSUME NEW t \in Threads, Tell(t)
      PROVE  /\ UNCHANGED <<net, cfd, sends>>
             /\ \A c \in Conns : told[c] > 0 => told'[c] > 0
             /\ told'[sp[t]] > 0
             /\ \A u \in Threads \ {t} : does'[u] = does[u] /\ sp'[u] = sp[u]
  <2>1. sp[t] \in Conns /\ told \in [Conns -> Nat]
    BY <1>6 DEF Tell, Inv, TypeOK, Pointers, Connected
  <2>2. told' = [told EXCEPT ![sp[t]] = @ + 1]
    BY <1>6 DEF Tell
  <2>3. \A c \in Conns : told'[c] = IF c = sp[t] THEN told[c] + 1 ELSE told[c]
    BY <2>1, <2>2
  <2>4. Return(t) /\ UNCHANGED <<net, cfd, sends>>
    BY <1>6 DEF Tell, peerVars, objVars
  <2>5. QED
    BY <2>1, <2>3, <2>4, ReturnFacts
<1>7. ~Work
  <2>1. ~SendRest
    BY DEF SendRest, Send, Removing, mapVars, callVars
  <2>2. ~CloseNext
    BY DEF CloseNext, Idle, Inv, TypeOK, Removing, Threads, peerVars, objVars, mapVars
  <2>3. QED
    BY <2>1, <2>2
       DEF Work, Enter, LeaveWork, FillSets, Watch, WatchFails, SelectReturns, RecvData,
           CallbackReturns, RecvNone, RecvClose, SendRestFails, NextSocket, AllClosed,
           Removing, peerVars, objVars, mapVars, callVars
<1>8. ~UNCHANGED vars
  BY DEF vars, Removing, peerVars, objVars, mapVars, callVars
<1>9. CASE \E c \in Conns : Connect(c)
  BY <1>2, <1>9 DEF Ended, Connected
<1>10. CASE \E t \in Threads : Tell(t)
  BY <1>6, <1>10 DEF Ended, Connected, Removing
<1>11. QED
  BY <1>1, <1>3, <1>4, <1>5, <1>7, <1>8, <1>9, <1>10 DEF Next

LEMMA ReasonsGrow ==
    ASSUME Inv, [Next]_vars
    PROVE  /\ \A f \in Fds : Spent(f) => Spent(f)'
           /\ \A c \in Conns : Connected(c) /\ Allowed(c) => Allowed(c)'
<1>1. ASSUME NEW f \in Fds, Spent(f) PROVE Spent(f)'
  <2>1. PICK d \in Conns : cfd[d] = f /\ net[d] = "rst" /\ Spoken(d)
    BY <1>1 DEF Spent
  <2>2. cfd'[d] = f /\ net'[d] = "rst" /\ sends' > 0
    BY <1>1, <2>1, Grows DEF Spent, Connected
  <2>3. Spoken(d)'
    BY <2>1, Grows DEF Spoken
  <2>4. QED
    BY <2>2, <2>3 DEF Spent
<1>2. ASSUME NEW c \in Conns, Connected(c), Allowed(c) PROVE Allowed(c)'
  <2>1. CASE Ended(c)
    BY <2>1, Grows DEF Allowed
  <2>2. CASE ~Ended(c)
    <3>1. PICK d \in Conns \ {c} : cfd[d] = cfd[c] /\ net[d] = "rst" /\ told[d] > 0
      BY <1>2, <2>2 DEF Allowed
    <3>2. cfd'[d] = cfd'[c] /\ net'[d] = "rst" /\ told'[d] > 0 /\ sends' > 0
      BY <1>2, <2>2, <3>1, Grows DEF Allowed, Connected
    <3>3. QED
      BY <3>2 DEF Allowed
  <2>3. QED
    BY <2>1, <2>2
<1>3. QED
  BY <1>1, <1>2

\* A descriptor stays due as long as the map has what it had there.
LEMMA DueKept ==
    ASSUME Inv, [Next]_vars, NEW f \in Fds, m_ClientSocketMap'[f] = m_ClientSocketMap[f]
    PROVE  (Due(f) => Due(f)') /\ (DueAgain(f) => DueAgain(f)')
<1>1. m_ClientSocketMap[f] # Nobody => m_ClientSocketMap[f] \in Conns
  BY DEF Inv, Pointers, Connected
<1>2. CASE m_ClientSocketMap[f] = Nobody
  BY <1>2, ReasonsGrow DEF Due, DueAgain
<1>3. CASE m_ClientSocketMap[f] # Nobody
  <2>1. PICK c \in Conns : c = m_ClientSocketMap[f] /\ c = m_ClientSocketMap'[f]
    BY <1>1, <1>3
  <2>2. /\ Ended(c) => Ended(c)'
        /\ sends > 0 /\ net[c] = "rst" => sends' > 0 /\ net'[c] = "rst"
    BY Grows
  <2>3. QED
    BY <1>3, <2>1, <2>2, ReasonsGrow DEF Due, DueAgain
<1>4. QED
  BY <1>2, <1>3

-----------------------------------------------------------------------------
(* The steps on why a connection is removed *)

\* Who calls Remove because send() has failed finds the connection he sent on,
\* or none.
LEMMA FailsFacts ==
    ASSUME Inv, Held, Place, Removers, NEW t \in Threads,
           does[t] \in {"remove", "at", "erase"}, Fails(t)
    PROVE  /\ sends > 0 /\ sp[t] # Nobody /\ Connected(sp[t]) /\ net[sp[t]] = "rst"
           /\ fd[t] = cfd[sp[t]] /\ fd[t] \in Fds
           /\ m_ClientSocketMap[fd[t]] \in {Nobody, sp[t]}
<1>1. sp[t] # Nobody
  <2>1. CASE does[t] = "erase"
    BY <2>1, NobodyAssumption DEF Inv, Pointers, Connected
  <2>2. CASE does[t] # "erase"
    BY <2>2 DEF Place, Fails, Threads
  <2>3. QED
    BY <2>1, <2>2
<1>2. QED
  BY <1>1 DEF Held, Removers, Inv, Pointers

\* Only the thread of Select, removing what closeSocket names, can take away
\* why a descriptor is due, and gives another reason as it does.
LEMMA DueStays ==
    ASSUME Inv, Held, Place, Removers, [Next]_vars, ~JoinWork,
           Erase("select") => work # "close"
    PROVE  \A f \in Fds : (Due(f) => Due(f)') /\ (DueAgain(f) => DueAgain(f)')
<1> SUFFICES ASSUME NEW f \in Fds
             PROVE  (Due(f) => Due(f)') /\ (DueAgain(f) => DueAgain(f)')
  OBVIOUS
<1>1. CASE m_ClientSocketMap'[f] = m_ClientSocketMap[f]
  BY <1>1, DueKept
<1>2. CASE \E c \in Conns : Connect(c) /\ m_ClientSocketMap'[f] # m_ClientSocketMap[f]
  <2>1. PICK c \in Conns, g \in FreeFds : m_ClientSocketMap' = [m_ClientSocketMap EXCEPT ![g] = c]
    BY <1>2 DEF Connect
  <2>2. g = f
    BY <1>2, <2>1 DEF FreeFds, Inv, TypeOK
  <2>3. m_ClientSocketMap[f] = Nobody
    BY <2>1, <2>2 DEF FreeFds, Live, Mapped, Inv, Pointers, Connected
  <2>4. QED
    BY <2>3, ReasonsGrow DEF Due, DueAgain
<1>3. CASE \E t \in Threads : Erase(t) /\ m_ClientSocketMap'[f] # m_ClientSocketMap[f]
  <2>1. PICK t \in Threads : Erase(t) /\ m_ClientSocketMap'[f] # m_ClientSocketMap[f]
    BY <1>3
  <2>2. /\ does[t] = "erase" /\ does' = [does EXCEPT ![t] = "tell"]
        /\ m_ClientSocketMap' = [m_ClientSocketMap EXCEPT ![fd[t]] = Nobody]
        /\ UNCHANGED <<net, cfd, sp, sends>>
    BY <2>1 DEF Erase, peerVars, objVars
  <2>3. fd[t] = f
    BY <2>1, <2>2 DEF Inv, TypeOK
  <2>4. Fails(t)
    BY <2>1, <2>2 DEF Fails, Threads, Place
  <2>5. PICK c \in Conns : c = sp[t] /\ c = sp'[t] /\ net[c] = "rst" /\ cfd[c] = f /\ sends > 0
    BY <2>2, <2>3, <2>4, FailsFacts DEF Connected
  <2>6. Removing(t)'
    BY <2>2 DEF Removing, Inv, TypeOK
  <2>7. Spoken(c)'
    BY <2>5, <2>6 DEF Spoken
  <2>8. Spent(f)'
    BY <2>2, <2>5, <2>7 DEF Spent
  <2>9. QED
    BY <2>8 DEF Due, DueAgain
<1>4. ASSUME m_ClientSocketMap'[f] # m_ClientSocketMap[f]
      PROVE  (\E c \in Conns : Connect(c)) \/ (\E t \in Threads : Erase(t))
  <2>1. ~Servers /\ ~UNCHANGED vars
    BY <1>4 DEF Servers, PeerSends, PeerReads, PeerLeaves, vars, mapVars
  <2>2. ~(ConnectReturns \/ DeleteSdk \/ SetDestroyFlag)
    BY <1>4 DEF ConnectReturns, DeleteSdk, SetDestroyFlag, mapVars
  <2>3. ~(\E t \in Threads, c \in Conns : SendPackage(t, c))
    BY <1>4 DEF SendPackage, mapVars
  <2>4. \A t \in Threads : Call(t) => Erase(t)
    BY <1>4 DEF Call, GetClientSocket, AppendPackage, SendNow, SendFails, Remove, LookUp,
                Tell, mapVars
  <2>5. ~Work
    BY <1>4 DEF Work, Enter, LeaveWork, FillSets, Watch, WatchFails, SelectReturns,
                RecvData, CallbackReturns, RecvNone, RecvClose, SendRest, SendRestFails,
                NextSocket, CloseNext, AllClosed, mapVars
  <2>6. QED
    BY <2>1, <2>2, <2>3, <2>4, <2>5 DEF Next, Delete
<1>5. QED
  BY <1>1, <1>2, <1>3, <1>4

LEMMA NextSent == Inv /\ Sent /\ [Next]_vars => Sent'
<1> SUFFICES ASSUME Inv, Sent, [Next]_vars PROVE Sent'
  OBVIOUS
<1>0. sends > 0 => sends' > 0
  BY Grows
<1>1. ASSUME \A c \in Conns : wbuf'[c] > 0 => wbuf[c] > 0,
             \A t \in Threads : does'[t] \in {"get", "append", "send"} =>
                                does[t] \in {"get", "append", "send"}
      PROVE  Sent'
  BY <1>0, <1>1 DEF Sent
<1>2. CASE Servers \/ UNCHANGED vars
  BY <1>1, <1>2 DEF Servers, PeerSends, PeerReads, PeerLeaves, vars, objVars, callVars
<1>3. CASE \/ \E c \in Conns : Connect(c)
           \/ ConnectReturns \/ DeleteSdk \/ Delete
  BY <1>1, <1>3 DEF Connect, ConnectReturns, DeleteSdk, Delete, SetDestroyFlag, JoinWork,
                    Inv, TypeOK, objVars
<1>4. ASSUME NEW t \in Threads, NEW c \in Conns, SendPackage(t, c) PROVE Sent'
  BY <1>4, SendPackageFacts DEF Sent, objVars
<1>5. ASSUME NEW t \in Threads, Call(t) PROVE Sent'
  <2>1. CASE AppendPackage(t)
    <3>1. sends > 0
      BY <2>1 DEF AppendPackage, Sent
    <3>2. QED
      BY <1>0, <3>1 DEF Sent
  <2>2. CASE SendNow(t)
    <3>1. sends > 0
      BY <2>2 DEF SendNow, Sent
    <3>2. QED
      BY <1>0, <3>1 DEF Sent
  <2>3. CASE ~AppendPackage(t) /\ ~SendNow(t)
    <3>1. UNCHANGED wbuf
      BY <1>5, <2>3 DEF Call, GetClientSocket, SendFails, Remove, LookUp, Erase, Tell,
                        objVars
    <3>2. \A u \in Threads : does'[u] \in {"get", "append", "send"} =>
                             does[u] \in {"get", "append", "send"}
      <4>1. CASE Return(t)
        BY <4>1, ReturnFacts
      <4>2. CASE ~Return(t)
        BY <1>5, <2>3, <4>2 DEF Call, GetClientSocket, SendFails, Remove, LookUp, Erase,
                                Tell, Inv, TypeOK
      <4>3. QED
        BY <4>1, <4>2
    <3>3. QED
      BY <1>1, <3>1, <3>2
  <2>4. QED
    BY <2>1, <2>2, <2>3
<1>6. CASE Work
  <2>1. CASE SendRest
    <3>1. Send(begin) /\ begin \in Conns /\ UNCHANGED does
      BY <2>1 DEF SendRest, Inv, Pointers, InLoop, Connected, callVars
    <3>2. \A c \in Conns : wbuf'[c] > 0 => wbuf[c] > 0
      BY <3>1, SendFacts
    <3>3. QED
      BY <1>1, <3>1, <3>2
  <2>2. CASE CloseNext
    BY <1>1, <2>2 DEF CloseNext, Inv, TypeOK, objVars
  <2>3. CASE ~SendRest /\ ~CloseNext
    BY <1>1, <1>6, <2>3
       DEF Work, Enter, LeaveWork, FillSets, Watch, WatchFails, SelectReturns, RecvData,
           CallbackReturns, RecvNone, RecvClose, SendRestFails, NextSocket, AllClosed,
           objVars, callVars
  <2>4. QED
    BY <2>1, <2>2, <2>3
<1>7. QED
  BY <1>2, <1>3, <1>4, <1>5, <1>6 DEF Next

LEMMA PlaceStep ==
    ASSUME Inv, Held, Place, [Next]_vars
    PROVE  Place'
<1>1. CASE Servers \/ UNCHANGED vars
  BY <1>1 DEF Servers, PeerSends, PeerReads, PeerLeaves, vars, workVars, callVars, Place
<1>2. ASSUME NEW c \in Conns, Connect(c) PROVE Place'
  BY <1>2 DEF Connect, Place, Inv, TypeOK, Threads
<1>3. CASE ConnectReturns \/ DeleteSdk \/ Delete
  BY <1>3 DEF ConnectReturns, DeleteSdk, Delete, SetDestroyFlag, JoinWork, Place, Inv, TypeOK,
              workVars, Threads
<1>4. ASSUME NEW t \in Threads, NEW c \in Conns, SendPackage(t, c) PROVE Place'
  BY <1>4, SendPackageFacts DEF Place, workVars, Inv, TypeOK, Threads
<1>5. ASSUME NEW t \in Threads, Call(t) PROVE Place'
  <2>1. UNCHANGED work
    BY <1>5 DEF Call, GetClientSocket, AppendPackage, SendNow, SendFails, Remove, LookUp,
                Erase, Tell, workVars
  <2>2. CASE Return(t)
    BY <2>1, <2>2, ReturnFacts DEF Place, Threads
  <2>3. CASE SendFails(t)
    <3>1. sp[t] # Nobody
      BY <2>3, NobodyAssumption DEF SendFails, Inv, Pointers, Connected
    <3>2. QED
      BY <2>1, <2>3, <3>1 DEF SendFails, Place, Inv, TypeOK, Threads
  <2>4. CASE ~Return(t) /\ ~SendFails(t)
    BY <1>5, <2>1, <2>4
       DEF Call, GetClientSocket, AppendPackage, SendNow, Remove, LookUp, Erase, Tell,
           Place, Inv, TypeOK, Threads
  <2>5. QED
    BY <2>2, <2>3, <2>4
<1>6. CASE Work
  <2>1. CASE CloseNext
    <3>1. sp["select"] = Nobody
      BY <2>1 DEF CloseNext, Idle, Held, Threads
    <3>2. QED
      BY <2>1, <3>1 DEF CloseNext, Place, Inv, TypeOK, Threads
  <2>2. CASE RecvData
    BY <2>2 DEF RecvData, Place, callVars
  <2>3. CASE CallbackReturns
    BY <2>3 DEF CallbackReturns, Idle, Place, callVars
  <2>4. CASE ~CloseNext /\ ~RecvData /\ ~CallbackReturns
    BY <1>6, <2>4
       DEF Work, Enter, LeaveWork, FillSets, Watch, WatchFails, SelectReturns,
           RecvNone, RecvClose, SendRest, SendRestFails, NextSocket, AllClosed, Idle, Place,
           callVars
  <2>5. QED
    BY <2>1, <2>2, <2>3, <2>4
<1>7. QED
  BY <1>1, <1>2, <1>3, <1>4, <1>5, <1>6 DEF Next

\* at() finds the connection that broke, or one that has ended itself or whose
\* descriptor was that of one that broke and has been told: who is about to
\* tell that one would find it, or nothing, there.
LEMMA LookUpAllowed ==
    ASSUME Inv, Held, Place, Removers, NEW t \in Threads, LookUp(t)
    PROVE  /\ Connected(sp'[t]) /\ Allowed(sp'[t])
           /\ Fails(t) => sends > 0 /\ net[sp'[t]] = "rst"
<1>1. PICK c \in Conns : c = m_ClientSocketMap[fd[t]] /\ Connected(c) /\ cfd[c] = fd[t]
  <2>1. fd[t] \in Fds /\ m_ClientSocketMap[fd[t]] # Nobody
    BY DEF LookUp, Inv, Pointers
  <2>2. QED
    BY <2>1 DEF Inv, Pointers, Connected
<1>2. does[t] = "at" /\ c # Nobody /\ sp'[t] = c
  BY <1>1 DEF LookUp, Inv, TypeOK
<1>3. CASE Fails(t)
  <2>1. c = sp[t] /\ sends > 0 /\ net[c] = "rst"
    BY <1>1, <1>2, <1>3, FailsFacts
  <2>2. QED
    BY <1>1, <1>2, <2>1 DEF Allowed, Ended
<1>4. CASE ~Fails(t)
  <2>1. t = "select" /\ work = "close"
    BY <1>2, <1>4 DEF Fails, Threads, Place
  <2>2. Due(fd[t])
    BY <1>2, <2>1 DEF Removers
  <2>3. CASE Ended(c)
    BY <1>1, <1>2, <1>4, <2>3 DEF Allowed
  <2>4. CASE ~Ended(c)
    <3>1. Spent(fd[t])
      BY <1>1, <2>2, <2>4 DEF Due
    <3>2. PICK d \in Conns : cfd[d] = fd[t] /\ net[d] = "rst" /\ Spoken(d)
      BY <3>1 DEF Spent
    <3>3. d # c
      BY <2>4, <3>2 DEF Ended
    <3>4. ASSUME NEW u \in Threads, Removing(u), sp[u] = d PROVE FALSE
      <4>1. m_ClientSocketMap[cfd[d]] \in {Nobody, d}
        BY <3>4, RemovingFacts
      <4>2. QED
        BY <1>1, <1>2, <3>2, <3>3, <4>1
    <3>5. told[d] > 0
      BY <3>2, <3>4 DEF Spoken
    <3>6. QED
      BY <1>1, <1>2, <1>4, <3>1, <3>2, <3>3, <3>5 DEF Allowed, Spent
  <2>5. QED
    BY <2>3, <2>4
<1>5. QED
  BY <1>3, <1>4

\* Who is past at() stays there, with the connection, or tells.
LEMMA RemovingStays ==
    ASSUME Inv, [Next]_vars, NEW t \in Threads, Removing(t)'
    PROVE  LookUp(t) \/ (Removing(t) /\ sp'[t] = sp[t])
<1> SUFFICES ASSUME ~(Removing(t) /\ sp'[t] = sp[t]) PROVE LookUp(t)
  OBVIOUS
<1> USE DEF Removing
<1>1. does'[t] \in {"erase", "tell"}
  OBVIOUS
<1>2. ~(Servers \/ ConnectReturns \/ DeleteSdk \/ Delete \/ UNCHANGED vars)
  BY <1>1 DEF Servers, PeerSends, PeerReads, PeerLeaves, ConnectReturns, DeleteSdk, Delete,
              SetDestroyFlag, JoinWork, vars, callVars, Inv, TypeOK
<1>3. ~ \E c \in Conns : Connect(c)
  BY <1>1 DEF Connect, Inv, TypeOK
<1>4. ~ \E u \in Threads, c \in Conns : SendPackage(u, c)
  BY <1>1, SendPackageFacts DEF Inv, TypeOK
<1>5. ASSUME NEW u \in Threads, Call(u) PROVE LookUp(t)
  <2>1. ~Return(u)
    BY <1>1, ReturnFacts
  <2>2. QED
    BY <1>1, <1>5, <2>1
       DEF Call, GetClientSocket, AppendPackage, SendNow, SendFails, Remove, LookUp, Erase,
           Tell, Inv, TypeOK
<1>6. ~Work
  BY <1>1
     DEF Work, Enter, LeaveWork, FillSets, Watch, WatchFails, SelectReturns, RecvData,
         CallbackReturns, RecvNone, RecvClose, SendRest, SendRestFails, NextSocket, CloseNext,
         AllClosed, callVars, Inv, TypeOK
<1>7. QED
  BY <1>2, <1>3, <1>4, <1>5, <1>6 DEF Next

\* Who removes because send() has failed did so before, or it fails now.
LEMMA FailsStays ==
    ASSUME Inv, Held, Place, [Next]_vars, NEW t \in Threads,
           does'[t] \in {"remove", "at", "erase"}, Fails(t)'
    PROVE  \/ LookUp(t) /\ Fails(t)
           \/ SendFails(t)
           \/ does[t] \in {"remove", "at", "erase"} /\ Fails(t) /\ sp'[t] = sp[t]
<1>1. t = "app" \/ work' = "callback"
  BY DEF Fails
<1>2. CASE Servers \/ ConnectReturns \/ DeleteSdk \/ Delete \/ UNCHANGED vars
  BY <1>1, <1>2
     DEF Servers, PeerSends, PeerReads, PeerLeaves, ConnectReturns, DeleteSdk, Delete,
         SetDestroyFlag, JoinWork, vars, workVars, callVars, Inv, TypeOK, Fails
<1>3. CASE \E c \in Conns : Connect(c)
  BY <1>1, <1>3 DEF Connect, Inv, TypeOK, Fails
<1>4. CASE \E u \in Threads, c \in Conns : SendPackage(u, c)
  BY <1>1, <1>4, SendPackageFacts DEF Inv, TypeOK, Fails, workVars
<1>5. ASSUME NEW u \in Threads, Call(u)
      PROVE  \/ LookUp(t) /\ Fails(t)
             \/ SendFails(t)
             \/ does[t] \in {"remove", "at", "erase"} /\ Fails(t) /\ sp'[t] = sp[t]
  <2>1. work' = work
    BY <1>5 DEF Call, GetClientSocket, AppendPackage, SendNow, SendFails, Remove, LookUp,
                Erase, Tell, workVars
  <2>2. CASE Return(u)
    BY <1>1, <2>1, <2>2, ReturnFacts DEF Fails
  <2>3. CASE ~Return(u)
    BY <1>1, <1>5, <2>1, <2>3
       DEF Call, GetClientSocket, AppendPackage, SendNow, SendFails, Remove, LookUp, Erase,
           Tell, Inv, TypeOK, Fails
  <2>4. QED
    BY <2>2, <2>3
<1>6. CASE Work
  <2>1. CASE CloseNext
    BY <1>1, <2>1 DEF CloseNext, Inv, TypeOK, Fails, Threads
  <2>2. CASE ~CloseNext
    <3>1. UNCHANGED <<does, sp>>
      BY <1>6, <2>2
         DEF Work, Enter, LeaveWork, FillSets, Watch, WatchFails, SelectReturns, RecvData,
             CallbackReturns, RecvNone, RecvClose, SendRest, SendRestFails, NextSocket,
             AllClosed, callVars
    <3>2. t = "select" => work \in {"callback", "close"}
      BY <3>1 DEF Place
    <3>3. t = "select" => work = "callback"
      BY <1>1, <1>6, <2>2, <3>2
         DEF Work, Enter, LeaveWork, FillSets, Watch, WatchFails, SelectReturns, RecvData,
             CallbackReturns, RecvNone, RecvClose, SendRest, SendRestFails, NextSocket,
             AllClosed
    <3>4. QED
      BY <3>1, <3>3 DEF Fails, Threads
  <2>3. QED
    BY <2>1, <2>2
<1>7. QED
  BY <1>2, <1>3, <1>4, <1>5, <1>6 DEF Next

\* The thread of Select removes what closeSocket names as it did, or begins.
LEMMA ClosingStays ==
    ASSUME Inv, Held, Place, [Next]_vars, ~CloseNext,
           does'["select"] \in {"remove", "at", "erase"}, work' = "close"
    PROVE  /\ does["select"] \in {"remove", "at", "erase"} /\ work = "close"
           /\ does'["select"] \in {"remove", "at"} => does["select"] \in {"remove", "at"}
           /\ fd'["select"] = fd["select"]
           /\ ~JoinWork /\ ~Erase("select")
<1>1. CASE Servers \/ ConnectReturns \/ DeleteSdk \/ Delete \/ UNCHANGED vars
  BY <1>1
     DEF Servers, PeerSends, PeerReads, PeerLeaves, ConnectReturns, DeleteSdk, Delete, Erase,
         SetDestroyFlag, JoinWork, vars, workVars, callVars, Inv, TypeOK, Threads
<1>2. CASE \E c \in Conns : Connect(c)
  BY <1>2 DEF Connect, Inv, TypeOK, JoinWork, Erase, Threads
<1>3. CASE \E u \in Threads, c \in Conns : SendPackage(u, c)
  BY <1>3, SendPackageFacts DEF Inv, TypeOK, workVars, Threads, JoinWork, Erase
<1>4. ASSUME NEW u \in Threads, Call(u)
      PROVE  /\ does["select"] \in {"remove", "at", "erase"} /\ work = "close"
             /\ does'["select"] \in {"remove", "at"} => does["select"] \in {"remove", "at"}
             /\ fd'["select"] = fd["select"]
             /\ ~JoinWork /\ ~Erase("select")
  <2>1. work' = work
    BY <1>4 DEF Call, GetClientSocket, AppendPackage, SendNow, SendFails, Remove, LookUp,
                Erase, Tell, workVars
  <2>2. ~JoinWork /\ ~Erase("select")
    BY <2>1 DEF JoinWork, Erase, Inv, TypeOK, Threads
  <2>3. CASE Return(u)
    BY <2>1, <2>2, <2>3, ReturnFacts DEF Threads
  <2>4. CASE SendFails(u)
    BY <2>1, <2>2, <2>4 DEF SendFails, Place, Inv, TypeOK, Threads
  <2>5. CASE ~Return(u) /\ ~SendFails(u)
    BY <1>4, <2>1, <2>2, <2>5
       DEF Call, GetClientSocket, AppendPackage, SendNow, Remove, LookUp, Erase,
           Tell, Inv, TypeOK, Threads
  <2>6. QED
    BY <2>3, <2>4, <2>5
<1>5. CASE Work
  <2>1. UNCHANGED <<does, fd>>
    BY <1>5
       DEF Work, Enter, LeaveWork, FillSets, Watch, WatchFails, SelectReturns, RecvData,
           CallbackReturns, RecvNone, RecvClose, SendRest, SendRestFails, NextSocket,
           AllClosed, callVars
  <2>2. work \in {"callback", "close"}
    BY <2>1 DEF Place
  <2>3. work = "close"
    BY <1>5, <2>2
       DEF Work, Enter, LeaveWork, FillSets, Watch, WatchFails, SelectReturns, RecvData,
           CallbackReturns, RecvNone, RecvClose, SendRest, SendRestFails, NextSocket,
           AllClosed
  <2>4. QED
    BY <2>1, <2>3 DEF JoinWork, Erase, Inv, TypeOK, Threads
<1>6. QED
  BY <1>1, <1>2, <1>3, <1>4, <1>5 DEF Next

LEMMA NextRemovers ==
    ASSUME Inv, Held, Sent, Place, Removers, Closing, [Next]_vars
    PROVE  Removers'
<1>1. ASSUME NEW t \in Threads, Removing(t)' PROVE Allowed(sp[t])'
  <2>1. PICK c : c = sp'[t] /\ Connected(c) /\ Allowed(c)
    BY <1>1, RemovingStays, RemovingFacts, LookUpAllowed DEF Removers
  <2>2. Allowed(c)'
    BY <2>1, ReasonsGrow DEF Connected
  <2>3. QED
    BY <2>1, <2>2
<1>2. ASSUME NEW t \in Threads, does'[t] \in {"remove", "at", "erase"}, Fails(t)'
      PROVE  sends' > 0 /\ net'[sp'[t]] = "rst"
  <2>1. CASE LookUp(t) /\ Fails(t)
    BY <2>1, LookUpAllowed, Grows DEF Connected
  <2>2. CASE SendFails(t)
    <3>1. sends > 0 /\ net[sp[t]] = "rst" /\ UNCHANGED <<sends, net, sp>>
      BY <2>2 DEF SendFails, Failing, Sent, peerVars
    <3>2. QED
      BY <3>1
  <2>3. CASE does[t] \in {"remove", "at", "erase"} /\ Fails(t) /\ sp'[t] = sp[t]
    BY <2>3, FailsFacts, Grows DEF Connected
  <2>4. QED
    BY <1>2, <2>1, <2>2, <2>3, FailsStays
<1>3. ASSUME does'["select"] \in {"remove", "at"}, work' = "close"
      PROVE  Due(fd["select"])'
  <2>1. PICK f \in Fds : f = fd'["select"] /\ Due(f)
    <3>1. CASE CloseNext
      <4>1. /\ closeSocket # <<>> /\ closeSocket \in Seq(Fds)
            /\ fd'["select"] = closeSocket[1]
        BY <3>1 DEF CloseNext, Inv, TypeOK, Threads
      <4>2. 1 \in DOMAIN closeSocket /\ closeSocket[1] \in Fds
        BY <4>1
      <4>3. QED
        BY <4>1, <4>2 DEF Closing
    <3>2. CASE ~CloseNext
      BY <1>3, <3>2, ClosingStays DEF Removers, Inv, Pointers, Threads
    <3>3. QED
      BY <3>1, <3>2
  <2>2. ~JoinWork /\ ~Erase("select")
    <3>1. CASE CloseNext
      BY <3>1 DEF CloseNext, JoinWork, Erase, Inv, TypeOK, Threads
    <3>2. CASE ~CloseNext
      BY <1>3, <3>2, ClosingStays
    <3>3. QED
      BY <3>1, <3>2
  <2>3. Due(f)'
    BY <2>1, <2>2, DueStays
  <2>4. QED
    BY <2>1, <2>3
<1>4. QED
  BY <1>1, <1>2, <1>3 DEF Removers

\* Who is told has ended, or has the descriptor of one that broke.
LEMMA NextAllowed ==
    ASSUME Inv, Held, ToldOnce, Removers, [Next]_vars,
           \A c \in Conns : told[c] > 0 => Allowed(c)
    PROVE  \A c \in Conns : told'[c] > 0 => Allowed(c)'
<1> SUFFICES ASSUME NEW c \in Conns, told'[c] > 0, ~(Connected(c) /\ Allowed(c)) PROVE FALSE
  BY ReasonsGrow
<1>1. told[c] = 0
  <2>1. told[c] > 0 => Connected(c)
    BY DEF ToldOnce, Connected
  <2>2. told[c] \in Nat
    BY DEF Inv, TypeOK
  <2>3. QED
    BY <2>1, <2>2
<1>2. PICK t \in Threads : Tell(t)
  <2>1. told' # told
    BY <1>1
  <2>2. ~(Servers \/ ConnectReturns \/ DeleteSdk \/ Delete \/ UNCHANGED vars)
    BY <2>1 DEF Servers, PeerSends, PeerReads, PeerLeaves, ConnectReturns, DeleteSdk, Delete,
                SetDestroyFlag, JoinWork, vars, mapVars
  <2>3. ~ \E d \in Conns : Connect(d) \/ \E t \in Threads : SendPackage(t, d)
    BY <2>1 DEF Connect, SendPackage, mapVars
  <2>4. ~Work
    BY <2>1
       DEF Work, Enter, LeaveWork, FillSets, Watch, WatchFails, SelectReturns, RecvData,
           CallbackReturns, RecvNone, RecvClose, SendRest, SendRestFails, NextSocket,
           CloseNext, AllClosed, mapVars
  <2>5. \A t \in Threads : Call(t) => Tell(t)
    BY <2>1 DEF Call, GetClientSocket, AppendPackage, SendNow, SendFails, Remove, LookUp,
                Erase, mapVars
  <2>6. QED
    BY <2>2, <2>3, <2>4, <2>5 DEF Next
<1>3. c = sp[t] /\ Removing(t)
  BY <1>1, <1>2 DEF Tell, Removing, Inv, TypeOK
<1>4. QED
  BY <1>3, RemovingFacts DEF Removers

-----------------------------------------------------------------------------
(* The steps on closeSocket *)

\* Steps that leave closeSocket alone, and the loop at or past what is in it.
LEMMA ClosingKept ==
    ASSUME Inv, Closing, closeSocket' = closeSocket,
           \A f \in Fds : (Due(f) => Due(f)') /\ (DueAgain(f) => DueAgain(f)'),
           work' \notin {"recv", "callback", "send", "next", "close"} => closeSocket = <<>>,
           \A i \in DOMAIN closeSocket :
              /\ work' \in {"recv", "callback"} => closeSocket[i] < cfd'[begin']
              /\ work' \in {"send", "next"} => closeSocket[i] <= cfd'[begin'],
           does'["select"] \in {"remove", "at", "erase"} /\ work' = "close" =>
              /\ does["select"] \in {"remove", "at", "erase"} /\ work = "close"
              /\ fd'["select"] = fd["select"]
    PROVE  Closing'
<1>1. ASSUME NEW i \in DOMAIN closeSocket
      PROVE  /\ Due(closeSocket[i])'
             /\ DueAgain(closeSocket[i]) => DueAgain(closeSocket[i])'
  <2>1. PICK f \in Fds : f = closeSocket[i] /\ f = closeSocket'[i]
    BY DEF Inv, TypeOK
  <2>2. Due(f)' /\ (DueAgain(f) => DueAgain(f)')
    BY <2>1 DEF Closing
  <2>3. QED
    BY <2>1, <2>2
<1>2. QED
  BY <1>1 DEF Closing

LEMMA InClosing ==
    ASSUME Inv, NEW i \in DOMAIN closeSocket
    PROVE  closeSocket[i] \in Fds /\ closeSocket[i] \in Nat
<1>1. closeSocket[i] \in Fds
  BY DEF Inv, TypeOK
<1>2. QED
  BY <1>1, FdsAssumption

LEMMA NothingToClose == closeSocket' = <<>> => Closing'
  BY DEF Closing

\* The loop remembers the descriptor it is at: for the second time only when
\* recv() has found the end and send() has failed.
LEMMA ClosingPush ==
    ASSUME Inv, Closing, RecvClose \/ SendRestFails, sends > 0 \/ RecvClose,
           \A f \in Fds : (Due(f) => Due(f)') /\ (DueAgain(f) => DueAgain(f)')
    PROVE  Closing'
<1>1. PICK f \in Fds : f = cfd[begin] /\ m_ClientSocketMap[f] = begin
  BY DEF RecvClose, SendRestFails, Mapped
<1>2. begin \in Conns /\ begin # Nobody
  BY NobodyAssumption DEF RecvClose, SendRestFails, Inv, Pointers, InLoop, Connected
<1>3. /\ closeSocket' = Append(closeSocket, f) /\ work' \in {"send", "next"}
      /\ UNCHANGED <<cfd, begin, does, fd>>
  BY <1>1 DEF RecvClose, SendRestFails, AfterRecv, objVars, callVars
<1>4. Due(f)'
  BY <1>1, <1>2 DEF RecvClose, SendRestFails, Failing, Due, Ended
<1>5. SendRestFails => DueAgain(f)'
  <2>1. SendRestFails => sends > 0 /\ net[begin] = "rst"
    BY DEF SendRestFails, RecvClose, Failing
  <2>2. QED
    BY <1>1, <1>2, <2>1 DEF DueAgain
<1>6. /\ closeSocket \in Seq(Fds)
      /\ \A i \in DOMAIN closeSocket :
            /\ closeSocket[i] \in Fds /\ closeSocket[i] <= f
            /\ RecvClose => closeSocket[i] < f
  <2>1. closeSocket \in Seq(Fds)
    BY DEF Inv, TypeOK
  <2>2. \A i \in DOMAIN closeSocket : closeSocket[i] \in Nat /\ closeSocket[i] \in Fds
    BY InClosing
  <2>3. \/ work = "recv" /\ \A i \in DOMAIN closeSocket : closeSocket[i] < cfd[begin]
        \/ ~RecvClose /\ \A i \in DOMAIN closeSocket : closeSocket[i] <= cfd[begin]
    BY DEF Closing, RecvClose, SendRestFails
  <2>4. f \in Nat
    BY FdsAssumption
  <2>5. QED
    BY <1>1, <2>1, <2>2, <2>3, <2>4
<1>7. ASSUME NEW i \in DOMAIN closeSocket'
      PROVE  \/ i = Len(closeSocket) + 1 /\ closeSocket'[i] = f
             \/ i \in DOMAIN closeSocket /\ closeSocket'[i] = closeSocket[i]
  BY <1>3, <1>6
<1>8. ASSUME NEW i \in DOMAIN closeSocket' PROVE Due(closeSocket[i])' /\ closeSocket'[i] <= f
  <2>1. PICK g \in Fds : g = closeSocket'[i] /\ Due(g)' /\ g <= f
    <3>1. CASE closeSocket'[i] = f
      BY <1>4, <3>1, FdsAssumption
    <3>2. CASE i \in DOMAIN closeSocket /\ closeSocket'[i] = closeSocket[i]
      BY <1>6, <3>2 DEF Closing
    <3>3. QED
      BY <1>7, <3>1, <3>2
  <2>2. QED
    BY <2>1
<1>9. ASSUME NEW i \in DOMAIN closeSocket', NEW j \in DOMAIN closeSocket', i # j,
             closeSocket'[i] = closeSocket'[j]
      PROVE  DueAgain(closeSocket[i])'
  <2>1. PICK g \in Fds : g = closeSocket'[i] /\ DueAgain(g)'
    <3>1. CASE /\ i \in DOMAIN closeSocket /\ closeSocket'[i] = closeSocket[i]
               /\ j \in DOMAIN closeSocket /\ closeSocket'[j] = closeSocket[j]
      <4>1. DueAgain(closeSocket[i]) /\ closeSocket[i] \in Fds
        BY <1>6, <1>9, <3>1 DEF Closing
      <4>2. QED
        BY <3>1, <4>1
    <3>2. CASE \/ i \in DOMAIN closeSocket /\ closeSocket'[i] = closeSocket[i]
                  /\ closeSocket'[j] = f
               \/ j \in DOMAIN closeSocket /\ closeSocket'[j] = closeSocket[j]
                  /\ closeSocket'[i] = f
      <4>1. ~RecvClose
        BY <1>1, <1>6, <1>9, <3>2, FdsAssumption
      <4>2. QED
        BY <1>5, <1>9, <3>2, <4>1
    <3>3. QED
      BY <1>7, <1>9, <3>1, <3>2
  <2>2. QED
    BY <2>1
<1>10. QED
  BY <1>1, <1>3, <1>8, <1>9 DEF Closing

\* The thread takes the next descriptor, which may be there once more.
LEMMA ClosingPop ==
    ASSUME Inv, Closing, CloseNext,
           \A f \in Fds : (Due(f) => Due(f)') /\ (DueAgain(f) => DueAgain(f)')
    PROVE  Closing'
<1>1. /\ work' = "close" /\ closeSocket' = Tail(closeSocket) /\ closeSocket # <<>>
      /\ closeSocket \in Seq(Fds) /\ fd'["select"] = closeSocket[1]
  BY DEF CloseNext, Inv, TypeOK, Threads
<1>2. ASSUME NEW i \in DOMAIN closeSocket'
      PROVE  /\ i + 1 \in DOMAIN closeSocket /\ i + 1 # 1
             /\ closeSocket'[i] = closeSocket[i + 1] /\ closeSocket'[i] \in Fds
  BY <1>1
<1>3. ASSUME NEW i \in DOMAIN closeSocket'
      PROVE  /\ Due(closeSocket[i])'
             /\ DueAgain(closeSocket'[i]) => DueAgain(closeSocket[i])'
  <2>1. PICK f \in Fds : f = closeSocket'[i] /\ f = closeSocket[i + 1]
    BY <1>2
  <2>2. Due(f)' /\ (DueAgain(f) => DueAgain(f)')
    BY <1>2, <2>1 DEF Closing
  <2>3. QED
    BY <2>1, <2>2
<1>4. ASSUME NEW i \in DOMAIN closeSocket', closeSocket'[i] = fd'["select"]
      PROVE  DueAgain(closeSocket'[i])
  <2>1. i + 1 \in DOMAIN closeSocket /\ 1 \in DOMAIN closeSocket
    BY <1>1, <1>2
  <2>2. closeSocket[i + 1] = closeSocket[1] /\ i + 1 # 1
    BY <1>1, <1>2, <1>4
  <2>3. DueAgain(closeSocket[i + 1])
    BY <2>1, <2>2 DEF Closing
  <2>4. QED
    BY <1>2, <2>3
<1>5. ASSUME NEW i \in DOMAIN closeSocket', NEW j \in DOMAIN closeSocket', i # j,
             closeSocket'[i] = closeSocket'[j]
      PROVE  DueAgain(closeSocket'[i])
  <2>1. i + 1 \in DOMAIN closeSocket /\ j + 1 \in DOMAIN closeSocket /\ i + 1 # j + 1
    BY <1>1, <1>2, <1>5
  <2>2. DueAgain(closeSocket[i + 1])
    BY <1>2, <1>5, <2>1 DEF Closing
  <2>3. QED
    BY <1>2, <2>2
<1>6. QED
  BY <1>1, <1>3, <1>4, <1>5 DEF Closing

\* erase() of what closeSocket named: if it names it once more the connection
\* is broken, and its end is told.
LEMMA ClosingErase ==
    ASSUME Inv, Held, Closing, [Next]_vars, Erase("select"), work = "close"
    PROVE  Closing'
<1>1. PICK c \in Conns, f \in Fds :
         /\ c = sp["select"] /\ c = sp'["select"] /\ f = fd["select"] /\ cfd[c] = f
         /\ m_ClientSocketMap[f] \in {Nobody, c}
  BY RemovingFacts DEF Erase, Removing, Threads
<1>2. /\ does["select"] = "erase" /\ does' = [does EXCEPT !["select"] = "tell"]
      /\ m_ClientSocketMap' = [m_ClientSocketMap EXCEPT ![f] = Nobody]
      /\ UNCHANGED <<net, cfd, sends, work, closeSocket>>
  BY <1>1 DEF Erase, peerVars, objVars, workVars
<1>3. Spoken(c)'
  BY <1>1, <1>2 DEF Spoken, Removing, Inv, TypeOK, Threads
<1>4. DueAgain(f) => Spent(f)'
  <2>1. CASE Spent(f)
    BY <2>1, ReasonsGrow
  <2>2. CASE /\ m_ClientSocketMap[f] # Nobody
             /\ sends > 0 /\ net[m_ClientSocketMap[f]] = "rst"
    BY <1>1, <1>2, <1>3, <2>2 DEF Spent
  <2>3. QED
    BY <2>1, <2>2 DEF DueAgain
<1>5. \A g \in Fds \ {f} : (Due(g) => Due(g)') /\ (DueAgain(g) => DueAgain(g)')
  BY <1>2, DueKept DEF Inv, TypeOK
<1>6. ASSUME NEW i \in DOMAIN closeSocket
      PROVE  /\ Due(closeSocket[i])'
             /\ DueAgain(closeSocket[i]) => DueAgain(closeSocket[i])'
  <2>1. PICK g \in Fds : g = closeSocket[i] /\ g = closeSocket'[i]
    BY <1>2 DEF Inv, TypeOK
  <2>2. CASE g = f
    <3>1. DueAgain(f)
      BY <1>1, <1>2, <2>1, <2>2 DEF Closing
    <3>2. Due(f)' /\ DueAgain(f)'
      BY <1>4, <3>1 DEF Due, DueAgain
    <3>3. QED
      BY <2>1, <2>2, <3>2
  <2>3. CASE g # f
    <3>1. Due(g)' /\ (DueAgain(g) => DueAgain(g)')
      BY <1>5, <2>1, <2>3 DEF Closing
    <3>2. QED
      BY <2>1, <3>1
  <2>4. QED
    BY <2>2, <2>3
<1>7. work' = "close" /\ does'["select"] = "tell"
  BY <1>2 DEF Inv, TypeOK, Threads
<1>8. QED
  BY <1>2, <1>6, <1>7 DEF Closing

LEMMA NextClosing ==
    ASSUME Inv, Held, Sent, Place, Removers, Closing, [Next]_vars
    PROVE  Closing'
<1>1. CASE JoinWork
  BY <1>1, NothingToClose DEF JoinWork, Closing, workVars
<1>2. CASE Erase("select") /\ work = "close"
  BY <1>2, ClosingErase
<1>3. CASE ~JoinWork /\ (Erase("select") => work # "close")
  <2>1. \A f \in Fds : (Due(f) => Due(f)') /\ (DueAgain(f) => DueAgain(f)')
    BY <1>3, DueStays
  <2>2. InLoop => begin \in Conns /\ cfd'[begin] = cfd[begin] /\ cfd[begin] \in Nat
    BY Grows, FdsAssumption DEF Inv, Pointers, Connected
  <2>3. \A i \in DOMAIN closeSocket : closeSocket[i] \in Nat
    BY InClosing
  <2>4. CASE CloseNext
    BY <2>1, <2>4, ClosingPop
  <2>5. CASE RecvClose \/ SendRestFails
    <3>1. sends > 0 \/ RecvClose
      BY <2>5 DEF SendRestFails, Failing, Sent, Inv, Pointers, InLoop, Connected
    <3>2. QED
      BY <2>1, <2>5, <3>1, ClosingPush
  <2>6. CASE SelectReturns \/ AllClosed
    BY <2>6, NothingToClose DEF SelectReturns, AllClosed, Closing
  <2>7. CASE NextSocket
    <3>1. /\ work = "next" /\ begin' = FirstOf({f \in Fds : f > cfd[begin]})
          /\ work' = ReadPlace(begin', readSet, writeSet)
          /\ UNCHANGED <<closeSocket, cfd, m_ClientSocketMap, does, fd>>
      BY <2>7 DEF NextSocket, objVars, mapVars, callVars
    <3>2. work' \in {"recv", "send", "next"} => begin' # Nobody
      BY <3>1 DEF ReadPlace
    <3>3. begin' # Nobody => cfd'[begin'] \in Nat /\ cfd'[begin'] > cfd[begin]
      <4>1. SUFFICES ASSUME begin' # Nobody
                     PROVE  cfd'[begin'] \in Nat /\ cfd'[begin'] > cfd[begin]
        OBVIOUS
      <4>2. PICK f \in {f \in Fds : f > cfd[begin]} :
               m_ClientSocketMap[f] # Nobody /\ begin' = m_ClientSocketMap[f]
        BY <3>1, <4>1, FirstOfFacts
      <4>3. cfd[begin'] = f
        BY <4>2 DEF Inv, Pointers
      <4>4. QED
        BY <3>1, <4>2, <4>3, FdsAssumption
    <3>4. \A i \in DOMAIN closeSocket : closeSocket[i] <= cfd[begin]
      BY <3>1 DEF Closing
    <3>5. \A i \in DOMAIN closeSocket :
             work' \in {"recv", "callback", "send", "next"} => closeSocket[i] < cfd'[begin']
      BY <2>2, <2>3, <3>1, <3>2, <3>3, <3>4 DEF InLoop, ReadPlace
    <3>6. /\ work' \in {"recv", "callback", "send", "next", "close"}
          /\ does'["select"] \notin {"remove", "at", "erase"}
      BY <3>1 DEF ReadPlace, Place
    <3>7. \A i \in DOMAIN closeSocket :
              /\ work' \in {"recv", "callback"} => closeSocket[i] < cfd'[begin']
              /\ work' \in {"send", "next"} => closeSocket[i] <= cfd'[begin']
      BY <2>2, <2>3, <3>1, <3>2, <3>3, <3>5 DEF InLoop
    <3>8. QED
      BY <2>1, <3>1, <3>6, <3>7, ClosingKept
  <2>8. CASE \/ RecvData \/ CallbackReturns \/ RecvNone \/ SendRest
    <3>1. /\ UNCHANGED <<closeSocket, begin, does, fd>>
          /\ \/ work = "recv" /\ work' \in {"callback", "send", "next"}
             \/ work = "callback" /\ work' = "recv"
             \/ work = "send" /\ work' = "next"
      BY <2>8 DEF RecvData, CallbackReturns, RecvNone, SendRest, AfterRecv, callVars
    <3>2. \A i \in DOMAIN closeSocket :
              /\ work' \in {"recv", "callback"} => closeSocket[i] < cfd'[begin']
              /\ work' \in {"send", "next"} => closeSocket[i] <= cfd'[begin']
      BY <2>2, <2>3, <3>1 DEF Closing, InLoop
    <3>3. QED
      BY <2>1, <3>1, <3>2, ClosingKept
  <2>9. CASE Enter \/ LeaveWork \/ FillSets \/ Watch \/ WatchFails
    BY <2>9, NothingToClose
       DEF Enter, LeaveWork, FillSets, Watch, WatchFails, Closing
  <2>10. CASE ~Work
    <3>1. /\ UNCHANGED <<closeSocket, begin>>
          /\ work' = work \/ (work = "none" /\ work' = "collect")
      BY <1>3, <2>10
         DEF Next, Servers, PeerSends, PeerReads, PeerLeaves, Connect, ConnectReturns,
             SendPackage, Call, GetClientSocket, AppendPackage, SendNow, SendFails, Remove,
             LookUp, Erase, Tell, DeleteSdk, Delete, SetDestroyFlag, vars, workVars
    <3>2. \A i \in DOMAIN closeSocket :
              /\ work' \in {"recv", "callback"} => closeSocket[i] < cfd'[begin']
              /\ work' \in {"send", "next"} => closeSocket[i] <= cfd'[begin']
      BY <2>2, <3>1 DEF Closing, InLoop
    <3>3. work' \notin {"recv", "callback", "send", "next", "close"} => closeSocket = <<>>
      BY <3>1 DEF Closing
    <3>4. ~CloseNext
      BY <2>10 DEF Work
    <3>5. does'["select"] \in {"remove", "at", "erase"} /\ work' = "close" =>
              /\ does["select"] \in {"remove", "at", "erase"} /\ work = "close"
              /\ fd'["select"] = fd["select"]
      BY <3>4, ClosingStays
    <3>6. QED
      BY <2>1, <3>1, <3>2, <3>3, <3>5, ClosingKept
  <2>11. QED
    BY <2>4, <2>5, <2>6, <2>7, <2>8, <2>9, <2>10 DEF Work
<1>4. QED
  BY <1>1, <1>2, <1>3

LEMMA NextJustified ==
    Inv /\ Held /\ ToldOnce /\ Justified /\ [Next]_vars => Justified'
  BY NextSent, PlaceStep, NextRemovers, NextClosing, NextAllowed DEF Justified

LEMMA InitJustified == Init => Justified
  BY DEF Init, Justified, Sent, Place, Removers, Removing, Closing, Threads

\* A connection that has not ended is removed only when one that broke, on
\* which somebody had sent, had its descriptor before (SDK Select.cpp 30-42,
\* 124-145).
THEOREM OnlyTheEndedGo == SafeSpec => []OnlyBrokenRemoved
<1>1. Justified => OnlyBrokenRemoved
  BY DEF Justified, Allowed, OnlyBrokenRemoved
<1>2. SafeSpec => []Justified
  <2>1. SafeSpec => [](Inv /\ Held /\ Tellers /\ ToldOnce)
    BY Telling
  <2>2. Inv /\ Held /\ Tellers /\ ToldOnce /\ Justified /\ [Next]_vars => Justified'
    BY NextJustified
  <2>3. QED
    BY <2>1, <2>2, InitJustified, PTL DEF SafeSpec
<1>3. QED
  BY <1>1, <1>2, PTL
=============================================================================
