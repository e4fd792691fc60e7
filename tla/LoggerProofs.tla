----------------------------- MODULE LoggerProofs -----------------------------
(***************************************************************************)
(* The server's Logger, for any number of threads that log and of lines:    *)
(* one Logger is made, every line is written before the exit has joined its *)
(* thread, and lines are written in the order in which they were logged.    *)
(***************************************************************************)
EXTENDS Logger, SequenceTheorems, TLAPS

TypeOK ==
    /\ s_pInstance \in {"none", "live", "deleted"}
    /\ made \in Nat
    /\ m_LogVector \in Seq(Lines)
    /\ tempLogVector \in Seq(Lines)
    /\ writing \in SUBSET Lines
    /\ written \in SUBSET Lines
    /\ caller \in [Callers -> {"idle", "missed", "found"}]
    /\ writer \in {"none", "lock", "tested", "asleep", "next", "writing", "exited"}
    /\ exit \in {"running", "flagged", "notified", "joined"}

\* The Logger is there from its construction to the exit, and so is its
\* thread; lines come in only meanwhile.
Made ==
    /\ OneLogger
    /\ s_pInstance = "none" <=> writer = "none"
    /\ s_pInstance = "none" => m_LogVector = <<>> /\ exit = "running"
    /\ s_pInstance = "deleted" => exit = "joined"
    /\ \A c \in Callers : caller[c] = "found" => s_pInstance # "none"

\* When the exit begins nobody is in LOGE any more.
QuietExit ==
    /\ m_IsDestory <=> exit # "running"
    /\ exit # "running" => \A c \in Callers : caller[c] = "idle"

\* What the thread holds, by its place in ThreadWork().
ThreadHolds ==
    /\ IF writer = "writing" THEN \E l \in Lines : writing = {l}
                             ELSE writing = {}
    /\ writer \notin {"next", "writing"} => tempLogVector = <<>>
    /\ writer = "exited" => m_LogVector = <<>> /\ m_IsDestory
    /\ exit = "joined" => writer = "exited"

Inv == TypeOK /\ Made /\ QuietExit /\ ThreadHolds

-----------------------------------------------------------------------------

LEMMA InitInv == Init => Inv
<1> SUFFICES ASSUME Init PROVE Inv
  OBVIOUS
<1>1. TypeOK
  <2>1. <<>> \in Seq(Lines)
    OBVIOUS
  <2>2. QED
    BY <2>1 DEF Init, TypeOK
<1>2. Made /\ QuietExit /\ ThreadHolds
  BY DEF Init, Made, OneLogger, QuietExit, ThreadHolds
<1>3. QED
  BY <1>1, <1>2 DEF Inv

\* LOGE: the second test of s_pInstance keeps the Logger single, and before
\* the first Logger there is neither thread nor line that a new one could
\* replace.
LEMMA LogStep ==
    ASSUME Inv, NEW c \in Callers,
           \/ LookForInstance(c) \/ MakeInstance(c)
           \/ \E l \in Lines : Log(c, l)
    PROVE  Inv'
<1> USE DEF Inv, CallerGoes, threadVars
<1>1. CASE LookForInstance(c)
  <2>1. TypeOK'
    BY <1>1 DEF LookForInstance, TypeOK
  <2>2. Made'
    BY <1>1 DEF LookForInstance, TypeOK, Made, OneLogger
  <2>3. QuietExit' /\ ThreadHolds'
    BY <1>1 DEF LookForInstance, TypeOK, QuietExit, ThreadHolds
  <2>4. QED
    BY <2>1, <2>2, <2>3
<1>2. CASE MakeInstance(c)
  <2>1. exit = "running" /\ ~m_IsDestory
    BY <1>2 DEF MakeInstance, QuietExit
  <2>2. TypeOK'
    <3>1. <<>> \in Seq(Lines)
      OBVIOUS
    <3>2. caller' \in [Callers -> {"idle", "missed", "found"}]
      BY <1>2 DEF MakeInstance, TypeOK
    <3>3. /\ s_pInstance' \in {"none", "live", "deleted"} /\ made' \in Nat
          /\ m_LogVector' \in Seq(Lines)
          /\ writer' \in {"none", "lock", "tested", "asleep", "next", "writing",
                          "exited"}
      <4>1. CASE s_pInstance = "none"
        <5>1. NewLogger
          BY <1>2, <4>1 DEF MakeInstance
        <5>2. QED
          BY <3>1, <5>1 DEF NewLogger, TypeOK
      <4>2. CASE s_pInstance # "none"
        <5>1. UNCHANGED <<s_pInstance, made, m_LogVector, writer>>
          BY <1>2, <4>2 DEF MakeInstance
        <5>2. QED
          BY <5>1 DEF TypeOK
      <4>3. QED
        BY <4>1, <4>2
    <3>4. QED
      BY <1>2, <3>2, <3>3 DEF MakeInstance, TypeOK
  <2>3. Made'
    BY <1>2, <2>1 DEF MakeInstance, NewLogger, TypeOK, Made, OneLogger
  <2>4. QuietExit' /\ ThreadHolds'
    BY <1>2, <2>1 DEF MakeInstance, NewLogger, TypeOK, Made, QuietExit, ThreadHolds
  <2>5. QED
    BY <2>2, <2>3, <2>4
<1>3. CASE \E l \in Lines : Log(c, l)
  <2>1. PICK l \in Lines : Log(c, l)
    BY <1>3
  <2>2. exit = "running" /\ ~m_IsDestory /\ s_pInstance # "none"
    BY <2>1 DEF Log, QuietExit, Made
  <2>3. Append(m_LogVector, l) \in Seq(Lines)
    BY AppendProperties DEF TypeOK
  <2>4. TypeOK'
    BY <2>1, <2>3 DEF Log, Woken, TypeOK
  <2>5. Made'
    BY <2>1, <2>2 DEF Log, Woken, TypeOK, Made, OneLogger
  <2>6. QuietExit' /\ ThreadHolds'
    BY <2>1, <2>2 DEF Log, Woken, TypeOK, QuietExit, ThreadHolds
  <2>7. QED
    BY <2>4, <2>5, <2>6
<1>4. QED
  BY <1>1, <1>2, <1>3

LEMMA ThreadStep ==
    ASSUME Inv, ThreadWork \/ SpuriousWakeup
    PROVE  Inv'
<1> USE DEF Inv, WriterGoes, threadVars
<1>1. CASE TestFails \/ FallAsleep \/ Leave \/ Again \/ SpuriousWakeup
  <2>1. TypeOK'
    BY <1>1 DEF TestFails, FallAsleep, Leave, Again, SpuriousWakeup, TypeOK
  <2>2. Made'
    BY <1>1 DEF TestFails, FallAsleep, Leave, Again, SpuriousWakeup, Made, OneLogger
  <2>3. QuietExit' /\ ThreadHolds'
    BY <1>1 DEF TestFails, FallAsleep, Leave, Again, SpuriousWakeup,
                QuietExit, ThreadHolds
  <2>4. QED
    BY <2>1, <2>2, <2>3
<1>2. CASE TakeLines
  <2>1. TypeOK'
    <3>1. <<>> \in Seq(Lines)
      OBVIOUS
    <3>2. QED
      BY <1>2, <3>1 DEF TakeLines, TypeOK
  <2>2. Made' /\ QuietExit' /\ ThreadHolds'
    BY <1>2 DEF TakeLines, Made, OneLogger, QuietExit, ThreadHolds
  <2>3. QED
    BY <2>1, <2>2
<1>3. CASE BeginLine
  <2>1. Head(tempLogVector) \in Lines /\ Tail(tempLogVector) \in Seq(Lines)
    BY <1>3, HeadTailProperties DEF BeginLine, TypeOK
  <2>2. TypeOK'
    BY <1>3, <2>1 DEF BeginLine, TypeOK
  <2>3. Made' /\ QuietExit' /\ ThreadHolds'
    BY <1>3, <2>1 DEF BeginLine, Made, OneLogger, QuietExit, ThreadHolds
  <2>4. QED
    BY <2>2, <2>3
<1>4. CASE EndLine
  <2>1. TypeOK'
    BY <1>4 DEF EndLine, TypeOK
  <2>2. Made' /\ QuietExit' /\ ThreadHolds'
    BY <1>4 DEF EndLine, Made, OneLogger, QuietExit, ThreadHolds
  <2>3. QED
    BY <2>1, <2>2
<1>5. QED
  BY <1>1, <1>2, <1>3, <1>4 DEF ThreadWork

LEMMA ExitStep ==
    ASSUME Inv, SetDestroyFlag \/ Destroy
    PROVE  Inv'
<1> USE DEF Inv, threadVars
<1>1. TypeOK'
  BY DEF SetDestroyFlag, Destroy, NotifyToLeave, Join, Woken, TypeOK
<1>2. Made'
  BY DEF SetDestroyFlag, Destroy, NotifyToLeave, Join, Woken, Made, OneLogger
<1>3. QuietExit' /\ ThreadHolds'
  BY DEF SetDestroyFlag, Destroy, NotifyToLeave, Join, Woken, QuietExit, ThreadHolds
<1>4. QED
  BY <1>1, <1>2, <1>3

LEMMA NextInv == Inv /\ [Next]_vars => Inv'
<1> SUFFICES ASSUME Inv, [Next]_vars PROVE Inv'
  OBVIOUS
<1>1. ASSUME UNCHANGED vars PROVE Inv'
  BY <1>1 DEF vars, Inv, TypeOK, Made, OneLogger, QuietExit, ThreadHolds
<1>2. QED
  BY <1>1, LogStep, ThreadStep, ExitStep DEF Next

-----------------------------------------------------------------------------
(* What follows from it *)

\* The inductive invariant holds in every reachable state.
THEOREM Invariance == SafeSpec => []Inv
  BY InitInv, NextInv, PTL DEF SafeSpec

\* At most one Logger is made, however many threads log first at a time.
THEOREM OneLoggerMade == SafeSpec => []OneLogger
<1>1. Inv => OneLogger
  BY DEF Inv, Made
<1>2. QED
  BY <1>1, Invariance, PTL

\* Nothing that was logged is left behind when the thread has been joined.
THEOREM NoLineLeftBehind == SafeSpec => []AllWritten
<1>1. Inv => AllWritten
  <2> SUFFICES ASSUME Inv, exit = "joined" PROVE written = Logged
    BY DEF AllWritten
  <2>1. m_LogVector = <<>> /\ tempLogVector = <<>> /\ writing = {}
    BY DEF Inv, ThreadHolds
  <2>2. {m_LogVector[i] : i \in DOMAIN m_LogVector} = {}
    BY <2>1
  <2>3. {tempLogVector[i] : i \in DOMAIN tempLogVector} = {}
    BY <2>1
  <2>4. QED
    BY <2>1, <2>2, <2>3 DEF Logged, Taken
<1>2. QED
  BY <1>1, Invariance, PTL

-----------------------------------------------------------------------------
(* The Logger implements TaskPool *)

\* Whatever is in the concatenation of two sequences is in one of them.
LEMMA InEither ==
    ASSUME NEW s \in Seq(Lines), NEW t \in Seq(Lines)
    PROVE  {(s \o t)[i] : i \in DOMAIN (s \o t)} \subseteq
              {s[i] : i \in DOMAIN s} \cup {t[i] : i \in DOMAIN t}
<1> SUFFICES ASSUME NEW i \in DOMAIN (s \o t)
             PROVE  \/ \E j \in DOMAIN s : (s \o t)[i] = s[j]
                    \/ \E j \in DOMAIN t : (s \o t)[i] = t[j]
  OBVIOUS
<1>1. /\ DOMAIN s = 1..Len(s) /\ DOMAIN t = 1..Len(t)
      /\ Len(s) \in Nat /\ Len(t) \in Nat
  OBVIOUS
<1>2. i \in 1..(Len(s) + Len(t))
  BY ConcatProperties
<1>3. CASE i <= Len(s)
  BY <1>1, <1>2, <1>3, ConcatProperties
<1>4. CASE i > Len(s)
  <2>1. i - Len(s) \in DOMAIN t
    BY <1>1, <1>2, <1>4
  <2>2. (s \o t)[i] = t[i - Len(s)]
    BY <1>1, <1>2, <1>4, ConcatProperties
  <2>3. QED
    BY <2>1, <2>2
<1>5. QED
  BY <1>1, <1>2, <1>3, <1>4

\* The head of the lines the thread has taken is the head of all that wait.
LEMMA HeadOfBoth ==
    ASSUME NEW s \in Seq(Lines), NEW t \in Seq(Lines), s # <<>>
    PROVE  /\ s \o t # <<>>
           /\ Head(s \o t) = Head(s)
           /\ Tail(s \o t) = Tail(s) \o t
<1>1. /\ s \o t \in Seq(Lines)
      /\ Len(s \o t) = Len(s) + Len(t)
      /\ \A i \in 1..(Len(s) + Len(t)) :
            (s \o t)[i] = IF i <= Len(s) THEN s[i] ELSE t[i - Len(s)]
  BY ConcatProperties
<1>2. Len(s) \in Nat \ {0} /\ Len(t) \in Nat
  OBVIOUS
<1>3. s \o t # <<>> /\ Head(s \o t) = Head(s)
  BY <1>1, <1>2
<1>4. /\ Tail(s) \in Seq(Lines) /\ Len(Tail(s)) = Len(s) - 1
      /\ \A i \in 1..Len(Tail(s)) : Tail(s)[i] = s[i + 1]
  BY <1>2, HeadTailProperties
<1>5. /\ Tail(s \o t) \in Seq(Lines) /\ Len(Tail(s \o t)) = Len(s) + Len(t) - 1
      /\ \A i \in 1..(Len(s) + Len(t) - 1) : Tail(s \o t)[i] = (s \o t)[i + 1]
  <2>1. s \o t # <<>>
    BY <1>3
  <2>2. QED
    BY <1>1, <1>2, <2>1, HeadTailProperties
<1>6. /\ Tail(s) \o t \in Seq(Lines) /\ Len(Tail(s) \o t) = Len(s) + Len(t) - 1
      /\ \A i \in 1..(Len(s) + Len(t) - 1) : (Tail(s) \o t)[i] =
            IF i <= Len(s) - 1 THEN Tail(s)[i] ELSE t[i - (Len(s) - 1)]
  <2>1. /\ Tail(s) \o t \in Seq(Lines)
        /\ Len(Tail(s) \o t) = Len(Tail(s)) + Len(t)
        /\ \A i \in 1..(Len(Tail(s)) + Len(t)) : (Tail(s) \o t)[i] =
              IF i <= Len(Tail(s)) THEN Tail(s)[i] ELSE t[i - Len(Tail(s))]
    BY <1>4, ConcatProperties
  <2>2. Len(Tail(s)) + Len(t) = Len(s) + Len(t) - 1
    BY <1>2, <1>4
  <2>3. QED
    BY <1>4, <2>1, <2>2
<1>7. ASSUME NEW i \in 1..(Len(s) + Len(t) - 1)
      PROVE  Tail(s \o t)[i] = (Tail(s) \o t)[i]
  <2>1. i + 1 \in 1..(Len(s) + Len(t)) /\ i \in Nat
    BY <1>2
  <2>2. Tail(s \o t)[i] = IF i + 1 <= Len(s) THEN s[i + 1] ELSE t[(i + 1) - Len(s)]
    BY <1>1, <1>5, <2>1
  <2>3. CASE i + 1 <= Len(s)
    BY <1>2, <1>4, <1>6, <2>1, <2>2, <2>3
  <2>4. CASE ~(i + 1 <= Len(s))
    <3>1. (i + 1) - Len(s) = i - (Len(s) - 1) /\ ~(i <= Len(s) - 1)
      BY <1>2, <2>1, <2>4
    <3>2. QED
      BY <1>6, <2>2, <2>4, <3>1
  <2>5. QED
    BY <2>3, <2>4
<1>8. Tail(s \o t) = Tail(s) \o t
  BY <1>5, <1>6, <1>7, SeqEqual
<1>9. QED
  BY <1>3, <1>8

\* Every step of callers and thread adds a line behind those that wait, starts
\* the oldest one, ends the one that is being written, or is none of these.
\* It is the safety part of WritesInOrder.
THEOREM Refinement == SafeSpec => Pool!SafeSpec
<1>1. Init => Pool!Init
  BY DEF Init, Pool!Init
<1>2. Inv /\ [Next]_vars => [Pool!Next]_Pool!vars
  <2> SUFFICES ASSUME Inv, [Next]_vars
               PROVE  \/ Pool!Next
                      \/ /\ UNCHANGED <<tempLogVector \o m_LogVector, writing, written>>
                         /\ writer' = "exited" <=> writer = "exited"
    BY DEF Pool!vars
  <2>1. m_LogVector \in Seq(Lines) /\ tempLogVector \in Seq(Lines)
    BY DEF Inv, TypeOK
  <2>2. ASSUME NEW c \in Callers, NEW l \in Lines, Log(c, l) PROVE Pool!Next
    <3>1. /\ m_LogVector' = Append(m_LogVector, l) /\ l \notin Logged
          /\ UNCHANGED <<tempLogVector, writing, written>>
      BY <2>2 DEF Log, threadVars
    <3>2. Pool!IsNew(l)
      BY <2>1, <3>1, InEither DEF Pool!IsNew, Pool!Waiting, Logged, Taken
    <3>a. writer # "exited" /\ writer' # "exited"
      BY <2>2 DEF Log, Woken, Inv, ThreadHolds, QuietExit
    <3>3. tempLogVector \o Append(m_LogVector, l)
             = Append(tempLogVector \o m_LogVector, l)
      <4>1. /\ <<l>> \in Seq(Lines)
            /\ Append(m_LogVector, l) = m_LogVector \o <<l>>
            /\ tempLogVector \o m_LogVector \in Seq(Lines)
        BY <2>1, AppendIsConcat, ConcatProperties
      <4>2. Append(tempLogVector \o m_LogVector, l)
               = (tempLogVector \o m_LogVector) \o <<l>>
        BY <4>1, AppendIsConcat
      <4>3. QED
        BY <2>1, <4>1, <4>2, ConcatAssociative
    <3>4. Pool!Add(l)
      BY <3>1, <3>2, <3>3, <3>a DEF Pool!Add
    <3>5. QED
      BY <3>4 DEF Pool!Next
  <2>3. ASSUME BeginLine PROVE Pool!Next
    <3>1. /\ tempLogVector # <<>> /\ writing = {}
          /\ tempLogVector' = Tail(tempLogVector)
          /\ writing' = {Head(tempLogVector)}
          /\ UNCHANGED <<m_LogVector, written>>
          /\ writer # "exited" /\ writer' # "exited"
      BY <2>3 DEF BeginLine, WriterGoes, Inv, ThreadHolds
    <3>2. Pool!StartOldest
      BY <2>1, <3>1, HeadOfBoth DEF Pool!StartOldest
    <3>3. QED
      BY <3>2 DEF Pool!Next
  <2>4. ASSUME EndLine PROVE Pool!Next
    <3>1. PICK l \in Lines : writing = {l}
      BY <2>4 DEF EndLine, WriterGoes, Inv, ThreadHolds
    <3>2. Pool!End(l)
      BY <2>4, <3>1 DEF EndLine, WriterGoes, Pool!End
    <3>3. QED
      BY <3>2 DEF Pool!Next
  <2>5. ASSUME TakeLines
        PROVE  /\ UNCHANGED <<tempLogVector \o m_LogVector, writing, written>>
               /\ writer' = "exited" <=> writer = "exited"
    <3>1. /\ tempLogVector = <<>>
          /\ tempLogVector' = m_LogVector /\ m_LogVector' = <<>>
          /\ UNCHANGED <<writing, written>>
          /\ writer # "exited" /\ writer' # "exited"
      BY <2>5 DEF TakeLines, WriterGoes, Inv, ThreadHolds
    <3>2. <<>> \o m_LogVector = m_LogVector \o <<>>
      BY <2>1, ConcatEmptySeq
    <3>3. QED
      BY <3>1, <3>2
  <2>6. ASSUME NEW c \in Callers, MakeInstance(c)
        PROVE  /\ UNCHANGED <<tempLogVector \o m_LogVector, writing, written>>
               /\ writer' = "exited" <=> writer = "exited"
    BY <2>6 DEF MakeInstance, NewLogger, threadVars, Inv, Made
  <2>7. ASSUME \/ \E c \in Callers : LookForInstance(c)
               \/ TestFails \/ FallAsleep \/ Again \/ SpuriousWakeup
               \/ SetDestroyFlag \/ Destroy \/ UNCHANGED vars
        PROVE  /\ UNCHANGED <<tempLogVector \o m_LogVector, writing, written>>
               /\ writer' = "exited" <=> writer = "exited"
    BY <2>7 DEF LookForInstance, TestFails, FallAsleep, Again, WriterGoes,
                SpuriousWakeup, SetDestroyFlag, Destroy, NotifyToLeave, Woken,
                Join, threadVars, vars
  <2>8. ASSUME Leave PROVE Pool!Next
    <3>1. /\ tempLogVector \o m_LogVector = <<>> /\ writing = {}
          /\ UNCHANGED <<tempLogVector \o m_LogVector, writing, written>>
          /\ writer # "exited" /\ writer' = "exited"
      BY <2>8 DEF Leave, WriterGoes, threadVars, Inv, ThreadHolds
    <3>2. QED
      BY <3>1 DEF Pool!Close, Pool!Next
  <2>9. QED
    BY <2>2, <2>3, <2>4, <2>5, <2>6, <2>7, <2>8 DEF Next, ThreadWork
<1>3. QED
  BY <1>1, <1>2, Invariance, PTL DEF SafeSpec, Pool!SafeSpec

=============================================================================
