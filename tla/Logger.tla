------------------------------- MODULE Logger -------------------------------
(***************************************************************************)
(* The server's Logger (Logger.hpp): LOGE and its like find or make the one *)
(* Logger in GetInstance() and leave a line in m_LogVector; the thread that *)
(* the constructor starts moves all lines out under s_Mutex, and writes     *)
(* them one by one, each again under s_Mutex.  A static object deletes the  *)
(* Logger when the process exits.                                           *)
(*                                                                          *)
(* A step is one holding of s_Mutex, or one access without it; the wait of  *)
(* line 125 is two, as in ThreadPool.  The first test of GetInstance and    *)
(* the flag of the destructor are not under the lock.  Init(), which opens  *)
(* the file, is called by nobody: lines go to the standard output.          *)
(***************************************************************************)
EXTENDS Sequences, FiniteSets, Naturals

CONSTANTS
    Callers,        \* threads that log
    Lines           \* every line that may ever be logged, once each

VARIABLES
    s_pInstance,    \* "none", "live" or "deleted"
    made,           \* how many Loggers, each with a thread, were constructed
    m_LogVector,    \* lines logged and not yet taken by the thread
    m_IsDestory,
    caller,         \* where each thread is in a call of LOGE
    writer,         \* where the Logger's thread is in ThreadWork()
    tempLogVector,  \* the lines it has taken and not yet begun
    writing,        \* the line it is writing, as a set
    written,        \* the lines that have been written
    exit            \* how far the exit of the process has come

vars == <<s_pInstance, made, m_LogVector, m_IsDestory,
          caller, writer, tempLogVector, writing, written, exit>>

\* The thread keeps s_Mutex across a step when it is about to sleep, and
\* while it writes a line.
MutexFree == writer \notin {"tested", "writing"}

Taken == {tempLogVector[i] : i \in DOMAIN tempLogVector} \cup writing \cup written
Logged == {m_LogVector[i] : i \in DOMAIN m_LogVector} \cup Taken

\* Bound: as many calls as there are lines.
Calls == Cardinality(Logged) + Cardinality({c \in Callers : caller[c] # "idle"})

Init ==
    /\ s_pInstance = "none"
    /\ made = 0
    /\ m_LogVector = <<>>
    /\ m_IsDestory = FALSE
    /\ caller = [c \in Callers |-> "idle"]
    /\ writer = "none"
    /\ tempLogVector = <<>>
    /\ writing = {}
    /\ written = {}
    /\ exit = "running"

CallerGoes(c, where) == caller' = [caller EXCEPT ![c] = where]

threadVars == <<tempLogVector, writing, written>>

-----------------------------------------------------------------------------
(* LOGE: GetInstance()->Log() *)

\* Nobody logs once the process is exiting: main has returned, and has joined
\* the other threads.
LookForInstance(c) ==
    /\ exit = "running" /\ caller[c] = "idle"
    /\ Calls < Cardinality(Lines)
    /\ CallerGoes(c, IF s_pInstance = "none" THEN "missed" ELSE "found")
    /\ UNCHANGED <<s_pInstance, made, m_LogVector, m_IsDestory,
                   writer, threadVars, exit>>

NewLogger ==
    /\ s_pInstance' = "live"
    /\ made' = made + 1
    /\ m_LogVector' = <<>>
    /\ writer' = "lock"

\* Mutant: s_pInstance is not tested again under the lock.
MakeUnchecked(c) ==
    /\ caller[c] = "missed" /\ MutexFree
    /\ NewLogger
    /\ CallerGoes(c, "found")
    /\ UNCHANGED <<m_IsDestory, threadVars, exit>>

\* The caller that comes second finds the Logger that the first has made.
MakeInstance(c) ==
    /\ caller[c] = "missed" /\ MutexFree
    /\ IF s_pInstance = "none"
       THEN NewLogger
       ELSE UNCHANGED <<s_pInstance, made, m_LogVector, writer>>
    /\ CallerGoes(c, "found")
    /\ UNCHANGED <<m_IsDestory, threadVars, exit>>

\* notify_one(): the thread is the only one that ever waits.
Woken == IF writer = "asleep" THEN "lock" ELSE writer

\* Mutant: the line is pushed and the thread is not notified.
LogQuietly(c, l) ==
    /\ caller[c] = "found" /\ MutexFree
    /\ l \notin Logged
    /\ m_LogVector' = Append(m_LogVector, l)
    /\ CallerGoes(c, "idle")
    /\ UNCHANGED <<s_pInstance, made, m_IsDestory, writer, threadVars, exit>>

Log(c, l) ==
    /\ caller[c] = "found" /\ MutexFree
    /\ l \notin Logged
    /\ m_LogVector' = Append(m_LogVector, l)
    /\ writer' = Woken
    /\ CallerGoes(c, "idle")
    /\ UNCHANGED <<s_pInstance, made, m_IsDestory, threadVars, exit>>

-----------------------------------------------------------------------------
(* ThreadWork() *)

WriterGoes(from, to) ==
    /\ writer = from /\ writer' = to
    /\ UNCHANGED <<s_pInstance, made, m_IsDestory, caller, exit>>

TestFails ==
    /\ m_LogVector = <<>> /\ ~m_IsDestory
    /\ WriterGoes("lock", "tested")
    /\ UNCHANGED <<m_LogVector, threadVars>>

FallAsleep ==
    /\ WriterGoes("tested", "asleep")
    /\ UNCHANGED <<m_LogVector, threadVars>>

SpuriousWakeup ==
    /\ WriterGoes("asleep", "lock")
    /\ UNCHANGED <<m_LogVector, threadVars>>

\* Mutant: the flag alone ends the thread, whatever there is to write.
LeaveAtOnce ==
    /\ m_IsDestory
    /\ WriterGoes("lock", "exited")
    /\ UNCHANGED <<m_LogVector, threadVars>>

\* Woken with nothing to write: it can only be the end.
Leave ==
    /\ m_LogVector = <<>> /\ m_IsDestory
    /\ WriterGoes("lock", "exited")
    /\ UNCHANGED <<m_LogVector, threadVars>>

\* All lines at once.
TakeLines ==
    /\ m_LogVector # <<>>
    /\ tempLogVector' = m_LogVector
    /\ m_LogVector' = <<>>
    /\ WriterGoes("lock", "next")
    /\ UNCHANGED <<writing, written>>

\* LogTask() takes s_Mutex for one line, so callers get in between two lines.
BeginLine ==
    /\ tempLogVector # <<>>
    /\ writing' = {Head(tempLogVector)}
    /\ tempLogVector' = Tail(tempLogVector)
    /\ WriterGoes("next", "writing")
    /\ UNCHANGED <<m_LogVector, written>>

EndLine ==
    /\ written' = written \cup writing
    /\ writing' = {}
    /\ WriterGoes("writing", "next")
    /\ UNCHANGED <<m_LogVector, tempLogVector>>

\* The lines are written: back to the head of the loop.
Again ==
    /\ tempLogVector = <<>>
    /\ WriterGoes("next", "lock")
    /\ UNCHANGED <<m_LogVector, threadVars>>

-----------------------------------------------------------------------------
(* ~LoggerDestory() and ~Logger(), after main has returned *)

\* The flag is set without s_Mutex.
SetDestroyFlag ==
    /\ exit = "running" /\ s_pInstance = "live"
    /\ \A c \in Callers : caller[c] = "idle"
    /\ exit' = "flagged"
    /\ m_IsDestory' = TRUE
    /\ UNCHANGED <<s_pInstance, made, m_LogVector, caller, writer, threadVars>>

\* Mutant: the destructor notifies nobody.
GoOnQuietly ==
    /\ exit = "flagged" /\ exit' = "notified"
    /\ UNCHANGED <<s_pInstance, made, m_LogVector, m_IsDestory, caller, writer,
                   threadVars>>

NotifyToLeave ==
    /\ exit = "flagged" /\ exit' = "notified"
    /\ writer' = Woken
    /\ UNCHANGED <<s_pInstance, made, m_LogVector, m_IsDestory, caller,
                   threadVars>>

Join ==
    /\ exit = "notified" /\ exit' = "joined"
    /\ writer = "exited"
    /\ s_pInstance' = "deleted"
    /\ UNCHANGED <<made, m_LogVector, m_IsDestory, caller, writer, threadVars>>

-----------------------------------------------------------------------------

ThreadWork ==
    \/ TestFails \/ FallAsleep \/ Leave
    \/ TakeLines \/ BeginLine \/ EndLine \/ Again

Destroy == NotifyToLeave \/ Join

Next ==
    \/ \E c \in Callers :
          \/ LookForInstance(c) \/ MakeInstance(c)
          \/ \E l \in Lines : Log(c, l)
    \/ ThreadWork \/ SpuriousWakeup
    \/ SetDestroyFlag \/ Destroy

SafeSpec == Init /\ [][Next]_vars

\* The Logger's thread runs when it can, and so does the exit once it has
\* begun.  Nobody has to log or to exit.
Spec == SafeSpec /\ WF_vars(ThreadWork) /\ WF_vars(Destroy)

-----------------------------------------------------------------------------

\* However many threads log their first line at a time, one Logger with one
\* thread is made (GetInstance 149-161): a second one would have a queue of
\* its own, which nobody deletes and whose lines the exit does not wait for.
OneLogger == made <= 1 /\ (made = 0 <=> s_pInstance = "none")

\* When the process has joined the thread, every line that LOGE ever took has
\* been written, those included that came in while others were written
\* (132-139).
AllWritten == exit = "joined" => written = Logged

\* Callers and thread, lock and wakeups included, are the abstract pool with
\* a line for a task: the lines are written in the order of the calls of
\* Log(), each once, and all of them in the end.  The thread leaves when
\* nothing is left to write, and no line is logged after that.
Pool == INSTANCE TaskPool WITH
            Tasks <- Lines, waiting <- tempLogVector \o m_LogVector,
            started <- writing, ended <- written,
            closed <- writer = "exited", stranded <- {}
WritesInOrder == Pool!Spec

\* The exit ends if the thread does not sit between its test and its sleep
\* when the flag is set and until the destructor notifies (45-46); if it sits
\* there it misses the notification, because line 45 does not take s_Mutex.
ExitEnds == (exit = "flagged" /\ writer # "tested") ~> (exit = "joined")

=============================================================================
