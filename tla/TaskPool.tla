------------------------------ MODULE TaskPool ------------------------------
(***************************************************************************)
(* What ThreadPool promises to the code that calls AddTask, with its       *)
(* threads, lock and condition variable left out: tasks wait in the order  *)
(* in which they were added, the oldest one is started first, and a        *)
(* started task ends.  Nothing is lost, repeated or started out of order.  *)
(* The pool closes when nothing is left to do, and not before; what is     *)
(* added to a closed pool stays where it is for ever.                      *)
(***************************************************************************)
EXTENDS Naturals, Sequences

CONSTANT Tasks      \* every task that may ever be given to AddTask, once each

VARIABLES
    waiting,        \* tasks added and not yet started, oldest first
    started,        \* tasks being executed by some thread
    ended,          \* tasks whose call has returned
    closed,         \* has the last thread left?
    stranded        \* tasks added when it had

vars == <<waiting, started, ended, closed, stranded>>

Waiting == {waiting[i] : i \in DOMAIN waiting}

Init ==
    /\ waiting = <<>>
    /\ started = {}
    /\ ended = {}
    /\ closed = FALSE
    /\ stranded = {}

IsNew(t) == t \notin Waiting \cup started \cup ended \cup stranded

Add(t) ==
    /\ ~closed /\ IsNew(t)
    /\ waiting' = Append(waiting, t)
    /\ UNCHANGED <<started, ended, closed, stranded>>

AddTooLate(t) ==
    /\ closed /\ IsNew(t)
    /\ stranded' = stranded \cup {t}
    /\ UNCHANGED <<waiting, started, ended, closed>>

StartOldest ==
    /\ waiting # <<>>
    /\ waiting' = Tail(waiting)
    /\ started' = started \cup {Head(waiting)}
    /\ UNCHANGED <<ended, closed, stranded>>

End(t) ==
    /\ t \in started
    /\ started' = started \ {t}
    /\ ended' = ended \cup {t}
    /\ UNCHANGED <<waiting, closed, stranded>>

Close ==
    /\ ~closed
    /\ waiting = <<>> /\ started = {}
    /\ closed' = TRUE
    /\ UNCHANGED <<waiting, started, ended, stranded>>

Next ==
    \/ \E t \in Tasks : Add(t) \/ AddTooLate(t) \/ End(t)
    \/ StartOldest \/ Close

SafeSpec == Init /\ [][Next]_vars

Spec ==
    /\ SafeSpec
    /\ WF_vars(StartOldest)
    /\ \A t \in Tasks : WF_vars(End(t))

=============================================================================
