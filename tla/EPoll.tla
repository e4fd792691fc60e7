------------------------------- MODULE EPoll --------------------------------
(***************************************************************************)
(* EPoll.cpp: one epoll instance, edge triggered because every descriptor  *)
(* handed to it is non-blocking (lines 78-81, 105-108).  The errors of     *)
(* epoll_ctl are dropped by the code, so a call that fails changes nothing *)
(* and nobody hears of it.                                                 *)
(*                                                                         *)
(* The kernel's part, as the code uses it: adding or changing an entry     *)
(* looks at once whether the descriptor is ready; epoll_wait reports an    *)
(* entry of the ready list if it is still ready for something it is        *)
(* registered for, and an edge-triggered entry leaves the list.            *)
(***************************************************************************)
CONSTANTS
    Handles,        \* descriptors
    Nobody          \* data.ptr of a descriptor that is not registered

VARIABLES
    reg,            \* per descriptor: data.ptr and the events asked for
    ready           \* the kernel's ready list, as a set

epollVars == <<reg, ready>>

Off == [ptr |-> Nobody, in |-> FALSE, out |-> FALSE]

Entry(ptr, isWrite, isRead) == [ptr |-> ptr, in |-> isRead, out |-> isWrite]

\* now: is the descriptor ready for one of the events asked for?
Set(fs, entry, now) ==
    /\ reg' = [reg EXCEPT ![fs] = entry]
    /\ ready' = IF now THEN ready \cup {fs} ELSE ready

\* EPOLL_CTL_ADD: EEXIST if fs is registered.
Add(fs, entry, now) ==
    IF reg[fs] = Off THEN Set(fs, entry, now) ELSE UNCHANGED epollVars

\* EPOLL_CTL_MOD: ENOENT if fs is not registered.
Change(fs, entry, now) ==
    IF reg[fs] # Off THEN Set(fs, entry, now) ELSE UNCHANGED epollVars

\* EPOLL_CTL_DEL; also what close() of a descriptor does.
Remove(fs) ==
    /\ reg' = [reg EXCEPT ![fs] = Off]
    /\ ready' = ready \ {fs}

\* What epoll_wait and the loop of lines 51-56 hand to m_EventCallback, when
\* the descriptors in readable and writable are ready to be read and written.
Reported(readable, writable) ==
    { [ptr |-> reg[fs].ptr,
       isRead |-> reg[fs].in /\ fs \in readable,
       isWrite |-> reg[fs].out /\ fs \in writable] :
      fs \in {h \in ready : \/ reg[h].in /\ h \in readable
                            \/ reg[h].out /\ h \in writable} }

=============================================================================
