--------------------------- MODULE PackageChannel ---------------------------
(***************************************************************************)
(* What one direction of a connection promises to SendPackage at one end   *)
(* and to m_ReadPackageCallback at the other: packages, not bytes.  A      *)
(* package is taken whole or refused; what is taken arrives whole, once,   *)
(* in order.  One read may deliver any number of packages.                 *)
(***************************************************************************)
EXTENDS Naturals, Sequences

CONSTANT Packages

VARIABLES
    accepted,       \* packages taken so far, oldest first
    delivered       \* packages handed to the callback so far

vars == <<accepted, delivered>>

Init == accepted = <<>> /\ delivered = <<>>

Accept(p) ==
    /\ accepted' = Append(accepted, p)
    /\ UNCHANGED delivered

\* The next n packages arrive.
Deliver(n) ==
    /\ Len(delivered) + n <= Len(accepted)
    /\ delivered' = SubSeq(accepted, 1, Len(delivered) + n)
    /\ UNCHANGED accepted

Next ==
    \/ \E p \in Packages : Accept(p)
    \/ \E n \in 1..(Len(accepted) - Len(delivered)) : Deliver(n)

SafeSpec == Init /\ [][Next]_vars

=============================================================================
