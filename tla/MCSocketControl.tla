-------------------------- MODULE MCSocketControl ---------------------------
(***************************************************************************)
(* Instances of SocketControl.  Workers are interchangeable, connections   *)
(* too: nothing orders them.  The runs that check liveness use no symmetry.*)
(***************************************************************************)
EXTENDS SocketControl, TLC

Symmetry == Permutations(Workers) \cup Permutations(Conns)
=============================================================================
