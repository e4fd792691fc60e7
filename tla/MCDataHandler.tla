--------------------------- MODULE MCDataHandler ----------------------------
(***************************************************************************)
(* Instances of DataHandler: one group that every user belongs to.         *)
(* Clients, threads and MySqls are interchangeable.                        *)
(***************************************************************************)
EXTENDS DataHandler, TLC

AllUsers == [g \in Groups |-> Users]

Symmetry == Permutations(Clients) \cup Permutations(Threads) \cup Permutations(MySqls)
=============================================================================
