---------------------------- MODULE MCThreadPool ----------------------------
(* ThreadPool with two or three threads and up to four tasks. *)
EXTENDS ThreadPool, TLC

Symmetry == Permutations(Workers)

=============================================================================
