---------------------------- MODULE MCMemoryPool ----------------------------
(***************************************************************************)
(* An instance of MemoryPool: two pools, one of them with a single block,  *)
(* sizes on both sides of each boundary, and one beyond the largest int,   *)
(* which is small here.  Threads are alike, and so are the blocks of       *)
(* malloc.                                                                 *)
(***************************************************************************)
EXTENDS MemoryPool, TLC

TwoAndOne == [s \in Sizes |-> IF s = 8 THEN 2 ELSE 1]

Symmetry == Permutations(Threads) \cup Permutations(Mallocs)
=============================================================================
