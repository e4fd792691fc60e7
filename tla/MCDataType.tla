----------------------------- MODULE MCDataType -----------------------------
(***************************************************************************)
(* Instances of DataType: every short list of different elements, lists on *)
(* both sides of the bounds of a char and of a byte, texts on both sides   *)
(* of them.                                                                *)
(***************************************************************************)
EXTENDS DataType, FiniteSets

Counting(n) == [i \in 1..n |-> 1000 + i]
Boundary == {127, 128, 129, 255, 256, 300}

SmallUserLists == BoundedSeq({1001, 1002, 1003}, 3)
ManyUsers == SmallUserLists \cup {Counting(n) : n \in Boundary}

SomeGroups ==
    [group : {2001},
     users : BoundedSeq({1001, 1002}, 2) \cup {Counting(127), Counting(128)}]
SmallGroup == [group |-> 2001, users |-> <<1001>>]
ManyGroups == BoundedSeq(SomeGroups, 2)
              \cup {[i \in 1..n |-> SmallGroup] : n \in {127, 128}}

TextSizes == {0, 1, 2, 126, 127, 128, 254, 255, 256}
Texts == {[i \in 1..n |-> 65 + (i % 26)] : n \in TextSizes}
SomeMsgs == [fixed : {3001}, Msg : Texts, Extend : {<<>>, <<90>>, <<90, 89>>}]
ShortMsgs == {m \in SomeMsgs : Len(m.Msg) <= 1 \/ Len(m.Msg) = 127}
EmptyMsg == [fixed |-> 3001, Msg |-> <<>>, Extend |-> <<>>]
ManyMsgs == {<<m>> : m \in SomeMsgs} \cup BoundedSeq(ShortMsgs, 2)
            \cup {[i \in 1..n |-> EmptyMsg] : n \in {20, 127, 128}}
=============================================================================
