--------------------------- MODULE PackageProofs ----------------------------
(***************************************************************************)
(* Theorems about a package on its way: how it is framed in the stream of  *)
(* bytes (PackageStream), and what is inside it (DataType).                *)
(*                                                                         *)
(* The stream, for every size of the buffers, of the packages and of what  *)
(* the kernel holds.  What the loops compute comes first: that a size      *)
(* written as bytes is read as that size, that the packages in a row are   *)
(* one long sequence in which each begins where the one before it ends,    *)
(* and that the reader's loop, begun where a package begins, cuts out      *)
(* exactly the packages that are whole.  The loops are recursive           *)
(* functions, so each needs a proof that there is such a function; what it *)
(* computes follows by taking the first place where it would be wrong.     *)
(* Then the invariant: what is in the two buffers and between them is the  *)
(* packages that were accepted and not delivered, and it begins with one   *)
(* of them.                                                                *)
(*                                                                         *)
(* The structures, for lists of any length and texts of any length, as     *)
(* long as an object fits an int.  One notion carries them all: the bytes  *)
(* of p lie in d at the offset o.  It composes, so that a structure needs  *)
(* to be looked at once, by itself, wherever in a list it is serialized:   *)
(* what each Serialize() writes has the size that it sums up, its parts    *)
(* lie where the sizes before them say, and wherever it lies UnSerialize() *)
(* finds it.                                                               *)
(***************************************************************************)
EXTENDS PackageStream, DataType, SequenceTheorems, WellFoundedInduction, TLAPS

\* What is sent as one package: an int counts it.
Pieces == {data \in Seq(Byte) : Len(data) <= MaxCounted}

-----------------------------------------------------------------------------
(* Numbers and parts of sequences *)

\* A set of numbers that is not empty has a smallest one.
LEMMA Smallest ==
    ASSUME NEW G \in SUBSET Nat, G # {}
    PROVE  \E n \in G : \A m \in G : n <= m
<1>1. PICK n \in G : \A m \in G : ~ (<<m, n>> \in OpToRel(<, Nat))
  BY NatLessThanWellFounded, WFMin
<1>2. \A m \in G : ~ (m < n)
  BY <1>1 DEF OpToRel
<1>3. QED
  BY <1>2

\* The elements after the first a ones, up to the b-th.
LEMMA Cut ==
    ASSUME NEW S, NEW s \in Seq(S), NEW a \in 0..Len(s), NEW b \in a..Len(s)
    PROVE  /\ SubSeq(s, a + 1, b) \in Seq(S)
           /\ Len(SubSeq(s, a + 1, b)) = b - a
           /\ \A i \in 1..(b - a) : SubSeq(s, a + 1, b)[i] = s[a + i]
<1>1. Len(s) \in Nat /\ a + 1 \in Int /\ b \in Int
  OBVIOUS
<1>2. \A i \in (a + 1)..b : s[i] \in S
  BY <1>1, ElementOfSeq
<1>3. /\ SubSeq(s, a + 1, b) \in Seq(S)
      /\ Len(SubSeq(s, a + 1, b)) = IF a + 1 <= b THEN b - (a + 1) + 1 ELSE 0
      /\ \A i \in 1..(b - (a + 1) + 1) : SubSeq(s, a + 1, b)[i] = s[a + 1 + i - 1]
  BY <1>1, <1>2, SubSeqProperties
<1>4. Len(SubSeq(s, a + 1, b)) = b - a
  BY <1>1, <1>3
<1>5. \A i \in 1..(b - a) : i \in 1..(b - (a + 1) + 1) /\ a + 1 + i - 1 = a + i
  BY <1>1
<1>6. QED
  BY <1>3, <1>4, <1>5

\* A sequence is its first k elements and the others.
LEMMA Split ==
    ASSUME NEW S, NEW s \in Seq(S), NEW k \in 0..Len(s)
    PROVE  s = SubSeq(s, 1, k) \o SubSeq(s, k + 1, Len(s))
<1>1. Len(s) \in Nat
  OBVIOUS
<1>2. SubSeq(s, 1, k) \o SubSeq(s, k + 1, Len(s)) = SubSeq(s, 1, Len(s))
  <2>1. 1 \in 1..(Len(s) + 1) /\ k \in (1 - 1)..Len(s) /\ Len(s) \in k..Len(s)
    BY <1>1
  <2>2. QED
    BY <2>1, ConcatAdjacentSubSeq
<1>3. QED
  BY <1>2, SubSeqFull

\* Three sequences in a row may be grouped either way.  (An operator, so that
\* a prover meets only the three that a proof names.)
Groups(x, y, z) == (x \o y) \o z = x \o (y \o z)

LEMMA GroupsAny ==
    ASSUME NEW S, NEW x \in Seq(S), NEW y \in Seq(S), NEW z \in Seq(S)
    PROVE  Groups(x, y, z)
  BY ConcatAssociative DEF Groups

\* A part of the first sequence is that part of the two together.
LEMMA CutOfConcat ==
    ASSUME NEW S, NEW s \in Seq(S), NEW t \in Seq(S),
           NEW a \in 0..Len(s), NEW b \in a..Len(s)
    PROVE  SubSeq(s \o t, a + 1, b) = SubSeq(s, a + 1, b)
<1> DEFINE u == s \o t
<1>1. /\ u \in Seq(S) /\ Len(u) = Len(s) + Len(t)
      /\ \A i \in 1..Len(s) + Len(t) : u[i] = IF i <= Len(s) THEN s[i] ELSE t[i - Len(s)]
  BY ConcatProperties
<1> HIDE DEF u
<1>2. Len(s) \in Nat /\ Len(t) \in Nat /\ a \in 0..Len(u) /\ b \in a..Len(u)
  BY <1>1
<1>3. /\ SubSeq(u, a + 1, b) \in Seq(S) /\ Len(SubSeq(u, a + 1, b)) = b - a
      /\ \A i \in 1..(b - a) : SubSeq(u, a + 1, b)[i] = u[a + i]
  BY <1>1, <1>2, Cut
<1>4. /\ SubSeq(s, a + 1, b) \in Seq(S) /\ Len(SubSeq(s, a + 1, b)) = b - a
      /\ \A i \in 1..(b - a) : SubSeq(s, a + 1, b)[i] = s[a + i]
  BY Cut
<1>5. \A i \in 1..(b - a) : u[a + i] = s[a + i]
  BY <1>1, <1>2
<1>6. SubSeq(u, a + 1, b) = SubSeq(s, a + 1, b)
  BY <1>3, <1>4, <1>5, SeqEqual
<1>7. QED
  BY <1>6 DEF u

\* A part of a part.
LEMMA CutOfCut ==
    ASSUME NEW S, NEW s \in Seq(S), NEW c \in 0..Len(s),
           NEW a \in 0..(Len(s) - c), NEW b \in a..(Len(s) - c)
    PROVE  SubSeq(SubSeq(s, c + 1, Len(s)), a + 1, b) = SubSeq(s, c + a + 1, c + b)
<1> DEFINE u == SubSeq(s, c + 1, Len(s))
<1>1. Len(s) \in Nat /\ c + a \in 0..Len(s) /\ c + b \in (c + a)..Len(s)
  OBVIOUS
<1>2. /\ u \in Seq(S) /\ Len(u) = Len(s) - c
      /\ \A i \in 1..(Len(s) - c) : u[i] = s[c + i]
  BY <1>1, Cut
<1> HIDE DEF u
<1>3. /\ SubSeq(u, a + 1, b) \in Seq(S) /\ Len(SubSeq(u, a + 1, b)) = b - a
      /\ \A i \in 1..(b - a) : SubSeq(u, a + 1, b)[i] = u[a + i]
  BY <1>2, Cut
<1>4. /\ SubSeq(s, c + a + 1, c + b) \in Seq(S)
      /\ Len(SubSeq(s, c + a + 1, c + b)) = c + b - (c + a)
      /\ \A i \in 1..(c + b - (c + a)) : SubSeq(s, c + a + 1, c + b)[i] = s[c + a + i]
  BY <1>1, Cut
<1>5. c + b - (c + a) = b - a
  BY <1>1
<1>6. \A i \in 1..(b - a) : a + i \in 1..(Len(s) - c) /\ c + (a + i) = c + a + i
  BY <1>1
<1>7. \A i \in 1..(b - a) : u[a + i] = s[c + a + i]
  BY <1>2, <1>6
<1>8. SubSeq(u, a + 1, b) = SubSeq(s, c + a + 1, c + b)
  <2> DEFINE x == SubSeq(u, a + 1, b)
             y == SubSeq(s, c + a + 1, c + b)
  <2>1. x \in Seq(S) /\ y \in Seq(S) /\ Len(x) = b - a /\ Len(y) = b - a
    BY <1>3, <1>4, <1>5
  <2>2. \A i \in 1..(b - a) : x[i] = y[i]
    BY <1>3, <1>4, <1>5, <1>7
  <2> HIDE DEF x, y
  <2>3. x = y
    BY <2>1, <2>2, SeqEqual
  <2>4. QED
    BY <2>3 DEF x, y
<1>9. QED
  BY <1>8 DEF u

-----------------------------------------------------------------------------
(* A size as bytes *)

LEMMA ByteType == \A b \in Byte : b \in Nat
  BY DEF Byte

\* What a byte of an int counts.
Weighed(bytes, k) == IF k \in 1..HeadSize THEN bytes[k] * 256^(k - 1) ELSE 0

LEMMA WeightType ==
    ASSUME NEW k \in 1..4
    PROVE  256^(k - 1) \in Nat
<1>1. CASE k = 1
  <2>1. 256^(1 - 1) \in Nat
    OBVIOUS
  <2>2. QED
    BY <1>1, <2>1
<1>2. CASE k = 2
  <2>1. 256^(2 - 1) \in Nat
    OBVIOUS
  <2>2. QED
    BY <1>2, <2>1
<1>3. CASE k = 3
  <2>1. 256^(3 - 1) \in Nat
    OBVIOUS
  <2>2. QED
    BY <1>3, <2>1
<1>4. CASE k = 4
  <2>1. 256^(4 - 1) \in Nat
    OBVIOUS
  <2>2. QED
    BY <1>4, <2>1
<1>5. QED
  BY <1>1, <1>2, <1>3, <1>4

LEMMA WeighedType ==
    ASSUME NEW bytes \in Seq(Byte), Len(bytes) = HeadSize, NEW k \in 1..4
    PROVE  Weighed(bytes, k) \in Nat
<1>1. CASE k \in 1..HeadSize
  <2>1. bytes[k] \in Nat
    <3>1. k \in 1..Len(bytes)
      BY <1>1
    <3>2. bytes[k] \in Byte
      BY <3>1, ElementOfSeq
    <3>3. QED
      BY <3>2, ByteType
  <2> DEFINE w == 256^(k - 1)
  <2>4. w \in Nat
    BY WeightType
  <2> HIDE DEF w
  <2>5. bytes[k] * w \in Nat
    BY <2>1, <2>4
  <2> USE DEF w
  <2>6. QED
    BY <1>1, <2>5 DEF Weighed
<1>2. CASE k \notin 1..HeadSize
  BY <1>2 DEF Weighed
<1>3. QED
  BY <1>1, <1>2

\* The largest of the first few numbers.
LEMMA LargestIs ==
    ASSUME NEW s \in SUBSET (1..4), s # {}
    PROVE  Max(s) \in s /\ \A k \in s : k <= Max(s)
<1>1. \E x \in s : \A y \in s : x >= y
  <2>1. CASE 4 \in s
    BY <2>1
  <2>2. CASE 4 \notin s /\ 3 \in s
    <3>1. \A y \in s : 3 >= y
      BY <2>2
    <3>2. QED
      BY <2>2, <3>1
  <2>3. CASE 4 \notin s /\ 3 \notin s /\ 2 \in s
    <3>1. \A y \in s : 2 >= y
      BY <2>3
    <3>2. QED
      BY <2>3, <3>1
  <2>4. CASE 4 \notin s /\ 3 \notin s /\ 2 \notin s
    <3>1. \A y \in s : y = 1
      BY <2>4
    <3>2. 1 \in s
      BY <3>1
    <3>3. QED
      BY <3>1, <3>2
  <2>5. QED
    BY <2>1, <2>2, <2>3, <2>4
<1>2. Max(s) \in s /\ \A y \in s : Max(s) >= y
  BY <1>1 DEF Max
<1>3. QED
  BY <1>2

\* IntOf adds up the bytes with their weights.
LEMMA IntOfIs ==
    ASSUME NEW bytes \in Seq(Byte), Len(bytes) = HeadSize
    PROVE  IntOf(bytes) = Weighed(bytes, 1) + Weighed(bytes, 2)
                          + Weighed(bytes, 3) + Weighed(bytes, 4)
<1> DEFINE v(k) == Weighed(bytes, k)
           id == [i \in DOMAIN bytes |-> i]
           D == DOMAIN id
           Step(f, s) == IF s = {} THEN 0
                         ELSE f[s \ {Max(s)}] + bytes[id[Max(s)]] * 256^(id[Max(s)] - 1)
           Solves(f) == f = [s \in SUBSET D |-> Step(f, s)]
           Part(s, k) == IF k \in s THEN v(k) ELSE 0
           F == [s \in SUBSET D |-> Part(s, 1) + Part(s, 2) + Part(s, 3) + Part(s, 4)]
<1>1. IntOf(bytes) = (CHOOSE f : Solves(f))[D]
  BY DEF IntOf, FoldLeftDomain, FoldLeft, MapThenFoldSet
<1>2. D = 1..HeadSize /\ HeadSize \in 1..4 /\ \A k \in D : id[k] = k
  BY LenProperties, SizesAssumption
<1>3. \A k \in 1..4 : v(k) \in Nat
  BY WeighedType
<1>4. \A k \in D : bytes[id[k]] * 256^(id[k] - 1) = v(k)
  BY <1>2 DEF Weighed
<1>5. \A k \in 1..4 : k \notin D => v(k) = 0
  BY <1>2 DEF Weighed
<1> HIDE DEF id, D, v
<1>6. \A s \in SUBSET D : s # {} => /\ Max(s) \in s
                                    /\ \A f : Step(f, s) = f[s \ {Max(s)}] + v(Max(s))
  <2>1. TAKE s \in SUBSET D
  <2>2. HAVE s # {}
  <2>3. Max(s) \in s /\ Max(s) \in D
    <3>1. s \in SUBSET (1..4)
      BY <1>2
    <3>2. QED
      BY <2>2, <3>1, LargestIs
  <2>4. QED
    BY <1>4, <2>2, <2>3
<1>7. Solves(F)
  <2>1. SUFFICES \A s \in SUBSET D : F[s] = Step(F, s)
    <3>1. F = [s \in SUBSET D |-> F[s]]
      OBVIOUS
    <3> HIDE DEF F, Step
    <3>2. QED
      BY <2>1, <3>1
  <2> TAKE s \in SUBSET D
  <2>2. CASE s = {}
    BY <2>2
  <2>3. CASE s # {}
    <3> DEFINE x == Max(s)
    <3>1. x \in s /\ x \in 1..4 /\ s \ {x} \in SUBSET D /\ Step(F, s) = F[s \ {x}] + v(x)
      <4> HIDE DEF F, Step
      <4>1. x \in s /\ Step(F, s) = F[s \ {x}] + v(x)
        BY <1>6, <2>3
      <4> HIDE DEF x
      <4>2. x \in s
        BY <4>1
      <4>3. x \in D
        BY <4>2
      <4>4. x \in 1..4
        BY <1>2, <4>3
      <4>5. s \ {x} \in SUBSET D
        OBVIOUS
      <4>6. QED
        BY <4>1, <4>2, <4>4, <4>5
    <3> HIDE DEF x
    <3>2. F[s] = Part(s, 1) + Part(s, 2) + Part(s, 3) + Part(s, 4)
      OBVIOUS
    <3>3. F[s \ {x}] = Part(s \ {x}, 1) + Part(s \ {x}, 2) + Part(s \ {x}, 3) + Part(s \ {x}, 4)
      BY <3>1
    <3> HIDE DEF F, Step
    <3>4. v(1) \in Nat /\ v(2) \in Nat /\ v(3) \in Nat /\ v(4) \in Nat
      BY <1>3
    <3>5. F[s] = F[s \ {x}] + v(x)
      <4>1. CASE x = 1
        BY <3>1, <3>2, <3>3, <3>4, <4>1
      <4>2. CASE x = 2
        BY <3>1, <3>2, <3>3, <3>4, <4>2
      <4>3. CASE x = 3
        BY <3>1, <3>2, <3>3, <3>4, <4>3
      <4>4. CASE x = 4
        BY <3>1, <3>2, <3>3, <3>4, <4>4
      <4>5. QED
        BY <3>1, <4>1, <4>2, <4>3, <4>4
    <3>6. QED
      BY <3>1, <3>5
  <2>4. QED
    BY <2>2, <2>3
<1> HIDE DEF F
<1>8. PICK f : f = (CHOOSE g : Solves(g))
  OBVIOUS
<1>9. Solves(f)
  <2> HIDE DEF Solves
  <2>1. QED
    BY <1>7, <1>8, Zenon
<1>10. f[{}] = 0 /\ \A s \in SUBSET D : s # {} => f[s] = f[s \ {Max(s)}] + v(Max(s))
  <2>1. \A s \in SUBSET D : f[s] = Step(f, s)
    BY <1>9
  <2>2. f[{}] = 0
    <3>1. {} \in SUBSET D
      OBVIOUS
    <3>2. f[{}] = Step(f, {})
      BY <2>1, <3>1
    <3>3. Step(f, {}) = 0
      OBVIOUS
    <3>4. QED
      BY <3>2, <3>3
  <2> HIDE DEF Step
  <2>3. ASSUME NEW s \in SUBSET D, s # {}
        PROVE  f[s] = f[s \ {Max(s)}] + v(Max(s))
    <3>1. Step(f, s) = f[s \ {Max(s)}] + v(Max(s))
      BY <1>6, <2>3
    <3>2. QED
      BY <2>1, <3>1
  <2>4. QED
    BY <2>2, <2>3
<1> HIDE DEF Solves, Step
<1>11. ASSUME NEW h \in 1..HeadSize, NEW g \in 0..3, h = g + 1
       PROVE  f[1..h] = f[1..g] + v(h)
  <2> DEFINE s == 1..h
  <2>1. s \in SUBSET D /\ s # {} /\ s \in SUBSET (1..4)
    <3>1. h \in s /\ s \subseteq 1..HeadSize /\ s \subseteq 1..4
      BY <1>2
    <3>2. QED
      BY <1>2, <3>1
  <2>2. Max(s) \in s /\ \A k \in s : k <= Max(s)
    BY <2>1, LargestIs
  <2>3. Max(s) = h
    <3>1. h \in s
      BY <1>2
    <3>2. QED
      BY <1>2, <2>2, <3>1
  <2>4. s \ {h} = 1..g
    BY <1>2, <1>11
  <2>5. QED
    BY <1>10, <2>1, <2>3, <2>4
<1>12. f[1..0] = 0
  <2>1. 1..0 = {}
    OBVIOUS
  <2>2. QED
    BY <1>10, <2>1
<1>13. f[1..HeadSize] = v(1) + v(2) + v(3) + v(4)
  <2>1. v(1) \in Nat /\ v(2) \in Nat /\ v(3) \in Nat /\ v(4) \in Nat
    BY <1>3
  <2>2. f[1..1] = v(1)
    <3>1. 1 \in 1..HeadSize
      BY <1>2
    <3>2. 0 \in 0..3 /\ 1 = 0 + 1
      OBVIOUS
    <3>3. f[1..1] = f[1..0] + v(1)
      BY <1>11, <3>1, <3>2
    <3>4. QED
      BY <1>12, <2>1, <3>3
  <2>3. 2 \in 1..HeadSize => f[1..2] = f[1..1] + v(2)
    <3>1. 1 \in 0..3 /\ 2 = 1 + 1
      OBVIOUS
    <3>2. QED
      BY <1>11, <3>1
  <2>4. 3 \in 1..HeadSize => f[1..3] = f[1..2] + v(3)
    <3>1. 2 \in 0..3 /\ 3 = 2 + 1
      OBVIOUS
    <3>2. QED
      BY <1>11, <3>1
  <2>5. 4 \in 1..HeadSize => f[1..4] = f[1..3] + v(4)
    <3>1. 3 \in 0..3 /\ 4 = 3 + 1
      OBVIOUS
    <3>2. QED
      BY <1>11, <3>1
  <2>6. (2 \notin 1..HeadSize => v(2) = 0) /\ (3 \notin 1..HeadSize => v(3) = 0)
        /\ (4 \notin 1..HeadSize => v(4) = 0)
    BY <1>2, <1>5
  <2>7. HeadSize = 1 \/ HeadSize = 2 \/ HeadSize = 3 \/ HeadSize = 4
    BY <1>2
  <2>8. CASE HeadSize = 1
    BY <2>1, <2>2, <2>6, <2>8
  <2>9. CASE HeadSize = 2
    BY <2>1, <2>2, <2>3, <2>6, <2>9
  <2>10. CASE HeadSize = 3
    BY <2>1, <2>2, <2>3, <2>4, <2>6, <2>10
  <2>11. CASE HeadSize = 4
    BY <2>1, <2>2, <2>3, <2>4, <2>5, <2>11
  <2>12. QED
    BY <2>7, <2>8, <2>9, <2>10, <2>11
<1>14. QED
  BY <1>1, <1>2, <1>8, <1>13 DEF v

LEMMA WeightsAre ==
    256^(1 - 1) = 1 /\ 256^(2 - 1) = 256 /\ 256^(3 - 1) = 65536 /\ 256^(4 - 1) = 16777216
  OBVIOUS

LEMMA MaxCountedIs ==
    /\ HeadSize = 1 => MaxCounted = 127
    /\ HeadSize = 2 => MaxCounted = 32767
    /\ HeadSize = 3 => MaxCounted = 8388607
    /\ HeadSize = 4 => MaxCounted = 2147483647
<1>1. CASE HeadSize = 1
  <2>1. MaxCounted = 128 * 256^(1 - 1) - 1
    BY <1>1 DEF MaxCounted
  <2>2. QED
    BY <1>1, <2>1
<1>2. CASE HeadSize = 2
  <2>1. MaxCounted = 128 * 256^(2 - 1) - 1
    BY <1>2 DEF MaxCounted
  <2>2. QED
    BY <1>2, <2>1
<1>3. CASE HeadSize = 3
  <2>1. MaxCounted = 128 * 256^(3 - 1) - 1
    BY <1>3 DEF MaxCounted
  <2>2. QED
    BY <1>3, <2>1
<1>4. CASE HeadSize = 4
  <2>1. MaxCounted = 128 * 256^(4 - 1) - 1
    BY <1>4 DEF MaxCounted
  <2>2. QED
    BY <1>4, <2>1
<1>5. QED
  BY <1>1, <1>2, <1>3, <1>4

\* A number is the sum of its four bytes with their weights.
LEMMA FourBytes ==
    ASSUME NEW n \in Nat, n <= 2147483647
    PROVE  (n % 256) * 1 + ((n \div 256) % 256) * 256 + ((n \div 65536) % 256) * 65536
           + ((n \div 16777216) % 256) * 16777216 = n
<1> DEFINE a == n \div 256
           b == n \div 65536
           c == n \div 16777216
<1>1. n = 256 * a + (n % 256) /\ a \in Nat /\ b \in Nat /\ c \in Nat
  OBVIOUS
<1>2. a = 256 * b + (a % 256)
  OBVIOUS
<1>3. b = 256 * c + (b % 256)
  OBVIOUS
<1>4. c % 256 = c
  <2>1. c < 256
    OBVIOUS
  <2>2. QED
    BY <2>1, <1>1
<1>5. n % 256 \in Nat /\ a % 256 \in Nat /\ b % 256 \in Nat
  OBVIOUS
<1> HIDE DEF a, b, c
<1>6. (n % 256) * 1 + (a % 256) * 256 + (b % 256) * 65536 + (c % 256) * 16777216 = n
  BY <1>1, <1>2, <1>3, <1>4, <1>5
<1>7. QED
  BY <1>6 DEF a, b, c

\* What was written as an int is read as that int.
LEMMA IntOfBytes ==
    ASSUME NEW n \in Nat, n <= MaxCounted
    PROVE  /\ Bytes(n) \in Seq(Byte) /\ Len(Bytes(n)) = HeadSize
           /\ IntOf(Bytes(n)) = n
<1>1. HeadSize \in 1..4 /\ HeadSize \in Nat
  BY SizesAssumption
<1>2. HeadSize = 1 \/ HeadSize = 2 \/ HeadSize = 3 \/ HeadSize = 4
  BY <1>1
<1> DEFINE b == Bytes(n)
           digit(w) == (n \div w) % 256
<1>3. /\ b = [k \in 1..HeadSize |-> b[k]] /\ DOMAIN b = 1..HeadSize
      /\ \A k \in 1..HeadSize : b[k] = digit(256^(k - 1))
  BY DEF Bytes
<1>4. /\ 1 \in 1..HeadSize => b[1] = digit(1)
      /\ 2 \in 1..HeadSize => b[2] = digit(256)
      /\ 3 \in 1..HeadSize => b[3] = digit(65536)
      /\ 4 \in 1..HeadSize => b[4] = digit(16777216)
  <2> HIDE DEF b, digit
  <2>1. /\ 1 \in 1..HeadSize => b[1] = digit(256^(1 - 1))
        /\ 2 \in 1..HeadSize => b[2] = digit(256^(2 - 1))
        /\ 3 \in 1..HeadSize => b[3] = digit(256^(3 - 1))
        /\ 4 \in 1..HeadSize => b[4] = digit(256^(4 - 1))
    BY <1>3
  <2>2. QED
    BY <2>1, WeightsAre
<1>5. digit(1) \in Byte /\ digit(256) \in Byte /\ digit(65536) \in Byte
      /\ digit(16777216) \in Byte
  BY DEF Byte
<1> HIDE DEF b
<1>6. b \in Seq(Byte) /\ Len(b) = HeadSize
  <2> HIDE DEF digit
  <2>1. \A k \in 1..HeadSize : k = 1 \/ k = 2 \/ k = 3 \/ k = 4
    BY <1>1
  <2>2. \A k \in 1..HeadSize : b[k] \in Byte
    BY <1>4, <1>5, <2>1
  <2>3. b \in Seq(Byte)
    BY <1>1, <1>3, <2>2
  <2>4. QED
    BY <1>1, <1>3, <2>3
<1>7. /\ 2 \notin 1..HeadSize => digit(256) = 0
      /\ 3 \notin 1..HeadSize => digit(65536) = 0
      /\ 4 \notin 1..HeadSize => digit(16777216) = 0
  <2>1. /\ 2 \notin 1..HeadSize => n < 256
        /\ 3 \notin 1..HeadSize => n < 65536
        /\ 4 \notin 1..HeadSize => n < 16777216
    BY <1>1, <1>2, MaxCountedIs
  <2>2. n < 256 => n \div 256 = 0
    OBVIOUS
  <2>3. n < 65536 => n \div 65536 = 0
    OBVIOUS
  <2>4. n < 16777216 => n \div 16777216 = 0
    OBVIOUS
  <2>5. 0 % 256 = 0
    OBVIOUS
  <2>6. QED
    BY <2>1, <2>2, <2>3, <2>4, <2>5
<1>8. digit(1) = n % 256
  <2>1. n \div 1 = n
    OBVIOUS
  <2>2. QED
    BY <2>1
<1>9. digit(1) * 1 + digit(256) * 256 + digit(65536) * 65536 + digit(16777216) * 16777216 = n
  <2>1. n <= 2147483647
    BY <1>1, <1>2, MaxCountedIs
  <2>2. QED
    BY <1>8, <2>1, FourBytes
<1> HIDE DEF digit
<1>10. \A k \in 1..4 : Weighed(b, k) = IF k \in 1..HeadSize THEN b[k] * 256^(k - 1) ELSE 0
  BY DEF Weighed
<1>11. /\ digit(1) \in Nat /\ digit(256) \in Nat /\ digit(65536) \in Nat
       /\ digit(16777216) \in Nat
  BY <1>5, ByteType
<1>12. Weighed(b, 1) = digit(1) * 1
  <2>1. 1 \in 1..HeadSize
    BY <1>1
  <2>2. QED
    BY <1>4, <1>10, <2>1, WeightsAre
<1>13. Weighed(b, 2) = digit(256) * 256
  BY <1>4, <1>7, <1>10, <1>11, WeightsAre
<1>14. Weighed(b, 3) = digit(65536) * 65536
  BY <1>4, <1>7, <1>10, <1>11, WeightsAre
<1>15. Weighed(b, 4) = digit(16777216) * 16777216
  BY <1>4, <1>7, <1>10, <1>11, WeightsAre
<1>16. IntOf(b) = n
  BY <1>6, <1>9, <1>11, <1>12, <1>13, <1>14, <1>15, IntOfIs
<1>17. QED
  BY <1>6, <1>16 DEF b

\* A size that is read is a number.
LEMMA IntOfType ==
    ASSUME NEW bytes \in Seq(Byte), Len(bytes) = HeadSize
    PROVE  IntOf(bytes) \in Nat
<1>1. /\ Weighed(bytes, 1) \in Nat /\ Weighed(bytes, 2) \in Nat
      /\ Weighed(bytes, 3) \in Nat /\ Weighed(bytes, 4) \in Nat
  BY WeighedType
<1>2. QED
  BY <1>1, IntOfIs

-----------------------------------------------------------------------------
(* Packages in a row *)

\* f[i] is what the first i of the first n sequences are in a row.
InARow(f, seqs, n) ==
    f = [i \in 1..n |-> IF i = 1 THEN seqs[i] ELSE f[i - 1] \o seqs[i]]

\* Two sequences are the same as far as n.
Agree(s, t, n) == \A i \in 1..n : s[i] = t[i]

LEMMA InARowExists ==
    ASSUME NEW seqs, NEW n \in Nat
    PROVE  \E f : InARow(f, seqs, n)
<1> DEFINE G == {k \in Nat : ~ \E f : InARow(f, seqs, k)}
<1>1. SUFFICES ASSUME G # {} PROVE FALSE
  OBVIOUS
<1>2. PICK k \in G : \A m \in G : k <= m
  <2> HIDE DEF G
  <2>1. G \in SUBSET Nat
    BY DEF G
  <2>2. QED
    BY <1>1, <2>1, Smallest
<1>3. k # 0
  <2>1. InARow([i \in 1..0 |-> 0], seqs, 0)
    BY DEF InARow
  <2>2. QED
    BY <1>2, <2>1
<1>4. k \in Nat /\ k - 1 \in Nat /\ k - 1 \notin G
  BY <1>2, <1>3
<1>5. PICK f : InARow(f, seqs, k - 1)
  BY <1>4
<1> DEFINE g == [i \in 1..k |-> IF i = k THEN IF k = 1 THEN seqs[k] ELSE f[k - 1] \o seqs[k]
                                ELSE f[i]]
<1>6. InARow(g, seqs, k)
  <2>1. SUFFICES \A i \in 1..k : g[i] = IF i = 1 THEN seqs[i] ELSE g[i - 1] \o seqs[i]
    <3>1. g = [i \in 1..k |-> g[i]]
      OBVIOUS
    <3> HIDE DEF g
    <3>2. QED
      BY <2>1, <3>1 DEF InARow
  <2>2. TAKE i \in 1..k
  <2>3. CASE i = k
    BY <1>4, <2>3
  <2>4. CASE i # k
    <3>1. i \in 1..(k - 1) /\ (i # 1 => i - 1 \in 1..k /\ i - 1 # k)
      BY <1>4, <2>4
    <3>2. f[i] = IF i = 1 THEN seqs[i] ELSE f[i - 1] \o seqs[i]
      BY <1>5, <3>1 DEF InARow
    <3>3. g[i] = f[i] /\ (i # 1 => g[i - 1] = f[i - 1])
      BY <2>4, <3>1
    <3> HIDE DEF g
    <3>4. QED
      BY <3>2, <3>3
  <2>5. QED
    BY <2>3, <2>4
<1>7. QED
  BY <1>2, <1>6

LEMMA InARowUnique ==
    ASSUME NEW s, NEW t, NEW f, NEW g, NEW n \in Nat, NEW m \in Nat, n <= m,
           InARow(f, s, n), InARow(g, t, m), Agree(s, t, n)
    PROVE  Agree(f, g, n)
<1> DEFINE G == {i \in 1..n : f[i] # g[i]}
<1>1. SUFFICES ASSUME G # {} PROVE FALSE
  BY DEF Agree
<1>2. PICK k \in G : \A i \in G : k <= i
  <2> HIDE DEF G
  <2>1. G \in SUBSET Nat
    BY DEF G
  <2>2. QED
    BY <1>1, <2>1, Smallest
<1>3. k \in 1..n /\ k \in 1..m
  BY <1>2
<1>4. f[k] = IF k = 1 THEN s[k] ELSE f[k - 1] \o s[k]
  BY <1>3 DEF InARow
<1>5. g[k] = IF k = 1 THEN t[k] ELSE g[k - 1] \o t[k]
  BY <1>3 DEF InARow
<1>6. k # 1 => f[k - 1] = g[k - 1]
  <2>1. k # 1 => k - 1 \in 1..n /\ k - 1 \notin G
    BY <1>2, <1>3
  <2>2. QED
    BY <2>1
<1>7. QED
  BY <1>2, <1>3, <1>4, <1>5, <1>6 DEF Agree

LEMMA FlattenIs ==
    ASSUME NEW seqs, Len(seqs) \in Nat \ {0}
    PROVE  \E f : InARow(f, seqs, Len(seqs)) /\ FlattenSeq(seqs) = f[Len(seqs)]
<1> DEFINE Solves(f) == InARow(f, seqs, Len(seqs))
<1>1. FlattenSeq(seqs) = (CHOOSE f : Solves(f))[Len(seqs)]
  BY DEF FlattenSeq, InARow
<1>2. \E f : Solves(f)
  BY InARowExists
<1>3. PICK f : f = (CHOOSE g : Solves(g))
  OBVIOUS
<1>4. Solves(f)
  <2> HIDE DEF Solves
  <2>1. QED
    BY <1>2, <1>3, Zenon
<1>5. QED
  BY <1>1, <1>3, <1>4

\* One more at the end.
LEMMA FlattenAppend ==
    ASSUME NEW S, NEW s \in Seq(Seq(S)), NEW d \in Seq(S)
    PROVE  FlattenSeq(Append(s, d)) = FlattenSeq(s) \o d
<1> DEFINE t == Append(s, d)
<1>1. /\ t \in Seq(Seq(S)) /\ Len(t) = Len(s) + 1 /\ t[Len(s) + 1] = d
      /\ \A i \in 1..Len(s) : t[i] = s[i]
  BY AppendProperties
<1>2. Len(s) \in Nat /\ Len(t) \in Nat \ {0}
  BY <1>1
<1> HIDE DEF t
<1>3. PICK g : InARow(g, t, Len(t)) /\ FlattenSeq(t) = g[Len(t)]
  BY <1>2, FlattenIs
<1>4. Len(t) \in 1..Len(t)
  BY <1>2
<1>5. g[Len(t)] = IF Len(t) = 1 THEN t[Len(t)] ELSE g[Len(t) - 1] \o t[Len(t)]
  BY <1>3, <1>4 DEF InARow
<1>6. CASE Len(s) = 0
  <2>1. s = <<>> /\ FlattenSeq(s) = <<>>
    BY <1>6, EmptySeq DEF FlattenSeq
  <2>2. <<>> \o d = d
    BY ConcatEmptySeq
  <2>3. FlattenSeq(t) = d
    BY <1>1, <1>3, <1>5, <1>6
  <2>4. QED
    BY <2>1, <2>2, <2>3 DEF t
<1>7. CASE Len(s) # 0
  <2>1. PICK f : InARow(f, s, Len(s)) /\ FlattenSeq(s) = f[Len(s)]
    BY <1>2, <1>7, FlattenIs
  <2>2. Len(s) <= Len(t) /\ Agree(s, t, Len(s))
    BY <1>1, <1>2 DEF Agree
  <2>3. Agree(f, g, Len(s))
    BY <1>2, <1>3, <2>1, <2>2, InARowUnique
  <2>4. Len(s) \in 1..Len(s) /\ Len(t) - 1 = Len(s) /\ Len(t) # 1
    BY <1>1, <1>2, <1>7
  <2>5. FlattenSeq(t) = g[Len(s)] \o d
    BY <1>1, <1>3, <1>5, <2>4
  <2>6. QED
    BY <2>1, <2>3, <2>4, <2>5 DEF t, Agree
<1>8. QED
  BY <1>6, <1>7

\* A frame is the head, that says how much data follows, and the data.
LEMMA FrameType ==
    ASSUME NEW data \in Pieces
    PROVE  /\ data \in Seq(Byte) /\ Len(data) \in Nat
           /\ Frame(data) \in Seq(Byte) /\ Len(Frame(data)) = HeadSize + Len(data)
           /\ SubSeq(Frame(data), 1, HeadSize) = Bytes(Len(data))
           /\ SubSeq(Frame(data), HeadSize + 1, HeadSize + Len(data)) = data
<1>1. data \in Seq(Byte) /\ Len(data) <= MaxCounted
  BY DEF Pieces
<1>2. Len(data) \in Nat /\ HeadSize \in Nat
  BY <1>1, SizesAssumption
<1> DEFINE head == Bytes(Len(data))
<1>3. head \in Seq(Byte) /\ Len(head) = HeadSize
  BY <1>1, <1>2, IntOfBytes
<1> HIDE DEF head
<1> DEFINE u == head \o data
<1>4. /\ u \in Seq(Byte) /\ Len(u) = Len(head) + Len(data)
      /\ \A i \in 1..Len(head) + Len(data) :
            u[i] = IF i <= Len(head) THEN head[i] ELSE data[i - Len(head)]
  BY <1>1, <1>3, ConcatProperties
<1> HIDE DEF u
<1>5. Frame(data) = u
  BY DEF Frame, head, u
<1>6. SubSeq(u, 1, HeadSize) = head
  <2>1. 0 \in 0..Len(head) /\ HeadSize \in 0..Len(head) /\ 0 + 1 = 1
    BY <1>2, <1>3
  <2>2. SubSeq(u, 0 + 1, HeadSize) = SubSeq(head, 0 + 1, HeadSize)
    BY <1>1, <1>3, <2>1, CutOfConcat DEF u
  <2>3. SubSeq(head, 1, HeadSize) = head
    BY <1>3, SubSeqFull
  <2>4. QED
    BY <2>1, <2>2, <2>3
<1>7. SubSeq(u, HeadSize + 1, HeadSize + Len(data)) = data
  <2>1. HeadSize \in 0..Len(u) /\ HeadSize + Len(data) \in HeadSize..Len(u)
        /\ HeadSize + Len(data) - HeadSize = Len(data)
    BY <1>1, <1>2, <1>3, <1>4
  <2> DEFINE c == SubSeq(u, HeadSize + 1, HeadSize + Len(data))
  <2>2. c \in Seq(Byte) /\ Len(c) = Len(data) /\ \A i \in 1..Len(data) : c[i] = u[HeadSize + i]
    BY <1>4, <2>1, Cut
  <2> HIDE DEF c
  <2>3. \A i \in 1..Len(data) : u[HeadSize + i] = data[i]
    BY <1>1, <1>2, <1>3, <1>4
  <2>4. c = data
    BY <1>1, <2>2, <2>3, SeqEqual
  <2>5. QED
    BY <2>4 DEF c
<1>8. QED
  BY <1>1, <1>2, <1>3, <1>4, <1>5, <1>6, <1>7 DEF head

LEMMA FramesEmpty == Frames(<<>>) = <<>>
<1>1. [i \in DOMAIN <<>> |-> Frame(<<>>[i])] = <<>>
  OBVIOUS
<1>2. FlattenSeq(<<>>) = <<>>
  BY DEF FlattenSeq
<1>3. QED
  BY <1>1, <1>2 DEF Frames

LEMMA FramesAppend ==
    ASSUME NEW p \in Seq(Pieces), NEW data \in Pieces
    PROVE  Frames(Append(p, data)) = Frames(p) \o Frame(data)
<1> DEFINE q == Append(p, data)
           s == [i \in 1..Len(p) |-> Frame(p[i])]
           t == [i \in 1..Len(q) |-> Frame(q[i])]
<1>1. /\ q \in Seq(Pieces) /\ Len(q) = Len(p) + 1 /\ q[Len(p) + 1] = data
      /\ \A i \in 1..Len(p) : q[i] = p[i]
  BY AppendProperties
<1>2. Len(p) \in Nat /\ DOMAIN p = 1..Len(p) /\ DOMAIN q = 1..Len(q)
  BY <1>1, LenProperties
<1>3. Frames(p) = FlattenSeq(s) /\ Frames(q) = FlattenSeq(t)
  BY <1>2 DEF Frames
<1> HIDE DEF q
<1>4. \A i \in 1..Len(p) : Frame(p[i]) \in Seq(Byte)
  <2>1. \A i \in 1..Len(p) : p[i] \in Pieces
    BY ElementOfSeq
  <2>2. QED
    BY <2>1, FrameType
<1>5. s \in Seq(Seq(Byte)) /\ Len(s) = Len(p)
  <2>1. DOMAIN s = 1..Len(p) /\ \A i \in 1..Len(p) : s[i] \in Seq(Byte)
    BY <1>4
  <2>2. s = [i \in 1..Len(p) |-> s[i]]
    OBVIOUS
  <2> HIDE DEF s
  <2>3. s \in Seq(Seq(Byte))
    BY <1>2, <2>1, <2>2
  <2>4. QED
    BY <1>2, <2>1, <2>3
<1>6. Frame(data) \in Seq(Byte)
  BY FrameType
<1> DEFINE r == Append(s, Frame(data))
<1>7. /\ r \in Seq(Seq(Byte)) /\ Len(r) = Len(s) + 1 /\ r[Len(s) + 1] = Frame(data)
      /\ \A i \in 1..Len(s) : r[i] = s[i]
  BY <1>5, <1>6, AppendProperties
<1>8. t = r
  <2> HIDE DEF r
  <2>1. \A i \in 1..Len(q) : t[i] = r[i]
    <3>1. TAKE i \in 1..Len(q)
    <3>2. t[i] = Frame(q[i])
      OBVIOUS
    <3>3. CASE i = Len(p) + 1
      BY <1>1, <1>5, <1>7, <3>2, <3>3
    <3>4. CASE i # Len(p) + 1
      <4>1. i \in 1..Len(p)
        BY <1>1, <1>2, <3>4
      <4>2. s[i] = Frame(p[i])
        BY <4>1
      <4>3. QED
        BY <1>1, <1>5, <1>7, <3>2, <4>1, <4>2
    <3>5. QED
      BY <3>3, <3>4
  <2>2. DOMAIN r = 1..Len(q) /\ r = [i \in DOMAIN r |-> r[i]]
    BY <1>1, <1>5, <1>7, LenProperties
  <2>3. t = [i \in 1..Len(q) |-> t[i]]
    OBVIOUS
  <2> HIDE DEF t
  <2>4. QED
    BY <2>1, <2>2, <2>3
<1>9. FlattenSeq(r) = FlattenSeq(s) \o Frame(data)
  BY <1>5, <1>6, FlattenAppend
<1>10. QED
  BY <1>3, <1>8, <1>9 DEF q

\* A part of the second sequence is a later part of the two together.
LEMMA CutAfter ==
    ASSUME NEW S, NEW s \in Seq(S), NEW t \in Seq(S),
           NEW a \in 0..Len(t), NEW b \in a..Len(t)
    PROVE  SubSeq(s \o t, Len(s) + a + 1, Len(s) + b) = SubSeq(t, a + 1, b)
<1> DEFINE u == s \o t
           c == Len(s) + a
           e == Len(s) + b
<1>1. /\ u \in Seq(S) /\ Len(u) = Len(s) + Len(t)
      /\ \A i \in 1..Len(s) + Len(t) : u[i] = IF i <= Len(s) THEN s[i] ELSE t[i - Len(s)]
  BY ConcatProperties
<1> HIDE DEF u
<1>2. Len(s) \in Nat /\ Len(t) \in Nat /\ c \in 0..Len(u) /\ e \in c..Len(u) /\ e - c = b - a
  BY <1>1
<1>3. c + 1 = Len(s) + a + 1
  BY <1>2
<1> HIDE DEF c, e
<1>4. /\ SubSeq(u, c + 1, e) \in Seq(S) /\ Len(SubSeq(u, c + 1, e)) = e - c
      /\ \A i \in 1..(e - c) : SubSeq(u, c + 1, e)[i] = u[c + i]
  BY <1>1, <1>2, Cut
<1>5. /\ SubSeq(t, a + 1, b) \in Seq(S) /\ Len(SubSeq(t, a + 1, b)) = b - a
      /\ \A i \in 1..(b - a) : SubSeq(t, a + 1, b)[i] = t[a + i]
  BY Cut
<1>6. \A i \in 1..(b - a) : u[c + i] = t[a + i]
  BY <1>1, <1>2 DEF c
<1>7. SubSeq(u, c + 1, e) = SubSeq(t, a + 1, b)
  <2> DEFINE x == SubSeq(u, c + 1, e)
             y == SubSeq(t, a + 1, b)
  <2>1. x \in Seq(S) /\ y \in Seq(S) /\ Len(x) = b - a /\ Len(y) = b - a
    BY <1>2, <1>4, <1>5
  <2>2. \A i \in 1..(b - a) : x[i] = y[i]
    <3>1. TAKE i \in 1..(b - a)
    <3>2. i \in 1..(e - c)
      BY <1>2
    <3>3. x[i] = u[c + i] /\ y[i] = t[a + i] /\ u[c + i] = t[a + i]
      BY <1>4, <1>5, <1>6, <3>2
    <3>4. QED
      BY <3>3
  <2> HIDE DEF x, y
  <2>3. x = y
    BY <2>1, <2>2, SeqEqual
  <2>4. QED
    BY <2>3 DEF x, y
<1>8. QED
  BY <1>3, <1>7 DEF u, e

LEMMA FramesType ==
    ASSUME NEW p \in Seq(Pieces)
    PROVE  Frames(p) \in Seq(Byte)
<1> DEFINE Bad(k) == \E q \in Seq(Pieces) : Len(q) = k /\ Frames(q) \notin Seq(Byte)
           G == {k \in Nat : Bad(k)}
<1>1. SUFFICES G = {}
  <2>1. Len(p) \in Nat /\ Len(p) \notin G
    BY <1>1
  <2>2. QED
    BY <2>1
<1>2. SUFFICES ASSUME G # {} PROVE FALSE
  OBVIOUS
<1>3. PICK k \in G : \A m \in G : k <= m
  <2> HIDE DEF G
  <2>1. G \in SUBSET Nat
    BY DEF G
  <2>2. QED
    BY <1>2, <2>1, Smallest
<1>4. PICK q \in Seq(Pieces) : Len(q) = k /\ Frames(q) \notin Seq(Byte)
  BY <1>3
<1>5. q # <<>>
  <2>1. <<>> \in Seq(Byte)
    BY EmptySeq
  <2>2. QED
    BY <1>4, <2>1, FramesEmpty
<1>6. PICK s \in Seq(Pieces) : \E d \in Pieces : q = Append(s, d)
  BY <1>5, SequenceEmptyOrAppend
<1>7. PICK d \in Pieces : q = Append(s, d)
  BY <1>6
<1>8. Len(s) \in Nat /\ Len(q) = Len(s) + 1
  BY <1>7, AppendProperties
<1>9. Len(s) \notin G
  BY <1>3, <1>4, <1>8
<1>10. Frames(s) \in Seq(Byte)
  BY <1>8, <1>9
<1>11. Frames(q) = Frames(s) \o Frame(d) /\ Frame(d) \in Seq(Byte)
  BY <1>7, FramesAppend, FrameType
<1>12. QED
  BY <1>4, <1>10, <1>11, ConcatProperties

LEMMA FramesConcat ==
    ASSUME NEW p \in Seq(Pieces), NEW q \in Seq(Pieces)
    PROVE  Frames(p \o q) = Frames(p) \o Frames(q)
<1> DEFINE Bad(k) == \E r \in Seq(Pieces) :
                         Len(r) = k /\ Frames(p \o r) # Frames(p) \o Frames(r)
           G == {k \in Nat : Bad(k)}
<1>1. SUFFICES G = {}
  <2>1. Len(q) \in Nat /\ Len(q) \notin G
    BY <1>1
  <2>2. QED
    BY <2>1
<1>2. SUFFICES ASSUME G # {} PROVE FALSE
  OBVIOUS
<1>3. PICK k \in G : \A m \in G : k <= m
  <2> HIDE DEF G
  <2>1. G \in SUBSET Nat
    BY DEF G
  <2>2. QED
    BY <1>2, <2>1, Smallest
<1>4. PICK r \in Seq(Pieces) : Len(r) = k /\ Frames(p \o r) # Frames(p) \o Frames(r)
  BY <1>3
<1>5. Frames(p) \in Seq(Byte)
  BY FramesType
<1>6. r # <<>>
  <2>1. p \o <<>> = p /\ Frames(p) \o <<>> = Frames(p)
    BY <1>5, ConcatEmptySeq
  <2>2. QED
    BY <1>4, <2>1, FramesEmpty
<1>7. PICK s \in Seq(Pieces) : \E d \in Pieces : r = Append(s, d)
  BY <1>6, SequenceEmptyOrAppend
<1>8. PICK d \in Pieces : r = Append(s, d)
  BY <1>7
<1>9. Len(s) \in Nat /\ Len(r) = Len(s) + 1
  BY <1>8, AppendProperties
<1>10. Len(s) \notin G
  <2>1. ~(k <= Len(s))
    BY <1>4, <1>9
  <2> HIDE DEF G
  <2>2. QED
    BY <1>3, <2>1
<1>11. Frames(p \o s) = Frames(p) \o Frames(s)
  BY <1>9, <1>10
<1>12. p \o r = Append(p \o s, d) /\ p \o s \in Seq(Pieces)
  <2>1. r = s \o <<d>> /\ <<d>> \in Seq(Pieces)
    BY <1>8, AppendIsConcat
  <2>2. p \o (s \o <<d>>) = (p \o s) \o <<d>>
    <3>1. Groups(p, s, <<d>>)
      BY <2>1, GroupsAny
    <3>2. QED
      BY <3>1 DEF Groups
  <2>3. p \o s \in Seq(Pieces)
    BY ConcatProperties
  <2>4. Append(p \o s, d) = (p \o s) \o <<d>>
    BY <2>3, AppendIsConcat
  <2>5. QED
    BY <2>1, <2>2, <2>3, <2>4
<1>13. /\ Frames(r) = Frames(s) \o Frame(d)
       /\ Frames(p \o r) = Frames(p \o s) \o Frame(d)
  BY <1>8, <1>12, FramesAppend
<1>14. Frames(s) \in Seq(Byte) /\ Frame(d) \in Seq(Byte)
  BY FramesType, FrameType
<1>15. (Frames(p) \o Frames(s)) \o Frame(d) = Frames(p) \o (Frames(s) \o Frame(d))
  <2> DEFINE x == Frames(p)
             y == Frames(s)
             z == Frame(d)
  <2>1. x \in Seq(Byte) /\ y \in Seq(Byte) /\ z \in Seq(Byte)
    BY <1>5, <1>14
  <2> HIDE DEF x, y, z, G
  <2>2. (x \o y) \o z = x \o (y \o z)
    <3>1. Groups(x, y, z)
      BY <2>1, GroupsAny
    <3>2. QED
      BY <3>1 DEF Groups
  <2>3. QED
    BY <2>2 DEF x, y, z
<1>16. QED
  BY <1>4, <1>11, <1>13, <1>15

-----------------------------------------------------------------------------
(* Where the packages are in the stream *)

\* Where the package after the first k begins.
Start(p, k) == Len(Frames(SubSeq(p, 1, k)))

LEMMA PrefixType ==
    ASSUME NEW p \in Seq(Pieces), NEW k \in 0..Len(p)
    PROVE  /\ SubSeq(p, 1, k) \in Seq(Pieces) /\ SubSeq(p, k + 1, Len(p)) \in Seq(Pieces)
           /\ Len(SubSeq(p, 1, k)) = k
           /\ Frames(SubSeq(p, 1, k)) \in Seq(Byte)
           /\ Frames(SubSeq(p, k + 1, Len(p))) \in Seq(Byte)
           /\ Frames(p) = Frames(SubSeq(p, 1, k)) \o Frames(SubSeq(p, k + 1, Len(p)))
           /\ Start(p, k) \in Nat /\ Start(p, k) <= Len(Frames(p))
<1>1. Len(p) \in Nat /\ k \in Nat /\ 0 + 1 = 1 /\ k - 0 = k
  OBVIOUS
<1>2. SubSeq(p, 1, k) \in Seq(Pieces) /\ Len(SubSeq(p, 1, k)) = k
  <2>1. 0 \in 0..Len(p) /\ k \in 0..Len(p)
    BY <1>1
  <2>2. SubSeq(p, 0 + 1, k) \in Seq(Pieces) /\ Len(SubSeq(p, 0 + 1, k)) = k - 0
    BY <2>1, Cut
  <2>3. QED
    BY <1>1, <2>2
<1>3. SubSeq(p, k + 1, Len(p)) \in Seq(Pieces)
  <2>1. Len(p) \in k..Len(p)
    BY <1>1
  <2>2. QED
    BY <2>1, Cut
<1> DEFINE a == Frames(SubSeq(p, 1, k))
           b == Frames(SubSeq(p, k + 1, Len(p)))
<1>4. a \in Seq(Byte) /\ b \in Seq(Byte)
  BY <1>2, <1>3, FramesType
<1>5. Frames(p) = a \o b
  <2>1. p = SubSeq(p, 1, k) \o SubSeq(p, k + 1, Len(p))
    BY Split
  <2>2. QED
    BY <1>2, <1>3, <2>1, FramesConcat
<1> HIDE DEF a, b
<1>6. Len(Frames(p)) = Len(a) + Len(b) /\ Len(a) \in Nat /\ Len(b) \in Nat
  BY <1>4, <1>5, ConcatProperties
<1>7. Start(p, k) \in Nat /\ Start(p, k) <= Len(Frames(p))
  <2>1. Len(a) <= Len(Frames(p))
    BY <1>6
  <2>2. QED
    BY <1>6, <2>1 DEF Start, a
<1>8. QED
  BY <1>2, <1>3, <1>4, <1>5, <1>7 DEF a, b

LEMMA StartNext ==
    ASSUME NEW p \in Seq(Pieces), NEW k \in 0..(Len(p) - 1)
    PROVE  /\ p[k + 1] \in Pieces
           /\ Frames(SubSeq(p, 1, k + 1)) = Frames(SubSeq(p, 1, k)) \o Frame(p[k + 1])
           /\ Start(p, k + 1) = Start(p, k) + HeadSize + Len(p[k + 1])
<1>1. Len(p) \in Nat /\ k \in 0..Len(p) /\ k + 1 \in 1..Len(p) /\ k + 1 - 1 = k
      /\ 1 \in 1..Len(p)
  OBVIOUS
<1>2. p[k + 1] \in Pieces
  BY <1>1, ElementOfSeq
<1>3. SubSeq(p, 1, k + 1) = SubSeq(p, 1, k) \o <<p[k + 1]>>
  BY <1>1, SubSeqRecursiveSecond
<1>4. SubSeq(p, 1, k) \in Seq(Pieces) /\ Frames(SubSeq(p, 1, k)) \in Seq(Byte)
  BY <1>1, PrefixType
<1>5. SubSeq(p, 1, k + 1) = Append(SubSeq(p, 1, k), p[k + 1])
  BY <1>2, <1>3, <1>4, AppendIsConcat
<1>6. Frames(SubSeq(p, 1, k + 1)) = Frames(SubSeq(p, 1, k)) \o Frame(p[k + 1])
  BY <1>2, <1>4, <1>5, FramesAppend
<1>7. Frame(p[k + 1]) \in Seq(Byte) /\ Len(Frame(p[k + 1])) = HeadSize + Len(p[k + 1])
      /\ Len(p[k + 1]) \in Nat
  BY <1>2, FrameType
<1>8. Start(p, k + 1) = Start(p, k) + Len(Frame(p[k + 1])) /\ Start(p, k) \in Nat
  BY <1>4, <1>6, <1>7, ConcatProperties DEF Start
<1>9. Start(p, k + 1) = Start(p, k) + HeadSize + Len(p[k + 1])
  <2>1. HeadSize \in Nat
    BY SizesAssumption
  <2>2. QED
    BY <1>7, <1>8, <2>1
<1>10. QED
  BY <1>2, <1>6, <1>9

\* What is in the stream at the beginning of a package.
LEMMA StreamAt ==
    ASSUME NEW p \in Seq(Pieces), NEW k \in 0..(Len(p) - 1)
    PROVE  /\ SubSeq(Frames(p), Start(p, k) + 1, Start(p, k) + HeadSize)
                = Bytes(Len(p[k + 1]))
           /\ SubSeq(Frames(p), Start(p, k) + HeadSize + 1, Start(p, k + 1)) = p[k + 1]
<1> DEFINE b == Frames(SubSeq(p, 1, k))
           fr == Frame(p[k + 1])
           a == Frames(SubSeq(p, 1, k + 1))
           t == Frames(SubSeq(p, k + 1 + 1, Len(p)))
           n == Len(p[k + 1])
<1>1. Len(p) \in Nat /\ k \in 0..Len(p) /\ k + 1 \in 0..Len(p)
  OBVIOUS
<1>2. a \in Seq(Byte) /\ t \in Seq(Byte) /\ Frames(p) = a \o t
  BY <1>1, PrefixType
<1>3. b \in Seq(Byte) /\ Start(p, k) = Len(b) /\ Len(b) \in Nat
  BY <1>1, PrefixType DEF Start
<1>4. /\ fr \in Seq(Byte) /\ Len(fr) = HeadSize + n /\ n \in Nat
      /\ SubSeq(fr, 1, HeadSize) = Bytes(n)
      /\ SubSeq(fr, HeadSize + 1, HeadSize + n) = p[k + 1]
  BY StartNext, FrameType
<1>5. a = b \o fr /\ Start(p, k + 1) = Len(b) + HeadSize + n
  BY <1>3, StartNext
<1> HIDE DEF b, fr, a, t, n
<1>6. Len(a) = Len(b) + HeadSize + n /\ HeadSize \in Nat
  <2>1. HeadSize \in Nat
    BY SizesAssumption
  <2>2. Len(a) = Len(b) + Len(fr)
    BY <1>3, <1>4, <1>5, ConcatProperties
  <2>3. QED
    BY <1>3, <1>4, <2>1, <2>2
<1>7. SubSeq(Frames(p), Len(b) + 1, Len(b) + HeadSize) = Bytes(n)
  <2>1. Len(b) \in 0..Len(a) /\ Len(b) + HeadSize \in Len(b)..Len(a)
    BY <1>3, <1>4, <1>6
  <2>2. SubSeq(a \o t, Len(b) + 1, Len(b) + HeadSize) = SubSeq(a, Len(b) + 1, Len(b) + HeadSize)
    BY <1>2, <2>1, CutOfConcat
  <2>3. 0 \in 0..Len(fr) /\ HeadSize \in 0..Len(fr) /\ 0 + 1 = 1 /\ Len(b) + 0 + 1 = Len(b) + 1
    BY <1>3, <1>4, <1>6
  <2>4. SubSeq(b \o fr, Len(b) + 0 + 1, Len(b) + HeadSize) = SubSeq(fr, 0 + 1, HeadSize)
    BY <1>3, <1>4, <2>3, CutAfter
  <2>5. QED
    BY <1>2, <1>4, <1>5, <2>2, <2>3, <2>4
<1>8. SubSeq(Frames(p), Len(b) + HeadSize + 1, Len(b) + HeadSize + n) = p[k + 1]
  <2> DEFINE c == Len(b) + HeadSize
             e == Len(b) + (HeadSize + n)
  <2>1. c \in 0..Len(a) /\ e \in c..Len(a)
    BY <1>3, <1>4, <1>6
  <2>2. SubSeq(a \o t, c + 1, e) = SubSeq(a, c + 1, e)
    BY <1>2, <2>1, CutOfConcat
  <2>3. HeadSize \in 0..Len(fr) /\ HeadSize + n \in HeadSize..Len(fr)
    BY <1>4, <1>6
  <2>4. SubSeq(b \o fr, Len(b) + HeadSize + 1, Len(b) + (HeadSize + n))
          = SubSeq(fr, HeadSize + 1, HeadSize + n)
    BY <1>3, <1>4, <2>3, CutAfter
  <2>5. Len(b) + (HeadSize + n) = Len(b) + HeadSize + n
    BY <1>3, <1>4, <1>6
  <2>6. SubSeq(Frames(p), c + 1, e) = p[k + 1]
    BY <1>2, <1>4, <1>5, <2>2, <2>4
  <2>7. QED
    BY <2>5, <2>6
<1>9. QED
  BY <1>3, <1>5, <1>7, <1>8 DEF n

-----------------------------------------------------------------------------
(* The loop that cuts packages out *)

LEMMA CountType ==
    ASSUME NEW buf \in Seq(Byte), NEW offset \in Nat, Len(buf) >= HeadSize + offset
    PROVE  PackageCount(buf, offset) \in Nat
<1>1. /\ HeadSize \in Nat /\ Len(buf) \in Nat /\ offset \in 0..Len(buf)
      /\ offset + HeadSize \in offset..Len(buf) /\ offset + HeadSize - offset = HeadSize
  <2>1. HeadSize \in Nat /\ Len(buf) \in Nat
    BY SizesAssumption
  <2>2. QED
    BY <2>1
<1>2. /\ SubSeq(buf, offset + 1, offset + HeadSize) \in Seq(Byte)
      /\ Len(SubSeq(buf, offset + 1, offset + HeadSize)) = HeadSize
  BY <1>1, Cut
<1>3. QED
  BY <1>2, IntOfType DEF PackageCount

\* The loop goes forward.
LEMMA AfterType ==
    ASSUME NEW buf \in Seq(Byte), NEW offset \in Nat, HasPackage(buf, offset)
    PROVE  /\ After(buf, offset) \in Nat
           /\ offset < After(buf, offset) /\ After(buf, offset) <= Len(buf)
<1>1. HeadSize \in 1..4 /\ Len(buf) \in Nat
  BY SizesAssumption
<1>2. Len(buf) > HeadSize + offset /\ Len(buf) >= offset + HeadSize + PackageCount(buf, offset)
  BY DEF HasPackage
<1>3. PackageCount(buf, offset) \in Nat
  <2>1. Len(buf) >= HeadSize + offset
    BY <1>1, <1>2
  <2>2. QED
    BY <2>1, CountType
<1>4. QED
  BY <1>1, <1>2, <1>3 DEF After

\* One turn of the loop, with f for what the next turns do.
Turn(f, buf, offset) ==
    IF HasPackage(buf, offset)
    THEN [eaten |-> f[After(buf, offset)].eaten,
          packages |-> <<SubSeq(buf, offset + HeadSize + 1, After(buf, offset))>>
                       \o f[After(buf, offset)].packages]
    ELSE [eaten |-> offset, packages |-> <<>>]

Loops(f, buf) == f = [offset \in Nat |-> Turn(f, buf, offset)]

\* The loop ends, wherever it begins.
LEMMA LoopsExists ==
    ASSUME NEW buf \in Seq(Byte)
    PROVE  \E f : Loops(f, buf)
<1> DEFINE Right(f, k) == \A o \in Nat : o >= k => f[o] = Turn(f, buf, o)
           G == {k \in Nat : \E f : Right(f, k)}
<1>1. Len(buf) \in G
  <2> DEFINE f == [o \in Nat |-> [eaten |-> o, packages |-> <<>>]]
  <2>1. Len(buf) \in Nat /\ HeadSize \in 1..4
    BY SizesAssumption
  <2>2. ASSUME NEW o \in Nat, o >= Len(buf)
        PROVE  f[o] = Turn(f, buf, o)
    <3>1. ~ HasPackage(buf, o)
      BY <2>1, <2>2 DEF HasPackage
    <3>2. QED
      BY <3>1 DEF Turn
  <2>3. Right(f, Len(buf))
    BY <2>2
  <2>4. QED
    BY <2>1, <2>3
<1>2. PICK k \in G : \A m \in G : k <= m
  <2>1. G \in SUBSET Nat
    OBVIOUS
  <2> HIDE DEF G
  <2>2. G # {}
    BY <1>1
  <2>3. QED
    BY <2>1, <2>2, Smallest
<1>3. PICK f : Right(f, k)
  BY <1>2
<1>4. k = 0
  <2>1. SUFFICES ASSUME k # 0 PROVE FALSE
    OBVIOUS
  <2>2. k - 1 \in Nat /\ k \in Nat
    BY <1>2, <2>1
  <2> DEFINE g == [o \in Nat |-> IF o = k - 1 THEN Turn(f, buf, k - 1) ELSE f[o]]
  <2>3. ASSUME NEW o \in Nat, o >= k - 1
        PROVE  g[o] = Turn(g, buf, o)
    <3>1. Turn(g, buf, o) = Turn(f, buf, o)
      <4>1. CASE HasPackage(buf, o)
        <5>1. After(buf, o) \in Nat /\ o < After(buf, o)
          BY <4>1, AfterType
        <5>2. g[After(buf, o)] = f[After(buf, o)]
          BY <2>2, <2>3, <5>1
        <5> HIDE DEF g
        <5>3. QED
          BY <4>1, <5>2 DEF Turn
      <4>2. CASE ~ HasPackage(buf, o)
        BY <4>2 DEF Turn
      <4>3. QED
        BY <4>1, <4>2
    <3>2. CASE o = k - 1
      BY <3>1, <3>2
    <3>3. CASE o # k - 1
      <4>1. o >= k /\ g[o] = f[o]
        BY <2>2, <2>3, <3>3
      <4>2. f[o] = Turn(f, buf, o)
        BY <1>3, <4>1
      <4> HIDE DEF g
      <4>3. QED
        BY <3>1, <4>1, <4>2
    <3>4. QED
      BY <3>2, <3>3
  <2>4. Right(g, k - 1)
    <3> HIDE DEF g
    <3>1. QED
      BY <2>3
  <2>5. k - 1 \in G
    <3> HIDE DEF g, Right
    <3>1. QED
      BY <2>2, <2>4
  <2>6. ~(k <= k - 1)
    BY <2>2
  <2> HIDE DEF G
  <2>7. QED
    BY <1>2, <2>5, <2>6
<1> DEFINE h == [o \in Nat |-> f[o]]
<1>5. \A o \in Nat : h[o] = Turn(h, buf, o)
  <2>1. TAKE o \in Nat
  <2>2. f[o] = Turn(f, buf, o)
    BY <1>3, <1>4
  <2>3. Turn(h, buf, o) = Turn(f, buf, o)
    <3>1. CASE HasPackage(buf, o)
      <4>1. After(buf, o) \in Nat
        BY <3>1, AfterType
      <4>2. h[After(buf, o)] = f[After(buf, o)]
        BY <4>1
      <4> HIDE DEF h
      <4>3. QED
        BY <3>1, <4>2 DEF Turn
    <3>2. CASE ~ HasPackage(buf, o)
      BY <3>2 DEF Turn
    <3>3. QED
      BY <3>1, <3>2
  <2>4. h[o] = f[o]
    OBVIOUS
  <2> HIDE DEF h
  <2>5. QED
    BY <2>2, <2>3, <2>4
<1>6. h = [o \in Nat |-> h[o]]
  OBVIOUS
<1> HIDE DEF h
<1>7. Loops(h, buf)
  BY <1>5, <1>6 DEF Loops
<1>8. QED
  BY <1>7

LEMMA ParseIs ==
    ASSUME NEW buf \in Seq(Byte)
    PROVE  \E f : Loops(f, buf) /\ Parse(buf) = f[0]
<1> DEFINE Solves(f) == Loops(f, buf)
<1>1. Parse(buf) = (CHOOSE f : Solves(f))[0]
  BY DEF Parse, Loops, Turn
<1>2. \E f : Solves(f)
  BY LoopsExists
<1>3. PICK f : f = (CHOOSE g : Solves(g))
  OBVIOUS
<1>4. Solves(f)
  <2> HIDE DEF Solves
  <2>1. QED
    BY <1>2, <1>3, Zenon
<1>5. QED
  BY <1>1, <1>3, <1>4

-----------------------------------------------------------------------------
(* What the loop does to a buffer that begins with a package *)

\* buf is the beginning of the stream of the packages p.
Begins(buf, p) == \E tail \in Seq(Byte) : Frames(p) = buf \o tail

LEMMA CutOfBuffer ==
    ASSUME NEW buf \in Seq(Byte), NEW p \in Seq(Pieces), Begins(buf, p),
           NEW a \in 0..Len(buf), NEW b \in a..Len(buf)
    PROVE  /\ SubSeq(buf, a + 1, b) = SubSeq(Frames(p), a + 1, b)
           /\ Len(buf) <= Len(Frames(p))
<1>1. PICK tail \in Seq(Byte) : Frames(p) = buf \o tail
  BY DEF Begins
<1>2. Len(Frames(p)) = Len(buf) + Len(tail) /\ Len(tail) \in Nat /\ Len(buf) \in Nat
  BY <1>1, ConcatProperties
<1>3. QED
  BY <1>1, <1>2, CutOfConcat

\* At the beginning of a package the reader finds that package: its size as
\* soon as the head is there, its data when the whole of it is.
LEMMA FoundAt ==
    ASSUME NEW buf \in Seq(Byte), NEW p \in Seq(Pieces), Begins(buf, p),
           NEW k \in 0..Len(p), Len(buf) > HeadSize + Start(p, k)
    PROVE  /\ k < Len(p)
           /\ PackageCount(buf, Start(p, k)) = Len(p[k + 1])
           /\ After(buf, Start(p, k)) = Start(p, k + 1)
           /\ HasPackage(buf, Start(p, k)) <=> Start(p, k + 1) <= Len(buf)
           /\ HasPackage(buf, Start(p, k)) =>
                 SubSeq(buf, Start(p, k) + HeadSize + 1, Start(p, k + 1)) = p[k + 1]
<1> DEFINE x == Start(p, k)
<1>1. HeadSize \in Nat /\ HeadSize > 0 /\ Len(buf) \in Nat /\ Len(p) \in Nat
  BY SizesAssumption
<1>2. x \in Nat
  BY PrefixType
<1> HIDE DEF x
<1>3. Len(buf) > HeadSize + x
  BY DEF x
<1>5. Len(buf) <= Len(Frames(p))
  <2>1. 0 \in 0..Len(buf) /\ Len(buf) \in 0..Len(buf)
    BY <1>1
  <2>2. QED
    BY <2>1, CutOfBuffer
<1>6. k < Len(p)
  <2>1. SUFFICES ASSUME ~(k < Len(p)) PROVE FALSE
    OBVIOUS
  <2>2. k = Len(p)
    BY <1>1, <2>1
  <2>3. SubSeq(p, 1, k) = p
    BY <2>2, SubSeqFull
  <2>4. x = Len(Frames(p))
    BY <2>3 DEF x, Start
  <2>5. QED
    BY <1>1, <1>2, <1>3, <1>5, <2>4
<1>7. k \in 0..(Len(p) - 1)
  BY <1>1, <1>6
<1> DEFINE n == Len(p[k + 1])
<1>8. p[k + 1] \in Pieces /\ n \in Nat /\ n <= MaxCounted
  BY <1>7, StartNext DEF Pieces
<1>9. Start(p, k + 1) = x + HeadSize + n
  BY <1>7, StartNext DEF x
<1> HIDE DEF n
<1>10. PackageCount(buf, x) = n
  <2>1. x \in 0..Len(buf) /\ x + HeadSize \in x..Len(buf)
    BY <1>1, <1>2, <1>3
  <2>2. SubSeq(buf, x + 1, x + HeadSize) = SubSeq(Frames(p), x + 1, x + HeadSize)
    BY <2>1, CutOfBuffer
  <2>3. SubSeq(Frames(p), x + 1, x + HeadSize) = Bytes(n)
    BY <1>7, StreamAt DEF x, n
  <2>4. IntOf(Bytes(n)) = n
    BY <1>8, IntOfBytes
  <2>5. QED
    BY <2>2, <2>3, <2>4 DEF PackageCount
<1>11. After(buf, x) = x + HeadSize + n
  BY <1>10 DEF After
<1>12. HasPackage(buf, x) <=> x + HeadSize + n <= Len(buf)
  <2>1. HasPackage(buf, x) <=> Len(buf) >= x + HeadSize + n
    BY <1>3, <1>10 DEF HasPackage
  <2>2. QED
    BY <1>1, <1>2, <1>8, <2>1
<1>13. ASSUME HasPackage(buf, x)
       PROVE  SubSeq(buf, x + HeadSize + 1, x + HeadSize + n) = p[k + 1]
  <2>1. x + HeadSize \in 0..Len(buf) /\ x + HeadSize + n \in (x + HeadSize)..Len(buf)
    BY <1>1, <1>2, <1>3, <1>8, <1>12, <1>13
  <2>2. SubSeq(buf, x + HeadSize + 1, x + HeadSize + n)
          = SubSeq(Frames(p), x + HeadSize + 1, x + HeadSize + n)
    BY <2>1, CutOfBuffer
  <2>3. SubSeq(Frames(p), x + HeadSize + 1, x + HeadSize + n) = p[k + 1]
    BY <1>7, <1>9, StreamAt DEF x
  <2>4. QED
    BY <2>2, <2>3
<1>14. QED
  BY <1>6, <1>9, <1>10, <1>11, <1>12, <1>13 DEF x, n

\* After the turns from the k-th package on, the loop stands at package m:
\* those in between have been cut out, and the next one is not whole.
Reaches(f, buf, p, k) ==
    \E m \in k..Len(p) :
        /\ f[Start(p, k)].eaten = Start(p, m)
        /\ f[Start(p, k)].packages = SubSeq(p, k + 1, m)
        /\ Start(p, m) <= Len(buf)
        /\ ~ HasPackage(buf, Start(p, m))

\* The loop cuts out the packages that are whole, and stops at one that is not.
LEMMA ParseCuts ==
    ASSUME NEW buf \in Seq(Byte), NEW p \in Seq(Pieces), Begins(buf, p)
    PROVE  \E m \in 0..Len(p) :
              /\ Parse(buf).eaten = Start(p, m)
              /\ Parse(buf).packages = SubSeq(p, 1, m)
              /\ Start(p, m) <= Len(buf)
              /\ ~ HasPackage(buf, Start(p, m))
<1>1. PICK f : Loops(f, buf) /\ Parse(buf) = f[0]
  BY ParseIs
<1>2. Len(p) \in Nat /\ Len(buf) \in Nat /\ HeadSize \in Nat
  BY SizesAssumption
<1>3. \A o \in Nat : f[o] = Turn(f, buf, o)
  BY <1>1 DEF Loops
<1> DEFINE Lost(k) == Start(p, k) <= Len(buf) /\ ~ Reaches(f, buf, p, k)
           G == {j \in 0..Len(p) : Lost(Len(p) - j)}
<1>4. G = {}
  <2>1. SUFFICES ASSUME G # {} PROVE FALSE
    OBVIOUS
  <2>2. PICK j \in G : \A i \in G : j <= i
    <3>1. G \in SUBSET Nat
      BY <1>2
    <3> HIDE DEF G
    <3>2. QED
      BY <2>1, <3>1, Smallest
  <2>3. PICK k \in 0..Len(p) : k = Len(p) - j
    BY <1>2, <2>2
  <2>4. j \in 0..Len(p) /\ Start(p, k) <= Len(buf) /\ ~ Reaches(f, buf, p, k)
    BY <2>2, <2>3
  <2>5. Start(p, k) \in Nat
    BY PrefixType
  <2> DEFINE x == Start(p, k)
  <2>6. f[x] = Turn(f, buf, x)
    BY <1>3, <2>5
  <2>7. CASE ~ HasPackage(buf, x)
    <3>1. f[x] = [eaten |-> x, packages |-> <<>>]
      BY <2>6, <2>7 DEF Turn
    <3>2. SubSeq(p, k + 1, k) = <<>>
      BY <2>3, SubSeqEmpty
    <3>3. k \in k..Len(p)
      BY <2>3
    <3>4. f[x].eaten = Start(p, k) /\ f[x].packages = SubSeq(p, k + 1, k)
      BY <3>1, <3>2
    <3>5. Reaches(f, buf, p, k)
      BY <2>4, <2>7, <3>3, <3>4 DEF Reaches
    <3>6. QED
      BY <2>4, <3>5
  <2>8. CASE HasPackage(buf, x)
    <3>1. Len(buf) > HeadSize + x
      BY <2>8 DEF HasPackage
    <3>2. /\ k < Len(p) /\ After(buf, x) = Start(p, k + 1)
          /\ Start(p, k + 1) <= Len(buf)
          /\ SubSeq(buf, x + HeadSize + 1, Start(p, k + 1)) = p[k + 1]
      BY <2>8, <3>1, FoundAt
    <3>3. k + 1 \in 0..Len(p) /\ j - 1 \in 0..Len(p) /\ Len(p) - (j - 1) = k + 1 /\ ~(j <= j - 1)
      BY <1>2, <2>3, <2>4, <3>2
    <3>4. j - 1 \notin G
      <4> HIDE DEF G
      <4>1. QED
        BY <2>2, <3>3
    <3>5. Reaches(f, buf, p, k + 1)
      BY <3>2, <3>3, <3>4
    <3>6. PICK m \in (k + 1)..Len(p) :
             /\ f[Start(p, k + 1)].eaten = Start(p, m)
             /\ f[Start(p, k + 1)].packages = SubSeq(p, k + 1 + 1, m)
             /\ Start(p, m) <= Len(buf)
             /\ ~ HasPackage(buf, Start(p, m))
      BY <3>5 DEF Reaches
    <3>7. f[x] = [eaten |-> Start(p, m),
                  packages |-> <<p[k + 1]>> \o SubSeq(p, k + 1 + 1, m)]
      BY <2>6, <2>8, <3>2, <3>6 DEF Turn
    <3>8. <<p[k + 1]>> \o SubSeq(p, k + 1 + 1, m) = SubSeq(p, k + 1, m)
      <4>1. k + 1 \in 1..Len(p) /\ m \in (k + 1)..Len(p)
        BY <1>2, <2>3, <3>2
      <4>2. QED
        BY <4>1, SubSeqRecursiveFirst
    <3>9. f[x].eaten = Start(p, m) /\ f[x].packages = SubSeq(p, k + 1, m)
      BY <3>7, <3>8
    <3>10. m \in k..Len(p)
      BY <1>2, <2>3, <3>6
    <3>11. Reaches(f, buf, p, k)
      BY <3>6, <3>9, <3>10 DEF Reaches
    <3>12. QED
      BY <2>4, <3>11
  <2>9. QED
    BY <2>7, <2>8
<1>5. 0 \in 0..Len(p) /\ Len(p) \in 0..Len(p) /\ Len(p) - Len(p) = 0 /\ 0 + 1 = 1
  BY <1>2
<1>6. Start(p, 0) = 0
  <2>1. SubSeq(p, 1, 0) = <<>>
    BY SubSeqEmpty
  <2>2. Len(Frames(<<>>)) = 0
    BY FramesEmpty, EmptySeq
  <2>3. QED
    BY <2>1, <2>2 DEF Start
<1>7. Reaches(f, buf, p, 0)
  <2>1. ~ Lost(Len(p) - Len(p))
    BY <1>4, <1>5
  <2>2. ~ Lost(0)
    BY <1>5, <2>1
  <2>3. QED
    BY <1>2, <1>6, <2>2
<1>8. QED
  BY <1>1, <1>5, <1>6, <1>7 DEF Reaches

-----------------------------------------------------------------------------
(* The inductive invariant *)

\* What SendPackage can be given.
SentPackages == {Data(n, size) : n \in 1..MaxPackages, size \in Sizes}

\* The packages that were accepted and are not delivered yet.
Waiting == SubSeq(accepted, Len(delivered) + 1, Len(accepted))

\* What was delivered is the beginning of what was accepted.
InOrder ==
    /\ accepted \in Seq(SentPackages)
    /\ Len(delivered) \in 0..Len(accepted)
    /\ delivered = SubSeq(accepted, 1, Len(delivered))

\* The buffers hold the other packages, and begin where one of them begins.
OnTheWay == (m_ReadBuf \o wire) \o m_WriteBuf = Frames(Waiting)

\* The callback leaves no whole package in the buffer.
NoneWhole == ~ HasPackage(m_ReadBuf, 0)

TooLarge == \E data \in Range(accepted) : Len(Frame(data)) > ReadMax

Inv == TypeOK /\ InOrder /\ OnTheWay /\ NoneWhole /\ (closed => TooLarge)

LEMMA SentType ==
    /\ SentPackages \subseteq Pieces
    /\ \A n \in 1..MaxPackages, size \in Sizes : Data(n, size) \in SentPackages
<1>1. ASSUME NEW n \in 1..MaxPackages, NEW size \in Sizes
      PROVE  Data(n, size) \in Pieces
  <2>1. n % 256 \in Byte /\ size \in Nat /\ size <= MaxCounted
    <3>1. n \in Nat /\ HeadSize \in 1..4 /\ size \in 0..(MaxCounted - HeadSize)
      BY SizesAssumption
    <3>2. n % 256 \in 0..255
      BY <3>1
    <3>3. MaxCounted \in Nat
      BY <3>1, MaxCountedIs
    <3>4. QED
      BY <3>1, <3>2, <3>3 DEF Byte
  <2> DEFINE d == Data(n, size)
  <2>2. d = [k \in 1..size |-> d[k]] /\ DOMAIN d = 1..size /\ \A k \in 1..size : d[k] \in Byte
    BY <2>1 DEF Data
  <2> HIDE DEF d
  <2>3. d \in Seq(Byte)
    BY <2>1, <2>2
  <2>4. Len(d) = size
    BY <2>1, <2>2, <2>3
  <2>5. d \in Pieces
    BY <2>1, <2>3, <2>4 DEF Pieces
  <2>6. QED
    BY <2>5 DEF d
<1>2. QED
  BY <1>1 DEF SentPackages

LEMMA WaitingType ==
    ASSUME InOrder
    PROVE  /\ accepted \in Seq(Pieces) /\ delivered \in Seq(Pieces)
           /\ Len(accepted) \in Nat /\ Len(delivered) \in 0..Len(accepted)
           /\ Waiting \in Seq(Pieces) /\ Len(Waiting) = Len(accepted) - Len(delivered)
           /\ \A i \in 1..Len(Waiting) : Waiting[i] = accepted[Len(delivered) + i]
           /\ accepted = delivered \o Waiting
<1>1. accepted \in Seq(SentPackages) /\ accepted \in Seq(Pieces)
  BY SentType, SeqMonotonic DEF InOrder
<1> DEFINE d == Len(delivered)
<1>2. Len(accepted) \in Nat /\ d \in 0..Len(accepted) /\ Len(accepted) \in d..Len(accepted)
      /\ delivered = SubSeq(accepted, 1, d)
  BY <1>1 DEF InOrder
<1> HIDE DEF d
<1>3. /\ Waiting = SubSeq(accepted, d + 1, Len(accepted))
      /\ Waiting \in Seq(Pieces) /\ Len(Waiting) = Len(accepted) - d
      /\ \A i \in 1..(Len(accepted) - d) : Waiting[i] = accepted[d + i]
  <2>1. Waiting = SubSeq(accepted, d + 1, Len(accepted))
    BY DEF Waiting, d
  <2>2. QED
    BY <1>1, <1>2, <2>1, Cut
<1>4. delivered \in Seq(Pieces)
  BY <1>1, <1>2, PrefixType
<1>5. accepted = delivered \o Waiting
  BY <1>1, <1>2, <1>3, Split
<1>6. QED
  BY <1>1, <1>2, <1>3, <1>4, <1>5 DEF d

-----------------------------------------------------------------------------
(* The reader's buffer *)

\* A buffer that is full and has no whole package begins with a large one.
LEMMA FullOfOne ==
    ASSUME NEW buf \in Seq(Byte), NEW p \in Seq(Pieces), Begins(buf, p),
           Len(buf) = ReadMax, ~ HasPackage(buf, 0)
    PROVE  0 < Len(p) /\ Len(Frame(p[1])) > ReadMax
<1>1. Len(p) \in Nat /\ 0 \in 0..Len(p) /\ HeadSize \in Nat /\ ReadMax \in Nat /\ 0 + 1 = 1
  BY SizesAssumption
<1>2. Start(p, 0) = 0
  <2>1. SubSeq(p, 1, 0) = <<>>
    BY SubSeqEmpty
  <2>2. QED
    BY <2>1, FramesEmpty, EmptySeq DEF Start
<1>3. Len(buf) > HeadSize + Start(p, 0)
  BY <1>1, <1>2, BuffersAssumption
<1>4. 0 < Len(p) /\ (HasPackage(buf, Start(p, 0)) <=> Start(p, 0 + 1) <= Len(buf))
  BY <1>1, <1>3, FoundAt
<1>5. ~(Start(p, 1) <= ReadMax)
  BY <1>1, <1>2, <1>4
<1>6. p[1] \in Pieces /\ Start(p, 1) = HeadSize + Len(p[1])
  <2>1. 0 \in 0..(Len(p) - 1)
    BY <1>1, <1>4
  <2>2. p[0 + 1] \in Pieces /\ Start(p, 0 + 1) = Start(p, 0) + HeadSize + Len(p[0 + 1])
    BY <2>1, StartNext
  <2>3. p[1] \in Pieces /\ Start(p, 1) = 0 + HeadSize + Len(p[1])
    BY <1>1, <1>2, <2>2
  <2>4. QED
    BY <1>1, <2>3
<1>7. Len(Frame(p[1])) = Start(p, 1) /\ Len(p[1]) \in Nat
  BY <1>6, FrameType
<1>8. QED
  BY <1>1, <1>4, <1>5, <1>6, <1>7

\* What is behind what was cut out has no whole package at its beginning.
LEMMA RestHasNone ==
    ASSUME NEW buf \in Seq(Byte), NEW e \in 0..Len(buf), ~ HasPackage(buf, e)
    PROVE  ~ HasPackage(SubSeq(buf, e + 1, Len(buf)), 0)
<1> DEFINE rest == SubSeq(buf, e + 1, Len(buf))
<1>1. Len(buf) \in Nat /\ HeadSize \in Nat /\ Len(buf) \in e..Len(buf)
  BY SizesAssumption
<1>2. rest \in Seq(Byte) /\ Len(rest) = Len(buf) - e
  BY <1>1, Cut
<1> HIDE DEF rest
<1>3. SUFFICES ASSUME HasPackage(rest, 0) PROVE HasPackage(buf, e)
  BY DEF rest
<1>4. Len(rest) > HeadSize + 0 /\ Len(rest) >= 0 + HeadSize + PackageCount(rest, 0)
  BY <1>3 DEF HasPackage
<1>5. PackageCount(rest, 0) \in Nat
  <2>1. Len(rest) >= HeadSize + 0
    BY <1>1, <1>2, <1>4
  <2>2. QED
    BY <1>2, <2>1, CountType
<1>6. PackageCount(rest, 0) = PackageCount(buf, e)
  <2>1. 0 \in 0..(Len(buf) - e) /\ HeadSize \in 0..(Len(buf) - e)
    BY <1>1, <1>2, <1>4
  <2>2. SubSeq(rest, 0 + 1, HeadSize) = SubSeq(buf, e + 0 + 1, e + HeadSize)
    BY <2>1, CutOfCut DEF rest
  <2>3. 0 + HeadSize = HeadSize /\ e + 0 + 1 = e + 1
    BY <1>1
  <2>4. SubSeq(rest, 0 + 1, 0 + HeadSize) = SubSeq(buf, e + 1, e + HeadSize)
    BY <2>2, <2>3
  <2>5. QED
    BY <2>4 DEF PackageCount
<1>7. Len(buf) > HeadSize + e
  BY <1>1, <1>2, <1>4
<1>8. Len(buf) >= e + HeadSize + PackageCount(buf, e)
  <2>1. PackageCount(buf, e) \in Nat
    BY <1>5, <1>6
  <2>2. QED
    BY <1>1, <1>2, <1>4, <1>6, <2>1
<1>9. QED
  BY <1>7, <1>8 DEF HasPackage

\* What is left when the packages before the m-th are cut out is the
\* beginning of the others.
LEMMA CutLeaves ==
    ASSUME NEW buf \in Seq(Byte), NEW tail \in Seq(Byte), NEW p \in Seq(Pieces),
           Frames(p) = buf \o tail, NEW m \in 0..Len(p), Start(p, m) <= Len(buf)
    PROVE  LET rest == SubSeq(buf, Start(p, m) + 1, Len(buf)) IN
           /\ rest \in Seq(Byte) /\ Len(rest) <= Len(buf)
           /\ rest \o tail = Frames(SubSeq(p, m + 1, Len(p)))
<1> DEFINE e == Start(p, m)
           x == Frames(SubSeq(p, 1, m))
           y == Frames(SubSeq(p, m + 1, Len(p)))
           first == SubSeq(buf, 1, e)
           rest == SubSeq(buf, e + 1, Len(buf))
<1>1. x \in Seq(Byte) /\ y \in Seq(Byte) /\ Frames(p) = x \o y /\ e \in Nat /\ e = Len(x)
  BY PrefixType DEF Start
<1>2. Len(buf) \in Nat /\ e \in 0..Len(buf) /\ Len(buf) \in e..Len(buf) /\ 0 \in 0..Len(buf)
      /\ 0 \in 0..e /\ e \in 0..e /\ 0 + 1 = 1
  BY <1>1
<1> HIDE DEF e, x, y
<1>3. rest \in Seq(Byte) /\ Len(rest) = Len(buf) - e /\ buf = first \o rest
  BY <1>2, Cut, Split
<1>4. first = x
  <2>1. SubSeq(buf \o tail, 0 + 1, e) = SubSeq(buf, 0 + 1, e)
    BY <1>2, CutOfConcat
  <2>2. SubSeq(x \o y, 0 + 1, e) = SubSeq(x, 0 + 1, e)
    BY <1>1, <1>2, CutOfConcat
  <2>3. SubSeq(x, 1, e) = x
    BY <1>1, SubSeqFull
  <2>4. QED
    BY <1>1, <1>2, <2>1, <2>2, <2>3
<1> HIDE DEF first, rest
<1>5. x \o (rest \o tail) = x \o y
  <2>1. (x \o rest) \o tail = x \o (rest \o tail)
    <3>1. x \in Seq(Byte) /\ rest \in Seq(Byte)
      BY <1>1, <1>3
    <3>2. QED
      <4>1. Groups(x, rest, tail)
        BY <3>1, GroupsAny
      <4>2. QED
        BY <4>1 DEF Groups
  <2>2. QED
    BY <1>1, <1>3, <1>4, <2>1
<1>6. rest \o tail = y
  <2>1. rest \o tail \in Seq(Byte)
    BY <1>3, ConcatProperties
  <2>2. QED
    BY <1>1, <1>5, <2>1, ConcatSimplifications
<1>7. Len(rest) <= Len(buf)
  BY <1>2, <1>3
<1>8. QED
  BY <1>3, <1>6, <1>7 DEF rest, y, e

-----------------------------------------------------------------------------
(* The steps *)

\* One more package.
LEMMA AppendWaits ==
    ASSUME NEW s \in Seq(Pieces), NEW data \in Pieces, NEW d \in 0..Len(s)
    PROVE  /\ SubSeq(Append(s, data), 1, d) = SubSeq(s, 1, d)
           /\ SubSeq(Append(s, data), d + 1, Len(s) + 1)
                = Append(SubSeq(s, d + 1, Len(s)), data)
<1>1. Append(s, data) = s \o <<data>> /\ <<data>> \in Seq(Pieces)
  BY AppendIsConcat
<1>2. Len(s) \in Nat /\ 0 \in 0..Len(s) /\ d \in 0..Len(s) /\ 0 + 1 = 1 /\ d \in Nat
  OBVIOUS
<1>3. SubSeq(Append(s, data), 1, d) = SubSeq(s, 1, d)
  <2>1. SubSeq(s \o <<data>>, 0 + 1, d) = SubSeq(s, 0 + 1, d)
    BY <1>1, <1>2, CutOfConcat
  <2>2. QED
    BY <1>1, <1>2, <2>1
<1> DEFINE t == Append(s, data)
           x == SubSeq(t, d + 1, Len(s) + 1)
           w == SubSeq(s, d + 1, Len(s))
           y == Append(w, data)
<1>4. /\ t \in Seq(Pieces) /\ Len(t) = Len(s) + 1 /\ t[Len(s) + 1] = data
      /\ \A i \in 1..Len(s) : t[i] = s[i]
  BY AppendProperties
<1> HIDE DEF t
<1>5. /\ x \in Seq(Pieces) /\ Len(x) = Len(s) + 1 - d
      /\ \A i \in 1..(Len(s) + 1 - d) : x[i] = t[d + i]
  <2>1. d \in 0..Len(t) /\ Len(s) + 1 \in d..Len(t)
    BY <1>2, <1>4
  <2>2. QED
    BY <1>4, <2>1, Cut
<1>6. /\ w \in Seq(Pieces) /\ Len(w) = Len(s) - d
      /\ \A i \in 1..(Len(s) - d) : w[i] = s[d + i]
  <2>1. Len(s) \in d..Len(s)
    BY <1>2
  <2>2. QED
    BY <2>1, Cut
<1> HIDE DEF x, w
<1>7. /\ y \in Seq(Pieces) /\ Len(y) = Len(w) + 1 /\ y[Len(w) + 1] = data
      /\ \A i \in 1..Len(w) : y[i] = w[i]
  BY <1>6, AppendProperties
<1> HIDE DEF y
<1>8. x = y
  <2>1. Len(x) = Len(y)
    BY <1>2, <1>5, <1>6, <1>7
  <2>2. ASSUME NEW i \in 1..Len(x) PROVE x[i] = y[i]
    <3>1. CASE i = Len(w) + 1
      BY <1>2, <1>4, <1>5, <1>6, <1>7, <3>1
    <3>2. CASE i # Len(w) + 1
      <4>1. i \in 1..Len(w) /\ d + i \in 1..Len(s)
        <5> DEFINE n == Len(s)
        <5>1. n \in Nat /\ d \in 0..n /\ i \in 1..(n + 1 - d) /\ i # n - d + 1
          BY <1>2, <1>5, <1>6, <3>2
        <5> HIDE DEF n
        <5>2. i \in 1..(n - d) /\ d + i \in 1..n
          BY <5>1
        <5>3. QED
          BY <1>6, <5>2 DEF n
      <4>2. x[i] = t[d + i] /\ y[i] = w[i] /\ w[i] = s[d + i] /\ t[d + i] = s[d + i]
        BY <1>4, <1>5, <1>6, <1>7, <4>1
      <4>3. QED
        BY <4>2
    <3>3. QED
      BY <3>1, <3>2
  <2>3. QED
    BY <1>5, <1>7, <2>1, <2>2, SeqEqual
<1>9. QED
  BY <1>3, <1>8 DEF x, y, w, t

LEMMA InitInv ==
    ASSUME Init
    PROVE  Inv
<1>1. <<>> \in Seq(Byte) /\ Len(<<>>) = 0 /\ <<>> \in Seq(SentPackages)
  BY EmptySeq
<1>2. WriteMax \in Nat /\ ReadMax \in Nat /\ Wire \in Nat /\ MaxPackages \in Nat /\ HeadSize \in Nat
  BY SizesAssumption
<1>3. TypeOK
  <2>1. Range(accepted) = {} /\ Range(delivered) = {}
    BY DEF Init, Range
  <2>2. calls \in 0..MaxPackages
    BY <1>2 DEF Init
  <2>3. m_WriteBuf = <<>> /\ wire = <<>> /\ m_ReadBuf = <<>>
    BY DEF Init
  <2>4. \A data \in Range(accepted) \cup Range(delivered) : data \in Seq(Byte)
    BY <2>1
  <2>5. Len(m_WriteBuf) <= WriteMax /\ Len(wire) <= Wire /\ Len(m_ReadBuf) <= ReadMax
    BY <1>1, <1>2, <2>3
  <2>6. closed \in BOOLEAN
    BY DEF Init
  <2>7. QED
    BY <1>1, <2>2, <2>3, <2>4, <2>5, <2>6 DEF TypeOK
<1>4. SubSeq(<<>>, 1, 0) = <<>>
  BY SubSeqEmpty
<1>5. InOrder
  BY <1>1, <1>4 DEF Init, InOrder
<1>6. OnTheWay
  <2>1. Waiting = <<>>
    BY <1>1, SubSeqEmpty DEF Init, Waiting
  <2>2. (<<>> \o <<>>) \o <<>> = <<>>
    BY <1>1, ConcatEmptySeq
  <2>3. QED
    BY <2>1, <2>2, FramesEmpty DEF Init, OnTheWay
<1>7. NoneWhole
  BY <1>1, <1>2 DEF Init, NoneWhole, HasPackage
<1>8. QED
  BY <1>3, <1>5, <1>6, <1>7 DEF Init, Inv

\* Every package of a sequence of packages is a sequence of bytes.
LEMMA PackagesAreBytes ==
    ASSUME NEW s \in Seq(Pieces)
    PROVE  \A data \in Range(s) : data \in Seq(Byte)
<1>1. TAKE data \in Range(s)
<1>2. PICK i \in DOMAIN s : data = s[i]
  BY DEF Range
<1>3. s[i] \in Pieces
  BY LenProperties, ElementOfSeq
<1>4. QED
  BY <1>2, <1>3, FrameType

LEMMA WriteInv ==
    ASSUME Inv, NEW size \in Sizes, Write(size)
    PROVE  Inv'
<1> DEFINE data == Data(calls + 1, size)
           W == m_WriteBuf
           fr == Frame(data)
<1>1. TypeOK /\ InOrder /\ OnTheWay /\ NoneWhole /\ (closed => TooLarge)
  BY DEF Inv
<1>2. /\ calls < MaxPackages /\ ~closed /\ calls' = calls + 1
      /\ UNCHANGED <<wire, m_ReadBuf, delivered, closed>>
  BY DEF Write
<1>3. calls' \in 0..MaxPackages /\ calls + 1 \in 1..MaxPackages
  BY <1>1, <1>2, SizesAssumption DEF TypeOK
<1>4. data \in SentPackages /\ data \in Pieces
  BY <1>3, SentType
<1>5. fr \in Seq(Byte) /\ Len(fr) \in Nat
  BY <1>4, FrameType
<1>6. /\ accepted \in Seq(Pieces) /\ Len(delivered) \in 0..Len(accepted)
      /\ Waiting \in Seq(Pieces) /\ Len(accepted) \in Nat
  BY <1>1, WaitingType
<1>7. ~closed'
  BY <1>2
<1>8. NoneWhole'
  BY <1>1, <1>2 DEF NoneWhole
<1>9. W \in Seq(Byte) /\ wire \in Seq(Byte) /\ m_ReadBuf \in Seq(Byte)
  BY <1>1 DEF TypeOK
<1>10. CASE /\ Len(fr) <= WriteMax - Len(W)
            /\ m_WriteBuf' = W \o fr /\ accepted' = Append(accepted, data)
  <2>1. /\ accepted' \in Seq(SentPackages) /\ Len(accepted') = Len(accepted) + 1
        /\ accepted' \in Seq(Pieces)
    <3>1. accepted \in Seq(SentPackages)
      BY <1>1 DEF InOrder
    <3>2. accepted' \in Seq(SentPackages) /\ Len(accepted') = Len(accepted) + 1
      BY <1>4, <1>10, <3>1, AppendProperties
    <3>3. accepted' \in Seq(Pieces)
      BY <3>2, SentType, SeqMonotonic
    <3>4. QED
      BY <3>2, <3>3
  <2>2. /\ SubSeq(accepted', 1, Len(delivered)) = SubSeq(accepted, 1, Len(delivered))
        /\ SubSeq(accepted', Len(delivered) + 1, Len(accepted) + 1) = Append(Waiting, data)
    BY <1>4, <1>6, <1>10, AppendWaits DEF Waiting
  <2>3. InOrder'
    <3>1. Len(delivered) \in 0..(Len(accepted) + 1)
      BY <1>6
    <3>2. delivered = SubSeq(accepted, 1, Len(delivered))
      BY <1>1 DEF InOrder
    <3>3. QED
      BY <1>2, <2>1, <2>2, <3>1, <3>2 DEF InOrder
  <2>4. m_WriteBuf' \in Seq(Byte) /\ Len(m_WriteBuf') = Len(W) + Len(fr)
    BY <1>5, <1>9, <1>10, ConcatProperties
  <2>5. TypeOK'
    <3>1. Len(m_WriteBuf') <= WriteMax
      <4>1. Len(W) \in Nat /\ WriteMax \in Nat
        BY <1>9, SizesAssumption
      <4>2. QED
        BY <1>5, <1>10, <2>4, <4>1
    <3>2. \A x \in Range(accepted') : x \in Seq(Byte)
      BY <2>1, PackagesAreBytes
    <3>3. \A x \in Range(delivered') : x \in Seq(Byte)
      BY <1>1, <1>2 DEF TypeOK
    <3>4. wire' \in Seq(Byte) /\ Len(wire') <= Wire
      BY <1>1, <1>2 DEF TypeOK
    <3>5. m_ReadBuf' \in Seq(Byte) /\ Len(m_ReadBuf') <= ReadMax
      BY <1>1, <1>2 DEF TypeOK
    <3>6. closed' \in BOOLEAN
      BY <1>1, <1>2 DEF TypeOK
    <3>7. QED
      BY <1>3, <2>4, <3>1, <3>2, <3>3, <3>4, <3>5, <3>6 DEF TypeOK
  <2>6. OnTheWay'
    <3>1. Waiting' = Append(Waiting, data)
      BY <1>2, <2>1, <2>2 DEF Waiting
    <3>2. Frames(Append(Waiting, data)) = Frames(Waiting) \o fr
      BY <1>4, <1>6, FramesAppend
    <3>3. Frames(Waiting) = (m_ReadBuf \o wire) \o W
      BY <1>1 DEF OnTheWay
    <3>4. ((m_ReadBuf \o wire) \o W) \o fr = (m_ReadBuf \o wire) \o (W \o fr)
      <4> DEFINE head == m_ReadBuf \o wire
      <4>1. fr \in Seq(Byte)
        BY <1>5
      <4>2. head \in Seq(Byte)
        BY <1>9, ConcatProperties
      <4> HIDE DEF W, fr, head
      <4>3. (head \o W) \o fr = head \o (W \o fr)
        <5>1. Groups(head, W, fr)
          BY <1>9, <4>1, <4>2, GroupsAny
        <5>2. QED
          BY <5>1 DEF Groups
      <4>4. QED
        BY <4>3 DEF head
    <3>5. (m_ReadBuf' \o wire') \o m_WriteBuf' = Frames(Waiting')
      BY <1>2, <1>10, <3>1, <3>2, <3>3, <3>4
    <3>6. QED
      BY <3>5 DEF OnTheWay
  <2>7. QED
    BY <1>7, <1>8, <2>3, <2>5, <2>6 DEF Inv
<1>11. CASE UNCHANGED <<m_WriteBuf, accepted>>
  <2>1. TypeOK'
    BY <1>1, <1>2, <1>3, <1>11 DEF TypeOK
  <2>2. InOrder' /\ OnTheWay'
    BY <1>1, <1>2, <1>11 DEF InOrder, OnTheWay, Waiting
  <2>3. QED
    BY <1>7, <1>8, <2>1, <2>2 DEF Inv
<1>12. QED
  BY <1>10, <1>11 DEF Write

LEMMA SendInv ==
    ASSUME Inv, NEW count \in 1..WriteMax, Send(count)
    PROVE  Inv'
<1> DEFINE a == SubSeq(m_WriteBuf, 1, count)
           b == SubSeq(m_WriteBuf, count + 1, Len(m_WriteBuf))
<1>1. TypeOK /\ InOrder /\ OnTheWay /\ NoneWhole /\ (closed => TooLarge)
  BY DEF Inv
<1>2. /\ count \in 1..Len(m_WriteBuf) /\ Len(wire) + count <= Wire
      /\ wire' = wire \o a /\ m_WriteBuf' = b
      /\ UNCHANGED <<calls, accepted, m_ReadBuf, delivered, closed>>
  BY DEF Send
<1>3. m_WriteBuf \in Seq(Byte) /\ wire \in Seq(Byte) /\ m_ReadBuf \in Seq(Byte)
  BY <1>1 DEF TypeOK
<1>4. /\ Len(m_WriteBuf) \in Nat /\ count \in 0..Len(m_WriteBuf) /\ 0 \in 0..Len(m_WriteBuf)
      /\ Len(m_WriteBuf) \in count..Len(m_WriteBuf) /\ 0 + 1 = 1 /\ count - 0 = count
  BY <1>2, <1>3
<1>5. a \in Seq(Byte) /\ Len(a) = count
  <2>1. SubSeq(m_WriteBuf, 0 + 1, count) \in Seq(Byte)
        /\ Len(SubSeq(m_WriteBuf, 0 + 1, count)) = count - 0
    BY <1>3, <1>4, Cut
  <2>2. QED
    BY <1>4, <2>1
<1>6. b \in Seq(Byte) /\ Len(b) = Len(m_WriteBuf) - count
  BY <1>3, <1>4, Cut
<1>7. m_WriteBuf = a \o b
  BY <1>3, <1>4, Split
<1> HIDE DEF a, b
<1>8. TypeOK'
  <2>1. wire' \in Seq(Byte) /\ Len(wire') <= Wire
    <3>1. wire' \in Seq(Byte) /\ Len(wire') = Len(wire) + Len(a)
      BY <1>2, <1>3, <1>5, ConcatProperties
    <3>2. QED
      BY <1>2, <1>5, <3>1
  <2>2. m_WriteBuf' \in Seq(Byte) /\ Len(m_WriteBuf') <= WriteMax
    <3>1. Len(m_WriteBuf) <= WriteMax /\ WriteMax \in Nat
      BY <1>1, SizesAssumption DEF TypeOK
    <3>2. Len(b) <= WriteMax
      BY <1>4, <1>6, <3>1
    <3>3. QED
      BY <1>2, <1>6, <3>2
  <2>3. QED
    BY <1>1, <1>2, <2>1, <2>2 DEF TypeOK
<1>9. InOrder' /\ NoneWhole'
  BY <1>1, <1>2 DEF InOrder, NoneWhole
<1>10. OnTheWay'
  <2>1. (m_ReadBuf \o (wire \o a)) \o b = (m_ReadBuf \o wire) \o (a \o b)
    <3> DEFINE head == m_ReadBuf \o wire
    <3>1. a \in Seq(Byte) /\ b \in Seq(Byte)
      BY <1>5, <1>6
    <3>2. head \in Seq(Byte)
      BY <1>3, ConcatProperties
    <3>3. m_ReadBuf \o (wire \o a) = head \o a
      <4>1. Groups(m_ReadBuf, wire, a)
        BY <1>3, <3>1, GroupsAny
      <4>2. QED
        BY <4>1 DEF Groups
    <3> HIDE DEF head
    <3>4. (head \o a) \o b = head \o (a \o b)
      <4>1. Groups(head, a, b)
        BY <3>1, <3>2, GroupsAny
      <4>2. QED
        BY <4>1 DEF Groups
    <3>5. QED
      BY <3>3, <3>4 DEF head
  <2>2. Waiting' = Waiting
    BY <1>2 DEF Waiting
  <2>3. (m_ReadBuf' \o wire') \o m_WriteBuf' = Frames(Waiting)
    BY <1>1, <1>2, <1>7, <2>1 DEF OnTheWay
  <2>4. QED
    BY <2>2, <2>3 DEF OnTheWay
<1>11. closed' => TooLarge'
  BY <1>1, <1>2 DEF TooLarge
<1>12. QED
  BY <1>8, <1>9, <1>10, <1>11 DEF Inv

\* What a turn of Recv() does: m more packages are delivered, the bytes of
\* the others stay in the buffers.
Delivers(m) ==
    /\ delivered' = SubSeq(accepted, 1, Len(delivered) + m)
    /\ Len(delivered') = Len(delivered) + m
    /\ m_ReadBuf' \in Seq(Byte) /\ Len(m_ReadBuf') <= ReadMax
    /\ wire' \in Seq(Byte) /\ Len(wire') <= Wire
    /\ (m_ReadBuf' \o wire') \o m_WriteBuf
          = Frames(SubSeq(accepted, Len(delivered) + m + 1, Len(accepted)))
    /\ ~ HasPackage(m_ReadBuf', 0)

LEMMA RecvDelivers ==
    ASSUME Inv, NEW count \in 1..ReadMax, Recv(count)
    PROVE  \E m \in 0..(Len(accepted) - Len(delivered)) : Delivers(m)
<1> DEFINE a == SubSeq(wire, 1, count)
           b == SubSeq(wire, count + 1, Len(wire))
           buf == m_ReadBuf \o a
           tail == b \o m_WriteBuf
           d == Len(delivered)
           n == Len(accepted)
<1>1. TypeOK /\ InOrder /\ OnTheWay
  BY DEF Inv
<1>2. /\ count \in 1..Len(wire) /\ count <= Room
      /\ delivered' = delivered \o Parse(buf).packages
      /\ m_ReadBuf' = SubSeq(buf, Parse(buf).eaten + 1, Len(buf))
      /\ wire' = b
  BY DEF Recv
<1>3. m_WriteBuf \in Seq(Byte) /\ wire \in Seq(Byte) /\ m_ReadBuf \in Seq(Byte)
  BY <1>1 DEF TypeOK
<1>4. /\ Len(wire) \in Nat /\ count \in 0..Len(wire) /\ 0 \in 0..Len(wire)
      /\ Len(wire) \in count..Len(wire) /\ 0 + 1 = 1 /\ count - 0 = count
  BY <1>2, <1>3
<1>5. a \in Seq(Byte) /\ Len(a) = count
  <2>1. SubSeq(wire, 0 + 1, count) \in Seq(Byte)
        /\ Len(SubSeq(wire, 0 + 1, count)) = count - 0
    BY <1>3, <1>4, Cut
  <2>2. QED
    BY <1>4, <2>1
<1>6. b \in Seq(Byte) /\ Len(b) = Len(wire) - count
  BY <1>3, <1>4, Cut
<1>7. wire = a \o b
  BY <1>3, <1>4, Split
<1> HIDE DEF a, b
<1>8. a \in Seq(Byte) /\ b \in Seq(Byte)
  BY <1>5, <1>6
<1>9. buf \in Seq(Byte) /\ Len(buf) = Len(m_ReadBuf) + Len(a)
  BY <1>3, <1>8, ConcatProperties
<1>10. tail \in Seq(Byte)
  BY <1>3, <1>8, ConcatProperties
<1>11. m_ReadBuf \o wire = buf \o b
  <2> HIDE DEF tail, buf, d, n
  <2>1. m_ReadBuf \o (a \o b) = (m_ReadBuf \o a) \o b
    <3>1. Groups(m_ReadBuf, a, b)
      BY <1>3, <1>8, GroupsAny
    <3>2. QED
      BY <3>1 DEF Groups
  <2>2. QED
    BY <1>7, <2>1 DEF buf
<1> HIDE DEF buf
<1>12. (buf \o b) \o m_WriteBuf = buf \o tail
  <2>1. buf \in Seq(Byte)
    BY <1>9
  <2>2. QED
    <3>1. Groups(buf, b, m_WriteBuf)
      BY <1>3, <1>8, <2>1, GroupsAny
    <3>2. QED
      BY <3>1 DEF Groups
<1>13. /\ accepted \in Seq(Pieces) /\ n \in Nat /\ d \in 0..n
       /\ Waiting \in Seq(Pieces) /\ Len(Waiting) = n - d
       /\ accepted = delivered \o Waiting
  BY <1>1, WaitingType
<1>14. Frames(Waiting) = buf \o tail
  BY <1>1, <1>11, <1>12 DEF OnTheWay
<1>15. Begins(buf, Waiting)
  BY <1>10, <1>14 DEF Begins
<1>16. Len(buf) <= ReadMax
  <2>1. Len(m_ReadBuf) \in Nat /\ ReadMax \in Nat /\ count <= ReadMax - Len(m_ReadBuf)
    BY <1>2, <1>3, SizesAssumption DEF Room
  <2>2. QED
    BY <1>4, <1>5, <1>9, <2>1
<1>17. PICK m \in 0..Len(Waiting) :
          /\ Parse(buf).eaten = Start(Waiting, m)
          /\ Parse(buf).packages = SubSeq(Waiting, 1, m)
          /\ Start(Waiting, m) <= Len(buf)
          /\ ~ HasPackage(buf, Start(Waiting, m))
  <2>1. buf \in Seq(Byte) /\ Waiting \in Seq(Pieces)
    BY <1>9, <1>13
  <2>2. QED
    BY <1>15, <2>1, ParseCuts
<1> HIDE DEF tail, d, n
<1>18. m \in 0..(n - d) /\ d + m \in 0..n /\ d + m \in d..n /\ m \in Nat
  BY <1>13, <1>17
<1>19. delivered' = SubSeq(accepted, 1, d + m) /\ Len(delivered') = d + m
  <2>1. Waiting = SubSeq(accepted, d + 1, n)
    BY DEF Waiting, d, n
  <2>2. SubSeq(Waiting, 1, m) = SubSeq(accepted, d + 1, d + m)
    <3>1. 0 \in 0..(n - d) /\ m \in 0..(n - d) /\ 0 + 1 = 1 /\ d + 0 + 1 = d + 1
      BY <1>13, <1>18
    <3>2. SubSeq(SubSeq(accepted, d + 1, n), 0 + 1, m) = SubSeq(accepted, d + 0 + 1, d + m)
      BY <1>13, <3>1, CutOfCut DEF n
    <3>3. QED
      BY <2>1, <3>1, <3>2
  <2>3. delivered = SubSeq(accepted, 1, d)
    BY <1>1 DEF InOrder, d
  <2>4. SubSeq(accepted, 1, d) \o SubSeq(accepted, d + 1, d + m) = SubSeq(accepted, 1, d + m)
    <3>1. 1 \in 1..(n + 1) /\ d \in (1 - 1)..n /\ d + m \in d..n
      BY <1>13, <1>18
    <3>2. QED
      BY <1>13, <3>1, ConcatAdjacentSubSeq DEF n
  <2>5. Len(SubSeq(accepted, 1, d + m)) = d + m
    BY <1>13, <1>18, PrefixType DEF n
  <2>6. QED
    BY <1>2, <1>17, <2>2, <2>3, <2>4, <2>5
<1> DEFINE rest == SubSeq(buf, Start(Waiting, m) + 1, Len(buf))
<1>20. /\ rest \in Seq(Byte) /\ Len(rest) <= Len(buf)
       /\ rest \o tail = Frames(SubSeq(Waiting, m + 1, Len(Waiting)))
  <2>1. buf \in Seq(Byte) /\ Waiting \in Seq(Pieces) /\ Start(Waiting, m) <= Len(buf)
    BY <1>9, <1>13, <1>17
  <2>2. QED
    BY <1>10, <1>14, <2>1, CutLeaves
<1>21. m_ReadBuf' = rest
  BY <1>2, <1>17
<1>22. ~ HasPackage(rest, 0)
  <2>1. Start(Waiting, m) \in 0..Len(buf)
    <3>1. Start(Waiting, m) \in Nat /\ Len(buf) \in Nat
      BY <1>9, <1>13, PrefixType
    <3>2. QED
      BY <1>17, <3>1
  <2>2. buf \in Seq(Byte)
    BY <1>9
  <2>3. QED
    BY <1>17, <2>1, <2>2, RestHasNone
<1> HIDE DEF rest
<1>23. (rest \o b) \o m_WriteBuf = rest \o tail
  <2>1. rest \in Seq(Byte)
    BY <1>20
  <2>2. m_WriteBuf \in Seq(Byte)
    BY <1>3
  <2>3. (rest \o b) \o m_WriteBuf = rest \o (b \o m_WriteBuf)
    <3>1. Groups(rest, b, m_WriteBuf)
      BY <1>8, <2>1, <2>2, GroupsAny
    <3>2. QED
      BY <3>1 DEF Groups
  <2>4. QED
    BY <2>3 DEF tail
<1>24. SubSeq(Waiting, m + 1, Len(Waiting)) = SubSeq(accepted, d + m + 1, n)
  <2>1. Waiting = SubSeq(accepted, d + 1, n) /\ Len(Waiting) = n - d
    BY <1>13 DEF Waiting, d, n
  <2>2. m \in 0..(n - d) /\ n - d \in m..(n - d) /\ d + (n - d) = n
    BY <1>13, <1>18
  <2>3. SubSeq(SubSeq(accepted, d + 1, n), m + 1, n - d) = SubSeq(accepted, d + m + 1, d + (n - d))
    BY <1>13, <2>2, CutOfCut DEF n
  <2>4. QED
    BY <2>1, <2>2, <2>3
<1>25. wire' \in Seq(Byte) /\ Len(wire') <= Wire
  <2>1. Len(wire) <= Wire /\ Wire \in Nat
    BY <1>1, SizesAssumption DEF TypeOK
  <2>2. Len(b) <= Wire
    BY <1>4, <1>6, <2>1
  <2>3. QED
    BY <1>2, <1>6, <2>2
<1>26. Len(rest) <= ReadMax
  <2>1. Len(rest) \in Nat /\ Len(buf) \in Nat /\ ReadMax \in Nat
    BY <1>9, <1>20, SizesAssumption
  <2>2. QED
    BY <1>16, <1>20, <2>1
<1>27. (m_ReadBuf' \o wire') \o m_WriteBuf = Frames(SubSeq(accepted, d + m + 1, n))
  BY <1>2, <1>20, <1>21, <1>23, <1>24
<1>28. Delivers(m)
  BY <1>19, <1>20, <1>21, <1>22, <1>25, <1>26, <1>27 DEF Delivers, d, n
<1>29. m \in 0..(Len(accepted) - Len(delivered))
  BY <1>18 DEF d, n
<1>30. QED
  BY <1>28, <1>29

LEMMA RecvInv ==
    ASSUME Inv, NEW count \in 1..ReadMax, Recv(count)
    PROVE  Inv'
<1>1. PICK m \in 0..(Len(accepted) - Len(delivered)) : Delivers(m)
  BY RecvDelivers
<1>2. TypeOK /\ InOrder /\ (closed => TooLarge)
  BY DEF Inv
<1>3. UNCHANGED <<calls, accepted, m_WriteBuf, closed>>
  BY DEF Recv
<1>4. /\ accepted \in Seq(Pieces) /\ Len(accepted) \in Nat
      /\ Len(delivered) \in 0..Len(accepted)
  BY <1>2, WaitingType
<1>5. Len(delivered) + m \in 0..Len(accepted)
  BY <1>4
<1>6. InOrder'
  <2>1. accepted' \in Seq(SentPackages)
    BY <1>2, <1>3 DEF InOrder
  <2>2. QED
    BY <1>1, <1>3, <1>5, <2>1 DEF InOrder, Delivers
<1>7. TypeOK'
  <2>1. delivered' \in Seq(Pieces)
    BY <1>1, <1>4, <1>5, PrefixType DEF Delivers
  <2>2. \A x \in Range(delivered') : x \in Seq(Byte)
    BY <2>1, PackagesAreBytes
  <2>3. \A x \in Range(accepted') : x \in Seq(Byte)
    BY <1>2, <1>3 DEF TypeOK
  <2>4. calls' \in 0..MaxPackages
    BY <1>2, <1>3 DEF TypeOK
  <2>5. closed' \in BOOLEAN
    BY <1>2, <1>3 DEF TypeOK
  <2>6. m_WriteBuf' \in Seq(Byte) /\ Len(m_WriteBuf') <= WriteMax
    BY <1>2, <1>3 DEF TypeOK
  <2>7. /\ m_ReadBuf' \in Seq(Byte) /\ Len(m_ReadBuf') <= ReadMax
        /\ wire' \in Seq(Byte) /\ Len(wire') <= Wire
    BY <1>1 DEF Delivers
  <2>8. QED
    BY <2>2, <2>3, <2>4, <2>5, <2>6, <2>7 DEF TypeOK
<1>8. OnTheWay'
  <2>1. Waiting' = SubSeq(accepted, Len(delivered) + m + 1, Len(accepted))
    BY <1>1, <1>3 DEF Waiting, Delivers
  <2>2. QED
    BY <1>1, <1>3, <2>1 DEF OnTheWay, Delivers
<1>9. NoneWhole'
  BY <1>1 DEF NoneWhole, Delivers
<1>10. closed' => TooLarge'
  BY <1>2, <1>3 DEF TooLarge
<1>11. QED
  BY <1>6, <1>7, <1>8, <1>9, <1>10 DEF Inv

\* A buffer that is full shows a package that is too large.
LEMMA FullShows ==
    ASSUME Inv, Room = 0
    PROVE  TooLarge
<1>1. TypeOK /\ InOrder /\ OnTheWay /\ NoneWhole
  BY DEF Inv
<1>2. m_WriteBuf \in Seq(Byte) /\ wire \in Seq(Byte) /\ m_ReadBuf \in Seq(Byte)
  BY <1>1 DEF TypeOK
<1>3. Len(m_ReadBuf) = ReadMax
  BY <1>2, SizesAssumption DEF Room
<1>4. /\ Len(accepted) \in Nat /\ Len(delivered) \in 0..Len(accepted)
      /\ Waiting \in Seq(Pieces) /\ Len(Waiting) = Len(accepted) - Len(delivered)
      /\ \A i \in 1..Len(Waiting) : Waiting[i] = accepted[Len(delivered) + i]
      /\ accepted \in Seq(Pieces)
  BY <1>1, WaitingType
<1>5. Begins(m_ReadBuf, Waiting)
  <2> DEFINE tail == wire \o m_WriteBuf
  <2>1. tail \in Seq(Byte)
    BY <1>2, ConcatProperties
  <2>2. (m_ReadBuf \o wire) \o m_WriteBuf = m_ReadBuf \o tail
    <3>1. Groups(m_ReadBuf, wire, m_WriteBuf)
      BY <1>2, GroupsAny
    <3>2. QED
      BY <3>1 DEF Groups
  <2>3. QED
    BY <1>1, <2>1, <2>2 DEF OnTheWay, Begins
<1>6. 0 < Len(Waiting) /\ Len(Frame(Waiting[1])) > ReadMax
  BY <1>1, <1>2, <1>3, <1>4, <1>5, FullOfOne DEF NoneWhole
<1>7. 1 \in 1..Len(Waiting) /\ Len(delivered) + 1 \in 1..Len(accepted)
  BY <1>4, <1>6
<1>8. accepted[Len(delivered) + 1] \in Range(accepted)
  <2>1. Len(delivered) + 1 \in DOMAIN accepted
    BY <1>4, <1>7, LenProperties
  <2>2. QED
    BY <2>1 DEF Range
<1>9. Waiting[1] = accepted[Len(delivered) + 1]
  BY <1>4, <1>7
<1>10. QED
  BY <1>6, <1>8, <1>9 DEF TooLarge

LEMMA RecvWithoutRoomInv ==
    ASSUME Inv, RecvWithoutRoom
    PROVE  Inv'
<1>1. TooLarge
  BY FullShows DEF RecvWithoutRoom
<1>2. /\ UNCHANGED <<calls, accepted, m_WriteBuf, wire, m_ReadBuf, delivered>>
      /\ closed' = TRUE
  BY DEF RecvWithoutRoom
<1>3. TooLarge'
  BY <1>1, <1>2 DEF TooLarge
<1>4. closed' \in BOOLEAN
  BY <1>2
<1>5. TypeOK'
  BY <1>2, <1>4 DEF Inv, TypeOK
<1>6. InOrder' /\ OnTheWay' /\ NoneWhole'
  BY <1>2 DEF Inv, InOrder, OnTheWay, NoneWhole, Waiting
<1>7. QED
  BY <1>3, <1>5, <1>6 DEF Inv

LEMMA NextInv ==
    ASSUME Inv, [Next]_vars
    PROVE  Inv'
<1>1. CASE \E size \in Sizes : Write(size)
  BY <1>1, WriteInv
<1>2. CASE \E count \in 1..WriteMax : Send(count)
  BY <1>2, SendInv
<1>3. CASE \E count \in 1..ReadMax : Recv(count)
  BY <1>3, RecvInv
<1>4. CASE RecvWithoutRoom
  BY <1>4, RecvWithoutRoomInv
<1>5. CASE UNCHANGED vars
  BY <1>5 DEF vars, Inv, TypeOK, InOrder, OnTheWay, NoneWhole, Waiting, TooLarge
<1>6. QED
  BY <1>1, <1>2, <1>3, <1>4, <1>5 DEF Next

LEMMA Invariance == SafeSpec => []Inv
<1>1. Init => Inv
  BY InitInv
<1>2. Inv /\ [Next]_vars => Inv'
  BY NextInv
<1>3. QED
  BY <1>1, <1>2, PTL DEF SafeSpec

-----------------------------------------------------------------------------
(* The theorems *)

LEMMA InvIntact ==
    ASSUME Inv
    PROVE  StreamIntact
<1>1. TypeOK /\ InOrder /\ OnTheWay
  BY DEF Inv
<1>2. m_WriteBuf \in Seq(Byte) /\ wire \in Seq(Byte) /\ m_ReadBuf \in Seq(Byte)
  BY <1>1 DEF TypeOK
<1>3. /\ delivered \in Seq(Pieces) /\ Waiting \in Seq(Pieces)
      /\ accepted = delivered \o Waiting
  BY <1>1, WaitingType
<1>4. Frames(accepted) = Frames(delivered) \o Frames(Waiting)
  BY <1>3, FramesConcat
<1> DEFINE F == Frames(delivered)
           head == m_ReadBuf \o wire
<1>5. F \in Seq(Byte)
  BY <1>3, FramesType
<1>6. head \in Seq(Byte)
  BY <1>2, ConcatProperties
<1> HIDE DEF F
<1>7. (F \o m_ReadBuf) \o wire = F \o head
  <2>1. Groups(F, m_ReadBuf, wire)
    BY <1>2, <1>5, GroupsAny
  <2>2. QED
    BY <2>1 DEF Groups
<1> HIDE DEF head
<1>8. (F \o head) \o m_WriteBuf = F \o (head \o m_WriteBuf)
  <2>1. m_WriteBuf \in Seq(Byte)
    BY <1>2
  <2>2. QED
    <3>1. Groups(F, head, m_WriteBuf)
      BY <1>5, <1>6, <2>1, GroupsAny
    <3>2. QED
      BY <3>1 DEF Groups
<1>9. head \o m_WriteBuf = Frames(Waiting)
  BY <1>1 DEF OnTheWay, head
<1>10. ((F \o m_ReadBuf) \o wire) \o m_WriteBuf = Frames(accepted)
  BY <1>4, <1>7, <1>8, <1>9 DEF F
<1>11. QED
  BY <1>1, <1>10 DEF StreamIntact, F

\* However the bytes are cut by send() and recv(), what was delivered and what
\* is still on its way is what was accepted, byte for byte, and no buffer
\* overflows: for every size of the buffers and of the packages (Write
\* 138-150, Send 171-173, Recv 56-62).
THEOREM BytesKept == SafeSpec => []StreamIntact
<1>1. Inv => StreamIntact
  BY InvIntact
<1>2. QED
  BY <1>1, Invariance, PTL

\* The reader takes a full buffer for the end of the connection only when a
\* package is larger than the buffer (Recv 63-67, 74, Write 141).
THEOREM CutOffByLarge == SafeSpec => []NeverCutOff
<1>1. Inv => NeverCutOff
  <2>1. SUFFICES ASSUME Inv, Room = 0 \/ closed PROVE TooLarge
    BY DEF NeverCutOff, TooLarge
  <2>2. CASE Room = 0
    BY <2>1, <2>2, FullShows
  <2>3. CASE closed
    BY <2>1, <2>3 DEF Inv
  <2>4. QED
    BY <2>1, <2>2, <2>3
<1>2. QED
  BY <1>1, Invariance, PTL

\* A step of the bytes is a step of the channel, or none.
LEMMA StepOfChannel ==
    ASSUME Inv, [Next]_vars
    PROVE  [Channel!Next]_<<accepted, delivered>>
<1>1. ASSUME NEW size \in Sizes, Write(size)
      PROVE  [Channel!Next]_<<accepted, delivered>>
  <2>1. calls + 1 \in 1..MaxPackages
    BY <1>1, SizesAssumption DEF Write, Inv, TypeOK
  <2>2. Data(calls + 1, size) \in SentPackages
    BY <2>1, SentType
  <2>3. UNCHANGED delivered
    BY <1>1 DEF Write
  <2>4. CASE accepted' = Append(accepted, Data(calls + 1, size))
    BY <2>2, <2>3, <2>4 DEF Channel!Next, Channel!Accept, SentPackages
  <2>5. CASE UNCHANGED accepted
    BY <2>3, <2>5
  <2>6. QED
    BY <1>1, <2>4, <2>5 DEF Write
<1>2. ASSUME NEW count \in 1..WriteMax, Send(count)
      PROVE  [Channel!Next]_<<accepted, delivered>>
  BY <1>2 DEF Send
<1>3. ASSUME NEW count \in 1..ReadMax, Recv(count)
      PROVE  [Channel!Next]_<<accepted, delivered>>
  <2>1. PICK m \in 0..(Len(accepted) - Len(delivered)) : Delivers(m)
    BY <1>3, RecvDelivers
  <2>2. /\ Len(accepted) \in Nat /\ Len(delivered) \in 0..Len(accepted)
        /\ delivered = SubSeq(accepted, 1, Len(delivered))
    BY WaitingType DEF Inv, InOrder
  <2>3. UNCHANGED accepted
    BY <1>3 DEF Recv
  <2>4. CASE m = 0
    <3>1. Len(delivered) + 0 = Len(delivered)
      BY <2>2
    <3>2. delivered' = delivered
      BY <2>1, <2>2, <2>4, <3>1 DEF Delivers
    <3>3. QED
      BY <2>3, <3>2
  <2>5. CASE m # 0
    <3>1. m \in 1..(Len(accepted) - Len(delivered)) /\ Len(delivered) + m <= Len(accepted)
      BY <2>2, <2>5
    <3>2. Channel!Deliver(m)
      BY <2>1, <2>3, <3>1 DEF Channel!Deliver, Delivers
    <3>3. QED
      BY <3>1, <3>2 DEF Channel!Next
  <2>6. QED
    BY <2>4, <2>5
<1>4. ASSUME RecvWithoutRoom
      PROVE  [Channel!Next]_<<accepted, delivered>>
  BY <1>4 DEF RecvWithoutRoom
<1>5. ASSUME UNCHANGED vars
      PROVE  [Channel!Next]_<<accepted, delivered>>
  BY <1>5 DEF vars
<1>6. QED
  BY <1>1, <1>2, <1>3, <1>4, <1>5 DEF Next

\* The two ends of a connection with the bytes between them are a channel of
\* packages: what SendPackage had accepted arrives whole, once and in order.
THEOREM StreamIsChannel == SafeSpec => ImplementsChannel
<1>1. Init => Channel!Init
  BY DEF Init, Channel!Init
<1>2. Inv /\ [Next]_vars => [Channel!Next]_<<accepted, delivered>>
  BY StepOfChannel
<1>3. QED
  BY <1>1, <1>2, Invariance, PTL
     DEF SafeSpec, ImplementsChannel, Channel!SafeSpec, Channel!vars

-----------------------------------------------------------------------------
(* What is inside a package *)

Cell == Int \X Nat
Cells == Seq(Cell)

\* The bytes p are found in d at the offset o.
Lies(d, o, p) ==
    /\ o \in Nat
    /\ o + Len(p) <= Len(d)
    /\ \A j \in 1..Len(p) : d[o + j] = p[j]

\* The length of what is serialized is a number.
LEMMA CellsLen ==
    ASSUME NEW d \in Cells
    PROVE  Len(d) \in Nat /\ \A i \in 1..Len(d) : d[i] \in Cell
<1>1. d \in Seq(Cell)
  BY DEF Cells
<1>2. QED
  BY <1>1, ElementOfSeq, LenProperties

\* All of d lies in d.
LEMMA LiesWhole ==
    ASSUME NEW d \in Cells
    PROVE  Lies(d, 0, d)
<1>1. Len(d) \in Nat
  BY CellsLen
<1>2. QED
  BY <1>1 DEF Lies

\* What lies in something that lies in d lies in d.
LEMMA LiesWithin ==
    ASSUME NEW d \in Cells, NEW p \in Cells, NEW q \in Cells, NEW o, NEW r,
           Lies(d, o, p), Lies(p, r, q)
    PROVE  Lies(d, o + r, q)
<1>1. Len(d) \in Nat /\ Len(p) \in Nat /\ Len(q) \in Nat
  BY CellsLen
<1>2. o \in Nat /\ r \in Nat /\ o + Len(p) <= Len(d) /\ r + Len(q) <= Len(p)
  BY DEF Lies
<1>3. ASSUME NEW j \in 1..Len(q)
      PROVE  d[o + r + j] = q[j]
  <2>1. r + j \in 1..Len(p) /\ o + (r + j) = o + r + j
    BY <1>1, <1>2, <1>3
  <2>2. d[o + (r + j)] = p[r + j] /\ p[r + j] = q[j]
    BY <1>3, <2>1 DEF Lies
  <2>3. QED
    BY <2>1, <2>2
<1>4. o + r \in Nat /\ o + r + Len(q) <= Len(d)
  BY <1>1, <1>2
<1>5. QED
  BY <1>3, <1>4 DEF Lies

\* Of two parts, each lies in the whole: the second where the first ends.
LEMMA ConcatCells ==
    ASSUME NEW p \in Cells, NEW q \in Cells
    PROVE  /\ p \o q \in Cells
           /\ Len(p \o q) = Len(p) + Len(q)
           /\ Lies(p \o q, 0, p)
           /\ Lies(p \o q, Len(p), q)
<1> DEFINE u == p \o q
<1>1. p \in Seq(Cell) /\ q \in Seq(Cell) /\ Len(p) \in Nat /\ Len(q) \in Nat
  BY CellsLen DEF Cells
<1>2. /\ u \in Seq(Cell) /\ Len(u) = Len(p) + Len(q)
      /\ \A i \in 1..Len(p) + Len(q) : u[i] = IF i <= Len(p) THEN p[i] ELSE q[i - Len(p)]
  BY <1>1, ConcatProperties
<1> HIDE DEF u
<1>3. \A j \in 1..Len(p) : u[0 + j] = p[j]
  BY <1>1, <1>2
<1>4. \A j \in 1..Len(q) : u[Len(p) + j] = q[j]
  BY <1>1, <1>2
<1>5. Lies(u, 0, p) /\ Lies(u, Len(p), q)
  BY <1>1, <1>2, <1>3, <1>4 DEF Lies
<1>6. QED
  BY <1>2, <1>5 DEF u, Cells

\* A function on 1..n is a sequence of that length.
LEMMA LengthOf ==
    ASSUME NEW n \in Nat, NEW S, NEW d, d = [i \in 1..n |-> d[i]],
           \A i \in 1..n : d[i] \in S
    PROVE  d \in Seq(S) /\ Len(d) = n
<1>1. d \in [1..n -> S]
  BY Zenon
<1>2. d \in Seq(S)
  BY <1>1
<1>3. DOMAIN d = 1..n /\ DOMAIN d = 1..Len(d) /\ Len(d) \in Nat
  BY <1>1, <1>2, LenProperties
<1>4. Len(d) = n
  BY <1>3
<1>5. QED
  BY <1>2, <1>4

\* What is given byte by byte is as long as that.
LEMMA CellsOf ==
    ASSUME NEW n \in Nat, NEW d, d = [i \in 1..n |-> d[i]],
           \A i \in 1..n : d[i] \in Cell
    PROVE  d \in Cells /\ Len(d) = n
  BY LengthOf DEF Cells

-----------------------------------------------------------------------------
(* Numbers, memory and texts *)

\* What the four bytes of an int count.
LEMMA WeightIs ==
    /\ Weight[1] = 1 /\ Weight[2] = 256 /\ Weight[3] = 65536
    /\ Weight[4] = 16777216
  BY DEF Weight

\* A number takes four bytes.
LEMMA Int4Type ==
    ASSUME NEW n \in Nat
    PROVE  Int4(n) \in Cells /\ Len(Int4(n)) = 4
<1> DEFINE w == Int4(n)
<1>1. w = [i \in 1..4 |-> <<(n \div Weight[i]) % 256, 0>>]
  BY DEF Int4, SizeInt
<1>2. \A i \in 1..4 : w[i] \in Cell
  <2>1. TAKE i \in 1..4
  <2>2. (n \div Weight[i]) % 256 \in Int
    <3>1. /\ (n \div 1) % 256 \in Int /\ (n \div 256) % 256 \in Int
          /\ (n \div 65536) % 256 \in Int /\ (n \div 16777216) % 256 \in Int
      OBVIOUS
    <3>2. i = 1 \/ i = 2 \/ i = 3 \/ i = 4
      OBVIOUS
    <3>3. QED
      BY <3>1, <3>2, WeightIs
  <2>3. w[i] = <<(n \div Weight[i]) % 256, 0>>
    BY <1>1
  <2> HIDE DEF w
  <2>4. QED
    BY <2>2, <2>3 DEF Cell
<1>3. w = [i \in 1..4 |-> w[i]]
  BY <1>1
<1> HIDE DEF w
<1>4. w \in Cells /\ Len(w) = 4
  BY <1>2, <1>3, CellsOf
<1>5. QED
  BY <1>4 DEF w

ByteOf(n, i) == (n \div Weight[i]) % 256

\* The four bytes of a number, the weights spelt out.
LEMMA ByteOfIs ==
    ASSUME NEW n \in Nat
    PROVE  /\ ByteOf(n, 1) = n % 256 /\ ByteOf(n, 2) = (n \div 256) % 256
           /\ ByteOf(n, 3) = (n \div 65536) % 256
           /\ ByteOf(n, 4) = (n \div 16777216) % 256
<1>1. n \div 1 = n
  OBVIOUS
<1>2. ByteOf(n, 1) = n % 256
  BY <1>1, WeightIs DEF ByteOf
<1>3. ByteOf(n, 2) = (n \div 256) % 256
  BY WeightIs DEF ByteOf
<1>4. ByteOf(n, 3) = (n \div 65536) % 256
  BY WeightIs DEF ByteOf
<1>5. ByteOf(n, 4) = (n \div 16777216) % 256
  BY WeightIs DEF ByteOf
<1>6. QED
  BY <1>2, <1>3, <1>4, <1>5

\* What is found where an int was written.
LEMMA BytesThere ==
    ASSUME NEW d \in Cells, NEW o, NEW n \in Nat, Lies(d, o, Int4(n))
    PROVE  /\ o \in Nat /\ Len(d) \in Nat /\ o + 4 <= Len(d)
           /\ \A i \in 1..4 : d[o + i][1] = ByteOf(n, i)
<1> DEFINE w == Int4(n)
<1>1. w = [i \in 1..4 |-> <<ByteOf(n, i), 0>>]
  BY DEF Int4, SizeInt, ByteOf
<1>2. \A i \in 1..4 : w[i][1] = ByteOf(n, i)
  BY <1>1
<1>3. Len(w) = 4
  BY Int4Type
<1>4. o \in Nat /\ o + Len(w) <= Len(d) /\ \A i \in 1..Len(w) : d[o + i] = w[i]
  BY DEF Lies
<1> HIDE DEF w
<1>5. QED
  BY <1>2, <1>3, <1>4, CellsLen

\* Four numbers are read where an int was written.
LEMMA IntLiesType ==
    ASSUME NEW d \in Cells, NEW o, NEW n \in Nat, Lies(d, o, Int4(n))
    PROVE  IntAt(d, o) \in Nat
<1>1. /\ o \in Nat /\ Len(d) \in Nat /\ o + 4 <= Len(d)
      /\ d[o + 1][1] = ByteOf(n, 1) /\ d[o + 2][1] = ByteOf(n, 2)
      /\ d[o + 3][1] = ByteOf(n, 3) /\ d[o + 4][1] = ByteOf(n, 4)
  BY BytesThere
<1>2. /\ Weight[1] = 1 /\ Weight[2] = 256 /\ Weight[3] = 65536
      /\ Weight[4] = 16777216
  BY WeightIs
<1>3. Within(d, o, SizeInt)
  BY <1>1 DEF Within, SizeInt
<1>4. IntAt(d, o) = ByteOf(n, 1) * 1 + ByteOf(n, 2) * 256 + ByteOf(n, 3) * 65536
                    + ByteOf(n, 4) * 16777216
  BY <1>1, <1>2, <1>3 DEF IntAt
<1>5. /\ n % 256 \in Nat /\ (n \div 256) % 256 \in Nat
      /\ (n \div 65536) % 256 \in Nat /\ (n \div 16777216) % 256 \in Nat
  OBVIOUS
<1>6. /\ ByteOf(n, 1) = n % 256 /\ ByteOf(n, 2) = (n \div 256) % 256
      /\ ByteOf(n, 3) = (n \div 65536) % 256
      /\ ByteOf(n, 4) = (n \div 16777216) % 256
  BY ByteOfIs
<1>7. /\ ByteOf(n, 1) \in Nat /\ ByteOf(n, 2) \in Nat /\ ByteOf(n, 3) \in Nat
      /\ ByteOf(n, 4) \in Nat
  BY <1>5, <1>6
<1>8. QED
  BY <1>4, <1>7

\* A number is read as it was written, if it is one of an int.
LEMMA IntLies ==
    ASSUME NEW d \in Cells, NEW o, NEW n \in Nat, n <= MaxInt, Lies(d, o, Int4(n))
    PROVE  IntAt(d, o) = n
<1>1. /\ o \in Nat /\ Len(d) \in Nat /\ o + 4 <= Len(d)
      /\ d[o + 1][1] = ByteOf(n, 1) /\ d[o + 2][1] = ByteOf(n, 2)
      /\ d[o + 3][1] = ByteOf(n, 3) /\ d[o + 4][1] = ByteOf(n, 4)
  BY BytesThere
<1>2. /\ Weight[1] = 1 /\ Weight[2] = 256 /\ Weight[3] = 65536
      /\ Weight[4] = 16777216
  BY WeightIs
<1>5. Within(d, o, SizeInt)
  BY <1>1 DEF Within, SizeInt
<1>3. IntAt(d, o) = ByteOf(n, 1) * 1 + ByteOf(n, 2) * 256 + ByteOf(n, 3) * 65536
                    + ByteOf(n, 4) * 16777216
  BY <1>1, <1>2, <1>5 DEF IntAt
<1>4. /\ ByteOf(n, 1) = n % 256 /\ ByteOf(n, 2) = (n \div 256) % 256
      /\ ByteOf(n, 3) = (n \div 65536) % 256
      /\ ByteOf(n, 4) = (n \div 16777216) % 256
  BY ByteOfIs
<1>7. IntAt(d, o) = (n % 256) * 1 + ((n \div 256) % 256) * 256
          + ((n \div 65536) % 256) * 65536 + ((n \div 16777216) % 256) * 16777216
  BY <1>3, <1>4
<1>8. n <= 2147483647
  BY DEF MaxInt
<1>9. QED
  BY <1>7, <1>8, FourBytes

\* Of a number read as a char, too much is never seen.
LEMMA CharLies ==
    ASSUME NEW d \in Cells, NEW o, NEW n \in Nat, Lies(d, o, Int4(n))
    PROVE  /\ CharAt(d, o) \in Int /\ CharAt(d, o) <= n
           /\ n <= MaxCount => CharAt(d, o) = n
<1>1. o \in Nat /\ Len(d) \in Nat /\ o + 4 <= Len(d)
  BY BytesThere
<1>2. d[o + 1][1] = ByteOf(n, 1)
  BY BytesThere
<1>3. d[o + 1][1] = n % 256
  <2>1. n \div 1 = n
    OBVIOUS
  <2>2. ByteOf(n, 1) = n % 256
    BY <2>1, WeightIs DEF ByteOf
  <2>3. QED
    BY <1>2, <2>2
<1>4. Within(d, o, 1)
  BY <1>1 DEF Within
<1>5. CharAt(d, o) = IF n % 256 < 128 THEN n % 256 ELSE (n % 256) - 256
  BY <1>3, <1>4 DEF CharAt
<1>6. QED
  BY <1>5 DEF MaxCount

\* The memory of a thing, byte by byte.
LEMMA MemoryIs ==
    ASSUME NEW x \in Int, NEW n \in Nat
    PROVE  /\ Memory(x, n) \in Cells /\ Len(Memory(x, n)) = n
           /\ \A i \in 1..n : Memory(x, n)[i] = <<x, i>>
<1> DEFINE w == Memory(x, n)
<1>1. w = [i \in 1..n |-> <<x, i>>]
  BY DEF Memory
<1>2. \A i \in 1..n : w[i] = <<x, i>> /\ w[i] \in Cell
  BY <1>1 DEF Cell
<1>3. w = [i \in 1..n |-> w[i]]
  BY <1>1
<1> HIDE DEF w
<1>4. w \in Cells /\ Len(w) = n
  BY <1>2, <1>3, CellsOf
<1>5. QED
  BY <1>2, <1>4 DEF w

\* A thing is found where its memory was copied to.
LEMMA ThingThere ==
    ASSUME NEW d \in Cells, NEW o \in Nat, NEW x \in Int, NEW n \in Nat \ {0},
           o + n <= Len(d), \A j \in 1..n : d[o + j] = <<x, j>>
    PROVE  ThingAt(d, o, n) = x
<1>1. d \in Seq(Cell) /\ Len(d) \in Nat
  BY CellsLen DEF Cells
<1>2. Within(d, o, n)
  BY <1>1 DEF Within
<1>3. d[o + 1][1] = x
  <2>1. d[o + 1] = <<x, 1>>
    OBVIOUS
  <2>2. QED
    BY <2>1
<1> DEFINE s == SubSeq(d, o + 1, o + n)
<1>4. s \in Seq(Cell) /\ Len(s) = n /\ \A i \in 1..n : s[i] = d[o + i]
  <2>1. o \in 0..Len(d) /\ o + n \in o..Len(d) /\ o + n - o = n
    BY <1>1
  <2>2. QED
    BY <1>1, <2>1, Cut
<1>5. s = Memory(x, n)
  <2>1. Memory(x, n) \in Seq(Cell) /\ Len(Memory(x, n)) = n
        /\ \A i \in 1..n : Memory(x, n)[i] = <<x, i>>
    BY MemoryIs DEF Cells
  <2> HIDE DEF s
  <2>2. \A i \in 1..n : s[i] = Memory(x, n)[i]
    BY <1>4, <2>1
  <2>3. QED
    BY <1>4, <2>1, <2>2, SeqEqual
<1>6. QED
  BY <1>2, <1>3, <1>5 DEF ThingAt

\* The same, as UnSerialize looks for it.
LEMMA ThingLies ==
    ASSUME NEW d \in Cells, NEW o, NEW x \in Int, NEW n \in Nat \ {0},
           Lies(d, o, Memory(x, n))
    PROVE  ThingAt(d, o, n) = x
<1>1. Len(Memory(x, n)) = n /\ \A i \in 1..n : Memory(x, n)[i] = <<x, i>>
  BY MemoryIs
<1>2. o \in Nat /\ o + n <= Len(d) /\ \A j \in 1..n : d[o + j] = <<x, j>>
  BY <1>1 DEF Lies
<1>3. QED
  BY <1>2, ThingThere

\* A text and its terminator, byte by byte.
LEMMA CharsIs ==
    ASSUME NEW t \in Seq(Char)
    PROVE  /\ Len(t) \in Nat
           /\ Chars(Append(t, 0)) \in Cells
           /\ Len(Chars(Append(t, 0))) = Len(t) + 1
           /\ \A i \in 1..Len(t) : t[i] \in Char /\ Chars(Append(t, 0))[i] = <<t[i], 0>>
           /\ Chars(Append(t, 0))[Len(t) + 1] = <<0, 0>>
<1> DEFINE u == Append(t, 0)
           w == Chars(u)
<1>1. Len(t) \in Nat /\ \A i \in 1..Len(t) : t[i] \in Char
  BY ElementOfSeq, LenProperties
<1>2. t \in Seq(Int) /\ 0 \in Int
  <2>1. \A i \in 1..Len(t) : t[i] \in Int
    <3>1. \A c \in Char : c \in Int
      BY DEF Char
    <3>2. QED
      BY <1>1, <3>1
  <2>2. DOMAIN t = 1..Len(t) /\ t = [i \in DOMAIN t |-> t[i]]
    BY LenProperties
  <2>3. t \in [1..Len(t) -> Int]
    BY <2>1, <2>2, Zenon
  <2>4. QED
    BY <1>1, <2>3
<1>3. /\ u \in Seq(Int) /\ Len(u) = Len(t) + 1 /\ u[Len(t) + 1] = 0
      /\ \A i \in 1..Len(t) : u[i] = t[i]
  BY <1>2, AppendProperties
<1>4. DOMAIN u = 1..(Len(t) + 1) /\ \A i \in 1..(Len(t) + 1) : u[i] \in Int
  BY <1>3, ElementOfSeq, LenProperties
<1> HIDE DEF u
<1>5. w = [i \in 1..(Len(t) + 1) |-> <<u[i], 0>>]
  BY <1>4 DEF Chars
<1>6. \A i \in 1..(Len(t) + 1) : w[i] = <<u[i], 0>> /\ w[i] \in Cell
  BY <1>4, <1>5 DEF Cell
<1>7. w = [i \in 1..(Len(t) + 1) |-> w[i]]
  BY <1>5
<1> HIDE DEF w
<1>8. Len(t) + 1 \in Nat
  BY <1>1
<1>9. w \in Cells /\ Len(w) = Len(t) + 1
  BY <1>6, <1>7, <1>8, CellsOf
<1>10. \A i \in 1..Len(t) : w[i] = <<t[i], 0>>
  BY <1>1, <1>3, <1>6
<1>11. w[Len(t) + 1] = <<0, 0>>
  BY <1>1, <1>3, <1>6
<1>12. QED
  BY <1>1, <1>9, <1>10, <1>11 DEF w, u

\* A text is found up to its terminator, as no byte of it is 0.
LEMMA TextLies ==
    ASSUME NEW d \in Cells, NEW o, NEW t \in Seq(Char), Lies(d, o, Chars(Append(t, 0)))
    PROVE  TextAt(d, o) = t
<1>1. Len(d) \in Nat /\ Len(t) \in Nat /\ o \in Nat /\ o + (Len(t) + 1) <= Len(d)
  BY CellsLen, CharsIs DEF Lies
<1>2. \A i \in 1..Len(t) : t[i] \in Char /\ d[o + i] = <<t[i], 0>>
  <2>1. TAKE i \in 1..Len(t)
  <2>2. i \in 1..(Len(t) + 1)
    BY <1>1
  <2>3. QED
    BY <2>2, CharsIs DEF Lies
<1>3. d[o + (Len(t) + 1)] = <<0, 0>>
  <2>1. Len(t) + 1 \in 1..(Len(t) + 1)
    BY <1>1
  <2>2. QED
    BY <2>1, CharsIs DEF Lies
<1> DEFINE ends == {i \in o + 1..Len(d) : d[i] = <<0, 0>>}
           e == o + (Len(t) + 1)
<1>4. e \in ends
  BY <1>1, <1>3
<1>5. \A j \in ends : e <= j
  <2>1. SUFFICES ASSUME NEW j \in ends, j < e PROVE FALSE
    BY <1>1
  <2>2. j - o \in 1..Len(t) /\ o + (j - o) = j
    BY <1>1, <2>1
  <2>3. d[j] = <<t[j - o], 0>> /\ t[j - o] \in Char
    BY <1>2, <2>2
  <2>4. d[j] = <<0, 0>>
    BY <2>1
  <2>5. t[j - o] = 0
    BY <2>3, <2>4
  <2>6. QED
    BY <2>3, <2>5 DEF Char
<1> DEFINE IsEnd(i) == i \in ends /\ \A j \in ends : i <= j
<1>6. \A i : IsEnd(i) => i = e
  <2>1. TAKE i
  <2>2. HAVE IsEnd(i)
  <2>3. i <= e /\ e <= i /\ i \in Int /\ e \in Int
    BY <1>1, <1>4, <1>5, <2>2
  <2>4. QED
    BY <2>3
<1>7. (CHOOSE i \in ends : \A j \in ends : i <= j) = e
  <2> HIDE DEF ends, e
  <2>1. IsEnd(e)
    BY <1>4, <1>5
  <2>2. (CHOOSE i \in ends : \A j \in ends : i <= j) = CHOOSE i : IsEnd(i)
    OBVIOUS
  <2> HIDE DEF IsEnd
  <2>3. QED
    BY <1>6, <2>1, <2>2, Zenon
<1>8. TextAt(d, o) = [i \in 1..e - 1 - o |-> d[o + i][1]]
  <2>1. ~ (o < 0) /\ ends # {}
    BY <1>1, <1>4
  <2>2. TextAt(d, o) = IF o < 0 \/ ends = {} THEN <<Garbage>>
          ELSE LET end == CHOOSE i \in ends : \A j \in ends : i <= j
               IN  [i \in 1..end - 1 - o |-> d[o + i][1]]
    BY DEF TextAt
  <2> HIDE DEF ends, e
  <2>3. QED
    BY <1>7, <2>1, <2>2
<1>9. e - 1 - o = Len(t)
  BY <1>1
<1>10. \A i \in 1..Len(t) : d[o + i][1] = t[i]
  BY <1>2
<1>11. [i \in 1..Len(t) |-> d[o + i][1]] = [i \in 1..Len(t) |-> t[i]]
  BY <1>10
<1>12. t = [i \in 1..Len(t) |-> t[i]]
  BY LenProperties
<1> HIDE DEF e
<1>13. QED
  BY <1>8, <1>9, <1>11, <1>12

-----------------------------------------------------------------------------
(* Structures, and pieces one after the other *)

\* A structure: its size, its DataType and its body lie one after the other.
LEMMA StructureIs ==
    ASSUME NEW type \in Int, NEW size \in Nat, NEW body \in Cells
    PROVE  LET d == Structure(type, size, body) IN
           /\ d \in Cells /\ Len(d) = 8 + Len(body)
           /\ Lies(d, 0, Int4(size)) /\ Lies(d, 4, Memory(type, 4)) /\ Lies(d, 8, body)
<1> DEFINE h == Int4(size)
           m == Memory(type, 4)
           u == h \o m
           d == u \o body
<1>1. h \in Cells /\ Len(h) = 4 /\ m \in Cells /\ Len(m) = 4 /\ Len(body) \in Nat
  BY Int4Type, MemoryIs, CellsLen
<1>2. Structure(type, size, body) = d
  BY DEF Structure, SizeInt
<1> HIDE DEF h, m
<1>3. u \in Cells /\ Len(u) = 8 /\ Lies(u, 0, h) /\ Lies(u, 4, m)
  <2>1. /\ u \in Cells /\ Len(u) = Len(h) + Len(m)
        /\ Lies(u, 0, h) /\ Lies(u, Len(h), m)
    BY <1>1, ConcatCells
  <2> HIDE DEF u
  <2>2. QED
    BY <1>1, <2>1
<1> HIDE DEF u
<1>4. d \in Cells /\ Len(d) = 8 + Len(body) /\ Lies(d, 0, u) /\ Lies(d, 8, body)
  BY <1>3, ConcatCells
<1> HIDE DEF d
<1>5. Lies(d, 0 + 0, h) /\ Lies(d, 0 + 4, m)
  BY <1>1, <1>3, <1>4, LiesWithin
<1>6. 0 + 0 = 0 /\ 0 + 4 = 4
  OBVIOUS
<1>7. QED
  BY <1>2, <1>4, <1>5, <1>6 DEF h, m

\* However large it says it is, a structure is as long as it is.
LEMMA StructureLength ==
    ASSUME NEW type, NEW size, NEW body \in Cells
    PROVE  Len(Structure(type, size, body)) = 8 + Len(body)
<1> DEFINE h == Int4(size)
           m == Memory(type, 4)
           S == Cell \cup {h[i] : i \in 1..4} \cup {m[i] : i \in 1..4}
           u == h \o m
           d == u \o body
<1>1. Structure(type, size, body) = d
  BY DEF Structure, SizeInt
<1>2. h = [i \in 1..4 |-> h[i]] /\ m = [i \in 1..4 |-> m[i]]
  BY DEF Int4, Memory, SizeInt
<1>3. \A i \in 1..4 : h[i] \in S /\ m[i] \in S
  OBVIOUS
<1>4. Cell \subseteq S
  OBVIOUS
<1> HIDE DEF h, m, S
<1>5. 4 \in Nat
  OBVIOUS
<1>6. h \in Seq(S) /\ Len(h) = 4
  BY <1>2, <1>3, <1>5, LengthOf
<1>7. m \in Seq(S) /\ Len(m) = 4
  BY <1>2, <1>3, <1>5, LengthOf
<1>8. body \in Seq(S) /\ Len(body) \in Nat
  <2>1. body \in Seq(Cell)
    BY DEF Cells
  <2>2. QED
    BY <1>4, <2>1
<1>9. u \in Seq(S) /\ Len(u) = Len(h) + Len(m)
  BY <1>6, <1>7, ConcatProperties
<1> HIDE DEF u
<1>10. Len(d) = Len(u) + Len(body)
  BY <1>8, <1>9, ConcatProperties
<1> HIDE DEF d
<1>11. QED
  BY <1>1, <1>6, <1>7, <1>8, <1>9, <1>10

\* The head of a structure that lies in d says its size and its type.
LEMMA StructureLies ==
    ASSUME NEW d \in Cells, NEW o, NEW type \in Int, NEW size \in Nat, size <= MaxInt,
           NEW body \in Cells, Lies(d, o, Structure(type, size, body))
    PROVE  /\ o \in Nat
           /\ IntAt(d, o) = size
           /\ ThingAt(d, o + SizeInt, SizeInt) = type
           /\ Lies(d, o + 8, body)
<1> DEFINE s == Structure(type, size, body)
<1>1. /\ s \in Cells /\ Lies(s, 0, Int4(size)) /\ Lies(s, 4, Memory(type, 4))
      /\ Lies(s, 8, body)
  BY StructureIs
<1>2. Int4(size) \in Cells /\ Memory(type, 4) \in Cells
  BY Int4Type, MemoryIs
<1>3. Lies(d, o, s)
  OBVIOUS
<1> HIDE DEF s
<1>4. /\ Lies(d, o + 0, Int4(size)) /\ Lies(d, o + 4, Memory(type, 4))
      /\ Lies(d, o + 8, body)
  BY <1>1, <1>2, <1>3, LiesWithin
<1>5. o \in Nat /\ o + 0 = o
  BY <1>3 DEF Lies
<1>6. Lies(d, o, Int4(size))
  BY <1>4, <1>5
<1>7. IntAt(d, o) = size
  BY <1>6, IntLies
<1>8. ThingAt(d, o + 4, 4) = type
  BY <1>4, ThingLies
<1>9. QED
  BY <1>4, <1>5, <1>7, <1>8 DEF SizeInt

\* The first k of some pieces, put together.
LEMMA InARowCells ==
    ASSUME NEW pieces \in Seq(Cells), NEW f, InARow(f, pieces, Len(pieces))
    PROVE  \A k \in 1..Len(pieces) : f[k] \in Cells
<1> DEFINE G == {k \in 1..Len(pieces) : f[k] \notin Cells}
<1>1. SUFFICES ASSUME G # {} PROVE FALSE
  OBVIOUS
<1>2. PICK k \in G : \A m \in G : k <= m
  <2> HIDE DEF G
  <2>1. G \in SUBSET Nat
    BY DEF G
  <2>2. QED
    BY <1>1, <2>1, Smallest
<1>3. Len(pieces) \in Nat /\ k \in 1..Len(pieces) /\ pieces[k] \in Cells
  BY <1>2, ElementOfSeq
<1>4. f[k] = IF k = 1 THEN pieces[k] ELSE f[k - 1] \o pieces[k]
  BY <1>3 DEF InARow
<1>5. CASE k = 1
  BY <1>2, <1>3, <1>4, <1>5
<1>6. CASE k # 1
  <2>1. k - 1 \in 1..Len(pieces) /\ k - 1 \notin G
    BY <1>2, <1>3, <1>6
  <2>2. f[k - 1] \in Cells
    BY <2>1
  <2>3. f[k - 1] \o pieces[k] \in Cells
    BY <1>3, <2>2, ConcatCells
  <2>4. QED
    BY <1>2, <1>4, <1>6, <2>3
<1>7. QED
  BY <1>5, <1>6

\* Earlier pieces stay where they are.
LEMMA InARowKeeps ==
    ASSUME NEW pieces \in Seq(Cells), NEW f, InARow(f, pieces, Len(pieces)),
           NEW j \in 1..Len(pieces)
    PROVE  \A k \in j..Len(pieces) : Lies(f[k], 0, f[j])
<1> DEFINE G == {k \in j..Len(pieces) : ~ Lies(f[k], 0, f[j])}
<1>1. SUFFICES ASSUME G # {} PROVE FALSE
  OBVIOUS
<1>2. PICK k \in G : \A m \in G : k <= m
  <2> HIDE DEF G
  <2>1. G \in SUBSET Nat
    BY DEF G
  <2>2. QED
    BY <1>1, <2>1, Smallest
<1>3. Len(pieces) \in Nat /\ k \in j..Len(pieces) /\ k \in 1..Len(pieces)
  BY <1>2
<1>4. /\ pieces[k] \in Cells /\ f[k] \in Cells /\ f[j] \in Cells
  BY <1>3, ElementOfSeq, InARowCells
<1>5. CASE k = j
  <2>1. Lies(f[k], 0, f[j])
    BY <1>4, <1>5, LiesWhole
  <2>2. QED
    BY <1>2, <2>1
<1>6. CASE k # j
  <2>1. /\ k - 1 \in j..Len(pieces) /\ k - 1 \in 1..Len(pieces) /\ k - 1 \notin G
        /\ k # 1
    BY <1>2, <1>3, <1>6
  <2>2. Lies(f[k - 1], 0, f[j])
    BY <2>1
  <2>3. f[k - 1] \in Cells
    BY <2>1, InARowCells
  <2>4. f[k] = f[k - 1] \o pieces[k]
    BY <1>3, <2>1 DEF InARow
  <2>5. Lies(f[k], 0, f[k - 1])
    BY <1>4, <2>3, <2>4, ConcatCells
  <2>6. Lies(f[k], 0 + 0, f[j])
    BY <1>4, <2>2, <2>3, <2>5, LiesWithin
  <2>7. QED
    BY <1>2, <2>6
<1>7. QED
  BY <1>5, <1>6

\* Where each piece begins.
PlacesOf(at, pieces) ==
    /\ at \in [0..Len(pieces) -> Nat]
    /\ at[0] = 0
    /\ \A k \in 1..Len(pieces) : at[k] = at[k - 1] + Len(pieces[k])

\* The pieces of a list lie where those before them end.
LEMMA FlattenLies ==
    ASSUME NEW pieces \in Seq(Cells)
    PROVE  /\ FlattenSeq(pieces) \in Cells
           /\ \E at : /\ PlacesOf(at, pieces)
                      /\ Len(FlattenSeq(pieces)) = at[Len(pieces)]
                      /\ \A k \in 1..Len(pieces) :
                             Lies(FlattenSeq(pieces), at[k - 1], pieces[k])
<1> DEFINE n == Len(pieces)
<1>1. n \in Nat
  OBVIOUS
<1>2. CASE n = 0
  <2>1. pieces = <<>> /\ FlattenSeq(pieces) = <<>>
    BY <1>2, EmptySeq DEF FlattenSeq
  <2>2. <<>> \in Cells /\ Len(<<>>) = 0
    BY EmptySeq DEF Cells
  <2> DEFINE at == [k \in 0..n |-> 0]
  <2>3. at \in [0..n -> Nat] /\ at[0] = 0 /\ at[n] = 0
    BY <1>2
  <2>4. \A k \in 1..n : FALSE
    BY <1>2
  <2> HIDE DEF at
  <2>5. PlacesOf(at, pieces)
    BY <2>3, <2>4 DEF PlacesOf
  <2>6. QED
    BY <2>1, <2>2, <2>3, <2>4, <2>5
<1>3. CASE n # 0
  <2>1. PICK f : InARow(f, pieces, n) /\ FlattenSeq(pieces) = f[n]
    BY <1>1, <1>3, FlattenIs
  <2> DEFINE at == [k \in 0..n |-> IF k = 0 THEN 0 ELSE Len(f[k])]
  <2>2. \A k \in 1..n : f[k] \in Cells /\ Len(f[k]) \in Nat /\ pieces[k] \in Cells
    BY <2>1, InARowCells, CellsLen, ElementOfSeq
  <2>3. at \in [0..n -> Nat] /\ at[0] = 0 /\ \A k \in 1..n : at[k] = Len(f[k])
    BY <1>1, <2>2
  <2> HIDE DEF at
  <2>4. \A k \in 1..n : /\ at[k] = at[k - 1] + Len(pieces[k])
                        /\ Lies(f[k], at[k - 1], pieces[k])
    <3>1. TAKE k \in 1..n
    <3>2. f[k] = IF k = 1 THEN pieces[k] ELSE f[k - 1] \o pieces[k]
      BY <2>1 DEF InARow
    <3>3. CASE k = 1
      <4>1. at[k - 1] = 0 /\ f[k] = pieces[k] /\ Len(pieces[k]) \in Nat
        BY <2>2, <2>3, <3>2, <3>3
      <4>2. Lies(f[k], 0, pieces[k])
        BY <2>2, <4>1, LiesWhole
      <4>3. QED
        BY <2>3, <4>1, <4>2
    <3>4. CASE k # 1
      <4>1. k - 1 \in 1..n
        BY <1>1, <3>4
      <4>2. f[k - 1] \in Cells /\ at[k - 1] = Len(f[k - 1]) /\ f[k] = f[k - 1] \o pieces[k]
        BY <2>2, <2>3, <3>2, <3>4, <4>1
      <4>3. Len(f[k]) = Len(f[k - 1]) + Len(pieces[k]) /\ Lies(f[k], Len(f[k - 1]), pieces[k])
        BY <2>2, <4>2, ConcatCells
      <4>4. QED
        BY <2>3, <4>2, <4>3
    <3>5. QED
      BY <3>3, <3>4
  <2>5. PlacesOf(at, pieces)
    BY <2>3, <2>4 DEF PlacesOf
  <2>6. n \in 1..n
    BY <1>1, <1>3
  <2>7. \A k \in 1..n : Lies(f[n], at[k - 1], pieces[k])
    <3>1. TAKE k \in 1..n
    <3>2. Lies(f[n], 0, f[k])
      <4>1. n \in k..n
        BY <1>1
      <4>2. QED
        BY <2>1, <4>1, InARowKeeps
    <3>3. Lies(f[n], 0 + at[k - 1], pieces[k])
      BY <2>2, <2>4, <2>6, <3>2, LiesWithin
    <3>4. at[k - 1] \in Nat
      BY <2>4 DEF Lies
    <3>5. 0 + at[k - 1] = at[k - 1]
      BY <3>4
    <3>6. QED
      BY <3>3, <3>5
  <2>8. f[n] \in Cells /\ Len(f[n]) = at[n]
    BY <2>2, <2>3, <2>6
  <2>9. QED
    BY <2>1, <2>5, <2>7, <2>8
<1>4. QED
  BY <1>2, <1>3

\* What begins with its own size.
Sized(d) == d \in Cells /\ Len(d) <= MaxInt /\ Lies(d, 0, Int4(Len(d)))

\* Such a structure is as long as its DataSize says.
LEMMA SizedSays ==
    ASSUME NEW d, Sized(d)
    PROVE  DataSize(d) = Len(d)
<1>1. d \in Cells /\ Len(d) \in Nat /\ Len(d) <= MaxInt /\ Lies(d, 0, Int4(Len(d)))
  BY CellsLen DEF Sized
<1>2. QED
  BY <1>1, IntLies DEF DataSize

\* The sum of the sizes is what the pieces have together.
LEMMA SumIs ==
    ASSUME NEW pieces \in Seq(Cells), \A k \in 1..Len(pieces) : Sized(pieces[k])
    PROVE  SumOfSizes(pieces) = Len(FlattenSeq(pieces))
<1> DEFINE n == Len(pieces)
           Solves(f) == f = [k \in 0..n |-> IF k = 0 THEN 0
                                            ELSE f[k - 1] + DataSize(pieces[k])]
<1>1. n \in Nat
  OBVIOUS
<1>2. PICK at : PlacesOf(at, pieces) /\ Len(FlattenSeq(pieces)) = at[n]
  BY FlattenLies
<1>3. SumOfSizes(pieces) = (CHOOSE f : Solves(f))[n]
  BY DEF SumOfSizes
<1>4. \A k \in 1..n : at[k] = at[k - 1] + DataSize(pieces[k])
  BY <1>2, SizedSays DEF PlacesOf
<1>5. Solves(at)
  <2>1. at = [k \in 0..n |-> at[k]] /\ at[0] = 0
    BY <1>2 DEF PlacesOf
  <2>2. \A k \in 0..n : at[k] = IF k = 0 THEN 0 ELSE at[k - 1] + DataSize(pieces[k])
    <3>1. TAKE k \in 0..n
    <3>2. k = 0 \/ k \in 1..n
      BY <1>1
    <3>3. QED
      BY <1>4, <2>1, <3>2
  <2>3. QED
    BY <2>1, <2>2, Zenon
<1>6. PICK f : f = (CHOOSE g : Solves(g))
  OBVIOUS
<1>7. Solves(f)
  <2> HIDE DEF Solves
  <2>1. QED
    BY <1>5, <1>6, Zenon
<1>8. \A k \in 0..n : f[k] = IF k = 0 THEN 0 ELSE f[k - 1] + DataSize(pieces[k])
  BY <1>7
<1> DEFINE G == {k \in 0..n : f[k] # at[k]}
<1>9. G = {}
  <2>1. SUFFICES ASSUME G # {} PROVE FALSE
    OBVIOUS
  <2>2. PICK k \in G : \A m \in G : k <= m
    <3> HIDE DEF G
    <3>1. G \in SUBSET Nat
      BY DEF G
    <3>2. QED
      BY <2>1, <3>1, Smallest
  <2>3. k \in 0..n /\ f[k] # at[k]
    BY <2>2
  <2>4. k # 0
    <3>1. f[0] = 0 /\ at[0] = 0
      BY <1>1, <1>2, <1>8 DEF PlacesOf
    <3>2. QED
      BY <2>3, <3>1
  <2>5. k \in 1..n /\ k - 1 \in 0..n /\ k - 1 \notin G
    BY <1>1, <2>2, <2>3, <2>4
  <2>6. f[k - 1] = at[k - 1]
    BY <2>5
  <2> HIDE DEF G
  <2>7. QED
    BY <1>4, <1>8, <2>3, <2>4, <2>5, <2>6
<1>10. n \in 0..n
  BY <1>1
<1>11. f[n] = at[n]
  BY <1>9, <1>10
<1>12. QED
  BY <1>2, <1>3, <1>6, <1>11

\* Each element of a list is found where those before it end.
LEMMA ElementLies ==
    ASSUME NEW d \in Cells, NEW o \in Nat, NEW pieces \in Seq(Cells),
           \A k \in 1..Len(pieces) : Sized(pieces[k]),
           Lies(d, o + 12, FlattenSeq(pieces)), NEW i \in 1..Len(pieces)
    PROVE  Lies(d, ElementOffset(d, o, i), pieces[i])
<1> DEFINE n == Len(pieces)
<1>1. n \in Nat /\ i \in 1..n
  OBVIOUS
<1>2. PICK at : /\ PlacesOf(at, pieces)
                /\ \A k \in 1..n : Lies(FlattenSeq(pieces), at[k - 1], pieces[k])
  BY FlattenLies
<1>3. FlattenSeq(pieces) \in Cells /\ \A k \in 1..n : pieces[k] \in Cells
  BY FlattenLies, ElementOfSeq
<1>4. \A k \in 1..n : Lies(d, o + 12 + at[k - 1], pieces[k])
  BY <1>2, <1>3, LiesWithin
<1>5. \A k \in 1..n : IntAt(d, o + 12 + at[k - 1]) = Len(pieces[k])
  <2>1. TAKE k \in 1..n
  <2> DEFINE s == Len(pieces[k])
  <2>2. s \in Nat /\ s <= MaxInt /\ Lies(pieces[k], 0, Int4(s)) /\ Int4(s) \in Cells
    <3>1. s \in Nat /\ s <= MaxInt /\ Lies(pieces[k], 0, Int4(s))
      BY <1>3, CellsLen DEF Sized
    <3> HIDE DEF s
    <3>2. QED
      BY <3>1, Int4Type
  <2> HIDE DEF s
  <2>3. Lies(d, o + 12 + at[k - 1] + 0, Int4(s))
    BY <1>3, <1>4, <2>2, LiesWithin
  <2>4. o + 12 + at[k - 1] + 0 = o + 12 + at[k - 1]
    <3>1. o + 12 + at[k - 1] \in Nat
      BY <1>4 DEF Lies
    <3>2. QED
      BY <3>1
  <2>5. IntAt(d, o + 12 + at[k - 1]) = s
    BY <2>2, <2>3, <2>4, IntLies
  <2>6. QED
    BY <2>5 DEF s
<1> DEFINE Solves(f) == f = [k \in 1..i |->
                               IF k = 1 THEN o + SizeHead + SizeInt
                               ELSE f[k - 1] + IntAt(d, f[k - 1])]
           F == [k \in 1..i |-> o + 12 + at[k - 1]]
<1>6. ElementOffset(d, o, i) = (CHOOSE f : Solves(f))[i]
  BY DEF ElementOffset
<1>7. \A k \in 1..i : F[k] = o + 12 + at[k - 1]
  OBVIOUS
<1>8. at[0] = 0 /\ \A k \in 0..n : at[k] \in Nat
  BY <1>2 DEF PlacesOf
<1>9. \A k \in 1..i : k # 1 => k - 1 \in 1..i /\ k - 1 \in 1..n /\ k - 1 - 1 \in 0..n
  BY <1>1
<1>10. \A k \in 1..i : F[k] = IF k = 1 THEN o + SizeHead + SizeInt
                              ELSE F[k - 1] + IntAt(d, F[k - 1])
  <2>1. TAKE k \in 1..i
  <2> HIDE DEF F
  <2>2. CASE k = 1
    <3>1. F[k] = o + 12 + at[0] /\ o + SizeHead + SizeInt = o + 12
      BY <1>7, <2>2 DEF SizeHead, SizeInt
    <3>2. QED
      BY <1>8, <2>2, <3>1
  <2>3. CASE k # 1
    <3>1. k - 1 \in 1..i /\ k - 1 \in 1..n /\ k - 1 - 1 \in 0..n
      BY <1>9, <2>3
    <3>2. F[k - 1] = o + 12 + at[k - 1 - 1]
      BY <1>7, <3>1
    <3>3. IntAt(d, F[k - 1]) = Len(pieces[k - 1])
      BY <1>5, <3>1, <3>2
    <3>4. at[k - 1] = at[k - 1 - 1] + Len(pieces[k - 1])
      BY <1>2, <3>1 DEF PlacesOf
    <3>5. at[k - 1 - 1] \in Nat /\ Len(pieces[k - 1]) \in Nat
      BY <1>3, <1>8, <3>1, CellsLen
    <3>6. F[k] = F[k - 1] + Len(pieces[k - 1])
      BY <1>7, <3>2, <3>4, <3>5
    <3>7. QED
      BY <2>3, <3>3, <3>6
  <2>4. QED
    BY <2>2, <2>3
<1>11. Solves(F)
  <2>1. F = [k \in 1..i |-> F[k]]
    OBVIOUS
  <2> HIDE DEF F
  <2>2. QED
    BY <1>10, <2>1, Zenon
<1>12. PICK f : f = (CHOOSE g : Solves(g))
  OBVIOUS
<1>13. Solves(f)
  <2> HIDE DEF Solves
  <2>1. QED
    BY <1>11, <1>12, Zenon
<1>14. \A k \in 1..i : f[k] = IF k = 1 THEN o + SizeHead + SizeInt
                              ELSE f[k - 1] + IntAt(d, f[k - 1])
  BY <1>13
<1> HIDE DEF F, Solves
<1> DEFINE G == {k \in 1..i : f[k] # F[k]}
<1>15. G = {}
  <2>1. SUFFICES ASSUME G # {} PROVE FALSE
    OBVIOUS
  <2>2. PICK k \in G : \A m \in G : k <= m
    <3> HIDE DEF G
    <3>1. G \in SUBSET Nat
      BY DEF G
    <3>2. QED
      BY <2>1, <3>1, Smallest
  <2>3. k \in 1..i /\ f[k] # F[k]
    BY <2>2
  <2>4. k # 1
    BY <1>10, <1>14, <2>3
  <2>5. k - 1 \in 1..i /\ k - 1 \notin G
    BY <1>1, <2>2, <2>3, <2>4
  <2>6. f[k - 1] = F[k - 1]
    BY <2>5
  <2> HIDE DEF G
  <2>7. QED
    BY <1>10, <1>14, <2>3, <2>4, <2>6
<1>16. i \in 1..i
  BY <1>1
<1>17. f[i] = o + 12 + at[i - 1]
  BY <1>7, <1>15, <1>16
<1>18. ElementOffset(d, o, i) = o + 12 + at[i - 1]
  BY <1>6, <1>12, <1>17
<1>19. QED
  BY <1>4, <1>18

-----------------------------------------------------------------------------
(* The structures of DataType.h *)

\* The sizes of the packed structures.
LEMMA SizesAre ==
    /\ SizeInt = 4 /\ SizeHead = 8 /\ SizeUser = 44 /\ SizeGroup = 48 /\ SizeMsg = 29
  BY DEF SizeInt, SizeHead, SizeUser, SizeGroup, SizeMsg

\* A structure whose size is what it has.
LEMMA StructureSized ==
    ASSUME NEW type \in Int, NEW size \in Nat, size <= MaxInt, NEW body \in Cells,
           size = 8 + Len(body)
    PROVE  Sized(Structure(type, size, body))
<1> DEFINE s == Structure(type, size, body)
<1>1. s \in Cells /\ Len(s) = size /\ Lies(s, 0, Int4(size))
  BY StructureIs
<1> HIDE DEF s
<1>2. Sized(s)
  BY <1>1 DEF Sized
<1>3. QED
  BY <1>2 DEF s

\* The DataType of a package is the one it was written with.
LEMMA StructureType ==
    ASSUME NEW type \in Int, NEW size \in Nat, NEW body \in Cells
    PROVE  DataType(Structure(type, size, body)) = type
<1> DEFINE s == Structure(type, size, body)
<1>1. s \in Cells /\ Lies(s, 4, Memory(type, 4))
  BY StructureIs
<1> HIDE DEF s
<1>2. DataType(s) = type
  BY <1>1, ThingLies DEF DataType, SizeInt
<1>3. QED
  BY <1>2 DEF s

\* Users are all of one size, so the i-th begins at a multiple of it.
LEMMA PackedIs ==
    ASSUME NEW users \in Seq(Int)
    PROVE  /\ Packed(users, 44) \in Cells /\ Len(Packed(users, 44)) = 44 * Len(users)
           /\ \A i \in 1..Len(users), j \in 1..44 :
                  Packed(users, 44)[(i - 1) * 44 + j] = <<users[i], j>>
<1> DEFINE n == 44 * Len(users)
           w == Packed(users, 44)
<1>1. Len(users) \in Nat /\ n \in Nat /\ \A i \in 1..Len(users) : users[i] \in Int
  BY ElementOfSeq
<1>2. w = [k \in 1..n |-> <<users[((k - 1) \div 44) + 1], ((k - 1) % 44) + 1>>]
  BY DEF Packed
<1>3. \A k \in 1..n : w[k] \in Cell
  <2>1. TAKE k \in 1..n
  <2>2. ((k - 1) \div 44) + 1 \in 1..Len(users) /\ ((k - 1) % 44) + 1 \in Nat
    BY <1>1
  <2>3. users[((k - 1) \div 44) + 1] \in Int
    BY <1>1, <2>2
  <2>4. w[k] = <<users[((k - 1) \div 44) + 1], ((k - 1) % 44) + 1>>
    BY <1>2
  <2> HIDE DEF w
  <2>5. QED
    BY <2>2, <2>3, <2>4 DEF Cell
<1>4. w = [k \in 1..n |-> w[k]]
  BY <1>2
<1>5. \A i \in 1..Len(users), j \in 1..44 : w[(i - 1) * 44 + j] = <<users[i], j>>
  <2>1. TAKE i \in 1..Len(users), j \in 1..44
  <2> DEFINE k == (i - 1) * 44 + j
  <2>2. k \in 1..n /\ (k - 1) \div 44 = i - 1 /\ (k - 1) % 44 = j - 1
    BY <1>1
  <2>3. w[k] = <<users[((k - 1) \div 44) + 1], ((k - 1) % 44) + 1>>
    BY <1>2, <2>2
  <2>4. i - 1 + 1 = i /\ j - 1 + 1 = j
    BY <1>1
  <2> HIDE DEF k, w
  <2>5. w[k] = <<users[i], j>>
    BY <2>2, <2>3, <2>4
  <2>6. QED
    BY <2>5 DEF k
<1> HIDE DEF w, n
<1>6. w \in Cells /\ Len(w) = n
  BY <1>1, <1>3, <1>4, CellsOf
<1>7. QED
  BY <1>5, <1>6 DEF w, n

\* What UnSerialize makes of a count: nothing, if it is negative.
LEMMA ListLength ==
    ASSUME NEW count \in Int, NEW got, got = [i \in 1..count |-> got[i]]
    PROVE  Len(got) = IF count >= 0 THEN count ELSE 0
<1> DEFINE n == IF count >= 0 THEN count ELSE 0
<1>1. n \in Nat
  OBVIOUS
<1>2. got = [i \in 1..n |-> got[i]]
  <2>1. 1..count = 1..n
    OBVIOUS
  <2>2. QED
    BY <2>1
<1> HIDE DEF n
<1> DEFINE S == {got[i] : i \in 1..n}
<1>3. \A i \in 1..n : got[i] \in S
  OBVIOUS
<1> HIDE DEF S
<1>4. Len(got) = n
  BY <1>1, <1>2, <1>3, LengthOf
<1>5. QED
  BY <1>4 DEF n

-----------------------------------------------------------------------------
(* S2CUserList *)

\* A list of users takes 44 bytes for each, whatever its DataSize says.
LEMMA UserListType ==
    ASSUME NEW users \in Seq(Int)
    PROVE  /\ SerializeUserList(users) \in Cells
           /\ Len(SerializeUserList(users)) = 12 + 44 * Len(users)
           /\ DataSize(SerializeUserList(users)) \in Nat
<1> DEFINE n == Len(users)
           c == Int4(n)
           p == Packed(users, 44)
           body == c \o p
           size == 12 + 44 * n
           s == Structure(EDataType_S2CUserList, size, body)
<1>1. n \in Nat /\ size \in Nat /\ EDataType_S2CUserList \in Int
  BY DEF EDataType_S2CUserList
<1>2. SerializeUserList(users) = s
  <2>1. SizeHead + SizeInt + SizeUser * n = size
    BY <1>1, SizesAre
  <2>2. QED
    BY <2>1, SizesAre DEF SerializeUserList
<1>3. c \in Cells /\ Len(c) = 4
  BY <1>1, Int4Type
<1>4. p \in Cells /\ Len(p) = 44 * n
  BY PackedIs
<1> HIDE DEF c, p
<1>5. body \in Cells /\ Len(body) = Len(c) + Len(p)
  BY <1>3, <1>4, ConcatCells
<1> HIDE DEF body
<1>6. 8 + Len(body) = size
  BY <1>1, <1>3, <1>4, <1>5
<1> HIDE DEF size
<1>7. s \in Cells /\ Len(s) = 8 + Len(body) /\ Lies(s, 0, Int4(size))
  BY <1>1, <1>5, StructureIs
<1> HIDE DEF s
<1>8. DataSize(s) \in Nat
  BY <1>1, <1>7, IntLiesType DEF DataSize
<1>9. QED
  BY <1>2, <1>6, <1>7, <1>8 DEF size

\* A list of users is as long as its DataSize says, if that fits an int.
LEMMA UserListIs ==
    ASSUME NEW users \in Seq(Int), 12 + 44 * Len(users) <= MaxInt
    PROVE  LET body == Int4(Len(users)) \o Packed(users, 44) IN
           /\ SerializeUserList(users)
                = Structure(EDataType_S2CUserList, 12 + 44 * Len(users), body)
           /\ body \in Cells /\ Len(body) = 4 + 44 * Len(users)
           /\ Lies(body, 0, Int4(Len(users))) /\ Lies(body, 4, Packed(users, 44))
           /\ Sized(SerializeUserList(users))
           /\ Len(SerializeUserList(users)) = 12 + 44 * Len(users)
<1> DEFINE n == Len(users)
           c == Int4(n)
           p == Packed(users, 44)
           body == c \o p
           size == 12 + 44 * n
<1>1. n \in Nat /\ size \in Nat /\ EDataType_S2CUserList \in Int
  BY DEF EDataType_S2CUserList
<1>2. SerializeUserList(users) = Structure(EDataType_S2CUserList, size, body)
  <2>1. SizeHead + SizeInt + SizeUser * n = size
    BY <1>1, SizesAre
  <2>2. SerializeUserList(users)
          = Structure(EDataType_S2CUserList, SizeHead + SizeInt + SizeUser * n,
                      Int4(n) \o Packed(users, SizeUser))
    BY DEF SerializeUserList
  <2>3. QED
    BY <2>1, <2>2, SizesAre
<1>3. c \in Cells /\ Len(c) = 4
  BY <1>1, Int4Type
<1>4. p \in Cells /\ Len(p) = 44 * n
  BY PackedIs
<1> HIDE DEF c, p
<1>5. /\ body \in Cells /\ Len(body) = Len(c) + Len(p)
      /\ Lies(body, 0, c) /\ Lies(body, Len(c), p)
  BY <1>3, <1>4, ConcatCells
<1> HIDE DEF body
<1>6. Len(body) = 4 + 44 * n /\ Lies(body, 4, p) /\ size = 8 + Len(body)
  BY <1>1, <1>3, <1>4, <1>5
<1>7. size <= MaxInt
  OBVIOUS
<1> HIDE DEF size
<1> DEFINE s == Structure(EDataType_S2CUserList, size, body)
<1>8. Sized(s)
  BY <1>1, <1>5, <1>6, <1>7, StructureSized
<1>9. Len(s) = 8 + Len(body)
  BY <1>1, <1>5, StructureIs
<1> HIDE DEF s
<1>10. SerializeUserList(users) = s
  BY <1>2 DEF s
<1>11. Sized(SerializeUserList(users)) /\ Len(SerializeUserList(users)) = size
  BY <1>6, <1>8, <1>9, <1>10
<1>12. QED
  BY <1>2, <1>5, <1>6, <1>11 DEF body, c, p, size

\* Wherever a list of users lies, it is read as it was written: also inside
\* a group, inside a list of groups.
LEMMA UserListLies ==
    ASSUME NEW d \in Cells, NEW o, NEW users \in Seq(Int),
           12 + 44 * Len(users) <= MaxInt, Lies(d, o, SerializeUserList(users))
    PROVE  ListArrives(UnSerializeUserList(d, o), users, SameUser)
<1> DEFINE n == Len(users)
           c == Int4(n)
           p == Packed(users, 44)
           body == c \o p
           count == CharAt(d, o + 8)
           got == UnSerializeUserList(d, o)
<1>1. /\ SerializeUserList(users) = Structure(EDataType_S2CUserList, 12 + 44 * n, body)
      /\ body \in Cells /\ Lies(body, 0, c) /\ Lies(body, 4, p)
  BY UserListIs
<1>2. /\ n \in Nat /\ 12 + 44 * n \in Nat /\ EDataType_S2CUserList \in Int
      /\ c \in Cells
  BY Int4Type DEF EDataType_S2CUserList
<1>3. p \in Cells /\ Len(p) = 44 * n
  BY PackedIs
<1>14. \A i \in 1..n, j \in 1..44 : p[(i - 1) * 44 + j] = <<users[i], j>>
  BY PackedIs
<1> HIDE DEF body, c, p
<1>4. o \in Nat /\ Lies(d, o + 8, body)
  BY <1>1, <1>2, StructureLies
<1>5. Lies(d, o + 8 + 0, c) /\ Lies(d, o + 8 + 4, p)
  BY <1>1, <1>2, <1>3, <1>4, LiesWithin
<1>6. o + 8 + 0 = o + 8 /\ o + 8 + 4 = o + 12
  BY <1>4
<1>7. count \in Int /\ count <= n /\ (n <= MaxCount => count = n)
  <2>1. Lies(d, o + 8, Int4(n))
    BY <1>5, <1>6 DEF c
  <2>2. QED
    BY <1>2, <2>1, CharLies
<1>8. got = [i \in 1..count |-> ThingAt(d, o + 8 + 4 + (i - 1) * 44, 44)]
  BY SizesAre DEF UnSerializeUserList
<1> HIDE DEF count, got
<1>9. \A i \in 1..count : got[i] = users[i]
  <2>1. TAKE i \in 1..count
  <2> DEFINE q == o + 8 + 4 + (i - 1) * 44
  <2>2. i \in 1..n /\ users[i] \in Int
    BY <1>2, <1>7, ElementOfSeq
  <2>3. Len(d) \in Nat /\ o + 12 + 44 * n <= Len(d)
    BY <1>3, <1>5, <1>6, CellsLen DEF Lies
  <2>4. q \in Nat /\ q + 44 <= Len(d)
    BY <1>2, <1>4, <2>2, <2>3
  <2>5. \A j \in 1..44 : d[q + j] = <<users[i], j>>
    <3>1. TAKE j \in 1..44
    <3>2. (i - 1) * 44 + j \in 1..Len(p) /\ o + 12 + ((i - 1) * 44 + j) = q + j
      <4> DEFINE m == (i - 1) * 44
      <4>1. i \in Int /\ 1 <= i /\ i <= n /\ m \in Int /\ 0 <= m /\ m + 44 <= 44 * n
        BY <1>2, <2>2
      <4>2. q = o + 8 + 4 + m
        OBVIOUS
      <4> HIDE DEF m, q
      <4>3. m + j \in 1..Len(p) /\ o + 12 + (m + j) = q + j
        BY <1>2, <1>3, <1>4, <4>1, <4>2
      <4>4. QED
        BY <4>3 DEF m
    <3>3. d[o + 12 + ((i - 1) * 44 + j)] = p[(i - 1) * 44 + j]
      BY <1>5, <1>6, <3>2 DEF Lies
    <3>4. p[(i - 1) * 44 + j] = <<users[i], j>>
      BY <1>14, <2>2
    <3>5. QED
      BY <3>2, <3>3, <3>4
  <2> HIDE DEF q
  <2>6. ThingAt(d, q, 44) = users[i]
    <3> DEFINE m == 44
    <3>1. m \in Nat \ {0} /\ q + m <= Len(d)
      BY <2>4
    <3>3. \A j \in 1..m : d[q + j] = <<users[i], j>>
      BY <2>5, Zenon
    <3> HIDE DEF m
    <3>2. ThingAt(d, q, m) = users[i]
      BY <2>2, <2>4, <3>1, <3>3, ThingThere
    <3>4. QED
      BY <3>2 DEF m
  <2>7. got[i] = ThingAt(d, q, 44)
    BY <1>8 DEF q
  <2>8. QED
    BY <2>6, <2>7
<1>10. Len(got) = IF count >= 0 THEN count ELSE 0
  <2>1. got = [i \in 1..count |-> got[i]]
    BY <1>8
  <2>2. QED
    BY <1>7, <2>1, ListLength
<1>11. \A i \in 1..Len(got) : got[i] = users[i]
  BY <1>7, <1>9, <1>10
<1>12. Len(got) <= n /\ (n <= MaxCount => Len(got) = n)
  BY <1>2, <1>7, <1>10
<1>13. ListArrives(got, users, SameUser)
  BY <1>11, <1>12 DEF ListArrives, SameUser
<1>15. QED
  BY <1>13 DEF got

-----------------------------------------------------------------------------
(* S2CGroup *)

Group == [group : Int, users : Seq(Int)]

\* What a group takes up.
GroupSize(g) == 60 + 44 * Len(g.users)

\* The length of a group.
LEMMA GroupType ==
    ASSUME NEW g \in Group
    PROVE  /\ SerializeGroup(g) \in Cells /\ GroupSize(g) \in Nat
           /\ Len(SerializeGroup(g)) = GroupSize(g)
<1> DEFINE users == g.users
           n == Len(users)
           m == Memory(g.group, 40)
           l == SerializeUserList(users)
           body == m \o l
           s == Structure(EDataType_S2CGroup, 48 + DataSize(l), body)
<1>1. g.group \in Int /\ users \in Seq(Int)
  BY DEF Group
<1>2. n \in Nat /\ GroupSize(g) = 60 + 44 * n
  BY <1>1 DEF GroupSize
<1>3. m \in Cells /\ Len(m) = 40
  BY <1>1, MemoryIs
<1>4. l \in Cells /\ Len(l) = 12 + 44 * n /\ DataSize(l) \in Nat
  BY <1>1, UserListType
<1>5. SerializeGroup(g) = s
  <2>1. 48 - 8 = 40
    OBVIOUS
  <2>2. QED
    BY <2>1, SizesAre DEF SerializeGroup
<1> HIDE DEF m, l
<1>6. body \in Cells /\ Len(body) = Len(m) + Len(l)
  BY <1>3, <1>4, ConcatCells
<1> HIDE DEF body
<1>7. EDataType_S2CGroup \in Int /\ 48 + DataSize(l) \in Nat
  BY <1>4 DEF EDataType_S2CGroup
<1>8. s \in Cells /\ Len(s) = 8 + Len(body)
  BY <1>6, <1>7, StructureIs
<1> HIDE DEF s
<1>9. QED
  BY <1>2, <1>3, <1>4, <1>5, <1>6, <1>8

\* A group has the size that it sums up, and its users lie behind its memory.
LEMMA GroupIs ==
    ASSUME NEW g \in Group, GroupSize(g) <= MaxInt
    PROVE  LET body == Memory(g.group, 40) \o SerializeUserList(g.users) IN
           /\ SerializeGroup(g) = Structure(EDataType_S2CGroup, GroupSize(g), body)
           /\ body \in Cells
           /\ Lies(body, 0, Memory(g.group, 40))
           /\ Lies(body, 40, SerializeUserList(g.users))
           /\ Sized(SerializeGroup(g))
<1> DEFINE users == g.users
           n == Len(users)
           m == Memory(g.group, 40)
           l == SerializeUserList(users)
           body == m \o l
           size == GroupSize(g)
<1>1. g.group \in Int /\ users \in Seq(Int)
  BY DEF Group
<1>2. n \in Nat /\ size = 60 + 44 * n /\ size <= MaxInt
  BY <1>1 DEF GroupSize
<1>3. m \in Cells /\ Len(m) = 40
  BY <1>1, MemoryIs
<1>4. l \in Cells /\ Len(l) = 12 + 44 * n /\ DataSize(l) = Len(l)
  <2>1. 12 + 44 * n <= MaxInt
    BY <1>2 DEF MaxInt
  <2>2. Sized(l) /\ Len(l) = 12 + 44 * n
    BY <1>1, <2>1, UserListIs
  <2> HIDE DEF l
  <2>3. QED
    BY <2>2, SizedSays DEF Sized
<1>5. SerializeGroup(g) = Structure(EDataType_S2CGroup, size, body)
  <2>1. SerializeGroup(g)
          = Structure(EDataType_S2CGroup, 48 + DataSize(l), Memory(g.group, 48 - 8) \o l)
    BY SizesAre DEF SerializeGroup
  <2>2. 48 + DataSize(l) = size /\ 48 - 8 = 40
    BY <1>2, <1>4
  <2>3. QED
    BY <2>1, <2>2
<1> HIDE DEF m, l, size
<1>6. /\ body \in Cells /\ Len(body) = Len(m) + Len(l)
      /\ Lies(body, 0, m) /\ Lies(body, Len(m), l)
  BY <1>3, <1>4, ConcatCells
<1> HIDE DEF body
<1>7. Lies(body, 40, l) /\ size \in Nat /\ size = 8 + Len(body)
  BY <1>2, <1>3, <1>4, <1>6
<1>8. EDataType_S2CGroup \in Int
  BY DEF EDataType_S2CGroup
<1>9. Sized(Structure(EDataType_S2CGroup, size, body))
  BY <1>2, <1>6, <1>7, <1>8, StructureSized
<1>10. QED
  BY <1>5, <1>6, <1>7, <1>9 DEF body, m, l, size

\* Wherever a group lies, it is read as it was written.
LEMMA GroupLies ==
    ASSUME NEW d \in Cells, NEW o, NEW g \in Group, GroupSize(g) <= MaxInt,
           Lies(d, o, SerializeGroup(g))
    PROVE  SameGroup(UnSerializeGroup(d, o), g)
<1> DEFINE users == g.users
           n == Len(users)
           m == Memory(g.group, 40)
           l == SerializeUserList(users)
           body == m \o l
           got == UnSerializeGroup(d, o)
<1>1. g.group \in Int /\ users \in Seq(Int)
  BY DEF Group
<1>2. n \in Nat /\ GroupSize(g) \in Nat /\ 12 + 44 * n <= MaxInt
  BY <1>1 DEF GroupSize, MaxInt
<1>3. /\ SerializeGroup(g) = Structure(EDataType_S2CGroup, GroupSize(g), body)
      /\ body \in Cells /\ Lies(body, 0, m) /\ Lies(body, 40, l)
  BY GroupIs
<1>4. EDataType_S2CGroup \in Int /\ m \in Cells
  BY <1>1, MemoryIs DEF EDataType_S2CGroup
<1>5. l \in Cells
  BY <1>1, <1>2, UserListIs DEF Sized
<1> HIDE DEF m, l, body
<1>6. o \in Nat /\ Lies(d, o + 8, body)
  BY <1>2, <1>3, <1>4, StructureLies
<1>7. Lies(d, o + 8 + 0, m) /\ Lies(d, o + 8 + 40, l)
  BY <1>3, <1>4, <1>5, <1>6, LiesWithin
<1>8. o + 8 + 0 = o + 8 /\ o + 8 + 40 = o + 48
  BY <1>6
<1>9. ThingAt(d, o + 8, 40) = g.group
  <2>1. Lies(d, o + 8, Memory(g.group, 40))
    BY <1>7, <1>8 DEF m
  <2>2. QED
    BY <1>1, <2>1, ThingLies
<1>10. ListArrives(UnSerializeUserList(d, o + 48), users, SameUser)
  <2>1. Lies(d, o + 48, SerializeUserList(users))
    BY <1>7, <1>8 DEF l
  <2>2. QED
    BY <1>1, <1>2, <2>1, UserListLies
<1>11. got = [group |-> ThingAt(d, o + 8, 40), users |-> UnSerializeUserList(d, o + 48)]
  <2>1. 48 - 8 = 40
    OBVIOUS
  <2>2. QED
    BY <2>1, SizesAre DEF UnSerializeGroup
<1>12. got.group = g.group /\ got.users = UnSerializeUserList(d, o + 48)
  BY <1>9, <1>11
<1> HIDE DEF got
<1>13. SameGroup(got, g)
  BY <1>10, <1>12 DEF SameGroup
<1>14. QED
  BY <1>13 DEF got

-----------------------------------------------------------------------------
(* DataMsg *)

Message == [fixed : Int, Msg : Seq(Char), Extend : Seq(Char)]

\* What a message takes up.
MessageSize(m) == 39 + Len(m.Msg) + Len(m.Extend)

\* The bytes of a message behind its head.
MsgBody(m) ==
    Memory(m.fixed, 21)
        \o Int4(Len(m.Msg) + 1) \o Chars(Append(m.Msg, 0))
        \o Int4(Len(m.Extend) + 1) \o Chars(Append(m.Extend, 0))

\* The memory, and the two texts with their sizes, one after the other.
LEMMA MsgBodyIs ==
    ASSUME NEW m \in Message
    PROVE  /\ MsgBody(m) \in Cells /\ Len(MsgBody(m)) + 8 = MessageSize(m)
           /\ Lies(MsgBody(m), 0, Memory(m.fixed, 21))
           /\ Lies(MsgBody(m), 21, Int4(Len(m.Msg) + 1))
           /\ Lies(MsgBody(m), 25, Chars(Append(m.Msg, 0)))
<1> DEFINE n == Len(m.Msg)
           k == Len(m.Extend)
           a == Memory(m.fixed, 21)
           b == Int4(n + 1)
           c == Chars(Append(m.Msg, 0))
           e == Int4(k + 1)
           f == Chars(Append(m.Extend, 0))
           ab == a \o b
           abc == ab \o c
           abce == abc \o e
           all == abce \o f
<1>1. m.fixed \in Int /\ m.Msg \in Seq(Char) /\ m.Extend \in Seq(Char)
  BY DEF Message
<1>2. c \in Cells /\ Len(c) = n + 1 /\ n \in Nat
  BY <1>1, CharsIs
<1>3. f \in Cells /\ Len(f) = k + 1 /\ k \in Nat
  BY <1>1, CharsIs
<1>4. a \in Cells /\ Len(a) = 21
  BY <1>1, MemoryIs
<1>5. n + 1 \in Nat /\ k + 1 \in Nat
  BY <1>2, <1>3
<1>6. b \in Cells /\ Len(b) = 4
  BY <1>5, Int4Type
<1>7. e \in Cells /\ Len(e) = 4
  BY <1>5, Int4Type
<1>8. MsgBody(m) = all
  BY DEF MsgBody
<1>9. MessageSize(m) = 39 + n + k
  BY DEF MessageSize
<1> HIDE DEF a, b, c, e, f, n, k
<1>10. ab \in Cells /\ Len(ab) = Len(a) + Len(b) /\ Lies(ab, 0, a) /\ Lies(ab, Len(a), b)
  BY <1>4, <1>6, ConcatCells
<1> HIDE DEF ab
<1>11. /\ abc \in Cells /\ Len(abc) = Len(ab) + Len(c)
       /\ Lies(abc, 0, ab) /\ Lies(abc, Len(ab), c)
  BY <1>2, <1>10, ConcatCells
<1> HIDE DEF abc
<1>12. abce \in Cells /\ Len(abce) = Len(abc) + Len(e) /\ Lies(abce, 0, abc)
  BY <1>7, <1>11, ConcatCells
<1> HIDE DEF abce
<1>13. all \in Cells /\ Len(all) = Len(abce) + Len(f) /\ Lies(all, 0, abce)
  BY <1>3, <1>12, ConcatCells
<1> HIDE DEF all
<1>14. Len(all) + 8 = 39 + n + k
  BY <1>2, <1>3, <1>4, <1>6, <1>7, <1>10, <1>11, <1>12, <1>13
<1>15. Lies(all, 0 + 0, abc)
  BY <1>11, <1>12, <1>13, LiesWithin
<1>16. 0 + 0 = 0 /\ 0 + 21 = 21 /\ 0 + 25 = 25
  OBVIOUS
<1>17. Lies(all, 0, abc)
  BY <1>15, <1>16
<1>18. Len(ab) = 25
  BY <1>4, <1>6, <1>10
<1>19. Lies(all, 0 + 0, ab) /\ Lies(all, 0 + 25, c)
  <2>1. Lies(abc, 25, c)
    BY <1>11, <1>18
  <2>2. QED
    BY <1>2, <1>10, <1>11, <1>13, <1>17, <2>1, LiesWithin
<1>20. Lies(all, 0, ab) /\ Lies(all, 25, c)
  BY <1>16, <1>19
<1>21. Lies(all, 0 + 0, a) /\ Lies(all, 0 + 21, b)
  <2>1. Lies(ab, 0, a) /\ Lies(ab, 21, b)
    BY <1>4, <1>10
  <2>2. QED
    BY <1>4, <1>6, <1>10, <1>13, <1>20, <2>1, LiesWithin
<1>22. Lies(all, 0, a) /\ Lies(all, 21, b)
  BY <1>16, <1>21
<1>23. QED
  BY <1>8, <1>9, <1>13, <1>14, <1>20, <1>22 DEF a, b, c, n

\* A message has the size that it sums up, terminators included.
LEMMA MsgIs ==
    ASSUME NEW type \in Int, NEW m \in Message
    PROVE  /\ MessageSize(m) \in Nat
           /\ SerializeMsg(type, m) = Structure(type, MessageSize(m), MsgBody(m))
           /\ MessageSize(m) <= MaxInt => Sized(SerializeMsg(type, m))
<1> DEFINE n == Len(m.Msg)
           k == Len(m.Extend)
           size == MessageSize(m)
           body == MsgBody(m)
<1>1. /\ m.Msg \in Seq(Char) /\ m.Extend \in Seq(Char)
  BY DEF Message
<1>2. n \in Nat /\ k \in Nat
  BY <1>1, CharsIs
<1>9. size = 39 + n + k
  BY DEF MessageSize
<1> HIDE DEF size, n, k
<1>3. size \in Nat
  BY <1>2, <1>9
<1>4. SerializeMsg(type, m) = Structure(type, size, body)
  <2>1. 29 + 4 + n + 4 + k + 2 = size /\ 29 - 8 = 21
    BY <1>2, <1>9
  <2>2. SerializeMsg(type, m)
          = Structure(type, 29 + 4 + n + 4 + k + 2,
              Memory(m.fixed, 29 - 8)
                \o Int4(n + 1) \o Chars(Append(m.Msg, 0))
                \o Int4(k + 1) \o Chars(Append(m.Extend, 0)))
    BY SizesAre DEF SerializeMsg, n, k
  <2>3. body = Memory(m.fixed, 21) \o Int4(n + 1) \o Chars(Append(m.Msg, 0))
                 \o Int4(k + 1) \o Chars(Append(m.Extend, 0))
    BY DEF MsgBody, n, k
  <2> HIDE DEF body
  <2>4. QED
    BY <2>1, <2>2, <2>3
<1>5. body \in Cells /\ Len(body) + 8 = size
  BY MsgBodyIs DEF size
<1> HIDE DEF body
<1>6. Len(body) \in Nat
  BY <1>5, CellsLen
<1>7. size = 8 + Len(body)
  BY <1>3, <1>5, <1>6
<1>8. size <= MaxInt => Sized(Structure(type, size, body))
  BY <1>3, <1>5, <1>7, StructureSized
<1>10. QED
  BY <1>3, <1>4, <1>8 DEF size, body

\* The length of a message.
LEMMA MsgType ==
    ASSUME NEW type \in Int, NEW m \in Message
    PROVE  /\ SerializeMsg(type, m) \in Cells
           /\ Len(SerializeMsg(type, m)) = MessageSize(m)
<1> DEFINE size == MessageSize(m)
           body == MsgBody(m)
<1>1. size \in Nat /\ SerializeMsg(type, m) = Structure(type, size, body)
  BY MsgIs
<1>2. body \in Cells /\ Len(body) + 8 = size
  BY MsgBodyIs
<1> HIDE DEF size, body
<1>3. /\ Structure(type, size, body) \in Cells
      /\ Len(Structure(type, size, body)) = 8 + Len(body)
  BY <1>1, <1>2, StructureIs
<1>4. Len(body) \in Nat
  BY <1>2, CellsLen
<1>5. Len(SerializeMsg(type, m)) = size
  BY <1>1, <1>2, <1>3, <1>4
<1>6. QED
  BY <1>1, <1>3, <1>5 DEF size

\* The text of a message that lies in d, and its numbers.
LEMMA MsgLies ==
    ASSUME NEW d \in Cells, NEW o, NEW type \in Int, NEW m \in Message,
           MessageSize(m) <= MaxInt, Lies(d, o, SerializeMsg(type, m))
    PROVE  SameText(UnSerializeMsg(d, o), m)
<1> DEFINE body == MsgBody(m)
           got == UnSerializeMsg(d, o)
<1>1. m.fixed \in Int /\ m.Msg \in Seq(Char)
  BY DEF Message
<1>2. /\ MessageSize(m) \in Nat
      /\ SerializeMsg(type, m) = Structure(type, MessageSize(m), body)
  BY MsgIs
<1>3. /\ body \in Cells /\ Lies(body, 0, Memory(m.fixed, 21))
      /\ Lies(body, 25, Chars(Append(m.Msg, 0)))
  BY MsgBodyIs
<1>4. Memory(m.fixed, 21) \in Cells /\ Chars(Append(m.Msg, 0)) \in Cells
  BY <1>1, MemoryIs, CharsIs
<1> HIDE DEF body
<1>5. o \in Nat /\ Lies(d, o + 8, body)
  BY <1>2, <1>3, StructureLies
<1>6. /\ Lies(d, o + 8 + 0, Memory(m.fixed, 21))
      /\ Lies(d, o + 8 + 25, Chars(Append(m.Msg, 0)))
  BY <1>3, <1>4, <1>5, LiesWithin
<1>7. o + 8 + 0 = o + 8 /\ o + 8 + 25 = o + 29 + 4 /\ 29 - 8 = 21
  BY <1>5
<1>8. ThingAt(d, o + 8, 21) = m.fixed
  BY <1>1, <1>6, <1>7, ThingLies
<1>9. TextAt(d, o + 29 + 4) = m.Msg
  BY <1>1, <1>6, <1>7, TextLies
<1>10. got.fixed = ThingAt(d, o + 8, 29 - 8) /\ got.Msg = TextAt(d, o + 29 + 4)
  BY SizesAre DEF UnSerializeMsg
<1> HIDE DEF got
<1>11. SameText(got, m)
  BY <1>7, <1>8, <1>9, <1>10 DEF SameText
<1>12. QED
  BY <1>11 DEF got

-----------------------------------------------------------------------------
(* S2CGroupList, S2CDataMsgList *)

\* The bytes of a list behind its head: how many elements, and the elements.
ListBody(pieces) == Int4(Len(pieces)) \o FlattenSeq(pieces)

\* The count and the elements lie one after the other.
LEMMA ListIs ==
    ASSUME NEW pieces \in Seq(Cells), \A k \in 1..Len(pieces) : Sized(pieces[k])
    PROVE  /\ ListBody(pieces) \in Cells
           /\ Len(ListBody(pieces)) = 4 + SumOfSizes(pieces)
           /\ SumOfSizes(pieces) \in Nat
           /\ Lies(ListBody(pieces), 0, Int4(Len(pieces)))
           /\ Lies(ListBody(pieces), 4, FlattenSeq(pieces))
<1> DEFINE c == Int4(Len(pieces))
           e == FlattenSeq(pieces)
           body == c \o e
<1>1. Len(pieces) \in Nat
  OBVIOUS
<1>2. c \in Cells /\ Len(c) = 4
  BY <1>1, Int4Type
<1>3. e \in Cells
  BY FlattenLies
<1>4. SumOfSizes(pieces) = Len(e)
  BY SumIs
<1>5. ListBody(pieces) = body
  BY DEF ListBody
<1> HIDE DEF c, e
<1>6. /\ body \in Cells /\ Len(body) = Len(c) + Len(e)
      /\ Lies(body, 0, c) /\ Lies(body, Len(c), e)
  BY <1>2, <1>3, ConcatCells
<1> HIDE DEF body
<1>7. Len(e) \in Nat
  BY <1>3, CellsLen
<1>8. Len(body) = 4 + Len(e) /\ Lies(body, 4, e)
  BY <1>2, <1>6
<1>9. QED
  BY <1>4, <1>5, <1>6, <1>7, <1>8 DEF c, e

\* The count and the elements of a list that is a whole package.
LEMMA ListLies ==
    ASSUME NEW type \in Int, NEW pieces \in Seq(Cells),
           \A k \in 1..Len(pieces) : Sized(pieces[k]),
           12 + SumOfSizes(pieces) <= MaxInt
    PROVE  LET d == Structure(type, 12 + SumOfSizes(pieces), ListBody(pieces)) IN
           /\ Sized(d)
           /\ CharAt(d, 8) \in Int /\ CharAt(d, 8) <= Len(pieces)
           /\ Len(pieces) <= MaxCount => CharAt(d, 8) = Len(pieces)
           /\ \A i \in 1..Len(pieces) : Lies(d, ElementOffset(d, 0, i), pieces[i])
<1> DEFINE n == Len(pieces)
           c == Int4(n)
           e == FlattenSeq(pieces)
           body == ListBody(pieces)
           size == 12 + SumOfSizes(pieces)
           d == Structure(type, size, body)
<1>1. n \in Nat /\ c \in Cells /\ e \in Cells
  BY Int4Type, FlattenLies
<1>2. /\ body \in Cells /\ Len(body) = 4 + SumOfSizes(pieces)
      /\ SumOfSizes(pieces) \in Nat
      /\ Lies(body, 0, c) /\ Lies(body, 4, e)
  BY ListIs
<1>3. size \in Nat /\ size = 8 + Len(body) /\ size <= MaxInt
  BY <1>2
<1> HIDE DEF size, body, c, e
<1>4. Sized(d) /\ d \in Cells /\ Lies(d, 8, body)
  BY <1>2, <1>3, StructureSized, StructureIs
<1> HIDE DEF d
<1>5. Lies(d, 8 + 0, c) /\ Lies(d, 8 + 4, e)
  BY <1>1, <1>2, <1>4, LiesWithin
<1>6. 8 + 0 = 8 /\ 8 + 4 = 0 + 12
  OBVIOUS
<1>7. Lies(d, 8, Int4(n)) /\ Lies(d, 0 + 12, FlattenSeq(pieces))
  BY <1>5, <1>6 DEF c, e
<1>8. CharAt(d, 8) \in Int /\ CharAt(d, 8) <= n /\ (n <= MaxCount => CharAt(d, 8) = n)
  BY <1>1, <1>4, <1>7, CharLies
<1>9. \A i \in 1..n : Lies(d, ElementOffset(d, 0, i), pieces[i])
  <2>1. TAKE i \in 1..n
  <2>2. 0 \in Nat
    OBVIOUS
  <2>3. QED
    BY <1>4, <1>7, <2>2, ElementLies
<1>10. QED
  BY <1>4, <1>8, <1>9 DEF d, size, body

\* A list has the DataType it was written with.
LEMMA ListType ==
    ASSUME NEW type \in Int, NEW pieces \in Seq(Cells),
           \A k \in 1..Len(pieces) : Sized(pieces[k]),
           12 + SumOfSizes(pieces) <= MaxInt
    PROVE  DataType(Structure(type, 12 + SumOfSizes(pieces), ListBody(pieces))) = type
<1>1. ListBody(pieces) \in Cells /\ 12 + SumOfSizes(pieces) \in Nat
  BY ListIs
<1>2. QED
  BY <1>1, StructureType

\* No piece is larger than all of them.
LEMMA PieceFits ==
    ASSUME NEW pieces \in Seq(Cells), NEW i \in 1..Len(pieces)
    PROVE  Len(pieces[i]) <= Len(FlattenSeq(pieces))
<1>1. FlattenSeq(pieces) \in Cells /\ pieces[i] \in Cells
  BY FlattenLies, ElementOfSeq
<1>2. PICK at : \A k \in 1..Len(pieces) :
                    Lies(FlattenSeq(pieces), at[k - 1], pieces[k])
  BY FlattenLies
<1>3. Lies(FlattenSeq(pieces), at[i - 1], pieces[i])
  BY <1>2
<1>4. QED
  BY <1>1, <1>3, CellsLen DEF Lies

\* If a list fits an int, so do its elements, and then so does the sum.
LEMMA ListFits ==
    ASSUME NEW type, NEW pieces \in Seq(Cells),
           Len(Structure(type, 12 + SumOfSizes(pieces), ListBody(pieces))) <= MaxInt
    PROVE  /\ 12 + Len(FlattenSeq(pieces)) <= MaxInt
           /\ \A i \in 1..Len(pieces) : Len(pieces[i]) <= MaxInt
<1> DEFINE c == Int4(Len(pieces))
           e == FlattenSeq(pieces)
           body == c \o e
<1>1. Len(pieces) \in Nat
  OBVIOUS
<1>2. c \in Cells /\ Len(c) = 4 /\ e \in Cells
  BY <1>1, Int4Type, FlattenLies
<1>3. ListBody(pieces) = body
  BY DEF ListBody
<1>4. \A i \in 1..Len(pieces) : Len(pieces[i]) \in Nat /\ Len(pieces[i]) <= Len(e)
  BY ElementOfSeq, CellsLen, PieceFits
<1> HIDE DEF c, e
<1>5. body \in Cells /\ Len(body) = Len(c) + Len(e)
  BY <1>2, ConcatCells
<1> HIDE DEF body
<1>6. 8 + Len(body) <= MaxInt
  BY <1>3, <1>5, StructureLength
<1>7. Len(e) \in Nat /\ MaxInt \in Nat
  BY <1>2, CellsLen DEF MaxInt
<1>8. 12 + Len(e) <= MaxInt
  BY <1>2, <1>5, <1>6, <1>7
<1>9. \A i \in 1..Len(pieces) : Len(pieces[i]) <= MaxInt
  BY <1>4, <1>7, <1>8
<1>10. QED
  BY <1>8, <1>9 DEF e

\* A list of groups is a whole package, and is read as it was written.
LEMMA GroupListLies ==
    ASSUME NEW groups \in Seq(Group), Len(SerializeGroupList(groups)) <= MaxInt
    PROVE  LET d == SerializeGroupList(groups) IN
           /\ Sized(d)
           /\ DataType(d) = EDataType_S2CGroupList
           /\ ListArrives(UnSerializeGroupList(d, 0), groups, SameGroup)
<1> DEFINE n == Len(groups)
           pieces == [i \in 1..n |-> SerializeGroup(groups[i])]
           d == SerializeGroupList(groups)
           count == CharAt(d, 8)
           got == UnSerializeGroupList(d, 0)
<1>1. n \in Nat /\ DOMAIN groups = 1..n /\ \A i \in 1..n : groups[i] \in Group
  BY ElementOfSeq, LenProperties
<1>2. \A i \in 1..n : pieces[i] = SerializeGroup(groups[i])
  OBVIOUS
<1>3. pieces \in Seq(Cells) /\ Len(pieces) = n
  <2>1. \A i \in 1..n : pieces[i] \in Cells
    BY <1>1, <1>2, GroupType
  <2>2. pieces = [i \in 1..n |-> pieces[i]]
    OBVIOUS
  <2> HIDE DEF pieces
  <2>3. QED
    BY <1>1, <2>1, <2>2, LengthOf
<1>4. d = Structure(EDataType_S2CGroupList, 12 + SumOfSizes(pieces), ListBody(pieces))
  <2>1. 8 + 4 = 12
    OBVIOUS
  <2>2. d = Structure(EDataType_S2CGroupList, 8 + 4 + SumOfSizes(pieces),
                      Int4(n) \o FlattenSeq(pieces))
    BY <1>1, SizesAre DEF SerializeGroupList
  <2> HIDE DEF d, pieces
  <2>3. QED
    BY <1>3, <2>1, <2>2 DEF ListBody
<1>5. Len(d) <= MaxInt
  OBVIOUS
<1>6. got = [i \in 1..count |-> UnSerializeGroup(d, ElementOffset(d, 0, i))]
  <2>1. 0 + 8 = 8
    OBVIOUS
  <2>2. QED
    BY <2>1, SizesAre DEF UnSerializeGroupList
<1> HIDE DEF d, pieces, got
<1>7. /\ 12 + Len(FlattenSeq(pieces)) <= MaxInt
      /\ \A i \in 1..n : Len(pieces[i]) <= MaxInt
  BY <1>3, <1>4, <1>5, ListFits
<1>8. \A i \in 1..n : GroupSize(groups[i]) <= MaxInt /\ Sized(pieces[i])
  <2>1. TAKE i \in 1..n
  <2>2. GroupSize(groups[i]) <= MaxInt
    BY <1>1, <1>2, <1>7, GroupType
  <2>3. QED
    BY <1>1, <1>2, <2>2, GroupIs
<1>9. SumOfSizes(pieces) = Len(FlattenSeq(pieces))
  BY <1>3, <1>8, SumIs
<1>10. EDataType_S2CGroupList \in Int
  BY DEF EDataType_S2CGroupList
<1>11. /\ Sized(d)
       /\ count \in Int /\ count <= n /\ (n <= MaxCount => count = n)
       /\ \A i \in 1..n : Lies(d, ElementOffset(d, 0, i), pieces[i])
  BY <1>3, <1>4, <1>7, <1>8, <1>9, <1>10, ListLies
<1>12. DataType(d) = EDataType_S2CGroupList
  BY <1>3, <1>4, <1>7, <1>8, <1>9, <1>10, ListType
<1> HIDE DEF count, n
<1>13. n \in Nat /\ count \in Int /\ count <= n /\ (n <= MaxCount => count = n)
  BY <1>1, <1>11
<1>14. d \in Cells
  BY <1>11 DEF Sized
<1>15. \A i \in 1..count : i \in 1..n /\ SameGroup(got[i], groups[i])
  <2>1. TAKE i \in 1..count
  <2>2. i \in 1..n
    BY <1>13
  <2>3. Lies(d, ElementOffset(d, 0, i), SerializeGroup(groups[i]))
    BY <1>2, <1>11, <2>2
  <2>4. SameGroup(UnSerializeGroup(d, ElementOffset(d, 0, i)), groups[i])
    BY <1>1, <1>8, <1>14, <2>2, <2>3, GroupLies
  <2>5. got[i] = UnSerializeGroup(d, ElementOffset(d, 0, i))
    BY <1>6
  <2>6. QED
    BY <2>2, <2>4, <2>5
<1>16. Len(got) = IF count >= 0 THEN count ELSE 0
  <2>1. got = [i \in 1..count |-> got[i]]
    BY <1>6
  <2>2. QED
    BY <1>13, <2>1, ListLength
<1>17. /\ Len(got) <= n /\ (n <= MaxCount => Len(got) = n)
       /\ \A i \in 1..Len(got) : i \in 1..count
  BY <1>16, <1>13
<1>18. ListArrives(got, groups, SameGroup)
  BY <1>15, <1>17 DEF ListArrives, n
<1>19. QED
  BY <1>11, <1>12, <1>18 DEF d, got

\* A list of messages is a whole package, and is read as it was written.
LEMMA MsgListLies ==
    ASSUME NEW msgs \in Seq(Message), Len(SerializeMsgList(msgs)) <= MaxInt
    PROVE  LET d == SerializeMsgList(msgs) IN
           /\ Sized(d)
           /\ DataType(d) = EDataType_S2CDataMsgList
           /\ ListArrives(UnSerializeMsgList(d, 0), msgs, SameText)
<1> DEFINE n == Len(msgs)
           pieces == [i \in 1..n |-> SerializeMsg(EDataType_S2CDataMsg, msgs[i])]
           d == SerializeMsgList(msgs)
           count == CharAt(d, 8)
           got == UnSerializeMsgList(d, 0)
<1>0. EDataType_S2CDataMsg \in Int
  BY DEF EDataType_S2CDataMsg
<1>1. n \in Nat /\ DOMAIN msgs = 1..n /\ \A i \in 1..n : msgs[i] \in Message
  BY ElementOfSeq, LenProperties
<1>2. \A i \in 1..n : pieces[i] = SerializeMsg(EDataType_S2CDataMsg, msgs[i])
  OBVIOUS
<1>3. pieces \in Seq(Cells) /\ Len(pieces) = n
  <2>1. \A i \in 1..n : pieces[i] \in Cells
    BY <1>1, <1>2, <1>0, MsgType
  <2>2. pieces = [i \in 1..n |-> pieces[i]]
    OBVIOUS
  <2> HIDE DEF pieces
  <2>3. QED
    BY <1>1, <2>1, <2>2, LengthOf
<1>4. d = Structure(EDataType_S2CDataMsgList, 12 + SumOfSizes(pieces), ListBody(pieces))
  <2>1. 8 + 4 = 12
    OBVIOUS
  <2>2. d = Structure(EDataType_S2CDataMsgList, 8 + 4 + SumOfSizes(pieces),
                      Int4(n) \o FlattenSeq(pieces))
    BY <1>1, SizesAre DEF SerializeMsgList
  <2> HIDE DEF d, pieces
  <2>3. QED
    BY <1>3, <2>1, <2>2 DEF ListBody
<1>5. Len(d) <= MaxInt
  OBVIOUS
<1>6. got = [i \in 1..count |-> UnSerializeMsg(d, ElementOffset(d, 0, i))]
  <2>1. 0 + 8 = 8
    OBVIOUS
  <2>2. QED
    BY <2>1, SizesAre DEF UnSerializeMsgList
<1> HIDE DEF d, pieces, got
<1>7. /\ 12 + Len(FlattenSeq(pieces)) <= MaxInt
      /\ \A i \in 1..n : Len(pieces[i]) <= MaxInt
  BY <1>3, <1>4, <1>5, ListFits
<1>8. \A i \in 1..n : MessageSize(msgs[i]) <= MaxInt /\ Sized(pieces[i])
  <2>1. TAKE i \in 1..n
  <2>2. MessageSize(msgs[i]) <= MaxInt
    BY <1>1, <1>2, <1>7, <1>0, MsgType
  <2>3. QED
    BY <1>1, <1>2, <2>2, <1>0, MsgIs
<1>9. SumOfSizes(pieces) = Len(FlattenSeq(pieces))
  BY <1>3, <1>8, SumIs
<1>10. EDataType_S2CDataMsgList \in Int
  BY DEF EDataType_S2CDataMsgList
<1>11. /\ Sized(d)
       /\ count \in Int /\ count <= n /\ (n <= MaxCount => count = n)
       /\ \A i \in 1..n : Lies(d, ElementOffset(d, 0, i), pieces[i])
  BY <1>3, <1>4, <1>7, <1>8, <1>9, <1>10, ListLies
<1>12. DataType(d) = EDataType_S2CDataMsgList
  BY <1>3, <1>4, <1>7, <1>8, <1>9, <1>10, ListType
<1> HIDE DEF count, n
<1>13. n \in Nat /\ count \in Int /\ count <= n /\ (n <= MaxCount => count = n)
  BY <1>1, <1>11
<1>14. d \in Cells
  BY <1>11 DEF Sized
<1>15. \A i \in 1..count : i \in 1..n /\ SameText(got[i], msgs[i])
  <2>1. TAKE i \in 1..count
  <2>2. i \in 1..n
    BY <1>13
  <2>3. Lies(d, ElementOffset(d, 0, i), SerializeMsg(EDataType_S2CDataMsg, msgs[i]))
    BY <1>2, <1>11, <2>2
  <2>4. SameText(UnSerializeMsg(d, ElementOffset(d, 0, i)), msgs[i])
    BY <1>1, <1>8, <1>14, <2>2, <2>3, <1>0, MsgLies
  <2>5. got[i] = UnSerializeMsg(d, ElementOffset(d, 0, i))
    BY <1>6
  <2>6. QED
    BY <2>2, <2>4, <2>5
<1>16. Len(got) = IF count >= 0 THEN count ELSE 0
  <2>1. got = [i \in 1..count |-> got[i]]
    BY <1>6
  <2>2. QED
    BY <1>13, <2>1, ListLength
<1>17. /\ Len(got) <= n /\ (n <= MaxCount => Len(got) = n)
       /\ \A i \in 1..Len(got) : i \in 1..count
  BY <1>16, <1>13
<1>18. ListArrives(got, msgs, SameText)
  BY <1>15, <1>17 DEF ListArrives, n
<1>19. QED
  BY <1>11, <1>12, <1>18 DEF d, got


\* A structure that is one piece of memory, copied there and back.
LEMMA DefaultLies ==
    ASSUME NEW type \in Structures, NEW x \in Int
    PROVE  LET d == DefaultSerialize(type, x) IN
           /\ Sized(d)
           /\ DataType(d) = type
           /\ DefaultUnSerialize(type, d) = x
<1> DEFINE size == DefaultSize(type)
           body == Memory(x, size - 8)
           d == DefaultSerialize(type, x)
<1>1. type \in Int /\ size \in Nat /\ size \in {44, 16} /\ size <= MaxInt
  BY DEF Structures, DefaultSize, SizeC2SLogin, SizeS2CLogin, SizeAsk, MaxInt,
         EDataType_C2SLogin, EDataType_S2CLogin, EDataType_C2SGetDataMsgList
<1>2. d = Structure(type, size, body)
  BY SizesAre DEF DefaultSerialize
<1>3. DefaultUnSerialize(type, d) = ThingAt(d, 8, size - 8)
  BY SizesAre DEF DefaultUnSerialize
<1> HIDE DEF size, d
<1>4. size - 8 \in Nat \ {0} /\ size - 8 \in Nat /\ size = 8 + (size - 8)
  BY <1>1
<1>5. body \in Cells /\ Len(body) = size - 8
  BY <1>4, MemoryIs
<1>6. Sized(d)
  BY <1>1, <1>2, <1>4, <1>5, StructureSized
<1>7. DataType(d) = type
  BY <1>1, <1>2, <1>5, StructureType
<1>8. d \in Cells /\ Lies(d, 8, body)
  BY <1>1, <1>2, <1>5, StructureIs
<1>9. ThingAt(d, 8, size - 8) = x
  BY <1>4, <1>8, ThingLies
<1>10. QED
  BY <1>3, <1>6, <1>7, <1>9 DEF d

-----------------------------------------------------------------------------
(* An object, from the one end to the other *)

\* What of the content of an object has to be found again.
Kept(v, got) ==
    /\ v.type \in Structures => got = v.content
    /\ v.type = EDataType_S2CUserList => ListArrives(got, v.content, SameUser)
    /\ v.type = EDataType_S2CGroupList => ListArrives(got, v.content, SameGroup)
    /\ v.type = EDataType_S2CDataMsgList => ListArrives(got, v.content, SameText)
    /\ v.type \in Messages => SameText(got, v.content)

\* What an object becomes on the way.
ComesThrough(v) ==
    LET d == SerializeAs(v.type, v.content) IN
    /\ Sized(d)
    /\ DataType(d) = v.type
    /\ Kept(v, UnSerialize(v.type, d))

\* The DataTypes are different ones, so that each is serialized and read as
\* what it is.
LEMMA TypesDiffer ==
    /\ EDataType_S2CUserList \notin Structures \cup Messages
    /\ EDataType_S2CGroupList \notin Structures \cup Messages
    /\ EDataType_S2CDataMsgList \notin Structures \cup Messages
    /\ Structures \cap Messages = {}
    /\ EDataType_S2CUserList # EDataType_S2CGroupList
    /\ EDataType_S2CUserList # EDataType_S2CDataMsgList
    /\ EDataType_S2CGroupList # EDataType_S2CDataMsgList
    /\ Structures \cup Messages \subseteq Int
  BY DEF Structures, Messages, EDataType_C2SLogin, EDataType_S2CLogin,
         EDataType_C2SGetDataMsgList, EDataType_S2CUserList,
         EDataType_S2CGroupList, EDataType_S2CDataMsgList,
         EDataType_C2SDataMsg, EDataType_S2CDataMsg

\* A login, its answer, and a request for messages.
LEMMA StructureArrives ==
    ASSUME NEW type \in Structures, NEW x \in Int
    PROVE  ComesThrough(Object(type, x))
<1> DEFINE v == Object(type, x)
           d == SerializeAs(type, x)
<1>1. v.type = type /\ v.content = x
  BY DEF Object
<1>2. d = DefaultSerialize(type, x)
  BY TypesDiffer DEF SerializeAs
<1>3. UnSerialize(type, d) = DefaultUnSerialize(type, d)
  BY TypesDiffer DEF UnSerialize
<1>4. Sized(d) /\ DataType(d) = type /\ DefaultUnSerialize(type, d) = x
  BY <1>2, DefaultLies
<1> HIDE DEF v, d
<1>5. Kept(v, UnSerialize(type, d))
  BY <1>1, <1>3, <1>4, TypesDiffer DEF Kept
<1>6. QED
  BY <1>1, <1>4, <1>5 DEF ComesThrough, v, d

\* A message, in either direction.
LEMMA MsgArrives ==
    ASSUME NEW type \in Messages, NEW m \in Message,
           Len(SerializeAs(type, m)) <= MaxInt
    PROVE  ComesThrough(Object(type, m))
<1> DEFINE v == Object(type, m)
           d == SerializeAs(type, m)
<1>1. v.type = type /\ v.content = m
  BY DEF Object
<1>2. type \in Int /\ d = SerializeMsg(type, m)
  BY TypesDiffer DEF SerializeAs
<1>3. UnSerialize(type, d) = UnSerializeMsg(d, 0)
  BY TypesDiffer DEF UnSerialize
<1> HIDE DEF v
<1>4. MessageSize(m) <= MaxInt
  BY <1>2, MsgType
<1> HIDE DEF d
<1>5. Sized(d) /\ d \in Cells
  BY <1>2, <1>4, MsgIs DEF Sized
<1>6. SameText(UnSerializeMsg(d, 0), m)
  BY <1>2, <1>4, <1>5, LiesWhole, MsgLies
<1>7. DataType(d) = type
  BY <1>2, MsgIs, MsgBodyIs, StructureType
<1>8. Kept(v, UnSerialize(type, d))
  BY <1>1, <1>3, <1>6, TypesDiffer DEF Kept
<1>9. QED
  BY <1>1, <1>5, <1>7, <1>8 DEF ComesThrough, v, d

\* The users, as the SDK gets them.
LEMMA UserListArrives ==
    ASSUME NEW users \in Seq(Int),
           Len(SerializeAs(EDataType_S2CUserList, users)) <= MaxInt
    PROVE  ComesThrough(Object(EDataType_S2CUserList, users))
<1> DEFINE type == EDataType_S2CUserList
           v == Object(type, users)
           d == SerializeAs(type, users)
<1>1. v.type = type /\ v.content = users
  BY DEF Object
<1>2. d = SerializeUserList(users)
  BY TypesDiffer DEF SerializeAs
<1>3. UnSerialize(type, d) = UnSerializeUserList(d, 0)
  BY TypesDiffer DEF UnSerialize
<1> HIDE DEF v
<1>4. 12 + 44 * Len(users) <= MaxInt
  BY <1>2, UserListType
<1> HIDE DEF d
<1>5. Sized(d) /\ d \in Cells
  BY <1>2, <1>4, UserListIs DEF Sized
<1>6. ListArrives(UnSerializeUserList(d, 0), users, SameUser)
  BY <1>2, <1>4, <1>5, LiesWhole, UserListLies
<1>7. DataType(d) = type
  <2>1. type \in Int /\ 12 + 44 * Len(users) \in Nat
    BY DEF EDataType_S2CUserList
  <2> HIDE DEF type
  <2>2. QED
    BY <1>2, <1>4, <2>1, UserListIs, StructureType DEF type
<1>8. Kept(v, UnSerialize(type, d))
  BY <1>1, <1>3, <1>6, TypesDiffer DEF Kept
<1>9. QED
  BY <1>1, <1>5, <1>7, <1>8 DEF ComesThrough, v, d

\* The groups, as the SDK gets them.
LEMMA GroupListArrives ==
    ASSUME NEW groups \in Seq(Group),
           Len(SerializeAs(EDataType_S2CGroupList, groups)) <= MaxInt
    PROVE  ComesThrough(Object(EDataType_S2CGroupList, groups))
<1> DEFINE type == EDataType_S2CGroupList
           v == Object(type, groups)
           d == SerializeAs(type, groups)
<1>1. v.type = type /\ v.content = groups
  BY DEF Object
<1>2. d = SerializeGroupList(groups)
  BY TypesDiffer DEF SerializeAs
<1>3. UnSerialize(type, d) = UnSerializeGroupList(d, 0)
  BY TypesDiffer DEF UnSerialize
<1> HIDE DEF v
<1>4. /\ Sized(d) /\ DataType(d) = type
      /\ ListArrives(UnSerializeGroupList(d, 0), groups, SameGroup)
  BY <1>2, GroupListLies
<1> HIDE DEF d
<1>5. Kept(v, UnSerialize(type, d))
  BY <1>1, <1>3, <1>4, TypesDiffer DEF Kept
<1>6. QED
  BY <1>1, <1>4, <1>5 DEF ComesThrough, v, d

\* The messages, as the SDK gets them.
LEMMA MsgListArrives ==
    ASSUME NEW msgs \in Seq(Message),
           Len(SerializeAs(EDataType_S2CDataMsgList, msgs)) <= MaxInt
    PROVE  ComesThrough(Object(EDataType_S2CDataMsgList, msgs))
<1> DEFINE type == EDataType_S2CDataMsgList
           v == Object(type, msgs)
           d == SerializeAs(type, msgs)
<1>1. v.type = type /\ v.content = msgs
  BY DEF Object
<1>2. d = SerializeMsgList(msgs)
  BY TypesDiffer DEF SerializeAs
<1>3. UnSerialize(type, d) = UnSerializeMsgList(d, 0)
  BY TypesDiffer DEF UnSerialize
<1> HIDE DEF v
<1>4. /\ Sized(d) /\ DataType(d) = type
      /\ ListArrives(UnSerializeMsgList(d, 0), msgs, SameText)
  BY <1>2, MsgListLies
<1> HIDE DEF d
<1>5. Kept(v, UnSerialize(type, d))
  BY <1>1, <1>3, <1>4, TypesDiffer DEF Kept
<1>6. QED
  BY <1>1, <1>4, <1>5 DEF ComesThrough, v, d

\* Nothing else is sent.
LEMMA EveryObjectArrives ==
    ASSUME NEW v \in Objects
    PROVE  ComesThrough(v)
<1>1. Len(SerializeAs(v.type, v.content)) <= MaxInt
  BY FitsAssumption
<1>2. \/ \E t \in Structures, x \in Things : v = Object(t, x)
      \/ \E x \in UserLists : v = Object(EDataType_S2CUserList, x)
      \/ \E x \in GroupLists : v = Object(EDataType_S2CGroupList, x)
      \/ \E x \in MsgLists : v = Object(EDataType_S2CDataMsgList, x)
      \/ \E t \in Messages, x \in MsgLists : Len(x) = 1 /\ v = Object(t, x[1])
  BY DEF Objects
<1>3. \A t, x : Object(t, x).type = t /\ Object(t, x).content = x
  BY DEF Object
<1>4. CASE \E t \in Structures, x \in Things : v = Object(t, x)
  <2>1. PICK t \in Structures, x \in Things : v = Object(t, x)
    BY <1>4
  <2>2. x \in Int
    BY ContentsAssumption
  <2>3. QED
    BY <2>1, <2>2, StructureArrives
<1>5. CASE \E x \in UserLists : v = Object(EDataType_S2CUserList, x)
  <2>1. PICK x \in UserLists : v = Object(EDataType_S2CUserList, x)
    BY <1>5
  <2>2. x \in Seq(Int) /\ Len(SerializeAs(EDataType_S2CUserList, x)) <= MaxInt
    BY <1>1, <1>3, <2>1, ContentsAssumption
  <2>3. QED
    BY <2>1, <2>2, UserListArrives
<1>6. CASE \E x \in GroupLists : v = Object(EDataType_S2CGroupList, x)
  <2>1. PICK x \in GroupLists : v = Object(EDataType_S2CGroupList, x)
    BY <1>6
  <2>2. x \in Seq(Group) /\ Len(SerializeAs(EDataType_S2CGroupList, x)) <= MaxInt
    BY <1>1, <1>3, <2>1, ContentsAssumption DEF Group
  <2>3. QED
    BY <2>1, <2>2, GroupListArrives
<1>7. CASE \E x \in MsgLists : v = Object(EDataType_S2CDataMsgList, x)
  <2>1. PICK x \in MsgLists : v = Object(EDataType_S2CDataMsgList, x)
    BY <1>7
  <2>2. x \in Seq(Message) /\ Len(SerializeAs(EDataType_S2CDataMsgList, x)) <= MaxInt
    BY <1>1, <1>3, <2>1, ContentsAssumption DEF Message
  <2>3. QED
    BY <2>1, <2>2, MsgListArrives
<1>8. CASE \E t \in Messages, x \in MsgLists : Len(x) = 1 /\ v = Object(t, x[1])
  <2>1. PICK t \in Messages, x \in MsgLists : Len(x) = 1 /\ v = Object(t, x[1])
    BY <1>8
  <2>2. x \in Seq(Message)
    BY ContentsAssumption DEF Message
  <2>3. x[1] \in Message
    <3>1. 1 \in 1..Len(x)
      BY <2>1
    <3>2. QED
      BY <2>2, <3>1, ElementOfSeq
  <2>4. Len(SerializeAs(t, x[1])) <= MaxInt
    BY <1>1, <1>3, <2>1
  <2>5. QED
    BY <2>1, <2>3, <2>4, MsgArrives
<1>9. QED
  BY <1>2, <1>4, <1>5, <1>6, <1>7, <1>8

-----------------------------------------------------------------------------
(* The codec *)

\* What is sent stays what it is, serialized is what Serialize makes of it, and
\* the result is what UnSerialize makes of that: nothing has been dropped.
CodecInv ==
    /\ value \in Objects
    /\ serialized # <<>> => serialized = SerializeAs(value.type, value.content)
    /\ Done => /\ serialized # <<>>
               /\ result = Object(value.type, UnSerialize(value.type, serialized))

\* The server has a handler for what the SDK sends, and the SDK for what the
\* server sends; EDataType_S2CGroup, which travels only inside a list, has none.
LEMMA HandlerThere ==
    ASSUME NEW v \in Objects
    PROVE  /\ v.type \in Int /\ v.type # Garbage
           /\ v.type < EDataType_S2CLogin => v.type \in ServerDataTypeMap
           /\ v.type >= EDataType_S2CLogin => v.type \in SdkDataTypeMap
<1> DEFINE types == Structures \cup Messages
                      \cup {EDataType_S2CUserList, EDataType_S2CGroupList,
                            EDataType_S2CDataMsgList}
<1>1. v.type \in types
  BY DEF Objects, Object
<1>2. \A t \in types : /\ t \in Int /\ t # Garbage
                       /\ t < EDataType_S2CLogin => t \in ServerDataTypeMap
                       /\ t >= EDataType_S2CLogin => t \in SdkDataTypeMap
  BY DEF Structures, Messages, EDataType_C2SLogin, EDataType_S2CLogin,
         EDataType_C2SGetDataMsgList, EDataType_S2CUserList,
         EDataType_S2CGroupList, EDataType_S2CDataMsgList,
         EDataType_C2SDataMsg, EDataType_S2CDataMsg, Garbage,
         ServerDataTypeMap, SdkDataTypeMap
<1>3. QED
  BY <1>1, <1>2

\* What has a DataType is long enough for one.
LEMMA LongEnough ==
    ASSUME NEW d \in Cells, DataType(d) # Garbage
    PROVE  ~(Len(d) < SizeHead)
<1>1. Within(d, SizeInt, SizeInt)
  BY DEF DataType, ThingAt
<1>2. 4 + 4 <= Len(d)
  BY <1>1, SizesAre DEF Within
<1>3. Len(d) \in Nat
  BY CellsLen
<1>4. QED
  BY <1>2, <1>3, SizesAre

\* What is received is not dropped, and is read as what it is.
LEMMA DispatchKeeps ==
    ASSUME NEW map, CodecInv, value.type \in map, Dispatch(map)
    PROVE  CodecInv'
<1>1. /\ value \in Objects
      /\ serialized = SerializeAs(value.type, value.content)
      /\ value' = value /\ serialized' = serialized /\ serialized # <<>>
  BY DEF CodecInv, Dispatch
<1>2. Sized(serialized) /\ DataType(serialized) = value.type
  BY <1>1, EveryObjectArrives DEF ComesThrough
<1>3. serialized \in Cells /\ DataSize(serialized) = Len(serialized)
  BY <1>2, SizedSays DEF Sized
<1>4. ~(Len(serialized) < SizeHead)
  BY <1>1, <1>2, <1>3, HandlerThere, LongEnough
<1>5. result' = Object(value.type, UnSerialize(value.type, serialized))
  BY <1>2, <1>3, <1>4 DEF Dispatch
<1>6. QED
  BY <1>1, <1>5 DEF CodecInv

\* At the start nothing is serialized.
LEMMA CodecInvStart ==
    CodecInit => CodecInv
  BY DEF CodecInit, CodecInv, Done

\* Every step keeps the invariant.
LEMMA CodecInvStep ==
    CodecInv /\ [CodecNext]_codecVars => CodecInv'
<1> SUFFICES ASSUME CodecInv, [CodecNext]_codecVars
             PROVE  CodecInv'
  OBVIOUS
<1>1. value \in Objects
  BY DEF CodecInv
<1>2. CASE Serialize
  BY <1>2 DEF Serialize, CodecInv, Done
<1>3. CASE ServerReceives
  BY <1>1, <1>3, HandlerThere, DispatchKeeps DEF ServerReceives
<1>4. CASE SdkReceives
  BY <1>1, <1>4, HandlerThere, DispatchKeeps DEF SdkReceives
<1>5. CASE UNCHANGED codecVars
  BY <1>5 DEF codecVars, CodecInv, Done
<1>6. QED
  BY <1>2, <1>3, <1>4, <1>5 DEF CodecNext

\* What is done is there, type and content.
LEMMA DoneIsKept ==
    ASSUME CodecInv, Done
    PROVE  result.type = value.type /\ Kept(value, result.content)
<1>1. /\ value \in Objects
      /\ serialized = SerializeAs(value.type, value.content)
      /\ result = Object(value.type, UnSerialize(value.type, serialized))
  BY DEF CodecInv
<1>2. Kept(value, UnSerialize(value.type, serialized))
  BY <1>1, EveryObjectArrives DEF ComesThrough
<1>3. QED
  BY <1>1, <1>2 DEF Object

\* Messages whose texts have arrived have arrived.
LEMMA TextIsMore ==
    ASSUME NEW got, NEW sent, ListArrives(got, sent, SameText)
    PROVE  ListArrives(got, sent, SameNumbers)
  BY DEF ListArrives, SameText, SameNumbers

\* So the invariant implies the one property,
LEMMA KeptListsArrive ==
    CodecInv => ListsArrive
<1> SUFFICES ASSUME CodecInv, Done
             PROVE  ListsArrive
  BY DEF ListsArrive
<1>1. result.type = value.type /\ Kept(value, result.content)
  BY DoneIsKept
<1>2. value.type \in Structures => result = value
  <2>1. SUFFICES ASSUME value.type \in Structures
                 PROVE  result = value
    OBVIOUS
  <2>2. result.content = value.content
    BY <1>1, <2>1 DEF Kept
  <2>3. value = Object(value.type, value.content)
    BY DEF CodecInv, Objects, Object
  <2>4. result = Object(result.type, result.content)
    BY DEF CodecInv, Object
  <2>5. QED
    BY <1>1, <2>2, <2>3, <2>4
<1>3. value.type = EDataType_S2CDataMsgList =>
          ListArrives(result.content, value.content, SameNumbers)
  BY <1>1, TextIsMore DEF Kept
<1>4. QED
  BY <1>1, <1>2, <1>3 DEF ListsArrive, Kept

\* and the other.
LEMMA KeptTextArrives ==
    CodecInv => TextArrives
  BY DoneIsKept DEF TextArrives, Kept

\* ListsArrive: see DataType.  For lists of any length, of any users, groups
\* and messages, as long as the object fits an int, what the six Serialize()
\* of DataType.h write is found again by UnSerialize() at the other end.
THEOREM ListsKept == CodecSpec => []ListsArrive
<1>1. CodecInit => CodecInv
  BY CodecInvStart
<1>2. CodecInv /\ [CodecNext]_codecVars => CodecInv'
  BY CodecInvStep
<1>3. CodecInv => ListsArrive
  BY KeptListsArrive
<1>4. QED
  BY <1>1, <1>2, <1>3, PTL DEF CodecSpec

\* TextArrives: see DataType.  The text of a message ends at its terminator,
\* however long it is and whatever the sizes before it, read as chars, say.
THEOREM TextKept == CodecSpec => []TextArrives
<1>1. CodecInit => CodecInv
  BY CodecInvStart
<1>2. CodecInv /\ [CodecNext]_codecVars => CodecInv'
  BY CodecInvStep
<1>3. CodecInv => TextArrives
  BY KeptTextArrives
<1>4. QED
  BY <1>1, <1>2, <1>3, PTL DEF CodecSpec

=============================================================================
