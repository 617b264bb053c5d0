---------------------------- MODULE SequenceFacts ----------------------------
(***************************************************************************)
(* Lemmas about sequences, finite sets and induction that the proofs of    *)
(* several components cite.                                                *)
(***************************************************************************)
EXTENDS Integers, Sequences, FiniteSets, SequenceTheorems, FiniteSetTheorems,
        NaturalsInduction, WellFoundedInduction, TLAPS

\* A sequence with one element replaced.
LEMMA Replaced ==
    ASSUME NEW S, NEW s \in Seq(S), NEW i \in DOMAIN s, NEW e \in S
    PROVE  /\ [s EXCEPT ![i] = e] \in Seq(S)
           /\ Len([s EXCEPT ![i] = e]) = Len(s)
           /\ DOMAIN [s EXCEPT ![i] = e] = DOMAIN s
           /\ \A j \in DOMAIN s : [s EXCEPT ![i] = e][j] = IF j = i THEN e ELSE s[j]
<1>1. i \in 1 .. Len(s) /\ DOMAIN s = 1 .. Len(s)  BY LenProperties
<1> QED  BY <1>1, ExceptSeq

\* A sequence with one element more.
LEMMA Appended ==
    ASSUME NEW S, NEW s \in Seq(S), NEW e \in S
    PROVE  /\ Append(s, e) \in Seq(S)
           /\ Len(Append(s, e)) = Len(s) + 1
           /\ DOMAIN Append(s, e) = 1 .. (Len(s) + 1)
           /\ DOMAIN s = 1 .. Len(s) /\ Len(s) \in Nat
           /\ \A j \in DOMAIN s : Append(s, e)[j] = s[j]
           /\ Append(s, e)[Len(s) + 1] = e
BY AppendProperties, LenProperties

\* A function on 1 .. n is a sequence of length n.
LEMMA IsSequence ==
    ASSUME NEW S, NEW n \in Nat, NEW f \in [1 .. n -> S]
    PROVE  f \in Seq(S) /\ Len(f) = n
<1>1. f \in Seq(S)  BY SeqDef
<1>2. DOMAIN f = 1 .. n  OBVIOUS
<1> QED  BY <1>1, <1>2, LenProperties

\* Two sequences joined.
LEMMA Joined ==
    ASSUME NEW S, NEW s \in Seq(S), NEW t \in Seq(S)
    PROVE  /\ s \o t \in Seq(S) /\ Len(s \o t) = Len(s) + Len(t)
           /\ \A i \in 1 .. Len(s) : (s \o t)[i] = s[i]
           /\ \A i \in 1 .. Len(t) : (s \o t)[Len(s) + i] = t[i]
<1>1. Len(s) \in Nat /\ Len(t) \in Nat  BY LenProperties
<1>2. /\ s \o t \in Seq(S) /\ Len(s \o t) = Len(s) + Len(t)
      /\ \A i \in 1 .. Len(s) + Len(t) :
            (s \o t)[i] = IF i <= Len(s) THEN s[i] ELSE t[i - Len(s)]
  BY ConcatProperties
<1>3. \A i \in 1 .. Len(s) : (s \o t)[i] = s[i]  BY <1>1, <1>2
<1>4. ASSUME NEW i \in 1 .. Len(t) PROVE (s \o t)[Len(s) + i] = t[i]
  <2>1. Len(s) + i \in 1 .. Len(s) + Len(t) /\ ~(Len(s) + i <= Len(s))
        /\ Len(s) + i - Len(s) = i
    BY <1>1
  <2> QED  BY <1>2, <2>1
<1> QED  BY <1>2, <1>3, <1>4

\* A set of numbered things with no two members has at most one.
LEMMA AtMostOne ==
    ASSUME NEW n \in Nat, NEW S \in SUBSET (1 .. n), \A a, b \in S : a = b
    PROVE  IsFiniteSet(S) /\ (Cardinality(S) = 0 \/ Cardinality(S) = 1)
           /\ (S = {} => Cardinality(S) = 0)
<1>1. IsFiniteSet(S)  BY FS_Interval, FS_Subset, 1 \in Int, n \in Int
<1>2. CASE S = {}  BY <1>1, <1>2, FS_EmptySet
<1>3. CASE S # {}
  <2>1. PICK a : a \in S  BY <1>3
  <2>2. S = {a}  BY <2>1
  <2> QED  BY <1>1, <1>3, <2>2, FS_Singleton
<1> QED  BY <1>2, <1>3

\* Induction, for the numbers in a set.
LEMMA SetInduction ==
    ASSUME NEW S, 0 \in S, \A n \in Nat : n \in S => n + 1 \in S
    PROVE  Nat \subseteq S
<1> SUFFICES ASSUME NEW m \in Nat, m \notin S PROVE FALSE  OBVIOUS
<1> DEFINE T == Nat \ S
<1>1. T \in SUBSET Nat /\ T # {}  OBVIOUS
<1>2. PICK x \in T : \A y \in T : ~(<<y, x>> \in OpToRel(<, Nat))
  BY <1>1, WFMin, NatLessThanWellFounded
<1>3. x # 0 /\ x - 1 \in Nat /\ x - 1 + 1 = x /\ x - 1 < x  OBVIOUS
<1>4. <<x - 1, x>> \in OpToRel(<, Nat)  BY <1>3 DEF OpToRel
<1> QED  BY <1>2, <1>3, <1>4

\* Every set of numbers up to n can be listed in ascending order.
LEMMA AscendingExists ==
    ASSUME NEW n \in Nat, NEW S \in SUBSET (1 .. n)
    PROVE  \E q \in [1 .. Cardinality(S) -> S] : \A i, j \in DOMAIN q : i < j => q[i] < q[j]
<1> DEFINE Listed(U) == \E q \in [1 .. Cardinality(U) -> U] :
                            \A i, j \in DOMAIN q : i < j => q[i] < q[j]
           P == {k \in Nat : \A U \in SUBSET (1 .. k) : Listed(U)}
<1>1. 0 \in P
  <2> SUFFICES ASSUME NEW U \in SUBSET (1 .. 0) PROVE Listed(U)  OBVIOUS
  <2>1. U = {}  OBVIOUS
  <2>2. Cardinality(U) = 0  BY <2>1, FS_EmptySet
  <2>3. <<>> \in [1 .. 0 -> U] /\ DOMAIN <<>> = {}  OBVIOUS
  <2> QED  BY <2>2, <2>3
<1>2. ASSUME NEW k \in Nat, k \in P PROVE k + 1 \in P
  <2> SUFFICES ASSUME NEW U \in SUBSET (1 .. (k + 1)) PROVE Listed(U)  BY k + 1 \in Nat
  <2>1. CASE k + 1 \notin U
    <3>1. U \in SUBSET (1 .. k)  BY <2>1
    <3> QED  BY <1>2, <3>1
  <2>2. CASE k + 1 \in U
    <3> DEFINE V == U \ {k + 1}
               c == Cardinality(V)
    <3>1. V \in SUBSET (1 .. k)  OBVIOUS
    <3>2. IsFiniteSet(V) /\ V \cup {k + 1} = U /\ k + 1 \notin V
      BY <2>2, <3>1, FS_Interval, FS_Subset, 1 \in Int, k \in Int
    <3>3. c \in Nat /\ Cardinality(U) = c + 1
      BY <3>2, FS_CardinalityType, FS_AddElement
    <3>4. PICK q \in [1 .. c -> V] : \A i, j \in DOMAIN q : i < j => q[i] < q[j]
      <4>1. Listed(V)  BY <1>2, <3>1
      <4> QED  BY <4>1
    <3> HIDE DEF c, V
    <3> DEFINE r == [i \in 1 .. (c + 1) |-> IF i = c + 1 THEN k + 1 ELSE q[i]]
    <3>5. \A i \in 1 .. c : q[i] \in V  BY <3>4
    <3>6. r \in [1 .. (c + 1) -> U]
      <4> SUFFICES ASSUME NEW i \in 1 .. (c + 1), i # c + 1 PROVE q[i] \in U  BY <2>2
      <4>1. i \in 1 .. c  BY <3>3
      <4> QED  BY <3>5, <4>1 DEF V
    <3>7. ASSUME NEW i \in 1 .. (c + 1), NEW j \in 1 .. (c + 1), i < j PROVE r[i] < r[j]
      <4>1. i \in 1 .. c /\ i # c + 1  BY <3>3, <3>7
      <4>2. r[i] = q[i] /\ q[i] \in 1 .. k  BY <3>1, <3>5, <4>1
      <4>3. CASE j = c + 1  BY <4>2, <4>3
      <4>4. CASE j # c + 1
        <5>1. j \in 1 .. c /\ r[j] = q[j]  BY <3>3, <4>4
        <5> QED  BY <3>4, <3>7, <4>1, <4>2, <5>1
      <4> QED  BY <4>3, <4>4
    <3>8. DOMAIN r = 1 .. (c + 1)  OBVIOUS
    <3> HIDE DEF r
    <3>9. \A i, j \in DOMAIN r : i < j => r[i] < r[j]  BY <3>7, <3>8
    <3> QED  BY <3>3, <3>6, <3>9
  <2> QED  BY <2>1, <2>2
<1> HIDE DEF P
<1>3. Nat \subseteq P  BY <1>1, <1>2, SetInduction
<1>4. n \in P  BY <1>3
<1> QED  BY <1>4 DEF P

\* Listed in ascending order, a set of numbers is listed completely.
LEMMA AscendingIsAll ==
    ASSUME NEW n \in Nat, NEW S \in SUBSET (1 .. n),
           NEW q \in [1 .. Cardinality(S) -> S],
           \A i, j \in DOMAIN q : i < j => q[i] < q[j]
    PROVE  /\ q \in Seq(S) /\ \A p \in S : \E i \in DOMAIN q : q[i] = p
           /\ \A i, j \in DOMAIN q : q[i] < q[j] => i < j
<1> DEFINE c == Cardinality(S)
<1>1. IsFiniteSet(S)  BY FS_Interval, FS_Subset, 1 \in Int, n \in Int
<1>2. c \in Nat  BY <1>1, FS_CardinalityType
<1>3. IsFiniteSet(1 .. c) /\ Cardinality(1 .. c) = c
  BY <1>2, FS_Interval, 1 \in Int, c \in Int
<1>4. DOMAIN q = 1 .. c /\ \A i \in 1 .. c : q[i] \in 1 .. n  OBVIOUS
<1>5. ASSUME NEW i \in 1 .. c, NEW j \in 1 .. c, q[i] = q[j] PROVE i = j
  <2>1. i < j \/ j < i \/ i = j  BY <1>2
  <2> QED  BY <1>4, <1>5, <2>1
<1>6. q \in Injection(1 .. c, S)  BY <1>5 DEF Injection, IsInjective
<1>7. q \in Surjection(1 .. c, S)  BY <1>1, <1>3, <1>6, FS_Injection
<1>8. \A p \in S : \E i \in 1 .. c : q[i] = p  BY <1>7 DEF Surjection
<1>9. q \in Seq(S)  BY <1>2, IsSequence
<1>10. ASSUME NEW i \in 1 .. c, NEW j \in 1 .. c, q[i] < q[j] PROVE i < j
  <2>1. i < j \/ j < i \/ i = j  BY <1>2
  <2> QED  BY <1>4, <1>10, <2>1
<1> QED  BY <1>4, <1>8, <1>9, <1>10

\* Prefixes and tails of a sequence are sequences of the same kind.
LEMMA Shortened ==
    ASSUME NEW S, NEW s \in Seq(S)
    PROVE  /\ \A n \in 0 .. Len(s) : SubSeq(s, 1, n) \in Seq(S)
           /\ s # <<>> => /\ Tail(s) \in Seq(S) /\ Head(s) \in S /\ Head(s) = s[1]
                          /\ 1 \in DOMAIN s /\ Len(s) \in Nat
                          /\ DOMAIN s = 1 .. Len(s) /\ DOMAIN Tail(s) = 1 .. (Len(s) - 1)
                          /\ \A i \in DOMAIN Tail(s) : i + 1 \in DOMAIN s /\ Tail(s)[i] = s[i + 1]
                          /\ \A i \in DOMAIN s : i # 1 => i - 1 \in DOMAIN Tail(s)
                                                          /\ Tail(s)[i - 1] = s[i]
<1>1. Len(s) \in Nat /\ DOMAIN s = 1 .. Len(s)  BY LenProperties
<1>2. ASSUME NEW n \in 0 .. Len(s) PROVE SubSeq(s, 1, n) \in Seq(S)
  <2>1. n \in Int /\ 1 \in Int /\ \A i \in 1 .. n : s[i] \in S  BY <1>1, ElementOfSeq
  <2> QED  BY <2>1, SubSeqProperties
<1>3. ASSUME s # <<>>
      PROVE  /\ Tail(s) \in Seq(S) /\ Head(s) \in S /\ Head(s) = s[1]
             /\ 1 \in DOMAIN s /\ DOMAIN Tail(s) = 1 .. (Len(s) - 1)
             /\ \A i \in DOMAIN Tail(s) : i + 1 \in DOMAIN s /\ Tail(s)[i] = s[i + 1]
             /\ \A i \in DOMAIN s : i # 1 => i - 1 \in DOMAIN Tail(s) /\ Tail(s)[i - 1] = s[i]
  <2>1. /\ Head(s) \in S /\ Tail(s) \in Seq(S) /\ Len(Tail(s)) = Len(s) - 1
        /\ \A i \in 1 .. Len(Tail(s)) : Tail(s)[i] = s[i + 1]
    BY <1>3, HeadTailProperties
  <2>2. Len(s) # 0  BY <1>3, EmptySeq
  <2>3. DOMAIN Tail(s) = 1 .. (Len(s) - 1)  BY <2>1, LenProperties
  <2>4. \A i \in DOMAIN Tail(s) : i + 1 \in DOMAIN s /\ Tail(s)[i] = s[i + 1]
    BY <1>1, <2>1, <2>3
  <2>5. ASSUME NEW i \in DOMAIN s, i # 1
        PROVE  i - 1 \in DOMAIN Tail(s) /\ Tail(s)[i - 1] = s[i]
    <3>1. i - 1 \in DOMAIN Tail(s) /\ i - 1 + 1 = i  BY <1>1, <2>3, <2>5
    <3> QED  BY <2>4, <3>1
  <2>6. Head(s) = s[1]  OBVIOUS
  <2> QED  BY <1>1, <2>1, <2>2, <2>3, <2>4, <2>5, <2>6
<1> QED  BY <1>1, <1>2, <1>3
=============================================================================
