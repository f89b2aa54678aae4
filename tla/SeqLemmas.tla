------------------------------- MODULE SeqLemmas -------------------------------
(***************************************************************************)
(* Facts about the sequence operators the models are built from, for the   *)
(* proofs of the components.                                               *)
(***************************************************************************)
EXTENDS SequencesExt, Integers, SequenceTheorems, WellFoundedInduction, TLAPS

\* A set of naturals that is not empty has a least element.
LEMMA LeastElement ==
    ASSUME NEW I, I \subseteq Nat, I # {}
    PROVE  /\ Min(I) \in I
           /\ \A m \in I : Min(I) <= m
  <1>1. PICK n \in I : \A m \in I : ~ (<<m, n>> \in OpToRel(<, Nat))
    BY WFMin, NatLessThanWellFounded
  <1>2. \A m \in I : n <= m
    <2> SUFFICES ASSUME NEW m \in I, ~ (n <= m)
                 PROVE  FALSE
      OBVIOUS
    <2>1. m \in Nat /\ n \in Nat /\ m < n
      OBVIOUS
    <2>2. <<m, n>> \in Nat \X Nat /\ <<m, n>>[1] < <<m, n>>[2]
      BY <2>1
    <2>3. <<m, n>> \in OpToRel(<, Nat)
      BY <2>2 DEF OpToRel
    <2> QED
      BY <1>1, <2>3
  <1> QED
    BY <1>2 DEF Min

\* A position of a sequence that is removed leaves a sequence over the same set.
LEMMA RemoveAtType ==
    ASSUME NEW S, NEW s \in Seq(S), NEW i \in 1 .. Len(s)
    PROVE  /\ RemoveAt(s, i) \in Seq(S)
           /\ Len(RemoveAt(s, i)) = Len(s) - 1
  <1>0. Len(s) \in Nat
    BY LenProperties
  <1>1. \A j \in 1 .. i - 1 : s[j] \in S
    BY <1>0, ElementOfSeq
  <1>2. \A j \in i + 1 .. Len(s) : s[j] \in S
    BY <1>0, ElementOfSeq
  <1>3. /\ SubSeq(s, 1, i - 1) \in Seq(S)
        /\ Len(SubSeq(s, 1, i - 1)) = i - 1
    BY <1>0, <1>1, SubSeqProperties
  <1>4. /\ SubSeq(s, i + 1, Len(s)) \in Seq(S)
        /\ Len(SubSeq(s, i + 1, Len(s))) = Len(s) - i
    BY <1>0, <1>2, SubSeqProperties
  <1>5. RemoveAt(s, i) = SubSeq(s, 1, i - 1) \o SubSeq(s, i + 1, Len(s))
    BY DEF RemoveAt
  <1>6. Len(RemoveAt(s, i)) = Len(SubSeq(s, 1, i - 1)) + Len(SubSeq(s, i + 1, Len(s)))
    BY <1>3, <1>4, <1>5, ConcatProperties
  <1>7. RemoveAt(s, i) \in Seq(S)
    BY <1>3, <1>4, <1>5, ConcatProperties
  <1>8. \A a, b, c \in Nat : a \in 1 .. b /\ c = (a - 1) + (b - a) => c = b - 1
    OBVIOUS
  <1>9. Len(RemoveAt(s, i)) = (i - 1) + (Len(s) - i) /\ Len(RemoveAt(s, i)) \in Nat
    BY <1>3, <1>4, <1>6, <1>7, LenProperties
  <1> QED
    BY <1>0, <1>7, <1>8, <1>9

\* list_remove_element removes at most one element and adds none.
LEMMA RemoveFirstType ==
    ASSUME NEW S, NEW s \in Seq(S), NEW e
    PROVE  /\ RemoveFirst(s, e) \in Seq(S)
           /\ Len(RemoveFirst(s, e)) \in {Len(s), Len(s) - 1}
  <1>1. CASE \E i \in 1 .. Len(s) : s[i] = e
    <2> DEFINE I == {i \in 1 .. Len(s) : s[i] = e}
    <2>1. I # {} /\ I \subseteq Nat
      BY <1>1, LenProperties
    <2>3. Min(I) \in I
      BY <2>1, LeastElement
    <2>4. SelectInSeq(s, LAMBDA v : v = e) = Min(I)
      BY <2>1 DEF SelectInSeq
    <2>5. RemoveFirst(s, e) = RemoveAt(s, Min(I))
      BY <1>1, <2>4 DEF RemoveFirst
    <2> QED
      BY <2>3, <2>5, RemoveAtType
  <1>2. CASE ~ \E i \in 1 .. Len(s) : s[i] = e
    BY <1>2 DEF RemoveFirst
  <1> QED
    BY <1>1, <1>2

\* A queue that is appended to, or popped, stays a sequence over the same set.
LEMMA TailType ==
    ASSUME NEW S, NEW s \in Seq(S), s # <<>>
    PROVE  /\ Head(s) \in S
           /\ Tail(s) \in Seq(S)
           /\ Len(s) \in Nat \ {0}
           /\ Len(Tail(s)) = Len(s) - 1
  BY HeadTailProperties, EmptySeq

\* A rearrangement of a sequence is a sequence over the same set, as long.
LEMMA PermutationType ==
    ASSUME NEW S, NEW s \in Seq(S), NEW f \in [1 .. Len(s) -> 1 .. Len(s)]
    PROVE  /\ [i \in 1 .. Len(s) |-> s[f[i]]] \in Seq(S)
           /\ Len([i \in 1 .. Len(s) |-> s[f[i]]]) = Len(s)
  <1> DEFINE t == [i \in 1 .. Len(s) |-> s[f[i]]]
  <1>1. Len(s) \in Nat
    BY LenProperties
  <1>2. t \in [1 .. Len(s) -> S]
    BY ElementOfSeq
  <1>3. t \in Seq(S)
    BY <1>1, <1>2, SeqDef
  <1>4. DOMAIN t = 1 .. Len(t) /\ DOMAIN t = 1 .. Len(s)
    BY <1>3, LenProperties
  <1> QED
    BY <1>1, <1>3, <1>4, LenProperties

\* Positions of a sequence that grows stay positions of it.
LEMMA GrowType ==
    ASSUME NEW n \in Nat, NEW q \in Seq(1 .. n)
    PROVE  q \in Seq(1 .. n + 1)
  BY SeqMonotonic
=============================================================================
