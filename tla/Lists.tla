------------------------------- MODULE Lists -------------------------------
(* What the operations on QList and on queues that the modules use do to    *)
(* the elements of a sequence; and the induction over the positions that a  *)
(* loop goes through.                                                       *)
EXTENDS Integers, Sequences, SequencesExt, SequenceTheorems,
        WellFoundedInduction, TLAPS

Distinct(s) == \A i, j \in DOMAIN s : s[i] = s[j] => i = j

\* Append adds one element to a list that did not have it.
LEMMA AppendToList ==
    ASSUME NEW S, NEW s \in Seq(S), NEW e \in S
    PROVE  /\ Append(s, e) \in Seq(S)
           /\ ToSet(Append(s, e)) = ToSet(s) \union {e}
           /\ Distinct(s) /\ e \notin ToSet(s) => Distinct(Append(s, e))
  <1>1. /\ Append(s, e) \in Seq(S)
        /\ Len(s) \in Nat /\ DOMAIN s = 1..Len(s)
        /\ DOMAIN Append(s, e) = 1..(Len(s) + 1)
        /\ \A i \in 1..Len(s) : Append(s, e)[i] = s[i]
        /\ Append(s, e)[Len(s) + 1] = e
    BY AppendProperties, LenProperties
  <1>2. ToSet(Append(s, e)) = ToSet(s) \union {e}
    <2>1. ToSet(Append(s, e)) \subseteq ToSet(s) \union {e}
      BY <1>1 DEF ToSet
    <2>2. ToSet(s) \union {e} \subseteq ToSet(Append(s, e))
      BY <1>1 DEF ToSet
    <2> QED
      BY <2>1, <2>2
  <1>3. Distinct(s) /\ e \notin ToSet(s) => Distinct(Append(s, e))
    BY <1>1 DEF Distinct, ToSet
  <1> QED
    BY <1>1, <1>2, <1>3

\* RemoveAt leaves the elements at the other positions.
LEMMA RemoveAtList ==
    ASSUME NEW S, NEW s \in Seq(S), NEW i \in 1..Len(s)
    PROVE  /\ RemoveAt(s, i) \in Seq(S)
           /\ Len(RemoveAt(s, i)) = Len(s) - 1
           /\ \A j \in 1..(Len(s) - 1) :
                 RemoveAt(s, i)[j] = IF j < i THEN s[j] ELSE s[j + 1]
  <1> DEFINE front == SubSeq(s, 1, i - 1)
             back  == SubSeq(s, i + 1, Len(s))
  <1>1. Len(s) \in Nat /\ \A k \in 1..Len(s) : s[k] \in S
    BY LenProperties
  <1>2. /\ front \in Seq(S) /\ Len(front) = i - 1
        /\ \A j \in 1..(i - 1) : front[j] = s[j]
    BY <1>1, SubSeqProperties
  <1>3. /\ back \in Seq(S) /\ Len(back) = Len(s) - i
        /\ \A j \in 1..(Len(s) - i) : back[j] = s[i + j]
    BY <1>1, SubSeqProperties
  <1> HIDE DEF front, back
  <1>4. /\ front \o back \in Seq(S)
        /\ Len(front \o back) = Len(s) - 1
        /\ \A j \in 1..(Len(s) - 1) :
              (front \o back)[j] = IF j <= i - 1 THEN front[j] ELSE back[j - (i - 1)]
    <2>1. /\ front \o back \in Seq(S)
          /\ Len(front \o back) = Len(front) + Len(back)
          /\ \A j \in 1..(Len(front) + Len(back)) :
                (front \o back)[j] = IF j <= Len(front) THEN front[j]
                                                       ELSE back[j - Len(front)]
      BY <1>2, <1>3, ConcatProperties
    <2>2. Len(front) + Len(back) = Len(s) - 1
      BY <1>1, <1>2, <1>3
    <2> QED
      BY <1>2, <2>1, <2>2
  <1>5. RemoveAt(s, i) = front \o back
    BY DEF RemoveAt, front, back
  <1> QED
    BY <1>1, <1>2, <1>3, <1>4, <1>5

\* RemoveFirst takes an element out of a list that has it once.
LEMMA RemoveFromList ==
    ASSUME NEW S, NEW s \in Seq(S), NEW e \in ToSet(s), Distinct(s)
    PROVE  /\ RemoveFirst(s, e) \in Seq(S)
           /\ ToSet(RemoveFirst(s, e)) = ToSet(s) \ {e}
           /\ Distinct(RemoveFirst(s, e))
  <1>1. Len(s) \in Nat /\ DOMAIN s = 1..Len(s)
    BY LenProperties
  <1>2. PICK i \in 1..Len(s) : s[i] = e
    BY <1>1 DEF ToSet
  <1> DEFINE r == RemoveAt(s, i)
  <1>3. RemoveFirst(s, e) = r
    <2>1. {k \in 1..Len(s) : s[k] = e} = {i}
      BY <1>1, <1>2 DEF Distinct
    <2>2. Min({i}) = i
      BY DEF Min
    <2> QED
      BY <1>2, <2>1, <2>2 DEF RemoveFirst, SelectInSeq
  <1>4. /\ r \in Seq(S)
        /\ DOMAIN r = 1..(Len(s) - 1)
        /\ \A j \in 1..(Len(s) - 1) : r[j] = IF j < i THEN s[j] ELSE s[j + 1]
    BY <1>1, <1>2, RemoveAtList, LenProperties
  <1> HIDE DEF r
  <1>5. Distinct(r)
    <2> SUFFICES ASSUME NEW j \in 1..(Len(s) - 1), NEW k \in 1..(Len(s) - 1),
                        r[j] = r[k]
                 PROVE  j = k
      BY <1>4 DEF Distinct
    <2> DEFINE at(l) == IF l < i THEN l ELSE l + 1
    <2>1. /\ at(j) \in DOMAIN s /\ at(k) \in DOMAIN s
          /\ r[j] = s[at(j)] /\ r[k] = s[at(k)]
      BY <1>1, <1>4
    <2>2. at(j) = at(k)
      BY <2>1 DEF Distinct
    <2> QED
      BY <1>1, <2>2
  <1>6. ToSet(r) \subseteq ToSet(s) \ {e}
    <2> SUFFICES ASSUME NEW j \in 1..(Len(s) - 1)
                 PROVE  r[j] \in ToSet(s) /\ r[j] # e
      BY <1>4 DEF ToSet
    <2>1. PICK l \in 1..Len(s) : l # i /\ r[j] = s[l]
      <3>1. CASE j < i
        BY <1>1, <1>2, <1>4, <3>1
      <3>2. CASE ~(j < i)
        <4>1. j + 1 \in 1..Len(s) /\ j + 1 # i
          BY <1>1, <1>2, <3>2
        <4> QED
          BY <1>4, <3>2, <4>1
      <3> QED
        BY <3>1, <3>2
    <2>2. s[l] # e
      BY <1>1, <1>2, <2>1 DEF Distinct
    <2> QED
      BY <1>1, <2>1, <2>2 DEF ToSet
  <1>7. ToSet(s) \ {e} \subseteq ToSet(r)
    <2> SUFFICES ASSUME NEW k \in 1..Len(s), s[k] # e PROVE s[k] \in ToSet(r)
      BY <1>1 DEF ToSet
    <2>1. CASE k < i
      BY <1>1, <1>2, <1>4, <2>1 DEF ToSet
    <2>2. CASE k > i
      <3>1. k - 1 \in 1..(Len(s) - 1) /\ r[k - 1] = s[k]
        BY <1>1, <1>2, <1>4, <2>2
      <3> QED
        BY <1>4, <3>1 DEF ToSet
    <2> QED
      BY <1>2, <2>1, <2>2
  <1> QED
    BY <1>3, <1>4, <1>5, <1>6, <1>7

\* What a loop takes from its list was in it.
LEMMA HeadAndTail ==
    ASSUME NEW S, NEW s \in Seq(S), s # <<>>
    PROVE  /\ Head(s) \in ToSet(s) /\ Head(s) \in S
           /\ Tail(s) \in Seq(S)
           /\ ToSet(Tail(s)) \subseteq ToSet(s)
  BY HeadTailProperties, LenProperties, EmptySeq DEF ToSet

----------------------------------------------------------------------------
Less == {ss \in Nat \X Nat : ss[1] < ss[2]}

LEMMA LessIsWellFounded == IsWellFoundedOn(Less, Nat)
  <1>1. Less = OpToRel(<, Nat)
    BY Zenon DEF Less, OpToRel
  <1> QED
    BY <1>1, NatLessThanWellFounded, Zenon

\* A set of numbers has a least one.
LEMMA LeastNumber ==
    ASSUME NEW T, T \subseteq Nat, T # {}
    PROVE  \E x \in T : \A y \in T : x <= y
  <1>1. PICK x \in T : \A y \in T : ~(<<y, x>> \in Less)
    BY LessIsWellFounded, WFMin
  <1>2. ASSUME NEW y \in T, y < x PROVE <<y, x>> \in Less
    BY <1>2 DEF Less
  <1>3. \A y \in T : ~(y < x)
    BY <1>1, <1>2
  <1>4. \A y \in T : x <= y
    BY <1>3
  <1> QED
    BY <1>4

\* Induction, about sets of numbers.
LEMMA SetInduction ==
    ASSUME NEW S, 0 \in S, \A n \in Nat : n \in S => n + 1 \in S
    PROVE  \A n \in Nat : n \in S
  <1> DEFINE T == {n \in Nat : n \notin S}
  <1> SUFFICES ASSUME T # {} PROVE FALSE
    OBVIOUS
  <1>1. PICK x \in T : \A y \in T : x <= y
    <2>1. T \subseteq Nat
      OBVIOUS
    <2> HIDE DEF T
    <2> QED
      BY <2>1, LeastNumber
  <1>2. x # 0 /\ x - 1 \in Nat
    OBVIOUS
  <1>3. x - 1 \in S
    BY <1>1, <1>2
  <1> QED
    BY <1>2, <1>3

\* Induction along a loop that ends at n.
LEMMA LoopInduction ==
    ASSUME NEW n \in Nat, NEW S, 0 \in S,
           \A i \in 1..n : i - 1 \in S => i \in S
    PROVE  \A i \in 0..n : i \in S
  <1> DEFINE R == {i \in Nat : i <= n => i \in S}
  <1>1. 0 \in R
    OBVIOUS
  <1>2. ASSUME NEW i \in Nat, i \in R PROVE i + 1 \in R
    <2> SUFFICES ASSUME i + 1 <= n PROVE i + 1 \in S
      OBVIOUS
    <2>1. i + 1 \in 1..n /\ (i + 1) - 1 \in S
      BY <1>2
    <2> QED
      BY <2>1
  <1> HIDE DEF R
  <1>3. \A i \in Nat : i \in R
    BY <1>1, <1>2, SetInduction
  <1> QED
    BY <1>3 DEF R

=============================================================================
