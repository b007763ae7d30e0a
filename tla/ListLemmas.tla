----------------------------- MODULE ListLemmas -----------------------------
(***************************************************************************)
(* What the list operations of the models do to a sequence, element by     *)
(* element, for the proofs to cite.                                        *)
(***************************************************************************)
EXTENDS Naturals, Sequences, SequencesExt, SequenceTheorems, WellFoundedInduction, TLAPS

(* Dropping the last element (a call of the traversal returns). *)
LEMMA FrontProperties ==
  ASSUME NEW S, NEW s \in Seq(S), s # <<>>
  PROVE  /\ Front(s) \in Seq(S)
         /\ Len(Front(s)) = Len(s) - 1
         /\ \A i \in 1 .. Len(s) - 1 : Front(s)[i] = s[i]
<1>1. Len(s) \in Nat \ {0}
  BY EmptySeq, LenProperties
<1> DEFINE n == Len(s) - 1
<1>3. n \in Nat
  BY <1>1
<1>2. \A i \in 1 .. n : s[i] \in S
  BY <1>1, ElementOfSeq
<1>4. /\ SubSeq(s, 1, n) \in Seq(S)
      /\ Len(SubSeq(s, 1, n)) = n
      /\ \A i \in 1 .. n : SubSeq(s, 1, n)[i] = s[i]
  <2> HIDE DEF n
  <2> QED
    BY <1>2, <1>3, SubSeqProperties
<1> QED
  BY <1>4 DEF Front

(* The last element of a list. *)
LEMMA LastProperties ==
  ASSUME NEW S, NEW s \in Seq(S), s # <<>>
  PROVE  Len(s) \in Nat \ {0} /\ s[Len(s)] \in S
<1>1. Len(s) \in Nat \ {0}
  BY EmptySeq
<1> QED
  BY <1>1, ElementOfSeq

(* Where the elements around a gap at i are before and after it is closed.   *)
LEMMA GapIndices ==
  ASSUME NEW n \in Nat, NEW i \in 1 .. n, NEW j \in 1 .. n - 1
  PROVE  /\ j \in 1 .. (i - 1) + (n - i)
         /\ j < i => j <= i - 1 /\ j \in 1 .. i - 1
         /\ ~(j < i) => /\ ~(j <= i - 1) /\ j - (i - 1) \in 1 .. n - i
                       /\ i + (j - (i - 1)) = j + 1
OBVIOUS

(* Closing the gap an element leaves (task_tree_remove_child). *)
LEMMA RemoveAtProperties ==
  ASSUME NEW S, NEW s \in Seq(S), NEW i \in DOMAIN s
  PROVE  /\ RemoveAt(s, i) \in Seq(S)
         /\ Len(RemoveAt(s, i)) = Len(s) - 1
         /\ \A j \in 1 .. Len(s) - 1 :
              RemoveAt(s, i)[j] = IF j < i THEN s[j] ELSE s[j + 1]
<1> DEFINE a == SubSeq(s, 1, i - 1)
           b == SubSeq(s, i + 1, Len(s))
           r == a \o b
<1>1. Len(s) \in Nat /\ i \in 1 .. Len(s)
  BY LenProperties
<1>2. /\ a \in Seq(S)
      /\ Len(a) = i - 1
      /\ \A j \in 1 .. i - 1 : a[j] = s[j]
  BY <1>1, SubSeqProperties
<1>3. /\ b \in Seq(S)
      /\ Len(b) = Len(s) - i
      /\ \A j \in 1 .. Len(s) - i : b[j] = s[i + j]
  BY <1>1, SubSeqProperties
<1> HIDE DEF a, b
<1>4. /\ r \in Seq(S)
      /\ Len(r) = Len(a) + Len(b)
      /\ \A j \in 1 .. Len(a) + Len(b) :
           r[j] = IF j <= Len(a) THEN a[j] ELSE b[j - Len(a)]
  BY <1>2, <1>3, ConcatProperties
<1> HIDE DEF r
<1> DEFINE n  == Len(s)
           la == Len(a)
           lb == Len(b)
<1>5. n \in Nat /\ i \in 1 .. n /\ la = i - 1 /\ lb = n - i
  BY <1>1, <1>2, <1>3
<1>7. ASSUME NEW j \in 1 .. n - 1
      PROVE  r[j] = IF j < i THEN s[j] ELSE s[j + 1]
  <2>1. r[j] = IF j <= la THEN a[j] ELSE b[j - la]
    <3> HIDE DEF n, la, lb
    <3>1. j \in 1 .. la + lb
      BY <1>5, GapIndices
    <3>2. \A k \in 1 .. la + lb : r[k] = IF k <= la THEN a[k] ELSE b[k - la]
      BY <1>4 DEF la, lb
    <3> QED
      BY <3>1, <3>2
  <2>2. \A k \in 1 .. i - 1 : a[k] = s[k]
    BY <1>2
  <2>3. \A k \in 1 .. n - i : b[k] = s[i + k]
    BY <1>3
  <2> HIDE DEF n, la, lb
  <2>4. CASE j < i
    <3>1. j <= la /\ j \in 1 .. i - 1
      BY <1>5, <2>4
    <3> QED
      BY <2>1, <2>2, <2>4, <3>1, Zenon
  <2>5. CASE ~(j < i)
    <3> DEFINE d == j - la
    <3>1. ~(j <= la) /\ d \in 1 .. n - i /\ i + d = j + 1
      BY <1>5, <2>5, GapIndices
    <3>2. r[j] = b[d]
      BY <2>1, <3>1
    <3> HIDE DEF d
    <3>3. b[d] = s[i + d]
      BY <2>3, <3>1
    <3>4. s[i + d] = s[j + 1]
      BY <3>1
    <3> QED
      BY <2>5, <3>2, <3>3, <3>4, Zenon
  <2> QED
    BY <2>4, <2>5
<1>8. r \in Seq(S) /\ Len(r) = n - 1
  <2>1. r \in Seq(S) /\ Len(r) = la + lb
    BY <1>4
  <2> HIDE DEF n, la, lb
  <2> QED
    BY <1>5, <2>1
<1>6. r = RemoveAt(s, i)
  BY DEF a, b, r, RemoveAt
<1> QED
  BY <1>6, <1>7, <1>8

(* Adding an element at the end, and taking the first one away. *)
LEMMA AppendElements ==
  ASSUME NEW S, NEW s \in Seq(S), NEW m \in S
  PROVE  LET a == Append(s, m) IN
         /\ a = [i \in 1 .. Len(s) + 1 |-> a[i]]
         /\ \A i \in 1 .. Len(s) : a[i] = s[i]
         /\ a[Len(s) + 1] = m
<1> DEFINE a == Append(s, m)
           n == Len(s)
<1>1. n \in Nat /\ s \in [1 .. n -> S]
  BY LenProperties
<1>2. a \in Seq(S) /\ Len(a) = n + 1 /\ \A i \in 1 .. n : a[i] = s[i]
  BY AppendProperties
<1>3. a[n + 1] = m
  BY AppendProperties
<1>4. a \in [1 .. n + 1 -> S]
  <2>1. a \in [1 .. Len(a) -> S]
    BY <1>2, LenProperties
  <2> HIDE DEF a, n
  <2> QED
    BY <1>2, <2>1
<1>5. a = [i \in 1 .. n + 1 |-> a[i]]
  <2> HIDE DEF a, n
  <2> QED
    BY <1>4
<1> QED
  BY <1>2, <1>3, <1>5

LEMMA TailElements ==
  ASSUME NEW S, NEW s \in Seq(S), s # <<>>
  PROVE  LET r == Tail(s) IN
         /\ r = [i \in 1 .. Len(s) - 1 |-> r[i]]
         /\ \A i \in 1 .. Len(s) - 1 : r[i] = s[i + 1]
BY HeadTailProperties, LenProperties

(* Induction, for a set: the natural numbers below which something holds.    *)
LEMMA SetInduction ==
  ASSUME NEW T, 0 \in T, \A n \in Nat : n \in T => n + 1 \in T
  PROVE  Nat \subseteq T
<1> DEFINE R == OpToRel(<, Nat)
           C == Nat \ T
<1> SUFFICES ASSUME C # {} PROVE FALSE
  OBVIOUS
<1>1. PICK x \in C : \A y \in C : ~ (<<y, x>> \in R)
  <2>1. C \subseteq Nat
    OBVIOUS
  <2> HIDE DEF R, C
  <2> QED
    BY <2>1, NatLessThanWellFounded, WFMin DEF R
<1>2. x # 0 /\ x \in Nat /\ x - 1 \in Nat
  OBVIOUS
<1>3. x - 1 \in T
  <2>1. <<x - 1, x>> \in R
    BY <1>2 DEF OpToRel
  <2> QED
    BY <1>1, <1>2, <2>1
<1> QED
  BY <1>2, <1>3

(* A set of natural numbers has a least element. *)
LEMMA LeastElement ==
  ASSUME NEW P, P \subseteq Nat, P # {}
  PROVE  \E k \in P : \A j \in 0 .. k - 1 : j \notin P
<1> DEFINE T == {n \in Nat : \A k \in 0 .. n : k \notin P}
<1> SUFFICES ASSUME \A k \in P : \E j \in 0 .. k - 1 : j \in P
             PROVE  FALSE
  OBVIOUS
<1>1. 0 \in T
  OBVIOUS
<1>2. ASSUME NEW n \in Nat, n \in T
      PROVE  n + 1 \in T
  <2>1. n + 1 \notin P
    <3> SUFFICES ASSUME n + 1 \in P PROVE FALSE
      OBVIOUS
    <3>1. PICK j \in 0 .. (n + 1) - 1 : j \in P
      OBVIOUS
    <3>2. j \in 0 .. n
      OBVIOUS
    <3> QED
      BY <1>2, <3>1, <3>2
  <2> QED
    BY <1>2, <2>1
<1>3. Nat \subseteq T
  <2> HIDE DEF T
  <2> QED
    BY <1>1, <1>2, SetInduction
<1>4. PICK p \in P : p \in Nat
  OBVIOUS
<1>5. p \in T /\ p \in 0 .. p
  BY <1>3, <1>4
<1> QED
  BY <1>4, <1>5

=============================================================================
