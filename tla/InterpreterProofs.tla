-------------------------- MODULE InterpreterProofs --------------------------
(***************************************************************************)
(* Proofs about Interpreter, for bytes of any width and stacks of any      *)
(* size.                                                                   *)
(***************************************************************************)
EXTENDS Interpreter, ListLemmas, FiniteSetTheorems, TLAPS

-----------------------------------------------------------------------------
(* Powers of two.                                                            *)

(* The subsets of a set with one element more: half of them have it.         *)
LEMMA OneMore ==
  ASSUME NEW S, NEW x, x \notin S, IsFiniteSet(S)
  PROVE  /\ IsFiniteSet(SUBSET S) /\ Cardinality(SUBSET S) \in Nat \ {0}
         /\ Cardinality(SUBSET (S \cup {x})) = 2 * Cardinality(SUBSET S)
<1> DEFINE P == SUBSET S
           With(A) == A \cup {x}
           Q == {With(A) : A \in P}
           f == [A \in P |-> With(A)]
<1>1. IsFiniteSet(P) /\ Cardinality(P) \in Nat
  BY FS_SUBSET, FS_CardinalityType
<1>2. \A A \in P : x \notin A
  BY Zenon
<1>3. \A A, C \in P : With(A) = With(C) => A = C
  <2> SUFFICES ASSUME NEW A \in P, NEW C \in P, A \cup {x} = C \cup {x}
               PROVE  A = C
    OBVIOUS
  <2>1. x \notin A /\ x \notin C
    BY <1>2, Zenon
  <2> HIDE DEF P
  <2> QED
    BY <2>1
<1>4. SUBSET (S \cup {x}) = P \cup Q
  <2>1. ASSUME NEW A, A \subseteq S \cup {x}, x \in A
        PROVE  A \in Q
    <3>1. A \ {x} \in P
      BY <2>1
    <3>2. A = With(A \ {x})
      BY <2>1
    <3> HIDE DEF P, With
    <3> QED
      BY <3>1, <3>2
  <2>2. ASSUME NEW A, A \subseteq S \cup {x}, x \notin A
        PROVE  A \in P
    BY <2>2
  <2>3. ASSUME NEW A \in P
        PROVE  A \subseteq S \cup {x} /\ With(A) \subseteq S \cup {x}
    OBVIOUS
  <2>4. ASSUME NEW C \in Q
        PROVE  C \subseteq S \cup {x}
    <3>1. PICK A \in P : C = With(A)
      <4> HIDE DEF P, With
      <4> QED
        OBVIOUS
    <3> QED
      BY <2>3, <3>1
  <2> HIDE DEF P, Q
  <2> QED
    BY <2>1, <2>2, <2>3, <2>4
<1>5. P \cap Q = {}
  <2> SUFFICES ASSUME NEW C \in P, C \in Q PROVE FALSE
    BY Zenon
  <2>1. PICK A \in P : C = With(A)
    <3> HIDE DEF P, With
    <3> QED
      OBVIOUS
  <2>2. x \in C
    BY <2>1
  <2> HIDE DEF P, Q
  <2> QED
    BY <1>2, <2>2
<1>6. ExistsBijection(P, Q)
  <2> HIDE DEF P, With
  <2>1. f \in [P -> Q]
    OBVIOUS
  <2>2. \A A, C \in P : f[A] = f[C] => A = C
    BY <1>3
  <2>3. \A D \in Q : \E A \in P : f[A] = D
    OBVIOUS
  <2> HIDE DEF f, Q
  <2>4. f \in Bijection(P, Q)
    BY <2>1, <2>2, <2>3 DEF Bijection, Injection, Surjection, IsInjective
  <2> QED
    BY <2>4 DEF ExistsBijection
<1>7. P # {}
  OBVIOUS
<1> HIDE DEF P, Q, f, With
<1>8. IsFiniteSet(Q) /\ Cardinality(Q) = Cardinality(P)
  BY <1>1, <1>6, FS_Bijection
<1>9. Cardinality(P \cup Q) = Cardinality(P) + Cardinality(Q) - Cardinality(P \cap Q)
  BY <1>1, <1>8, FS_Union
<1>10. Cardinality(P \cap Q) = 0
  BY <1>5, FS_EmptySet
<1>11. Cardinality(P) # 0
  BY <1>1, <1>7, FS_EmptySet
<1>12. Cardinality(P \cup Q) = 2 * Cardinality(P)
  BY <1>1, <1>8, <1>9, <1>10
<1> QED
  BY <1>1, <1>4, <1>11, <1>12 DEF P

(* Powers of two count the subsets of an interval.                           *)
LEMMA PowersOfTwo ==
  ASSUME NEW n \in Nat
  PROVE  /\ 2^n \in Nat \ {0}
         /\ 2^(n + 1) = 2 * 2^n
<1> DEFINE S == 1 .. n
           T == 1 .. n + 1
<1>1. /\ IsFiniteSet(S) /\ Cardinality(S) = n
      /\ IsFiniteSet(T) /\ Cardinality(T) = n + 1
  BY FS_Interval
<1>2. /\ T = S \cup {n + 1} /\ n + 1 \notin S
  OBVIOUS
<1> HIDE DEF S, T
<1>3. /\ Cardinality(SUBSET S) = 2^n
      /\ Cardinality(SUBSET T) = 2^(n + 1)
  BY <1>1, FS_SUBSET
<1>4. /\ Cardinality(SUBSET S) \in Nat \ {0}
      /\ Cardinality(SUBSET T) = 2 * Cardinality(SUBSET S)
  BY <1>1, <1>2, OneMore, Zenon
<1> QED
  BY <1>3, <1>4

(* A byte and a number hold more than one value.                             *)
LEMMA WidthOfBytes == B \in Nat /\ B > 1 /\ W \in Nat /\ W > 1 /\ 2^W \in Nat /\ 2^(W - 1) \in Nat
<1>1. BITS - 1 \in Nat /\ BITS \in Nat /\ W \in Nat /\ W > 1 /\ W - 1 \in Nat
  BY InterpreterAssumption DEF W
<1>2. 2^((BITS - 1) + 1) = 2 * 2^(BITS - 1) /\ 2^(BITS - 1) \in Nat \ {0}
  BY <1>1, PowersOfTwo
<1>3. (BITS - 1) + 1 = BITS
  BY <1>1
<1>4. B = 2 * 2^(BITS - 1)
  BY <1>2, <1>3 DEF B
<1> QED
  BY <1>1, <1>2, <1>4, PowersOfTwo

-----------------------------------------------------------------------------
(* How many bytes operands take.                                             *)

Types == {"bool", "U16", "I16", "F32"}
Value == 0 .. B - 1

LEMMA Sizes == \A t \in Types : Size(t) \in Nat \ {0}
BY DEF Types, Size

LEMMA SumExists ==
  ASSUME NEW ts, NEW n \in Nat
  PROVE  \E f : f = [k \in 0 .. n |-> IF k = 0 THEN 0 ELSE f[k - 1] + Size(ts[k])]
<1> DEFINE Sum(f, m) ==
             f = [k \in 0 .. m |-> IF k = 0 THEN 0 ELSE f[k - 1] + Size(ts[k])]
           T == {m \in Nat : \E f : Sum(f, m)}
<1>1. 0 \in T
  <2>1. Sum([k \in 0 .. 0 |-> 0], 0)
    OBVIOUS
  <2> QED
    BY <2>1
<1>2. ASSUME NEW m \in Nat, m \in T
      PROVE  m + 1 \in T
  <2>1. PICK f : Sum(f, m)
    BY <1>2
  <2> DEFINE x == f[m] + Size(ts[m + 1])
             g == [k \in 0 .. m + 1 |-> IF k = m + 1 THEN x ELSE f[k]]
  <2>2. Sum(g, m + 1)
    <3> SUFFICES ASSUME NEW k \in 0 .. m + 1
                 PROVE  g[k] = IF k = 0 THEN 0 ELSE g[k - 1] + Size(ts[k])
      OBVIOUS
    <3>1. CASE k = m + 1
      BY <3>1
    <3>2. CASE k # m + 1
      <4>1. k \in 0 .. m /\ g[k] = f[k] /\ (k # 0 => g[k - 1] = f[k - 1])
        BY <3>2
      <4>2. f[k] = IF k = 0 THEN 0 ELSE f[k - 1] + Size(ts[k])
        BY <2>1, <4>1
      <4> QED
        BY <4>1, <4>2
    <3> QED
      BY <3>1, <3>2
  <2> HIDE DEF g, Sum
  <2> QED
    BY <2>2
<1> HIDE DEF T
<1>3. n \in T
  BY <1>1, <1>2, SetInduction
<1> QED
  BY <1>3 DEF T

(* Whatever is summed up like this is what Bytes is.                         *)
LEMMA BytesSumUp ==
  ASSUME NEW ts, Len(ts) \in Nat, NEW g, g[0] = 0,
         \A k \in 1 .. Len(ts) : g[k] = g[k - 1] + Size(ts[k])
  PROVE  Bytes(ts) = g[Len(ts)]
<1> DEFINE n == Len(ts)
           f == CHOOSE f : f = [k \in 0 .. n |-> IF k = 0 THEN 0 ELSE f[k - 1] + Size(ts[k])]
<1>1. f = [k \in 0 .. n |-> IF k = 0 THEN 0 ELSE f[k - 1] + Size(ts[k])]
  BY SumExists
<1>2. Bytes(ts) = f[n]
  BY DEF Bytes
<1> HIDE DEF f
<1> DEFINE T == {k \in Nat : k <= n => f[k] = g[k]}
<1>3. 0 \in T
  BY <1>1
<1>4. ASSUME NEW k \in Nat, k \in T
      PROVE  k + 1 \in T
  <2> SUFFICES ASSUME k + 1 <= n PROVE f[k + 1] = g[k + 1]
    OBVIOUS
  <2>1. k + 1 \in 1 .. n /\ k + 1 \in 0 .. n /\ k + 1 # 0 /\ (k + 1) - 1 = k /\ f[k] = g[k]
    BY <1>4
  <2>2. f[k + 1] = f[k] + Size(ts[k + 1])
    BY <1>1, <2>1
  <2>3. g[k + 1] = g[k] + Size(ts[k + 1])
    BY <2>1
  <2> QED
    BY <2>1, <2>2, <2>3
<1> HIDE DEF T
<1>5. n \in T
  BY <1>3, <1>4, SetInduction
<1> QED
  BY <1>2, <1>5 DEF T

LEMMA BytesAreSums ==
  ASSUME NEW ts \in Seq(Types)
  PROVE  \E g : /\ Bytes(ts) = g[Len(ts)] /\ g[0] = 0
                /\ \A k \in 1 .. Len(ts) : g[k] = g[k - 1] + Size(ts[k])
<1> DEFINE n == Len(ts)
<1>1. n \in Nat
  OBVIOUS
<1>2. PICK f : f = [k \in 0 .. n |-> IF k = 0 THEN 0 ELSE f[k - 1] + Size(ts[k])]
  BY <1>1, SumExists
<1>3. f[0] = 0 /\ \A k \in 1 .. n : f[k] = f[k - 1] + Size(ts[k])
  BY <1>1, <1>2
<1>4. Bytes(ts) = f[n]
  BY <1>1, <1>3, BytesSumUp
<1> QED
  BY <1>3, <1>4

LEMMA BytesAppend ==
  ASSUME NEW ts \in Seq(Types), NEW t \in Types
  PROVE  Bytes(Append(ts, t)) = Bytes(ts) + Size(t)
<1> DEFINE us == Append(ts, t)
<1>1. us \in Seq(Types) /\ Len(us) = Len(ts) + 1 /\ Len(ts) \in Nat
  OBVIOUS
<1>2. us[Len(us)] = t /\ \A k \in 1 .. Len(ts) : us[k] = ts[k]
  OBVIOUS
<1> HIDE DEF us
<1>3. PICK g : /\ Bytes(us) = g[Len(us)] /\ g[0] = 0
               /\ \A k \in 1 .. Len(us) : g[k] = g[k - 1] + Size(us[k])
  BY <1>1, BytesAreSums
<1>4. \A k \in 1 .. Len(ts) : g[k] = g[k - 1] + Size(ts[k])
  BY <1>1, <1>2, <1>3
<1>5. Bytes(ts) = g[Len(ts)]
  BY <1>1, <1>3, <1>4, BytesSumUp
<1>6. g[Len(us)] = g[Len(ts)] + Size(t)
  <2>1. Len(us) \in 1 .. Len(us) /\ Len(us) - 1 = Len(ts)
    BY <1>1
  <2> QED
    BY <1>2, <1>3, <2>1
<1> QED
  BY <1>3, <1>5, <1>6 DEF us

LEMMA BytesOfNone == Bytes(<<>>) = 0
<1> DEFINE g == [k \in {0} |-> 0]
<1>1. g[0] = 0 /\ Len(<<>>) = 0
  OBVIOUS
<1> HIDE DEF g
<1>2. \A k \in 1 .. Len(<<>>) : g[k] = g[k - 1] + Size(<<>>[k])
  BY <1>1
<1> QED
  BY <1>1, <1>2, BytesSumUp

(* A list is its first elements and its last.                                *)
LEMMA FrontAndLast ==
  ASSUME NEW S, NEW s \in Seq(S), s # <<>>
  PROVE  /\ Front(s) \in Seq(S) /\ Len(Front(s)) = Len(s) - 1
         /\ Last(s) \in S /\ s = Append(Front(s), Last(s))
<1>1. Len(s) \in Nat \ {0} /\ s[Len(s)] \in S /\ Last(s) = s[Len(s)]
  BY LastProperties DEF Last
<1>2. /\ Front(s) \in Seq(S) /\ Len(Front(s)) = Len(s) - 1
      /\ \A i \in 1 .. Len(s) - 1 : Front(s)[i] = s[i]
  BY FrontProperties
<1> DEFINE r == Append(Front(s), s[Len(s)])
<1>3. r \in Seq(S) /\ Len(r) = Len(s)
  BY <1>1, <1>2
<1>4. \A i \in 1 .. Len(s) : r[i] = s[i]
  BY <1>1, <1>2
<1> HIDE DEF r
<1>5. r = s
  BY <1>3, <1>4, SeqEqual
<1> QED
  BY <1>1, <1>2, <1>5 DEF r

(* Lists of types, by their length.                                          *)
LEMMA BytesAreCounted ==
  ASSUME NEW ts \in Seq(Types)
  PROVE  Bytes(ts) \in Nat
<1> DEFINE T == {n \in Nat : \A us \in Seq(Types) : Len(us) = n => Bytes(us) \in Nat}
<1>1. 0 \in T
  <2> SUFFICES ASSUME NEW us \in Seq(Types), Len(us) = 0 PROVE Bytes(us) \in Nat
    OBVIOUS
  <2>1. us = <<>>
    BY EmptySeq
  <2> QED
    BY <2>1, BytesOfNone
<1>2. ASSUME NEW n \in Nat, n \in T
      PROVE  n + 1 \in T
  <2> SUFFICES ASSUME NEW us \in Seq(Types), Len(us) = n + 1 PROVE Bytes(us) \in Nat
    OBVIOUS
  <2>1. us # <<>>
    <3>1. Len(us) # 0
      OBVIOUS
    <3> QED
      BY <3>1, EmptySeq, Zenon
  <2>2. /\ Front(us) \in Seq(Types) /\ Len(Front(us)) = n
        /\ Last(us) \in Types /\ us = Append(Front(us), Last(us))
    BY <2>1, FrontAndLast
  <2>3. Bytes(us) = Bytes(Front(us)) + Size(Last(us))
    BY <2>2, BytesAppend
  <2> QED
    BY <1>2, <2>2, <2>3, Sizes
<1> HIDE DEF T
<1>3. Len(ts) \in T
  BY <1>1, <1>2, SetInduction, LenProperties
<1> QED
  BY <1>3 DEF T

LEMMA LongerList ==
  ASSUME NEW us \in Seq(Types), us # <<>>
  PROVE  \E v \in Seq(Types), t \in Types : Len(v) = Len(us) - 1 /\ us = Append(v, t)
BY FrontAndLast

LEMMA BytesOfBoth ==
  ASSUME NEW ss \in Seq(Types), NEW ts \in Seq(Types)
  PROVE  Bytes(ss \o ts) = Bytes(ss) + Bytes(ts)
<1> DEFINE T == {n \in Nat : \A us \in Seq(Types) :
                               Len(us) = n => Bytes(ss \o us) = Bytes(ss) + Bytes(us)}
<1>1. 0 \in T
  <2> SUFFICES ASSUME NEW us \in Seq(Types), Len(us) = 0
               PROVE  Bytes(ss \o us) = Bytes(ss) + Bytes(us)
    OBVIOUS
  <2>1. us = <<>>
    BY EmptySeq
  <2>2. ss \o us = ss
    <3>1. ss \o <<>> = ss
      BY ConcatEmptySeq
    <3> QED
      BY <2>1, <3>1
  <2> QED
    BY <2>1, <2>2, BytesOfNone, BytesAreCounted
<1>2. ASSUME NEW n \in Nat, n \in T
      PROVE  n + 1 \in T
  <2> SUFFICES ASSUME NEW us \in Seq(Types), Len(us) = n + 1
               PROVE  Bytes(ss \o us) = Bytes(ss) + Bytes(us)
    OBVIOUS
  <2>1. us # <<>>
    BY EmptySeq
  <2>2. PICK v \in Seq(Types), t \in Types : Len(v) = n /\ us = Append(v, t)
    <3>1. PICK v \in Seq(Types), t \in Types : Len(v) = Len(us) - 1 /\ us = Append(v, t)
      BY <2>1, LongerList, Zenon
    <3>2. Len(v) = n
      BY <3>1
    <3> QED
      BY <3>1, <3>2, Zenon
  <2>3. /\ ss \o us = Append(ss \o v, t)
        /\ ss \o v \in Seq(Types)
    BY <2>2
  <2>4. Bytes(us) = Bytes(v) + Size(t)
    BY <2>2, BytesAppend
  <2>5. Bytes(ss \o us) = Bytes(ss \o v) + Size(t)
    BY <2>2, <2>3, BytesAppend
  <2> QED
    BY <1>2, <2>2, <2>4, <2>5, BytesAreCounted, Sizes
<1> HIDE DEF T
<1>3. Len(ts) \in T
  BY <1>1, <1>2, SetInduction, LenProperties
<1> QED
  BY <1>3 DEF T

LEMMA BytesOfOneOrTwo ==
  ASSUME NEW t \in Types
  PROVE  /\ <<t>> \in Seq(Types) /\ Bytes(<<t>>) = Size(t)
         /\ <<t, t>> \in Seq(Types) /\ Bytes(<<t, t>>) = 2 * Size(t)
<1>1. <<>> \in Seq(Types) /\ <<t>> \in Seq(Types) /\ <<t, t>> \in Seq(Types)
  OBVIOUS
<1>2. <<t>> = Append(<<>>, t) /\ <<t, t>> = Append(<<t>>, t)
  OBVIOUS
<1>3. Bytes(<<t>>) = Bytes(<<>>) + Size(t) /\ Bytes(<<t, t>>) = Bytes(<<t>>) + Size(t)
  BY <1>1, <1>2, BytesAppend, Zenon
<1> QED
  BY <1>1, <1>3, BytesOfNone, Sizes

-----------------------------------------------------------------------------
(* Quotients and remainders.                                                 *)

LEMMA ProductIsLarge ==
  ASSUME NEW x \in Int, NEW p \in Nat \ {0}, x # 0
  PROVE  x * p >= p \/ x * p <= -p
<1>1. CASE x >= 1
  BY <1>1
<1>2. CASE x <= -1
  BY <1>2
<1> QED
  BY <1>1, <1>2

(* Quotient and rest.                                                        *)
LEMMA DivisionIsUnique ==
  ASSUME NEW a \in Int, NEW p \in Nat \ {0}, NEW q \in Int, NEW r \in 0 .. p - 1,
         a = q * p + r
  PROVE  a \div p = q /\ a % p = r
<1> DEFINE d == a \div p
           m == a % p
<1>1. d \in Int /\ m \in 0 .. p - 1 /\ a = d * p + m
  OBVIOUS
<1> HIDE DEF d, m
<1>2. (d - q) * p = r - m
  BY <1>1
<1>3. r - m < p /\ r - m > -p
  BY <1>1
<1>4. d - q = 0
  <2>1. d - q \in Int
    BY <1>1
  <2> QED
    BY <1>2, <1>3, <2>1, ProductIsLarge
<1>5. d = q /\ m = r
  BY <1>1, <1>2, <1>4
<1> QED
  BY <1>5 DEF d, m

LEMMA DivisionOf ==
  ASSUME NEW a \in Int, NEW p \in Nat \ {0}
  PROVE  /\ a \div p \in Int /\ a % p \in 0 .. p - 1
         /\ a = (a \div p) * p + (a % p)
OBVIOUS

(* Division by a product.                                                    *)
DigitsOf(a, p, c) == a % (p * c) = (a % p) + p * ((a \div p) % c)

LEMMA DivisionByProduct ==
  ASSUME NEW a \in Int, NEW p \in Nat \ {0}, NEW c \in Nat \ {0}
  PROVE  /\ p * c \in Nat \ {0}
         /\ a \div (p * c) = (a \div p) \div c
         /\ DigitsOf(a, p, c)
<1> DEFINE d == a \div p
           m == a % p
           e == d \div c
           n == d % c
<1>1. d \in Int /\ m \in 0 .. p - 1 /\ a = d * p + m
  BY DivisionOf
<1>2. e \in Int /\ n \in 0 .. c - 1 /\ d = e * c + n
  <2> HIDE DEF d
  <2> QED
    BY <1>1, DivisionOf
<1> HIDE DEF d, m, e, n
<1>3. p * c \in Nat \ {0}
  OBVIOUS
<1>4. a = e * (p * c) + (m + p * n)
  <2>1. d * p = e * (p * c) + p * n
    BY <1>1, <1>2
  <2> QED
    BY <1>1, <1>2, <2>1
<1>5. m + p * n \in 0 .. p * c - 1
  <2>1. p * n \in Int /\ 0 <= p * n /\ p * n <= p * (c - 1) /\ p * (c - 1) = p * c - p
    BY <1>2
  <2> QED
    BY <1>1, <2>1, <1>3
<1>6. a \div (p * c) = e /\ a % (p * c) = m + p * n
  BY <1>2, <1>3, <1>4, <1>5, DivisionIsUnique
<1>7. DigitsOf(a, p, c)
  BY <1>6 DEF DigitsOf, d, m, n
<1> QED
  BY <1>3, <1>6, <1>7 DEF d, e

LEMMA ProductsOfPowers ==
  ASSUME NEW m \in Nat, NEW n \in Nat
  PROVE  2^(m + n) = 2^m * 2^n
<1> DEFINE T == {k \in Nat : 2^(m + k) = 2^m * 2^k}
<1>1. 0 \in T
  <2>1. 2^0 = 1
    OBVIOUS
  <2>2. 2^m \in Nat /\ m + 0 = m
    BY PowersOfTwo
  <2> QED
    BY <2>1, <2>2
<1>2. ASSUME NEW k \in Nat, k \in T
      PROVE  k + 1 \in T
  <2>1. 2^(m + k) = 2^m * 2^k
    BY <1>2
  <2>2. 2^(k + 1) = 2 * 2^k /\ 2^k \in Nat
    BY PowersOfTwo
  <2>3. 2^((m + k) + 1) = 2 * 2^(m + k) /\ 2^(m + k) \in Nat
    BY PowersOfTwo
  <2>4. 2^m \in Nat /\ m + (k + 1) = (m + k) + 1
    BY PowersOfTwo
  <2>5. 2 * (2^m * 2^k) = 2^m * (2 * 2^k)
    BY <2>2, <2>4
  <2> QED
    BY <2>1, <2>2, <2>3, <2>4, <2>5
<1> HIDE DEF T
<1>3. n \in T
  BY <1>1, <1>2, SetInduction
<1> QED
  BY <1>3 DEF T

LEMMA Widths == 2^W = B * B /\ 2^W \in Nat \ {0} /\ 2^W = 2 * 2^(W - 1) /\ 2^(W - 1) \in Nat \ {0}
<1>1. BITS \in Nat /\ W = BITS + BITS /\ W - 1 \in Nat /\ (W - 1) + 1 = W
  BY InterpreterAssumption DEF W
<1>2. 2^W = B * B
  BY <1>1, ProductsOfPowers DEF B
<1>3. 2^((W - 1) + 1) = 2 * 2^(W - 1) /\ 2^(W - 1) \in Nat \ {0}
  BY <1>1, PowersOfTwo
<1>4. 2^W \in Nat \ {0}
  BY <1>1, PowersOfTwo
<1> QED
  BY <1>1, <1>2, <1>3, <1>4

-----------------------------------------------------------------------------
(* Values and the stack of bytes.                                            *)

LEMMA Encoded ==
  ASSUME NEW n \in Int
  PROVE  Encode(n) \in Seq(Value) /\ Len(Encode(n)) = 2
<1>1. n % B \in Value /\ (n \div B) % B \in Value
  BY WidthOfBytes DEF Value
<1> QED
  BY <1>1 DEF Encode

LEMMA BoolEncoded ==
  ASSUME NEW b
  PROVE  EncodeBool(b) \in Seq(Value) /\ Len(EncodeBool(b)) = 1
<1>1. 0 \in Value /\ 1 \in Value
  BY WidthOfBytes DEF Value
<1> QED
  BY <1>1 DEF EncodeBool

LEMMA DecodedPair ==
  ASSUME NEW v \in Seq(Value), Len(v) >= 2
  PROVE  /\ v[1] \in Value /\ v[2] \in Value
         /\ DecodeUnsigned(v) \in 0 .. B * B - 1 /\ DecodeUnsigned(v) \in Nat
<1>1. v[1] \in Value /\ v[2] \in Value
  OBVIOUS
<1>2. v[1] \in Int /\ v[2] \in Int /\ 0 <= v[1] /\ v[1] <= B - 1 /\ 0 <= v[2] /\ v[2] <= B - 1
  BY <1>1, WidthOfBytes DEF Value
<1>3. ASSUME NEW b \in Nat, NEW x \in Int, NEW y \in Int, 0 <= x, x <= b - 1, 0 <= y, y <= b - 1
      PROVE  x + b * y \in Int /\ 0 <= x + b * y /\ x + b * y <= b * b - 1
  <2>1. b * y \in Int /\ 0 <= b * y /\ b * y <= b * (b - 1) /\ b * (b - 1) = b * b - b
    BY <1>3
  <2> QED
    BY <1>3, <2>1
<1>4. v[1] + B * v[2] \in Int /\ 0 <= v[1] + B * v[2] /\ v[1] + B * v[2] <= B * B - 1
  BY <1>2, <1>3, WidthOfBytes
<1> QED
  BY <1>1, <1>4, WidthOfBytes DEF DecodeUnsigned

LEMMA Decoded ==
  ASSUME NEW t \in Types, NEW v \in Seq(Value), Len(v) = Size(t)
  PROVE  /\ Decode(t, v) \in Int
         /\ t = "U16" => Decode(t, v) \in 0 .. B * B - 1
         /\ t = "bool" => Decode(t, v) \in {0, 1}
<1>1. CASE t \in {"U16", "I16"}
  <2> Len(v) >= 2
    BY <1>1 DEF Size
  <2>1. DecodeUnsigned(v) \in 0 .. B * B - 1 /\ DecodeUnsigned(v) \in Nat
    BY DecodedPair
  <2>2. DecodeSigned(v) \in Int
    BY <2>1, WidthOfBytes DEF DecodeSigned
  <2>3. CASE t = "U16"
    <3>1. Decode(t, v) = DecodeUnsigned(v)
      BY <2>3 DEF Decode
    <3> QED
      BY <2>1, <2>3, <3>1
  <2>4. CASE t = "I16"
    <3>1. Decode(t, v) = DecodeSigned(v)
      BY <2>4 DEF Decode
    <3> QED
      BY <2>2, <2>4, <3>1
  <2> QED
    BY <1>1, <2>3, <2>4
<1>2. CASE t = "bool"
  BY <1>2 DEF Decode
<1>3. CASE t = "F32"
  <2>1. Len(v) = 4
    BY <1>3 DEF Size
  <2> DEFINE u == Tail(Tail(v))
  <2>2. u \in Seq(Value) /\ Len(u) = 2
    <3>1. v # <<>>
      BY <2>1
    <3>2. Tail(v) \in Seq(Value) /\ Len(Tail(v)) = 3
      BY <2>1, <3>1, HeadTailProperties
    <3> DEFINE w == Tail(v)
    <3> HIDE DEF w
    <3>3. w \in Seq(Value) /\ Len(w) = 3
      BY <3>2 DEF w
    <3>4. w # <<>>
      BY <3>3
    <3>5. Tail(w) \in Seq(Value) /\ Len(Tail(w)) = 2
      BY <3>3, <3>4, HeadTailProperties
    <3> QED
      BY <3>5 DEF w
  <2> HIDE DEF u
  <2>3. DecodeUnsigned(v) \in Nat /\ DecodeUnsigned(u) \in Nat
    <3>1. Len(v) >= 2 /\ Len(u) >= 2
      BY <2>1, <2>2
    <3>2. DecodeUnsigned(v) \in Nat
      BY <3>1, DecodedPair
    <3>3. DecodeUnsigned(u) \in Nat
      BY <2>2, <3>1, DecodedPair
    <3> QED
      BY <3>2, <3>3
  <2>5. Decode(t, v) = DecodeUnsigned(v) + B^2 * DecodeUnsigned(u)
    BY <1>3 DEF Decode, u
  <2>4. B^2 \in Int
    BY WidthOfBytes
  <2> QED
    BY <1>3, <2>3, <2>4, <2>5
<1> QED
  BY <1>1, <1>2, <1>3 DEF Types

StackOfBytes ==
  [data : [0 .. OPSTACK_SIZE - 1 -> Value], size : {OPSTACK_SIZE},
   sp : 0 .. OPSTACK_SIZE, bp : {0}]

(* What a push does to the bytes.                                            *)
LEMMA Pushed ==
  ASSUME NEW s \in StackOfBytes, NEW v \in Seq(Value), CanPush(s, Len(v))
  PROVE  /\ Push(s, v) \in StackOfBytes
         /\ Push(s, v).sp = s.sp + Len(v)
         /\ \A i \in 0 .. s.sp - 1 : Push(s, v).data[i] = s.data[i]
         /\ \A i \in 1 .. Len(v) : Push(s, v).data[s.sp + Len(v) - i] = v[i]
<1> DEFINE n == Len(v)
           a == s.sp
           d == [i \in DOMAIN s.data |-> IF i \in a .. a + n - 1 THEN v[n - (i - a)] ELSE s.data[i]]
<1>1. /\ n \in Nat /\ a \in 0 .. OPSTACK_SIZE /\ a + n <= OPSTACK_SIZE /\ OPSTACK_SIZE \in Nat
      /\ DOMAIN s.data = 0 .. OPSTACK_SIZE - 1 /\ \A i \in 0 .. OPSTACK_SIZE - 1 : s.data[i] \in Value
  BY InterpreterAssumption DEF StackOfBytes, CanPush, CanWriteAt
<1>2. Push(s, v) = [s EXCEPT !.data = d, !.sp = IF a + n > a THEN a + n ELSE a]
  BY DEF Push, WriteAt
<1>3. Push(s, v).data = d /\ Push(s, v).sp = a + n /\ Push(s, v).size = OPSTACK_SIZE /\ Push(s, v).bp = 0
  BY <1>1, <1>2 DEF StackOfBytes
<1>4. d \in [0 .. OPSTACK_SIZE - 1 -> Value]
  <2> SUFFICES ASSUME NEW i \in 0 .. OPSTACK_SIZE - 1 PROVE d[i] \in Value
    BY <1>1
  <2>1. CASE i \in a .. a + n - 1
    <3>1. n - (i - a) \in 1 .. n
      BY <1>1, <2>1
    <3> QED
      BY <1>1, <2>1, <3>1
  <2>2. CASE i \notin a .. a + n - 1
    BY <1>1, <2>2
  <2> QED
    BY <2>1, <2>2
<1>5. Push(s, v) \in StackOfBytes
  <2> DEFINE sp == IF a + n > a THEN a + n ELSE a
  <2>1. sp \in 0 .. OPSTACK_SIZE
    BY <1>1
  <2>2. \A e \in [0 .. OPSTACK_SIZE - 1 -> Value], x \in 0 .. OPSTACK_SIZE :
          [s EXCEPT !.data = e, !.sp = x] \in StackOfBytes
    BY DEF StackOfBytes
  <2>3. Push(s, v) = [s EXCEPT !.data = d, !.sp = sp]
    BY <1>2, Zenon
  <2> HIDE DEF d, a, n, sp
  <2>4. [s EXCEPT !.data = d, !.sp = sp] \in StackOfBytes
    BY <1>4, <2>1, <2>2, Zenon
  <2> QED
    BY <2>3, <2>4, Zenon
<1>6. \A i \in 0 .. a - 1 : d[i] = s.data[i]
  BY <1>1
<1>7. \A i \in 1 .. n : d[a + n - i] = v[i]
  <2> SUFFICES ASSUME NEW i \in 1 .. n PROVE d[a + n - i] = v[i]
    OBVIOUS
  <2> DEFINE k == a + n - i
  <2>2. DOMAIN s.data = 0 .. OPSTACK_SIZE - 1
    BY <1>1
  <2> HIDE DEF n, a
  <2>1. k \in a .. a + n - 1 /\ k \in 0 .. OPSTACK_SIZE - 1 /\ n - (k - a) = i
    BY <1>1
  <2> HIDE DEF k
  <2>3. d[k] = v[n - (k - a)]
    BY <2>1, <2>2
  <2>4. d[k] = v[i]
    BY <2>1, <2>3
  <2> QED
    BY <2>4 DEF k
<1> HIDE DEF d
<1> QED
  BY <1>1, <1>3, <1>4, <1>5, <1>6, <1>7 DEF StackOfBytes

-----------------------------------------------------------------------------
(* The bytes on the stack are those of the operands, no more and no less.    *)

IInv ==
  /\ opstack \in StackOfBytes
  /\ types \in Seq(Types)
  /\ opstack.sp = Bytes(types)
  /\ ports \in [0 .. PORTS - 1 -> Value]
  /\ status \in {"running", "failed", "undefined"}

(* The operands on top of others.                                            *)
LEMMA OperandsOnTop ==
  ASSUME types \in Seq(Types), NEW ts \in Seq(Types), OnTop(ts)
  PROVE  /\ Len(ts) <= Len(types)
         /\ Consumed(Len(ts)) \in Seq(Types)
         /\ Len(Consumed(Len(ts))) = Len(types) - Len(ts)
         /\ \A i \in 1 .. Len(types) - Len(ts) : Consumed(Len(ts))[i] = types[i]
         /\ \A i \in 1 .. Len(ts) : types[Len(types) - Len(ts) + i] = ts[i]
         /\ Bytes(types) = Bytes(Consumed(Len(ts))) + Bytes(ts)
<1> DEFINE m == Len(types)
           n == Len(ts)
           c == Consumed(n)
<1>1. m \in Nat /\ n \in Nat
  OBVIOUS
<1>2. /\ n <= m
      /\ SubSeq(Reverse(ts), 1, n) = SubSeq(Reverse(types), 1, n)
  <2>1. Len(Reverse(ts)) = n /\ Len(Reverse(types)) = m
    BY <1>1 DEF Reverse
  <2> QED
    BY <2>1 DEF OnTop, IsSuffix, IsPrefix
<1>3. \A i \in 1 .. n : types[m - n + i] = ts[i]
  <2> SUFFICES ASSUME NEW i \in 1 .. n PROVE types[m - n + i] = ts[i]
    OBVIOUS
  <2> DEFINE j == n - i + 1
  <2>1. j \in 1 .. n /\ j \in 1 .. m /\ (n - j) + 1 = i /\ (m - j) + 1 = m - n + i
    BY <1>1, <1>2
  <2>2. Reverse(ts)[j] = ts[i] /\ Reverse(types)[j] = types[m - n + i]
    BY <2>1 DEF Reverse
  <2>3. SubSeq(Reverse(ts), 1, n)[j] = Reverse(ts)[j] /\ SubSeq(Reverse(types), 1, n)[j] = Reverse(types)[j]
    BY <1>1, <2>1
  <2> QED
    BY <1>2, <2>2, <2>3
<1>4. /\ c \in Seq(Types) /\ Len(c) = m - n
      /\ \A i \in 1 .. m - n : c[i] = types[i]
  BY <1>1, <1>2 DEF Consumed
<1>5. types = c \o ts
  <2>1. c \o ts \in Seq(Types) /\ Len(c \o ts) = m
    BY <1>1, <1>2, <1>4
  <2>2. \A i \in 1 .. m : (c \o ts)[i] = types[i]
    <3> SUFFICES ASSUME NEW i \in 1 .. m PROVE (c \o ts)[i] = types[i]
      OBVIOUS
    <3>1. CASE i <= m - n
      BY <1>1, <1>4, <3>1
    <3>2. CASE i > m - n
      <4>1. i - (m - n) \in 1 .. n /\ m - n + (i - (m - n)) = i
        BY <1>1, <1>2, <3>2
      <4>2. types[i] = ts[i - (m - n)]
        BY <1>3, <4>1
      <4>3. (c \o ts)[i] = ts[i - (m - n)]
        BY <1>1, <1>4, <3>2, <4>1
      <4> QED
        BY <4>2, <4>3
    <3>3. i <= m - n \/ i > m - n
      BY <1>1
    <3> QED
      BY <3>1, <3>2, <3>3, Zenon
  <2> QED
    BY <2>1, <2>2, SeqEqual
<1>6. Bytes(types) = Bytes(c) + Bytes(ts)
  BY <1>4, <1>5, BytesOfBoth
<1> QED
  BY <1>2, <1>3, <1>4, <1>6

LEMMA StackUnderTop ==
  ASSUME IInv, NEW ts \in Seq(Types), OnTop(ts)
  PROVE  LET s == WithoutTop(opstack, ts) IN
         /\ s \in StackOfBytes
         /\ s.data = opstack.data
         /\ s.sp = Bytes(Consumed(Len(ts)))
<1>1. Bytes(types) = Bytes(Consumed(Len(ts))) + Bytes(ts) /\ Consumed(Len(ts)) \in Seq(Types)
  BY OperandsOnTop DEF IInv
<1>2. Bytes(Consumed(Len(ts))) \in Nat /\ Bytes(ts) \in Nat
  BY <1>1, BytesAreCounted
<1>3. opstack \in StackOfBytes /\ opstack.sp - Bytes(ts) = Bytes(Consumed(Len(ts)))
  BY <1>1, <1>2 DEF IInv
<1>4. opstack.sp - Bytes(ts) \in 0 .. OPSTACK_SIZE
  <2>1. opstack.sp \in 0 .. OPSTACK_SIZE
    BY <1>3 DEF StackOfBytes
  <2> QED
    BY <1>2, <1>3, <2>1, InterpreterAssumption
<1>5. WithoutTop(opstack, ts) = [opstack EXCEPT !.sp = opstack.sp - Bytes(ts)]
  BY DEF WithoutTop, Pop
<1> QED
  BY <1>3, <1>4, <1>5 DEF StackOfBytes

(* The operand of type t under others.                                       *)
LEMMA OperandRead ==
  ASSUME IInv, NEW t \in Types, NEW above \in Seq(Types),
         Bytes(above) + Size(t) <= opstack.sp
  PROVE  /\ BytesUnder(above, t) \in Seq(Value)
         /\ Len(BytesUnder(above, t)) = Size(t)
         /\ BytesUnder(above, t) =
              [i \in 1 .. Size(t) |-> opstack.data[opstack.sp - Bytes(above) - i]]
<1> DEFINE v == [i \in 1 .. Size(t) |-> opstack.data[opstack.sp - Bytes(above) - i]]
           s == WithoutTop(opstack, above)
<1>1. /\ Bytes(above) \in Nat /\ Size(t) \in Nat /\ opstack.sp \in 0 .. OPSTACK_SIZE
      /\ opstack.data \in [0 .. OPSTACK_SIZE - 1 -> Value] /\ OPSTACK_SIZE \in Nat
  BY BytesAreCounted, Sizes, InterpreterAssumption DEF IInv, StackOfBytes
<1>2. s.sp = opstack.sp - Bytes(above) /\ s.data = opstack.data
  BY DEF WithoutTop, Pop, IInv, StackOfBytes
<1>3. \A i \in 1 .. Size(t) : /\ opstack.sp - Bytes(above) - i \in 0 .. OPSTACK_SIZE - 1
                              /\ s.sp - Size(t) + Size(t) - i = opstack.sp - Bytes(above) - i
  <2> DEFINE p == opstack.sp
             e == Bytes(above)
             z == Size(t)
             q == s.sp
  <2>1. e \in Nat /\ z \in Nat /\ p \in 0 .. OPSTACK_SIZE /\ OPSTACK_SIZE \in Nat
    BY <1>1
  <2>2. q = p - e /\ e + z <= p
    BY <1>2
  <2> HIDE DEF p, e, z, q
  <2>3. \A i \in 1 .. z : p - e - i \in 0 .. OPSTACK_SIZE - 1 /\ q - z + z - i = p - e - i
    BY <2>1, <2>2
  <2> QED
    BY <2>3 DEF p, e, z, q
<1>4. v \in Seq(Value) /\ Len(v) = Size(t)
  <2> DEFINE n == Size(t)
             x(i) == opstack.data[opstack.sp - Bytes(above) - i]
  <2>1. n \in Nat /\ \A i \in 1 .. n : x(i) \in Value
    BY <1>1, <1>3
  <2> HIDE DEF n, x
  <2>2. [i \in 1 .. n |-> x(i)] \in Seq(Value) /\ Len([i \in 1 .. n |-> x(i)]) = n
    BY <2>1
  <2> QED
    BY <2>2 DEF n, x
<1>5. BytesUnder(above, t) = [i \in 1 .. Size(t) |-> s.data[s.sp - Size(t) + Size(t) - i]]
  BY DEF BytesUnder, TopOf, ReadAt
<1>6. BytesUnder(above, t) = v
  <2> HIDE DEF s
  <2> QED
    BY <1>2, <1>3, <1>5
<1> QED
  BY <1>4, <1>6

-----------------------------------------------------------------------------
(* Bits.                                                                     *)

LEMMA NumberOfSums ==
  ASSUME NEW bits
  PROVE  \E f : /\ NumberOf(bits) = f[W] /\ f[0] = 0
                /\ \A k \in 0 .. W - 1 : f[k + 1] = f[k] + (IF k \in bits THEN 2^k ELSE 0)
<1> DEFINE Weight(k) == IF k \in bits THEN 2^k ELSE 0
           Sum(f, m) == f = [k \in 0 .. m |-> IF k = 0 THEN 0 ELSE f[k - 1] + Weight(k - 1)]
           T == {m \in Nat : \E f : Sum(f, m)}
<1>1. 0 \in T
  <2> DEFINE z == [k \in 0 .. 0 |-> 0]
  <2>1. Sum(z, 0)
    OBVIOUS
  <2> HIDE DEF Sum, z
  <2> QED
    BY <2>1
<1>2. ASSUME NEW m \in Nat, m \in T
      PROVE  m + 1 \in T
  <2>1. PICK f : Sum(f, m)
    BY <1>2
  <2> DEFINE g == [k \in 0 .. m + 1 |-> IF k = m + 1 THEN f[m] + Weight(m) ELSE f[k]]
  <2> HIDE DEF Weight
  <2>2. Sum(g, m + 1)
    <3> SUFFICES ASSUME NEW k \in 0 .. m + 1
                 PROVE  g[k] = IF k = 0 THEN 0 ELSE g[k - 1] + Weight(k - 1)
      OBVIOUS
    <3>1. CASE k = m + 1
      BY <3>1
    <3>2. CASE k # m + 1
      <4>1. k \in 0 .. m /\ g[k] = f[k] /\ (k # 0 => g[k - 1] = f[k - 1])
        BY <3>2
      <4>2. f[k] = IF k = 0 THEN 0 ELSE f[k - 1] + Weight(k - 1)
        BY <2>1, <4>1
      <4> QED
        BY <4>1, <4>2
    <3> QED
      BY <3>1, <3>2
  <2> HIDE DEF g, Sum
  <2> QED
    BY <2>2
<1>3. W \in T
  <2> HIDE DEF T
  <2> QED
    BY <1>1, <1>2, SetInduction, WidthOfBytes
<1> DEFINE h == CHOOSE h : Sum(h, W)
<1>4. Sum(h, W)
  <2>1. \E f : Sum(f, W)
    BY <1>3
  <2> HIDE DEF Sum
  <2> QED
    BY <2>1
<1>5. NumberOf(bits) = h[W]
  BY DEF NumberOf
<1> HIDE DEF h
<1>6. h[0] = 0 /\ \A k \in 0 .. W - 1 : h[k + 1] = h[k] + Weight(k)
  <2> HIDE DEF Weight
  <2>1. h[0] = 0
    BY <1>4, WidthOfBytes
  <2>2. ASSUME NEW k \in 0 .. W - 1
        PROVE  h[k + 1] = h[k] + Weight(k)
    <3>1. k + 1 \in 0 .. W /\ k + 1 # 0 /\ (k + 1) - 1 = k
      BY WidthOfBytes
    <3> QED
      BY <1>4, <3>1
  <2> QED
    BY <2>1, <2>2
<1> QED
  BY <1>5, <1>6

(* A higher power of two does not change a lower bit.                        *)
LEMMA LowerBits ==
  ASSUME NEW s \in Nat, NEW k \in Nat, NEW i \in 0 .. k - 1
  PROVE  ((s + 2^k) \div 2^i) % 2 = (s \div 2^i) % 2
<1> DEFINE p == 2^i
           m == 2^((k - i) - 1)
           x == s \div p
           y == x \div 2
           z == x % 2
<1>1. p \in Nat \ {0} /\ m \in Nat
  BY PowersOfTwo
<1>2. 2^k = (2 * m) * p
  <2>1. (k - i) - 1 \in Nat /\ ((k - i) - 1) + 1 = k - i /\ k - i \in Nat /\ i + (k - i) = k /\ i \in Nat
    OBVIOUS
  <2>2. 2^(k - i) = 2 * m
    BY <2>1, PowersOfTwo
  <2>3. 2^(i + (k - i)) = p * 2^(k - i)
    BY <2>1, ProductsOfPowers
  <2> QED
    BY <1>1, <2>1, <2>2, <2>3
<1> HIDE DEF p, m
<1>3. x \in Int /\ s % p \in 0 .. p - 1 /\ s = x * p + (s % p)
  BY <1>1, DivisionOf
<1> HIDE DEF x
<1>4. s + 2^k = (x + 2 * m) * p + (s % p) /\ x + 2 * m \in Int /\ s + 2^k \in Int
  <2>1. (x + 2 * m) * p = x * p + (2 * m) * p /\ x + 2 * m \in Int /\ (2 * m) * p \in Int
    BY <1>1, <1>3
  <2> DEFINE r == s % p
             u == x * p
             v == (2 * m) * p
  <2>2. r \in Int /\ u \in Int /\ s = u + r
    BY <1>1, <1>3
  <2> HIDE DEF r, u, v
  <2>3. s + v = u + v + r /\ s + v \in Int
    BY <2>1, <2>2 DEF v
  <2> QED
    BY <1>2, <2>1, <2>3 DEF r, u, v
<1>5. (s + 2^k) \div p = x + 2 * m
  BY <1>1, <1>3, <1>4, DivisionIsUnique
<1>6. y \in Int /\ z \in 0 .. 2 - 1 /\ x = y * 2 + z
  BY <1>3, DivisionOf
<1> HIDE DEF y, z
<1>7. x + 2 * m = (y + m) * 2 + z /\ y + m \in Int /\ 2 \in Nat \ {0}
  BY <1>1, <1>6
<1>8. (x + 2 * m) % 2 = z
  BY <1>4, <1>6, <1>7, DivisionIsUnique
<1> QED
  BY <1>5, <1>8 DEF p, x, z

LEMMA HighestBit ==
  ASSUME NEW k \in Nat, NEW s \in 0 .. 2^k - 1
  PROVE  /\ (s \div 2^k) % 2 = 0
         /\ ((s + 2^k) \div 2^k) % 2 = 1
<1> DEFINE p == 2^k
<1>1. p \in Nat \ {0}
  BY PowersOfTwo
<1> HIDE DEF p
<1>2. s \in 0 .. p - 1 /\ s \in Int /\ s = 0 * p + s /\ s + p = 1 * p + s /\ s + p \in Int
  BY <1>1 DEF p
<1>3. s \div p = 0 /\ (s + p) \div p = 1
  BY <1>1, <1>2, DivisionIsUnique
<1>4. 0 % 2 = 0 /\ 1 % 2 = 1
  OBVIOUS
<1> QED
  BY <1>3, <1>4 DEF p

(* The number has the bits of the set.                                       *)
LEMMA NumbersOfBits ==
  ASSUME NEW bits
  PROVE  /\ NumberOf(bits) \in 0 .. 2^W - 1 /\ NumberOf(bits) \in Nat
         /\ \A i \in 0 .. W - 1 : (NumberOf(bits) \div 2^i) % 2 = IF i \in bits THEN 1 ELSE 0
<1>1. PICK f : /\ NumberOf(bits) = f[W] /\ f[0] = 0
               /\ \A k \in 0 .. W - 1 : f[k + 1] = f[k] + (IF k \in bits THEN 2^k ELSE 0)
  BY NumberOfSums
<1> DEFINE Right(k) == /\ f[k] \in 0 .. 2^k - 1
                       /\ \A i \in 0 .. k - 1 : (f[k] \div 2^i) % 2 = IF i \in bits THEN 1 ELSE 0
           T == {k \in Nat : k <= W => Right(k)}
<1>2. 0 \in T
  <2>1. 2^0 = 1
    OBVIOUS
  <2>2. \A i \in 0 .. 0 - 1 : FALSE
    OBVIOUS
  <2>3. Right(0)
    BY <1>1, <2>1, <2>2
  <2> QED
    BY <2>3
<1>3. ASSUME NEW k \in Nat, k \in T
      PROVE  k + 1 \in T
  <2> SUFFICES ASSUME k + 1 <= W PROVE Right(k + 1)
    OBVIOUS
  <2>1. Right(k) /\ k \in 0 .. W - 1
    BY <1>3, WidthOfBytes
  <2>2. f[k + 1] = f[k] + (IF k \in bits THEN 2^k ELSE 0)
    BY <1>1, <2>1
  <2>3. 2^k \in Nat \ {0} /\ 2^(k + 1) = 2 * 2^k
    BY PowersOfTwo
  <2> DEFINE s == f[k]
  <2>4. s \in Nat /\ s \in 0 .. 2^k - 1 /\ s + 2^k \in Int
    BY <2>1, <2>3
  <2>5. f[k + 1] \in 0 .. 2^(k + 1) - 1
    BY <2>2, <2>3, <2>4
  <2>6. ASSUME NEW i \in 0 .. (k + 1) - 1
        PROVE  (f[k + 1] \div 2^i) % 2 = IF i \in bits THEN 1 ELSE 0
    <3> HIDE DEF s
    <3>1. CASE i = k /\ k \in bits
      <4>1. f[k + 1] = s + 2^k
        BY <2>2, <3>1 DEF s
      <4> QED
        BY <2>4, <3>1, <4>1, HighestBit
    <3>2. CASE i = k /\ k \notin bits
      <4>1. f[k + 1] = s
        BY <2>2, <2>4, <3>2 DEF s
      <4> QED
        BY <2>4, <3>2, <4>1, HighestBit
    <3>3. CASE i # k
      <4>1. i \in 0 .. k - 1
        BY <3>3
      <4>2. (s \div 2^i) % 2 = IF i \in bits THEN 1 ELSE 0
        BY <2>1, <4>1 DEF s
      <4>3. ((s + 2^k) \div 2^i) % 2 = (s \div 2^i) % 2
        BY <2>4, <4>1, LowerBits
      <4>4. f[k + 1] = s + 2^k \/ f[k + 1] = s
        BY <2>2, <2>4 DEF s
      <4> QED
        BY <4>2, <4>3, <4>4
    <3> QED
      BY <3>1, <3>2, <3>3
  <2> QED
    BY <2>5, <2>6
<1>4. W \in T
  <2> HIDE DEF T
  <2> QED
    BY <1>2, <1>3, SetInduction, WidthOfBytes
<1>5. Right(W)
  BY <1>4, WidthOfBytes
<1> QED
  BY <1>1, <1>5, WidthOfBytes

(* A number is known by its bits.                                            *)
LEMMA SameBits ==
  ASSUME NEW u \in 0 .. 2^W - 1, NEW v \in 0 .. 2^W - 1,
         \A i \in 0 .. W - 1 : (u \div 2^i) % 2 = (v \div 2^i) % 2
  PROVE  u = v
<1> DEFINE T == {k \in Nat : k <= W => u % 2^k = v % 2^k}
<1>0. u \in Int /\ v \in Int
  BY Widths
<1>1. 0 \in T
  <2>1. 2^0 = 1
    OBVIOUS
  <2>2. u % 1 = 0 /\ v % 1 = 0
    BY <1>0
  <2> QED
    BY <2>1, <2>2
<1>2. ASSUME NEW k \in Nat, k \in T
      PROVE  k + 1 \in T
  <2> SUFFICES ASSUME k + 1 <= W PROVE u % 2^(k + 1) = v % 2^(k + 1)
    OBVIOUS
  <2> DEFINE p == 2^k
  <2>1. p \in Nat \ {0} /\ 2^(k + 1) = p * 2 /\ 2 \in Nat \ {0}
    BY PowersOfTwo
  <2>2. u % p = v % p /\ (u \div p) % 2 = (v \div p) % 2
    <3>1. k \in 0 .. W - 1 /\ k <= W
      BY WidthOfBytes
    <3> QED
      BY <1>2, <3>1
  <2> HIDE DEF p
  <2>5. DigitsOf(u, p, 2) /\ DigitsOf(v, p, 2)
    BY <1>0, <2>1, DivisionByProduct
  <2>3. u % (p * 2) = (u % p) + p * ((u \div p) % 2)
    BY <2>5, Zenon DEF DigitsOf
  <2>4. v % (p * 2) = (v % p) + p * ((v \div p) % 2)
    BY <2>5, Zenon DEF DigitsOf
  <2> QED
    BY <2>1, <2>2, <2>3, <2>4
<1>3. W \in T
  <2> HIDE DEF T
  <2> QED
    BY <1>1, <1>2, SetInduction, WidthOfBytes
<1>4. u % 2^W = v % 2^W
  BY <1>3, WidthOfBytes
<1> DEFINE M == 2^W
<1>5. M \in Nat \ {0}
  BY Widths
<1>6. u \in 0 .. M - 1 /\ v \in 0 .. M - 1 /\ u = 0 * M + u /\ v = 0 * M + v
  BY <1>0, <1>5
<1> HIDE DEF M
<1>7. u % M = u /\ v % M = v
  BY <1>0, <1>5, <1>6, DivisionIsUnique
<1> QED
  BY <1>4, <1>7 DEF M

LEMMA CombinedNumber ==
  ASSUME NEW op \in {"AND", "OR", "XOR"}, NEW a \in Int, NEW b \in Int
  PROVE  /\ NumberOf(CombinedBits(op, BitsOf(a), BitsOf(b))) = Promise!BitwiseNumber(op, a, b)
         /\ NumberOf(CombinedBits(op, BitsOf(a), BitsOf(b))) \in 0 .. 2^W - 1
<1> DEFINE bits == CombinedBits(op, BitsOf(a), BitsOf(b))
           n == NumberOf(bits)
           Fits(v) == \A i \in 0 .. W - 1 :
                        Promise!Bit(v, i) = Promise!Bits(op, Promise!Bit(a, i), Promise!Bit(b, i))
<1>1. /\ n \in 0 .. 2^W - 1
      /\ \A i \in 0 .. W - 1 : Promise!Bit(n, i) = IF i \in bits THEN 1 ELSE 0
  BY NumbersOfBits DEF Promise!Bit
<1>2. \A i \in 0 .. W - 1 :
        /\ Promise!Bit(a, i) \in {0, 1} /\ Promise!Bit(b, i) \in {0, 1}
        /\ i \in BitsOf(a) <=> Promise!Bit(a, i) = 1
        /\ i \in BitsOf(b) <=> Promise!Bit(b, i) = 1
  <2> SUFFICES ASSUME NEW i \in 0 .. W - 1
               PROVE  /\ Promise!Bit(a, i) \in {0, 1} /\ Promise!Bit(b, i) \in {0, 1}
                      /\ i \in BitsOf(a) <=> Promise!Bit(a, i) = 1
                      /\ i \in BitsOf(b) <=> Promise!Bit(b, i) = 1
    OBVIOUS
  <2>1. i \in Nat /\ 2^i \in Nat \ {0}
    BY WidthOfBytes, PowersOfTwo
  <2>2. a \div 2^i \in Int /\ b \div 2^i \in Int
    BY <2>1, DivisionOf
  <2>3. \A x \in Int : x % 2 \in {0, 1}
    OBVIOUS
  <2>4. Promise!Bit(a, i) \in {0, 1} /\ Promise!Bit(b, i) \in {0, 1}
    BY <2>2, <2>3 DEF Promise!Bit
  <2> QED
    BY <2>4 DEF Promise!Bit, BitsOf
<1>3. ASSUME NEW i \in 0 .. W - 1
      PROVE  (IF i \in bits THEN 1 ELSE 0) = Promise!Bits(op, Promise!Bit(a, i), Promise!Bit(b, i))
  <2> DEFINE x == Promise!Bit(a, i)
             y == Promise!Bit(b, i)
  <2>1. x \in {0, 1} /\ y \in {0, 1} /\ (i \in BitsOf(a) <=> x = 1) /\ (i \in BitsOf(b) <=> y = 1)
    BY <1>2
  <2> HIDE DEF x, y
  <2>2. CASE op = "AND"
    <3>1. Promise!Bits(op, x, y) = x * y /\ bits = BitsOf(a) \cap BitsOf(b)
      BY <2>2 DEF Promise!Bits, CombinedBits
    <3> HIDE DEF bits
    <3> QED
      BY <2>1, <3>1 DEF x, y
  <2>3. CASE op = "OR"
    <3>1. Promise!Bits(op, x, y) = x + y - x * y /\ bits = BitsOf(a) \cup BitsOf(b)
      BY <2>3 DEF Promise!Bits, CombinedBits
    <3> HIDE DEF bits
    <3> QED
      BY <2>1, <3>1 DEF x, y
  <2>4. CASE op = "XOR"
    <3>1. /\ Promise!Bits(op, x, y) = (x + y) % 2
          /\ bits = (BitsOf(a) \cup BitsOf(b)) \ (BitsOf(a) \cap BitsOf(b))
      BY <2>4 DEF Promise!Bits, CombinedBits
    <3>2. (0 + 0) % 2 = 0 /\ (0 + 1) % 2 = 1 /\ (1 + 0) % 2 = 1 /\ (1 + 1) % 2 = 0
      OBVIOUS
    <3> HIDE DEF bits
    <3> QED
      BY <2>1, <3>1, <3>2 DEF x, y
  <2> QED
    BY <2>2, <2>3, <2>4
<1> HIDE DEF bits, n
<1>4. Fits(n)
  BY <1>1, <1>3
<1>5. Promise!Value("U16") = 0 .. 2^W - 1
  BY DEF Promise!Value
<1>6. \A v \in 0 .. 2^W - 1 : Fits(v) => v = n
  <2> SUFFICES ASSUME NEW v \in 0 .. 2^W - 1, Fits(v) PROVE v = n
    OBVIOUS
  <2>1. \A i \in 0 .. W - 1 : Promise!Bit(v, i) = Promise!Bit(n, i)
    BY <1>4
  <2>2. \A i \in 0 .. W - 1 : (v \div 2^i) % 2 = (n \div 2^i) % 2
    BY <2>1 DEF Promise!Bit
  <2> QED
    BY <1>1, <2>2, SameBits
<1>7. Promise!BitwiseNumber(op, a, b) = CHOOSE v \in 0 .. 2^W - 1 : Fits(v)
  BY <1>5 DEF Promise!BitwiseNumber
<1> HIDE DEF Fits
<1>8. n = CHOOSE v \in 0 .. 2^W - 1 : Fits(v)
  BY <1>1, <1>4, <1>6
<1> QED
  BY <1>1, <1>7, <1>8 DEF n, bits

-----------------------------------------------------------------------------
(* What instructions read and write.                                         *)

LEMMA NothingOnTop ==
  ASSUME types \in Seq(Types)
  PROVE  <<>> \in Seq(Types) /\ OnTop(<<>>) /\ Consumed(Len(<<>>)) = types
<1>1. Len(<<>>) = 0 /\ Len(types) \in Nat
  OBVIOUS
<1>2. Len(Reverse(<<>>)) = 0 /\ Reverse(<<>>) = <<>>
  BY <1>1 DEF Reverse
<1>3. Len(Reverse(types)) = Len(types) /\ SubSeq(Reverse(types), 1, 0) = <<>>
  <2>1. Len(Reverse(types)) = Len(types)
    BY <1>1 DEF Reverse
  <2>2. Reverse(types) \in Seq(Types)
    BY <1>1 DEF Reverse
  <2> QED
    BY <2>1, <2>2
<1>4. OnTop(<<>>)
  BY <1>1, <1>2, <1>3 DEF OnTop, IsSuffix, IsPrefix
<1>5. Consumed(0) = types
  <2>1. /\ Consumed(0) \in Seq(Types) /\ Len(Consumed(0)) = Len(types)
        /\ \A i \in 1 .. Len(types) : Consumed(0)[i] = types[i]
    BY <1>1 DEF Consumed
  <2> QED
    BY <2>1, SeqEqual
<1> QED
  BY <1>1, <1>4, <1>5

(* The operand of type t under others on top, read as one of a type u of the *)
(* same size.                                                                *)
LEMMA OperandIsOfItsType ==
  ASSUME IInv, NEW t \in Types, NEW u \in Types, Size(u) = Size(t),
         NEW above \in Seq(Types), NEW ts \in Seq(Types), OnTop(ts),
         Bytes(above) + Size(t) <= Bytes(ts)
  PROVE  /\ OperandUnder(above, u) \in Int
         /\ u = "U16" => OperandUnder(above, u) \in Nat
<1>1. Bytes(types) = Bytes(Consumed(Len(ts))) + Bytes(ts) /\ Consumed(Len(ts)) \in Seq(Types)
  BY OperandsOnTop DEF IInv
<1>2. /\ Bytes(Consumed(Len(ts))) \in Nat /\ Bytes(ts) \in Nat /\ Bytes(above) \in Nat
      /\ Size(u) \in Nat
  BY <1>1, BytesAreCounted, Sizes
<1>3. Bytes(above) + Size(u) <= opstack.sp
  BY <1>1, <1>2 DEF IInv
<1>4. BytesUnder(above, u) \in Seq(Value) /\ Len(BytesUnder(above, u)) = Size(u)
  BY <1>3, OperandRead
<1>5. /\ OperandUnder(above, u) \in Int
      /\ u = "U16" => OperandUnder(above, u) \in 0 .. B * B - 1
  BY <1>4, Decoded DEF OperandUnder
<1> QED
  BY <1>5, WidthOfBytes

(* The two operands of a binary instruction, and the one of a unary one.     *)
LEMMA TwoOperands ==
  ASSUME IInv, NEW t \in Types, NEW u \in Types, Size(u) = Size(t), OnTop(<<t, t>>)
  PROVE  /\ OperandUnder(<<>>, u) \in Int /\ OperandUnder(<<t>>, u) \in Int
         /\ u = "U16" => OperandUnder(<<>>, u) \in Nat /\ OperandUnder(<<t>>, u) \in Nat
<1>1. /\ <<>> \in Seq(Types) /\ <<t>> \in Seq(Types) /\ <<t, t>> \in Seq(Types)
      /\ Bytes(<<>>) + Size(t) <= Bytes(<<t, t>>)
      /\ Bytes(<<t>>) + Size(t) <= Bytes(<<t, t>>)
  BY BytesOfOneOrTwo, BytesOfNone, Sizes
<1> QED
  BY <1>1, OperandIsOfItsType

LEMMA OneOperand ==
  ASSUME IInv, NEW t \in Types, OnTop(<<t>>)
  PROVE  /\ OperandUnder(<<>>, t) \in Int
         /\ t = "U16" => OperandUnder(<<>>, t) \in Nat
<1>1. <<t>> \in Seq(Types) /\ Bytes(<<t>>) = Size(t)
  BY BytesOfOneOrTwo, Zenon
<1>2. <<>> \in Seq(Types) /\ Bytes(<<>>) + Size(t) <= Bytes(<<t>>)
  BY <1>1, BytesOfNone, Sizes
<1> QED
  BY <1>1, <1>2, OperandIsOfItsType

LEMMA Popped ==
  ASSUME IInv, NEW ts \in Seq(Types), OnTop(ts), NEW i, NEW printed,
         Continue(i, WithoutTop(opstack, ts), Consumed(Len(ts)), printed)
  PROVE  IInv'
<1>1. /\ opstack' = WithoutTop(opstack, ts) /\ types' = Consumed(Len(ts))
      /\ ports' = ports /\ status' = status
  BY DEF Continue
<1>2. opstack' \in StackOfBytes /\ opstack'.sp = Bytes(types')
  BY <1>1, StackUnderTop
<1>3. types' \in Seq(Types)
  BY <1>1, OperandsOnTop DEF IInv
<1> QED
  BY <1>1, <1>2, <1>3 DEF IInv

LEMMA Replaced ==
  ASSUME IInv, NEW ts \in Seq(Types), OnTop(ts), NEW i,
         NEW t \in Types, NEW v \in Seq(Value), Len(v) = Size(t), Replace(i, ts, t, v)
  PROVE  IInv'
<1> DEFINE s == WithoutTop(opstack, ts)
           c == Consumed(Len(ts))
<1>1. s \in StackOfBytes /\ s.sp = Bytes(c) /\ c \in Seq(Types)
  BY StackUnderTop, OperandsOnTop DEF IInv
<1>2. CASE CanPush(s, Len(v))
  <2>1. /\ opstack' = Push(s, v) /\ types' = Append(c, t)
        /\ ports' = ports /\ status' = status
    BY <1>2 DEF Replace, Continue
  <2> HIDE DEF s, c
  <2>2. Push(s, v) \in StackOfBytes /\ Push(s, v).sp = s.sp + Len(v)
    BY <1>1, <1>2, Pushed
  <2>3. types' \in Seq(Types) /\ Bytes(types') = Bytes(c) + Size(t)
    BY <1>1, <2>1, BytesAppend
  <2> QED
    BY <1>1, <2>1, <2>2, <2>3 DEF IInv
<1>3. CASE ~CanPush(s, Len(v))
  BY <1>3 DEF Replace, Exit, IInv
<1> QED
  BY <1>2, <1>3

-----------------------------------------------------------------------------
(* One step per instruction.                                                 *)

LEMMA PushLiteralCounts ==
  ASSUME IInv, PushLiteral
  PROVE  IInv'
<1>1. <<>> \in Seq(Types) /\ OnTop(<<>>)
  BY NothingOnTop DEF IInv
<1>2. ASSUME NEW t \in {"U16", "I16"}, NEW n \in Literals,
             Replace(Op("PUSHL"), <<>>, t, Encode(n))
      PROVE  IInv'
  <2>1. n \in Int
    BY InterpreterAssumption, WidthOfBytes DEF W
  <2>2. t \in Types /\ Size(t) = 2
    BY DEF Types, Size
  <2> QED
    BY <1>1, <1>2, <2>1, <2>2, Encoded, Replaced
<1>3. ASSUME NEW v \in F32Literals, Replace(Op("PUSHL"), <<>>, "F32", v)
      PROVE  IInv'
  <2>1. v \in Seq(Value) /\ Len(v) = Size("F32") /\ "F32" \in Types
    BY InterpreterAssumption DEF Value, B, Size, Types
  <2> QED
    BY <1>1, <1>3, <2>1, Replaced
<1> QED
  BY <1>2, <1>3 DEF PushLiteral

LEMMA PushAddressCounts ==
  ASSUME IInv, NEW a \in Nat, ByteAt(a) \in Int, PushAddress(a)
  PROVE  IInv'
<1>1. <<>> \in Seq(Types) /\ OnTop(<<>>)
  BY NothingOnTop DEF IInv
<1>2. "U16" \in Types /\ Size("U16") = 2
  BY DEF Types, Size
<1> QED
  BY <1>1, <1>2, Encoded, Replaced DEF PushAddress

LEMMA PushCounts ==
  ASSUME IInv, PushPort \/ PushConstant
  PROVE  IInv'
<1>1. ASSUME NEW p \in 0 .. PORTS - 1, PushAddress(p)
      PROVE  IInv'
  <2>1. p \in Nat /\ ByteAt(p) \in Value
    BY InterpreterAssumption DEF ByteAt, IInv
  <2>2. ByteAt(p) \in Int
    BY <2>1, WidthOfBytes DEF Value
  <2> QED
    BY <1>1, <2>1, <2>2, PushAddressCounts
<1>2. ASSUME NEW c \in DeclaredU16, PushAddress(c.address)
      PROVE  IInv'
  <2> DEFINE a == c.address
  <2>1. a \in Nat /\ a >= PORTS /\ Data[a - PORTS] \in 0 .. B - 1 /\ PORTS \in Nat
    BY InterpreterAssumption DEF B
  <2> HIDE DEF a
  <2>2. ByteAt(a) \in Int
    BY <2>1, WidthOfBytes DEF ByteAt
  <2>3. PushAddress(a)
    BY <1>2 DEF a
  <2> QED
    BY <2>1, <2>2, <2>3, PushAddressCounts
<1> QED
  BY <1>1, <1>2 DEF PushPort, PushConstant

LEMMA DividedIsANumber ==
  ASSUME NEW a \in Int, NEW b \in Int, b # 0
  PROVE  Divided(a, b) \in Int
<1>1. Abs(a) \in Nat /\ Abs(b) \in Nat \ {0}
  BY DEF Abs
<1>2. Abs(a) \div Abs(b) \in Int
  BY <1>1
<1> QED
  BY <1>2 DEF Divided

LEMMA CalculateCounts ==
  ASSUME IInv, Calculate
  PROVE  IInv'
<1>1. PICK t \in {"U16", "I16"}, op \in {"ADD", "SUB", "MUL", "DIV"} :
        /\ OnTop(<<t, t>>)
        /\ IF op = "DIV" /\ OperandUnder(<<>>, t) = 0
           THEN Exit("undefined")
           ELSE Replace(Op(op), <<t, t>>, t,
                  Encode(ArithmeticResult(op, OperandUnder(<<t>>, t), OperandUnder(<<>>, t))))
  BY DEF Calculate
<1> DEFINE b == OperandUnder(<<>>, t)
           a == OperandUnder(<<t>>, t)
<1>2. t \in Types /\ Size(t) = 2 /\ <<t, t>> \in Seq(Types)
  BY DEF Types, Size
<1>3. a \in Int /\ b \in Int
  BY <1>1, <1>2, TwoOperands
<1> HIDE DEF a, b
<1>4. CASE op = "DIV" /\ b = 0
  <2>1. Exit("undefined")
    BY <1>1, <1>4 DEF b
  <2> QED
    BY <2>1 DEF Exit, IInv
<1>5. CASE ~(op = "DIV" /\ b = 0)
  <2>1. Replace(Op(op), <<t, t>>, t, Encode(ArithmeticResult(op, a, b)))
    BY <1>1, <1>5 DEF a, b
  <2>2. ArithmeticResult(op, a, b) \in Int
    BY <1>3, <1>5, DividedIsANumber DEF ArithmeticResult
  <2> QED
    BY <1>1, <1>2, <2>1, <2>2, Encoded, Replaced
<1> QED
  BY <1>4, <1>5

LEMMA CalculateF32Counts ==
  ASSUME IInv, CalculateF32
  PROVE  IInv'
<1>1. PICK v \in F32Literals : Replace(Op("F32"), <<"F32", "F32">>, "F32", v)
  BY DEF CalculateF32
<1>2. OnTop(<<"F32", "F32">>) /\ <<"F32", "F32">> \in Seq(Types)
  BY DEF CalculateF32, Types
<1>3. v \in Seq(Value) /\ Len(v) = Size("F32") /\ "F32" \in Types
  BY InterpreterAssumption DEF Value, B, Size, Types
<1> QED
  BY <1>1, <1>2, <1>3, Replaced

LEMMA CompareCounts ==
  ASSUME IInv, Compare
  PROVE  IInv'
<1>1. PICK t \in ComparedTypes, op \in {"EQ", "LT", "GT", "LE", "GE"} :
        /\ OnTop(<<t, t>>)
        /\ Replace(Op(op), <<t, t>>, "bool",
             EncodeBool(CompareResult(op, OperandUnder(<<t>>, "I16"), OperandUnder(<<>>, "I16"))))
  BY DEF Compare
<1> DEFINE b == OperandUnder(<<>>, "I16")
           a == OperandUnder(<<t>>, "I16")
<1>2. t \in {"U16", "I16"}
  BY InterpreterAssumption
<1>3. t \in Types /\ "I16" \in Types /\ Size("I16") = Size(t) /\ <<t, t>> \in Seq(Types)
      /\ "bool" \in Types /\ Size("bool") = 1
  BY <1>2 DEF Types, Size
<1>4. a \in Int /\ b \in Int
  BY <1>1, <1>3, TwoOperands
<1> HIDE DEF a, b
<1>5. Replace(Op(op), <<t, t>>, "bool", EncodeBool(CompareResult(op, a, b)))
  BY <1>1 DEF a, b
<1> QED
  BY <1>1, <1>3, <1>5, BoolEncoded, Replaced

LEMMA CombineBitsCounts ==
  ASSUME IInv, CombineBits
  PROVE  IInv'
<1> DEFINE t == "U16"
<1>1. PICK n \in Nat, op \in {"AND", "OR", "XOR"} :
        OnTop(<<t, t>>) /\ Replace(Op(op), <<t, t>>, t, Encode(n))
  <2>1. PICK op \in {"AND", "OR", "XOR"} : \E bits :
          OnTop(<<t, t>>) /\ Replace(Op(op), <<t, t>>, t, Encode(NumberOf(bits)))
    BY Zenon DEF CombineBits
  <2> QED
    BY <2>1, NumbersOfBits
<1>2. t \in Types /\ Size(t) = 2 /\ <<t, t>> \in Seq(Types)
  BY DEF Types, Size
<1>3. n \in Int
  OBVIOUS
<1> HIDE DEF t
<1> QED
  BY <1>1, <1>2, <1>3, Encoded, Replaced

LEMMA ComplementCounts ==
  ASSUME IInv, Complement
  PROVE  IInv'
<1> DEFINE t == "U16"
<1>1. OnTop(<<t>>) /\ Replace(Op("NOT"), <<t>>, t, Encode(-1 - OperandUnder(<<>>, t)))
  BY DEF Complement
<1>2. t \in Types /\ Size(t) = 2 /\ <<t>> \in Seq(Types)
  BY DEF Types, Size
<1> HIDE DEF t
<1>3. -1 - OperandUnder(<<>>, t) \in Int
  BY <1>1, <1>2, OneOperand
<1> QED
  BY <1>1, <1>2, <1>3, Encoded, Replaced

LEMMA ShiftCounts ==
  ASSUME IInv, Shift
  PROVE  IInv'
<1> DEFINE t == "U16"
<1>1. PICK op \in {"LSHIFT", "RSHIFT"} :
        /\ OnTop(<<t, t>>)
        /\ \E n \in Shifted(op, OperandUnder(<<t>>, t), OperandUnder(<<>>, t)) :
             Replace(Op(op), <<t, t>>, t, Encode(n))
  BY DEF Shift
<1> DEFINE b == OperandUnder(<<>>, t)
           a == OperandUnder(<<t>>, t)
<1>2. t \in Types /\ Size(t) = 2 /\ <<t, t>> \in Seq(Types)
  BY DEF Types, Size
<1>3. a \in Nat /\ b \in Nat
  BY <1>1, <1>2, TwoOperands
<1>4. PICK n \in Shifted(op, a, b) : Replace(Op(op), <<t, t>>, t, Encode(n))
  BY <1>1
<1> HIDE DEF a, b
<1>5. n \in Int
  <2>1. 2^b \in Nat \ {0}
    BY <1>3, PowersOfTwo
  <2>2. a * 2^b \in Int /\ a \div 2^b \in Int
    BY <1>3, <2>1
  <2> QED
    BY <1>4, <2>2, WidthOfBytes DEF Shifted
<1> HIDE DEF t
<1> QED
  BY <1>1, <1>2, <1>4, <1>5, Encoded, Replaced

LEMMA DiscardCounts ==
  ASSUME IInv, Discard \/ JumpIfFalse
  PROVE  IInv'
<1>1. ASSUME NEW t \in Types, NEW i, OnTop(<<t>>),
             Continue(i, Pop(opstack, Size(t)), Consumed(1), <<>>)
      PROVE  IInv'
  <2>1. <<t>> \in Seq(Types) /\ Bytes(<<t>>) = Size(t)
    BY BytesOfOneOrTwo, Zenon
  <2>2. Len(<<t>>) = 1
    OBVIOUS
  <2>3. Continue(i, WithoutTop(opstack, <<t>>), Consumed(Len(<<t>>)), <<>>)
    BY <1>1, <2>1, <2>2 DEF WithoutTop
  <2> QED
    BY <1>1, <2>1, <2>3, Popped
<1>2. "bool" \in Types /\ Size("bool") = 1 /\ {"U16", "I16", "F32"} \subseteq Types
  BY DEF Types, Size
<1>3. CASE Discard
  <2>1. PICK t \in {"U16", "I16", "F32"} :
          OnTop(<<t>>) /\ Continue(Op("POP"), Pop(opstack, Size(t)), Consumed(1), <<>>)
    BY <1>3 DEF Discard
  <2> QED
    BY <1>1, <1>2, <2>1
<1>4. CASE JumpIfFalse
  <2>1. PICK i : OnTop(<<"bool">>) /\ Continue(i, Pop(opstack, 1), Consumed(1), <<>>)
    BY <1>4, Zenon DEF JumpIfFalse
  <2> QED
    BY <1>1, <1>2, <2>1
<1> QED
  BY <1>3, <1>4

LEMMA WritePortCounts ==
  ASSUME IInv, WritePort
  PROVE  IInv'
<1> DEFINE t == "U16"
           x == OperandUnder(<<>>, t) % B
<1> SUFFICES ASSUME ~Exit("failed") PROVE IInv'
  BY DEF Exit, IInv
<1>0. PICK p \in 0 .. PORTS :
        /\ OnTop(<<t>>) /\ p < PORTS
        /\ ports' = [ports EXCEPT ![p] = x]
        /\ opstack' = Pop(opstack, 2) /\ types' = Consumed(1) /\ status' = status
  BY DEF WritePort
<1>1. p \in 0 .. PORTS - 1
  BY <1>0, InterpreterAssumption
<1>2. t \in Types /\ Size(t) = 2 /\ <<t>> \in Seq(Types) /\ Len(<<t>>) = 1
  BY DEF Types, Size
<1>3. x \in Value
  <2>1. OperandUnder(<<>>, t) \in Int
    BY <1>0, <1>2, OneOperand
  <2> QED
    BY <2>1, WidthOfBytes DEF Value
<1> HIDE DEF x
<1>4. ports' \in [0 .. PORTS - 1 -> Value]
  BY <1>0, <1>1, <1>3 DEF IInv
<1> HIDE DEF t
<1>5. Bytes(<<t>>) = 2
  BY <1>2, BytesOfOneOrTwo
<1>6. opstack' = WithoutTop(opstack, <<t>>) /\ types' = Consumed(Len(<<t>>))
  BY <1>0, <1>2, <1>5 DEF WithoutTop
<1>7. opstack' \in StackOfBytes /\ opstack'.sp = Bytes(types')
  BY <1>0, <1>2, <1>6, StackUnderTop
<1>8. types' \in Seq(Types)
  BY <1>0, <1>2, <1>6, OperandsOnTop DEF IInv
<1> QED
  BY <1>0, <1>4, <1>7, <1>8 DEF IInv

LEMMA ShowCounts ==
  ASSUME IInv, Show
  PROVE  IInv'
BY DEF Show, Continue, IInv

LEMMA PrintCounts ==
  ASSUME IInv, BuiltinPrint
  PROVE  IInv'
<1>1. PICK f \in Formats : \E printed :
        /\ OnTop(Reverse(f) \o <<"U16">>)
        /\ Continue(Op("PRINT"), WithoutTop(opstack, Reverse(f) \o <<"U16">>),
                    Consumed(Len(Reverse(f) \o <<"U16">>)), printed)
  BY Zenon DEF BuiltinPrint
<1>2. f \in Seq(Types)
  BY InterpreterAssumption DEF Types
<1>3. Reverse(f) \in Seq(Types)
  BY <1>2 DEF Reverse
<1>4. Reverse(f) \o <<"U16">> \in Seq(Types)
  BY <1>3 DEF Types
<1> QED
  BY <1>1, <1>4, Popped

LEMMA InitCounts == Init => IInv
<1> SUFFICES ASSUME Init PROVE IInv
  OBVIOUS
<1>1. 0 \in Value
  BY WidthOfBytes DEF Value
<1>2. opstack \in StackOfBytes /\ opstack.sp = 0
  <2>1. opstack = [data |-> [i \in 0 .. OPSTACK_SIZE - 1 |-> 0], size |-> OPSTACK_SIZE,
                   sp |-> 0, bp |-> 0]
    BY Zenon DEF Init, stack_create
  <2>2. [i \in 0 .. OPSTACK_SIZE - 1 |-> 0] \in [0 .. OPSTACK_SIZE - 1 -> Value]
    BY <1>1
  <2>3. 0 \in 0 .. OPSTACK_SIZE
    BY InterpreterAssumption
  <2> QED
    BY <2>1, <2>2, <2>3 DEF StackOfBytes
<1>3. ports = [p \in 0 .. PORTS - 1 |-> 0] /\ types = <<>> /\ status = "running"
  BY Zenon DEF Init
<1>4. ports \in [0 .. PORTS - 1 -> Value] /\ types \in Seq(Types)
  BY <1>1, <1>3
<1> QED
  BY <1>2, <1>3, <1>4, BytesOfNone DEF IInv

LEMMA StepCounts == IInv /\ [Next]_vars => IInv'
<1> SUFFICES ASSUME IInv, [Next]_vars PROVE IInv'
  OBVIOUS
<1>1. CASE Instruction
  BY <1>1, PushLiteralCounts, PushCounts, CalculateCounts, CalculateF32Counts, CompareCounts,
     CombineBitsCounts, ComplementCounts, ShiftCounts, DiscardCounts, WritePortCounts,
     ShowCounts, PrintCounts, Zenon DEF Instruction
<1>2. CASE UNCHANGED vars
  BY <1>2 DEF vars, IInv
<1>3. Instruction \/ UNCHANGED vars
  BY Zenon DEF Next, Stopped
<1> QED
  BY <1>1, <1>2, <1>3

LEMMA CountedIsTyped == IInv => TypeOK
BY DEF IInv, TypeOK, StackOfBytes, Value

(* The stack holds the bytes of the operands, no more and no less, and never *)
(* more than it has room for; ports and cells are bytes: no instruction of   *)
(* instructions.c leaves a byte of an operand behind or takes one of another.*)
THEOREM InterpreterTypeCorrect == Spec => []TypeOK
<1>1. Spec => []IInv
  BY InitCounts, StepCounts, PTL DEF Spec
<1> QED
  BY <1>1, CountedIsTyped, PTL

-----------------------------------------------------------------------------
(* What the bytes of a number are read as is the number, wrapped around.     *)

LEMMA UnsignedOfBytes ==
  ASSUME NEW n \in Int
  PROVE  /\ DecodeUnsigned(Encode(n)) = n % 2^W
         /\ Promise!Wrapped("U16", n) = n % 2^W
         /\ n % 2^W \in 0 .. 2^W - 1
<1>1. n % (B * B) = (n % B) + B * ((n \div B) % B)
  <2>1. B \in Nat \ {0}
    BY WidthOfBytes
  <2> QED
    BY <2>1, DivisionByProduct, Zenon DEF DigitsOf
<1>2. DecodeUnsigned(Encode(n)) = (n % B) + B * ((n \div B) % B)
  BY DEF DecodeUnsigned, Encode
<1>3. n % 2^W \in 0 .. 2^W - 1
  BY Widths, DivisionOf
<1>4. Promise!Wrapped("U16", n) = n % 2^W
  <2>1. Promise!Wrapped("U16", n) = 0 + ((n - 0) % 2^W)
    BY DEF Promise!Wrapped
  <2>2. n - 0 = n /\ n % 2^W \in Int
    BY <1>3, Widths
  <2> QED
    BY <2>1, <2>2
<1> QED
  BY <1>1, <1>2, <1>3, <1>4, Widths

LEMMA SignedOfBytes ==
  ASSUME NEW n \in Int
  PROVE  /\ DecodeSigned(Encode(n)) = Promise!Wrapped("I16", n)
         /\ Promise!Wrapped("I16", n) \in -(2^(W - 1)) .. 2^(W - 1) - 1
<1> DEFINE h == 2^(W - 1)
           M == 2^W
           q == n \div M
           u == n % M
<1>1. M = 2 * h /\ h \in Nat \ {0} /\ M \in Nat \ {0}
  BY Widths
<1>2. Promise!Wrapped("I16", n) = -h + ((n - (-h)) % M)
  BY DEF Promise!Wrapped
<1>3. DecodeSigned(Encode(n)) = IF u >= h THEN u - M ELSE u
  BY UnsignedOfBytes DEF DecodeSigned
<1> HIDE DEF h, M
<1>4. q \in Int /\ u \in 0 .. M - 1 /\ n = q * M + u
  BY <1>1, DivisionOf
<1> HIDE DEF q, u
<1>5. CASE u >= h
  <2>1. n - (-h) = (q + 1) * M + (u - h) /\ u - h \in 0 .. M - 1 /\ q + 1 \in Int
    BY <1>1, <1>4, <1>5
  <2>2. (n - (-h)) % M = u - h
    BY <1>1, <2>1, DivisionIsUnique
  <2> QED
    BY <1>1, <1>2, <1>3, <1>4, <1>5, <2>2 DEF h
<1>6. CASE u < h
  <2>1. n - (-h) = q * M + (u + h) /\ u + h \in 0 .. M - 1
    BY <1>1, <1>4, <1>6
  <2>2. (n - (-h)) % M = u + h
    BY <1>1, <1>4, <2>1, DivisionIsUnique
  <2> QED
    BY <1>1, <1>2, <1>3, <1>4, <1>6, <2>2 DEF h
<1> QED
  BY <1>1, <1>4, <1>5, <1>6

LEMMA NumberOfBytes ==
  ASSUME NEW t \in {"U16", "I16"}, NEW n \in Int
  PROVE  /\ Decode(t, Encode(n)) = Promise!Wrapped(t, n)
         /\ Promise!Wrapped(t, n) \in Promise!Value(t)
<1>1. CASE t = "U16"
  <2>1. Decode(t, Encode(n)) = DecodeUnsigned(Encode(n))
    BY <1>1 DEF Decode
  <2>2. Promise!Value(t) = 0 .. 2^W - 1
    BY <1>1 DEF Promise!Value
  <2> QED
    BY <1>1, <2>1, <2>2, UnsignedOfBytes
<1>2. CASE t = "I16"
  <2>1. Decode(t, Encode(n)) = DecodeSigned(Encode(n))
    BY <1>2 DEF Decode
  <2>2. Promise!Value(t) = -(2^(W - 1)) .. 2^(W - 1) - 1
    BY <1>2 DEF Promise!Value
  <2> QED
    BY <1>2, <2>1, <2>2, SignedOfBytes
<1> QED
  BY <1>1, <1>2

(* A number that needs no wrapping.                                          *)
LEMMA NumberFits ==
  ASSUME NEW n \in 0 .. 2^W - 1
  PROVE  Decode("U16", Encode(n)) = n
<1>1. n % 2^W = n
  <2>1. n \in Int /\ n = 0 * 2^W + n
    BY Widths
  <2> QED
    BY <2>1, Widths, DivisionIsUnique
<1>2. n \in Int
  BY Widths
<1> QED
  BY <1>1, <1>2, UnsignedOfBytes DEF Decode

LEMMA ByteFits ==
  ASSUME NEW n \in Value
  PROVE  Decode("U16", Encode(n)) = n /\ n \in Int
<1>1. B <= B * B
  BY WidthOfBytes
<1>2. n \in 0 .. 2^W - 1 /\ n \in Int
  BY <1>1, Widths, WidthOfBytes DEF Value
<1> QED
  BY <1>2, NumberFits

LEMMA BoolOfByte ==
  ASSUME NEW b
  PROVE  Decode("bool", EncodeBool(b)) = IF b THEN 1 ELSE 0
BY DEF Decode, EncodeBool

(* Two bytes are a number of their type.                                     *)
LEMMA BytesAreANumber ==
  ASSUME NEW t \in {"U16", "I16"}, NEW v \in Seq(Value), Len(v) = 2
  PROVE  Decode(t, v) \in Promise!Value(t) /\ Decode(t, v) \in Int
         /\ -(2^W) <= Decode(t, v) /\ Decode(t, v) <= 2^W
<1> DEFINE u == DecodeUnsigned(v)
<1>1. u \in 0 .. 2^W - 1
  <2>1. Len(v) >= 2
    OBVIOUS
  <2> QED
    BY <2>1, DecodedPair, Widths
<1>2. CASE t = "U16"
  <2>1. Decode(t, v) = u /\ Promise!Value(t) = 0 .. 2^W - 1
    BY <1>2 DEF Decode, Promise!Value
  <2> HIDE DEF u
  <2> QED
    BY <1>1, <2>1, Widths
<1>3. CASE t = "I16"
  <2> DEFINE h == 2^(W - 1)
             M == 2^W
  <2>1. Decode(t, v) = (IF u >= h THEN u - M ELSE u) /\ Promise!Value(t) = -h .. h - 1
    BY <1>3 DEF Decode, DecodeSigned, Promise!Value
  <2>2. M = 2 * h /\ h \in Nat \ {0} /\ u \in 0 .. M - 1
    BY <1>1, Widths
  <2>3. Decode(t, v) \in -h .. h - 1
    <3> HIDE DEF u, h, M
    <3> QED
      BY <2>1, <2>2
  <2> HIDE DEF u
  <2> QED
    BY <2>1, <2>2, <2>3
<1> QED
  BY <1>2, <1>3

-----------------------------------------------------------------------------
(* Division rounds towards zero.                                             *)

LEMMA SmallerSquare ==
  ASSUME NEW r \in Int, NEW m \in Nat, NEW n \in Nat, r = m \/ r = -m
  PROVE  r * r < n * n <=> m < n
<1>1. r * r = m * m
  OBVIOUS
<1>2. ASSUME m < n PROVE m * m < n * n
  <2>1. m * m <= m * n
    BY <1>2
  <2>2. m * n < n * n
    BY <1>2
  <2> QED
    BY <2>1, <2>2
<1>3. ASSUME m >= n PROVE m * m >= n * n
  <2>1. m * m >= m * n
    BY <1>3
  <2>2. m * n >= n * n
    BY <1>3
  <2> QED
    BY <2>1, <2>2
<1> QED
  BY <1>1, <1>2, <1>3

(* Two rests of the sign of a and less than b are the same.                  *)
LEMMA QuotientIsUnique ==
  ASSUME NEW a \in Int, NEW b \in Int, b # 0,
         NEW q \in Int, NEW r \in Int, r = a - q * b, r * r < b * b, r * a >= 0,
         NEW o \in Int, NEW s \in Int, s = a - o * b, s * s < b * b, s * a >= 0
  PROVE  q = o
<1> DEFINE n == Abs(b)
<1>1. n \in Nat \ {0} /\ (b = n \/ b = -n)
  BY DEF Abs
<1> HIDE DEF n
<1>2. b * b = n * n
  BY <1>1
<1>3. ASSUME NEW x \in Int, x * x < b * b
      PROVE  -n < x /\ x < n
  <2> DEFINE m == Abs(x)
  <2>1. m \in Nat /\ (x = m \/ x = -m)
    BY DEF Abs
  <2> HIDE DEF m
  <2>2. m < n
    BY <1>1, <1>2, <1>3, <2>1, SmallerSquare
  <2> QED
    BY <1>1, <2>1, <2>2
<1>4. -n < r /\ r < n /\ -n < s /\ s < n
  BY <1>3
<1>5. ASSUME NEW x \in Int, x * a >= 0
      PROVE  (a > 0 => x >= 0) /\ (a < 0 => x <= 0)
  BY <1>5
<1>6. (a > 0 => r >= 0 /\ s >= 0) /\ (a < 0 => r <= 0 /\ s <= 0)
  BY <1>5
<1>7. ASSUME NEW x \in Int, NEW d \in Int, x * b = d, -n < d, d < n
      PROVE  x = 0
  <2>1. x * n = d \/ x * n = -d
    BY <1>1, <1>7
  <2> QED
    BY <1>1, <1>7, <2>1, ProductIsLarge
<1>8. CASE a = 0
  <2>1. q * b = -r /\ o * b = -s
    BY <1>8
  <2>2. -r \in Int /\ -n < -r /\ -r < n /\ -s \in Int /\ -n < -s /\ -s < n
    BY <1>1, <1>4
  <2>3. q = 0 /\ o = 0
    BY <1>7, <2>1, <2>2
  <2> QED
    BY <2>3
<1>9. CASE a # 0
  <2> DEFINE d == s - r
  <2>1. d \in Int /\ -n < d /\ d < n
    BY <1>1, <1>4, <1>6, <1>9
  <2>2. (q - o) * b = d /\ q - o \in Int
    <3>1. (q - o) * b = q * b - o * b /\ q * b \in Int /\ o * b \in Int
      OBVIOUS
    <3> QED
      BY <3>1
  <2> HIDE DEF d
  <2>3. q - o = 0
    BY <1>7, <2>1, <2>2
  <2> QED
    BY <2>3
<1> QED
  BY <1>8, <1>9

LEMMA DividedHasRest ==
  ASSUME NEW a \in Int, NEW b \in Int, b # 0
  PROVE  LET q == Divided(a, b)
             r == a - q * b
         IN /\ q \in Int /\ -Abs(a) <= q /\ q <= Abs(a)
            /\ r \in Int /\ r * r < b * b /\ r * a >= 0
<1> DEFINE n == Abs(b)
           c == Abs(a)
           d == c \div n
           m == c % n
           q == Divided(a, b)
           r == a - q * b
<1>1. /\ n \in Nat \ {0} /\ n = (IF b < 0 THEN -b ELSE b)
      /\ c \in Nat /\ c = (IF a < 0 THEN -a ELSE a)
  BY DEF Abs
<1>2. q = IF (a < 0) = (b < 0) THEN d ELSE -d
  BY DEF Divided
<1> HIDE DEF n, c, q
<1>3. d \in Int /\ m \in 0 .. n - 1 /\ c = d * n + m
  <2>1. c \in Int /\ n \in Nat \ {0}
    BY <1>1
  <2> QED
    BY <2>1, DivisionOf, Zenon
<1> HIDE DEF d, m
<1>4. d >= 0 /\ d <= c
  <2>1. ASSUME d < 0 PROVE FALSE
    <3>1. d # 0 /\ ~(d * n >= n)
      BY <1>1, <1>3, <2>1
    <3>2. d * n <= -n
      BY <1>1, <1>3, <3>1, ProductIsLarge
    <3> QED
      BY <1>1, <1>3, <3>2
  <2>2. d >= 0
    BY <1>3, <2>1
  <2>3. d * n >= d
    BY <1>1, <1>3, <2>2
  <2>4. d * n \in Int
    BY <1>1, <1>3
  <2> QED
    BY <1>1, <1>3, <2>2, <2>3, <2>4
<1>5. q \in Int /\ -c <= q /\ q <= c
  BY <1>1, <1>2, <1>3, <1>4
<1>6. r = IF a < 0 THEN -m ELSE m
  <2>1. CASE a < 0 /\ b < 0
    <3>1. q = d /\ n = -b /\ c = -a /\ d * n = -(d * b)
      BY <1>1, <1>2, <1>3, <2>1
    <3> QED
      BY <1>3, <2>1, <3>1
  <2>2. CASE a < 0 /\ b > 0
    <3>1. q = -d /\ n = b /\ c = -a /\ (-d) * b = -(d * b)
      BY <1>1, <1>2, <1>3, <2>2
    <3> QED
      BY <1>3, <2>2, <3>1
  <2>3. CASE a >= 0 /\ b < 0
    <3>1. q = -d /\ n = -b /\ c = a /\ (-d) * b = d * n
      BY <1>1, <1>2, <1>3, <2>3
    <3> QED
      BY <1>3, <2>3, <3>1
  <2>4. CASE a >= 0 /\ b > 0
    <3>1. q = d /\ n = b /\ c = a
      BY <1>1, <1>2, <1>3, <2>4
    <3> QED
      BY <1>3, <2>4, <3>1
  <2> QED
    BY <2>1, <2>2, <2>3, <2>4
<1>7. r \in Int /\ m \in Nat /\ m < n /\ (r = m \/ r = -m)
  BY <1>1, <1>3, <1>6
<1>8. r * a >= 0
  BY <1>6, <1>7
<1> HIDE DEF r
<1>9. r * r < b * b
  <2>1. b * b = n * n
    BY <1>1
  <2>2. r * r < n * n
    BY <1>1, <1>7, SmallerSquare
  <2> QED
    BY <2>1, <2>2
<1> QED
  BY <1>5, <1>7, <1>8, <1>9 DEF q, r, c

LEMMA DividedIsQuotient ==
  ASSUME NEW a \in Int, NEW b \in Int, b # 0, -(2^W) <= a, a <= 2^W
  PROVE  Divided(a, b) = Promise!Quotient(a, b)
<1> DEFINE Rounded(q) == LET r == a - q * b IN r * r < b * b /\ r * a >= 0
           S == -(2^W) .. 2^W
           o == Divided(a, b)
<1>1. o \in Int /\ -Abs(a) <= o /\ o <= Abs(a) /\ a - o * b \in Int /\ Rounded(o)
  BY DividedHasRest
<1>2. Abs(a) <= 2^W /\ Abs(a) \in Int
  BY Widths DEF Abs
<1> HIDE DEF o
<1>3. o \in S
  BY <1>1, <1>2, Widths
<1>4. \A q \in S : Rounded(q) => q = o
  <2> SUFFICES ASSUME NEW q \in S, Rounded(q) PROVE q = o
    OBVIOUS
  <2>1. q \in Int
    BY Widths
  <2> DEFINE r == a - q * b
             s == a - o * b
  <2>2. r \in Int /\ s \in Int /\ r * r < b * b /\ r * a >= 0 /\ s * s < b * b /\ s * a >= 0
    BY <1>1, <2>1
  <2>3. r = a - q * b /\ s = a - o * b
    OBVIOUS
  <2> HIDE DEF r, s, Rounded
  <2> QED
    BY <1>1, <2>1, <2>2, <2>3, QuotientIsUnique
<1>5. Promise!Quotient(a, b) = CHOOSE q \in S : Rounded(q)
  BY DEF Promise!Quotient
<1> HIDE DEF S, Rounded
<1>6. o = CHOOSE q \in S : Rounded(q)
  BY <1>1, <1>3, <1>4
<1> QED
  BY <1>5, <1>6 DEF o

IsArithmetic(t, op, a, b, n) ==
  n \in Int /\ Decode(t, Encode(n)) = Promise!Arithmetic(t, op, a, b)
IsBounded(a) == -(2^W) <= a /\ a <= 2^W

LEMMA ArithmeticAgrees ==
  ASSUME NEW t \in {"U16", "I16"}, NEW op \in {"ADD", "SUB", "MUL", "DIV"},
         NEW a \in Int, NEW b \in Int, op = "DIV" => b # 0, IsBounded(a)
  PROVE  IsArithmetic(t, op, a, b, ArithmeticResult(op, a, b))
<1> DEFINE n == ArithmeticResult(op, a, b)
<1>1. n \in Int /\ Promise!Arithmetic(t, op, a, b) = Promise!Wrapped(t, n)
  <2>1. CASE op = "ADD"
    BY <2>1 DEF ArithmeticResult, Promise!Arithmetic
  <2>2. CASE op = "SUB"
    BY <2>2 DEF ArithmeticResult, Promise!Arithmetic
  <2>3. CASE op = "MUL"
    BY <2>3 DEF ArithmeticResult, Promise!Arithmetic
  <2>4. CASE op = "DIV"
    <3>1. Divided(a, b) = Promise!Quotient(a, b) /\ Divided(a, b) \in Int
      BY <2>4, DividedIsQuotient, DividedIsANumber DEF IsBounded
    <3> QED
      BY <2>4, <3>1 DEF ArithmeticResult, Promise!Arithmetic
  <2> QED
    BY <2>1, <2>2, <2>3, <2>4
<1> QED
  BY <1>1, NumberOfBytes DEF IsArithmetic

LEMMA ComplementAgrees ==
  ASSUME NEW a \in 0 .. 2^W - 1
  PROVE  Decode("U16", Encode(-1 - a)) = 2^W - 1 - a
<1> DEFINE M == 2^W
           n == -1 - a
           c == M - 1 - a
<1>1. M \in Nat \ {0}
  BY Widths
<1>2. n \in Int /\ c \in 0 .. M - 1 /\ n = (-1) * M + c
  BY <1>1
<1>3. Decode("U16", Encode(n)) = n % M
  <2> HIDE DEF n, c
  <2> QED
    BY <1>2, UnsignedOfBytes DEF Decode
<1> HIDE DEF M, n, c
<1>4. n % M = c
  BY <1>1, <1>2, DivisionIsUnique
<1> QED
  BY <1>3, <1>4 DEF M, n, c

LEMMA ShiftedRight ==
  ASSUME NEW a \in 0 .. 2^W - 1, NEW b \in Nat
  PROVE  a \div 2^b \in 0 .. 2^W - 1
<1> DEFINE p == 2^b
           M == 2^W
           d == a \div p
           r == a % p
<1>1. p \in Nat \ {0} /\ M \in Nat \ {0} /\ a \in Int /\ 0 <= a /\ a < M
  BY PowersOfTwo, Widths
<1> HIDE DEF p, M
<1>2. d \in Int /\ r \in 0 .. p - 1 /\ a = d * p + r
  BY <1>1, DivisionOf
<1> HIDE DEF d, r
<1>3. d >= 0
  <2> SUFFICES ASSUME d < 0 PROVE FALSE
    BY <1>2
  <2>1. d * p <= -p
    BY <1>1, <1>2, ProductIsLarge
  <2> QED
    BY <1>1, <1>2, <2>1
<1>4. d <= a
  <2>1. d * p >= d /\ d * p \in Int
    BY <1>1, <1>2, <1>3
  <2> QED
    BY <1>1, <1>2, <2>1
<1> QED
  BY <1>1, <1>2, <1>3, <1>4 DEF d, p, M

-----------------------------------------------------------------------------
(* The operands, read off the bytes from the bottom of the stack.            *)

Content(s, ts, i) == [j \in 1 .. Size(ts[i]) |-> s.data[Bytes(SubSeq(ts, 1, i)) - j]]
Described(s, ts) ==
  [i \in 1 .. Len(ts) |-> [type |-> ts[i], value |-> Decode(ts[i], Content(s, ts, i))]]
OperandsDescribed == Operands = Described(opstack, types)

Typed == [type : Types, value : Int]

LEMMA Joined ==
  ASSUME NEW S, NEW u \in Seq(S), NEW v \in Seq(S), NEW s \in Seq(S), Len(s) = Len(u) + Len(v),
         \A j \in 1 .. Len(u) : s[j] = u[j], \A j \in 1 .. Len(v) : s[Len(u) + j] = v[j]
  PROVE  s = u \o v
<1> DEFINE r == u \o v
<1>1. /\ r \in Seq(S) /\ Len(r) = Len(u) + Len(v) /\ Len(u) \in Nat /\ Len(v) \in Nat
      /\ \A j \in 1 .. Len(u) : r[j] = u[j]
      /\ \A j \in 1 .. Len(v) : r[Len(u) + j] = v[j]
  BY ConcatProperties
<1> HIDE DEF r
<1>2. \A j \in 1 .. Len(s) : s[j] = r[j]
  <2> SUFFICES ASSUME NEW j \in 1 .. Len(s) PROVE s[j] = r[j]
    OBVIOUS
  <2>1. j \in 1 .. Len(u) \/ (j - Len(u) \in 1 .. Len(v) /\ Len(u) + (j - Len(u)) = j)
    BY <1>1
  <2> QED
    BY <1>1, <2>1
<1>3. s = r
  BY <1>1, <1>2, SeqEqual
<1> QED
  BY <1>3 DEF r

LEMMA UpperPart ==
  ASSUME NEW S, NEW s \in Seq(S), NEW k \in 0 .. Len(s)
  PROVE  LET u == SubSeq(s, k + 1, Len(s)) IN
         u \in Seq(S) /\ Len(u) = Len(s) - k /\ \A j \in 1 .. Len(s) - k : u[j] = s[k + j]
<1> DEFINE n == Len(s)
           u == SubSeq(s, k + 1, n)
<1>1. n \in Nat /\ k \in Nat /\ k <= n
  OBVIOUS
<1>2. u \in Seq(S) /\ Len(u) = n - k
  BY <1>1
<1>3. \A j \in 1 .. n - k : u[j] = s[k + j]
  BY <1>1
<1> QED
  BY <1>2, <1>3

LEMMA LastAndNone ==
  ASSUME NEW S, NEW s \in Seq(S)
  PROVE  /\ SubSeq(s, Len(s) + 1, Len(s)) = <<>>
         /\ s # <<>> => SubSeq(s, Len(s), Len(s)) = << s[Len(s)] >>
<1> DEFINE n == Len(s)
<1>1. n \in Nat
  OBVIOUS
<1>2. SubSeq(s, n + 1, n) = <<>>
  <2>1. SubSeq(s, n + 1, n) \in Seq(S) /\ Len(SubSeq(s, n + 1, n)) = 0
    BY <1>1
  <2> QED
    BY <2>1, EmptySeq
<1>3. ASSUME s # <<>>
      PROVE  SubSeq(s, n, n) = << s[n] >>
  <2>1. n >= 1 /\ s[n] \in S
    BY <1>1, <1>3
  <2> DEFINE u == SubSeq(s, n, n)
             v == << s[n] >>
  <2>2. u \in Seq(S) /\ Len(u) = 1 /\ u[1] = s[n]
    BY <1>1, <2>1
  <2>3. v \in Seq(S) /\ Len(v) = 1 /\ v[1] = s[n]
    BY <2>1
  <2> HIDE DEF u, v
  <2>4. u = v
    BY <2>2, <2>3, SeqEqual
  <2> QED
    BY <2>4 DEF u, v
<1> QED
  BY <1>2, <1>3

LEMMA BytesBelow ==
  ASSUME NEW ts \in Seq(Types), NEW i \in 1 .. Len(ts)
  PROVE  LET below == SubSeq(ts, 1, i - 1)
             above == SubSeq(ts, i + 1, Len(ts))
         IN /\ below \in Seq(Types) /\ above \in Seq(Types) /\ ts[i] \in Types
            /\ Bytes(below) \in Nat /\ Bytes(above) \in Nat /\ Size(ts[i]) \in Nat
            /\ Bytes(SubSeq(ts, 1, i)) = Bytes(below) + Size(ts[i])
            /\ Bytes(ts) = Bytes(below) + Size(ts[i]) + Bytes(above)
<1> DEFINE below == SubSeq(ts, 1, i - 1)
           above == SubSeq(ts, i + 1, Len(ts))
           upto == SubSeq(ts, 1, i)
           n == Len(ts)
<1>1. n \in Nat /\ i \in Nat /\ ts[i] \in Types
  OBVIOUS
<1>2. /\ below \in Seq(Types) /\ Len(below) = i - 1
      /\ \A j \in 1 .. i - 1 : below[j] = ts[j]
  BY <1>1
<1>3. /\ above \in Seq(Types) /\ Len(above) = n - i
      /\ \A j \in 1 .. n - i : above[j] = ts[i + j]
  BY <1>1
<1>4. /\ upto \in Seq(Types) /\ Len(upto) = i
      /\ \A j \in 1 .. i : upto[j] = ts[j]
  BY <1>1
<1> HIDE DEF below, above, upto
<1>5. upto = Append(below, ts[i])
  <2> DEFINE r == Append(below, ts[i])
  <2>1. /\ r \in Seq(Types) /\ Len(r) = i
        /\ \A j \in 1 .. i : r[j] = ts[j]
    BY <1>1, <1>2
  <2> HIDE DEF r
  <2>2. upto = r
    BY <1>4, <2>1, SeqEqual
  <2> QED
    BY <2>2 DEF r
<1>6. ts = upto \o above
  <2>1. Len(ts) = Len(upto) + Len(above)
    BY <1>1, <1>3, <1>4
  <2>2. \A j \in 1 .. Len(upto) : ts[j] = upto[j]
    BY <1>4
  <2>3. \A j \in 1 .. Len(above) : ts[Len(upto) + j] = above[j]
    BY <1>3, <1>4
  <2> QED
    BY <1>3, <1>4, <2>1, <2>2, <2>3, Joined
<1>7. Bytes(upto) = Bytes(below) + Size(ts[i])
  BY <1>1, <1>2, <1>5, BytesAppend
<1>8. Bytes(ts) = Bytes(upto) + Bytes(above)
  BY <1>3, <1>4, <1>6, BytesOfBoth
<1>9. Bytes(below) \in Nat /\ Bytes(above) \in Nat /\ Size(ts[i]) \in Nat
  BY <1>1, <1>2, <1>3, BytesAreCounted, Sizes
<1>10. Bytes(ts) = Bytes(below) + Size(ts[i]) + Bytes(above)
  BY <1>7, <1>8, <1>9
<1> QED
  BY <1>1, <1>2, <1>3, <1>7, <1>9, <1>10 DEF below, above, upto

LEMMA BytesUpTo ==
  ASSUME NEW ts \in Seq(Types), NEW i \in 1 .. Len(ts)
  PROVE  /\ ts[i] \in Types /\ Size(ts[i]) \in Nat
         /\ Bytes(SubSeq(ts, 1, i)) \in Nat
         /\ Size(ts[i]) <= Bytes(SubSeq(ts, 1, i))
         /\ Bytes(SubSeq(ts, 1, i)) <= Bytes(ts)
<1> DEFINE below == SubSeq(ts, 1, i - 1)
           above == SubSeq(ts, i + 1, Len(ts))
<1>1. /\ ts[i] \in Types
      /\ Bytes(below) \in Nat /\ Bytes(above) \in Nat /\ Size(ts[i]) \in Nat
      /\ Bytes(SubSeq(ts, 1, i)) = Bytes(below) + Size(ts[i])
      /\ Bytes(ts) = Bytes(below) + Size(ts[i]) + Bytes(above)
  BY BytesBelow
<1> HIDE DEF below, above
<1>2. Size(ts[i]) <= Bytes(SubSeq(ts, 1, i)) /\ Bytes(SubSeq(ts, 1, i)) <= Bytes(ts)
      /\ Bytes(SubSeq(ts, 1, i)) \in Nat
  BY <1>1
<1> QED
  BY <1>1, <1>2

(* It is the same from the top.                                              *)
LEMMA Describes == IInv => OperandsDescribed
<1> SUFFICES ASSUME IInv PROVE Operands = Described(opstack, types)
  BY DEF OperandsDescribed
<1>1. types \in Seq(Types) /\ Len(types) \in Nat /\ DOMAIN types = 1 .. Len(types)
  BY DEF IInv
<1>2. ASSUME NEW i \in 1 .. Len(types)
      PROVE  OperandUnder(SubSeq(types, i + 1, Len(types)), types[i])
               = Decode(types[i], Content(opstack, types, i))
  <2> DEFINE above == SubSeq(types, i + 1, Len(types))
             below == SubSeq(types, 1, i - 1)
             upto == SubSeq(types, 1, i)
             t == types[i]
  <2>1. /\ above \in Seq(Types) /\ t \in Types
        /\ Bytes(below) \in Nat /\ Bytes(above) \in Nat /\ Size(t) \in Nat
        /\ Bytes(upto) = Bytes(below) + Size(t)
        /\ Bytes(types) = Bytes(below) + Size(t) + Bytes(above)
    BY <1>1, BytesBelow
  <2> HIDE DEF above, below, upto, t
  <2>2. /\ opstack.sp = Bytes(types) /\ Bytes(above) + Size(t) <= opstack.sp
        /\ opstack.sp - Bytes(above) = Bytes(upto)
    BY <2>1 DEF IInv
  <2>3. BytesUnder(above, t)
          = [j \in 1 .. Size(t) |-> opstack.data[opstack.sp - Bytes(above) - j]]
    BY <2>1, <2>2, OperandRead
  <2>4. BytesUnder(above, t) = [j \in 1 .. Size(t) |-> opstack.data[Bytes(upto) - j]]
    BY <2>2, <2>3
  <2>5. BytesUnder(above, t) = Content(opstack, types, i)
    BY <2>4 DEF Content, upto, t
  <2> QED
    BY <2>5 DEF OperandUnder, above, t
<1> QED
  BY <1>1, <1>2, Zenon DEF Operands, Described

LEMMA DescribedIsTyped ==
  ASSUME NEW s \in StackOfBytes, NEW ts \in Seq(Types), s.sp = Bytes(ts)
  PROVE  /\ Described(s, ts) \in Seq(Typed) /\ Len(Described(s, ts)) = Len(ts)
         /\ \A i \in 1 .. Len(ts) : Content(s, ts, i) \in Seq(Value)
                                    /\ Len(Content(s, ts, i)) = Size(ts[i])
<1>1. ASSUME NEW i \in 1 .. Len(ts)
      PROVE  /\ ts[i] \in Types /\ Content(s, ts, i) \in Seq(Value)
             /\ Len(Content(s, ts, i)) = Size(ts[i])
  <2> DEFINE a == Bytes(SubSeq(ts, 1, i))
             t == ts[i]
  <2>1. /\ t \in Types /\ Size(t) \in Nat /\ a \in Nat /\ Size(t) <= a /\ a <= s.sp
    BY BytesUpTo
  <2>2. s.sp <= OPSTACK_SIZE /\ s.data \in [0 .. OPSTACK_SIZE - 1 -> Value] /\ OPSTACK_SIZE \in Nat
    BY InterpreterAssumption DEF StackOfBytes
  <2> HIDE DEF a, t
  <2>3. \A j \in 1 .. Size(t) : s.data[a - j] \in Value
    <3> SUFFICES ASSUME NEW j \in 1 .. Size(t) PROVE s.data[a - j] \in Value
      OBVIOUS
    <3>1. s.sp \in Int
      BY InterpreterAssumption DEF StackOfBytes
    <3>2. a - j \in 0 .. OPSTACK_SIZE - 1
      BY <2>1, <2>2, <3>1
    <3> QED
      BY <2>2, <3>2
  <2>4. [j \in 1 .. Size(t) |-> s.data[a - j]] \in Seq(Value)
    BY <2>1, <2>3
  <2>5. Len([j \in 1 .. Size(t) |-> s.data[a - j]]) = Size(t)
    BY <2>1
  <2> QED
    BY <2>1, <2>4, <2>5 DEF Content, a, t
<1>2. ASSUME NEW i \in 1 .. Len(ts)
      PROVE  [type |-> ts[i], value |-> Decode(ts[i], Content(s, ts, i))] \in Typed
  <2>1. ts[i] \in Types /\ Decode(ts[i], Content(s, ts, i)) \in Int
    BY <1>1, Decoded
  <2> QED
    BY <2>1 DEF Typed
<1>3. Len(ts) \in Nat
  OBVIOUS
<1>4. Described(s, ts) \in Seq(Typed) /\ Len(Described(s, ts)) = Len(ts)
  BY <1>2, <1>3 DEF Described
<1> QED
  BY <1>1, <1>4

(* The operands left are those that were there.                              *)
LEMMA DescribedBelow ==
  ASSUME NEW s \in StackOfBytes, NEW ts \in Seq(Types), s.sp = Bytes(ts),
         NEW k \in 0 .. Len(ts), NEW z,
         \A i \in 0 .. Bytes(SubSeq(ts, 1, k)) - 1 : z.data[i] = s.data[i]
  PROVE  Described(z, SubSeq(ts, 1, k)) = SubSeq(Described(s, ts), 1, k)
<1> DEFINE us == SubSeq(ts, 1, k)
           d == Described(s, ts)
<1>1. Len(ts) \in Nat /\ k \in Nat /\ k <= Len(ts)
  OBVIOUS
<1>2. us \in Seq(Types) /\ Len(us) = k /\ \A i \in 1 .. k : us[i] = ts[i]
  BY <1>1
<1>3. d \in Seq(Typed) /\ Len(d) = Len(ts)
  BY DescribedIsTyped
<1>4. SubSeq(d, 1, k) = [i \in 1 .. k |-> d[i]]
  <2> HIDE DEF d
  <2> QED
    BY <1>1, <1>3
<1>5. ASSUME NEW i \in 1 .. k
      PROVE  Content(z, us, i) = Content(s, ts, i) /\ us[i] = ts[i]
  <2>1. SubSeq(us, 1, i) = SubSeq(ts, 1, i)
    <3>1. /\ SubSeq(us, 1, i) \in Seq(Types) /\ Len(SubSeq(us, 1, i)) = i
          /\ \A j \in 1 .. i : SubSeq(us, 1, i)[j] = us[j]
      <4> HIDE DEF us
      <4> QED
        BY <1>1, <1>2
    <3>2. /\ SubSeq(ts, 1, i) \in Seq(Types) /\ Len(SubSeq(ts, 1, i)) = i
          /\ \A j \in 1 .. i : SubSeq(ts, 1, i)[j] = ts[j]
      BY <1>1
    <3>3. \A j \in 1 .. i : SubSeq(us, 1, i)[j] = SubSeq(ts, 1, i)[j]
      BY <1>1, <1>2, <3>1, <3>2
    <3> HIDE DEF us
    <3> QED
      BY <3>1, <3>2, <3>3, SeqEqual
  <2> DEFINE a == Bytes(SubSeq(us, 1, i))
  <2>2. a \in Nat /\ Size(us[i]) \in Nat /\ Size(us[i]) <= a /\ a <= Bytes(us)
    <3> HIDE DEF us
    <3> QED
      BY <1>2, BytesUpTo
  <2>3. \A j \in 1 .. Size(us[i]) : z.data[a - j] = s.data[a - j]
    <3> SUFFICES ASSUME NEW j \in 1 .. Size(us[i]) PROVE z.data[a - j] = s.data[a - j]
      OBVIOUS
    <3>1. Bytes(us) \in Nat
      BY <1>2, BytesAreCounted
    <3> HIDE DEF us, a
    <3>2. a - j \in 0 .. Bytes(us) - 1
      BY <2>2, <3>1
    <3> QED
      BY <3>2 DEF us
  <2>4. us[i] = ts[i]
    BY <1>2
  <2>5. Content(z, us, i) = [j \in 1 .. Size(us[i]) |-> z.data[a - j]]
    BY DEF Content
  <2>6. Content(s, ts, i) = [j \in 1 .. Size(us[i]) |-> s.data[a - j]]
    BY <2>1, <2>4 DEF Content
  <2> HIDE DEF us, a
  <2> QED
    BY <2>3, <2>4, <2>5, <2>6
<1>6. Described(z, us) = [i \in 1 .. k |-> [type |-> ts[i], value |-> Decode(ts[i], Content(s, ts, i))]]
  <2> HIDE DEF us
  <2> QED
    BY <1>2, <1>5 DEF Described
<1>7. \A i \in 1 .. k : d[i] = [type |-> ts[i], value |-> Decode(ts[i], Content(s, ts, i))]
  BY <1>1 DEF Described
<1> HIDE DEF d, us
<1> QED
  BY <1>4, <1>6, <1>7 DEF d, us

(* The operand pushed last.                                                  *)
LEMMA DescribedAppend ==
  ASSUME NEW z \in StackOfBytes, NEW us \in Seq(Types), NEW t \in Types,
         z.sp = Bytes(Append(us, t)), NEW v \in Seq(Value), Len(v) = Size(t),
         \A i \in 1 .. Len(v) : z.data[Bytes(us) + Len(v) - i] = v[i]
  PROVE  Described(z, Append(us, t)) = Append(Described(z, us), [type |-> t, value |-> Decode(t, v)])
<1> DEFINE ts == Append(us, t)
           n == Len(us)
           e == [type |-> t, value |-> Decode(t, v)]
           d == Described(z, ts)
<1>1. /\ ts \in Seq(Types) /\ n \in Nat /\ Len(ts) = n + 1
      /\ ts[n + 1] = t /\ \A i \in 1 .. n : ts[i] = us[i]
  OBVIOUS
<1>2. SubSeq(ts, 1, n) = us
  <2>1. /\ SubSeq(ts, 1, n) \in Seq(Types) /\ Len(SubSeq(ts, 1, n)) = n
        /\ \A i \in 1 .. n : SubSeq(ts, 1, n)[i] = us[i]
    <3> HIDE DEF ts
    <3> QED
      BY <1>1
  <2> HIDE DEF ts
  <2> QED
    BY <2>1, SeqEqual
<1>3. Bytes(ts) = Bytes(us) + Size(t)
  BY BytesAppend
<1> HIDE DEF ts
<1>4. d \in Seq(Typed) /\ Len(d) = n + 1
  BY <1>1, DescribedIsTyped DEF ts
<1>5. Described(z, us) = SubSeq(d, 1, n)
  <2>1. n \in 0 .. Len(ts) /\ z.sp = Bytes(ts)
    BY <1>1 DEF ts
  <2>2. Described(z, SubSeq(ts, 1, n)) = SubSeq(Described(z, ts), 1, n)
    BY <1>1, <2>1, DescribedBelow
  <2> QED
    BY <1>2, <2>2
<1>6. d[n + 1] = e
  <2>1. SubSeq(ts, 1, n + 1) = ts
    <3>1. /\ SubSeq(ts, 1, n + 1) \in Seq(Types) /\ Len(SubSeq(ts, 1, n + 1)) = n + 1
          /\ \A i \in 1 .. n + 1 : SubSeq(ts, 1, n + 1)[i] = ts[i]
      BY <1>1
    <3> QED
      BY <1>1, <3>1, SeqEqual
  <2> DEFINE a == Bytes(us) + Size(t)
  <2>2. Content(z, ts, n + 1) = [j \in 1 .. Size(t) |-> z.data[a - j]]
    <3> HIDE DEF a
    <3> QED
      BY <1>1, <1>3, <2>1, Zenon DEF Content, a
  <2>3. Content(z, ts, n + 1) = v
    <3>1. \A j \in 1 .. Size(t) : z.data[a - j] = v[j]
      <4> SUFFICES ASSUME NEW j \in 1 .. Size(t) PROVE z.data[a - j] = v[j]
        OBVIOUS
      <4>1. Bytes(us) \in Nat /\ Size(t) \in Nat
        BY BytesAreCounted, Sizes
      <4>2. a - j = Bytes(us) + Len(v) - j
        BY <4>1
      <4> HIDE DEF a
      <4> QED
        BY <4>2
    <3> HIDE DEF a
    <3>2. [j \in 1 .. Size(t) |-> z.data[a - j]] = [j \in 1 .. Len(v) |-> v[j]]
      BY <3>1
    <3>3. v = [j \in 1 .. Len(v) |-> v[j]]
      OBVIOUS
    <3> QED
      BY <2>2, <3>2, <3>3
  <2>4. n + 1 \in 1 .. Len(ts)
    BY <1>1
  <2>5. d[n + 1] = [type |-> ts[n + 1], value |-> Decode(ts[n + 1], Content(z, ts, n + 1))]
    BY <2>4 DEF Described
  <2> QED
    BY <1>1, <2>3, <2>5
<1> HIDE DEF d, e
<1>7. d = Append(SubSeq(d, 1, n), e)
  <2>1. e \in Typed
    BY <1>1, <1>4, <1>6
  <2> DEFINE f == SubSeq(d, 1, n)
  <2>2. f \in Seq(Typed) /\ Len(f) = n /\ \A i \in 1 .. n : f[i] = d[i]
    BY <1>1, <1>4
  <2> HIDE DEF f
  <2> DEFINE r == Append(f, e)
  <2>3. r \in Seq(Typed) /\ Len(r) = n + 1 /\ \A i \in 1 .. n + 1 : r[i] = d[i]
    BY <1>1, <1>6, <2>1, <2>2
  <2> HIDE DEF r
  <2>4. d = r
    BY <1>4, <2>3, SeqEqual
  <2> QED
    BY <2>4 DEF r, f
<1> QED
  BY <1>5, <1>7 DEF d, e, ts

-----------------------------------------------------------------------------
(* Each instruction is one on operands, or leaves them as they are.          *)

Promised == Promise!Next \/ UNCHANGED Promise!vars

LEMMA OperandsTyped ==
  ASSUME IInv
  PROVE  /\ Operands \in Seq(Typed) /\ Len(Operands) = Len(types) /\ Len(types) \in Nat
         /\ \A i \in 1 .. Len(types) : Operands[i].type = types[i]
<1>1. Operands = Described(opstack, types)
  BY Describes DEF OperandsDescribed
<1>2. Described(opstack, types) \in Seq(Typed) /\ Len(Described(opstack, types)) = Len(types)
  BY DescribedIsTyped DEF IInv
<1>3. DOMAIN types = 1 .. Len(types) /\ Len(types) \in Nat
  BY DEF IInv
<1> QED
  BY <1>1, <1>2, <1>3 DEF Operands

LEMMA TopOperands ==
  ASSUME IInv, NEW ts \in Seq(Types), OnTop(ts)
  PROVE  /\ Len(ts) <= Len(Operands) /\ Len(Operands) = Len(types)
         /\ Promise!OnTop(ts)
         /\ \A i \in 1 .. Len(ts) :
              Operands[Len(types) - Len(ts) + i]
                = [type |-> ts[i], value |-> OperandUnder(SubSeq(ts, i + 1, Len(ts)), ts[i])]
<1> DEFINE m == Len(types)
           n == Len(ts)
<1>1. m \in Nat /\ n \in Nat /\ n <= m /\ types \in Seq(Types)
      /\ \A i \in 1 .. n : types[m - n + i] = ts[i]
  BY OperandsOnTop DEF IInv
<1>2. ASSUME NEW i \in 1 .. n
      PROVE  Operands[m - n + i]
               = [type |-> ts[i], value |-> OperandUnder(SubSeq(ts, i + 1, n), ts[i])]
  <2> DEFINE k == m - n + i
  <2>1. k \in 1 .. m /\ DOMAIN types = 1 .. m /\ types[k] = ts[i]
    BY <1>1
  <2>2. SubSeq(types, k + 1, m) = SubSeq(ts, i + 1, n)
    <3>1. /\ SubSeq(types, k + 1, m) \in Seq(Types) /\ Len(SubSeq(types, k + 1, m)) = m - k
          /\ \A j \in 1 .. m - k : SubSeq(types, k + 1, m)[j] = types[k + j]
      <4>1. k \in 0 .. m
        BY <1>1
      <4> HIDE DEF k
      <4> QED
        BY <1>1, <4>1, UpperPart
    <3>2. /\ SubSeq(ts, i + 1, n) \in Seq(Types) /\ Len(SubSeq(ts, i + 1, n)) = n - i
          /\ \A j \in 1 .. n - i : SubSeq(ts, i + 1, n)[j] = ts[i + j]
      BY <1>1
    <3>3. m - k = n - i
      BY <1>1
    <3>4. \A j \in 1 .. n - i : types[k + j] = ts[i + j]
      <4> SUFFICES ASSUME NEW j \in 1 .. n - i PROVE types[k + j] = ts[i + j]
        OBVIOUS
      <4>1. i + j \in 1 .. n /\ m - n + (i + j) = k + j
        BY <1>1
      <4> QED
        BY <1>1, <4>1
    <3> HIDE DEF k
    <3> QED
      BY <3>1, <3>2, <3>3, <3>4, SeqEqual
  <2> HIDE DEF k
  <2>3. Operands[k] = [type |-> types[k], value |-> OperandUnder(SubSeq(types, k + 1, m), types[k])]
    BY <2>1 DEF Operands
  <2> QED
    BY <2>1, <2>2, <2>3 DEF k
<1>3. Len(Operands) = m
  BY OperandsTyped
<1>4. Promise!OnTop(ts)
  <2>1. DOMAIN ts = 1 .. n
    OBVIOUS
  <2>2. ASSUME NEW i \in 1 .. n
        PROVE  Operands[m - n + i].type = ts[i]
    <3>1. m - n + i \in 1 .. m
      BY <1>1
    <3> QED
      BY <1>1, <3>1, OperandsTyped
  <2> QED
    BY <1>1, <1>3, <2>1, <2>2 DEF Promise!OnTop
<1> QED
  BY <1>1, <1>2, <1>3, <1>4

LEMMA TwoRead ==
  ASSUME IInv, NEW t \in Types, OnTop(<<t, t>>)
  PROVE  /\ Promise!OnTop(<<t, t>>)
         /\ Promise!Operands(2)[1] = OperandUnder(<<t>>, t)
         /\ Promise!Operands(2)[2] = OperandUnder(<<>>, t)
<1> DEFINE ts == <<t, t>>
           m == Len(types)
<1>1. ts \in Seq(Types) /\ Len(ts) = 2 /\ ts[1] = t /\ ts[2] = t /\ m \in Nat
      /\ SubSeq(ts, 2, 2) = <<t>> /\ SubSeq(ts, 3, 2) = <<>>
  <2>1. ts \in Seq(Types) /\ Len(ts) = 2 /\ ts[1] = t /\ ts[2] = t /\ ts # <<>> /\ m \in Nat
    BY DEF IInv
  <2> HIDE DEF ts
  <2>2. SubSeq(ts, Len(ts), Len(ts)) = << ts[Len(ts)] >> /\ SubSeq(ts, Len(ts) + 1, Len(ts)) = <<>>
    BY <2>1, LastAndNone, Zenon
  <2>3. 2 + 1 = 3
    OBVIOUS
  <2> QED
    BY <2>1, <2>2, <2>3, Zenon
<1>2. OnTop(ts)
  OBVIOUS
<1> HIDE DEF ts, m
<1>3. /\ Len(Operands) = m /\ Promise!OnTop(ts)
      /\ \A i \in 1 .. Len(ts) :
           Operands[m - Len(ts) + i]
             = [type |-> ts[i], value |-> OperandUnder(SubSeq(ts, i + 1, Len(ts)), ts[i])]
  BY <1>1, <1>2, TopOperands DEF m
<1>4. Operands[m - 2 + 1].value = OperandUnder(<<t>>, t)
  <2>1. /\ 1 \in 1 .. Len(ts) /\ 1 + 1 = 2 /\ Len(ts) = 2
        /\ SubSeq(ts, 1 + 1, Len(ts)) = <<t>> /\ ts[1] = t
    BY <1>1
  <2>2. Operands[m - Len(ts) + 1]
          = [type |-> ts[1], value |-> OperandUnder(SubSeq(ts, 1 + 1, Len(ts)), ts[1])]
    BY <1>3, <2>1
  <2>3. Operands[m - 2 + 1] = [type |-> t, value |-> OperandUnder(<<t>>, t)]
    BY <2>1, <2>2, Zenon
  <2> QED
    BY <2>3
<1>5. Operands[m - 2 + 2].value = OperandUnder(<<>>, t)
  <2>1. /\ 2 \in 1 .. Len(ts) /\ 2 + 1 = 3 /\ Len(ts) = 2
        /\ SubSeq(ts, 2 + 1, Len(ts)) = <<>> /\ ts[2] = t
    BY <1>1
  <2>2. Operands[m - Len(ts) + 2]
          = [type |-> ts[2], value |-> OperandUnder(SubSeq(ts, 2 + 1, Len(ts)), ts[2])]
    BY <1>3, <2>1
  <2>3. Operands[m - 2 + 2] = [type |-> t, value |-> OperandUnder(<<>>, t)]
    BY <2>1, <2>2, Zenon
  <2> QED
    BY <2>3
<1>6. Promise!Operands(2) = [i \in 1 .. 2 |-> Operands[m - 2 + i].value]
  BY <1>3 DEF Promise!Operands
<1>7. /\ Promise!Operands(2)[1] = Operands[m - 2 + 1].value
      /\ Promise!Operands(2)[2] = Operands[m - 2 + 2].value
  BY <1>6
<1> QED
  BY <1>3, <1>4, <1>5, <1>7, Zenon DEF ts

LEMMA OneRead ==
  ASSUME IInv, NEW t \in Types, OnTop(<<t>>)
  PROVE  /\ Promise!OnTop(<<t>>) /\ Operands # <<>>
         /\ Promise!Operands(1) = << OperandUnder(<<>>, t) >>
<1> DEFINE ts == <<t>>
           m == Len(types)
<1>1. ts \in Seq(Types) /\ Len(ts) = 1 /\ ts[1] = t /\ m \in Nat /\ SubSeq(ts, 2, 1) = <<>>
  <2>1. ts \in Seq(Types) /\ Len(ts) = 1 /\ ts[1] = t /\ m \in Nat
    BY DEF IInv
  <2> HIDE DEF ts
  <2>2. SubSeq(ts, Len(ts) + 1, Len(ts)) = <<>>
    BY <2>1, LastAndNone, Zenon
  <2>3. 1 + 1 = 2
    OBVIOUS
  <2> QED
    BY <2>1, <2>2, <2>3, Zenon
<1>2. OnTop(ts)
  OBVIOUS
<1> HIDE DEF ts, m
<1>3. /\ Len(Operands) = m /\ Promise!OnTop(ts) /\ 1 <= Len(Operands)
      /\ \A i \in 1 .. Len(ts) :
           Operands[m - Len(ts) + i]
             = [type |-> ts[i], value |-> OperandUnder(SubSeq(ts, i + 1, Len(ts)), ts[i])]
  BY <1>1, <1>2, TopOperands DEF m
<1>4. Operands[m - 1 + 1].value = OperandUnder(<<>>, t)
  <2>1. /\ 1 \in 1 .. Len(ts) /\ 1 + 1 = 2 /\ Len(ts) = 1
        /\ SubSeq(ts, 1 + 1, Len(ts)) = <<>> /\ ts[1] = t
    BY <1>1
  <2>2. Operands[m - Len(ts) + 1]
          = [type |-> ts[1], value |-> OperandUnder(SubSeq(ts, 1 + 1, Len(ts)), ts[1])]
    BY <1>3, <2>1
  <2>3. Operands[m - 1 + 1] = [type |-> t, value |-> OperandUnder(<<>>, t)]
    BY <2>1, <2>2, Zenon
  <2> QED
    BY <2>3
<1>5. Promise!Operands(1) = [i \in 1 .. 1 |-> Operands[m - 1 + i].value]
  BY <1>3 DEF Promise!Operands
<1>6. Promise!Operands(1) = << OperandUnder(<<>>, t) >>
  <2> DEFINE x == OperandUnder(<<>>, t)
  <2>1. [i \in 1 .. 1 |-> Operands[m - 1 + i].value] = [i \in 1 .. 1 |-> x]
    BY <1>4
  <2> HIDE DEF x
  <2>2. [i \in 1 .. 1 |-> x] = <<x>>
    OBVIOUS
  <2> QED
    BY <1>5, <2>1, <2>2 DEF x
<1>7. Operands # <<>>
  BY <1>3
<1> QED
  BY <1>3, <1>6, <1>7 DEF ts

LEMMA OperandsLeft ==
  ASSUME IInv, NEW ts \in Seq(Types), OnTop(ts), NEW z,
         \A i \in 0 .. Bytes(Consumed(Len(ts))) - 1 : z.data[i] = opstack.data[i]
  PROVE  Described(z, Consumed(Len(ts))) = Promise!Consume(Len(ts))
<1> DEFINE k == Len(types) - Len(ts)
<1>1. k \in 0 .. Len(types) /\ Consumed(Len(ts)) = SubSeq(types, 1, k)
  <2>1. Len(ts) \in Nat /\ Len(types) \in Nat /\ Len(ts) <= Len(types)
    BY OperandsOnTop DEF IInv
  <2> QED
    BY <2>1 DEF Consumed
<1> HIDE DEF k
<1>2. Described(z, SubSeq(types, 1, k)) = SubSeq(Described(opstack, types), 1, k)
  BY <1>1, DescribedBelow DEF IInv
<1>3. Promise!Consume(Len(ts)) = SubSeq(Operands, 1, k)
  BY OperandsTyped DEF Promise!Consume, k
<1>4. Operands = Described(opstack, types)
  BY Describes DEF OperandsDescribed
<1> QED
  BY <1>1, <1>2, <1>3, <1>4

LEMMA PoppedAgrees ==
  ASSUME IInv, OperandsDescribed', NEW ts \in Seq(Types), OnTop(ts),
         opstack' = WithoutTop(opstack, ts), types' = Consumed(Len(ts))
  PROVE  Operands' = Promise!Consume(Len(ts))
<1>1. Operands' = Described(opstack', types')
  BY DEF OperandsDescribed
<1>2. opstack'.data = opstack.data
  BY StackUnderTop
<1>3. Described(opstack', Consumed(Len(ts))) = Promise!Consume(Len(ts))
  BY <1>2, OperandsLeft
<1> QED
  BY <1>1, <1>3

LEMMA UntouchedAgrees ==
  ASSUME IInv, OperandsDescribed', UNCHANGED <<opstack, types>>
  PROVE  Operands' = Operands
<1>1. Operands = Described(opstack, types) /\ Operands' = Described(opstack', types')
  BY Describes DEF OperandsDescribed
<1> QED
  BY <1>1

LEMMA ExitAgrees ==
  ASSUME IInv, OperandsDescribed', NEW how, Exit(how)
  PROVE  UNCHANGED Promise!vars
BY UntouchedAgrees DEF Exit, Promise!vars

LEMMA ReplaceAgrees ==
  ASSUME IInv, OperandsDescribed', NEW ts \in Seq(Types), OnTop(ts), NEW i,
         NEW t \in Types, NEW v \in Seq(Value), Len(v) = Size(t), Replace(i, ts, t, v)
  PROVE  Promise!Replace(i, Len(ts), t, Decode(t, v)) \/ UNCHANGED Promise!vars
<1> DEFINE s == WithoutTop(opstack, ts)
           c == Consumed(Len(ts))
           z == Push(s, v)
           e == [type |-> t, value |-> Decode(t, v)]
<1>1. s \in StackOfBytes /\ s.data = opstack.data /\ s.sp = Bytes(c) /\ c \in Seq(Types)
  BY StackUnderTop, OperandsOnTop DEF IInv
<1>2. CASE CanPush(s, Len(v))
  <2>1. /\ opstack' = z /\ types' = Append(c, t)
        /\ did' = i /\ shown' = <<>> /\ ports' = ports
    BY <1>2 DEF Replace, Continue
  <2> HIDE DEF s
  <2>2. /\ z \in StackOfBytes /\ z.sp = s.sp + Len(v)
        /\ \A j \in 0 .. s.sp - 1 : z.data[j] = s.data[j]
        /\ \A j \in 1 .. Len(v) : z.data[s.sp + Len(v) - j] = v[j]
    BY <1>1, <1>2, Pushed
  <2> HIDE DEF z
  <2>3. Described(z, c) = Promise!Consume(Len(ts))
    <3>1. \A j \in 0 .. Bytes(c) - 1 : z.data[j] = opstack.data[j]
      BY <1>1, <2>2
    <3> QED
      BY <3>1, OperandsLeft
  <2> HIDE DEF c
  <2>4. z.sp = Bytes(Append(c, t))
    BY <1>1, <2>2, BytesAppend
  <2>5. \A j \in 1 .. Len(v) : z.data[Bytes(c) + Len(v) - j] = v[j]
    BY <1>1, <2>2
  <2>6. Described(z, Append(c, t)) = Append(Described(z, c), e)
    BY <1>1, <2>2, <2>4, <2>5, DescribedAppend
  <2>7. Operands' = Append(Promise!Consume(Len(ts)), e)
    <3>1. Operands' = Described(opstack', types')
      BY DEF OperandsDescribed
    <3> QED
      BY <2>1, <2>3, <2>6, <3>1
  <2> QED
    BY <2>1, <2>7 DEF Promise!Replace
<1>3. CASE ~CanPush(s, Len(v))
  <2>1. Exit("failed")
    BY <1>3 DEF Replace
  <2> QED
    BY <2>1, ExitAgrees
<1> QED
  BY <1>2, <1>3

(* The programs whose operands keep their types: those that compare signed   *)
(* numbers, and whose constants fit the byte that is fetched for them.       *)
OnlySignedCompared == ComparedTypes \subseteq {"I16"}
ConstantsFit == \A c \in DeclaredU16 : Data[c.address - PORTS] = c.value

LEMMA OpsAgree == \A op, a : Op(op) = Promise!Op(op) /\ At(op, a) = Promise!At(op, a)
BY DEF Op, At, Promise!Op, Promise!At

LEMMA PushLiteralAgrees ==
  ASSUME IInv, OperandsDescribed', PushLiteral
  PROVE  Promised
<1>1. <<>> \in Seq(Types) /\ OnTop(<<>>) /\ Len(<<>>) = 0
  BY NothingOnTop DEF IInv
<1>2. ASSUME NEW t \in Types, NEW v \in Seq(Value), Len(v) = Size(t),
             Replace(Op("PUSHL"), <<>>, t, v), Decode(t, v) \in Promise!Value(t)
      PROVE  Promised
  <2>1. Promise!Replace(Op("PUSHL"), Len(<<>>), t, Decode(t, v)) \/ UNCHANGED Promise!vars
    BY <1>1, <1>2, ReplaceAgrees
  <2>2. CASE Promise!Replace(Op("PUSHL"), Len(<<>>), t, Decode(t, v))
    <3>1. Promise!Replace(Promise!Op("PUSHL"), 0, t, Decode(t, v))
      BY <1>1, <2>2, OpsAgree, Zenon
    <3>2. t \in Promise!Types
      BY DEF Promise!Types, Types
    <3>3. Promise!PushLiteral
      BY <1>2, <3>1, <3>2, Zenon DEF Promise!PushLiteral
    <3> QED
      BY <3>3, Zenon DEF Promised, Promise!Next
  <2> QED
    BY <2>1, <2>2 DEF Promised
<1>3. ASSUME NEW t \in {"U16", "I16"}, NEW n \in Literals,
             Replace(Op("PUSHL"), <<>>, t, Encode(n))
      PROVE  Promised
  <2>1. n \in Int
    BY InterpreterAssumption, WidthOfBytes DEF W
  <2>2. t \in Types /\ Size(t) = 2
    BY DEF Types, Size
  <2>3. Encode(n) \in Seq(Value) /\ Len(Encode(n)) = 2
    BY <2>1, Encoded
  <2>4. Decode(t, Encode(n)) \in Promise!Value(t)
    BY <2>1, NumberOfBytes
  <2> QED
    BY <1>2, <1>3, <2>2, <2>3, <2>4
<1>4. ASSUME NEW v \in F32Literals, Replace(Op("PUSHL"), <<>>, "F32", v)
      PROVE  Promised
  <2>1. v \in Seq(Value) /\ Len(v) = Size("F32") /\ "F32" \in Types
    BY InterpreterAssumption DEF Value, B, Size, Types
  <2>2. Decode("F32", v) \in Promise!Value("F32")
    BY DEF Promise!Value
  <2> QED
    BY <1>2, <1>4, <2>1, <2>2
<1> QED
  BY <1>3, <1>4 DEF PushLiteral

LEMMA PushAddressAgrees ==
  ASSUME IInv, OperandsDescribed', NEW a \in Nat, ByteAt(a) \in Value, PushAddress(a)
  PROVE  Promise!Replace(Promise!At("PUSH", a), 0, "U16", ByteAt(a)) \/ UNCHANGED Promise!vars
<1>1. <<>> \in Seq(Types) /\ OnTop(<<>>) /\ Len(<<>>) = 0
  BY NothingOnTop DEF IInv
<1>2. "U16" \in Types /\ Size("U16") = 2
  BY DEF Types, Size
<1>3. Decode("U16", Encode(ByteAt(a))) = ByteAt(a) /\ ByteAt(a) \in Int
  BY ByteFits
<1>4. Encode(ByteAt(a)) \in Seq(Value) /\ Len(Encode(ByteAt(a))) = 2
  BY <1>3, Encoded
<1>5. \/ Promise!Replace(At("PUSH", a), Len(<<>>), "U16", Decode("U16", Encode(ByteAt(a))))
      \/ UNCHANGED Promise!vars
  BY <1>1, <1>2, <1>4, ReplaceAgrees DEF PushAddress
<1> QED
  BY <1>1, <1>3, <1>5, OpsAgree, Zenon

LEMMA PushAgrees ==
  ASSUME IInv, OperandsDescribed', ConstantsFit, PushPort \/ PushConstant
  PROVE  Promised
<1>1. ASSUME NEW p \in 0 .. PORTS - 1, PushAddress(p)
      PROVE  Promised
  <2>1. p \in Nat /\ ByteAt(p) \in Value /\ ByteAt(p) = ports[p]
    BY InterpreterAssumption DEF ByteAt, IInv
  <2>2. Promise!Replace(Promise!At("PUSH", p), 0, "U16", ports[p]) \/ UNCHANGED Promise!vars
    BY <1>1, <2>1, PushAddressAgrees
  <2> QED
    BY <2>2, Zenon DEF Promised, Promise!Next, Promise!PushPort
<1>2. ASSUME NEW c \in DeclaredU16, PushAddress(c.address)
      PROVE  Promised
  <2> DEFINE a == c.address
  <2>1. a \in Nat /\ a >= PORTS /\ Data[a - PORTS] \in Value /\ Data[a - PORTS] = c.value
        /\ PORTS \in Nat
    BY InterpreterAssumption DEF B, Value, ConstantsFit
  <2> HIDE DEF a
  <2>2. ByteAt(a) = c.value /\ ByteAt(a) \in Value
    BY <2>1 DEF ByteAt
  <2>3. PushAddress(a)
    BY <1>2 DEF a
  <2>4. Promise!Replace(Promise!At("PUSH", a), 0, "U16", c.value) \/ UNCHANGED Promise!vars
    BY <2>1, <2>2, <2>3, PushAddressAgrees
  <2>5. Promise!Replace(Promise!At("PUSH", c.address), 0, "U16", c.value) \/ UNCHANGED Promise!vars
    BY <2>4 DEF a
  <2> QED
    BY <2>5, Zenon DEF Promised, Promise!Next, Promise!PushConstant
<1> QED
  BY <1>1, <1>2 DEF PushPort, PushConstant

(* Numbers read from the stack are numbers of their type.                    *)
LEMMA NumbersRead ==
  ASSUME IInv, NEW t \in {"U16", "I16"}, NEW above \in Seq(Types), NEW ts \in Seq(Types), OnTop(ts),
         Bytes(above) + Size(t) <= Bytes(ts)
  PROVE  LET n == OperandUnder(above, t) IN
         n \in Promise!Value(t) /\ n \in Int /\ -(2^W) <= n /\ n <= 2^W
<1>0. t \in Types /\ Size(t) = 2
  BY DEF Types, Size
<1>1. Bytes(types) = Bytes(Consumed(Len(ts))) + Bytes(ts) /\ Consumed(Len(ts)) \in Seq(Types)
  BY OperandsOnTop DEF IInv
<1>2. Bytes(Consumed(Len(ts))) \in Nat /\ Bytes(ts) \in Nat /\ Bytes(above) \in Nat
  BY <1>1, BytesAreCounted
<1>3. Bytes(above) + Size(t) <= opstack.sp
  BY <1>0, <1>1, <1>2 DEF IInv
<1>4. BytesUnder(above, t) \in Seq(Value) /\ Len(BytesUnder(above, t)) = 2
  BY <1>0, <1>3, OperandRead
<1> QED
  BY <1>4, BytesAreANumber DEF OperandUnder

LEMMA TwoNumbersRead ==
  ASSUME IInv, NEW t \in {"U16", "I16"}, OnTop(<<t, t>>)
  PROVE  /\ OperandUnder(<<>>, t) \in Promise!Value(t) /\ OperandUnder(<<>>, t) \in Int
         /\ OperandUnder(<<t>>, t) \in Promise!Value(t) /\ OperandUnder(<<t>>, t) \in Int
         /\ -(2^W) <= OperandUnder(<<t>>, t) /\ OperandUnder(<<t>>, t) <= 2^W
<1>1. t \in Types
  BY DEF Types
<1>2. /\ <<>> \in Seq(Types) /\ <<t>> \in Seq(Types) /\ <<t, t>> \in Seq(Types)
      /\ Bytes(<<>>) + Size(t) <= Bytes(<<t, t>>)
      /\ Bytes(<<t>>) + Size(t) <= Bytes(<<t, t>>)
  BY <1>1, BytesOfOneOrTwo, BytesOfNone, Sizes
<1> QED
  BY <1>2, NumbersRead

LEMMA CalculateAgrees ==
  ASSUME IInv, OperandsDescribed', Calculate
  PROVE  Promised
<1>1. PICK t \in {"U16", "I16"}, op \in {"ADD", "SUB", "MUL", "DIV"} :
        /\ OnTop(<<t, t>>)
        /\ IF op = "DIV" /\ OperandUnder(<<>>, t) = 0
           THEN Exit("undefined")
           ELSE Replace(Op(op), <<t, t>>, t,
                  Encode(ArithmeticResult(op, OperandUnder(<<t>>, t), OperandUnder(<<>>, t))))
  BY DEF Calculate
<1> DEFINE b == OperandUnder(<<>>, t)
           a == OperandUnder(<<t>>, t)
           n == ArithmeticResult(op, a, b)
<1>2. t \in Types /\ Size(t) = 2 /\ <<t, t>> \in Seq(Types) /\ Len(<<t, t>>) = 2
  BY DEF Types, Size
<1>3. a \in Int /\ b \in Int /\ -(2^W) <= a /\ a <= 2^W
  BY <1>1, TwoNumbersRead
<1>4. Promise!OnTop(<<t, t>>) /\ Promise!Operands(2)[1] = a /\ Promise!Operands(2)[2] = b
  BY <1>1, <1>2, TwoRead
<1> HIDE DEF a, b
<1>5. CASE op = "DIV" /\ b = 0
  <2>1. Exit("undefined")
    BY <1>1, <1>5 DEF b
  <2> QED
    BY <2>1, ExitAgrees DEF Promised
<1>6. CASE ~(op = "DIV" /\ b = 0)
  <2>1. Replace(Op(op), <<t, t>>, t, Encode(n))
    BY <1>1, <1>6 DEF a, b
  <2>2. n \in Int /\ Decode(t, Encode(n)) = Promise!Arithmetic(t, op, a, b)
    <3>1. op = "DIV" => b # 0
      BY <1>6
    <3>2. IsBounded(a)
      BY <1>3 DEF IsBounded
    <3>3. IsArithmetic(t, op, a, b, n)
      BY <1>3, <3>1, <3>2, ArithmeticAgrees
    <3> QED
      BY <3>3 DEF IsArithmetic
  <2> HIDE DEF n
  <2>3. Encode(n) \in Seq(Value) /\ Len(Encode(n)) = 2
    BY <2>2, Encoded
  <2>4. \/ Promise!Replace(Op(op), Len(<<t, t>>), t, Decode(t, Encode(n)))
        \/ UNCHANGED Promise!vars
    BY <1>1, <1>2, <2>1, <2>3, ReplaceAgrees
  <2>5. CASE Promise!Replace(Op(op), Len(<<t, t>>), t, Decode(t, Encode(n)))
    <3>1. Promise!Replace(Promise!Op(op), 2, t, Promise!Arithmetic(t, op, a, b))
      BY <1>2, <2>2, <2>5, OpsAgree, Zenon
    <3>2. Promise!Calculate
      BY <1>4, <1>6, <3>1, Zenon DEF Promise!Calculate
    <3> QED
      BY <3>2, Zenon DEF Promised, Promise!Next
  <2> QED
    BY <2>4, <2>5 DEF Promised
<1> QED
  BY <1>5, <1>6

LEMMA CalculateF32Agrees ==
  ASSUME IInv, OperandsDescribed', CalculateF32
  PROVE  Promised
<1> DEFINE t == "F32"
<1>1. PICK v \in F32Literals : Replace(Op("F32"), <<t, t>>, t, v)
  BY DEF CalculateF32
<1>2. OnTop(<<t, t>>) /\ <<t, t>> \in Seq(Types) /\ Len(<<t, t>>) = 2
  BY DEF CalculateF32, Types
<1>3. v \in Seq(Value) /\ Len(v) = Size(t) /\ t \in Types
  BY InterpreterAssumption DEF Value, B, Size, Types
<1>4. \/ Promise!Replace(Op("F32"), Len(<<t, t>>), t, Decode(t, v))
      \/ UNCHANGED Promise!vars
  <2> HIDE DEF t
  <2> QED
    BY <1>1, <1>2, <1>3, ReplaceAgrees
<1>5. Promise!OnTop(<<t, t>>)
  <2> HIDE DEF t
  <2> QED
    BY <1>2, <1>3, TwoRead
<1>6. Decode(t, v) \in {Decode("F32", u) : u \in F32Literals}
  OBVIOUS
<1>7. CASE Promise!Replace(Op("F32"), Len(<<t, t>>), t, Decode(t, v))
  <2>1. Promise!Replace(Promise!Op("F32"), 2, t, Decode(t, v))
    BY <1>2, <1>7, OpsAgree, Zenon
  <2>2. Promise!CalculateF32
    BY <1>5, <1>6, <2>1, Zenon DEF Promise!CalculateF32
  <2> QED
    BY <2>2, Zenon DEF Promised, Promise!Next
<1> QED
  BY <1>4, <1>7 DEF Promised

LEMMA CompareAgrees ==
  ASSUME IInv, OperandsDescribed', OnlySignedCompared, Compare
  PROVE  Promised
<1> DEFINE t == "I16"
           b == OperandUnder(<<>>, t)
           a == OperandUnder(<<t>>, t)
           x(op) == CompareResult(op, a, b)
<1>1. PICK op \in {"EQ", "LT", "GT", "LE", "GE"} :
        OnTop(<<t, t>>) /\ Replace(Op(op), <<t, t>>, "bool", EncodeBool(x(op)))
  BY DEF Compare, OnlySignedCompared
<1>2. t \in Types /\ t \in {"U16", "I16"} /\ <<t, t>> \in Seq(Types) /\ Len(<<t, t>>) = 2
      /\ "bool" \in Types /\ Size("bool") = 1
  BY DEF Types, Size
<1>3. Promise!OnTop(<<t, t>>) /\ Promise!Operands(2)[1] = a /\ Promise!Operands(2)[2] = b
  <2> HIDE DEF t
  <2> QED
    BY <1>1, <1>2, TwoRead
<1> HIDE DEF a, b
<1>4. x(op) = Promise!Order(op, a, b)
  BY DEF CompareResult, Promise!Order
<1> HIDE DEF x, t
<1>5. EncodeBool(x(op)) \in Seq(Value) /\ Len(EncodeBool(x(op))) = Size("bool")
  BY <1>2, BoolEncoded
<1>6. \/ Promise!Replace(Op(op), Len(<<t, t>>), "bool", Decode("bool", EncodeBool(x(op))))
      \/ UNCHANGED Promise!vars
  BY <1>1, <1>2, <1>5, ReplaceAgrees
<1>7. CASE Promise!Replace(Op(op), Len(<<t, t>>), "bool", Decode("bool", EncodeBool(x(op))))
  <2>1. Decode("bool", EncodeBool(x(op))) = IF Promise!Order(op, a, b) THEN 1 ELSE 0
    BY <1>4, BoolOfByte
  <2>2. Promise!Replace(Promise!Op(op), 2, "bool", IF Promise!Order(op, a, b) THEN 1 ELSE 0)
    BY <1>2, <1>7, <2>1, OpsAgree, Zenon
  <2>3. Promise!Compare
    BY <1>2, <1>3, <2>2, Zenon DEF Promise!Compare
  <2> QED
    BY <2>3, Zenon DEF Promised, Promise!Next
<1> QED
  BY <1>6, <1>7 DEF Promised

LEMMA CombineBitsAgrees ==
  ASSUME IInv, OperandsDescribed', CombineBits
  PROVE  Promised
<1> DEFINE t == "U16"
           b == OperandUnder(<<>>, t)
           a == OperandUnder(<<t>>, t)
           n(op) == NumberOf(CombinedBits(op, BitsOf(a), BitsOf(b)))
<1>1. PICK op \in {"AND", "OR", "XOR"} :
        OnTop(<<t, t>>) /\ Replace(Op(op), <<t, t>>, t, Encode(n(op)))
  BY DEF CombineBits
<1>2. t \in Types /\ t \in {"U16", "I16"} /\ <<t, t>> \in Seq(Types) /\ Len(<<t, t>>) = 2
      /\ Size(t) = 2
  BY DEF Types, Size
<1>3. /\ Promise!OnTop(<<t, t>>) /\ Promise!Operands(2)[1] = a /\ Promise!Operands(2)[2] = b
      /\ a \in Int /\ b \in Int
  <2> HIDE DEF t
  <2> QED
    BY <1>1, <1>2, TwoRead, TwoNumbersRead
<1> HIDE DEF a, b
<1>4. n(op) = Promise!BitwiseNumber(op, a, b) /\ n(op) \in 0 .. 2^W - 1
  BY <1>3, CombinedNumber
<1> HIDE DEF n
<1>5. Decode(t, Encode(n(op))) = n(op) /\ Encode(n(op)) \in Seq(Value) /\ Len(Encode(n(op))) = Size(t)
  <2>1. n(op) \in Int
    BY <1>4, Widths
  <2> QED
    BY <1>2, <1>4, <2>1, NumberFits, Encoded
<1> HIDE DEF t
<1>6. \/ Promise!Replace(Op(op), Len(<<t, t>>), t, Decode(t, Encode(n(op))))
      \/ UNCHANGED Promise!vars
  BY <1>1, <1>2, <1>5, ReplaceAgrees
<1>7. CASE Promise!Replace(Op(op), Len(<<t, t>>), t, Decode(t, Encode(n(op))))
  <2>1. Promise!Replace(Promise!Op(op), 2, t, Promise!BitwiseNumber(op, a, b))
    BY <1>2, <1>4, <1>5, <1>7, OpsAgree, Zenon
  <2>2. Promise!CombineBits
    BY <1>3, <2>1, Zenon DEF Promise!CombineBits, t
  <2> QED
    BY <2>2, Zenon DEF Promised, Promise!Next
<1> QED
  BY <1>6, <1>7 DEF Promised

LEMMA ComplementAgreed ==
  ASSUME IInv, OperandsDescribed', Complement
  PROVE  Promised
<1> DEFINE t == "U16"
           a == OperandUnder(<<>>, t)
           n == -1 - a
<1>1. OnTop(<<t>>) /\ Replace(Op("NOT"), <<t>>, t, Encode(n))
  BY DEF Complement
<1>2. t \in Types /\ t \in {"U16", "I16"} /\ <<t>> \in Seq(Types) /\ Len(<<t>>) = 1 /\ Size(t) = 2
  BY DEF Types, Size
<1>3. a \in 0 .. 2^W - 1 /\ a \in Int
  <2>1. Bytes(<<t>>) = 2 /\ Bytes(<<>>) = 0 /\ <<>> \in Seq(Types)
    <3>1. Bytes(<<t>>) = Size(t)
      <4> HIDE DEF t
      <4> QED
        BY <1>2, BytesOfOneOrTwo, Zenon
    <3> QED
      BY <1>2, <3>1, BytesOfNone
  <2>2. Bytes(<<>>) + Size(t) <= Bytes(<<t>>)
    BY <1>2, <2>1
  <2>3. a \in Promise!Value(t) /\ a \in Int
    <3> HIDE DEF t
    <3> QED
      BY <1>1, <1>2, <2>1, <2>2, NumbersRead
  <2>4. Promise!Value(t) = 0 .. 2^W - 1
    BY DEF Promise!Value
  <2> HIDE DEF a, t
  <2> QED
    BY <2>3, <2>4
<1>4. Promise!OnTop(<<t>>) /\ Promise!Operands(1)[1] = a
  <2>1. Promise!OnTop(<<t>>) /\ Promise!Operands(1) = <<a>>
    <3> HIDE DEF t
    <3> QED
      BY <1>1, <1>2, OneRead
  <2> HIDE DEF a, t
  <2> QED
    BY <2>1
<1> HIDE DEF a
<1>5. Decode(t, Encode(n)) = 2^W - 1 - a
  BY <1>3, ComplementAgrees
<1>6. n \in Int
  BY <1>3
<1> HIDE DEF n, t
<1>7. Encode(n) \in Seq(Value) /\ Len(Encode(n)) = Size(t)
  BY <1>2, <1>6, Encoded
<1>8. \/ Promise!Replace(Op("NOT"), Len(<<t>>), t, Decode(t, Encode(n)))
      \/ UNCHANGED Promise!vars
  BY <1>1, <1>2, <1>7, ReplaceAgrees
<1>9. CASE Promise!Replace(Op("NOT"), Len(<<t>>), t, Decode(t, Encode(n)))
  <2>1. Promise!Replace(Promise!Op("NOT"), 1, t, 2^W - 1 - a)
    BY <1>2, <1>5, <1>9, OpsAgree, Zenon
  <2>2. Promise!Complement
    BY <1>4, <2>1, Zenon DEF Promise!Complement, t
  <2> QED
    BY <2>2, Zenon DEF Promised, Promise!Next
<1> QED
  BY <1>8, <1>9 DEF Promised

LEMMA ShiftAgrees ==
  ASSUME IInv, OperandsDescribed', Shift
  PROVE  Promised
<1> DEFINE t == "U16"
           b == OperandUnder(<<>>, t)
           a == OperandUnder(<<t>>, t)
<1>0. PICK op \in {"LSHIFT", "RSHIFT"} : \E n \in Shifted(op, a, b) :
        OnTop(<<t, t>>) /\ Replace(Op(op), <<t, t>>, t, Encode(n))
  BY Zenon DEF Shift
<1>1. PICK n \in Shifted(op, a, b) :
        OnTop(<<t, t>>) /\ Replace(Op(op), <<t, t>>, t, Encode(n))
  BY <1>0
<1>2. t \in Types /\ t \in {"U16", "I16"} /\ <<t, t>> \in Seq(Types) /\ Len(<<t, t>>) = 2
      /\ Size(t) = 2
  BY DEF Types, Size
<1>3. /\ Promise!OnTop(<<t, t>>) /\ Promise!Operands(2)[1] = a /\ Promise!Operands(2)[2] = b
      /\ a \in Promise!Value(t) /\ b \in Promise!Value(t)
  <2> HIDE DEF t
  <2> QED
    BY <1>1, <1>2, TwoRead, TwoNumbersRead
<1> HIDE DEF a, b
<1>4. Promise!Value(t) = 0 .. 2^W - 1
  BY DEF Promise!Value
<1>5. a \in 0 .. 2^W - 1 /\ a \in Int /\ b \in Nat
  BY <1>3, <1>4, Widths
<1>6. 2^b \in Nat \ {0}
  BY <1>5, PowersOfTwo
<1> DEFINE v == Decode(t, Encode(n))
<1>7. /\ n \in Int
      /\ b < 2 * W => v = IF op = "LSHIFT" THEN Promise!Wrapped("U16", a * 2^b) ELSE a \div 2^b
  <2>1. CASE b < 2 * W /\ op = "LSHIFT"
    <3>1. n = a * 2^b
      BY <1>1, <2>1 DEF Shifted
    <3>2. n \in Int
      BY <1>5, <1>6, <3>1
    <3>3. v = Promise!Wrapped("U16", n)
      BY <1>2, <3>2, NumberOfBytes
    <3> HIDE DEF v
    <3> QED
      BY <2>1, <3>1, <3>2, <3>3
  <2>2. CASE b < 2 * W /\ op # "LSHIFT"
    <3>1. n = a \div 2^b
      BY <1>1, <2>2 DEF Shifted
    <3>2. n \in 0 .. 2^W - 1
      BY <1>5, <3>1, ShiftedRight
    <3>3. v = n /\ n \in Int
      BY <3>2, NumberFits, Widths
    <3> HIDE DEF v
    <3> QED
      BY <2>2, <3>1, <3>3
  <2>3. CASE ~(b < 2 * W)
    BY <1>1, <2>3, Widths DEF Shifted
  <2> QED
    BY <2>1, <2>2, <2>3
<1>8. v \in Promise!Value("U16")
  BY <1>7, NumberOfBytes
<1>9. Encode(n) \in Seq(Value) /\ Len(Encode(n)) = Size(t)
  BY <1>2, <1>7, Encoded
<1> HIDE DEF t
<1>10. Promise!Replace(Op(op), Len(<<t, t>>), t, v) \/ UNCHANGED Promise!vars
  BY <1>1, <1>2, <1>9, ReplaceAgrees
<1> HIDE DEF v
<1>11. CASE Promise!Replace(Op(op), Len(<<t, t>>), t, v)
  <2>1. Promise!Replace(Promise!Op(op), 2, "U16", v)
    BY <1>2, <1>11, OpsAgree, Zenon DEF t
  <2>2. Promise!Shift
    BY <1>3, <1>7, <1>8, <2>1, Zenon DEF Promise!Shift, t
  <2> QED
    BY <2>2, Zenon DEF Promised, Promise!Next
<1> QED
  BY <1>10, <1>11 DEF Promised

LEMMA OnePopped ==
  ASSUME IInv, OperandsDescribed', NEW t \in Types, OnTop(<<t>>),
         opstack' = Pop(opstack, Size(t)), types' = Consumed(1)
  PROVE  Operands' = Promise!Consume(1)
<1>1. <<t>> \in Seq(Types) /\ Bytes(<<t>>) = Size(t)
  BY BytesOfOneOrTwo, Zenon
<1>2. Len(<<t>>) = 1
  OBVIOUS
<1>3. opstack' = WithoutTop(opstack, <<t>>) /\ types' = Consumed(Len(<<t>>))
  BY <1>1, <1>2 DEF WithoutTop
<1>4. Operands' = Promise!Consume(Len(<<t>>))
  BY <1>1, <1>3, PoppedAgrees
<1> QED
  BY <1>2, <1>4, Zenon

LEMMA DiscardAgrees ==
  ASSUME IInv, OperandsDescribed', Discard
  PROVE  Promised
<1>1. PICK t \in {"U16", "I16", "F32"} :
        OnTop(<<t>>) /\ Continue(Op("POP"), Pop(opstack, Size(t)), Consumed(1), <<>>)
  BY DEF Discard
<1>2. t \in Types
  BY DEF Types
<1>3. /\ opstack' = Pop(opstack, Size(t)) /\ types' = Consumed(1)
      /\ did' = Op("POP") /\ shown' = <<>> /\ UNCHANGED ports
  BY <1>1 DEF Continue
<1>4. Operands' = Promise!Consume(1) /\ Operands # <<>>
  BY <1>1, <1>2, <1>3, OnePopped, OneRead
<1>5. Promise!Discard
  BY <1>3, <1>4, OpsAgree, Zenon DEF Promise!Discard
<1> QED
  BY <1>5, Zenon DEF Promised, Promise!Next

LEMMA JumpIfFalseAgrees ==
  ASSUME IInv, OperandsDescribed', JumpIfFalse
  PROVE  Promised
<1> DEFINE t == "bool"
           a == OperandUnder(<<>>, t)
<1>1. t \in Types /\ Size(t) = 1
  BY DEF Types, Size
<1>2. /\ OnTop(<<t>>) /\ opstack' = Pop(opstack, Size(t)) /\ types' = Consumed(1)
      /\ did' = Op(IF a = 0 THEN "JUMP" ELSE "STAY") /\ shown' = <<>> /\ UNCHANGED ports
  BY <1>1 DEF JumpIfFalse, Continue
<1> HIDE DEF t
<1>3. /\ Operands' = Promise!Consume(1) /\ Promise!OnTop(<<t>>)
      /\ Promise!Operands(1) = <<a>>
  BY <1>1, <1>2, OnePopped, OneRead
<1> HIDE DEF a
<1>4. Promise!Operands(1)[1] = a
  BY <1>3
<1>5. did' = Promise!Op(IF Promise!Operands(1)[1] = 0 THEN "JUMP" ELSE "STAY")
  BY <1>2, <1>4, OpsAgree
<1>6. Promise!JumpIfFalse
  BY <1>2, <1>3, <1>5, Zenon DEF Promise!JumpIfFalse, t
<1> QED
  BY <1>6, Zenon DEF Promised, Promise!Next

LEMMA WritePortAgrees ==
  ASSUME IInv, OperandsDescribed', WritePort
  PROVE  Promised
<1> DEFINE t == "U16"
           a == OperandUnder(<<>>, t)
<1>1. t \in Types /\ Size(t) = 2
  BY DEF Types, Size
<1>0. CASE Exit("failed")
  BY <1>0, ExitAgrees DEF Promised
<1> SUFFICES ASSUME ~Exit("failed") PROVE Promised
  BY <1>0
<1>7. PICK p \in 0 .. PORTS :
        /\ OnTop(<<t>>) /\ opstack' = Pop(opstack, 2) /\ types' = Consumed(1)
        /\ did' = At("POPA", p) /\ shown' = <<>> /\ ports' = [ports EXCEPT ![p] = a % B]
        /\ p < PORTS
  BY DEF WritePort
<1>2. /\ p \in 0 .. PORTS - 1
      /\ OnTop(<<t>>) /\ opstack' = Pop(opstack, 2) /\ types' = Consumed(1)
      /\ did' = At("POPA", p) /\ shown' = <<>> /\ ports' = [ports EXCEPT ![p] = a % B]
  BY <1>7, InterpreterAssumption
<1>3. B = 2^(W \div 2)
  <2>1. W \div 2 = BITS
    <3>1. BITS \in Nat
      BY InterpreterAssumption
    <3> QED
      BY <3>1 DEF W
  <2> QED
    BY <2>1 DEF B
<1> HIDE DEF t
<1>4. /\ Operands' = Promise!Consume(1) /\ Promise!OnTop(<<t>>)
      /\ Promise!Operands(1) = <<a>>
  BY <1>1, <1>2, OnePopped, OneRead
<1> HIDE DEF a
<1>5. Promise!Operands(1)[1] = a
  BY <1>4
<1>6. ports' = [ports EXCEPT ![p] = Promise!Operands(1)[1] % (2^(W \div 2))]
  BY <1>2, <1>3, <1>5, Zenon
<1>8. Promise!WritePort
  BY <1>2, <1>4, <1>6, OpsAgree, Zenon DEF Promise!WritePort, t
<1> QED
  BY <1>8, Zenon DEF Promised, Promise!Next

LEMMA ShowAgrees ==
  ASSUME IInv, OperandsDescribed', Show
  PROVE  Promised
<1>1. PICK t \in {"U16", "I16", "F32"} :
        OnTop(<<t>>) /\ Continue(Op("TOP"), opstack, types, << OperandUnder(<<>>, t) >>)
  BY DEF Show
<1>2. t \in Types
  BY DEF Types
<1>3. /\ opstack' = opstack /\ types' = types /\ UNCHANGED ports
      /\ did' = Op("TOP") /\ shown' = << OperandUnder(<<>>, t) >>
  BY <1>1 DEF Continue
<1>4. Operands # <<>> /\ shown' = Promise!Operands(1)
  BY <1>1, <1>2, <1>3, OneRead
<1>5. Operands' = Operands
  BY <1>3, UntouchedAgrees
<1>6. Promise!Show
  BY <1>3, <1>4, <1>5, OpsAgree, Zenon DEF Promise!Show
<1> QED
  BY <1>6, Zenon DEF Promised, Promise!Next


(* The operands a format takes, the address of the format on top of them.    *)
Taken(f) == Reverse(f) \o <<"U16">>

LEMMA OfBoth ==
  ASSUME NEW u \in Seq(Types), NEW v \in Seq(Types)
  PROVE  /\ u \o v \in Seq(Types) /\ Len(u \o v) = Len(u) + Len(v)
         /\ \A j \in 1 .. Len(u) : (u \o v)[j] = u[j]
         /\ \A j \in 1 .. Len(v) : (u \o v)[Len(u) + j] = v[j]
BY ConcatProperties, LenProperties

LEMMA TakenOperands ==
  ASSUME NEW f \in Seq(Types)
  PROVE  /\ Taken(f) \in Seq(Types) /\ Len(f) \in Nat /\ Len(Taken(f)) = Len(f) + 1
         /\ \A j \in 1 .. Len(f) : Taken(f)[j] = f[Len(f) - j + 1]
         /\ Taken(f)[Len(f) + 1] = "U16"
<1> DEFINE n == Len(f)
           r == Reverse(f)
           v == <<"U16">>
<1>1. n \in Nat
  OBVIOUS
<1>2. r \in Seq(Types) /\ Len(r) = n /\ \A j \in 1 .. n : r[j] = f[n - j + 1]
  BY <1>1 DEF Reverse
<1>3. v \in Seq(Types) /\ Len(v) = 1 /\ v[1] = "U16"
  BY DEF Types
<1> HIDE DEF r, v
<1>4. /\ r \o v \in Seq(Types) /\ Len(r \o v) = n + 1
      /\ \A j \in 1 .. n : (r \o v)[j] = r[j]
      /\ (r \o v)[n + 1] = v[1]
  <2>1. /\ r \o v \in Seq(Types) /\ Len(r \o v) = Len(r) + Len(v)
        /\ \A j \in 1 .. Len(r) : (r \o v)[j] = r[j]
        /\ \A j \in 1 .. Len(v) : (r \o v)[Len(r) + j] = v[j]
    BY <1>2, <1>3, OfBoth, Zenon
  <2>2. 1 \in 1 .. Len(v)
    BY <1>3
  <2> QED
    BY <1>2, <1>3, <2>1, <2>2
<1>5. Taken(f) = r \o v
  BY DEF Taken, r, v
<1> QED
  BY <1>1, <1>2, <1>3, <1>4, <1>5

(* What is above operand i of a format is what the part before it takes.     *)
LEMMA TakenAbove ==
  ASSUME NEW f \in Seq(Types), NEW i \in 1 .. Len(f)
  PROVE  /\ Len(f) - i + 1 \in 1 .. Len(Taken(f))
         /\ Taken(f)[Len(f) - i + 1] = f[i]
         /\ SubSeq(Taken(f), (Len(f) - i + 1) + 1, Len(Taken(f))) = Taken(SubSeq(f, 1, i - 1))
<1> DEFINE n == Len(f)
           g == SubSeq(f, 1, i - 1)
           ts == Taken(f)
           k == n - i + 1
<1>1. /\ ts \in Seq(Types) /\ n \in Nat /\ Len(ts) = n + 1
      /\ \A j \in 1 .. n : ts[j] = f[n - j + 1]
      /\ ts[n + 1] = "U16"
  BY TakenOperands
<1>2. g \in Seq(Types) /\ Len(g) = i - 1 /\ \A j \in 1 .. i - 1 : g[j] = f[j]
  <2>1. i - 1 \in 0 .. n /\ n \in Nat
    OBVIOUS
  <2> QED
    BY <2>1
<1> HIDE DEF g, ts
<1>3. /\ Taken(g) \in Seq(Types) /\ Len(Taken(g)) = i
      /\ \A j \in 1 .. i - 1 : Taken(g)[j] = g[(i - 1) - j + 1]
      /\ Taken(g)[i] = "U16"
  <2>1. /\ Taken(g) \in Seq(Types) /\ Len(Taken(g)) = Len(g) + 1
        /\ \A j \in 1 .. Len(g) : Taken(g)[j] = g[Len(g) - j + 1]
        /\ Taken(g)[Len(g) + 1] = "U16"
    BY <1>2, TakenOperands, Zenon
  <2>2. (i - 1) + 1 = i
    OBVIOUS
  <2> QED
    BY <1>2, <2>1, <2>2, Zenon
<1>4. k \in 1 .. n /\ k \in 0 .. Len(ts) /\ k \in 1 .. Len(ts) /\ n - k + 1 = i /\ Len(ts) - k = i
  BY <1>1
<1>5. ts[k] = f[i]
  BY <1>1, <1>4
<1> HIDE DEF k
<1> DEFINE u == SubSeq(ts, k + 1, Len(ts))
<1>6. u \in Seq(Types) /\ Len(u) = i /\ \A j \in 1 .. i : u[j] = ts[k + j]
  BY <1>1, <1>4, UpperPart
<1> HIDE DEF u
<1>7. \A j \in 1 .. i : u[j] = Taken(g)[j]
  <2> SUFFICES ASSUME NEW j \in 1 .. i PROVE u[j] = Taken(g)[j]
    OBVIOUS
  <2>1. CASE j = i
    <3>1. k + j = n + 1
      BY <1>1, <1>4, <2>1
    <3> QED
      BY <1>1, <1>3, <1>6, <2>1, <3>1
  <2>2. CASE j # i
    <3>1. /\ k + j \in 1 .. n /\ n - (k + j) + 1 = i - j /\ j \in 1 .. i - 1
          /\ (i - 1) - j + 1 = i - j /\ i - j \in 1 .. i - 1
      BY <1>1, <1>4, <2>2
    <3>2. u[j] = f[i - j]
      BY <1>1, <1>6, <3>1
    <3>3. Taken(g)[j] = f[i - j]
      BY <1>2, <1>3, <3>1
    <3> QED
      BY <3>2, <3>3
  <2> QED
    BY <2>1, <2>2
<1>8. u = Taken(g)
  BY <1>3, <1>6, <1>7, SeqEqual
<1> QED
  BY <1>4, <1>5, <1>8 DEF u, ts, k, g

(* The values below the top one, from the top down.                          *)
LEMMA BelowTop ==
  ASSUME NEW s \in Seq(Int), NEW n \in Nat, Len(s) = n + 1
  PROVE  Tail(Reverse(s)) = [i \in 1 .. n |-> s[n - i + 1]]
<1> DEFINE r == Reverse(s)
<1>1. r \in Seq(Int) /\ Len(r) = n + 1 /\ \A i \in 1 .. n + 1 : r[i] = s[(n + 1) - i + 1]
  BY DEF Reverse
<1> HIDE DEF r
<1>2. r # <<>> /\ Len(r) - 1 = n
  BY <1>1
<1>3. Tail(r) = [i \in 1 .. n |-> Tail(r)[i]] /\ \A i \in 1 .. n : Tail(r)[i] = r[i + 1]
  BY <1>1, <1>2, TailElements
<1>4. \A i \in 1 .. n : Tail(r)[i] = s[n - i + 1]
  <2> SUFFICES ASSUME NEW i \in 1 .. n PROVE Tail(r)[i] = s[n - i + 1]
    OBVIOUS
  <2>1. i + 1 \in 1 .. n + 1 /\ (n + 1) - (i + 1) + 1 = n - i + 1
    OBVIOUS
  <2> QED
    BY <1>1, <1>3, <2>1
<1> QED
  BY <1>3, <1>4 DEF r

LEMMA PrintAgrees ==
  ASSUME IInv, OperandsDescribed', BuiltinPrint
  PROVE  Promised
<1> DEFINE Printed(f) == [i \in DOMAIN f |-> OperandUnder(Taken(SubSeq(f, 1, i - 1)), f[i])]
<1>1. PICK f \in Formats :
        /\ OnTop(Taken(f))
        /\ Continue(Op("PRINT"), WithoutTop(opstack, Taken(f)), Consumed(Len(Taken(f))), Printed(f))
  BY Zenon DEF BuiltinPrint, Taken
<1> DEFINE n == Len(f)
           ts == Taken(f)
           m == Len(types)
           ops == Promise!Operands(n + 1)
<1>2. f \in Seq(Types) /\ n \in Nat /\ DOMAIN f = 1 .. n
  BY InterpreterAssumption DEF Types
<1>3. ts \in Seq(Types) /\ Len(ts) = n + 1 /\ OnTop(ts)
  BY <1>1, <1>2, TakenOperands
<1>4. /\ opstack' = WithoutTop(opstack, ts) /\ types' = Consumed(Len(ts))
      /\ did' = Op("PRINT") /\ shown' = Printed(f) /\ UNCHANGED ports
  BY <1>1, Zenon DEF Continue
<1> HIDE DEF ts, m, Printed
<1>5. Operands' = Promise!Consume(n + 1)
  BY <1>3, <1>4, PoppedAgrees
<1>6. /\ Promise!OnTop(ts) /\ Len(Operands) = m /\ n + 1 <= m
      /\ \A k \in 1 .. n + 1 :
           Operands[m - (n + 1) + k]
             = [type |-> ts[k], value |-> OperandUnder(SubSeq(ts, k + 1, n + 1), ts[k])]
  BY <1>3, TopOperands DEF m
<1>7. ops = [k \in 1 .. n + 1 |-> Operands[m - (n + 1) + k].value]
  BY <1>6 DEF Promise!Operands
<1>8. ops \in Seq(Int) /\ Len(ops) = n + 1
  <2>1. Operands \in Seq(Typed) /\ m \in Nat
    BY OperandsTyped DEF m
  <2>2. ASSUME NEW k \in 1 .. n + 1 PROVE Operands[m - (n + 1) + k].value \in Int
    <3>1. m - (n + 1) + k \in 1 .. Len(Operands)
      BY <1>2, <1>6, <2>1
    <3>2. Operands[m - (n + 1) + k] \in Typed
      BY <2>1, <3>1
    <3> QED
      BY <3>2 DEF Typed
  <2> DEFINE g == [k \in 1 .. n + 1 |-> Operands[m - (n + 1) + k].value]
  <2>3. g \in Seq(Int) /\ Len(g) = n + 1
    BY <1>2, <2>2
  <2> QED
    BY <1>7, <2>3
<1>9. ASSUME NEW i \in 1 .. n
      PROVE  ops[n - i + 1] = OperandUnder(Taken(SubSeq(f, 1, i - 1)), f[i])
  <2> DEFINE k == n - i + 1
  <2>1. /\ k \in 1 .. n + 1 /\ ts[k] = f[i]
        /\ SubSeq(ts, k + 1, n + 1) = Taken(SubSeq(f, 1, i - 1))
    BY <1>2, <1>3, TakenAbove DEF ts
  <2> HIDE DEF k
  <2>2. ops[k] = Operands[m - (n + 1) + k].value
    BY <1>7, <2>1
  <2>3. Operands[m - (n + 1) + k].value = OperandUnder(SubSeq(ts, k + 1, n + 1), ts[k])
    <3>1. Operands[m - (n + 1) + k]
            = [type |-> ts[k], value |-> OperandUnder(SubSeq(ts, k + 1, n + 1), ts[k])]
      BY <1>6, <2>1, Zenon
    <3> QED
      BY <3>1
  <2>4. ops[k] = OperandUnder(Taken(SubSeq(f, 1, i - 1)), f[i])
    BY <2>1, <2>2, <2>3, Zenon
  <2> QED
    BY <2>4 DEF k
<1> HIDE DEF ops
<1>10. shown' = Tail(Reverse(ops))
  <2>1. Tail(Reverse(ops)) = [i \in 1 .. n |-> ops[n - i + 1]]
    BY <1>2, <1>8, BelowTop
  <2>2. Printed(f) = [i \in 1 .. n |-> OperandUnder(Taken(SubSeq(f, 1, i - 1)), f[i])]
    BY <1>2, Zenon DEF Printed
  <2> QED
    BY <1>4, <1>9, <2>1, <2>2
<1>11. Promise!BuiltinPrint
  <2>1. Promise!OnTop(Reverse(f) \o <<"U16">>)
    BY <1>6 DEF ts, Taken
  <2>2. shown' = Tail(Reverse(Promise!Operands(Len(f) + 1)))
    BY <1>10 DEF ops
  <2>3. did' = Promise!Op("PRINT")
    BY <1>4, OpsAgree
  <2>4. \A s : Promise!Reverse(s) = Reverse(s)
    BY DEF Promise!Reverse, Reverse
  <2> QED
    BY <1>4, <1>5, <2>1, <2>2, <2>3, <2>4, Zenon DEF Promise!BuiltinPrint
<1> QED
  BY <1>11, Zenon DEF Promised, Promise!Next

-----------------------------------------------------------------------------
(* The refinement. *)

LEMMA InitAgrees == Init => Promise!Init
<1> SUFFICES ASSUME Init PROVE Promise!Init
  OBVIOUS
<1>1. types = <<>> /\ IInv
  BY InitCounts, Zenon DEF Init
<1>2. Operands = <<>>
  <2>1. Operands \in Seq(Typed) /\ Len(Operands) = 0
    BY <1>1, OperandsTyped
  <2> QED
    BY <2>1, EmptySeq
<1>3. /\ ports = [p \in 0 .. PORTS - 1 |-> 0] /\ shown = <<>> /\ did = Op("")
  BY Zenon DEF Init
<1> QED
  BY <1>2, <1>3, OpsAgree, Zenon DEF Promise!Init

LEMMA StepAgrees ==
  ASSUME IInv, OperandsDescribed', [Next]_vars, OnlySignedCompared, ConstantsFit
  PROVE  Promised
<1>1. CASE Instruction
  BY <1>1, PushLiteralAgrees, PushAgrees, CalculateAgrees, CalculateF32Agrees, CompareAgrees,
     CombineBitsAgrees, ComplementAgreed, ShiftAgrees, DiscardAgrees, JumpIfFalseAgrees,
     WritePortAgrees, ShowAgrees, PrintAgrees, Zenon DEF Instruction
<1>2. CASE UNCHANGED vars
  BY <1>2, UntouchedAgrees, Zenon DEF vars, Promised, Promise!vars
<1>3. Instruction \/ UNCHANGED vars
  BY Zenon DEF Next, Stopped
<1> QED
  BY <1>1, <1>2, <1>3

(* Read off the bytes by the types of its instructions, the stack of a       *)
(* program is a stack of typed operands on which every instruction computes  *)
(* as its types compute: Interpreter implements OperandStack, for every      *)
(* width of a byte.  It does so for programs that COMPARE signed numbers,    *)
(* which is how the instruction reads any two, and whose constants are those *)
(* their one byte can hold, as PUSH_U16 fetches no more.                     *)
THEOREM InterpreterKeepsTypes ==
  ASSUME OnlySignedCompared, ConstantsFit
  PROVE  Spec => OperandsKeepTheirTypes
<1>1. Init => Promise!Init
  BY InitAgrees
<1>2. Spec => []IInv
  BY InitCounts, StepCounts, PTL DEF Spec
<1>3. IInv => OperandsDescribed
  BY Describes
<1>4. IInv /\ OperandsDescribed' /\ [Next]_vars => [Promise!Next]_(Promise!vars)
  BY StepAgrees DEF Promised
<1> QED
  BY <1>1, <1>2, <1>3, <1>4, PTL DEF Spec, OperandsKeepTheirTypes, Promise!Spec
=============================================================================
